----------------------------- MODULE MCCapList -----------------------------
(* A list of few slots for TLC. *)
EXTENDS CapList, TLC

CONSTANTS n1, n2, n3, n4

TwoCaps   == <<n1, n2>>
ThreeCaps == <<n1, n2, n3>>
AllCalls  == [h \in Harts |-> {"derive", "move", "delete"}]

(* One hart only inserts, so that no two removals meet. *)
OneRemover == 1 :> {"derive"} @@ 2 :> {"derive", "move", "delete"}
============================================================================
