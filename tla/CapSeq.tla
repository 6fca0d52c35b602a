------------------------------- MODULE CapSeq -------------------------------
(***************************************************************************)
(* What the capability list promises: a sequence of live capabilities that *)
(* changes one capability at a time, each change in a single step.  A new  *)
(* capability stands right after the one it comes from, so that the        *)
(* capabilities derived from a capability, directly or not, follow it.     *)
(***************************************************************************)
EXTENDS NodeList

CONSTANTS
  Nodes,     \* the slots of the capability tables
  InitList   \* the capabilities of process 0 at boot, in list order

VARIABLE list

Init == list = InitList

Next ==
  LET old == list new == list' IN
    \E s \in ToSet(old) :
      \/ new = TakeOut(old, s)
      \/ \E n \in Nodes \ ToSet(old) : new = InsertAfter(old, s, n)

Spec == Init /\ [][Next]_list
=============================================================================
