------------------------------ MODULE NodeList ------------------------------
(***************************************************************************)
(* The capability list as a sequence of its nodes, and what the two        *)
(* operations of inc/cap_node.h do to it.                                  *)
(***************************************************************************)
EXTENDS SequencesExt

Position(l, s) == CHOOSE k \in DOMAIN l : l[k] = s

(* cap_node_insert puts t directly after s, cap_node_delete takes s out.   *)
InsertAfter(l, s, t) == InsertAt(l, Position(l, s) + 1, t)
TakeOut(l, s)        == RemoveAt(l, Position(l, s))

(* l has the members of X, each once; x stands ahead of y in it.           *)
Lists(l, X)    == l \in Seq(X) /\ IsInjective(l) /\ Range(l) = X
Ahead(l, x, y) == \E i, j \in DOMAIN l : i < j /\ l[i] = x /\ l[j] = y
=============================================================================
