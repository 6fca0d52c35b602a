------------------------------- MODULE MCSched -------------------------------
(* Two harts; the time of the second may be divided, so that it has slices *)
(* of one and of two quanta in a frame of three, and other owners beside   *)
(* each.                                                                   *)
EXTENDS Sched

DivideSecond == [h \in Harts |-> IF h = 2 THEN 2 ELSE 1]
=============================================================================
