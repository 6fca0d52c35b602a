------------------------------- MODULE MCTrap -------------------------------
(* Two processes that compute different registers, on small words.         *)
EXTENDS Trap

CONSTANTS p1, p2, h1

OwnFiles == [r \in Procs |->
  IF r = p1 THEN {[pc |-> 0, sp |-> 10, tp |-> 11, a0 |-> 12, a1 |-> 13, x |-> 12]}
  ELSE {[pc |-> 4, sp |-> 20, tp |-> 21, a0 |-> 0, a1 |-> 23, x |-> 24]}]

(* p1 executes mret and has an exception with the same mtval; p2 has none. *)
OneFaults == [r \in Procs |->
  IF r = p1 THEN {[cause |-> 2, val |-> MRET], [cause |-> 4, val |-> MRET]} ELSE {}]

(* p1 reads a word and is sent one; p2 is not.                             *)
OneValues == [r \in Procs |-> IF r = p1 THEN {12} ELSE {}]

(* p1 sets its handler and the register that a call answers in.            *)
OneWrites == [r \in Procs |->
  IF r = p1 THEN {[reg |-> "tpc", val |-> 4], [reg |-> "a0", val |-> 12]} ELSE {}]
=============================================================================
