------------------------------ MODULE FifoLock ------------------------------
(* What a ticket lock promises: harts get the lock one at a time, in the   *)
(* order in which they asked for it.                                       *)
EXTENDS Sequences

CONSTANT Harts

VARIABLES
  line,     \* the harts that have asked, the oldest first
  inside    \* the first of the line has the lock

Init == line = <<>> /\ inside = FALSE

Ask(h) ==
  /\ \A i \in DOMAIN line : line[i] # h
  /\ line' = Append(line, h)
  /\ UNCHANGED inside

Get ==
  /\ line # <<>> /\ ~inside
  /\ inside' = TRUE
  /\ UNCHANGED line

GiveBack ==
  /\ inside
  /\ inside' = FALSE
  /\ line' = Tail(line)

Next == Get \/ GiveBack \/ \E h \in Harts : Ask(h)

Spec == Init /\ [][Next]_<<line, inside>>
=============================================================================
