----------------------------- MODULE TicketLock -----------------------------
(***************************************************************************)
(* The ticket lock of inc/lock.h, which sched_update and puts take.  Both  *)
(* counters are 32-bit integers that wrap around; Tickets is their number  *)
(* of values (2^32), and only a difference of counters means anything.     *)
(***************************************************************************)
EXTENDS Integers, FiniteSets

CONSTANTS Harts, Tickets

(* There are more tickets than harts, so no two harts hold the same one. *)
ASSUME TicketsAssumption ==
  /\ IsFiniteSet(Harts)
  /\ Tickets \in Nat /\ Cardinality(Harts) < Tickets

VARIABLES
  now_serving, next_ticket,
  pc,        \* pc[h]: outside, spinning in lock_acquire, or inside
  ticket     \* ticket[h]: the local of lock_acquire

vars == <<now_serving, next_ticket, pc, ticket>>

Init ==
  /\ now_serving = 0 /\ next_ticket = 0
  /\ pc = [h \in Harts |-> "outside"]
  /\ ticket = [h \in Harts |-> 0]

(* Mutant: the counter does not wrap. *)
MutInc(t) == t + 1

(* (t + 1) % Tickets *)
Inc(t) == IF t = Tickets - 1 THEN 0 ELSE t + 1

(* Mutant: the ticket is read and not taken. *)
MutTakeTicket(h) ==
  /\ pc[h] = "outside"
  /\ ticket' = [ticket EXCEPT ![h] = next_ticket]
  /\ pc' = [pc EXCEPT ![h] = "spinning"]
  /\ UNCHANGED <<next_ticket, now_serving>>

(* lock_acquire: fetch_and_add, then spin until the ticket is served. *)
TakeTicket(h) ==
  /\ pc[h] = "outside"
  /\ ticket' = [ticket EXCEPT ![h] = next_ticket]
  /\ next_ticket' = Inc(next_ticket)
  /\ pc' = [pc EXCEPT ![h] = "spinning"]
  /\ UNCHANGED now_serving

(* Mutant: a ticket that has been passed over may enter too. *)
MutEnter(h) ==
  /\ pc[h] = "spinning" /\ ticket[h] <= now_serving
  /\ pc' = [pc EXCEPT ![h] = "inside"]
  /\ UNCHANGED <<now_serving, next_ticket, ticket>>

(* Mutant: the hart tests once, and gives up. *)
MutEnterOnce(h) ==
  /\ pc[h] = "spinning"
  /\ pc' = [pc EXCEPT ![h] = IF ticket[h] = now_serving THEN "inside"
                             ELSE "outside"]
  /\ UNCHANGED <<now_serving, next_ticket, ticket>>

Enter(h) ==
  /\ pc[h] = "spinning" /\ ticket[h] = now_serving
  /\ pc' = [pc EXCEPT ![h] = "inside"]
  /\ UNCHANGED <<now_serving, next_ticket, ticket>>

(* lock_release: only the holder writes now_serving, so its load and store *)
(* are one step.                                                           *)
lock_release(h) ==
  /\ pc[h] = "inside"
  /\ now_serving' = Inc(now_serving)
  /\ pc' = [pc EXCEPT ![h] = "outside"]
  /\ UNCHANGED <<next_ticket, ticket>>

Step(h) == TakeTicket(h) \/ Enter(h) \/ lock_release(h)
Next    == \E h \in Harts : Step(h)
Spec    == Init /\ [][Next]_vars

(* A hart at the lock runs with interrupts off. *)
FairSpec == Spec /\ \A h \in Harts : WF_vars(Enter(h) \/ lock_release(h))
-----------------------------------------------------------------------------
(* How many increments lead from counter a to counter b. *)
Distance(a, b) == IF a <= b THEN b - a ELSE b - a + Tickets

Engaged == {h \in Harts : pc[h] # "outside"}

TypeOK ==
  /\ now_serving \in 0 .. Tickets - 1 /\ next_ticket \in 0 .. Tickets - 1
  /\ pc \in [Harts -> {"outside", "spinning", "inside"}]
  /\ ticket \in [Harts -> 0 .. Tickets - 1]

(* The tickets from now_serving up to next_ticket are out, each to one     *)
(* hart; the hart inside has the first of them.                            *)
TicketsOut ==
  /\ Cardinality(Engaged) = Distance(now_serving, next_ticket)
  /\ \A h \in Engaged :
       Distance(now_serving, ticket[h]) < Distance(now_serving, next_ticket)
  /\ \A g, h \in Engaged : ticket[g] = ticket[h] => g = h
  /\ \A h \in Harts : pc[h] = "inside" => ticket[h] = now_serving

(* lock_acquire returns to one hart at a time, wrap-around or not. *)
MutualExclusion ==
  \A g, h \in Harts : pc[g] = "inside" /\ pc[h] = "inside" => g = h

(* Harts enter in the order of their fetch_and_adds, as in FifoLock. *)
line ==
  [i \in 1 .. Distance(now_serving, next_ticket) |->
     CHOOSE h \in Engaged : Distance(now_serving, ticket[h]) = i - 1]

F == INSTANCE FifoLock WITH inside <- \E h \in Harts : pc[h] = "inside"
ServedInOrder == F!Spec

(* A hart that asks for the lock gets it. *)
AcquireReturns == \A h \in Harts : pc[h] = "spinning" ~> pc[h] = "inside"
=============================================================================
