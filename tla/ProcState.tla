----------------------------- MODULE ProcState -----------------------------
(***************************************************************************)
(* The state word of a process (proc_t.state) and the operations that      *)
(* inc/proc_state.h defines on it.  The word is a channel number in its    *)
(* top 16 bits and one of the eight states of enum proc_state in its low   *)
(* bits.  Every action below is one atomic access to the word: a           *)
(* compare-and-set, a fetch-and-or, a fetch-and-and or a plain store.      *)
(***************************************************************************)
EXTENDS Naturals

CONSTANTS
  Procs,      \* the process control blocks
  Channels    \* the channel numbers in use

ASSUME ChannelsAssumption == Channels \subseteq Nat

VARIABLE state  \* state[p]: the state word of process p

READY                  == 0
RUNNING                == 1
WAITING                == 2
RECEIVING              == 3
SUSPENDED              == 4
RUNNING_THEN_SUSPEND   == 5
SUSPENDED_BUSY         == 6
RECEIVING_THEN_SUSPEND == 7

(* `ch << 48 | low'; a state with no channel has zeros where the channel   *)
(* would be, so it cannot be told from the same state on channel 0.        *)
Word(ch, low) == [ch |-> ch, low |-> low]
Plain(low)    == Word(0, low)
Words         == [ch : Channels \union {0}, low : 0 .. 7]

(* Bits of the word: PROC_STATE_SUSPENDED is bit 2, PROC_STATE_WAITING is  *)
(* bit 1.                                                                  *)
HasSuspended(w) == w.low \in {SUSPENDED, RUNNING_THEN_SUSPEND,
                              SUSPENDED_BUSY, RECEIVING_THEN_SUSPEND}
HasWaiting(w)   == w.low \in {WAITING, RECEIVING,
                              SUSPENDED_BUSY, RECEIVING_THEN_SUSPEND}
OrSuspended(w)  == IF HasSuspended(w) THEN w ELSE Word(w.ch, w.low + SUSPENDED)
AndSuspended(w) == Plain(IF HasSuspended(w) THEN SUSPENDED ELSE READY)

compare_and_set(p, expected, desired) ==
  /\ state[p] = expected
  /\ state' = [state EXCEPT ![p] = desired]

Store(p, w) == state' = [state EXCEPT ![p] = w]

----------------------------------------------------------------------------
(* The scheduler takes a ready process and gives it back.  proc_release    *)
(* reads the word and only then, if it is not waiting, clears it.          *)
(* Mutant: the word is stored, not and-ed, and an order to suspend is lost.*)
MutReleaseStores(p) == Store(p, Plain(READY))

proc_acquire(p)       == compare_and_set(p, Plain(READY), Plain(RUNNING))
proc_release_skips(p) == HasWaiting(state[p])
proc_release_and(p)   == Store(p, AndSuspended(state[p]))

(* A supervisor holds a suspended process while it uses its registers and  *)
(* capabilities, resumes it, or orders it to be suspended.                 *)
(* Mutants: any suspended word will do; the word is only tested.           *)
MutAcquireIfSuspended(p) ==
  HasSuspended(state[p]) /\ Store(p, Plain(SUSPENDED_BUSY))
MutAcquireTests(p) == state[p] = Plain(SUSPENDED) /\ UNCHANGED state

proc_supervisor_acquire(p) ==
  compare_and_set(p, Plain(SUSPENDED), Plain(SUSPENDED_BUSY))
proc_supervisor_release(p) == Store(p, Plain(SUSPENDED))
proc_supervisor_resume(p)  == Store(p, Plain(READY))
proc_supervisor_suspend_or(p)   == Store(p, OrSuspended(state[p]))
proc_supervisor_suspend_wait(p) == Store(p, Plain(SUSPENDED))

(* A process waits for a message on a channel; a sender takes a waiting    *)
(* process, fills its registers and lets it go.                            *)
(* Mutant: the waiting process is tested, not taken.                       *)
MutSenderTests(p, ch) == state[p] = Word(ch, WAITING) /\ UNCHANGED state

proc_receiver_wait(p, ch) ==
  compare_and_set(p, Plain(RUNNING), Word(ch, WAITING))
proc_sender_acquire(p, ch) ==
  compare_and_set(p, Word(ch, WAITING), Word(ch, RECEIVING))
proc_sender_release(p) == Store(p, AndSuspended(state[p]))

StateTypeOK == state \in [Procs -> Words]
============================================================================
