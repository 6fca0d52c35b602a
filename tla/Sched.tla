-------------------------------- MODULE Sched --------------------------------
(***************************************************************************)
(* Time: how a hart chooses its next time slice, waits for it, runs its    *)
(* process until the timer fires and gives it back (src/sched.c), while    *)
(* the processes move time capabilities and so rewrite the schedule.       *)
(*                                                                         *)
(* Every process is ready or running: the root has resumed the others, and *)
(* nobody waits or is suspended (Harts models that).  The clock counts     *)
(* within a major frame; when the frame is over, every instant is counted  *)
(* from the next one (Tick), which changes no distance and no quantum.     *)
(* Kernel code takes time: a hart may let up to KERNEL_TICKS pass from a   *)
(* trap, or from reading the clock, to the end of that piece of code.      *)
(***************************************************************************)
EXTENDS Integers, FiniteSets

CONSTANTS
  Harts,            \* MIN_HARTID .. MAX_HARTID
  Procs,            \* the pids 0 .. N_PROC - 1; 0 is the root process
  N_QUANTUM,        \* quanta in a major frame
  TICKS,            \* ticks in a quantum
  SCHEDULER_TICKS,  \* the part of a slice that is left to the scheduler
  KERNEL_TICKS,     \* bound on the duration of a piece of kernel code
  MAX_TIMES         \* MAX_TIMES[h]: bound on the capabilities to time on hart h

ASSUME SchedAssumption ==
  /\ Harts \subseteq Nat /\ Procs \subseteq Nat /\ 0 \in Procs
  /\ N_QUANTUM \in Nat \ {0} /\ TICKS \in Nat \ {0}
  /\ SCHEDULER_TICKS \in Nat /\ KERNEL_TICKS \in Nat
  /\ KERNEL_TICKS < SCHEDULER_TICKS /\ KERNEL_TICKS < TICKS
  /\ MAX_TIMES \in [Harts -> Nat]

Quanta == 0 .. N_QUANTUM - 1
FRAME  == N_QUANTUM * TICKS

VARIABLES
  now,       \* mtime, within the current major frame
  schedule,  \* schedule[h][q]: a pid and a length
  times,     \* the time capabilities: hart, [free, end) and holder
  running,   \* the processes that a hart has acquired
  timeout,   \* timeout[p]: regs.timeout of process p
  pc,        \* pc[h]: where hart h is
  slice,     \* slice[h]: the locals of sched_start: time, proc, length, timeout
  mtimecmp,  \* mtimecmp[h]: when the timer of hart h fires
  lag,       \* lag[h]: ticks that this piece of kernel code has taken
  due,       \* history: the first quantum h has offered to nobody yet
  given      \* history: quanta of h that changed hands since h chose its slice

vars == <<now, schedule, times, running, timeout, pc, slice, mtimecmp, lag,
          due, given>>

Labels == {"loop", "own", "lower", "timeout", "acquire", "wait", "resume",
           "user", "yield"}
Serving == {"wait", "resume", "user", "yield"}

NoSlice == [time |-> 0, proc |-> 0, length |-> 0, timeout |-> 0]

(* sched_init; no hart has a process.                                      *)
Init ==
  /\ now = 0
  /\ schedule = [h \in Harts |-> [q \in Quanta |-> [pid |-> 0, length |-> N_QUANTUM - q]]]
  /\ times = {[hart |-> h, free |-> 0, end |-> N_QUANTUM, pid |-> 0] : h \in Harts}
  /\ running = {}
  /\ timeout = [p \in Procs |-> 0]
  /\ pc = [h \in Harts |-> "loop"]
  /\ slice = [h \in Harts |-> NoSlice]
  /\ mtimecmp = [h \in Harts |-> 0]
  /\ lag = [h \in Harts |-> 0]
  /\ due = [h \in Harts |-> 1]
  /\ given = [h \in Harts |-> {}]

From(h, l) == pc[h] = l
Goto(h, l) == pc' = [pc EXCEPT ![h] = l]

Start(s) == s.time * TICKS

(* Mutant: nothing is left to the scheduler. *)
MutEnd(s) == (s.time + s.length) * TICKS

End(s)   == (s.time + s.length) * TICKS - SCHEDULER_TICKS
Later(a, b) == IF a > b THEN a ELSE b

(* No comparison tells instants more than a margin ago apart.              *)
Past(t) == Later(t, -SCHEDULER_TICKS)

(* The hart goes back to the top of its loop; its locals are dead.         *)
Retry(h) == Goto(h, "loop") /\ slice' = [slice EXCEPT ![h] = NoSlice]

----------------------------------------------------------------------------
(* Mutant: the quantum after the next. *)
MutReadTime(h) ==
  /\ From(h, "loop")
  /\ slice' = [slice EXCEPT ![h].time = now \div TICKS + 2]
  /\ due' = [due EXCEPT ![h] = Later(@, now \div TICKS + 2)]
  /\ lag' = [lag EXCEPT ![h] = 0]
  /\ Goto(h, "own")
  /\ UNCHANGED <<now, schedule, times, running, timeout, mtimecmp, given>>

(* sched_start: which quantum comes next?                                  *)
ReadTime(h) ==
  /\ From(h, "loop")
  /\ slice' = [slice EXCEPT ![h].time = now \div TICKS + 1]
  /\ due' = [due EXCEPT ![h] = Later(@, now \div TICKS + 2)]
  /\ lag' = [lag EXCEPT ![h] = 0]
  /\ Goto(h, "own")
  /\ UNCHANGED <<now, schedule, times, running, timeout, mtimecmp, given>>

(* sched_get_proc reads the entry of the quantum, without the lock ...     *)
ReadOwnEntry(h) ==
  /\ From(h, "own")
  /\ LET e == schedule[h][slice[h].time % N_QUANTUM]
     IN  slice' = [slice EXCEPT ![h].proc = e.pid, ![h].length = e.length]
  /\ given' = [given EXCEPT ![h] = {}]
  /\ Goto(h, "lower")
  /\ UNCHANGED <<now, schedule, times, running, timeout, mtimecmp, lag, due>>

(* Mutant: a hart gives way to whatever a lower one has to run. *)
MutReadLowerEntries(h) ==
  /\ From(h, "lower")
  /\ IF \E l \in Harts : l < h /\
           schedule[l][slice[h].time % N_QUANTUM].pid \in Procs
     THEN Retry(h)
     ELSE Goto(h, "timeout") /\ UNCHANGED slice
  /\ UNCHANGED <<now, schedule, times, running, timeout, mtimecmp, lag, due, given>>

(* ... and those of the harts with lower ids, which take precedence.       *)
ReadLowerEntries(h) ==
  /\ From(h, "lower")
  /\ IF \E l \in Harts : l < h /\
           schedule[l][slice[h].time % N_QUANTUM].pid = slice[h].proc
     THEN Retry(h)
     ELSE Goto(h, "timeout") /\ UNCHANGED slice
  /\ UNCHANGED <<now, schedule, times, running, timeout, mtimecmp, lag, due, given>>

(* The process may sleep beyond the end of the slice.  Its timeout is read *)
(* before it is acquired.                                                  *)
ReadTimeout(h) ==
  /\ From(h, "timeout")
  /\ IF timeout[slice[h].proc] >= End(slice[h])
     THEN Retry(h)
     ELSE /\ slice' = [slice EXCEPT ![h].timeout = timeout[slice[h].proc]]
          /\ Goto(h, "acquire")
  /\ UNCHANGED <<now, schedule, times, running, timeout, mtimecmp, lag, due, given>>

(* proc_acquire, and the first half of wait_and_set_timeout.               *)
Acquire(h) ==
  /\ From(h, "acquire")
  /\ IF slice[h].proc \in running
     THEN Retry(h) /\ UNCHANGED <<running, mtimecmp, due>>
     ELSE /\ running' = running \union {slice[h].proc}
          /\ mtimecmp' = [mtimecmp EXCEPT ![h] = Later(Start(slice[h]), slice[h].timeout)]
          /\ due' = [due EXCEPT ![h] = Later(@, slice[h].time + slice[h].length)]
          /\ Goto(h, "wait") /\ UNCHANGED slice
  /\ UNCHANGED <<now, schedule, times, timeout, lag, given>>

(* trap_resume_proc enables interrupts: a pending one is taken, otherwise  *)
(* the process runs.                                                       *)
trap_resume_proc(h) == Goto(h, IF now >= mtimecmp'[h] THEN "yield" ELSE "user")

(* The start of the slice has come; the timer is set to its end.           *)
WaitOver(h) ==
  /\ From(h, "wait")
  /\ now >= mtimecmp[h]
  /\ mtimecmp' = [mtimecmp EXCEPT ![h] = End(slice[h])]
  /\ trap_resume_proc(h)
  /\ UNCHANGED <<now, schedule, times, running, timeout, slice, lag, due, given>>

(* The end of a system call.                                               *)
Resume(h) ==
  /\ From(h, "resume")
  /\ UNCHANGED <<now, schedule, times, running, timeout, slice, mtimecmp, lag,
                 due, given>>
  /\ trap_resume_proc(h)

(* The timer interrupt ends the slice.                                     *)
Timer(h) ==
  /\ From(h, "user")
  /\ now >= mtimecmp[h]
  /\ lag' = [lag EXCEPT ![h] = 0]
  /\ Goto(h, "yield")
  /\ UNCHANGED <<now, schedule, times, running, timeout, slice, mtimecmp, due, given>>

(* sched_yield: the process is released, and the hart starts over.         *)
Release(h) ==
  /\ From(h, "yield")
  /\ running' = running \ {slice[h].proc}
  /\ Retry(h)
  /\ UNCHANGED <<now, schedule, times, timeout, mtimecmp, lag, due, given>>

----------------------------------------------------------------------------
(* System calls, made by a process whose timer has not fired.              *)
Ecall(h) == From(h, "user") /\ now < mtimecmp[h]

(* syscall_yield: the process sleeps until the timer would have fired.     *)
Yield(h) ==
  /\ Ecall(h)
  /\ timeout' = [timeout EXCEPT ![slice[h].proc] = mtimecmp[h]]
  /\ lag' = [lag EXCEPT ![h] = 0]
  /\ Goto(h, "yield")
  /\ UNCHANGED <<now, schedule, times, running, slice, mtimecmp, due, given>>

(* Mutant: every entry has the length of the range. *)
MutSchedUpdate(g, begin, end, p) ==
  /\ schedule' = [schedule EXCEPT ![g] = [q \in Quanta |->
       IF begin <= q /\ q < end THEN [pid |-> p, length |-> end - begin] ELSE @[q]]]
  /\ given' = [given EXCEPT ![g] =
       @ \union {q \in begin .. end - 1 : schedule[g][q].pid # p}]

(* The entries of [begin, end) in the row of hart g.  The loop over the    *)
(* quanta is one step: a reader looks at one quantum of a row.             *)
sched_update(g, begin, end, p) ==
  /\ schedule' = [schedule EXCEPT ![g] = [q \in Quanta |->
       IF begin <= q /\ q < end THEN [pid |-> p, length |-> end - q] ELSE @[q]]]
  /\ given' = [given EXCEPT ![g] =
       @ \union {q \in begin .. end - 1 : schedule[g][q].pid # p}]

(* syscall_derive_cap: the new capability is the front of the old one.     *)
DeriveTime(h) ==
  /\ Ecall(h)
  /\ \E c \in times : \E e \in c.free + 1 .. c.end - 1 :
       /\ c.pid = slice[h].proc
       /\ Cardinality({d \in times : d.hart = c.hart}) < MAX_TIMES[c.hart]
       /\ sched_update(c.hart, c.free, e, c.pid)
       /\ times' = (times \ {c}) \union {[c EXCEPT !.end = e], [c EXCEPT !.free = e]}
  /\ lag' = [lag EXCEPT ![h] = 0]
  /\ Goto(h, "resume")
  /\ UNCHANGED <<now, running, timeout, slice, mtimecmp, due>>

(* interprocess_move of a time capability.                                 *)
MoveTime(h) ==
  /\ Ecall(h)
  /\ \E c \in times : \E p \in Procs \ {c.pid} :
       /\ c.pid = slice[h].proc
       /\ sched_update(c.hart, c.free, c.end, p)
       /\ times' = (times \ {c}) \union {[c EXCEPT !.pid = p]}
  /\ lag' = [lag EXCEPT ![h] = 0]
  /\ Goto(h, "resume")
  /\ UNCHANGED <<now, running, timeout, slice, mtimecmp, due>>

----------------------------------------------------------------------------
(* Where time may pass: in user mode and in the wait until the timer       *)
(* fires, elsewhere for KERNEL_TICKS.                                      *)
Idle(h) == pc[h] \in {"user", "wait"} /\ now < mtimecmp[h]

MayPass(h) == Idle(h) \/ (pc[h] # "user" /\ lag[h] < KERNEL_TICKS)

Tick ==
  /\ \A h \in Harts : MayPass(h)
  /\ lag' = [h \in Harts |-> IF Idle(h) THEN 0 ELSE lag[h] + 1]
  /\ IF now + 1 < FRAME
     THEN now' = now + 1 /\ UNCHANGED <<slice, mtimecmp, timeout, due>>
     ELSE /\ now' = 0
          /\ slice' = [h \in Harts |-> IF From(h, "loop") THEN NoSlice
               ELSE [slice[h] EXCEPT !.time = @ - N_QUANTUM, !.timeout = Past(@ - FRAME)]]
          /\ mtimecmp' = [h \in Harts |-> Past(mtimecmp[h] - FRAME)]
          /\ timeout' = [p \in Procs |-> Past(timeout[p] - FRAME)]
          /\ due' = [h \in Harts |-> due[h] - N_QUANTUM]
  /\ UNCHANGED <<schedule, times, running, pc, given>>

KernelStep(h) ==
  \/ ReadTime(h) \/ ReadOwnEntry(h) \/ ReadLowerEntries(h) \/ ReadTimeout(h)
  \/ Acquire(h) \/ WaitOver(h) \/ Resume(h) \/ Timer(h) \/ Release(h)

Next ==
  \/ Tick
  \/ \E h \in Harts : KernelStep(h) \/ Yield(h) \/ DeriveTime(h) \/ MoveTime(h)

Spec == Init /\ [][Next]_vars

(* Time passes, and a hart in the kernel goes on.                          *)
FairSpec == Spec /\ WF_vars(Tick) /\ \A h \in Harts : WF_vars(KernelStep(h))
----------------------------------------------------------------------------
Entry == [pid : Procs, length : 1 .. N_QUANTUM]
Instant == -FRAME - SCHEDULER_TICKS .. 2 * FRAME

TypeOK ==
  /\ now \in 0 .. FRAME - 1
  /\ schedule \in [Harts -> [Quanta -> Entry]]
  /\ times \subseteq [hart : Harts, free : Quanta, end : 1 .. N_QUANTUM, pid : Procs]
  /\ running \subseteq Procs
  /\ timeout \in [Procs -> Instant]
  /\ pc \in [Harts -> Labels]
  /\ slice \in [Harts -> [time : -N_QUANTUM .. N_QUANTUM, proc : Procs,
                          length : 0 .. N_QUANTUM, timeout : Instant]]
  /\ mtimecmp \in [Harts -> Instant]
  /\ lag \in [Harts -> 0 .. KERNEL_TICKS]
  /\ due \in [Harts -> -N_QUANTUM .. 2 * N_QUANTUM + 1]
  /\ given \in [Harts -> SUBSET Quanta]

(* A process in user mode is in a quantum of the slice the hart chose, and *)
(* the schedule gives it that quantum, unless it has changed hands since.  *)
RunsInItsQuanta ==
  \A h \in Harts : From(h, "user") =>
    LET q == now \div TICKS
    IN  /\ slice[h].time <= q /\ q < slice[h].time + slice[h].length
        /\ schedule[h][q].pid = slice[h].proc \/ q \in given[h]

(* A slice ends with its major frame, and with it what is left of a        *)
(* schedule that has changed since.                                        *)
SliceEndsWithFrame ==
  \A h \in Harts : pc[h] \in Serving =>
    (slice[h].time % N_QUANTUM) + slice[h].length <= N_QUANTUM

(* SCHEDULER_TICKS: the hart is back in time for the quantum after its     *)
(* slice, so that it offers every quantum to its owner.                    *)
NoQuantumSkipped ==
  [][\A h \in Harts : From(h, "loop") /\ pc'[h] = "own" => slice'[h].time <= due[h]]_vars

(* A process that from some time on has time on one hart only, always some *)
(* slice longer than the margin, runs again and again, whatever others own *)
(* beside it and do with it.  On two harts it may starve: a hart that finds*)
(* it held by the other retries until a short rest of the slice is left.   *)
Keeps(p) ==
  \E h \in Harts :
    /\ \E q \in Quanta :
         /\ schedule[h][q].pid = p
         /\ schedule[h][q].length * TICKS > SCHEDULER_TICKS + KERNEL_TICKS
    /\ \A g \in Harts \ {h}, r \in Quanta : schedule[g][r].pid # p

OwnerRuns ==
  \A p \in Procs :
    <>[]Keeps(p) => []<>(\E h \in Harts : From(h, "user") /\ slice[h].proc = p)
============================================================================
