-------------------------------- MODULE Trap --------------------------------
(***************************************************************************)
(* How a hart enters the kernel, serves a trap and returns to user mode    *)
(* (src/trap.S, src/exception.c), and where it may be preempted on the way:*)
(* in the first half of derive and revoke (src/inc/preemption.h), and in   *)
(* trap_resume_proc, which restores the registers with interrupts enabled. *)
(* A hart runs straight on while they are disabled, and nobody looks at    *)
(* the registers of a process that runs: such a stretch is one step.       *)
(*                                                                         *)
(* Register x stands for all that are not named; sp stands for gp too.     *)
(* What other processes do to one that waits is Message and Resumed;       *)
(* Harts and Ipc model how, and what supervisors write.                    *)
(***************************************************************************)
EXTENDS Integers

CONSTANTS
  Harts,         \* MIN_HARTID .. MAX_HARTID
  Procs,
  Files,         \* Files[p]: the register files that process p computes
  Errors,        \* results of failed system calls
  Values,        \* Values[p]: words that calls and messages bring to process p
  Writes,        \* Writes[p]: what p writes with syscall_write_reg
  Faults,        \* Faults[p]: mcause and mtval of the exceptions of process p
  MRET,          \* what exception_handler takes for the encoding of mret
  WORD,          \* 2^64
  Null,          \* 0 in mscratch and in tp
  Kernel         \* a value the kernel leaves in a register

Registers == {"pc", "sp", "tp", "a0", "a1", "x"}
TrapRegs  == {"tpc", "tsp", "ppc", "psp", "pa0", "pa1"}
ERROR_OK == 0
ERROR_PREEMPTED == 3
ERROR_INTERRUPTED == 4
ILLEGAL_INSTRUCTION == 2

ASSUME TrapAssumption ==
  /\ WORD \in Nat \ {0}
  /\ Files \in [Procs -> SUBSET [Registers -> Int]]
  /\ Writes \in [Procs -> SUBSET [reg : Registers \union TrapRegs, val : Int]]
  /\ Faults \in [Procs -> SUBSET [cause : Int, val : Int]]
  /\ Errors \subseteq Int /\ Values \in [Procs -> SUBSET Int]
  /\ Null \notin Procs

VARIABLES
  regs,      \* regs[p]: the saved registers of process p
  trapped,   \* trapped[p]: the registers of process p for its exceptions
  taken,     \* the processes that a hart has acquired
  blocked,   \* the processes that wait for a message or are suspended
  made,      \* a bit that flips when a derivation takes effect
  pc,        \* pc[h]: where hart h is
  live,      \* live[h]: the registers of hart h
  mepc,      \* mepc[h]: where the trap came from, or where mret goes
  mscratch,  \* mscratch[h]: the process in user mode, or Null
  mie        \* mie[h]: interrupts are enabled in the kernel

vars == <<regs, trapped, taken, blocked, made, pc, live, mepc, mscratch, mie>>
csrs == <<mepc, mscratch, mie>>

(* The kernel clobbers them all.                                           *)
InKernel == [r \in Registers |-> Kernel]

(* The root's registers are zero but for the pc, those of the others are   *)
(* what their supervisor wrote before it resumed them, as it has here.     *)
Init ==
  /\ regs \in {r \in [Procs -> UNION {Files[p] : p \in Procs}] :
                \A p \in Procs : r[p] \in Files[p]}
  /\ trapped = [p \in Procs |-> [r \in TrapRegs |-> 0]]
  /\ taken = {} /\ blocked = {}
  /\ made = FALSE
  /\ pc = [h \in Harts |-> "sched"]
  /\ live = [h \in Harts |-> InKernel]
  /\ mepc = [h \in Harts |-> 0]
  /\ mscratch = [h \in Harts |-> Null]
  /\ mie = [h \in Harts |-> FALSE]

From(h, l) == pc[h] = l
Goto(h, l) == pc' = [pc EXCEPT ![h] = l]
current(h) == live[h].tp

----------------------------------------------------------------------------
(* In user mode.                                                           *)
Compute(h) ==
  /\ From(h, "user")
  /\ \E f \in Files[mscratch[h]] : live' = [live EXCEPT ![h] = f]
  /\ UNCHANGED <<regs, trapped, taken, blocked, made, pc, csrs>>

(* trap_entry: tp and mscratch change places.  A process in tp: the trap   *)
(* came from user mode, all registers go into the process, and the kernel  *)
(* takes over.  Null: the timer preempts the kernel; nothing is saved, for *)
(* the process is not in user mode.                                        *)
trap_entry(h, label) ==
  LET p == mscratch[h]
  IN  /\ IF p = Null
         THEN Goto(h, "yield") /\ UNCHANGED <<regs, live>>
         ELSE /\ regs' = [regs EXCEPT ![p] = [live[h] EXCEPT !.pc = mepc'[h]]]
              /\ live' = [live EXCEPT ![h] = [InKernel EXCEPT !.tp = p]]
              /\ Goto(h, label)
      /\ mscratch' = [mscratch EXCEPT ![h] = Null]
      /\ UNCHANGED <<trapped, taken, blocked, made>>

TrapUser(h, label) ==
  /\ From(h, "user")
  /\ mepc' = [mepc EXCEPT ![h] = live[h].pc]
  /\ trap_entry(h, label)
  /\ UNCHANGED mie

TimerInterrupt(h) == TrapUser(h, "yield")
Ecall(h)          == TrapUser(h, "syscall")
Fault(h)          == TrapUser(h, "exception") /\ Faults[mscratch[h]] # {}

KernelInterrupt(h) ==
  /\ mie[h]
  /\ mepc' = [mepc EXCEPT ![h] = Kernel]
  /\ trap_entry(h, "yield")
  /\ mie' = [mie EXCEPT ![h] = FALSE]

----------------------------------------------------------------------------
(* trap_exception and exception_handler: mret in the handler brings back   *)
(* the registers that the exception saved; any other exception saves them, *)
(* whatever was saved before, and leads into the handler.                  *)
LeaveHandler(p) ==
  /\ regs' = [regs EXCEPT ![p].pc = trapped[p].ppc, ![p].sp = trapped[p].psp,
                          ![p].a0 = trapped[p].pa0, ![p].a1 = trapped[p].pa1]
  /\ UNCHANGED trapped

EnterHandler(p, f, at) ==
  /\ trapped' = [trapped EXCEPT ![p].ppc = at, ![p].psp = regs[p].sp,
                                ![p].pa0 = regs[p].a0, ![p].pa1 = regs[p].a1]
  /\ regs' = [regs EXCEPT ![p].pc = trapped[p].tpc, ![p].sp = trapped[p].tsp,
                          ![p].a0 = f.cause, ![p].a1 = f.val]

Exception(h) ==
  /\ From(h, "exception")
  /\ \E f \in Faults[current(h)] :
       IF f = [cause |-> ILLEGAL_INSTRUCTION, val |-> MRET]
       THEN LeaveHandler(current(h))
       ELSE EnterHandler(current(h), f, mepc[h])
  /\ Goto(h, "resume")
  /\ UNCHANGED <<taken, blocked, made, live, csrs>>

(* trap_syscall steps over the ecall.  A process that yields has its       *)
(* answer at once, ...                                                     *)
Advance(p)  == [regs[p] EXCEPT !.pc = (@ + 4) % WORD]

SyscallYields(h) ==
  /\ From(h, "syscall")
  /\ regs' = [regs EXCEPT ![current(h)] = [Advance(current(h)) EXCEPT !.a0 = ERROR_OK]]
  /\ Goto(h, "yield")
  /\ UNCHANGED <<trapped, taken, blocked, made, live, csrs>>

(* ... a receiver or a server leaves its arguments where they are, and a   *)
(* client an error, until a message comes (proc_receiver_wait gives the    *)
(* process up before sched_yield), ...                                     *)
SyscallBlocks(h) ==
  LET p == current(h)
  IN  /\ From(h, "syscall")
      /\ \E r \in {regs[p].a0, ERROR_INTERRUPTED} :
           regs' = [regs EXCEPT ![p] = [Advance(p) EXCEPT !.a0 = r]]
      /\ taken' = taken \ {p}
      /\ blocked' = blocked \union {p}
      /\ Goto(h, "sched")
      /\ UNCHANGED <<trapped, made, live, csrs>>

(* ... the others return a result in a0, ...                               *)
Return(h, r) ==
  /\ live' = [live EXCEPT ![h].a0 = r]
  /\ Goto(h, "store")

SyscallReturns(h) ==
  /\ From(h, "syscall")
  /\ regs' = [regs EXCEPT ![current(h)] = Advance(current(h))]
  /\ \E r \in Errors \union Values[current(h)] \union {ERROR_OK} : Return(h, r)
  /\ UNCHANGED <<trapped, taken, blocked, made, csrs>>

(* ... what they read in a1, or in a1 and a2, ...                          *)
SyscallReads(h) ==
  LET p == current(h)
  IN  /\ From(h, "syscall")
      /\ \E v \in Values[p], w \in Values[p] \union {regs[p].x} :
           regs' = [regs EXCEPT ![p] = [Advance(p) EXCEPT !.a1 = v, !.x = w]]
      /\ Return(h, ERROR_OK)
      /\ UNCHANGED <<trapped, taken, blocked, made, csrs>>

(* ... or write a register and return what was there; ...                  *)
SyscallWriteReg(h) ==
  LET p == current(h)
  IN  /\ From(h, "syscall")
      /\ \E w \in Writes[p] :
           IF w.reg \in TrapRegs
           THEN /\ regs' = [regs EXCEPT ![p] = Advance(p)]
                /\ trapped' = [trapped EXCEPT ![p][w.reg] = w.val]
                /\ Return(h, trapped[p][w.reg])
           ELSE /\ regs' = [regs EXCEPT ![p] = [Advance(p) EXCEPT ![w.reg] = w.val]]
                /\ Return(h, Advance(p)[w.reg])
                /\ UNCHANGED trapped
      /\ UNCHANGED <<taken, blocked, made, csrs>>

(* Mutant: a0 is left as it is. *)
MutSyscallPreemptible(h) ==
  /\ From(h, "syscall")
  /\ regs' = [regs EXCEPT ![current(h)] = Advance(current(h))]
  /\ mie' = [mie EXCEPT ![h] = TRUE]
  /\ Goto(h, "check")
  /\ UNCHANGED <<trapped, taken, blocked, made, live, mepc, mscratch>>

(* derive and revoke enable preemption, prepared for it, ...               *)
SyscallPreemptible(h) ==
  /\ From(h, "syscall")
  /\ regs' = [regs EXCEPT ![current(h)] =
                [Advance(current(h)) EXCEPT !.a0 = ERROR_PREEMPTED]]
  /\ mie' = [mie EXCEPT ![h] = TRUE]
  /\ Goto(h, "check")
  /\ UNCHANGED <<trapped, taken, blocked, made, live, mepc, mscratch>>

(* ... return early, with preemption enabled, ...                          *)
CheckFails(h) ==
  /\ From(h, "check")
  /\ \E r \in Errors : Return(h, r)
  /\ UNCHANGED <<regs, trapped, taken, blocked, made, csrs>>

(* ... or disable preemption and do what was asked.                        *)
Commit(h) ==
  /\ From(h, "check")
  /\ mie' = [mie EXCEPT ![h] = FALSE]
  /\ \/ Return(h, ERROR_OK) /\ made' = ~made
     \/ \E r \in Errors : Return(h, r) /\ UNCHANGED made
  /\ UNCHANGED <<regs, trapped, taken, blocked, mepc, mscratch>>

StoreResult(h) ==
  /\ From(h, "store")
  /\ regs' = [regs EXCEPT ![current(h)].a0 = live[h].a0]
  /\ Goto(h, "resume")
  /\ UNCHANGED <<trapped, taken, blocked, made, live, csrs>>

----------------------------------------------------------------------------
(* trap_resume_proc.                                                       *)
EnablePreemption(h) ==
  /\ From(h, "resume")
  /\ mie' = [mie EXCEPT ![h] = TRUE]
  /\ mepc' = [mepc EXCEPT ![h] = regs[current(h)].pc]
  /\ Goto(h, "restore")
  /\ UNCHANGED <<regs, trapped, taken, blocked, made, live, mscratch>>

(* Mutant: sp is restored with the others. *)
MutRestoreSp(h) ==
  /\ From(h, "restore")
  /\ LET r == regs[current(h)]
     IN  live' = [live EXCEPT ![h].a0 = r.a0, ![h].a1 = r.a1, ![h].x = r.x, ![h].sp = r.sp]
  /\ Goto(h, "leave")
  /\ UNCHANGED <<regs, trapped, taken, blocked, made, csrs>>

restore_context(h) ==
  /\ From(h, "restore")
  /\ LET r == regs[current(h)]
     IN  live' = [live EXCEPT ![h].a0 = r.a0, ![h].a1 = r.a1, ![h].x = r.x]
  /\ Goto(h, "leave")
  /\ UNCHANGED <<regs, trapped, taken, blocked, made, csrs>>

(* Mutant: tp is restored before it is copied to mscratch. *)
MutLeave(h) ==
  /\ From(h, "leave")
  /\ mie' = [mie EXCEPT ![h] = FALSE]
  /\ LET r == regs[current(h)]
     IN  /\ live' = [live EXCEPT ![h].pc = mepc[h], ![h].sp = r.sp, ![h].tp = r.tp]
         /\ mscratch' = [mscratch EXCEPT ![h] = r.tp]
  /\ Goto(h, "user")
  /\ UNCHANGED <<regs, trapped, taken, blocked, made, mepc>>

Leave(h) ==
  /\ From(h, "leave")
  /\ mie' = [mie EXCEPT ![h] = FALSE]
  /\ mscratch' = [mscratch EXCEPT ![h] = current(h)]
  /\ LET r == regs[current(h)]
     IN  live' = [live EXCEPT ![h].pc = mepc[h], ![h].sp = r.sp, ![h].tp = r.tp]
  /\ Goto(h, "user")
  /\ UNCHANGED <<regs, trapped, taken, blocked, made, mepc>>

----------------------------------------------------------------------------
(* sched_yield and sched_start.                                            *)
Release(h) ==
  /\ From(h, "yield")
  /\ taken' = taken \ {current(h)}
  /\ Goto(h, "sched")
  /\ UNCHANGED <<regs, trapped, blocked, made, live, csrs>>

SchedStart(h) ==
  /\ From(h, "sched")
  /\ \E p \in Procs \ (taken \union blocked) :
       /\ taken' = taken \union {p}
       /\ live' = [live EXCEPT ![h] = [InKernel EXCEPT !.tp = p]]
  /\ Goto(h, "resume")
  /\ UNCHANGED <<regs, trapped, blocked, made, csrs>>

(* The sender's, the server's or the client's part of a message: results   *)
(* for a process that waits; and a supervisor that suspends and resumes it.*)
Message(p) ==
  /\ p \in blocked
  /\ \E v, w \in Values[p] :
       regs' = [regs EXCEPT ![p].a0 = ERROR_OK, ![p].a1 = v, ![p].x = w]
  /\ blocked' = blocked \ {p}
  /\ UNCHANGED <<trapped, taken, made, pc, live, csrs>>

Resumed(p) ==
  /\ p \in blocked
  /\ blocked' = blocked \ {p}
  /\ UNCHANGED <<regs, trapped, taken, made, pc, live, csrs>>

KernelStep(h) ==
  \/ Exception(h) \/ SyscallYields(h) \/ SyscallBlocks(h)
  \/ SyscallReturns(h) \/ SyscallReads(h) \/ SyscallWriteReg(h)
  \/ SyscallPreemptible(h) \/ CheckFails(h) \/ Commit(h) \/ StoreResult(h)
  \/ EnablePreemption(h) \/ restore_context(h) \/ Leave(h) \/ Release(h)

UserStep(h) == Compute(h) \/ TimerInterrupt(h) \/ Ecall(h) \/ Fault(h)

Next ==
  \/ \E h \in Harts : KernelStep(h) \/ KernelInterrupt(h) \/ SchedStart(h) \/ UserStep(h)
  \/ \E p \in Procs : Message(p) \/ Resumed(p)

Spec == Init /\ [][Next]_vars
----------------------------------------------------------------------------
(* The process that hart h works for.                                      *)
Holds(h, p) ==
  \/ From(h, "user") /\ mscratch[h] = p
  \/ pc[h] \notin {"user", "sched"} /\ current(h) = p

(* A preemptible call has no answer yet; a call has one, not yet stored.   *)
Unanswered(h) == From(h, "check") \/ (From(h, "store") /\ mie[h])
Answered(h)   == From(h, "store") /\ ~mie[h]

(* The registers as the process knows them.                                *)
Seen(h, p) ==
  IF From(h, "user") THEN live[h]
  ELSE IF Unanswered(h) THEN [regs[p] EXCEPT !.a0 = Null]
  ELSE IF Answered(h) THEN [regs[p] EXCEPT !.a0 = live[h].a0]
  ELSE regs[p]

ureg == [p \in Procs |->
  IF \E h \in Harts : Holds(h, p)
  THEN Seen(CHOOSE h \in Harts : Holds(h, p), p) ELSE regs[p]]

mode == [p \in Procs |->
  IF p \in blocked THEN "waiting"
  ELSE IF \E h \in Harts : Holds(h, p) /\ pc[h] \in {"user", "exception", "syscall"} THEN "on"
  ELSE IF \E h \in Harts : Holds(h, p) /\ Unanswered(h) THEN "calling"
  ELSE "off"]

View == INSTANCE UserView WITH
  frame <- trapped, done <- made, Unknown <- Null

(* trap.S and exception.c: a process sees its own computation, the answers *)
(* of its calls, the messages it waits for and its exceptions, and nothing *)
(* of interrupts, of other processes or of preemption in the kernel.       *)
RefinesUserView == View!Spec

Labels == {"user", "exception", "syscall", "check", "store", "resume",
           "restore", "leave", "yield", "sched"}

Words == Int \union Procs \union {Null, Kernel}

TypeOK ==
  /\ regs \in [Procs -> [Registers -> Int]]
  /\ trapped \in [Procs -> [TrapRegs -> Int]]
  /\ taken \subseteq Procs /\ blocked \subseteq Procs
  /\ made \in BOOLEAN
  /\ pc \in [Harts -> Labels]
  /\ live \in [Harts -> [Registers -> Words]]
  /\ mepc \in [Harts -> Words]
  /\ mscratch \in [Harts -> Procs \union {Null}]
  /\ mie \in [Harts -> BOOLEAN]

(* Whenever a trap may come, trap_entry can tell user mode from kernel     *)
(* mode by mscratch, finds the process of the hart, and runs on the        *)
(* kernel's stack; no two harts have the same process, and none has one    *)
(* that waits.                                                             *)
TrapFindsItsProcess ==
  /\ taken \intersect blocked = {}
  /\ \A h \in Harts :
      /\ IF From(h, "user") THEN mscratch[h] \in taken
         ELSE mscratch[h] = Null /\ live[h].sp = Kernel
      /\ pc[h] \notin {"user", "sched"} => current(h) \in taken
      /\ mie[h] => pc[h] \in {"check", "store", "resume", "restore", "leave"}
      /\ \A g \in Harts, p \in Procs : Holds(g, p) /\ Holds(h, p) => g = h
=============================================================================
