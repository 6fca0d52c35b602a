------------------------------ MODULE UserView ------------------------------
(***************************************************************************)
(* What a process sees of the kernel's traps: its registers change when it *)
(* computes, when a system call answers, when a message comes for which it *)
(* waits, and when an exception leads into its handler or out of it.       *)
(* Interrupts and other processes leave no trace.  Trap implements this.   *)
(***************************************************************************)
EXTENDS Integers

CONSTANTS
  Procs,
  Files,         \* Files[p]: the register files that process p computes
  Errors,        \* results of failed system calls
  Values,        \* Values[p]: words that calls and messages bring to p
  Writes,        \* Writes[p]: what p writes with syscall_write_reg
  Faults, MRET,  \* Faults[p]: p's exceptions; MRET leaves the handler
  WORD,          \* 2^64
  Unknown        \* a0 until a preemptible call answers

VARIABLES
  ureg,   \* ureg[p]: the registers of process p
  frame,  \* frame[p]: tpc, tsp, ppc, psp, pa0 and pa1
  mode,   \* mode[p]: "on" (in user mode), "off", "calling" or "waiting"
  done    \* a bit that flips when a derivation takes effect

TrapRegs == {"tpc", "tsp", "ppc", "psp", "pa0", "pa1"}
ILLEGAL_INSTRUCTION == 2
ERROR_OK == 0
ERROR_PREEMPTED == 3
ERROR_INTERRUPTED == 4

uvars == <<ureg, frame, mode, done>>

Init ==
  /\ ureg \in {r \in [Procs -> UNION {Files[p] : p \in Procs}] :
                \A p \in Procs : r[p] \in Files[p]}
  /\ frame = [p \in Procs |-> [r \in TrapRegs |-> 0]]
  /\ mode = [p \in Procs |-> "off"]
  /\ done = FALSE

(* p's registers become f; p goes from one mode to another.                *)
Becomes(p, f) == ureg' = [ureg EXCEPT ![p] = f]

Enter(p, from, to) == mode[p] = from /\ mode' = [mode EXCEPT ![p] = to]

Compute(p) ==
  /\ mode[p] = "on"
  /\ \E f \in Files[p] : Becomes(p, f)
  /\ UNCHANGED <<frame, mode, done>>

Dispatch(p) == Enter(p, "off", "on") /\ UNCHANGED <<ureg, frame, done>>
Preempt(p)  == Enter(p, "on", "off") /\ UNCHANGED <<ureg, frame, done>>

----------------------------------------------------------------------------
(* A system call steps over the ecall.  Most calls are atomic: they answer *)
(* in a0, with or without values in the registers of a message, or write   *)
(* one register and answer what was there.                                 *)
Past(p) == [ureg[p] EXCEPT !.pc = (@ + 4) % WORD]

Call(p) ==
  /\ Enter(p, "on", "off")
  /\ \E r \in Errors \union Values[p] \union {ERROR_OK} :
       Becomes(p, [Past(p) EXCEPT !.a0 = r])
  /\ UNCHANGED <<frame, done>>

Read(p) ==
  /\ Enter(p, "on", "off")
  /\ \E v \in Values[p], w \in Values[p] \union {ureg[p].x} :
       Becomes(p, [Past(p) EXCEPT !.a0 = ERROR_OK, !.a1 = v, !.x = w])
  /\ UNCHANGED <<frame, done>>

WriteReg(p) ==
  /\ Enter(p, "on", "off")
  /\ \E w \in Writes[p] :
       IF w.reg \in TrapRegs
       THEN /\ Becomes(p, [Past(p) EXCEPT !.a0 = frame[p][w.reg]])
            /\ frame' = [frame EXCEPT ![p][w.reg] = w.val]
       ELSE /\ Becomes(p, [Past(p) EXCEPT ![w.reg] = w.val, !.a0 = Past(p)[w.reg]])
            /\ UNCHANGED frame
  /\ UNCHANGED done

(* derive and revoke may be preempted before they answer, but nothing is   *)
(* done unless the answer says so.                                         *)
Begin(p) ==
  /\ Enter(p, "on", "calling")
  /\ Becomes(p, [Past(p) EXCEPT !.a0 = Unknown])
  /\ UNCHANGED <<frame, done>>

Answer(p) ==
  /\ Enter(p, "calling", "off")
  /\ \E r \in Errors \union {ERROR_OK, ERROR_PREEMPTED} :
       /\ Becomes(p, [ureg[p] EXCEPT !.a0 = r])
       /\ done' \in BOOLEAN
       /\ done' # done => r = ERROR_OK
  /\ UNCHANGED frame

(* A receive leaves the arguments where they are and a call to a server an *)
(* error, until a message comes or the process is resumed without one.     *)
Block(p) ==
  /\ Enter(p, "on", "waiting")
  /\ \E r \in {ureg[p].a0, ERROR_INTERRUPTED} : Becomes(p, [Past(p) EXCEPT !.a0 = r])
  /\ UNCHANGED <<frame, done>>

Message(p) ==
  /\ Enter(p, "waiting", "off")
  /\ \E v, w \in Values[p] : Becomes(p, [ureg[p] EXCEPT !.a0 = ERROR_OK, !.a1 = v, !.x = w])
  /\ UNCHANGED <<frame, done>>

Resumed(p) == Enter(p, "waiting", "off") /\ UNCHANGED <<ureg, frame, done>>

----------------------------------------------------------------------------
(* An exception saves four registers and leads into the handler ...        *)
Raise(p) ==
  /\ Enter(p, "on", "off")
  /\ frame' = [frame EXCEPT ![p].ppc = ureg[p].pc, ![p].psp = ureg[p].sp,
                            ![p].pa0 = ureg[p].a0, ![p].pa1 = ureg[p].a1]
  /\ \E f \in Faults[p] :
       /\ f # [cause |-> ILLEGAL_INSTRUCTION, val |-> MRET]
       /\ Becomes(p, [ureg[p] EXCEPT !.pc = frame[p].tpc, !.sp = frame[p].tsp,
                                     !.a0 = f.cause, !.a1 = f.val])
  /\ UNCHANGED done

(* ... and mret brings them back.                                          *)
Return(p) ==
  /\ [cause |-> ILLEGAL_INSTRUCTION, val |-> MRET] \in Faults[p]
  /\ Enter(p, "on", "off")
  /\ Becomes(p, [ureg[p] EXCEPT !.pc = frame[p].ppc, !.sp = frame[p].psp,
                                !.a0 = frame[p].pa0, !.a1 = frame[p].pa1])
  /\ UNCHANGED <<frame, done>>

Next == \E p \in Procs :
  \/ Compute(p) \/ Dispatch(p) \/ Preempt(p)
  \/ Call(p) \/ Read(p) \/ WriteReg(p) \/ Begin(p) \/ Answer(p)
  \/ Block(p) \/ Message(p) \/ Resumed(p) \/ Raise(p) \/ Return(p)

Spec == Init /\ [][Next]_uvars
=============================================================================
