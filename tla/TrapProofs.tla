----------------------------- MODULE TrapProofs -----------------------------
(***************************************************************************)
(* A trap finds its process, and processes see nothing of interrupts, for  *)
(* every number of harts and processes.  The invariant follows a hart      *)
(* through the kernel: what each label says of mscratch, of mepc and of    *)
(* the registers that are already restored (Control), that no two harts    *)
(* have the same process (One), and that none has one that waits (Apart).  *)
(***************************************************************************)
EXTENDS Trap, TLAPS

Control(h) ==
  /\ From(h, "user") =>
       /\ mscratch[h] \in taken
       /\ live[h] \in [Registers -> Int]
  /\ ~From(h, "user") => mscratch[h] = Null /\ live[h].sp = Kernel
  /\ pc[h] \notin {"user", "sched"} => current(h) \in taken
  /\ mie[h] => pc[h] \in {"check", "store", "resume", "restore", "leave"}
  /\ From(h, "exception") => mepc[h] \in Int /\ regs[current(h)].pc = mepc[h]
  /\ From(h, "store") =>
       /\ live[h].a0 \in Int
       /\ mie[h] => live[h].a0 \in Errors
  /\ From(h, "check") \/ (From(h, "store") /\ mie[h]) =>
       regs[current(h)].a0 = ERROR_PREEMPTED
  /\ From(h, "check") => mie[h]
  /\ pc[h] \in {"restore", "leave"} => mepc[h] = regs[current(h)].pc
  /\ From(h, "leave") =>
       \A r \in {"a0", "a1", "x"} : live[h][r] = regs[current(h)][r]

One == \A g, h \in Harts : \A p \in Procs : Holds(g, p) /\ Holds(h, p) => g = h

Apart == taken \intersect blocked = {}

IInv == TypeOK /\ One /\ Apart /\ \A h \in Harts : Control(h)

----------------------------------------------------------------------------
(* What a step of hart h, which has or takes process p, leaves alone.      *)
Only(h, p) ==
  /\ \A g \in Harts \ {h} :
       /\ pc'[g] = pc[g] /\ live'[g] = live[g] /\ mepc'[g] = mepc[g]
       /\ mscratch'[g] = mscratch[g] /\ mie'[g] = mie[g]
  /\ \A q \in Procs \ {p} : regs'[q] = regs[q]
  /\ taken' \union {p} = taken \union {p}
  /\ blocked' \union {p} = blocked \union {p}
  /\ Holds(h, p) \/ (p \notin taken /\ From(h, "sched"))
  /\ \A q \in Procs : Holds(h, q)' => q = p

LEMMA HoldsTaken ==
  ASSUME NEW h \in Harts, NEW p \in Procs, TypeOK, Control(h), Holds(h, p)
  PROVE  p \in taken
BY DEF TypeOK, Control, Holds, From

LEMMA HoldsOne ==
  ASSUME NEW h \in Harts, NEW p \in Procs, NEW q \in Procs, Holds(h, p), Holds(h, q)
  PROVE  p = q
BY DEF Holds, From

(* Such a step keeps the invariant if it keeps what h's own label says.    *)
LEMMA Local ==
  ASSUME IInv, NEW h \in Harts, NEW p \in Procs, Only(h, p), TypeOK', Apart', Control(h)'
  PROVE  IInv'
<1>1. ASSUME NEW g \in Harts \ {h}, NEW q \in Procs PROVE Holds(g, q)' <=> Holds(g, q)
  BY DEF Only, Holds, From, current
<1>2. ASSUME NEW g \in Harts \ {h} PROVE ~Holds(g, p)
  <2>1. CASE Holds(h, p)
    BY <2>1 DEF IInv, One
  <2>2. CASE p \notin taken
    BY <2>2, HoldsTaken DEF IInv
  <2> QED
    BY <2>1, <2>2 DEF Only
<1>3. One'
  <2> SUFFICES ASSUME NEW f \in Harts, NEW g \in Harts, NEW q \in Procs,
                      Holds(f, q)', Holds(g, q)'
               PROVE  f = g
    BY DEF One
  <2>1. CASE f = h \/ g = h
    BY <1>1, <1>2, <2>1 DEF Only
  <2>2. CASE f # h /\ g # h
    BY <1>1, <2>2 DEF IInv, One
  <2> QED
    BY <2>1, <2>2
<1>4. ASSUME NEW g \in Harts \ {h} PROVE Control(g)'
  <2>1. pc'[g] = pc[g] /\ live'[g] = live[g] /\ mepc'[g] = mepc[g] /\ mscratch'[g] = mscratch[g] /\ mie'[g] = mie[g]
    BY DEF Only
  <2>2. Control(g)
    BY DEF IInv
  <2>3. CASE From(g, "user")
    <3>1. mscratch[g] \in taken /\ mscratch[g] \in Procs
      BY <2>2, <2>3 DEF Control, IInv, TypeOK
    <3>2. mscratch[g] # p
      BY <1>2, <2>3, <3>1 DEF Holds
    <3>3. mscratch[g] \in taken'
      BY <3>1, <3>2 DEF Only
    <3> QED
      BY <2>1, <2>2, <2>3, <3>3 DEF Control, From
  <2>4. CASE From(g, "sched")
    BY <2>1, <2>2, <2>4 DEF Control, From
  <2>5. CASE ~From(g, "user") /\ ~From(g, "sched")
    <3>1. current(g) \in taken /\ current(g) \in Procs
      BY <2>2, <2>5 DEF Control, From, IInv, TypeOK
    <3>2. current(g) # p
      BY <1>2, <2>5, <3>1 DEF Holds, From
    <3>3. current(g) \in taken' /\ regs'[current(g)] = regs[current(g)] /\ current(g)' = current(g)
      BY <2>1, <3>1, <3>2 DEF Only, current
    <3> QED
      BY <2>1, <2>2, <2>5, <3>3 DEF Control, From
  <2> QED
    BY <2>3, <2>4, <2>5
<1> QED
  BY <1>3, <1>4 DEF IInv
----------------------------------------------------------------------------
(* One step per action: it is local, keeps the types and what its label says. *)
LEMMA HasProcess ==
  ASSUME IInv, NEW h \in Harts, ~From(h, "user"), ~From(h, "sched")
  PROVE  current(h) \in Procs /\ Holds(h, current(h)) /\ current(h) = live[h]["tp"]
BY DEF IInv, TypeOK, Control, Holds, From, current

LEMMA UserHasProcess ==
  ASSUME IInv, NEW h \in Harts, From(h, "user")
  PROVE  mscratch[h] \in Procs /\ Holds(h, mscratch[h])
BY DEF IInv, TypeOK, Control, Holds, From

LEMMA UserIInv ==
  ASSUME IInv, NEW h \in Harts, UserStep(h)
  PROVE  IInv' /\ Only(h, mscratch[h])
<1> DEFINE p == mscratch[h]
<1>1. From(h, "user")
  BY DEF UserStep, Compute, TimerInterrupt, Ecall, Fault, TrapUser
<1>2. p \in Procs /\ Holds(h, p) /\ p # Null /\ p \in taken /\ live[h] \in [Registers -> Int] /\ ~mie[h]
  BY <1>1, UserHasProcess, TrapAssumption DEF IInv, Control, From
<1>3. CASE Compute(h)
  <2> USE <1>3 DEF Compute, csrs, IInv
  <2>1. PICK f \in Files[p] : live' = [live EXCEPT ![h] = f]
    OBVIOUS
  <2>2. f \in [Registers -> Int] /\ f \in [Registers -> Words]
    BY <1>2, TrapAssumption DEF Words
  <2>3. TypeOK'
    BY <2>1, <2>2 DEF TypeOK
  <2>4. Only(h, p) /\ Apart'
    BY <1>1, <1>2, <2>1 DEF Only, Holds, From, current, TypeOK, Apart
  <2>5. Control(h)'
    BY <1>1, <1>2, <2>1, <2>2 DEF Control, From, TypeOK
  <2> QED
    BY <1>2, <2>3, <2>4, <2>5, Local
<1>4. ASSUME NEW label \in {"yield", "syscall", "exception"}, TrapUser(h, label)
      PROVE  IInv' /\ Only(h, mscratch[h])
  <2> USE <1>4 DEF TrapUser, trap_entry, Goto
  <2> DEFINE k == [InKernel EXCEPT !.tp = p]
  <2>1. /\ mepc' = [mepc EXCEPT ![h] = live[h].pc]
        /\ regs' = [regs EXCEPT ![p] = [live[h] EXCEPT !.pc = mepc'[h]]]
        /\ live' = [live EXCEPT ![h] = k]
        /\ pc' = [pc EXCEPT ![h] = label]
        /\ mscratch' = [mscratch EXCEPT ![h] = Null]
        /\ UNCHANGED <<trapped, taken, blocked, made, mie>>
    BY <1>2
  <2>2. live[h].pc \in Int /\ mepc'[h] = live[h].pc
    BY <1>2, <2>1 DEF Registers, IInv, TypeOK
  <2>3. [live[h] EXCEPT !.pc = mepc'[h]] \in [Registers -> Int]
    BY <1>2, <2>2
  <2>4. k \in [Registers -> Words] /\ k.sp = Kernel /\ k.tp = p
    BY <1>2 DEF InKernel, Registers, Words
  <2>5. TypeOK'
    BY <1>2, <2>1, <2>2, <2>3, <2>4 DEF IInv, TypeOK, Labels, Words
  <2>6. pc'[h] = label /\ live'[h] = k /\ mscratch'[h] = Null /\ mie'[h] = mie[h]
        /\ regs'[p] = [live[h] EXCEPT !.pc = mepc'[h]]
    BY <1>2, <2>1 DEF IInv, TypeOK
  <2>7. Only(h, p) /\ Apart'
    BY <1>1, <1>2, <2>1, <2>4, <2>6 DEF Only, Holds, From, current, TypeOK, IInv, Apart
  <2>8. regs'[p].pc = mepc'[h]
    BY <1>2, <2>6 DEF Registers
  <2>9. Control(h)'
    BY <1>2, <2>1, <2>2, <2>4, <2>6, <2>8 DEF Control, From, current
  <2> QED
    BY <1>2, <2>5, <2>7, <2>9, Local
<1> QED
  BY <1>3, <1>4 DEF UserStep, TimerInterrupt, Ecall, Fault
(* In the kernel the process is current, and stays so.                     *)
LEMMA KernelLocal ==
  ASSUME IInv, NEW h \in Harts, ~From(h, "user"), ~From(h, "sched"), TypeOK', Control(h)',
         NEW l \in Labels \ {"user"}, Goto(h, l), taken' = taken, blocked' = blocked, mscratch' = mscratch,
         live' = live \/ (\E k \in [Registers -> Words] :
                            live' = [live EXCEPT ![h] = k] /\ k.tp = current(h)),
         \A g \in Harts \ {h} : mepc'[g] = mepc[g] /\ mie'[g] = mie[g],
         \A q \in Procs \ {current(h)} : regs'[q] = regs[q]
  PROVE  IInv' /\ Only(h, current(h))
<1> DEFINE p == current(h)
<1>1. p \in Procs /\ Holds(h, p)
  BY HasProcess
<1>2. \A g \in Harts \ {h} : pc'[g] = pc[g] /\ live'[g] = live[g] /\ mscratch'[g] = mscratch[g]
  BY DEF Goto, IInv, TypeOK
<1>3. current(h)' = p /\ pc'[h] = l
  BY DEF Goto, current, IInv, TypeOK
<1>4. \A q \in Procs : Holds(h, q)' => q = p
  BY <1>3 DEF Holds, From
<1>5. Only(h, p)
  BY <1>1, <1>2, <1>4 DEF Only
<1>6. Apart'
  BY DEF IInv, Apart
<1> QED
  BY <1>1, <1>5, <1>6, Local

LEMMA SyscallIInv ==
  ASSUME IInv, NEW h \in Harts,
         \/ SyscallYields(h) \/ SyscallReturns(h) \/ SyscallReads(h) \/ SyscallWriteReg(h)
         \/ SyscallPreemptible(h) \/ CheckFails(h) \/ Commit(h) \/ StoreResult(h)
  PROVE  IInv' /\ Only(h, current(h))
<1> DEFINE p == current(h)
<1>1. ~From(h, "user") /\ ~From(h, "sched")
  BY DEF SyscallYields, SyscallReturns, SyscallReads, SyscallWriteReg, SyscallPreemptible,
         CheckFails, Commit, StoreResult, From
<1>2. p \in Procs /\ regs[p] \in [Registers -> Int] /\ live[h] \in [Registers -> Words]
      /\ current(h) = live[h].tp
  BY <1>1, HasProcess DEF IInv, TypeOK
<1>3. Control(h) /\ TypeOK
  BY DEF IInv
<1>4. (regs[p].pc + 4) % WORD \in Int
  BY <1>2, TrapAssumption DEF Registers
<1>5. Advance(p) \in [Registers -> Int]
  BY <1>2, <1>4 DEF Advance
<1>6. CASE SyscallYields(h)
  <2> USE <1>6 DEF SyscallYields, csrs
  <2>2. [Advance(p) EXCEPT !.a0 = ERROR_OK] \in [Registers -> Int]
    BY <1>5 DEF ERROR_OK
  <2>3. TypeOK'
    BY <1>2, <1>3, <2>2 DEF TypeOK, Goto, Labels
  <2>4. Control(h)'
    BY <1>1, <1>3 DEF Control, Goto, From, TypeOK, current
  <2>5. \A q \in Procs \ {p} : regs'[q] = regs[q]
    BY <1>3 DEF TypeOK
  <2>6. Goto(h, "yield") /\ "yield" \in Labels \ {"user"} /\ live' = live /\ UNCHANGED <<taken, blocked, csrs>>
    BY DEF Labels
  <2> QED
    BY <1>1, <2>3, <2>4, <2>5, <2>6, KernelLocal
<1>7. ASSUME NEW f \in [Registers -> Int], NEW r \in Int, From(h, "syscall"), Return(h, r),
             regs' = [regs EXCEPT ![p] = f], trapped' \in [Procs -> [TrapRegs -> Int]],
             UNCHANGED <<taken, blocked, made, csrs>>
      PROVE  IInv' /\ Only(h, current(h))
  <2> DEFINE k == [live[h] EXCEPT !.a0 = r]
  <2>0. live' = [live EXCEPT ![h] = k] /\ Goto(h, "store")
    BY <1>7 DEF Return
  <2>2. k \in [Registers -> Words] /\ k.tp = p /\ k.a0 = r /\ k.sp = live[h].sp
    BY <1>2 DEF Words, Registers
  <2>9. regs' \in [Procs -> [Registers -> Int]]
    BY <1>2, <1>3, <1>7 DEF TypeOK
  <2>3. TypeOK'
    BY <1>2, <1>3, <1>7, <2>0, <2>2, <2>9 DEF TypeOK, Goto, Labels, csrs
  <2>4. live'[h] = k /\ pc'[h] = "store" /\ mie[h] = FALSE /\ mie'[h] = FALSE
    BY <1>3, <1>7, <2>0 DEF TypeOK, Goto, Control, From, csrs
  <2>10. current(h)' = p /\ mscratch'[h] = Null /\ live'[h].sp = Kernel /\ p \in taken'
    BY <1>1, <1>3, <1>7, <2>2, <2>4, <2>0 DEF Control, From, current, csrs
  <2>5. Control(h)'
    BY <2>2, <2>4, <2>10 DEF Control, From
  <2>6. \A q \in Procs \ {p} : regs'[q] = regs[q]
    BY <1>3, <1>7 DEF TypeOK
  <2>7. Goto(h, "store") /\ "store" \in Labels \ {"user"} /\ UNCHANGED <<taken, blocked, csrs>>
    BY <1>7, <2>0 DEF Labels
  <2> QED
    BY <1>1, <2>0, <2>2, <2>3, <2>5, <2>6, <2>7, KernelLocal DEF csrs
<1>13. CASE SyscallReturns(h)
  <2>1. PICK r \in Errors \union Values[p] \union {ERROR_OK} : Return(h, r)
    BY <1>13 DEF SyscallReturns
  <2>2. r \in Int
    BY <1>2, TrapAssumption DEF ERROR_OK
  <2>3. UNCHANGED trapped /\ trapped \in [Procs -> [TrapRegs -> Int]]
    BY <1>3, <1>13 DEF SyscallReturns, TypeOK
  <2> QED
    BY <1>5, <1>7, <1>13, <2>1, <2>2, <2>3 DEF SyscallReturns
<1>14. CASE SyscallReads(h)
  <2>1. PICK v \in Values[p], w \in Values[p] \union {regs[p].x} :
          regs' = [regs EXCEPT ![p] = [Advance(p) EXCEPT !.a1 = v, !.x = w]]
    BY <1>14 DEF SyscallReads
  <2>2. v \in Int /\ w \in Int /\ ERROR_OK \in Int
    BY <1>2, TrapAssumption DEF ERROR_OK, Registers
  <2>3. [Advance(p) EXCEPT !.a1 = v, !.x = w] \in [Registers -> Int]
    BY <1>5, <2>2
  <2>4. UNCHANGED trapped /\ trapped \in [Procs -> [TrapRegs -> Int]]
    BY <1>3, <1>14 DEF SyscallReads, TypeOK
  <2> QED
    BY <1>7, <1>14, <2>1, <2>2, <2>3, <2>4 DEF SyscallReads
<1>15. CASE SyscallWriteReg(h)
  <2>1. PICK w \in Writes[p] :
          IF w.reg \in TrapRegs
          THEN /\ regs' = [regs EXCEPT ![p] = Advance(p)]
               /\ trapped' = [trapped EXCEPT ![p][w.reg] = w.val]
               /\ Return(h, trapped[p][w.reg])
          ELSE /\ regs' = [regs EXCEPT ![p] = [Advance(p) EXCEPT ![w.reg] = w.val]]
               /\ Return(h, Advance(p)[w.reg])
               /\ UNCHANGED trapped
    BY <1>15 DEF SyscallWriteReg
  <2>2. w \in [reg : Registers \union TrapRegs, val : Int] /\ w.val \in Int
    BY <1>2, TrapAssumption
  <2>3. trapped \in [Procs -> [TrapRegs -> Int]] /\ From(h, "syscall")
        /\ UNCHANGED <<taken, blocked, made, csrs>>
    BY <1>3, <1>15 DEF SyscallWriteReg, TypeOK
  <2>4. CASE w.reg \in TrapRegs
    <3>1. trapped[p][w.reg] \in Int /\ trapped' \in [Procs -> [TrapRegs -> Int]]
      BY <1>2, <2>1, <2>2, <2>3, <2>4
    <3> QED
      BY <1>5, <1>7, <2>1, <2>3, <2>4, <3>1
  <2>5. CASE w.reg \notin TrapRegs
    <3>1. w.reg \in Registers
      BY <2>2, <2>5
    <3>2. Advance(p)[w.reg] \in Int /\ [Advance(p) EXCEPT ![w.reg] = w.val] \in [Registers -> Int]
      BY <1>5, <2>2, <3>1
    <3>3. trapped' \in [Procs -> [TrapRegs -> Int]]
      BY <2>1, <2>3, <2>5
    <3> QED
      BY <1>7, <2>1, <2>3, <2>5, <3>2, <3>3
  <2> QED
    BY <2>4, <2>5
<1>8. CASE SyscallPreemptible(h)
  <2> USE <1>8 DEF SyscallPreemptible
  <2> DEFINE f == [Advance(p) EXCEPT !.a0 = ERROR_PREEMPTED]
  <2>1. regs' = [regs EXCEPT ![p] = f] /\ f \in [Registers -> Int] /\ f.a0 = ERROR_PREEMPTED
    BY <1>5 DEF ERROR_PREEMPTED, Registers
  <2>2. TypeOK'
    BY <1>2, <1>3, <2>1 DEF TypeOK, Goto, Labels
  <2>3. regs'[p] = f /\ mie'[h] = TRUE /\ pc'[h] = "check"
    BY <1>2, <1>3, <2>1 DEF TypeOK, Goto
  <2>8. current(h)' = p /\ mscratch'[h] = Null /\ live'[h].sp = Kernel /\ p \in taken'
    BY <1>1, <1>3 DEF Control, From, current
  <2>4. Control(h)'
    BY <2>1, <2>3, <2>8 DEF Control, From
  <2>5. \A q \in Procs \ {p} : regs'[q] = regs[q]
    BY <1>3 DEF TypeOK
  <2>6. \A g \in Harts \ {h} : mepc'[g] = mepc[g] /\ mie'[g] = mie[g]
    BY <1>3 DEF TypeOK
  <2>7. Goto(h, "check") /\ "check" \in Labels \ {"user"} /\ live' = live /\ UNCHANGED <<taken, blocked, mscratch>>
    BY DEF Labels
  <2> QED
    BY <1>1, <2>2, <2>4, <2>5, <2>6, <2>7, KernelLocal
<1>9. ASSUME NEW r \in Int, Return(h, r), From(h, "check"),
             UNCHANGED <<regs, trapped, taken, blocked, mepc, mscratch>>, made' \in BOOLEAN,
             (mie' = mie /\ r \in Errors) \/ mie' = [mie EXCEPT ![h] = FALSE]
      PROVE  IInv' /\ Only(h, current(h))
  <2> USE <1>9
  <2> DEFINE k == [live[h] EXCEPT !.a0 = r]
  <2>1. live' = [live EXCEPT ![h] = k] /\ k \in [Registers -> Words] /\ Goto(h, "store")
        /\ k.tp = p /\ k.a0 = r /\ k.sp = live[h].sp
    BY <1>2 DEF Return, Words, Registers
  <2>2. TypeOK'
    BY <1>2, <1>3, <2>1 DEF TypeOK, Goto, Labels
  <2>3. live'[h] = k /\ pc'[h] = "store" /\ regs[p].a0 = ERROR_PREEMPTED
    BY <1>3, <2>1 DEF TypeOK, Goto, Control, From
  <2>7. current(h)' = p /\ mscratch'[h] = Null /\ live'[h].sp = Kernel /\ p \in taken'
    BY <1>1, <1>3, <2>1, <2>3 DEF Control, From, current
  <2>8. mie'[h] => r \in Errors
    BY <1>3 DEF TypeOK
  <2>4. Control(h)'
    BY <2>1, <2>3, <2>7, <2>8 DEF Control, From
  <2>5. \A g \in Harts \ {h} : mepc'[g] = mepc[g] /\ mie'[g] = mie[g]
    BY <1>3 DEF TypeOK
  <2>6. Goto(h, "store") /\ "store" \in Labels \ {"user"} /\ UNCHANGED <<regs, taken, blocked, mscratch>>
    BY <2>1 DEF Labels
  <2> QED
    BY <1>1, <2>1, <2>2, <2>4, <2>5, <2>6, KernelLocal
<1>10. CASE CheckFails(h)
  BY <1>3, <1>9, <1>10, TrapAssumption DEF CheckFails, csrs, TypeOK
<1>11. CASE Commit(h)
  <2>1. PICK r \in Errors \union {ERROR_OK} : Return(h, r) /\ made' \in {made, ~made}
    BY <1>11 DEF Commit
  <2>2. r \in Int
    BY <2>1, TrapAssumption DEF ERROR_OK
  <2>3. made \in BOOLEAN
    BY <1>3 DEF TypeOK
  <2>4. made' \in BOOLEAN
    BY <2>1, <2>3
  <2> QED
    BY <1>9, <1>11, <2>1, <2>2, <2>4 DEF Commit
<1>12. CASE StoreResult(h)
  <2> USE <1>12 DEF StoreResult, csrs
  <2>1. live[h].a0 \in Int
    BY <1>3 DEF Control
  <2>2. TypeOK'
    BY <1>2, <1>3, <2>1 DEF TypeOK, Goto, Labels
  <2>3. Control(h)'
    BY <1>1, <1>3 DEF Control, Goto, From, TypeOK, current
  <2>4. \A q \in Procs \ {p} : regs'[q] = regs[q]
    BY <1>3 DEF TypeOK
  <2>5. Goto(h, "resume") /\ "resume" \in Labels \ {"user"} /\ live' = live /\ UNCHANGED <<taken, blocked, csrs>>
    BY DEF Labels
  <2> QED
    BY <1>1, <2>2, <2>3, <2>4, <2>5, KernelLocal
<1> QED
  BY <1>6, <1>8, <1>10, <1>11, <1>12, <1>13, <1>14, <1>15

LEMMA ResumeIInv ==
  ASSUME IInv, NEW h \in Harts,
         Exception(h) \/ EnablePreemption(h) \/ restore_context(h)
  PROVE  IInv' /\ Only(h, current(h))
<1> DEFINE p == current(h)
<1>1. ~From(h, "user") /\ ~From(h, "sched")
  BY DEF Exception, EnablePreemption, restore_context, From
<1>2. p \in Procs /\ regs[p] \in [Registers -> Int] /\ live[h] \in [Registers -> Words]
      /\ current(h) = live[h].tp
  BY <1>1, HasProcess DEF IInv, TypeOK
<1>3. Control(h) /\ TypeOK
  BY DEF IInv
<1>4. mscratch[h] = Null /\ live[h].sp = Kernel /\ p \in taken
  BY <1>1, <1>3 DEF Control, From
<1>5. CASE Exception(h)
  <2>1. PICK e \in Faults[p] :
          IF e = [cause |-> ILLEGAL_INSTRUCTION, val |-> MRET]
          THEN LeaveHandler(p) ELSE EnterHandler(p, e, mepc[h])
    BY <1>5 DEF Exception
  <2>8. From(h, "exception") /\ Goto(h, "resume") /\ UNCHANGED <<taken, blocked, made, live, csrs>>
    BY <1>5 DEF Exception
  <2>2. PICK f \in [Registers -> Int], t \in [TrapRegs -> Int] :
          regs' = [regs EXCEPT ![p] = f] /\ trapped' = [trapped EXCEPT ![p] = t]
    <3>2. e.cause \in Int /\ e.val \in Int /\ mepc[h] \in Int
      BY <1>2, <1>3, <2>8, TrapAssumption DEF Control
    <3>3. trapped[p] \in [TrapRegs -> Int]
      BY <1>2, <1>3 DEF TypeOK
    <3>6. \A r \in TrapRegs : trapped[p][r] \in Int
      BY <3>3
    <3>4. CASE LeaveHandler(p)
      <4> DEFINE f == [regs[p] EXCEPT !.pc = trapped[p].ppc, !.sp = trapped[p].psp,
                                      !.a0 = trapped[p].pa0, !.a1 = trapped[p].pa1]
      <4>1. regs' = [regs EXCEPT ![p] = f] /\ trapped' = [trapped EXCEPT ![p] = trapped[p]]
        BY <1>2, <1>3, <3>4 DEF LeaveHandler, TypeOK
      <4>3. trapped[p].ppc \in Int /\ trapped[p].psp \in Int /\ trapped[p].pa0 \in Int /\ trapped[p].pa1 \in Int
        BY <3>6 DEF TrapRegs
      <4>2. f \in [Registers -> Int]
        BY <1>2, <4>3
      <4> QED
        BY <3>3, <4>1, <4>2
    <3>5. CASE EnterHandler(p, e, mepc[h])
      <4> DEFINE f == [regs[p] EXCEPT !.pc = trapped[p].tpc, !.sp = trapped[p].tsp,
                                      !.a0 = e.cause, !.a1 = e.val]
                 t == [trapped[p] EXCEPT !.ppc = mepc[h], !.psp = regs[p].sp,
                                         !.pa0 = regs[p].a0, !.pa1 = regs[p].a1]
      <4>1. regs' = [regs EXCEPT ![p] = f] /\ trapped' = [trapped EXCEPT ![p] = t]
        BY <1>2, <1>3, <3>5 DEF EnterHandler, TypeOK
      <4>4. trapped[p].tpc \in Int /\ trapped[p].tsp \in Int
        BY <3>6 DEF TrapRegs
      <4>2. f \in [Registers -> Int]
        BY <1>2, <3>2, <4>4
      <4>5. regs[p].sp \in Int /\ regs[p].a0 \in Int /\ regs[p].a1 \in Int
        BY <1>2 DEF Registers
      <4>3. t \in [TrapRegs -> Int]
        BY <3>2, <3>3, <4>5
      <4> QED
        BY <4>1, <4>2, <4>3
    <3> QED
      BY <2>1, <3>4, <3>5
  <2>3. TypeOK'
    BY <1>2, <1>3, <2>8, <2>2 DEF TypeOK, Goto, Labels, csrs
  <2>4. pc'[h] = "resume" /\ mie'[h] = mie[h] /\ current(h)' = p
    BY <1>3, <2>8 DEF TypeOK, Goto, csrs, current
  <2>5. Control(h)'
    BY <1>3, <1>4, <2>8, <2>4 DEF Control, From, csrs
  <2>6. \A q \in Procs \ {p} : regs'[q] = regs[q]
    BY <1>3, <2>2 DEF TypeOK
  <2>7. Goto(h, "resume") /\ "resume" \in Labels \ {"user"} /\ live' = live /\ UNCHANGED <<taken, blocked, csrs>>
    BY <2>8 DEF Labels
  <2> QED
    BY <1>1, <2>3, <2>5, <2>6, <2>7, KernelLocal DEF csrs
<1>6. CASE EnablePreemption(h)
  <2> USE <1>6 DEF EnablePreemption
  <2>1. regs[p].pc \in Words
    BY <1>2 DEF Registers, Words
  <2>2. TypeOK'
    BY <1>2, <1>3, <2>1 DEF TypeOK, Goto, Labels
  <2>3. pc'[h] = "restore" /\ mepc'[h] = regs[p].pc /\ current(h)' = p
    BY <1>3 DEF TypeOK, Goto, current
  <2>4. Control(h)'
    BY <1>3, <1>4, <2>3 DEF Control, From
  <2>5. \A g \in Harts \ {h} : mepc'[g] = mepc[g] /\ mie'[g] = mie[g]
    BY <1>3 DEF TypeOK
  <2>6. Goto(h, "restore") /\ "restore" \in Labels \ {"user"} /\ UNCHANGED <<regs, live, taken, blocked, mscratch>>
    BY DEF Labels
  <2> QED
    BY <1>1, <2>2, <2>4, <2>5, <2>6, KernelLocal
<1>7. CASE restore_context(h)
  <2> DEFINE k == [live[h] EXCEPT !.a0 = regs[p].a0, !.a1 = regs[p].a1, !.x = regs[p].x]
  <2>1. /\ live' = [live EXCEPT ![h] = k] /\ From(h, "restore") /\ Goto(h, "leave")
        /\ UNCHANGED <<regs, trapped, taken, blocked, made, mepc, mscratch, mie>>
    BY <1>3, <1>7 DEF restore_context, csrs, TypeOK
  <2>2. /\ k \in [Registers -> Words] /\ k.tp = p /\ k.sp = Kernel
        /\ \A r \in {"a0", "a1", "x"} : k[r] = regs[p][r]
    BY <1>2, <1>4 DEF Words, Registers
  <2>3. TypeOK'
    BY <1>2, <1>3, <2>1, <2>2 DEF TypeOK, Goto, Labels
  <2>4. pc'[h] = "leave" /\ live'[h] = k /\ current(h)' = p
    BY <1>3, <2>1, <2>2 DEF TypeOK, Goto, current
  <2>5. Control(h)'
    BY <1>3, <1>4, <2>1, <2>2, <2>4 DEF Control, From
  <2>6. Goto(h, "leave") /\ "leave" \in Labels \ {"user"} /\ UNCHANGED <<regs, taken, blocked, mepc, mscratch, mie>>
    BY <2>1 DEF Labels
  <2> QED
    BY <1>1, <2>1, <2>2, <2>3, <2>5, <2>6, KernelLocal
<1> QED
  BY <1>5, <1>6, <1>7

LEMMA SwitchIInv ==
  ASSUME IInv, NEW h \in Harts, Leave(h) \/ Release(h) \/ KernelInterrupt(h) \/ SyscallBlocks(h)
  PROVE  IInv' /\ Only(h, current(h))
<1> DEFINE p == current(h)
<1>1. ~From(h, "user") /\ ~From(h, "sched")
  BY DEF Leave, Release, KernelInterrupt, SyscallBlocks, From, IInv, Control
<1>2. p \in Procs /\ regs[p] \in [Registers -> Int] /\ live[h] \in [Registers -> Words]
      /\ current(h) = live[h].tp /\ Holds(h, p) /\ p # Null
  BY <1>1, HasProcess, TrapAssumption DEF IInv, TypeOK
<1>3. Control(h) /\ TypeOK
  BY DEF IInv
<1>4. mscratch[h] = Null /\ live[h].sp = Kernel /\ p \in taken
  BY <1>1, <1>3 DEF Control, From
<1>5. CASE Leave(h)
  <2> DEFINE k == [live[h] EXCEPT !.pc = mepc[h], !.sp = regs[p].sp, !.tp = regs[p].tp]
  <2>1. /\ live' = [live EXCEPT ![h] = k] /\ From(h, "leave") /\ Goto(h, "user")
        /\ mie' = [mie EXCEPT ![h] = FALSE] /\ mscratch' = [mscratch EXCEPT ![h] = p]
        /\ UNCHANGED <<regs, trapped, taken, blocked, made, mepc>>
    BY <1>3, <1>5 DEF Leave, TypeOK
  <2>2. k = regs[p]
    <3>1. mepc[h] = regs[p].pc /\ \A r \in {"a0", "a1", "x"} : live[h][r] = regs[p][r]
      BY <1>3, <2>1 DEF Control, From
    <3>2. k \in [Registers -> Words \union Int] /\ \A r \in Registers : k[r] = regs[p][r]
      BY <1>2, <3>1 DEF Registers, Words
    <3> QED
      BY <1>2, <3>2
  <2>3. k \in [Registers -> Int] /\ k \in [Registers -> Words]
    BY <1>2, <2>2 DEF Words
  <2>4. TypeOK'
    BY <1>2, <1>3, <2>1, <2>3 DEF TypeOK, Goto, Labels
  <2>5. pc'[h] = "user" /\ live'[h] = k /\ mscratch'[h] = p /\ mie'[h] = FALSE
    BY <1>3, <2>1 DEF TypeOK, Goto
  <2>8. taken' = taken
    BY <2>1
  <2> HIDE DEF k
  <2>6. Control(h)'
    BY <1>4, <2>3, <2>5, <2>8 DEF Control, From
  <2>7. Only(h, p) /\ Apart'
    BY <1>2, <1>3, <2>1, <2>5 DEF Only, Holds, From, TypeOK, Goto, IInv, Apart
  <2> QED
    BY <1>2, <2>4, <2>6, <2>7, Local
<1>6. CASE Release(h)
  <2> USE <1>6 DEF Release, csrs
  <2>1. TypeOK'
    BY <1>3 DEF TypeOK, Goto, Labels
  <2>2. pc'[h] = "sched"
    BY <1>3 DEF TypeOK, Goto
  <2>3. Control(h)'
    BY <1>3, <1>4, <2>2 DEF Control, From
  <2>4. Only(h, p) /\ Apart'
    BY <1>2, <1>3, <1>4, <2>2 DEF Only, Holds, From, TypeOK, Goto, IInv, Apart
  <2> QED
    BY <1>2, <2>1, <2>3, <2>4, Local
<1>7. CASE KernelInterrupt(h)
  <2>1. /\ mie[h] /\ Goto(h, "yield") /\ mie' = [mie EXCEPT ![h] = FALSE]
        /\ mepc' = [mepc EXCEPT ![h] = Kernel] /\ mscratch' = [mscratch EXCEPT ![h] = Null]
        /\ UNCHANGED <<regs, live, trapped, taken, blocked, made>>
    BY <1>4, <1>7 DEF KernelInterrupt, trap_entry
  <2>2. TypeOK'
    BY <1>3, <2>1 DEF TypeOK, Goto, Labels, Words
  <2>3. pc'[h] = "yield" /\ mie'[h] = FALSE /\ mscratch'[h] = Null /\ current(h)' = p
    BY <1>3, <2>1 DEF TypeOK, Goto, current
  <2>4. Control(h)'
    BY <1>3, <1>4, <2>1, <2>3 DEF Control, From
  <2>5. Only(h, p) /\ Apart'
    BY <1>2, <1>3, <1>4, <2>1, <2>3 DEF Only, Holds, From, TypeOK, Goto, IInv, Apart
  <2> QED
    BY <1>2, <2>2, <2>4, <2>5, Local
<1>8. CASE SyscallBlocks(h)
  <2>1. /\ From(h, "syscall") /\ Goto(h, "sched")
        /\ taken' = taken \ {p} /\ blocked' = blocked \union {p}
        /\ UNCHANGED <<trapped, made, live, csrs>>
    BY <1>8 DEF SyscallBlocks
  <2>2. PICK r \in {regs[p].a0, ERROR_INTERRUPTED} :
          regs' = [regs EXCEPT ![p] = [Advance(p) EXCEPT !.a0 = r]]
    BY <1>8 DEF SyscallBlocks
  <2>3. [Advance(p) EXCEPT !.a0 = r] \in [Registers -> Int]
    <3>1. r \in Int /\ (regs[p].pc + 4) % WORD \in Int
      BY <1>2, TrapAssumption DEF ERROR_INTERRUPTED, Registers
    <3> QED
      BY <1>2, <3>1 DEF Advance
  <2>4. regs' \in [Procs -> [Registers -> Int]] /\ \A q \in Procs \ {p} : regs'[q] = regs[q]
    BY <1>2, <1>3, <2>2, <2>3 DEF TypeOK
  <2>5. TypeOK'
    BY <1>2, <1>3, <2>1, <2>4 DEF TypeOK, Goto, Labels, csrs
  <2>6. pc'[h] = "sched" /\ ~mie[h]
    BY <1>3, <2>1 DEF TypeOK, Goto, Control, From
  <2>7. Control(h)'
    BY <1>4, <2>1, <2>6 DEF Control, From, csrs
  <2>8. Only(h, p) /\ Apart'
    BY <1>2, <1>3, <2>1, <2>4, <2>6 DEF Only, Holds, From, TypeOK, Goto, IInv, Apart, csrs
  <2> QED
    BY <1>2, <2>5, <2>7, <2>8, Local
<1> QED
  BY <1>5, <1>6, <1>7, <1>8

LEMMA SchedIInv ==
  ASSUME IInv, NEW h \in Harts, SchedStart(h)
  PROVE  IInv' /\ \E p \in Procs \ (taken \union blocked) : live' = [live EXCEPT ![h] = [InKernel EXCEPT !.tp = p]] /\ Only(h, p)
<1>1. PICK p \in Procs \ (taken \union blocked) :
        /\ taken' = taken \union {p}
        /\ live' = [live EXCEPT ![h] = [InKernel EXCEPT !.tp = p]]
  BY DEF SchedStart
<1>2. From(h, "sched") /\ Goto(h, "resume") /\ UNCHANGED <<regs, trapped, blocked, made, csrs>>
  BY DEF SchedStart
<1>3. Control(h) /\ TypeOK
  BY DEF IInv
<1> DEFINE k == [InKernel EXCEPT !.tp = p]
<1>4. k \in [Registers -> Words] /\ k.sp = Kernel /\ k.tp = p
  BY DEF InKernel, Registers, Words
<1>5. TypeOK'
  BY <1>1, <1>2, <1>3, <1>4 DEF TypeOK, Goto, Labels, csrs
<1>6. pc'[h] = "resume" /\ live'[h] = k /\ ~mie[h] /\ mscratch[h] = Null
  BY <1>1, <1>2, <1>3 DEF TypeOK, Goto, Control, From
<1>9. mie'[h] = mie[h] /\ mscratch'[h] = Null /\ p \in taken'
  BY <1>1, <1>2, <1>6 DEF csrs
<1> HIDE DEF k
<1>7. Control(h)'
  BY <1>4, <1>6, <1>9 DEF Control, From, current
<1>8. Only(h, p) /\ Apart'
  BY <1>1, <1>2, <1>3, <1>4, <1>6 DEF Only, Holds, From, current, TypeOK, Goto, csrs, IInv, Apart
<1> QED
  BY <1>1, <1>5, <1>7, <1>8, Local DEF k
(* What happens to a process that waits concerns no hart.                  *)
LEMMA MessageIInv ==
  ASSUME IInv, NEW p \in Procs, Message(p) \/ Resumed(p)
  PROVE  /\ IInv' /\ p \in blocked /\ p \notin blocked'
         /\ \A h \in Harts : ~Holds(h, p)
         /\ \A q \in Procs \ {p} : regs'[q] = regs[q] /\ (q \in blocked' <=> q \in blocked)
         /\ UNCHANGED <<trapped, taken, made, pc, live, csrs>>
<1>1. /\ p \in blocked /\ blocked' = blocked \ {p}
      /\ UNCHANGED <<trapped, taken, made, pc, live, csrs>>
  BY DEF Message, Resumed
<1>2. regs' \in [Procs -> [Registers -> Int]] /\ \A q \in Procs \ {p} : regs'[q] = regs[q]
  <2>1. regs \in [Procs -> [Registers -> Int]]
    BY DEF IInv, TypeOK
  <2>2. CASE Message(p)
    <3>1. PICK v \in Values[p], w \in Values[p] :
            regs' = [regs EXCEPT ![p].a0 = ERROR_OK, ![p].a1 = v, ![p].x = w]
      BY <2>2 DEF Message
    <3>2. v \in Int /\ w \in Int /\ ERROR_OK \in Int
      BY TrapAssumption DEF ERROR_OK
    <3>3. regs' = [regs EXCEPT ![p] = [regs[p] EXCEPT !.a0 = ERROR_OK, !.a1 = v, !.x = w]]
      BY <2>1, <3>1
    <3>4. [regs[p] EXCEPT !.a0 = ERROR_OK, !.a1 = v, !.x = w] \in [Registers -> Int]
      BY <2>1, <3>2
    <3> QED
      BY <2>1, <3>3, <3>4
  <2>3. CASE Resumed(p)
    BY <2>1, <2>3 DEF Resumed
  <2> QED
    BY <2>2, <2>3
<1>3. p \notin taken /\ Apart' /\ \A h \in Harts : ~Holds(h, p)
  BY <1>1, HoldsTaken DEF IInv, Apart
<1>4. TypeOK'
  BY <1>1, <1>2 DEF IInv, TypeOK, csrs
<1>5. One'
  BY <1>1 DEF IInv, One, Holds, From, current, csrs
<1>6. ASSUME NEW h \in Harts PROVE Control(h)'
  <2>1. CASE From(h, "user") \/ From(h, "sched")
    BY <1>1, <2>1 DEF IInv, Control, From, csrs
  <2>2. CASE ~From(h, "user") /\ ~From(h, "sched")
    <3>1. current(h) \in Procs /\ current(h) # p /\ current(h)' = current(h)
      BY <1>1, <1>3, <2>2, HasProcess DEF current
    <3>2. regs'[current(h)] = regs[current(h)]
      BY <1>2, <3>1
    <3> QED
      BY <1>1, <2>2, <3>1, <3>2 DEF IInv, Control, From, csrs
  <2> QED
    BY <2>1, <2>2
<1> QED
  BY <1>1, <1>2, <1>3, <1>4, <1>5, <1>6 DEF IInv

LEMMA InitIInv == Init => IInv
<1> SUFFICES ASSUME Init PROVE IInv
  OBVIOUS
<1>1. regs \in [Procs -> [Registers -> Int]]
  <2>1. PICK r \in [Procs -> UNION {Files[p] : p \in Procs}] :
          regs = r /\ \A p \in Procs : r[p] \in Files[p]
    BY DEF Init
  <2> QED
    BY <2>1, TrapAssumption
<1>2. InKernel \in [Registers -> Words] /\ InKernel.sp = Kernel
  BY DEF InKernel, Words, Registers
<1>6. trapped \in [Procs -> [TrapRegs -> Int]]
  <2>1. [r \in TrapRegs |-> 0] \in [TrapRegs -> Int]
    OBVIOUS
  <2> QED
    BY <2>1 DEF Init
<1>3. TypeOK
  <2>1. taken \subseteq Procs /\ blocked \subseteq Procs /\ made \in BOOLEAN
    BY DEF Init
  <2>2. pc \in [Harts -> Labels] /\ mie \in [Harts -> BOOLEAN] /\ mscratch \in [Harts -> Procs \union {Null}]
    BY DEF Init, Labels
  <2>3. live \in [Harts -> [Registers -> Words]] /\ mepc \in [Harts -> Words]
    BY <1>2 DEF Init, Words
  <2> QED
    BY <1>1, <1>6, <2>1, <2>2, <2>3 DEF TypeOK
<1>4. \A h \in Harts : From(h, "sched") /\ ~mie[h] /\ mscratch[h] = Null /\ live[h].sp = Kernel
  BY <1>2 DEF Init, From
<1>5. One /\ Apart /\ \A h \in Harts : Control(h)
  BY <1>4 DEF Init, One, Apart, Holds, Control, From
<1> QED
  BY <1>3, <1>5 DEF IInv

LEMMA NextIInv == IInv /\ [Next]_vars => IInv'
<1> SUFFICES ASSUME IInv, [Next]_vars PROVE IInv'
  OBVIOUS
<1>1. CASE UNCHANGED vars
  BY <1>1 DEF vars, csrs, IInv, TypeOK, One, Apart, Control, Holds, From, current
<1>2. ASSUME NEW h \in Harts,
             KernelStep(h) \/ KernelInterrupt(h) \/ SchedStart(h) \/ UserStep(h)
      PROVE  IInv'
  BY <1>2, UserIInv, SyscallIInv, ResumeIInv, SwitchIInv, SchedIInv DEF KernelStep
<1>3. ASSUME NEW p \in Procs, Message(p) \/ Resumed(p) PROVE IInv'
  BY <1>3, MessageIInv
<1> QED
  BY <1>1, <1>2, <1>3 DEF Next

LEMMA Invariant == Spec => []IInv
BY InitIInv, NextIInv, PTL DEF Spec

LEMMA IInvFindsProcess == IInv => TrapFindsItsProcess
<1> SUFFICES ASSUME IInv
             PROVE  TrapFindsItsProcess
  OBVIOUS
<1>1. ASSUME NEW h \in Harts
      PROVE  /\ IF From(h, "user") THEN mscratch[h] \in taken
                ELSE mscratch[h] = Null /\ live[h].sp = Kernel
             /\ pc[h] \notin {"user", "sched"} => current(h) \in taken
             /\ mie[h] => pc[h] \in {"check", "store", "resume", "restore", "leave"}
             /\ \A g \in Harts, p \in Procs : Holds(g, p) /\ Holds(h, p) => g = h
  BY DEF IInv, Control, One
<1> QED
  BY <1>1 DEF IInv, Apart, TrapFindsItsProcess

(* The types of Trap.                                                      *)
THEOREM TypeCorrect == Spec => []TypeOK
<1>1. IInv => TypeOK
  BY DEF IInv
<1> QED
  BY <1>1, Invariant, PTL

(* trap.S, for any harts and processes: every trap, from user mode or from *)
(* the kernel, finds the process of the hart and the kernel's stack.       *)
THEOREM TrapsFindProcesses == Spec => []TrapFindsItsProcess
BY IInvFindsProcess, Invariant, PTL
----------------------------------------------------------------------------
(* What the processes see.  The registers and the mode of a process are    *)
(* those of the hart that has it; a step of that hart changes no other's.  *)
ModeAt(h) ==
  IF pc[h] \in {"user", "exception", "syscall"} THEN "on"
  ELSE IF Unanswered(h) THEN "calling" ELSE "off"

LEMMA ViewHeld ==
  ASSUME IInv, NEW h \in Harts, NEW p \in Procs, Holds(h, p)
  PROVE  ureg[p] = Seen(h, p) /\ mode[p] = ModeAt(h)
<1>1. \A g \in Harts : Holds(g, p) => g = h
  BY DEF IInv, One
<1>2. (CHOOSE g \in Harts : Holds(g, p)) = h
  BY <1>1
<1>3. p \notin blocked
  BY HoldsTaken DEF IInv, Apart
<1> QED
  BY <1>1, <1>2, <1>3 DEF ureg, mode, ModeAt

LEMMA ViewFree ==
  ASSUME NEW p \in Procs, \A h \in Harts : ~Holds(h, p)
  PROVE  ureg[p] = regs[p] /\ mode[p] = IF p \in blocked THEN "waiting" ELSE "off"
BY DEF ureg, mode

LEMMA ViewHeldNext ==
  ASSUME IInv', NEW h \in Harts, NEW p \in Procs, Holds(h, p)'
  PROVE  ureg'[p] = Seen(h, p)' /\ mode'[p] = ModeAt(h)'
<1>1. \A g \in Harts : Holds(g, p)' => g = h
  BY DEF IInv, One
<1>2. (CHOOSE g \in Harts : Holds(g, p)') = h
  BY <1>1
<1>3. p \notin blocked'
  BY DEF IInv, TypeOK, Control, Holds, From, Apart
<1> QED
  BY <1>1, <1>2, <1>3 DEF ureg, mode, ModeAt

LEMMA ViewFreeNext ==
  ASSUME NEW p \in Procs, \A h \in Harts : ~Holds(h, p)'
  PROVE  ureg'[p] = regs'[p] /\ mode'[p] = IF p \in blocked' THEN "waiting" ELSE "off"
BY DEF ureg, mode

LEMMA ViewOthers ==
  ASSUME IInv, IInv', NEW h \in Harts, NEW p \in Procs, Only(h, p)
  PROVE  /\ ureg' = [ureg EXCEPT ![p] = ureg'[p]]
         /\ mode' = [mode EXCEPT ![p] = mode'[p]]
<1>1. ASSUME NEW q \in Procs \ {p} PROVE ureg'[q] = ureg[q] /\ mode'[q] = mode[q]
  <2>1. ASSUME NEW g \in Harts PROVE Holds(g, q)' <=> Holds(g, q)
    <3>1. CASE g = h
      BY <3>1, HoldsOne DEF Only, Holds, From
    <3>2. CASE g # h
      BY <3>2 DEF Only, Holds, From, current
    <3> QED
      BY <3>1, <3>2
  <2>2. CASE \A g \in Harts : ~Holds(g, q)
    BY <2>1, <2>2, ViewFree, ViewFreeNext DEF Only
  <2>3. ASSUME NEW g \in Harts, Holds(g, q) PROVE ureg'[q] = ureg[q] /\ mode'[q] = mode[q]
    <3>1. g # h
      BY <2>3, HoldsOne DEF Only, Holds, From
    <3>2. pc'[g] = pc[g] /\ live'[g] = live[g] /\ mie'[g] = mie[g] /\ regs'[q] = regs[q]
      BY <3>1 DEF Only
    <3>3. Seen(g, q)' = Seen(g, q) /\ ModeAt(g)' = ModeAt(g)
      BY <3>2 DEF Seen, ModeAt, Unanswered, Answered, From
    <3> QED
      BY <2>1, <2>3, <3>3, ViewHeld, ViewHeldNext DEF IInv
  <2> QED
    BY <2>2, <2>3
<1>2. /\ ureg = [q \in Procs |-> ureg[q]] /\ ureg' = [q \in Procs |-> ureg'[q]]
      /\ mode = [q \in Procs |-> mode[q]] /\ mode' = [q \in Procs |-> mode'[q]]
  BY DEF ureg, mode
<1>3. ASSUME NEW f, NEW g, f = [q \in Procs |-> f[q]], g = [q \in Procs |-> g[q]],
             \A q \in Procs \ {p} : g[q] = f[q]
      PROVE  g = [f EXCEPT ![p] = g[p]]
  BY <1>3
<1> QED
  BY <1>1, <1>2, <1>3
LEMMA SeenAt ==
  ASSUME NEW h \in Harts, NEW p \in Procs
  PROVE  /\ pc[h] = "user" => Seen(h, p) = live[h] /\ ModeAt(h) = "on"
         /\ pc[h] \in {"exception", "syscall"} => Seen(h, p) = regs[p] /\ ModeAt(h) = "on"
         /\ pc[h] = "check" \/ (pc[h] = "store" /\ mie[h]) =>
              Seen(h, p) = [regs[p] EXCEPT !.a0 = Null] /\ ModeAt(h) = "calling"
         /\ pc[h] = "store" /\ ~mie[h] =>
              Seen(h, p) = [regs[p] EXCEPT !.a0 = live[h].a0] /\ ModeAt(h) = "off"
         /\ pc[h] \in {"resume", "restore", "leave", "yield"} =>
              Seen(h, p) = regs[p] /\ ModeAt(h) = "off"
BY DEF Seen, ModeAt, Unanswered, Answered, From

LEMMA SeenAtNext ==
  ASSUME NEW h \in Harts, NEW p \in Procs
  PROVE  /\ pc'[h] = "user" => Seen(h, p)' = live'[h] /\ ModeAt(h)' = "on"
         /\ pc'[h] \in {"exception", "syscall"} => Seen(h, p)' = regs'[p] /\ ModeAt(h)' = "on"
         /\ pc'[h] = "check" \/ (pc'[h] = "store" /\ mie'[h]) =>
              Seen(h, p)' = [regs'[p] EXCEPT !.a0 = Null] /\ ModeAt(h)' = "calling"
         /\ pc'[h] = "store" /\ ~mie'[h] =>
              Seen(h, p)' = [regs'[p] EXCEPT !.a0 = live'[h].a0] /\ ModeAt(h)' = "off"
         /\ pc'[h] \in {"resume", "restore", "leave", "yield"} =>
              Seen(h, p)' = regs'[p] /\ ModeAt(h)' = "off"
BY DEF Seen, ModeAt, Unanswered, Answered, From

LEMMA Stutters ==
  ASSUME IInv, IInv', NEW h \in Harts, NEW p \in Procs, Only(h, p),
         ureg'[p] = ureg[p], mode'[p] = mode[p], UNCHANGED <<trapped, made>>
  PROVE  UNCHANGED View!uvars
<1>1. ureg = [q \in Procs |-> ureg[q]] /\ mode = [q \in Procs |-> mode[q]]
  BY DEF ureg, mode
<1>2. ureg' = [ureg EXCEPT ![p] = ureg[p]] /\ mode' = [mode EXCEPT ![p] = mode[p]]
  BY ViewOthers
<1>3. ASSUME NEW f, f = [q \in Procs |-> f[q]] PROVE f = [f EXCEPT ![p] = f[p]]
  BY <1>3
<1>4. ureg' = ureg /\ mode' = mode
  BY <1>1, <1>2, <1>3
<1> QED
  BY <1>4 DEF View!uvars

LEMMA UserView ==
  ASSUME IInv, NEW h \in Harts, UserStep(h)
  PROVE  View!Next \/ UNCHANGED View!uvars
<1>1. From(h, "user")
  BY DEF UserStep, Compute, TimerInterrupt, Ecall, Fault, TrapUser
<1>0. PICK p \in Procs : p = mscratch[h]
  BY <1>1, UserHasProcess
<1>2. mscratch[h] = p /\ Holds(h, p) /\ p # Null /\ live[h] \in [Registers -> Int] /\ p \in taken
  BY <1>0, <1>1, UserHasProcess, TrapAssumption DEF IInv, Control, From
<1>3. IInv' /\ Only(h, p)
  BY <1>0, UserIInv
<1>4. ureg[p] = live[h] /\ mode[p] = "on"
  BY <1>1, <1>2, ViewHeld, SeenAt DEF IInv, From
<1>5. ureg' = [ureg EXCEPT ![p] = ureg'[p]] /\ mode' = [mode EXCEPT ![p] = mode'[p]]
  BY <1>2, <1>3, ViewOthers
<1>6. CASE Compute(h)
  <2>1. PICK f \in Files[p] : live' = [live EXCEPT ![h] = f]
    BY <1>2, <1>6 DEF Compute
  <2>2. From(h, "user")' /\ mscratch' = mscratch /\ live'[h] = f /\ UNCHANGED <<trapped, made, pc>>
    BY <1>1, <1>6, <2>1 DEF Compute, From, csrs, IInv, TypeOK
  <2>3. Holds(h, p)'
    BY <1>2, <2>2 DEF Holds
  <2>4. ureg'[p] = f /\ mode'[p] = "on"
    BY <1>2, <1>3, <2>2, <2>3, ViewHeldNext, SeenAtNext DEF IInv, From
  <2>5. mode' = mode
    BY <1>4, <1>5, <2>4 DEF mode
  <2>6. View!Compute(p)
    BY <1>4, <1>5, <2>2, <2>4, <2>5 DEF View!Compute, View!Becomes
  <2> QED
    BY <1>2, <2>6 DEF View!Next
<1>7. ASSUME NEW l \in {"yield", "syscall", "exception"}, TrapUser(h, l)
      PROVE  /\ pc'[h] = l /\ UNCHANGED <<trapped, made>>
             /\ regs'[p] = live[h]
             /\ ureg'[p] = Seen(h, p)' /\ mode'[p] = ModeAt(h)'
  <2>1. /\ mepc' = [mepc EXCEPT ![h] = live[h].pc]
        /\ regs' = [regs EXCEPT ![p] = [live[h] EXCEPT !.pc = mepc'[h]]]
        /\ live' = [live EXCEPT ![h] = [InKernel EXCEPT !.tp = p]]
        /\ pc' = [pc EXCEPT ![h] = l]
        /\ UNCHANGED <<trapped, made>>
    BY <1>2, <1>7 DEF TrapUser, trap_entry, Goto
  <2>2. live'[h].tp = p /\ pc'[h] = l
    BY <2>1 DEF IInv, TypeOK, InKernel, Registers
  <2>3. regs'[p] = [live[h] EXCEPT !.pc = live[h].pc]
    BY <1>2, <2>1 DEF IInv, TypeOK
  <2>4. regs'[p] = live[h]
    BY <1>2, <2>3
  <2>5. Holds(h, p)'
    BY <1>7, <2>2 DEF Holds, From, current
  <2> QED
    BY <1>2, <1>3, <2>1, <2>2, <2>4, <2>5, ViewHeldNext DEF IInv
<1>8. CASE TimerInterrupt(h)
  <2>1. ureg'[p] = ureg[p] /\ mode'[p] = "off" /\ UNCHANGED <<trapped, made>>
    BY <1>2, <1>4, <1>7, <1>8, SeenAtNext DEF TimerInterrupt
  <2>2. ureg' = ureg
    BY <1>5, <2>1 DEF ureg
  <2>3. View!Preempt(p)
    BY <1>4, <1>5, <2>1, <2>2 DEF View!Preempt, View!Enter
  <2> QED
    BY <1>2, <2>3 DEF View!Next
<1>10. CASE Ecall(h) \/ Fault(h)
  <2>1. ureg'[p] = ureg[p] /\ mode'[p] = mode[p] /\ UNCHANGED <<trapped, made>>
    BY <1>2, <1>4, <1>7, <1>10, SeenAtNext DEF Ecall, Fault
  <2> QED
    BY <1>2, <1>3, <2>1, Stutters
<1> QED
  BY <1>6, <1>8, <1>10 DEF UserStep

LEMMA Overwrite ==
  ASSUME NEW f \in [Registers -> Int], NEW v, NEW r
  PROVE  [[f EXCEPT !.a0 = v] EXCEPT !.a0 = r] = [f EXCEPT !.a0 = r]
BY DEF Registers

LEMMA SyscallView ==
  ASSUME IInv, NEW h \in Harts,
         \/ SyscallYields(h) \/ SyscallReturns(h) \/ SyscallReads(h) \/ SyscallWriteReg(h)
         \/ SyscallPreemptible(h) \/ CheckFails(h) \/ Commit(h) \/ StoreResult(h)
  PROVE  View!Next \/ UNCHANGED View!uvars
<1>1. ~From(h, "user") /\ ~From(h, "sched")
  BY DEF SyscallYields, SyscallReturns, SyscallReads, SyscallWriteReg, SyscallPreemptible, CheckFails, Commit, StoreResult, From
<1>2. PICK p \in Procs : p = current(h)
  BY <1>1, HasProcess
<1>3. IInv' /\ Only(h, p) /\ Holds(h, p) /\ Control(h)
  BY <1>1, <1>2, HasProcess, SyscallIInv DEF IInv
<1>4. ureg[p] = Seen(h, p) /\ mode[p] = ModeAt(h)
  BY <1>3, ViewHeld DEF IInv
<1>5. ureg' = [ureg EXCEPT ![p] = ureg'[p]] /\ mode' = [mode EXCEPT ![p] = mode'[p]]
  BY <1>3, ViewOthers
<1>6. /\ regs[p] \in [Registers -> Int] /\ trapped \in [Procs -> [TrapRegs -> Int]]
      /\ live[h] \in [Registers -> Words] /\ live[h].tp = p /\ made \in BOOLEAN
  BY <1>2 DEF IInv, TypeOK, current
<1>18. Advance(p) \in [Registers -> Int]
  <2>1. (regs[p].pc + 4) % WORD \in Int
    BY <1>6, TrapAssumption DEF Registers
  <2> QED
    BY <1>6, <2>1 DEF Advance
<1>7. ASSUME NEW l \in Labels \ {"user", "sched"}, Goto(h, l), live'[h].tp = p
      PROVE  pc'[h] = l /\ ureg'[p] = Seen(h, p)' /\ mode'[p] = ModeAt(h)'
  <2>1. pc'[h] = l
    BY <1>7 DEF Goto, IInv, TypeOK
  <2>2. Holds(h, p)'
    BY <1>7, <2>1 DEF Holds, From, current
  <2> QED
    BY <1>3, <2>1, <2>2, ViewHeldNext DEF IInv
<1>8. ASSUME NEW r \in Errors \union {ERROR_OK, ERROR_PREEMPTED}, ureg'[p] = [ureg[p] EXCEPT !.a0 = r], mode[p] = "calling", mode'[p] = "off",
             trapped' = trapped, made' \in BOOLEAN, made' # made => r = ERROR_OK
      PROVE  View!Next
  <2>1. View!Answer(p)
    BY <1>5, <1>8 DEF View!Answer, View!Enter, View!Becomes, View!ERROR_OK, ERROR_OK,
       View!ERROR_PREEMPTED, ERROR_PREEMPTED
  <2> QED
    BY <2>1 DEF View!Next
<1>19. ASSUME From(h, "syscall")
      PROVE  mode[p] = "on" /\ ureg[p] = regs[p] /\ View!Past(p) = Advance(p)
  BY <1>4, <1>19, SeenAt DEF From, View!Past, Advance
<1>9. CASE SyscallYields(h)
  <2>1. /\ From(h, "syscall") /\ Goto(h, "yield") /\ UNCHANGED <<live, trapped, made>>
        /\ regs' = [regs EXCEPT ![p] = [Advance(p) EXCEPT !.a0 = ERROR_OK]]
    BY <1>2, <1>9 DEF SyscallYields
  <2>2. regs'[p] = [Advance(p) EXCEPT !.a0 = ERROR_OK]
    BY <2>1 DEF IInv, TypeOK
  <2>3. mode'[p] = "off" /\ ureg'[p] = regs'[p]
    BY <1>6, <1>7, <2>1, SeenAtNext DEF Labels
  <2>4. View!Call(p)
    BY <1>5, <1>19, <2>1, <2>2, <2>3 DEF View!Call, View!Enter, View!Becomes, View!ERROR_OK, ERROR_OK
  <2> QED
    BY <2>4 DEF View!Next
<1>16. ASSUME NEW f \in [Registers -> Int], NEW r, From(h, "syscall"), Return(h, r),
             regs' = [regs EXCEPT ![p] = f], UNCHANGED <<made, mie>>
      PROVE  /\ View!Enter(p, "on", "off") /\ UNCHANGED made
             /\ ureg' = [ureg EXCEPT ![p] = [f EXCEPT !.a0 = r]]
  <2>3. regs'[p] = f /\ live'[h] = [live[h] EXCEPT !.a0 = r] /\ Goto(h, "store")
    BY <1>16 DEF IInv, TypeOK, Return
  <2>4. live'[h].tp = p /\ live'[h].a0 = r /\ ~mie'[h]
    BY <1>3, <1>6, <1>16, <2>3 DEF Registers, Control, From
  <2>6. mode'[p] = "off" /\ ureg'[p] = [regs'[p] EXCEPT !.a0 = live'[h].a0]
    BY <1>7, <2>3, <2>4, SeenAtNext DEF Labels
  <2> QED
    BY <1>5, <1>16, <1>19, <2>3, <2>4, <2>6 DEF View!Enter
<1>10. CASE SyscallReturns(h)
  <2>1. PICK r \in Errors \union Values[p] \union {ERROR_OK} : Return(h, r)
    BY <1>2, <1>10 DEF SyscallReturns
  <2>2. /\ From(h, "syscall") /\ regs' = [regs EXCEPT ![p] = Advance(p)]
        /\ UNCHANGED <<trapped, made, mie>>
    BY <1>2, <1>10 DEF SyscallReturns, csrs
  <2>3. View!Call(p)
    BY <1>16, <1>18, <1>19, <2>1, <2>2 DEF View!Call, View!Becomes, View!ERROR_OK, ERROR_OK
  <2> QED
    BY <2>3 DEF View!Next
<1>15. CASE SyscallReads(h)
  <2>1. PICK v \in Values[p], w \in Values[p] \union {regs[p].x} :
          regs' = [regs EXCEPT ![p] = [Advance(p) EXCEPT !.a1 = v, !.x = w]]
    BY <1>2, <1>15 DEF SyscallReads
  <2>2. From(h, "syscall") /\ Return(h, ERROR_OK) /\ UNCHANGED <<trapped, made, mie>>
    BY <1>15 DEF SyscallReads, csrs
  <2> DEFINE f == [Advance(p) EXCEPT !.a1 = v, !.x = w]
  <2>3. f \in [Registers -> Int]
    <3>1. v \in Int /\ w \in Int
      BY <1>6, TrapAssumption DEF Registers
    <3> QED
      BY <1>18, <3>1
  <2>4. [f EXCEPT !.a0 = ERROR_OK] = [Advance(p) EXCEPT !.a0 = ERROR_OK, !.a1 = v, !.x = w]
    BY <1>18 DEF Registers
  <2>5. View!Enter(p, "on", "off") /\ ureg' = [ureg EXCEPT ![p] = [f EXCEPT !.a0 = ERROR_OK]]
    BY <1>16, <2>1, <2>2, <2>3
  <2>6. View!Becomes(p, [View!Past(p) EXCEPT !.a0 = View!ERROR_OK, !.a1 = v, !.x = w])
    BY <1>19, <2>2, <2>4, <2>5 DEF View!Becomes, View!ERROR_OK, ERROR_OK
  <2>7. View!Read(p)
    BY <1>19, <2>2, <2>5, <2>6 DEF View!Read
  <2> QED
    BY <2>7 DEF View!Next
<1>17. CASE SyscallWriteReg(h)
  <2>1. PICK w \in Writes[p] :
          IF w.reg \in TrapRegs
          THEN /\ regs' = [regs EXCEPT ![p] = Advance(p)]
               /\ trapped' = [trapped EXCEPT ![p][w.reg] = w.val]
               /\ Return(h, trapped[p][w.reg])
          ELSE /\ regs' = [regs EXCEPT ![p] = [Advance(p) EXCEPT ![w.reg] = w.val]]
               /\ Return(h, Advance(p)[w.reg])
               /\ UNCHANGED trapped
    BY <1>2, <1>17 DEF SyscallWriteReg
  <2>2. From(h, "syscall") /\ UNCHANGED <<made, mie>>
    BY <1>17 DEF SyscallWriteReg, csrs
  <2>3. CASE w.reg \in TrapRegs
    <3>1. View!Enter(p, "on", "off")
          /\ View!Becomes(p, [Advance(p) EXCEPT !.a0 = trapped[p][w.reg]])
      BY <1>16, <1>18, <2>1, <2>2, <2>3 DEF View!Becomes
    <3>2. w.reg \in View!TrapRegs
      BY <2>3 DEF TrapRegs, View!TrapRegs
    <3>3. View!WriteReg(p)
      BY <1>19, <2>1, <2>2, <2>3, <3>1, <3>2 DEF View!WriteReg
    <3> QED
      BY <3>3 DEF View!Next
  <2>4. CASE w.reg \notin TrapRegs
    <3>1. w \in [reg : Registers \union TrapRegs, val : Int]
      BY TrapAssumption
    <3>2. [Advance(p) EXCEPT ![w.reg] = w.val] \in [Registers -> Int]
      BY <1>18, <2>4, <3>1
    <3>3. View!Enter(p, "on", "off")
          /\ View!Becomes(p, [Advance(p) EXCEPT ![w.reg] = w.val, !.a0 = Advance(p)[w.reg]])
      BY <1>16, <2>1, <2>2, <2>4, <3>2 DEF View!Becomes
    <3>4. w.reg \notin View!TrapRegs
      BY <2>4 DEF TrapRegs, View!TrapRegs
    <3>5. View!WriteReg(p)
      BY <1>19, <2>1, <2>2, <2>4, <3>3, <3>4 DEF View!WriteReg
    <3> QED
      BY <3>5 DEF View!Next
  <2> QED
    BY <2>3, <2>4
<1>11. CASE SyscallPreemptible(h)
  <2>1. /\ From(h, "syscall") /\ regs' = [regs EXCEPT ![p] = [Advance(p) EXCEPT !.a0 = ERROR_PREEMPTED]]
        /\ Goto(h, "check") /\ UNCHANGED <<live, trapped, made>>
    BY <1>2, <1>11 DEF SyscallPreemptible
  <2>2. regs'[p] = [Advance(p) EXCEPT !.a0 = ERROR_PREEMPTED]
    BY <2>1 DEF IInv, TypeOK
  <2>3. mode'[p] = "calling" /\ ureg'[p] = [regs'[p] EXCEPT !.a0 = Null]
    BY <1>6, <1>7, <2>1, SeenAtNext DEF Labels
  <2>4. ureg'[p] = [Advance(p) EXCEPT !.a0 = Null]
    BY <1>18, <2>2, <2>3, Overwrite
  <2>5. View!Begin(p)
    BY <1>5, <1>19, <2>1, <2>3, <2>4 DEF View!Begin, View!Enter, View!Becomes
  <2> QED
    BY <2>5 DEF View!Next
<1>12. CASE CheckFails(h)
  <2>1. PICK r \in Errors : Return(h, r)
    BY <1>12 DEF CheckFails
  <2>2. From(h, "check") /\ UNCHANGED <<regs, trapped, made, mie>>
    BY <1>12 DEF CheckFails, csrs
  <2>3. live'[h] = [live[h] EXCEPT !.a0 = r] /\ Goto(h, "store") /\ mie'[h]
    BY <1>3, <2>1, <2>2 DEF IInv, TypeOK, Return, Control, From
  <2>4. live'[h].tp = p
    BY <1>6, <2>3 DEF Registers
  <2>5. mode[p] = "calling" /\ ureg[p] = [regs[p] EXCEPT !.a0 = Null]
    BY <1>4, <2>2, SeenAt DEF From
  <2>6. mode'[p] = "calling" /\ ureg'[p] = [regs[p] EXCEPT !.a0 = Null]
    BY <1>7, <2>2, <2>3, <2>4, SeenAtNext DEF Labels
  <2> QED
    BY <1>3, <2>2, <2>5, <2>6, Stutters
<1>13. CASE Commit(h)
  <2>1. PICK r \in Errors \union {ERROR_OK} :
          /\ Return(h, r)
          /\ made' = made \/ (made' = ~made /\ r = ERROR_OK)
    BY <1>13 DEF Commit
  <2>2. From(h, "check") /\ UNCHANGED <<regs, trapped>> /\ mie' = [mie EXCEPT ![h] = FALSE]
    BY <1>13 DEF Commit
  <2>3. live'[h] = [live[h] EXCEPT !.a0 = r] /\ Goto(h, "store") /\ ~mie'[h]
    BY <2>1, <2>2 DEF IInv, TypeOK, Return
  <2>4. live'[h].tp = p /\ live'[h].a0 = r
    BY <1>6, <2>3 DEF Registers
  <2>5. mode[p] = "calling" /\ ureg[p] = [regs[p] EXCEPT !.a0 = Null]
    BY <1>4, <2>2, SeenAt DEF From
  <2>6. mode'[p] = "off" /\ ureg'[p] = [regs[p] EXCEPT !.a0 = r]
    <3>1. /\ pc'[h] = "store" /\ regs' = regs
          /\ ureg'[p] = Seen(h, p)' /\ mode'[p] = ModeAt(h)'
      BY <1>7, <2>2, <2>3, <2>4 DEF Labels
    <3>2. Seen(h, p)' = [regs'[p] EXCEPT !.a0 = live'[h].a0] /\ ModeAt(h)' = "off"
      BY <2>3, <3>1, SeenAtNext
    <3> QED
      BY <2>4, <3>1, <3>2
  <2>7. ureg'[p] = [ureg[p] EXCEPT !.a0 = r]
    BY <1>6, <2>5, <2>6, Overwrite
  <2> QED
    BY <1>6, <1>8, <2>1, <2>2, <2>5, <2>6, <2>7
<1>14. CASE StoreResult(h)
  <2>0. PICK r : r = live[h].a0
    OBVIOUS
  <2>1. /\ From(h, "store") /\ regs' = [regs EXCEPT ![p].a0 = r] /\ Goto(h, "resume")
        /\ UNCHANGED <<live, trapped, made>>
    BY <1>2, <1>14, <2>0 DEF StoreResult
  <2>2. regs'[p] = [regs[p] EXCEPT !.a0 = r] /\ (mie[h] => r \in Errors)
    BY <1>3, <2>0, <2>1 DEF IInv, TypeOK, Control
  <2>3. mode'[p] = "off" /\ ureg'[p] = regs'[p]
    BY <1>6, <1>7, <2>1, SeenAtNext DEF Labels
  <2>4. CASE mie[h]
    <3>1. mode[p] = "calling" /\ ureg[p] = [regs[p] EXCEPT !.a0 = Null]
      BY <1>4, <2>0, <2>1, <2>4, SeenAt DEF From
    <3>2. ureg'[p] = [ureg[p] EXCEPT !.a0 = r]
      BY <1>6, <2>2, <2>3, <3>1, Overwrite
    <3> QED
      BY <1>6, <1>8, <2>1, <2>2, <2>3, <2>4, <3>1, <3>2
  <2>5. CASE ~mie[h]
    <3>1. mode[p] = "off" /\ ureg[p] = [regs[p] EXCEPT !.a0 = r]
      BY <1>4, <2>0, <2>1, <2>5, SeenAt DEF From
    <3> QED
      BY <1>3, <2>1, <2>2, <2>3, <3>1, Stutters
  <2> QED
    BY <2>4, <2>5
<1> QED
  BY <1>9, <1>10, <1>11, <1>12, <1>13, <1>14, <1>15, <1>17

LEMMA ResumeView ==
  ASSUME IInv, NEW h \in Harts,
         Exception(h) \/ EnablePreemption(h) \/ restore_context(h)
  PROVE  View!Next \/ UNCHANGED View!uvars
<1>1. ~From(h, "user") /\ ~From(h, "sched")
  BY DEF Exception, EnablePreemption, restore_context, From
<1>2. PICK p \in Procs : p = current(h)
  BY <1>1, HasProcess
<1>3. IInv' /\ Only(h, p) /\ Holds(h, p) /\ Control(h)
  BY <1>1, <1>2, HasProcess, ResumeIInv DEF IInv
<1>4. ureg[p] = Seen(h, p) /\ mode[p] = ModeAt(h)
  BY <1>3, ViewHeld DEF IInv
<1>5. ureg' = [ureg EXCEPT ![p] = ureg'[p]] /\ mode' = [mode EXCEPT ![p] = mode'[p]]
  BY <1>3, ViewOthers
<1>6. /\ regs[p] \in [Registers -> Int] /\ trapped \in [Procs -> [TrapRegs -> Int]]
      /\ live[h] \in [Registers -> Words] /\ live[h].tp = p
  BY <1>2 DEF IInv, TypeOK, current
<1>7. ASSUME NEW l \in {"resume", "restore", "leave"}, Goto(h, l), live'[h].tp = p
      PROVE  mode'[p] = "off" /\ ureg'[p] = regs'[p]
  <2>1. pc'[h] = l
    BY <1>7 DEF Goto, IInv, TypeOK
  <2>2. Holds(h, p)'
    BY <1>7, <2>1 DEF Holds, From, current
  <2> QED
    BY <1>3, <1>7, <2>1, <2>2, ViewHeldNext, SeenAtNext DEF IInv
<1>8. CASE Exception(h)
  <2>1. PICK f \in Faults[p] :
          IF f = [cause |-> ILLEGAL_INSTRUCTION, val |-> MRET]
          THEN LeaveHandler(p) ELSE EnterHandler(p, f, mepc[h])
    BY <1>2, <1>8 DEF Exception
  <2>2. From(h, "exception") /\ Goto(h, "resume") /\ UNCHANGED <<live, made>>
    BY <1>8 DEF Exception
  <2>3. mode[p] = "on" /\ ureg[p] = regs[p] /\ mepc[h] = regs[p].pc
    BY <1>2, <1>3, <1>4, <2>2, SeenAt DEF From, Control
  <2>4. mode'[p] = "off" /\ ureg'[p] = regs'[p]
    BY <1>6, <1>7, <2>2
  <2>7. View!Enter(p, "on", "off")
    BY <1>5, <2>3, <2>4 DEF View!Enter
  <2>5. CASE f = [cause |-> ILLEGAL_INSTRUCTION, val |-> MRET]
    <3>1. /\ regs'[p] = [regs[p] EXCEPT !.pc = trapped[p].ppc, !.sp = trapped[p].psp,
                                        !.a0 = trapped[p].pa0, !.a1 = trapped[p].pa1]
          /\ trapped' = trapped
      BY <2>1, <2>5 DEF LeaveHandler, IInv, TypeOK
    <3>2. View!Return(p)
      BY <1>5, <2>2, <2>3, <2>4, <2>5, <2>7, <3>1
      DEF View!Return, View!Becomes, View!ILLEGAL_INSTRUCTION, ILLEGAL_INSTRUCTION
    <3> QED
      BY <3>2 DEF View!Next
  <2>6. CASE f # [cause |-> ILLEGAL_INSTRUCTION, val |-> MRET]
    <3>1. /\ regs'[p] = [regs[p] EXCEPT !.pc = trapped[p].tpc, !.sp = trapped[p].tsp,
                                        !.a0 = f.cause, !.a1 = f.val]
          /\ trapped' = [trapped EXCEPT ![p].ppc = mepc[h], ![p].psp = regs[p].sp,
                                        ![p].pa0 = regs[p].a0, ![p].pa1 = regs[p].a1]
      BY <2>1, <2>6 DEF EnterHandler, IInv, TypeOK
    <3>2. trapped' = [trapped EXCEPT ![p].ppc = ureg[p].pc, ![p].psp = ureg[p].sp,
                                     ![p].pa0 = ureg[p].a0, ![p].pa1 = ureg[p].a1]
      BY <2>3, <3>1
    <3>3. View!Becomes(p, [ureg[p] EXCEPT !.pc = trapped[p].tpc, !.sp = trapped[p].tsp,
                                          !.a0 = f.cause, !.a1 = f.val])
      BY <1>5, <2>3, <2>4, <3>1 DEF View!Becomes
    <3>4. View!Raise(p)
      BY <2>2, <2>6, <2>7, <3>2, <3>3 DEF View!Raise, View!ILLEGAL_INSTRUCTION, ILLEGAL_INSTRUCTION
    <3> QED
      BY <3>4 DEF View!Next
  <2> QED
    BY <2>5, <2>6
<1>9. CASE EnablePreemption(h) \/ restore_context(h)
  <2>1. UNCHANGED <<regs, trapped, made>> /\ pc[h] \in {"resume", "restore"}
    BY <1>9 DEF EnablePreemption, restore_context, csrs, From
  <2>2. mode[p] = "off" /\ ureg[p] = regs[p]
    BY <1>4, <2>1, SeenAt
  <2>3. live'[h].tp = p
    BY <1>6, <1>9 DEF EnablePreemption, restore_context, IInv, TypeOK, Registers
  <2>4. mode'[p] = "off" /\ ureg'[p] = regs'[p]
    BY <1>7, <1>9, <2>3 DEF EnablePreemption, restore_context
  <2> QED
    BY <1>3, <2>1, <2>2, <2>4, Stutters
<1> QED
  BY <1>8, <1>9

LEMMA SwitchView ==
  ASSUME IInv, NEW h \in Harts, Leave(h) \/ Release(h) \/ KernelInterrupt(h) \/ SyscallBlocks(h)
  PROVE  View!Next \/ UNCHANGED View!uvars
<1>1. ~From(h, "user") /\ ~From(h, "sched")
  BY DEF Leave, Release, KernelInterrupt, SyscallBlocks, From, IInv, Control
<1>2. PICK p \in Procs : p = current(h)
  BY <1>1, HasProcess
<1>3. IInv' /\ Only(h, p) /\ Holds(h, p) /\ Control(h)
  BY <1>1, <1>2, HasProcess, SwitchIInv DEF IInv
<1>4. ureg[p] = Seen(h, p) /\ mode[p] = ModeAt(h)
  BY <1>3, ViewHeld DEF IInv
<1>5. ureg' = [ureg EXCEPT ![p] = ureg'[p]] /\ mode' = [mode EXCEPT ![p] = mode'[p]]
  BY <1>3, ViewOthers
<1>6. regs[p] \in [Registers -> Int] /\ live[h] \in [Registers -> Words] /\ live[h].tp = p
      /\ mscratch[h] = Null
  BY <1>1, <1>2, <1>3 DEF IInv, TypeOK, Control, From, current
<1>7. CASE Leave(h)
  <2>1. /\ From(h, "leave") /\ Goto(h, "user") /\ UNCHANGED <<regs, trapped, made>>
        /\ mscratch'[h] = p /\ pc'[h] = "user"
        /\ live'[h] = [live[h] EXCEPT !.pc = mepc[h], !.sp = regs[p].sp, !.tp = regs[p].tp]
    BY <1>2, <1>7 DEF Leave, Goto, IInv, TypeOK
  <2>2. live'[h] = regs[p]
    <3>1. mepc[h] = regs[p].pc /\ \A r \in {"a0", "a1", "x"} : live[h][r] = regs[p][r]
      BY <1>2, <1>3, <2>1 DEF Control, From
    <3> DEFINE k == [live[h] EXCEPT !.pc = mepc[h], !.sp = regs[p].sp, !.tp = regs[p].tp]
    <3>4. Registers = {"pc", "sp", "tp", "a0", "a1", "x"}
      BY DEF Registers
    <3>5. \A r \in Registers : k[r] = regs[p][r]
      BY <1>6, <3>1, <3>4
    <3>2. k \in [Registers -> Words \union Int] /\ \A r \in Registers : k[r] = regs[p][r]
      BY <1>6, <3>5
    <3>3. k = regs[p]
      BY <1>6, <3>2
    <3> QED
      BY <2>1, <3>3
  <2>3. mode[p] = "off" /\ ureg[p] = regs[p]
    BY <1>4, <2>1, SeenAt DEF From
  <2>4. Holds(h, p)'
    BY <2>1 DEF Holds, From
  <2>5. mode'[p] = "on" /\ ureg'[p] = regs[p]
    BY <1>3, <2>1, <2>2, <2>4, ViewHeldNext, SeenAtNext DEF IInv
  <2>6. ureg' = ureg
    <3>1. ureg = [q \in Procs |-> ureg[q]]
      BY DEF ureg
    <3> QED
      BY <1>5, <2>3, <2>5, <3>1
  <2>7. View!Dispatch(p)
    BY <1>5, <2>1, <2>3, <2>5, <2>6 DEF View!Dispatch, View!Enter
  <2> QED
    BY <2>7 DEF View!Next
<1>8. CASE Release(h)
  <2>1. From(h, "yield") /\ pc'[h] = "sched" /\ UNCHANGED <<regs, trapped, made>>
    BY <1>8 DEF Release, Goto, IInv, TypeOK
  <2>2. mode[p] = "off" /\ ureg[p] = regs[p]
    BY <1>4, <2>1, SeenAt DEF From
  <2>3. \A g \in Harts : ~Holds(g, p)'
    <3> SUFFICES ASSUME NEW g \in Harts, Holds(g, p)' PROVE FALSE
      OBVIOUS
    <3>1. g # h
      BY <2>1 DEF Holds, From
    <3>2. Holds(g, p)
      BY <1>3, <3>1 DEF Only, Holds, From, current
    <3> QED
      BY <1>3, <3>1, <3>2 DEF IInv, One
  <2>5. p \notin blocked /\ blocked' = blocked
    BY <1>3, <1>8, HoldsTaken DEF Release, IInv, Apart
  <2>4. mode'[p] = "off" /\ ureg'[p] = regs'[p]
    BY <2>3, <2>5, ViewFreeNext
  <2> QED
    BY <1>3, <2>1, <2>2, <2>4, Stutters
<1>9. CASE KernelInterrupt(h)
  <2>1. /\ mie[h] /\ pc'[h] = "yield" /\ UNCHANGED <<regs, trapped, made, live>>
        /\ pc[h] \in {"check", "store", "resume", "restore", "leave"}
    BY <1>3, <1>6, <1>9 DEF KernelInterrupt, trap_entry, Goto, IInv, TypeOK, Control
  <2>2. Holds(h, p)'
    BY <1>6, <2>1 DEF Holds, From, current
  <2>3. mode'[p] = "off" /\ ureg'[p] = regs[p]
    BY <1>3, <2>1, <2>2, ViewHeldNext, SeenAtNext DEF IInv
  <2>4. CASE pc[h] \in {"check", "store"}
    <3>1. /\ mode[p] = "calling" /\ ureg[p] = [regs[p] EXCEPT !.a0 = Null]
          /\ regs[p].a0 = ERROR_PREEMPTED
      BY <1>2, <1>3, <1>4, <2>1, <2>4, SeenAt DEF Control, From
    <3>2. ureg'[p] = [ureg[p] EXCEPT !.a0 = ERROR_PREEMPTED]
      BY <1>6, <2>3, <3>1, Overwrite
    <3>4. View!Enter(p, "calling", "off") /\ View!Becomes(p, [ureg[p] EXCEPT !.a0 = ERROR_PREEMPTED])
      BY <1>5, <2>3, <3>1, <3>2 DEF View!Enter, View!Becomes
    <3>5. ERROR_PREEMPTED = View!ERROR_PREEMPTED
      BY DEF ERROR_PREEMPTED, View!ERROR_PREEMPTED
    <3>6. UNCHANGED <<trapped, made>> /\ made' \in BOOLEAN
      BY <2>1 DEF IInv, TypeOK
    <3>3. View!Answer(p)
      BY <3>4, <3>5, <3>6 DEF View!Answer
    <3> QED
      BY <3>3 DEF View!Next
  <2>5. CASE pc[h] \in {"resume", "restore", "leave"}
    <3>1. mode[p] = "off" /\ ureg[p] = regs[p]
      BY <1>4, <2>5, SeenAt
    <3> QED
      BY <1>3, <2>1, <2>3, <3>1, Stutters
  <2> QED
    BY <2>1, <2>4, <2>5
<1>10. CASE SyscallBlocks(h)
  <2>1. From(h, "syscall") /\ pc'[h] = "sched" /\ UNCHANGED <<trapped, made>>
        /\ blocked' = blocked \union {p}
    BY <1>2, <1>10 DEF SyscallBlocks, Goto, IInv, TypeOK
  <2>2. mode[p] = "on" /\ ureg[p] = regs[p] /\ View!Past(p) = Advance(p)
    BY <1>4, <2>1, SeenAt DEF From, View!Past, Advance
  <2>3. \A g \in Harts : ~Holds(g, p)'
    <3> SUFFICES ASSUME NEW g \in Harts, Holds(g, p)' PROVE FALSE
      OBVIOUS
    <3>1. g # h
      BY <2>1 DEF Holds, From
    <3>2. Holds(g, p)
      BY <1>3, <3>1 DEF Only, Holds, From, current
    <3> QED
      BY <1>3, <3>1, <3>2 DEF IInv, One
  <2>4. mode'[p] = "waiting" /\ ureg'[p] = regs'[p]
    BY <2>1, <2>3, ViewFreeNext
  <2>5. PICK r \in {ureg[p].a0, ERROR_INTERRUPTED} :
          regs'[p] = [View!Past(p) EXCEPT !.a0 = r]
    BY <1>2, <1>10, <2>2 DEF SyscallBlocks, IInv, TypeOK
  <2>6. View!Block(p)
    BY <1>5, <2>1, <2>2, <2>4, <2>5
    DEF View!Block, View!Enter, View!Becomes, View!ERROR_INTERRUPTED, ERROR_INTERRUPTED
  <2> QED
    BY <2>6 DEF View!Next
<1> QED
  BY <1>7, <1>8, <1>9, <1>10

LEMMA SchedView ==
  ASSUME IInv, NEW h \in Harts, SchedStart(h)
  PROVE  UNCHANGED View!uvars
<1>1. IInv'
  BY SchedIInv
<1>2. PICK p \in Procs \ (taken \union blocked) :
        live' = [live EXCEPT ![h] = [InKernel EXCEPT !.tp = p]] /\ Only(h, p)
  BY SchedIInv
<1>3. pc'[h] = "resume" /\ live'[h].tp = p /\ UNCHANGED <<regs, trapped, made>>
  BY <1>2 DEF SchedStart, Goto, IInv, TypeOK, InKernel, Registers
<1>4. mode[p] = "off" /\ ureg[p] = regs[p]
  BY <1>2, HoldsTaken, ViewFree DEF IInv
<1>5. Holds(h, p)'
  BY <1>3 DEF Holds, From, current
<1>6. mode'[p] = "off" /\ ureg'[p] = regs'[p]
  BY <1>1, <1>3, <1>5, ViewHeldNext, SeenAtNext DEF IInv
<1> QED
  BY <1>1, <1>2, <1>3, <1>4, <1>6, Stutters

LEMMA MessageView ==
  ASSUME IInv, NEW p \in Procs, Message(p) \/ Resumed(p)
  PROVE  View!Next
<1>1. /\ IInv' /\ p \in blocked /\ p \notin blocked'
      /\ \A h \in Harts : ~Holds(h, p)
      /\ \A q \in Procs \ {p} : regs'[q] = regs[q] /\ (q \in blocked' <=> q \in blocked)
      /\ UNCHANGED <<trapped, taken, made, pc, live, csrs>>
  BY MessageIInv
<1>2. ASSUME NEW h \in Harts, NEW q \in Procs PROVE Holds(h, q)' <=> Holds(h, q)
  BY <1>1 DEF Holds, From, current, csrs
<1>3. ureg[p] = regs[p] /\ mode[p] = "waiting" /\ ureg'[p] = regs'[p] /\ mode'[p] = "off"
  BY <1>1, <1>2, ViewFree, ViewFreeNext
<1>4. ASSUME NEW q \in Procs \ {p} PROVE ureg'[q] = ureg[q] /\ mode'[q] = mode[q]
  <2>1. CASE \A h \in Harts : ~Holds(h, q)
    BY <1>1, <1>2, <2>1, ViewFree, ViewFreeNext
  <2>2. ASSUME NEW h \in Harts, Holds(h, q) PROVE ureg'[q] = ureg[q] /\ mode'[q] = mode[q]
    <3>1. pc'[h] = pc[h] /\ live'[h] = live[h] /\ mie'[h] = mie[h] /\ regs'[q] = regs[q]
      BY <1>1 DEF csrs
    <3>2. Seen(h, q)' = Seen(h, q) /\ ModeAt(h)' = ModeAt(h)
      BY <3>1 DEF Seen, ModeAt, Unanswered, Answered, From
    <3> QED
      BY <1>1, <1>2, <2>2, <3>2, ViewHeld, ViewHeldNext
  <2> QED
    BY <2>1, <2>2
<1>5. /\ ureg = [q \in Procs |-> ureg[q]] /\ ureg' = [q \in Procs |-> ureg'[q]]
      /\ mode = [q \in Procs |-> mode[q]] /\ mode' = [q \in Procs |-> mode'[q]]
  BY DEF ureg, mode
<1>6. ASSUME NEW f, NEW g, f = [q \in Procs |-> f[q]], g = [q \in Procs |-> g[q]],
             \A q \in Procs \ {p} : g[q] = f[q]
      PROVE  g = [f EXCEPT ![p] = g[p]]
  BY <1>6
<1>7. ureg' = [ureg EXCEPT ![p] = regs'[p]] /\ View!Enter(p, "waiting", "off")
  BY <1>3, <1>4, <1>5, <1>6 DEF View!Enter
<1>8. CASE Message(p)
  <2>1. PICK v \in Values[p], w \in Values[p] :
          regs' = [regs EXCEPT ![p].a0 = ERROR_OK, ![p].a1 = v, ![p].x = w]
    BY <1>8 DEF Message
  <2>2. regs'[p] = [regs[p] EXCEPT !.a0 = ERROR_OK, !.a1 = v, !.x = w]
    BY <2>1 DEF IInv, TypeOK
  <2>3. View!Becomes(p, [ureg[p] EXCEPT !.a0 = View!ERROR_OK, !.a1 = v, !.x = w])
    BY <1>3, <1>7, <2>2 DEF View!Becomes, View!ERROR_OK, ERROR_OK
  <2>4. View!Message(p)
    BY <1>1, <1>7, <2>3 DEF View!Message
  <2> QED
    BY <2>4 DEF View!Next
<1>9. CASE Resumed(p)
  <2>1. regs' = regs
    BY <1>9 DEF Resumed
  <2>2. \A q \in Procs : ureg'[q] = ureg[q]
    BY <1>3, <1>4, <2>1
  <2>3. ureg' = ureg
    BY <1>5, <2>2
  <2>4. View!Resumed(p)
    BY <1>1, <1>7, <2>3 DEF View!Resumed
  <2> QED
    BY <2>4 DEF View!Next
<1> QED
  BY <1>8, <1>9

LEMMA InitView == Init => View!Init
<1> SUFFICES ASSUME Init PROVE View!Init
  OBVIOUS
<1>1. \A h \in Harts, p \in Procs : ~Holds(h, p)
  BY DEF Init, Holds, From
<1>2. regs \in {r \in [Procs -> UNION {Files[p] : p \in Procs}] : \A p \in Procs : r[p] \in Files[p]}
  BY DEF Init
<1>3. regs = [p \in Procs |-> regs[p]]
  BY <1>2
<1>4. ureg = regs
  BY <1>1, <1>3 DEF ureg
<1>5. mode = [p \in Procs |-> "off"]
  BY <1>1 DEF mode, Init
<1> QED
  BY <1>2, <1>4, <1>5 DEF Init, View!Init, TrapRegs, View!TrapRegs

LEMMA NextView == IInv /\ [Next]_vars => [View!Next]_View!uvars
<1> SUFFICES ASSUME IInv, [Next]_vars PROVE View!Next \/ UNCHANGED View!uvars
  OBVIOUS
<1>1. CASE UNCHANGED vars
  BY <1>1 DEF vars, csrs, View!uvars, ureg, mode, Holds, Seen, Unanswered, Answered, From, current
<1>2. ASSUME NEW h \in Harts,
             KernelStep(h) \/ KernelInterrupt(h) \/ SchedStart(h) \/ UserStep(h)
      PROVE  View!Next \/ UNCHANGED View!uvars
  BY <1>2, UserView, SyscallView, ResumeView, SwitchView, SchedView DEF KernelStep
<1>3. ASSUME NEW p \in Procs, Message(p) \/ Resumed(p) PROVE View!Next
  BY <1>3, MessageView
<1> QED
  BY <1>1, <1>2, <1>3 DEF Next

(* trap.S, exception.c and preemption.h, for any harts and processes: a    *)
(* process sees its computation, its answers, its messages and its         *)
(* exceptions only.                                                        *)
THEOREM TrapsAreInvisible == Spec => RefinesUserView
BY InitView, NextView, Invariant, PTL DEF Spec, RefinesUserView, View!Spec
=============================================================================
