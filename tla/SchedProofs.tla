---------------------------- MODULE SchedProofs ----------------------------
(***************************************************************************)
(* Proofs about Sched, for any harts, processes, quanta, ticks and margins *)
(* (KERNEL_TICKS below SCHEDULER_TICKS and TICKS).                         *)
(*                                                                         *)
(* The invariant says where the clock can be at each control point (Timed),*)
(* that a slice is at least a quantum and ends with its frame (Sized), that*)
(* the time capabilities tile the frame and the schedule shows them        *)
(* (Tiled), and that the quanta of a slice are the process's or have been  *)
(* given away since (Offered).                                             *)
(***************************************************************************)
EXTENDS Sched, TLAPS

USE SchedAssumption

Reading == {"own", "lower", "timeout", "acquire"}
Chosen  == {"lower", "timeout", "acquire"} \union Serving

(* Ticks of a number of quanta: opaque in all proofs but the next four.    *)
Ticks(a) == a * TICKS

(* When the piece of kernel code that hart h is in began, and when the     *)
(* last quantum of its slice is over.                                      *)
Begun(h) == now - lag[h]
Over(s)  == Ticks(s.time + s.length)

Timed(h) ==
  /\ From(h, "loop") => Begun(h) + KERNEL_TICKS < Ticks(due[h])
  /\ pc[h] \in Reading =>
       /\ slice[h].time \in 0 .. N_QUANTUM
       /\ Begun(h) < Ticks(slice[h].time)
       /\ slice[h].time < due[h]
  /\ From(h, "acquire") => slice[h].timeout + KERNEL_TICKS < Over(slice[h])
  /\ pc[h] \in Serving => slice[h].time + slice[h].length <= due[h]
  /\ From(h, "wait") =>
       /\ Ticks(slice[h].time) <= mtimecmp[h]
       /\ mtimecmp[h] + KERNEL_TICKS < Over(slice[h])
       /\ Begun(h) <= mtimecmp[h]
  /\ pc[h] \in {"user", "resume"} =>
       /\ Ticks(slice[h].time) <= now
       /\ mtimecmp[h] = Over(slice[h]) - SCHEDULER_TICKS
  /\ From(h, "user") => now <= mtimecmp[h]
  /\ From(h, "resume") => Begun(h) < mtimecmp[h]
  /\ From(h, "yield") => Begun(h) + KERNEL_TICKS < Over(slice[h])

(* The first quantum of a slice, within a frame.                           *)
First(s) == s.time % N_QUANTUM

Sized(h) ==
  pc[h] \in Chosen => slice[h].length >= 1 /\ First(slice[h]) + slice[h].length <= N_QUANTUM

Owned(c) == c.free .. c.end - 1

Tiled ==
  /\ \A c \in times : c.free < c.end
  /\ \A c \in times : \A q \in Owned(c) :
       schedule[c.hart][q] = [pid |-> c.pid, length |-> c.end - q]
  /\ \A h \in Harts, q \in Quanta : \E c \in times : c.hart = h /\ q \in Owned(c)
  /\ \A c, d \in times : \A q \in Owned(c) \intersect Owned(d) : c.hart = d.hart => c = d

Offered(h) ==
  pc[h] \in Chosen =>
    \A q \in First(slice[h]) .. First(slice[h]) + slice[h].length - 1 :
      schedule[h][q].pid = slice[h].proc \/ q \in given[h]

IInv == TypeOK /\ Tiled /\ \A h \in Harts : Timed(h) /\ Sized(h) /\ Offered(h)

----------------------------------------------------------------------------
(* Quanta and ticks.                                                       *)
LEMMA TicksTyped ==
  /\ Ticks(N_QUANTUM) = FRAME /\ FRAME \in Nat \ {0} /\ Ticks(0) = 0 /\ Ticks(1) = TICKS
  /\ \A a \in Int : Ticks(a) \in Int
BY DEF Ticks, FRAME

LEMMA TicksShift ==
  \A a \in Int : Ticks(a - N_QUANTUM) = Ticks(a) - FRAME /\ Ticks(a + 1) = Ticks(a) + TICKS
                 /\ Ticks(a + N_QUANTUM) = Ticks(a) + FRAME
BY DEF Ticks, FRAME

LEMMA TicksGrow ==
  \A a, b \in Int : a < b => Ticks(a) + TICKS <= Ticks(b)
<1> SUFFICES ASSUME NEW a \in Int, NEW b \in Int, a < b PROVE Ticks(a) + TICKS <= Ticks(b)
  OBVIOUS
<1>1. PICK d \in Nat : b = a + 1 + d
  <2>1. b - a - 1 \in Nat /\ b = a + 1 + (b - a - 1)
    OBVIOUS
  <2> QED
    BY <2>1
<1>2. b * TICKS = a * TICKS + TICKS + d * TICKS
  BY <1>1
<1>3. d * TICKS >= 0
  OBVIOUS
<1> QED
  BY <1>2, <1>3 DEF Ticks

LEMMA Quantum ==
  \A n \in Nat : /\ n \div TICKS \in Nat
                 /\ Ticks(n \div TICKS) <= n /\ n < Ticks(n \div TICKS) + TICKS
BY DEF Ticks

LEMMA FirstQuantum ==
  \A t \in -N_QUANTUM .. N_QUANTUM :
    t % N_QUANTUM = IF t = N_QUANTUM THEN 0 ELSE IF t < 0 THEN t + N_QUANTUM ELSE t
<1> SUFFICES ASSUME NEW t \in -N_QUANTUM .. N_QUANTUM
             PROVE  t % N_QUANTUM = IF t = N_QUANTUM THEN 0
                                    ELSE IF t < 0 THEN t + N_QUANTUM ELSE t
  OBVIOUS
<1>1. CASE t = N_QUANTUM
  BY <1>1
<1>2. CASE t < 0
  BY <1>2
<1>3. CASE 0 <= t /\ t < N_QUANTUM
  BY <1>3
<1> QED
  BY <1>1, <1>2, <1>3

LEMMA TicksAtMost ==
  \A a, b \in Int : (a <= b => Ticks(a) <= Ticks(b)) /\ (Ticks(a) < Ticks(b) => a < b)
<1> SUFFICES ASSUME NEW a \in Int, NEW b \in Int
             PROVE  (a <= b => Ticks(a) <= Ticks(b)) /\ (Ticks(a) < Ticks(b) => a < b)
  OBVIOUS
<1>1. Ticks(a) \in Int /\ Ticks(b) \in Int
  BY TicksTyped
<1>2. (a < b => Ticks(a) + TICKS <= Ticks(b)) /\ (b < a => Ticks(b) + TICKS <= Ticks(a))
  BY TicksGrow
<1>3. a < b \/ a = b \/ b < a
  OBVIOUS
<1> QED
  BY <1>1, <1>2, <1>3

LEMMA Instants ==
  ASSUME NEW s, s.time \in -N_QUANTUM .. N_QUANTUM, s.length \in 0 .. N_QUANTUM
  PROVE  /\ Start(s) = Ticks(s.time) /\ End(s) = Over(s) - SCHEDULER_TICKS
         /\ Ticks(s.time) \in -FRAME .. FRAME /\ Over(s) \in -FRAME .. 2 * FRAME
<1>1. Start(s) = Ticks(s.time) /\ End(s) = Over(s) - SCHEDULER_TICKS
  BY DEF Start, End, Over, Ticks
<1> DEFINE e == s.time + s.length
<1>2. e \in -N_QUANTUM .. 2 * N_QUANTUM /\ Over(s) = Ticks(e)
  BY DEF Over
<1> HIDE DEF e
<1>3. Ticks(0 - N_QUANTUM) = -FRAME /\ Ticks(N_QUANTUM + N_QUANTUM) = 2 * FRAME
  BY TicksTyped, TicksShift
<1>4. Ticks(0 - N_QUANTUM) <= Ticks(e) /\ Ticks(e) <= Ticks(N_QUANTUM + N_QUANTUM)
  BY <1>2, TicksAtMost
<1>5. Ticks(0 - N_QUANTUM) <= Ticks(s.time) /\ Ticks(s.time) <= Ticks(N_QUANTUM)
  BY TicksAtMost
<1>6. Ticks(s.time) \in Int /\ Ticks(e) \in Int
  BY <1>2, TicksTyped
<1> QED
  BY <1>1, <1>2, <1>3, <1>4, <1>5, <1>6, TicksTyped

(* A step of one hart that changes no schedule is about that hart only.    *)
LEMMA OneHart ==
  ASSUME IInv, NEW h \in Harts, UNCHANGED <<now, schedule, times>>, TypeOK',
         \A g \in Harts \ {h} :
           /\ pc'[g] = pc[g] /\ slice'[g] = slice[g] /\ mtimecmp'[g] = mtimecmp[g]
           /\ lag'[g] = lag[g] /\ due'[g] = due[g] /\ given'[g] = given[g],
         Timed(h)', Sized(h)', Offered(h)'
  PROVE  IInv'
<1>1. Tiled'
  BY DEF IInv, Tiled
<1>2. ASSUME NEW g \in Harts \ {h} PROVE Timed(g)' /\ Sized(g)' /\ Offered(g)'
  <2> USE <1>2
  <2>1. Timed(g)'
    BY DEF IInv, Timed, From, Begun
  <2>2. Sized(g)'
    BY DEF IInv, Sized
  <2>3. Offered(g)'
    BY DEF IInv, Offered
  <2> QED
    BY <2>1, <2>2, <2>3
<1> QED
  BY <1>1, <1>2 DEF IInv

(* The types of one hart.                                                  *)
LEMMA HartTyped ==
  ASSUME TypeOK, NEW h \in Harts
  PROVE  /\ now \in 0 .. FRAME - 1 /\ pc[h] \in Labels
         /\ slice[h] \in [time : -N_QUANTUM .. N_QUANTUM, proc : Procs,
                          length : 0 .. N_QUANTUM, timeout : Instant]
         /\ slice[h].time \in Int /\ slice[h].length \in Int /\ slice[h].timeout \in Int
         /\ mtimecmp[h] \in Instant /\ mtimecmp[h] \in Int
         /\ lag[h] \in 0 .. KERNEL_TICKS /\ due[h] \in Int /\ Begun(h) \in Int
         /\ Start(slice[h]) = Ticks(slice[h].time)
         /\ End(slice[h]) = Over(slice[h]) - SCHEDULER_TICKS
         /\ Ticks(slice[h].time) \in -FRAME .. FRAME /\ Over(slice[h]) \in -FRAME .. 2 * FRAME
<1>1. Instant \subseteq Int
  BY TicksTyped DEF Instant
<1>2. slice[h] \in [time : -N_QUANTUM .. N_QUANTUM, proc : Procs,
                    length : 0 .. N_QUANTUM, timeout : Instant]
  BY DEF TypeOK
<1>3. /\ Start(slice[h]) = Ticks(slice[h].time)
      /\ End(slice[h]) = Over(slice[h]) - SCHEDULER_TICKS
      /\ Ticks(slice[h].time) \in -FRAME .. FRAME /\ Over(slice[h]) \in -FRAME .. 2 * FRAME
  BY <1>2, Instants
<1>4. slice[h].time \in Int /\ slice[h].length \in Int /\ slice[h].timeout \in Int
  <2>1. /\ slice[h].time \in -N_QUANTUM .. N_QUANTUM /\ slice[h].length \in 0 .. N_QUANTUM
        /\ slice[h].timeout \in Instant
    BY <1>2
  <2>2. slice[h].time \in Int /\ slice[h].length \in Int
    BY <2>1
  <2>3. slice[h].timeout \in Int
    BY <1>1, <2>1
  <2> QED
    BY <2>2, <2>3
<1>5. now \in 0 .. FRAME - 1 /\ pc[h] \in Labels /\ lag[h] \in 0 .. KERNEL_TICKS
  BY DEF TypeOK
<1>6. mtimecmp[h] \in Instant /\ mtimecmp[h] \in Int
  BY <1>1 DEF TypeOK
<1>7. due[h] \in Int
  BY DEF TypeOK
<1>8. Begun(h) \in Int
  BY <1>5, TicksTyped DEF Begun
<1> QED
  BY <1>2, <1>3, <1>4, <1>5, <1>6, <1>7, <1>8

LEMMA InitOK ==
  ASSUME Init PROVE IInv
<1>1. TypeOK
  <2>1. 0 \in Instant /\ 0 \in Quanta /\ 0 \in 0 .. FRAME - 1
    BY TicksTyped DEF Instant, Quanta
  <2>2. NoSlice \in [time : -N_QUANTUM .. N_QUANTUM, proc : Procs,
                     length : 0 .. N_QUANTUM, timeout : Instant]
    BY <2>1 DEF NoSlice
  <2>3. schedule \in [Harts -> [Quanta -> Entry]]
    BY DEF Init, Entry, Quanta
  <2>4. times \subseteq [hart : Harts, free : Quanta, end : 1 .. N_QUANTUM, pid : Procs]
    BY <2>1 DEF Init
  <2> QED
    BY <2>1, <2>2, <2>3, <2>4 DEF Init, TypeOK, Labels
<1>2. Tiled
  <2>1. ASSUME NEW h \in Harts, NEW q \in Quanta PROVE \E c \in times : c.hart = h /\ q \in Owned(c)
    <3> DEFINE c == [hart |-> h, free |-> 0, end |-> N_QUANTUM, pid |-> 0]
    <3>1. c \in times /\ c.hart = h /\ q \in Owned(c)
      BY <2>1 DEF Init, Owned, Quanta
    <3> QED
      BY <3>1
  <2>2. ASSUME NEW c \in times, NEW q \in Owned(c)
        PROVE  schedule[c.hart][q] = [pid |-> c.pid, length |-> c.end - q]
    BY <2>2 DEF Init, Owned, Quanta
  <2>3. \A c, d \in times : (c.hart = d.hart => c = d) /\ c.free < c.end
    BY DEF Init
  <2> QED
    BY <2>1, <2>2, <2>3 DEF Tiled
<1>3. ASSUME NEW h \in Harts PROVE Timed(h) /\ Sized(h) /\ Offered(h)
  <2>1. pc[h] = "loop" /\ Begun(h) = 0 /\ due[h] = 1
    BY DEF Init, Begun
  <2> QED
    BY <2>1, TicksTyped DEF Timed, Sized, Offered, From, Reading, Chosen, Serving
<1> QED
  BY <1>1, <1>2, <1>3 DEF IInv

----------------------------------------------------------------------------
(* A hart that gives its quantum up is in time for the next one.           *)
LEMMA RetryOK ==
  ASSUME TypeOK, NEW h \in Harts, Timed(h), pc[h] \in Reading, Retry(h),
         UNCHANGED <<now, lag, due>>
  PROVE  Timed(h)' /\ Sized(h)' /\ Offered(h)'
<1>1. pc'[h] = "loop" /\ Begun(h)' = Begun(h) /\ due'[h] = due[h]
  BY DEF Retry, Goto, TypeOK, Begun
<1>2. Begun(h) < Ticks(slice[h].time) /\ slice[h].time < due[h]
  BY DEF Timed
<1>3. Ticks(slice[h].time) + TICKS <= Ticks(due[h])
  BY <1>2, HartTyped, TicksGrow
<1>4. Begun(h) + KERNEL_TICKS < Ticks(due[h])
  BY <1>2, <1>3, HartTyped, TicksTyped
<1> QED
  BY <1>1, <1>4 DEF Timed, Sized, Offered, From, Reading, Chosen, Serving

(* The coming quantum: it begins after now, and is one that the hart has   *)
(* not offered to anybody.                                                 *)
LEMMA ComingQuantum ==
  ASSUME TypeOK, NEW h \in Harts, Timed(h), From(h, "loop")
  PROVE  /\ now \div TICKS + 1 \in 1 .. N_QUANTUM
         /\ now < Ticks(now \div TICKS + 1) /\ now \div TICKS + 1 <= due[h]
<1> DEFINE q == now \div TICKS
<1>1. now \in Nat /\ now < Ticks(N_QUANTUM)
  BY TicksTyped DEF TypeOK
<1>2. q \in Nat /\ Ticks(q) <= now /\ now < Ticks(q) + TICKS
  BY <1>1, Quantum
<1>3. Ticks(q + 1) = Ticks(q) + TICKS /\ Ticks(q) \in Int
  BY <1>2, TicksShift, TicksTyped
<1>4. now < Ticks(due[h])
  <2>1. Begun(h) + KERNEL_TICKS < Ticks(due[h])
    BY DEF Timed
  <2>2. now <= Begun(h) + KERNEL_TICKS
    BY HartTyped, TicksTyped DEF Begun
  <2> QED
    BY <2>1, <2>2, HartTyped, TicksTyped
<1> HIDE DEF q
<1>5. q < due[h] /\ q < N_QUANTUM
  <2>1. Ticks(q) < Ticks(due[h]) /\ Ticks(q) < Ticks(N_QUANTUM) /\ q \in Int /\ due[h] \in Int
    BY <1>1, <1>2, <1>3, <1>4, HartTyped, TicksTyped
  <2> QED
    BY <2>1, TicksAtMost
<1> QED
  BY <1>1, <1>2, <1>3, <1>5, HartTyped DEF q

LEMMA ReadTimeOK ==
  ASSUME IInv, NEW h \in Harts, ReadTime(h)
  PROVE  IInv'
<1> DEFINE q == now \div TICKS
<1>1. TypeOK /\ Timed(h) /\ From(h, "loop")
  BY DEF IInv, ReadTime
<1>2. q + 1 \in 1 .. N_QUANTUM /\ now < Ticks(q + 1) /\ now \in Nat
  BY <1>1, ComingQuantum, HartTyped
<1>3. /\ slice' = [slice EXCEPT ![h].time = q + 1] /\ lag' = [lag EXCEPT ![h] = 0]
      /\ due' = [due EXCEPT ![h] = Later(@, q + 2)] /\ pc' = [pc EXCEPT ![h] = "own"]
      /\ UNCHANGED <<now, schedule, times, running, timeout, mtimecmp, given>>
  BY DEF ReadTime, Goto
<1> HIDE DEF q
<1>4. q \in Int /\ Later(due[h], q + 2) \in -N_QUANTUM .. 2 * N_QUANTUM + 1
      /\ q + 1 < Later(due[h], q + 2)
  <2>1. q \in Int
    BY <1>2 DEF q
  <2>2. q + 2 \in 2 .. N_QUANTUM + 1
    BY <1>2, <2>1
  <2>3. due[h] \in -N_QUANTUM .. 2 * N_QUANTUM + 1
    BY <1>1 DEF TypeOK
  <2> QED
    BY <2>1, <2>2, <2>3 DEF Later
<1>5. pc'[h] = "own" /\ slice'[h].time = q + 1 /\ lag'[h] = 0 /\ due'[h] = Later(due[h], q + 2)
  BY <1>1, <1>3 DEF TypeOK
<1>6. TypeOK'
  <2>1. slice'[h] = [slice[h] EXCEPT !.time = q + 1]
    BY <1>1, <1>3 DEF TypeOK
  <2>2. slice'[h] \in [time : -N_QUANTUM .. N_QUANTUM, proc : Procs,
                       length : 0 .. N_QUANTUM, timeout : Instant]
    <3>1. q + 1 \in -N_QUANTUM .. N_QUANTUM
      BY <1>2, <1>4
    <3>2. slice[h] \in [time : -N_QUANTUM .. N_QUANTUM, proc : Procs,
                        length : 0 .. N_QUANTUM, timeout : Instant]
      BY <1>1, HartTyped
    <3> QED
      BY <2>1, <3>1, <3>2
  <2>3. slice' \in [Harts -> [time : -N_QUANTUM .. N_QUANTUM, proc : Procs,
                              length : 0 .. N_QUANTUM, timeout : Instant]]
    BY <1>1, <1>3, <2>2 DEF TypeOK
  <2>4. lag' \in [Harts -> 0 .. KERNEL_TICKS] /\ pc' \in [Harts -> Labels]
    BY <1>1, <1>3 DEF TypeOK, Labels
  <2>5. due' \in [Harts -> -N_QUANTUM .. 2 * N_QUANTUM + 1]
    BY <1>1, <1>3, <1>4 DEF TypeOK
  <2> QED
    BY <1>1, <1>3, <2>3, <2>4, <2>5 DEF TypeOK
<1>7. Timed(h)'
  <2>1. Begun(h)' = now
    BY <1>2, <1>3, <1>5 DEF Begun
  <2>2. q + 1 \in 0 .. N_QUANTUM /\ Begun(h)' < Ticks(slice'[h].time)
    BY <1>2, <1>5, <2>1
  <2> QED
    BY <1>4, <1>5, <2>2 DEF Timed, From, Reading, Serving
<1>8. Sized(h)' /\ Offered(h)'
  BY <1>5 DEF Sized, Offered, Chosen, Serving
<1>9. ASSUME NEW g \in Harts \ {h}
      PROVE  /\ pc'[g] = pc[g] /\ slice'[g] = slice[g] /\ mtimecmp'[g] = mtimecmp[g]
             /\ lag'[g] = lag[g] /\ due'[g] = due[g] /\ given'[g] = given[g]
  BY <1>1, <1>3, <1>9 DEF TypeOK
<1> QED
  BY <1>3, <1>6, <1>7, <1>8, <1>9, OneHart

(* The entry of a quantum: the time from it to the end of its capability.  *)
LEMMA EntryOf ==
  ASSUME TypeOK, Tiled, NEW h \in Harts, NEW q \in Quanta
  PROVE  /\ schedule[h][q].pid \in Procs /\ schedule[h][q].length \in 1 .. N_QUANTUM - q
         /\ \A r \in q .. q + schedule[h][q].length - 1 :
              schedule[h][r].pid = schedule[h][q].pid
<1>1. PICK c \in times : c.hart = h /\ q \in Owned(c)
  BY DEF Tiled
<1>2. c.end \in 1 .. N_QUANTUM /\ c.free \in Int /\ c.pid \in Procs /\ q \in Int /\ q < c.end
  <2>1. c.end \in 1 .. N_QUANTUM /\ c.free \in Quanta /\ c.pid \in Procs
    BY <1>1 DEF TypeOK
  <2>2. q \in c.free .. c.end - 1
    BY <1>1 DEF Owned
  <2> QED
    BY <2>1, <2>2 DEF Quanta
<1>3. schedule[h][q] = [pid |-> c.pid, length |-> c.end - q]
  BY <1>1 DEF Tiled
<1>4. ASSUME NEW r \in q .. c.end - 1 PROVE schedule[h][r].pid = c.pid
  <2>1. r \in Owned(c)
    BY <1>1, <1>2, <1>4 DEF Owned
  <2>2. schedule[h][r] = [pid |-> c.pid, length |-> c.end - r]
    BY <1>1, <2>1 DEF Tiled
  <2> QED
    BY <2>2
<1>5. q + (c.end - q) - 1 = c.end - 1 /\ c.end - q \in 1 .. N_QUANTUM - q
  BY <1>2
<1> QED
  BY <1>2, <1>3, <1>4, <1>5

LEMMA ReadOwnEntryOK ==
  ASSUME IInv, NEW h \in Harts, ReadOwnEntry(h)
  PROVE  IInv'
<1> DEFINE q == First(slice[h])
           e == schedule[h][q]
<1>1. TypeOK /\ Tiled /\ Timed(h) /\ pc[h] = "own"
  BY DEF IInv, ReadOwnEntry, From
<1>2. slice[h].time \in 0 .. N_QUANTUM
  BY <1>1 DEF Timed, Reading
<1>3. q \in Quanta
  BY <1>2, FirstQuantum DEF First, Quanta
<1>4. /\ slice' = [slice EXCEPT ![h].proc = e.pid, ![h].length = e.length]
      /\ given' = [given EXCEPT ![h] = {}] /\ pc' = [pc EXCEPT ![h] = "lower"]
      /\ UNCHANGED <<now, schedule, times, running, timeout, mtimecmp, lag, due>>
  BY DEF ReadOwnEntry, Goto, First
<1> HIDE DEF q
<1>5. /\ e.pid \in Procs /\ e.length \in 1 .. N_QUANTUM - q
      /\ \A r \in q .. q + e.length - 1 : schedule[h][r].pid = e.pid
  BY <1>1, <1>3, EntryOf
<1> HIDE DEF e
<1>6. slice[h] \in [time : -N_QUANTUM .. N_QUANTUM, proc : Procs,
                    length : 0 .. N_QUANTUM, timeout : Instant]
  BY <1>1, HartTyped
<1>7. /\ pc'[h] = "lower" /\ given'[h] = {}
      /\ slice'[h] = [slice[h] EXCEPT !.proc = e.pid, !.length = e.length]
  BY <1>1, <1>4 DEF TypeOK
<1>8. slice'[h].time = slice[h].time /\ slice'[h].proc = e.pid /\ slice'[h].length = e.length
  BY <1>6, <1>7
<1>9. e.length \in 0 .. N_QUANTUM
  BY <1>3, <1>5 DEF Quanta
<1>10. slice'[h] \in [time : -N_QUANTUM .. N_QUANTUM, proc : Procs,
                      length : 0 .. N_QUANTUM, timeout : Instant]
  BY <1>5, <1>6, <1>7, <1>9
<1>11. TypeOK'
  <2>1. slice' \in [Harts -> [time : -N_QUANTUM .. N_QUANTUM, proc : Procs,
                              length : 0 .. N_QUANTUM, timeout : Instant]]
    BY <1>1, <1>4, <1>10 DEF TypeOK
  <2>2. pc' \in [Harts -> Labels] /\ given' \in [Harts -> SUBSET Quanta]
    BY <1>1, <1>4 DEF TypeOK, Labels
  <2> QED
    BY <1>1, <1>4, <2>1, <2>2 DEF TypeOK
<1>12. Timed(h)'
  BY <1>1, <1>4, <1>7, <1>8 DEF Timed, From, Reading, Serving, Begun
<1>13. Sized(h)' /\ Offered(h)'
  <2>1. First(slice[h])' = q
    BY <1>8 DEF First, q
  <2>2. e.length >= 1 /\ q + e.length <= N_QUANTUM
    BY <1>3, <1>5 DEF Quanta
  <2> QED
    BY <1>4, <1>5, <1>7, <1>8, <2>1, <2>2 DEF Sized, Offered
<1>14. ASSUME NEW g \in Harts \ {h}
       PROVE  /\ pc'[g] = pc[g] /\ slice'[g] = slice[g] /\ mtimecmp'[g] = mtimecmp[g]
              /\ lag'[g] = lag[g] /\ due'[g] = due[g] /\ given'[g] = given[g]
  BY <1>1, <1>4, <1>14 DEF TypeOK
<1> QED
  BY <1>4, <1>11, <1>12, <1>13, <1>14, OneHart

(* A hart that goes back to its loop, whatever else it does.               *)
LEMMA RetryTyped ==
  ASSUME TypeOK, NEW h \in Harts, Retry(h)
  PROVE  /\ pc' \in [Harts -> Labels]
         /\ slice' \in [Harts -> [time : -N_QUANTUM .. N_QUANTUM, proc : Procs,
                                  length : 0 .. N_QUANTUM, timeout : Instant]]
         /\ \A g \in Harts \ {h} : pc'[g] = pc[g] /\ slice'[g] = slice[g]
<1>1. 0 \in Instant
  BY TicksTyped DEF Instant
<1>2. NoSlice \in [time : -N_QUANTUM .. N_QUANTUM, proc : Procs,
                   length : 0 .. N_QUANTUM, timeout : Instant]
  BY <1>1 DEF NoSlice
<1> QED
  BY <1>2 DEF Retry, Goto, TypeOK, Labels

LEMMA RetryStep ==
  ASSUME IInv, NEW h \in Harts, pc[h] \in Reading, Retry(h),
         UNCHANGED <<now, schedule, times, running, timeout, mtimecmp, lag, due, given>>
  PROVE  IInv'
<1>1. TypeOK /\ Timed(h)
  BY DEF IInv
<1>2. Timed(h)' /\ Sized(h)' /\ Offered(h)'
  BY <1>1, RetryOK
<1>3. TypeOK'
  BY <1>1, RetryTyped DEF TypeOK
<1> QED
  BY <1>1, <1>2, <1>3, RetryTyped, OneHart

LEMMA ReadLowerEntriesOK ==
  ASSUME IInv, NEW h \in Harts, ReadLowerEntries(h)
  PROVE  IInv'
<1>1. TypeOK /\ Timed(h) /\ Sized(h) /\ Offered(h) /\ pc[h] = "lower"
  BY DEF IInv, ReadLowerEntries, From
<1>2. CASE Retry(h)
  BY <1>1, <1>2, RetryStep DEF ReadLowerEntries, Reading
<1>3. CASE Goto(h, "timeout") /\ UNCHANGED slice
  <2>1. pc' = [pc EXCEPT ![h] = "timeout"] /\ UNCHANGED <<now, schedule, times, running,
           timeout, slice, mtimecmp, lag, due, given>>
    BY <1>3 DEF ReadLowerEntries, Goto
  <2>2. pc'[h] = "timeout" /\ TypeOK'
    BY <1>1, <2>1 DEF TypeOK, Labels
  <2>3. Timed(h)'
    BY <1>1, <2>1, <2>2 DEF Timed, From, Reading, Serving, Begun
  <2>4. Sized(h)' /\ Offered(h)'
    BY <1>1, <2>1, <2>2 DEF Sized, Offered, Chosen
  <2>5. \A g \in Harts \ {h} : pc'[g] = pc[g]
    BY <1>1, <2>1 DEF TypeOK
  <2> QED
    BY <2>1, <2>2, <2>3, <2>4, <2>5, OneHart
<1> QED
  BY <1>2, <1>3 DEF ReadLowerEntries

LEMMA ReadTimeoutOK ==
  ASSUME IInv, NEW h \in Harts, ReadTimeout(h)
  PROVE  IInv'
<1>1. TypeOK /\ Timed(h) /\ Sized(h) /\ Offered(h) /\ pc[h] = "timeout"
  BY DEF IInv, ReadTimeout, From
<1>2. CASE Retry(h)
  BY <1>1, <1>2, RetryStep DEF ReadTimeout, Reading
<1>3. CASE ~ Retry(h)
  <2> DEFINE t == timeout[slice[h].proc]
  <2>1. /\ t < End(slice[h]) \/ ~ (t >= End(slice[h]))
        /\ slice' = [slice EXCEPT ![h].timeout = t] /\ pc' = [pc EXCEPT ![h] = "acquire"]
        /\ UNCHANGED <<now, schedule, times, running, timeout, mtimecmp, lag, due, given>>
    BY <1>3 DEF ReadTimeout, Goto
  <2>2. slice[h] \in [time : -N_QUANTUM .. N_QUANTUM, proc : Procs,
                      length : 0 .. N_QUANTUM, timeout : Instant]
    BY <1>1, HartTyped
  <2>3. t \in Instant /\ t \in Int
    <3>1. slice[h].proc \in Procs
      BY <2>2
    <3>2. t \in Instant
      BY <1>1, <3>1 DEF TypeOK
    <3> QED
      BY <3>2, TicksTyped DEF Instant
  <2> HIDE DEF t
  <2>4. t + KERNEL_TICKS < Over(slice[h])
    BY <1>1, <2>1, <2>3, HartTyped
  <2>5. pc'[h] = "acquire" /\ slice'[h] = [slice[h] EXCEPT !.timeout = t]
    BY <1>1, <2>1 DEF TypeOK
  <2>6. /\ slice'[h].time = slice[h].time /\ slice'[h].proc = slice[h].proc
        /\ slice'[h].length = slice[h].length /\ slice'[h].timeout = t
    BY <2>2, <2>5
  <2>7. TypeOK'
    <3>1. slice'[h] \in [time : -N_QUANTUM .. N_QUANTUM, proc : Procs,
                         length : 0 .. N_QUANTUM, timeout : Instant]
      BY <2>2, <2>3, <2>5
    <3>2. slice' \in [Harts -> [time : -N_QUANTUM .. N_QUANTUM, proc : Procs,
                                length : 0 .. N_QUANTUM, timeout : Instant]]
      BY <1>1, <2>1, <3>1 DEF TypeOK
    <3>3. pc' \in [Harts -> Labels]
      BY <1>1, <2>1 DEF TypeOK, Labels
    <3> QED
      BY <1>1, <2>1, <3>2, <3>3 DEF TypeOK
  <2>8. Timed(h)'
    <3>1. Over(slice[h])' = Over(slice[h]) /\ Begun(h)' = Begun(h)
      BY <2>1, <2>6 DEF Over, Begun
    <3> QED
      BY <1>1, <2>1, <2>4, <2>5, <2>6, <3>1 DEF Timed, From, Reading, Serving
  <2>9. Sized(h)' /\ Offered(h)'
    BY <1>1, <2>1, <2>5, <2>6 DEF Sized, Offered, Chosen, First
  <2>10. ASSUME NEW g \in Harts \ {h} PROVE pc'[g] = pc[g] /\ slice'[g] = slice[g]
    BY <1>1, <2>1, <2>10 DEF TypeOK
  <2> QED
    BY <2>1, <2>7, <2>8, <2>9, <2>10, OneHart
<1> QED
  BY <1>2, <1>3

LEMMA AcquireOK ==
  ASSUME IInv, NEW h \in Harts, Acquire(h)
  PROVE  IInv'
<1>1. TypeOK /\ Timed(h) /\ Sized(h) /\ Offered(h) /\ pc[h] = "acquire"
  BY DEF IInv, Acquire, From
<1>2. CASE slice[h].proc \in running
  BY <1>1, <1>2, RetryStep DEF Acquire, Reading
<1>3. CASE slice[h].proc \notin running
  <2> DEFINE s == slice[h]
             m == Later(Start(s), s.timeout)
             d == Later(due[h], s.time + s.length)
  <2>1. /\ running' = running \union {s.proc} /\ mtimecmp' = [mtimecmp EXCEPT ![h] = m]
        /\ due' = [due EXCEPT ![h] = d] /\ pc' = [pc EXCEPT ![h] = "wait"]
        /\ UNCHANGED <<now, schedule, times, timeout, slice, lag, given>>
    BY <1>3 DEF Acquire, Goto
  <2>2. /\ s.proc \in Procs /\ s.time \in Int /\ s.length \in Int /\ s.timeout \in Instant
        /\ s.timeout \in Int /\ due[h] \in Int /\ Begun(h) \in Int /\ Over(s) \in Int
        /\ Start(s) = Ticks(s.time) /\ Ticks(s.time) \in -FRAME .. FRAME /\ Ticks(s.time) \in Int
    <3>1. s.proc \in Procs /\ s.timeout \in Instant
      BY <1>1 DEF TypeOK
    <3> QED
      BY <1>1, <3>1, HartTyped, TicksTyped
  <2>3. /\ s.time \in 0 .. N_QUANTUM /\ Begun(h) < Ticks(s.time)
        /\ s.timeout + KERNEL_TICKS < Over(s)
    BY <1>1 DEF Timed, Reading, From
  <2>4. s.length >= 1
    BY <1>1 DEF Sized, Chosen
  <2>5. Ticks(s.time) + TICKS <= Over(s)
    <3>1. s.time < s.time + s.length /\ s.time + s.length \in Int
      BY <2>2, <2>4
    <3> QED
      BY <2>2, <3>1, TicksGrow DEF Over
  <2>6. Ticks(s.time) <= m /\ m + KERNEL_TICKS < Over(s) /\ Begun(h) <= m /\ m \in Instant
    <3>1. m \in Int /\ Ticks(s.time) <= m /\ (m = Ticks(s.time) \/ m = s.timeout)
      BY <2>2 DEF Later
    <3>2. Ticks(s.time) \in Instant
      BY <2>2, TicksTyped DEF Instant
    <3> QED
      BY <2>2, <2>3, <2>5, <3>1, <3>2
  <2>7. s.time + s.length <= d /\ d \in -N_QUANTUM .. 2 * N_QUANTUM + 1
    <3>1. due[h] \in -N_QUANTUM .. 2 * N_QUANTUM + 1
      BY <1>1 DEF TypeOK
    <3>2. s.length \in 0 .. N_QUANTUM
      BY <1>1 DEF TypeOK
    <3>3. s.time + s.length \in 0 .. 2 * N_QUANTUM
      BY <2>3, <3>2
    <3> QED
      BY <3>1, <3>3 DEF Later
  <2> HIDE DEF m, d
  <2>8. pc'[h] = "wait" /\ mtimecmp'[h] = m /\ due'[h] = d /\ slice'[h] = s
        /\ Begun(h)' = Begun(h)
    BY <1>1, <2>1 DEF TypeOK, Begun
  <2>9. TypeOK'
    BY <1>1, <2>1, <2>2, <2>6, <2>7 DEF TypeOK, Labels
  <2>10. Timed(h)'
    BY <2>6, <2>7, <2>8 DEF Timed, From, Reading, Serving
  <2>11. Sized(h)' /\ Offered(h)'
    BY <1>1, <2>1, <2>8 DEF Sized, Offered, Chosen, Serving
  <2>12. ASSUME NEW g \in Harts \ {h}
         PROVE  pc'[g] = pc[g] /\ mtimecmp'[g] = mtimecmp[g] /\ due'[g] = due[g]
    BY <1>1, <2>1, <2>12 DEF TypeOK
  <2> QED
    BY <2>1, <2>9, <2>10, <2>11, <2>12, OneHart
<1> QED
  BY <1>2, <1>3

(* While its process runs: a step that leaves the slice alone and goes to  *)
(* user mode, back to it, or to the end of the slice.                      *)
LEMMA ServingStep ==
  ASSUME IInv, NEW h \in Harts, pc[h] \in Serving, NEW l \in Serving,
         pc' = [pc EXCEPT ![h] = l], UNCHANGED <<now, schedule, times, slice, due, given>>,
         running' \subseteq Procs, timeout' \in [Procs -> Instant],
         NEW m \in Instant, mtimecmp' = [mtimecmp EXCEPT ![h] = m],
         NEW n \in 0 .. KERNEL_TICKS, lag' = [lag EXCEPT ![h] = n],
         l \in {"user", "resume"} =>
           Ticks(slice[h].time) <= now /\ m = Over(slice[h]) - SCHEDULER_TICKS,
         l = "user" => now <= m,
         l = "resume" => now - n < m,
         l = "yield" => now - n + KERNEL_TICKS < Over(slice[h]),
         l # "wait"
  PROVE  IInv'
<1>1. TypeOK /\ Timed(h) /\ Sized(h) /\ Offered(h)
  BY DEF IInv
<1>2. pc'[h] = l /\ mtimecmp'[h] = m /\ lag'[h] = n /\ slice'[h] = slice[h] /\ due'[h] = due[h]
  BY <1>1 DEF TypeOK
<1>3. TypeOK'
  <2>1. pc' \in [Harts -> Labels]
    BY <1>1 DEF TypeOK, Labels, Serving
  <2> QED
    BY <1>1, <2>1 DEF TypeOK
<1>4. Begun(h)' = now - n /\ Over(slice[h])' = Over(slice[h])
  BY <1>2 DEF Begun, Over
<1>5. slice[h].time + slice[h].length <= due[h]
  BY <1>1 DEF Timed
<1>6. Timed(h)'
  BY <1>2, <1>4, <1>5 DEF Timed, From, Reading, Serving
<1>7. Sized(h)' /\ Offered(h)'
  BY <1>1, <1>2 DEF Sized, Offered, Chosen
<1>8. \A g \in Harts \ {h} : pc'[g] = pc[g] /\ mtimecmp'[g] = mtimecmp[g] /\ lag'[g] = lag[g]
  BY <1>1 DEF TypeOK
<1> QED
  BY <1>3, <1>6, <1>7, <1>8, OneHart

LEMMA WaitOverOK ==
  ASSUME IInv, NEW h \in Harts, WaitOver(h)
  PROVE  IInv'
<1> DEFINE m == End(slice[h])
<1>1. TypeOK /\ Timed(h) /\ pc[h] = "wait" /\ now >= mtimecmp[h]
  BY DEF IInv, WaitOver, From
<1>2. /\ Ticks(slice[h].time) <= mtimecmp[h] /\ mtimecmp[h] + KERNEL_TICKS < Over(slice[h])
      /\ Begun(h) <= mtimecmp[h]
  BY <1>1 DEF Timed, From
<1>3. /\ mtimecmp' = [mtimecmp EXCEPT ![h] = m] /\ mtimecmp'[h] = m
      /\ UNCHANGED <<now, schedule, times, running, timeout, slice, lag, due, given>>
  BY <1>1 DEF WaitOver, TypeOK
<1>4. /\ m = Over(slice[h]) - SCHEDULER_TICKS /\ Over(slice[h]) \in -FRAME .. 2 * FRAME
      /\ Ticks(slice[h].time) \in Int /\ mtimecmp[h] \in Int /\ now \in Int
      /\ Begun(h) = now - lag[h] /\ lag[h] \in 0 .. KERNEL_TICKS
  BY <1>1, HartTyped, TicksTyped DEF Begun
<1>5. m \in Instant /\ m \in Int
  BY <1>4, TicksTyped DEF Instant
<1>6. lag' = [lag EXCEPT ![h] = lag[h]] /\ running' \subseteq Procs
      /\ timeout' \in [Procs -> Instant]
  BY <1>1, <1>3 DEF TypeOK
<1> HIDE DEF m
<1>7. CASE now >= m
  <2>1. pc' = [pc EXCEPT ![h] = "yield"]
    BY <1>3, <1>7 DEF WaitOver, trap_resume_proc, Goto
  <2>2. now - lag[h] + KERNEL_TICKS < Over(slice[h])
    BY <1>2, <1>4
  <2>3. "yield" \in Serving /\ pc[h] \in Serving
    BY <1>1 DEF Serving
  <2> QED
    BY <1>3, <1>4, <1>5, <1>6, <2>1, <2>2, <2>3, ServingStep
<1>8. CASE ~ (now >= m)
  <2>1. pc' = [pc EXCEPT ![h] = "user"]
    BY <1>3, <1>8 DEF WaitOver, trap_resume_proc, Goto
  <2>2. Ticks(slice[h].time) <= now /\ now <= m
    BY <1>1, <1>2, <1>4, <1>5, <1>8
  <2>3. "user" \in Serving /\ pc[h] \in Serving
    BY <1>1 DEF Serving
  <2> QED
    BY <1>3, <1>4, <1>5, <1>6, <2>1, <2>2, <2>3, ServingStep
<1> QED
  BY <1>7, <1>8

LEMMA ResumeOK ==
  ASSUME IInv, NEW h \in Harts, Resume(h)
  PROVE  IInv'
<1> DEFINE m == mtimecmp[h]
<1>1. TypeOK /\ Timed(h) /\ pc[h] = "resume" /\ pc[h] \in Serving
  BY DEF IInv, Resume, From, Serving
<1>2. /\ Ticks(slice[h].time) <= now /\ m = Over(slice[h]) - SCHEDULER_TICKS /\ Begun(h) < m
  BY <1>1 DEF Timed, From
<1>3. /\ UNCHANGED <<now, schedule, times, running, timeout, slice, mtimecmp, lag, due, given>>
      /\ mtimecmp' = [mtimecmp EXCEPT ![h] = m] /\ lag' = [lag EXCEPT ![h] = lag[h]]
      /\ m \in Instant /\ lag[h] \in 0 .. KERNEL_TICKS
      /\ running' \subseteq Procs /\ timeout' \in [Procs -> Instant]
  BY <1>1 DEF Resume, TypeOK
<1>4. m \in Int /\ now \in Int /\ Begun(h) = now - lag[h] /\ lag[h] \in Int /\ Over(slice[h]) \in Int
  BY <1>1, HartTyped, TicksTyped DEF Begun
<1> HIDE DEF m
<1>5. CASE now >= m
  <2>1. pc' = [pc EXCEPT ![h] = "yield"]
    BY <1>3, <1>5 DEF Resume, trap_resume_proc, Goto, m
  <2>2. now - lag[h] + KERNEL_TICKS < Over(slice[h])
    BY <1>2, <1>4
  <2>3. "yield" \in Serving /\ "yield" \notin {"user", "resume"} /\ "yield" # "wait"
    BY DEF Serving
  <2> QED
    BY <1>1, <1>3, <2>1, <2>2, <2>3, ServingStep, Zenon
<1>6. CASE ~ (now >= m)
  <2>1. pc' = [pc EXCEPT ![h] = "user"]
    BY <1>3, <1>6 DEF Resume, trap_resume_proc, Goto, m
  <2>2. now <= m
    BY <1>4, <1>6
  <2>3. "user" \in Serving
    BY DEF Serving
  <2> QED
    BY <1>1, <1>2, <1>3, <2>1, <2>2, <2>3, ServingStep
<1> QED
  BY <1>5, <1>6

(* A trap out of user mode begins a new piece of kernel code.              *)
LEMMA TrapOK ==
  ASSUME IInv, NEW h \in Harts, pc[h] = "user", pc' = [pc EXCEPT ![h] = "yield"],
         lag' = [lag EXCEPT ![h] = 0], timeout' \in [Procs -> Instant],
         UNCHANGED <<now, schedule, times, running, slice, mtimecmp, due, given>>
  PROVE  IInv'
<1>1. TypeOK /\ Timed(h) /\ pc[h] \in Serving
  BY DEF IInv, Serving
<1>2. mtimecmp[h] = Over(slice[h]) - SCHEDULER_TICKS /\ now <= mtimecmp[h]
  BY DEF IInv, Timed, From
<1>3. now \in Int /\ mtimecmp[h] \in Int /\ Over(slice[h]) \in Int
  BY <1>1, HartTyped, TicksTyped
<1>4. /\ mtimecmp' = [mtimecmp EXCEPT ![h] = mtimecmp[h]] /\ mtimecmp[h] \in Instant
      /\ running' \subseteq Procs /\ 0 \in 0 .. KERNEL_TICKS
  BY <1>1 DEF TypeOK
<1>5. now - 0 + KERNEL_TICKS < Over(slice[h])
  BY <1>2, <1>3
<1>6. "yield" \in Serving
  BY DEF Serving
<1> QED
  BY <1>1, <1>4, <1>5, <1>6, ServingStep

LEMMA TimerOK ==
  ASSUME IInv, NEW h \in Harts, Timer(h)
  PROVE  IInv'
BY TrapOK DEF Timer, From, Goto, IInv, TypeOK

LEMMA YieldOK ==
  ASSUME IInv, NEW h \in Harts, Yield(h)
  PROVE  IInv'
<1>1. timeout' \in [Procs -> Instant]
  BY DEF IInv, TypeOK, Yield
<1> QED
  BY <1>1, TrapOK DEF Yield, Ecall, From, Goto

LEMMA ReleaseOK ==
  ASSUME IInv, NEW h \in Harts, Release(h)
  PROVE  IInv'
<1>1. TypeOK /\ Timed(h) /\ pc[h] = "yield"
  BY DEF IInv, Release, From
<1>2. Retry(h) /\ UNCHANGED <<now, schedule, times, timeout, mtimecmp, lag, due, given>>
  BY DEF Release
<1>3. TypeOK'
  <2>1. running' \subseteq Procs
    BY <1>1 DEF Release, TypeOK
  <2> QED
    BY <1>1, <1>2, <2>1, RetryTyped DEF TypeOK
<1>4. pc'[h] = "loop" /\ Begun(h)' = Begun(h)
  BY <1>1, <1>2 DEF Retry, Goto, TypeOK, Begun
<1>5. Begun(h) + KERNEL_TICKS < Ticks(due[h])
  <2>1. Begun(h) + KERNEL_TICKS < Over(slice[h]) /\ slice[h].time + slice[h].length <= due[h]
    BY <1>1 DEF Timed, From, Serving
  <2>2. Over(slice[h]) <= Ticks(due[h])
    <3>1. slice[h].time + slice[h].length \in Int /\ due[h] \in Int
      BY <1>1, HartTyped
    <3> QED
      BY <2>1, <3>1, TicksAtMost DEF Over
  <2> QED
    BY <1>1, <2>1, <2>2, HartTyped, TicksTyped
<1>6. Timed(h)' /\ Sized(h)' /\ Offered(h)'
  BY <1>2, <1>4, <1>5 DEF Timed, Sized, Offered, From, Reading, Chosen, Serving
<1> QED
  BY <1>1, <1>2, <1>3, <1>6, RetryTyped, OneHart

----------------------------------------------------------------------------
(* Capabilities that divide the range of another one tile the frame as it  *)
(* did.                                                                    *)
TimeCaps == [hart : Harts, free : Quanta, end : 1 .. N_QUANTUM, pid : Procs]

Divides(D, c) ==
  /\ D \subseteq TimeCaps
  /\ \A d \in D : d.free < d.end /\ d.hart = c.hart /\ Owned(d) \subseteq Owned(c)
  /\ \A q \in Owned(c) : \E d \in D : q \in Owned(d)
  /\ \A d, e \in D : \A q \in Owned(d) \intersect Owned(e) : d = e

LEMMA DividedOK ==
  ASSUME TypeOK, Tiled, NEW c \in times, NEW D, Divides(D, c),
         times' = (times \ {c}) \union D,
         \A g \in Harts, q \in Quanta :
           ~ (g = c.hart /\ q \in Owned(c)) => schedule'[g][q] = schedule[g][q],
         \A d \in D : \A q \in Owned(d) :
           schedule'[c.hart][q] = [pid |-> d.pid, length |-> d.end - q]
  PROVE  Tiled'
<1>0. /\ \A d \in D : d.free < d.end /\ d.hart = c.hart /\ Owned(d) \subseteq Owned(c)
      /\ \A q \in Owned(c) : \E d \in D : q \in Owned(d)
      /\ \A d, e \in D : \A q \in Owned(d) \intersect Owned(e) : d = e
  BY DEF Divides
<1>1. ASSUME NEW d \in times', NEW q \in Owned(d)
      PROVE  schedule'[d.hart][q] = [pid |-> d.pid, length |-> d.end - q]
  <2>1. CASE d \in D
    BY <1>0, <1>1, <2>1
  <2>2. CASE d \in times \ {c}
    <3>1. d.hart \in Harts /\ q \in Quanta
      BY <1>1, <2>2 DEF TypeOK, Owned, Quanta
    <3>2. ~ (d.hart = c.hart /\ q \in Owned(c))
      BY <1>1, <2>2 DEF Tiled
    <3>3. schedule[d.hart][q] = [pid |-> d.pid, length |-> d.end - q]
      BY <1>1, <2>2 DEF Tiled
    <3> QED
      BY <3>1, <3>2, <3>3
  <2> QED
    BY <2>1, <2>2
<1>2. ASSUME NEW h \in Harts, NEW q \in Quanta PROVE \E d \in times' : d.hart = h /\ q \in Owned(d)
  <2>1. PICK d \in times : d.hart = h /\ q \in Owned(d)
    BY DEF Tiled
  <2> QED
    BY <1>0, <2>1
<1>3. ASSUME NEW d \in times', NEW e \in times', d.hart = e.hart,
             NEW q \in Owned(d) \intersect Owned(e)
      PROVE  d = e
  <2>1. CASE d \in times \ {c} /\ e \in times \ {c}
    BY <1>0, <1>3, <2>1 DEF Tiled
  <2>2. CASE d \in D /\ e \in D
    BY <1>0, <1>3, <2>2
  <2>3. CASE d \in D /\ e \in times \ {c}
    BY <1>0, <1>3, <2>3 DEF Tiled
  <2>4. CASE e \in D /\ d \in times \ {c}
    BY <1>0, <1>3, <2>4 DEF Tiled
  <2> QED
    BY <2>1, <2>2, <2>3, <2>4
<1>4. \A d \in times' : Owned(d)' = Owned(d) /\ d.free < d.end
  BY <1>0 DEF Owned, Tiled
<1> QED
  BY <1>1, <1>2, <1>3, <1>4 DEF Tiled

(* A slice lies within its frame.                                          *)
LEMMA SliceQuanta ==
  ASSUME TypeOK, NEW g \in Harts, Sized(g), pc[g] \in Chosen
  PROVE  First(slice[g]) .. First(slice[g]) + slice[g].length - 1 \subseteq Quanta
<1>1. slice[g].time \in -N_QUANTUM .. N_QUANTUM /\ slice[g].length \in 0 .. N_QUANTUM
  BY DEF TypeOK
<1>2. First(slice[g]) \in Nat
  BY <1>1, FirstQuantum DEF First
<1>3. First(slice[g]) + slice[g].length <= N_QUANTUM
  BY DEF Sized
<1> QED
  BY <1>1, <1>2, <1>3 DEF Quanta

LEMMA RewriteOK ==
  ASSUME IInv, NEW h \in Harts, pc[h] = "user", now < mtimecmp[h],
         pc' = [pc EXCEPT ![h] = "resume"], lag' = [lag EXCEPT ![h] = 0],
         UNCHANGED <<now, running, timeout, slice, mtimecmp, due>>,
         Tiled', times' \subseteq TimeCaps, schedule' \in [Harts -> [Quanta -> Entry]],
         given' \in [Harts -> SUBSET Quanta],
         \A g \in Harts : given[g] \subseteq given'[g],
         \A g \in Harts, q \in Quanta :
           schedule'[g][q].pid = schedule[g][q].pid \/ q \in given'[g]
  PROVE  IInv'
<1>1. TypeOK /\ Timed(h) /\ Sized(h)
  BY DEF IInv
<1>2. TypeOK'
  <2>1. pc' \in [Harts -> Labels] /\ lag' \in [Harts -> 0 .. KERNEL_TICKS]
    BY <1>1 DEF TypeOK, Labels
  <2> QED
    BY <1>1, <2>1 DEF TypeOK, TimeCaps
<1>3. pc'[h] = "resume" /\ lag'[h] = 0
  BY <1>1 DEF TypeOK
<1>4. Timed(h)'
  <2>1. Begun(h)' = now
    BY <1>1, <1>3, HartTyped, TicksTyped DEF Begun
  <2>2. /\ Ticks(slice[h].time) <= now /\ mtimecmp[h] = Over(slice[h]) - SCHEDULER_TICKS
        /\ slice[h].time + slice[h].length <= due[h]
    BY <1>1 DEF Timed, Serving
  <2> QED
    BY <1>3, <2>1, <2>2 DEF Timed, From, Reading, Serving
<1>5. ASSUME NEW g \in Harts PROVE Timed(g)' /\ Sized(g)'
  <2>1. CASE g = h
    BY <1>1, <1>3, <1>4, <2>1 DEF Sized, Chosen, Serving
  <2>2. CASE g # h
    <3>1. pc'[g] = pc[g] /\ lag'[g] = lag[g]
      BY <1>1, <2>2 DEF TypeOK
    <3>2. Timed(g) /\ Sized(g)
      BY DEF IInv
    <3>3. Timed(g)'
      BY <3>1, <3>2 DEF Timed, From, Begun
    <3>4. Sized(g)'
      BY <3>1, <3>2 DEF Sized
    <3> QED
      BY <3>3, <3>4
  <2> QED
    BY <2>1, <2>2
<1>6. ASSUME NEW g \in Harts PROVE Offered(g)'
  <2>1. pc'[g] \in Chosen => pc[g] \in Chosen
    BY <1>1, <1>3 DEF TypeOK, Chosen, Serving
  <2>2. ASSUME pc[g] \in Chosen,
               NEW q \in First(slice[g]) .. First(slice[g]) + slice[g].length - 1
        PROVE  schedule'[g][q].pid = slice[g].proc \/ q \in given'[g]
    <3>1. q \in Quanta
      BY <1>1, <2>2, SliceQuanta DEF IInv
    <3>2. schedule[g][q].pid = slice[g].proc \/ q \in given[g]
      BY <2>2 DEF IInv, Offered
    <3> QED
      BY <3>1, <3>2
  <2> QED
    BY <2>1, <2>2 DEF Offered
<1> QED
  BY <1>2, <1>5, <1>6 DEF IInv

(* What sched_update writes.                                               *)
LEMMA UpdateOK ==
  ASSUME TypeOK, NEW g \in Harts, NEW b \in Quanta, NEW e \in 1 .. N_QUANTUM, b < e,
         NEW p \in Procs, sched_update(g, b, e, p)
  PROVE  /\ schedule' \in [Harts -> [Quanta -> Entry]] /\ given' \in [Harts -> SUBSET Quanta]
         /\ \A k \in Harts : given[k] \subseteq given'[k]
         /\ \A k \in Harts, q \in Quanta :
              schedule'[k][q].pid = schedule[k][q].pid \/ q \in given'[k]
         /\ \A k \in Harts, q \in Quanta :
              schedule'[k][q] = IF k = g /\ q \in b .. e - 1 THEN [pid |-> p, length |-> e - q]
                                ELSE schedule[k][q]
<1>1. \A q \in Quanta : (b <= q /\ q < e) <=> q \in b .. e - 1
  BY DEF Quanta
<1>2. ASSUME NEW k \in Harts, NEW q \in Quanta
      PROVE  schedule'[k][q] = IF k = g /\ q \in b .. e - 1 THEN [pid |-> p, length |-> e - q]
                               ELSE schedule[k][q]
  BY <1>1, <1>2 DEF sched_update, TypeOK
<1>3. \A q \in Quanta : q \in b .. e - 1 => [pid |-> p, length |-> e - q] \in Entry
  BY DEF Quanta, Entry
<1>4. schedule' \in [Harts -> [Quanta -> Entry]]
  <2> DEFINE r == [q \in Quanta |->
                     IF b <= q /\ q < e THEN [pid |-> p, length |-> e - q] ELSE schedule[g][q]]
  <2>1. schedule' = [schedule EXCEPT ![g] = r]
    BY DEF sched_update
  <2>2. r \in [Quanta -> Entry]
    BY <1>1, <1>3 DEF TypeOK
  <2> QED
    BY <2>1, <2>2 DEF TypeOK
<1>5. /\ given' \in [Harts -> SUBSET Quanta]
      /\ \A k \in Harts : given[k] \subseteq given'[k]
      /\ \A q \in b .. e - 1 : schedule[g][q].pid = p \/ q \in given'[g]
  <2>1. b .. e - 1 \subseteq Quanta
    BY DEF Quanta
  <2>2. given' = [given EXCEPT ![g] =
          given[g] \union {q \in b .. e - 1 : schedule[g][q].pid # p}]
    BY DEF sched_update
  <2> QED
    BY <2>1, <2>2 DEF TypeOK
<1>6. ASSUME NEW k \in Harts, NEW q \in Quanta
      PROVE  schedule'[k][q].pid = schedule[k][q].pid \/ q \in given'[k]
  <2>1. CASE k = g /\ q \in b .. e - 1
    <3>1. schedule'[k][q] = [pid |-> p, length |-> e - q]
      BY <1>2, <2>1
    <3>2. schedule'[k][q].pid = p
      BY <3>1
    <3> QED
      BY <1>5, <2>1, <3>2
  <2>2. CASE ~ (k = g /\ q \in b .. e - 1)
    <3>1. schedule'[k][q] = schedule[k][q]
      BY <1>2, <2>2
    <3> QED
      BY <3>1
  <2> QED
    BY <2>1, <2>2
<1> QED
  BY <1>2, <1>4, <1>5, <1>6

LEMMA DeriveTimeOK ==
  ASSUME IInv, NEW h \in Harts, DeriveTime(h)
  PROVE  IInv'
<1>1. TypeOK /\ Tiled /\ pc[h] = "user" /\ now < mtimecmp[h]
  BY DEF IInv, DeriveTime, Ecall, From
<1>2. PICK c \in times : \E e \in c.free + 1 .. c.end - 1 :
        /\ sched_update(c.hart, c.free, e, c.pid)
        /\ times' = (times \ {c}) \union {[c EXCEPT !.end = e], [c EXCEPT !.free = e]}
  BY DEF DeriveTime
<1>3. c \in TimeCaps
  BY <1>1 DEF TypeOK, TimeCaps
<1>4. PICK e \in c.free + 1 .. c.end - 1 :
        /\ sched_update(c.hart, c.free, e, c.pid)
        /\ times' = (times \ {c}) \union {[c EXCEPT !.end = e], [c EXCEPT !.free = e]}
  BY <1>2
<1> DEFINE d1 == [c EXCEPT !.end = e]
           d2 == [c EXCEPT !.free = e]
<1>5. /\ c.free \in Quanta /\ c.end \in 1 .. N_QUANTUM /\ c.hart \in Harts /\ c.pid \in Procs
      /\ c.free \in Nat /\ c.end \in Nat
  BY <1>3 DEF TimeCaps, Quanta
<1>6. e \in 1 .. N_QUANTUM /\ e \in Quanta /\ c.free < e /\ e < c.end
  BY <1>5 DEF Quanta
<1>7. /\ d1 \in TimeCaps /\ d1.hart = c.hart /\ d1.pid = c.pid /\ d1.free = c.free /\ d1.end = e
      /\ d2 \in TimeCaps /\ d2.hart = c.hart /\ d2.pid = c.pid /\ d2.free = e /\ d2.end = c.end
  BY <1>3, <1>6 DEF TimeCaps
<1>8. times' = (times \ {c}) \union {d1, d2}
  BY <1>4
<1> HIDE DEF d1, d2
<1>9. Owned(d1) = c.free .. e - 1 /\ Owned(d2) = e .. c.end - 1 /\ Owned(c) = c.free .. c.end - 1
  BY <1>7 DEF Owned
<1>10. /\ schedule' \in [Harts -> [Quanta -> Entry]] /\ given' \in [Harts -> SUBSET Quanta]
       /\ \A k \in Harts : given[k] \subseteq given'[k]
       /\ \A k \in Harts, q \in Quanta :
            schedule'[k][q].pid = schedule[k][q].pid \/ q \in given'[k]
       /\ \A k \in Harts, q \in Quanta :
            schedule'[k][q] = IF k = c.hart /\ q \in c.free .. e - 1
                              THEN [pid |-> c.pid, length |-> e - q] ELSE schedule[k][q]
  BY <1>1, <1>4, <1>5, <1>6, UpdateOK
<1>11. Tiled'
  <2>1. \A d \in {d1, d2} : d.free < d.end /\ d.hart = c.hart /\ Owned(d) \subseteq Owned(c)
    <3>1. d1.free < d1.end /\ d2.free < d2.end /\ d1.hart = c.hart /\ d2.hart = c.hart
      BY <1>6, <1>7
    <3>2. Owned(d1) \subseteq Owned(c) /\ Owned(d2) \subseteq Owned(c)
      BY <1>5, <1>6, <1>9
    <3> QED
      BY <3>1, <3>2
  <2>2. \A q \in Owned(c) : \E d \in {d1, d2} : q \in Owned(d)
    BY <1>5, <1>6, <1>9
  <2>3. \A d, x \in {d1, d2} : \A q \in Owned(d) \intersect Owned(x) : d = x
    BY <1>5, <1>6, <1>9
  <2>4. Owned(c) \subseteq Quanta
    BY <1>5, <1>9 DEF Quanta
  <2>5. \A g \in Harts, q \in Quanta :
          ~ (g = c.hart /\ q \in Owned(c)) => schedule'[g][q] = schedule[g][q]
    <3>1. c.free .. e - 1 \subseteq Owned(c)
      BY <1>5, <1>6, <1>9
    <3> QED
      BY <1>10, <3>1
  <2>6. ASSUME NEW d \in {d1, d2}, NEW q \in Owned(d)
        PROVE  schedule'[c.hart][q] = [pid |-> d.pid, length |-> d.end - q]
    <3>1. q \in Quanta /\ schedule[c.hart][q] = [pid |-> c.pid, length |-> c.end - q]
      <4>1. q \in Owned(c) /\ q \in Quanta
        BY <2>1, <2>4, <2>6
      <4> QED
        BY <1>1, <4>1 DEF Tiled
    <3>2. CASE d = d1
      <4>1. q \in c.free .. e - 1
        BY <1>9, <2>6, <3>2
      <4>2. schedule'[c.hart][q] = [pid |-> c.pid, length |-> e - q]
        BY <1>5, <1>10, <3>1, <4>1
      <4> QED
        BY <1>7, <3>2, <4>2
    <3>3. CASE d = d2
      <4>1. q \notin c.free .. e - 1
        BY <1>5, <1>6, <1>9, <2>6, <3>3
      <4> QED
        BY <1>5, <1>7, <1>10, <3>1, <3>3, <4>1
    <3> QED
      BY <3>2, <3>3
  <2>7. Divides({d1, d2}, c)
    BY <1>7, <2>1, <2>2, <2>3 DEF Divides
  <2> QED
    BY <1>1, <1>8, <2>5, <2>6, <2>7, DividedOK
<1>12. times' \subseteq TimeCaps
  BY <1>1, <1>7, <1>8 DEF TypeOK, TimeCaps
<1> QED
  BY <1>1, <1>10, <1>11, <1>12, RewriteOK DEF DeriveTime, Goto

LEMMA MoveTimeOK ==
  ASSUME IInv, NEW h \in Harts, MoveTime(h)
  PROVE  IInv'
<1>1. TypeOK /\ Tiled /\ pc[h] = "user" /\ now < mtimecmp[h]
  BY DEF IInv, MoveTime, Ecall, From
<1>2. PICK c \in times : \E p \in Procs \ {c.pid} :
        /\ sched_update(c.hart, c.free, c.end, p)
        /\ times' = (times \ {c}) \union {[c EXCEPT !.pid = p]}
  BY DEF MoveTime
<1>3. PICK p \in Procs \ {c.pid} :
        /\ sched_update(c.hart, c.free, c.end, p)
        /\ times' = (times \ {c}) \union {[c EXCEPT !.pid = p]}
  BY <1>2
<1> DEFINE d == [c EXCEPT !.pid = p]
<1>4. c \in TimeCaps
  BY <1>1 DEF TypeOK, TimeCaps
<1>5. /\ c.free \in Quanta /\ c.end \in 1 .. N_QUANTUM /\ c.hart \in Harts
      /\ c.free \in Nat /\ c.end \in Nat
  BY <1>4 DEF TimeCaps, Quanta
<1>6. d \in TimeCaps /\ d.hart = c.hart /\ d.free = c.free /\ d.end = c.end /\ d.pid = p
  BY <1>4 DEF TimeCaps
<1>7. times' = (times \ {c}) \union {d}
  BY <1>3
<1> HIDE DEF d
<1>8. Owned(d) = Owned(c) /\ Owned(c) = c.free .. c.end - 1 /\ Owned(c) \subseteq Quanta
  BY <1>5, <1>6 DEF Owned, Quanta
<1>9. c.free < c.end
  BY <1>1 DEF Tiled
<1>10. /\ schedule' \in [Harts -> [Quanta -> Entry]] /\ given' \in [Harts -> SUBSET Quanta]
       /\ \A k \in Harts : given[k] \subseteq given'[k]
       /\ \A k \in Harts, q \in Quanta :
            schedule'[k][q].pid = schedule[k][q].pid \/ q \in given'[k]
       /\ \A k \in Harts, q \in Quanta :
            schedule'[k][q] = IF k = c.hart /\ q \in c.free .. c.end - 1
                              THEN [pid |-> p, length |-> c.end - q] ELSE schedule[k][q]
  BY <1>1, <1>3, <1>5, <1>9, UpdateOK
<1>11. Tiled'
  <2>1. \A x \in {d} : x.free < x.end /\ x.hart = c.hart /\ Owned(x) \subseteq Owned(c)
    BY <1>6, <1>8, <1>9
  <2>2. \A q \in Owned(c) : \E x \in {d} : q \in Owned(x)
    BY <1>8
  <2>3. \A g \in Harts, q \in Quanta :
          ~ (g = c.hart /\ q \in Owned(c)) => schedule'[g][q] = schedule[g][q]
    BY <1>8, <1>10
  <2>4. ASSUME NEW x \in {d}, NEW q \in Owned(x)
        PROVE  schedule'[c.hart][q] = [pid |-> x.pid, length |-> x.end - q]
    <3>1. q \in Quanta /\ q \in c.free .. c.end - 1
      BY <1>8, <2>4
    <3>2. schedule'[c.hart][q] = [pid |-> p, length |-> c.end - q]
      BY <1>5, <1>10, <3>1
    <3>3. x.pid = p /\ x.end = c.end
      BY <1>6
    <3> QED
      BY <3>2, <3>3
  <2> QED
    <3>1. Divides({d}, c)
      BY <1>6, <2>1, <2>2 DEF Divides
    <3> QED
      BY <1>1, <1>7, <2>3, <2>4, <3>1, DividedOK
<1>12. times' \subseteq TimeCaps
  BY <1>1, <1>6, <1>7 DEF TypeOK, TimeCaps
<1> QED
  BY <1>1, <1>10, <1>11, <1>12, RewriteOK DEF MoveTime, Goto

----------------------------------------------------------------------------
(* Time passes: a hart that runs its process or waits has not reached the  *)
(* instant its timer is set to, and any other is in a piece of kernel code *)
(* that began when it did.                                                 *)
LEMMA Passing ==
  ASSUME TypeOK, NEW h \in Harts, Tick
  PROVE  /\ lag'[h] \in 0 .. KERNEL_TICKS /\ lag'[h] \in Int
         /\ \/ /\ pc[h] \in {"user", "wait"} /\ lag'[h] = 0 /\ now + 1 <= mtimecmp[h]
            \/ pc[h] # "user" /\ now + 1 - lag'[h] = Begun(h)
<1>1. MayPass(h) /\ lag'[h] = IF Idle(h) THEN 0 ELSE lag[h] + 1
  BY DEF Tick
<1>2. now \in Int /\ lag[h] \in 0 .. KERNEL_TICKS /\ mtimecmp[h] \in Int
  <2>1. mtimecmp[h] \in Int
    BY HartTyped
  <2> QED
    BY <2>1, TicksTyped DEF TypeOK
<1>3. CASE Idle(h)
  BY <1>1, <1>2, <1>3 DEF Idle
<1>4. CASE ~ Idle(h)
  BY <1>1, <1>2, <1>4 DEF MayPass, Begun
<1> QED
  BY <1>3, <1>4

LEMMA TickWithinOK ==
  ASSUME IInv, Tick, now + 1 < FRAME
  PROVE  IInv'
<1>1. TypeOK /\ Tiled
  BY DEF IInv
<1>2. now' = now + 1 /\ UNCHANGED <<schedule, times, running, timeout, pc, slice, mtimecmp,
                                    due, given>>
  BY DEF Tick
<1>3. now \in Nat
  BY <1>1, TicksTyped DEF TypeOK
<1>4. TypeOK'
  <2>1. now' \in 0 .. FRAME - 1
    BY <1>2, <1>3, TicksTyped
  <2>2. lag' = [g \in Harts |-> lag'[g]]
    BY DEF Tick
  <2>3. lag' \in [Harts -> 0 .. KERNEL_TICKS]
    BY <1>1, <2>2, Passing
  <2> QED
    BY <1>1, <1>2, <2>1, <2>3 DEF TypeOK
<1>5. Tiled'
  BY <1>1, <1>2 DEF Tiled
<1>6. ASSUME NEW h \in Harts PROVE Timed(h)' /\ Sized(h)' /\ Offered(h)'
  <2>1. Timed(h) /\ Sized(h) /\ Offered(h)
    BY DEF IInv
  <2>2. Begun(h)' = now + 1 - lag'[h] /\ lag'[h] \in Int
    <3>1. lag'[h] \in Int
      BY <1>1, Passing
    <3> QED
      BY <1>2, <1>3, <3>1 DEF Begun
  <2>3. /\ Ticks(slice[h].time) \in Int /\ mtimecmp[h] \in Int /\ Begun(h) \in Int
    BY <1>1, HartTyped
  <2>4. ASSUME pc[h] \in {"user", "wait"}, lag'[h] = 0, now + 1 <= mtimecmp[h]
        PROVE  Timed(h)'
    <3>1. Begun(h)' <= mtimecmp[h]
      BY <1>3, <2>2, <2>4
    <3>2. Ticks(slice[h].time) <= now => Ticks(slice[h].time) <= now'
      BY <1>2, <1>3, <2>3
    <3> QED
      BY <1>2, <2>1, <2>4, <3>1, <3>2 DEF Timed, From, Reading, Serving
  <2>5. ASSUME pc[h] # "user", now + 1 - lag'[h] = Begun(h)
        PROVE  Timed(h)'
    <3>1. Begun(h)' = Begun(h)
      BY <2>2, <2>5
    <3>2. Ticks(slice[h].time) <= now => Ticks(slice[h].time) <= now'
      BY <1>2, <1>3, <2>3
    <3> QED
      BY <1>2, <2>1, <2>5, <3>1, <3>2 DEF Timed, From, Reading, Serving
  <2>6. Timed(h)'
    BY <1>1, <2>4, <2>5, Passing
  <2>7. Sized(h)' /\ Offered(h)'
    BY <1>2, <2>1 DEF Sized, Offered
  <2> QED
    BY <2>6, <2>7
<1> QED
  BY <1>4, <1>5, <1>6 DEF IInv

(* When the frame is over, every slice that has been chosen begins in it   *)
(* and ends with it, or begins the next one.                               *)
LEMMA AtFrameEnd ==
  ASSUME IInv, Tick, ~ (now + 1 < FRAME), NEW h \in Harts
  PROVE  /\ now + 1 = FRAME /\ pc[h] # "user"
         /\ due[h] >= 0
         /\ pc[h] \in Reading => slice[h].time = N_QUANTUM
         /\ pc[h] \in Serving => slice[h].time \in 0 .. N_QUANTUM /\ Over(slice[h]) >= FRAME
<1>1. TypeOK /\ Timed(h) /\ Sized(h)
  BY DEF IInv
<1>2. now + 1 = FRAME /\ now \in Int /\ FRAME \in Nat
  BY <1>1, TicksTyped DEF TypeOK
<1>3. /\ slice[h].time \in -N_QUANTUM .. N_QUANTUM /\ slice[h].length \in 0 .. N_QUANTUM
      /\ slice[h].time \in Int /\ slice[h].length \in Int
  BY <1>1 DEF TypeOK
<1>4. /\ Ticks(slice[h].time) \in Int /\ Over(slice[h]) \in Int /\ due[h] \in Int
      /\ mtimecmp[h] \in Int /\ Begun(h) \in Int /\ Ticks(due[h]) \in Int
      /\ FRAME - 1 <= Begun(h) + KERNEL_TICKS
  <2>1. FRAME - 1 <= Begun(h) + KERNEL_TICKS
    <3>1. lag[h] \in 0 .. KERNEL_TICKS
      BY <1>1 DEF TypeOK
    <3> QED
      BY <1>2, <3>1 DEF Begun
  <2> QED
    BY <1>1, <2>1, HartTyped, TicksTyped
<1>5. /\ FRAME - TICKS = Ticks(N_QUANTUM - 1) /\ FRAME = Ticks(N_QUANTUM) /\ Ticks(0) = 0
  BY TicksTyped, TicksShift
<1>6. ASSUME pc[h] \in Serving, Over(slice[h]) >= FRAME PROVE slice[h].time \in 0 .. N_QUANTUM
  <2>1. N_QUANTUM <= slice[h].time + slice[h].length
    <3>1. slice[h].time + slice[h].length \in Int
      BY <1>3
    <3> HIDE <1>3
    <3>2. CASE slice[h].time + slice[h].length < N_QUANTUM
      <4>1. Over(slice[h]) + TICKS <= FRAME
        BY <1>5, <3>1, <3>2, TicksGrow DEF Over
      <4> QED
        BY <1>2, <1>4, <1>6, <4>1
    <3> QED
      BY <3>1, <3>2
  <2>2. First(slice[h]) + slice[h].length <= N_QUANTUM
    BY <1>1, <1>6 DEF Sized, Chosen
  <2>3. slice[h].time < 0 => First(slice[h]) = slice[h].time + N_QUANTUM
    BY <1>3, FirstQuantum DEF First
  <2> QED
    BY <1>3, <2>1, <2>2, <2>3
<1>7. ASSUME pc[h] \in Reading PROVE slice[h].time = N_QUANTUM /\ due[h] >= 0
  <2>1. Begun(h) < Ticks(slice[h].time) /\ slice[h].time < due[h]
    BY <1>1, <1>7 DEF Timed
  <2>2. Ticks(N_QUANTUM - 1) < Ticks(slice[h].time)
    BY <1>2, <1>4, <1>5, <2>1
  <2>3. N_QUANTUM - 1 < slice[h].time
    BY <1>3, <2>2, TicksAtMost
  <2> QED
    BY <1>3, <1>4, <2>1, <2>3
<1>8. ASSUME pc[h] \in {"wait", "resume", "yield"} PROVE Over(slice[h]) >= FRAME
  <2>1. FRAME - 1 < Over(slice[h])
    BY <1>1, <1>2, <1>4, <1>8 DEF Timed, From
  <2> QED
    BY <1>2, <1>4, <2>1
<1>9. pc[h] # "user"
  <2> SUFFICES ASSUME pc[h] = "user" PROVE FALSE
    OBVIOUS
  <2>1. now + 1 <= mtimecmp[h]
    BY <1>1, Passing
  <2>2. mtimecmp[h] = Over(slice[h]) - SCHEDULER_TICKS /\ Ticks(slice[h].time) <= now
    BY <1>1 DEF Timed
  <2>3. Over(slice[h]) > FRAME
    BY <1>2, <1>4, <2>1, <2>2
  <2>4. slice[h].time \in 0 .. N_QUANTUM
    BY <1>2, <1>4, <1>6, <2>3 DEF Serving
  <2>5. slice[h].time < N_QUANTUM
    <3>1. Ticks(slice[h].time) < Ticks(N_QUANTUM)
      BY <1>2, <1>4, <1>5, <2>2
    <3> QED
      BY <1>3, <3>1, TicksAtMost
  <2>6. slice[h].time + slice[h].length <= N_QUANTUM
    BY <1>1, <1>3, <2>4, <2>5, FirstQuantum DEF Sized, Chosen, Serving, First
  <2>7. Over(slice[h]) <= Ticks(N_QUANTUM)
    <3>1. slice[h].time + slice[h].length \in Int
      BY <1>3
    <3> QED
      BY <2>6, <3>1, TicksAtMost DEF Over
  <2> QED
    BY <1>2, <1>4, <1>5, <2>3, <2>7
<1>10. due[h] >= 0
  <2>1. CASE pc[h] = "loop"
    <3>1. 0 < Ticks(due[h]) \/ 0 <= Ticks(due[h])
      BY <1>1, <1>2, <1>4, <2>1, TicksTyped DEF Timed, From
    <3>2. Ticks(0 - 1) = 0 - TICKS
      BY TicksShift, TicksTyped
    <3>3. Ticks(0 - 1) < Ticks(due[h])
      BY <1>4, <3>1, <3>2
    <3>4. 0 - 1 < due[h]
      BY <1>4, <3>3, TicksAtMost
    <3> QED
      BY <1>4, <3>4
  <2>2. CASE pc[h] \in Reading
    BY <1>7, <2>2
  <2>3. CASE pc[h] \in Serving
    <3>1. slice[h].time + slice[h].length <= due[h]
      BY <1>1, <2>3 DEF Timed
    <3>2. slice[h].time \in 0 .. N_QUANTUM
      BY <1>6, <1>8, <1>9, <2>3 DEF Serving
    <3> QED
      BY <1>3, <1>4, <3>1, <3>2
  <2> QED
    BY <1>1, <2>1, <2>2, <2>3, HartTyped DEF Labels, Reading, Serving
<1> QED
  BY <1>2, <1>6, <1>7, <1>8, <1>9, <1>10 DEF Serving

LEMMA PastOf ==
  \A t \in Int : /\ Past(t) \in Int /\ t <= Past(t)
                 /\ Past(t) = t \/ (t < -SCHEDULER_TICKS /\ Past(t) = -SCHEDULER_TICKS)
                 /\ t \in -2 * FRAME - SCHEDULER_TICKS .. FRAME => Past(t) \in Instant
BY TicksTyped DEF Past, Later, Instant

LEMMA TickOverOK ==
  ASSUME IInv, Tick, ~ (now + 1 < FRAME)
  PROVE  IInv'
<1>1. TypeOK /\ Tiled
  BY DEF IInv
<1>2. /\ now' = 0 /\ UNCHANGED <<schedule, times, running, pc, given>>
      /\ slice' = [h \in Harts |-> IF pc[h] = "loop" THEN NoSlice
           ELSE [slice[h] EXCEPT !.time = slice[h].time - N_QUANTUM,
                                 !.timeout = Past(slice[h].timeout - FRAME)]]
      /\ mtimecmp' = [h \in Harts |-> Past(mtimecmp[h] - FRAME)]
      /\ timeout' = [p \in Procs |-> Past(timeout[p] - FRAME)]
      /\ due' = [h \in Harts |-> due[h] - N_QUANTUM]
  BY DEF Tick, From
<1>3. (FRAME \in Nat \ {0} /\ now + 1 = FRAME) \/ Harts = {}
  BY AtFrameEnd, TicksTyped
<1>4. \A t \in Instant : Past(t - FRAME) \in Instant
  <2>1. ASSUME NEW t \in Instant PROVE t - FRAME \in -2 * FRAME - SCHEDULER_TICKS .. FRAME
    BY <2>1, TicksTyped DEF Instant
  <2> QED
    BY <2>1, PastOf, TicksTyped
<1>5. ASSUME NEW h \in Harts, pc[h] # "loop"
      PROVE  /\ slice'[h].time = slice[h].time - N_QUANTUM /\ slice'[h].proc = slice[h].proc
             /\ slice'[h].length = slice[h].length /\ slice[h].time \in 0 .. N_QUANTUM
             /\ slice'[h].timeout = Past(slice[h].timeout - FRAME)
             /\ slice'[h] \in [time : -N_QUANTUM .. N_QUANTUM, proc : Procs,
                               length : 0 .. N_QUANTUM, timeout : Instant]
  <2>1. slice[h] \in [time : -N_QUANTUM .. N_QUANTUM, proc : Procs,
                      length : 0 .. N_QUANTUM, timeout : Instant]
    BY <1>1, HartTyped
  <2>2. slice'[h] = [slice[h] EXCEPT !.time = slice[h].time - N_QUANTUM,
                                     !.timeout = Past(slice[h].timeout - FRAME)]
    BY <1>2, <1>5
  <2>3. slice[h].time \in 0 .. N_QUANTUM
    <3>1. pc[h] \in Reading \/ pc[h] \in Serving
      BY <1>1, <1>5 DEF TypeOK, Labels, Reading, Serving
    <3>2. pc[h] \in Reading => slice[h].time = N_QUANTUM
      BY AtFrameEnd
    <3>3. pc[h] \in Serving => slice[h].time \in 0 .. N_QUANTUM
      BY AtFrameEnd
    <3> QED
      BY <3>1, <3>2, <3>3
  <2>4. slice[h].time - N_QUANTUM \in -N_QUANTUM .. N_QUANTUM
    BY <2>3
  <2>5. slice[h].timeout \in Instant
    BY <2>1
  <2>6. Past(slice[h].timeout - FRAME) \in Instant
    BY <1>4, <2>5
  <2> QED
    BY <2>1, <2>2, <2>3, <2>4, <2>6
<1>6. TypeOK'
  <2>1. now' \in 0 .. FRAME - 1
    <3>1. now' = 0 /\ FRAME \in Nat \ {0}
      BY <1>2, TicksTyped
    <3> QED
      BY <3>1
  <2>2. lag' \in [Harts -> 0 .. KERNEL_TICKS]
    <3>1. lag' = [g \in Harts |-> lag'[g]]
      BY DEF Tick
    <3> QED
      BY <1>1, <3>1, Passing
  <2>3. slice' \in [Harts -> [time : -N_QUANTUM .. N_QUANTUM, proc : Procs,
                              length : 0 .. N_QUANTUM, timeout : Instant]]
    <3>1. ASSUME NEW h \in Harts
          PROVE  slice'[h] \in [time : -N_QUANTUM .. N_QUANTUM, proc : Procs,
                                length : 0 .. N_QUANTUM, timeout : Instant]
      <4>1. CASE pc[h] # "loop"
        BY <1>5, <4>1
      <4>2. CASE pc[h] = "loop"
        <5>1. slice'[h] = NoSlice
          BY <1>2, <4>2
        <5>2. 0 \in Instant
          BY TicksTyped DEF Instant
        <5> QED
          BY <5>1, <5>2 DEF NoSlice
      <4> QED
        BY <4>1, <4>2
    <3>2. slice' = [h \in Harts |-> slice'[h]]
      BY <1>2
    <3> QED
      BY <3>1, <3>2
  <2>4. mtimecmp' \in [Harts -> Instant] /\ timeout' \in [Procs -> Instant]
    BY <1>1, <1>2, <1>4 DEF TypeOK
  <2>5. due' \in [Harts -> -N_QUANTUM .. 2 * N_QUANTUM + 1]
    <3>1. ASSUME NEW h \in Harts PROVE due[h] - N_QUANTUM \in -N_QUANTUM .. 2 * N_QUANTUM + 1
      <4>1. due[h] \in -N_QUANTUM .. 2 * N_QUANTUM + 1
        BY <1>1 DEF TypeOK
      <4>2. due[h] >= 0
        BY AtFrameEnd
      <4> QED
        BY <4>1, <4>2
    <3> QED
      BY <1>2, <3>1
  <2> QED
    BY <1>1, <1>2, <2>1, <2>2, <2>3, <2>4, <2>5 DEF TypeOK
<1>7. Tiled'
  BY <1>1, <1>2 DEF Tiled
<1>8. ASSUME NEW h \in Harts PROVE Timed(h)'
  <2>1. Timed(h) /\ Sized(h)
    BY DEF IInv
  <2>2. /\ now + 1 = FRAME /\ pc[h] # "user" /\ pc'[h] = pc[h] /\ due'[h] = due[h] - N_QUANTUM
        /\ mtimecmp'[h] = Past(mtimecmp[h] - FRAME)
    BY <1>2, AtFrameEnd
  <2>3. /\ now \in Int /\ FRAME \in Int /\ Begun(h) \in Int /\ due[h] \in Int /\ mtimecmp[h] \in Int
        /\ slice[h].time \in Int /\ slice[h].length \in Int /\ slice[h].timeout \in Int
        /\ Over(slice[h]) \in Int /\ Ticks(slice[h].time) \in Int /\ Ticks(due[h]) \in Int
        /\ lag'[h] \in Int
    BY <1>1, HartTyped, TicksTyped, Passing
  <2>4. Begun(h)' = 0 - lag'[h] /\ Begun(h)' \in Int
    <3>1. now' = 0
      BY <1>2
    <3> QED
      BY <2>3, <3>1 DEF Begun
  <2>5. \/ Begun(h)' = Begun(h) - FRAME
        \/ pc[h] = "wait" /\ Begun(h)' = 0 /\ FRAME <= mtimecmp[h]
    <3>1. \/ pc[h] \in {"user", "wait"} /\ lag'[h] = 0 /\ now + 1 <= mtimecmp[h]
          \/ pc[h] # "user" /\ now + 1 - lag'[h] = Begun(h)
      BY <1>1, Passing
    <3> QED
      BY <2>2, <2>3, <2>4, <3>1
  <2>6. Ticks(due'[h]) = Ticks(due[h]) - FRAME
    BY <2>2, <2>3, TicksShift
  <2>7. CASE pc[h] = "loop"
    <3>1. Begun(h)' = Begun(h) - FRAME
      BY <2>5, <2>7
    <3>2. Begun(h) + KERNEL_TICKS < Ticks(due[h])
      BY <2>1, <2>7 DEF Timed, From
    <3>3. Begun(h)' + KERNEL_TICKS < Ticks(due'[h])
      BY <2>3, <2>6, <3>1, <3>2
    <3> QED
      BY <2>2, <2>7, <3>3 DEF Timed, From, Reading, Serving
  <2>8. CASE pc[h] # "loop"
    <3> DEFINE s == slice[h]
               r == slice'[h]
    <3>1. /\ r.time = s.time - N_QUANTUM /\ r.length = s.length /\ s.time \in 0 .. N_QUANTUM
          /\ r.timeout = Past(s.timeout - FRAME)
      BY <1>5, <2>8
    <3>2. Ticks(r.time) = Ticks(s.time) - FRAME /\ Over(r) = Over(s) - FRAME
      <4>1. s.time + s.length \in Int /\ r.time + r.length = (s.time + s.length) - N_QUANTUM
        BY <2>3, <3>1
      <4>2. Ticks(r.time + r.length) = Ticks(s.time + s.length) - FRAME
        BY <4>1, TicksShift
      <4> QED
        BY <2>3, <3>1, <4>2, TicksShift DEF Over
    <3>3. (slice[h].time)' = r.time /\ Over(slice[h])' = Over(r) /\ Ticks(slice[h].time)' = Ticks(r.time)
      BY DEF Over
    <3> HIDE DEF s, r
    <3>4. Past(mtimecmp[h] - FRAME) \in Int /\ mtimecmp[h] - FRAME <= Past(mtimecmp[h] - FRAME)
          /\ (Past(mtimecmp[h] - FRAME) = mtimecmp[h] - FRAME
              \/ (mtimecmp[h] - FRAME < -SCHEDULER_TICKS
                  /\ Past(mtimecmp[h] - FRAME) = -SCHEDULER_TICKS))
      BY <2>3, PastOf
    <3>5. CASE pc[h] \in Reading
      <4>1. s.time = N_QUANTUM /\ Begun(h) < Ticks(s.time) /\ s.time < due[h]
        BY <2>1, <3>5, AtFrameEnd DEF Timed, s
      <4>2. r.time = 0 /\ r.time < due'[h]
        BY <2>2, <2>3, <3>1, <4>1
      <4>3. Begun(h)' < Ticks(r.time)
        <5>1. Begun(h)' = Begun(h) - FRAME
          BY <2>5, <3>5 DEF Reading
        <5> QED
          BY <2>3, <3>2, <4>1, <5>1 DEF s
      <4>4. pc[h] = "acquire" => r.timeout + KERNEL_TICKS < Over(r)
        <5> SUFFICES ASSUME pc[h] = "acquire" PROVE r.timeout + KERNEL_TICKS < Over(r)
          OBVIOUS
        <5>1. s.timeout + KERNEL_TICKS < Over(s)
          BY <2>1 DEF Timed, From, s
        <5>2. Over(r) >= 0
          <6>1. r.time + r.length \in Int /\ 0 <= r.time + r.length
            <7>1. s.length \in 0 .. N_QUANTUM
              BY <1>1 DEF TypeOK, s
            <7> QED
              BY <3>1, <4>2, <7>1
          <6> QED
            BY <6>1, TicksAtMost, TicksTyped DEF Over
        <5>3. r.timeout = s.timeout - FRAME \/ r.timeout = -SCHEDULER_TICKS
          BY <2>3, <3>1, PastOf DEF s
        <5> QED
          BY <2>3, <3>2, <5>1, <5>2, <5>3 DEF s
      <4>5. r.time \in 0 .. N_QUANTUM /\ pc'[h] = pc[h]
        BY <2>2, <4>2
      <4> QED
        BY <3>3, <3>5, <4>2, <4>3, <4>4, <4>5 DEF Timed, From, Reading, Serving, r
    <3>6. CASE pc[h] \in Serving
      <4>1. Over(s) >= FRAME /\ Over(s) \in Int /\ s.time + s.length <= due[h]
        BY <2>1, <2>3, <3>6, AtFrameEnd DEF s, Timed
      <4>2. r.time + r.length <= due'[h]
        BY <2>2, <2>3, <3>1, <4>1 DEF s
      <4>3. CASE pc[h] = "wait"
        <5>1. /\ Ticks(s.time) <= mtimecmp[h] /\ mtimecmp[h] + KERNEL_TICKS < Over(s)
              /\ Begun(h) <= mtimecmp[h]
          BY <2>1, <4>3 DEF Timed, From, s
        <5>2. /\ Ticks(r.time) <= mtimecmp'[h] /\ mtimecmp'[h] + KERNEL_TICKS < Over(r)
          BY <2>2, <2>3, <3>2, <3>4, <4>1, <5>1 DEF s
        <5>3. Begun(h)' <= mtimecmp[h] - FRAME
          BY <2>3, <2>4, <2>5, <5>1
        <5>4. Begun(h)' <= mtimecmp'[h]
          BY <2>2, <2>3, <2>4, <3>4, <5>3
        <5> QED
          BY <2>2, <3>3, <4>2, <4>3, <5>2, <5>4 DEF Timed, From, Reading, Serving, r
      <4>4. CASE pc[h] = "resume"
        <5>1. /\ Ticks(s.time) <= now /\ mtimecmp[h] = Over(s) - SCHEDULER_TICKS
              /\ Begun(h) < mtimecmp[h]
          BY <2>1, <4>4 DEF Timed, From, s
        <5>2. mtimecmp'[h] = mtimecmp[h] - FRAME
          BY <2>2, <2>3, <3>4, <4>1, <5>1
        <5>3. Begun(h)' = Begun(h) - FRAME
          BY <2>5, <4>4
        <5>4. Ticks(r.time) <= now' /\ mtimecmp'[h] = Over(r) - SCHEDULER_TICKS
              /\ Begun(h)' < mtimecmp'[h]
          <6>1. now' = 0 /\ Ticks(s.time) <= now
            BY <1>2, <5>1
          <6> QED
            BY <2>2, <2>3, <3>2, <4>1, <5>1, <5>2, <5>3, <6>1 DEF s
        <5> QED
          BY <2>2, <3>3, <4>2, <4>4, <5>4 DEF Timed, From, Reading, Serving, r
      <4>5. CASE pc[h] = "yield"
        <5>1. Begun(h) + KERNEL_TICKS < Over(s)
          BY <2>1, <4>5 DEF Timed, From, s
        <5>2. Begun(h)' = Begun(h) - FRAME
          BY <2>5, <4>5
        <5>3. Begun(h)' + KERNEL_TICKS < Over(r)
          BY <2>3, <3>2, <4>1, <5>1, <5>2
        <5> QED
          BY <2>2, <3>3, <4>2, <4>5, <5>3 DEF Timed, From, Reading, Serving, r
      <4> QED
        BY <2>2, <3>6, <4>3, <4>4, <4>5 DEF Serving
    <3> QED
      BY <1>1, <2>8, <3>5, <3>6 DEF TypeOK, Labels, Reading, Serving
  <2> QED
    BY <2>7, <2>8
<1>9. ASSUME NEW h \in Harts PROVE Sized(h)' /\ Offered(h)'
  <2>1. Sized(h) /\ Offered(h) /\ pc'[h] = pc[h]
    BY <1>2 DEF IInv
  <2>2. CASE pc[h] = "loop"
    BY <2>1, <2>2 DEF Sized, Offered, Chosen, Serving
  <2>3. CASE pc[h] # "loop"
    <3>1. /\ slice'[h].time = slice[h].time - N_QUANTUM /\ slice'[h].proc = slice[h].proc
          /\ slice'[h].length = slice[h].length /\ slice[h].time \in 0 .. N_QUANTUM
      BY <1>5, <2>3
    <3>2. /\ slice[h].time % N_QUANTUM = IF slice[h].time = N_QUANTUM THEN 0 ELSE slice[h].time
          /\ slice'[h].time % N_QUANTUM = IF slice'[h].time = N_QUANTUM THEN 0
               ELSE IF slice'[h].time < 0 THEN slice'[h].time + N_QUANTUM ELSE slice'[h].time
      <4>1. slice[h].time \in -N_QUANTUM .. N_QUANTUM /\ slice'[h].time \in -N_QUANTUM .. N_QUANTUM
            /\ ~ (slice[h].time < 0)
        BY <3>1
      <4> QED
        BY <4>1, FirstQuantum
    <3>3. First(slice[h])' = First(slice[h])
      BY <3>1, <3>2 DEF First
    <3> QED
      BY <1>2, <2>1, <3>1, <3>3 DEF Sized, Offered
  <2> QED
    BY <2>2, <2>3
<1> QED
  BY <1>6, <1>7, <1>8, <1>9 DEF IInv

----------------------------------------------------------------------------
LEMMA NextOK ==
  ASSUME IInv, [Next]_vars
  PROVE  IInv'
<1>1. CASE Tick
  BY <1>1, TickWithinOK, TickOverOK
<1>2. ASSUME NEW h \in Harts, KernelStep(h) PROVE IInv'
  BY <1>2, ReadTimeOK, ReadOwnEntryOK, ReadLowerEntriesOK, ReadTimeoutOK, AcquireOK,
     WaitOverOK, ResumeOK, TimerOK, ReleaseOK DEF KernelStep
<1>3. ASSUME NEW h \in Harts, Yield(h) \/ DeriveTime(h) \/ MoveTime(h) PROVE IInv'
  BY <1>3, YieldOK, DeriveTimeOK, MoveTimeOK
<1>4. CASE UNCHANGED vars
  <2>1. TypeOK' /\ Tiled'
    BY <1>4 DEF vars, IInv, TypeOK, Tiled
  <2>2. ASSUME NEW h \in Harts PROVE Timed(h)' /\ Sized(h)' /\ Offered(h)'
    BY <1>4, <2>2 DEF vars, IInv, Timed, Sized, Offered, From, Begun
  <2> QED
    BY <2>1, <2>2 DEF IInv
<1> QED
  BY <1>1, <1>2, <1>3, <1>4 DEF Next

LEMMA Invariance == Spec => []IInv
<1>1. Init => IInv
  BY InitOK
<1>2. IInv /\ [Next]_vars => IInv'
  BY NextOK
<1> QED
  BY <1>1, <1>2, PTL DEF Spec

(* The types of Sched.                                                     *)
THEOREM TypeCorrect == Spec => []TypeOK
<1>1. IInv => TypeOK
  BY DEF IInv
<1> QED
  BY <1>1, Invariance, PTL

(* The process of a hart is in a quantum of the slice that the hart chose  *)
(* (the wait at sched.c:73-81 is over and its timer has not fired), and    *)
(* the schedule gives it that quantum unless it changed hands since.       *)
THEOREM RunsInOwnQuanta == Spec => []RunsInItsQuanta
<1>1. ASSUME IInv, NEW h \in Harts, From(h, "user")
      PROVE  LET q == now \div TICKS
             IN  /\ slice[h].time <= q /\ q < slice[h].time + slice[h].length
                 /\ schedule[h][q].pid = slice[h].proc \/ q \in given[h]
  <2> DEFINE q == now \div TICKS
             s == slice[h]
  <2>1. TypeOK /\ Timed(h) /\ Sized(h) /\ Offered(h) /\ pc[h] = "user"
    BY <1>1 DEF IInv, From
  <2>2. /\ Ticks(s.time) <= now /\ mtimecmp[h] = Over(s) - SCHEDULER_TICKS /\ now <= mtimecmp[h]
    BY <2>1 DEF Timed, From
  <2>3. now \in Nat /\ now < Ticks(N_QUANTUM)
    BY <2>1, TicksTyped DEF TypeOK
  <2>4. /\ s.time \in -N_QUANTUM .. N_QUANTUM /\ s.length \in 0 .. N_QUANTUM
        /\ s.time \in Int /\ s.length \in Int
    BY <2>1 DEF TypeOK
  <2>5. q \in Nat /\ Ticks(q) <= now /\ now < Ticks(q) + TICKS
    BY <2>3, Quantum
  <2> HIDE DEF q
  <2>6. /\ Ticks(s.time) \in Int /\ Over(s) \in Int /\ mtimecmp[h] \in Int /\ Ticks(q) \in Int
    BY <2>1, <2>5, HartTyped, TicksTyped
  <2>7. s.time <= q
    <3>1. ~ (q < s.time)
      <4> SUFFICES ASSUME q < s.time PROVE FALSE
        OBVIOUS
      <4>1. Ticks(q) + TICKS <= Ticks(s.time)
        BY <2>4, <2>5, TicksGrow
      <4> QED
        BY <2>2, <2>3, <2>5, <2>6, <4>1
    <3> QED
      BY <2>4, <2>5, <3>1
  <2>8. q < s.time + s.length
    <3>1. Ticks(q) < Ticks(s.time + s.length)
      <4>1. now < Over(s)
        BY <2>2, <2>3, <2>6
      <4> QED
        BY <2>3, <2>5, <2>6, <4>1 DEF Over
    <3>2. s.time + s.length \in Int
      BY <2>4
    <3> QED
      BY <2>5, <3>1, <3>2, TicksAtMost
  <2>9. q < N_QUANTUM
    <3>1. Ticks(q) < Ticks(N_QUANTUM)
      BY <2>3, <2>5, <2>6, TicksTyped
    <3> QED
      BY <2>5, <3>1, TicksAtMost
  <2>10. First(s) = s.time
    <3>1. s.time < 0 => First(s) = s.time + N_QUANTUM
      BY <2>4, FirstQuantum DEF First
    <3>2. First(s) + s.length <= N_QUANTUM
      BY <2>1 DEF Sized, Chosen, Serving
    <3>3. ~ (s.time < 0)
      BY <2>4, <2>5, <2>8, <3>1, <3>2
    <3> QED
      BY <2>4, <2>5, <2>7, <2>9, <3>3, FirstQuantum DEF First
  <2>11. q \in First(s) .. First(s) + s.length - 1
    BY <2>4, <2>5, <2>7, <2>8, <2>10
  <2>12. schedule[h][q].pid = s.proc \/ q \in given[h]
    BY <2>1, <2>11 DEF Offered, Chosen, Serving
  <2> QED
    BY <2>7, <2>8, <2>12 DEF q
<1>2. IInv => RunsInItsQuanta
  BY <1>1 DEF RunsInItsQuanta
<1> QED
  BY <1>2, Invariance, PTL

(* A slice that has been taken ends with its major frame, whatever became  *)
(* of the capabilities: no entry of sched_update reaches beyond it.        *)
THEOREM SlicesEndWithFrame == Spec => []SliceEndsWithFrame
<1>1. IInv => SliceEndsWithFrame
  BY DEF IInv, Sized, First, Chosen, SliceEndsWithFrame
<1> QED
  BY <1>1, Invariance, PTL

(* With a margin that kernel code does not outlast, a hart comes back to   *)
(* its loop before the quantum after its slice begins.                     *)
THEOREM EveryQuantumOffered == Spec => NoQuantumSkipped
<1>1. ASSUME IInv, [Next]_vars, NEW h \in Harts, From(h, "loop"), pc'[h] = "own"
      PROVE  slice'[h].time <= due[h]
  <2>1. TypeOK /\ Timed(h) /\ pc[h] = "loop"
    BY <1>1 DEF IInv, From
  <2>2. CASE ReadTime(h)
    <3>1. now \div TICKS + 1 <= due[h]
      BY <2>1, ComingQuantum DEF From
    <3>2. slice'[h].time = now \div TICKS + 1
      <4>1. slice' = [slice EXCEPT ![h].time = now \div TICKS + 1]
        BY <2>2 DEF ReadTime
      <4>2. slice'[h] = [slice[h] EXCEPT !.time = now \div TICKS + 1]
        BY <2>1, <4>1 DEF TypeOK
      <4>3. slice[h] \in [time : -N_QUANTUM .. N_QUANTUM, proc : Procs,
                          length : 0 .. N_QUANTUM, timeout : Instant]
        BY <2>1, HartTyped
      <4> QED
        BY <4>2, <4>3
    <3> QED
      BY <3>1, <3>2
  <2>3. CASE ~ ReadTime(h)
    <3>1. ASSUME NEW g \in Harts, g # h,
                 KernelStep(g) \/ Yield(g) \/ DeriveTime(g) \/ MoveTime(g)
          PROVE  pc'[h] = pc[h]
      BY <2>1, <3>1 DEF KernelStep, ReadTime, ReadOwnEntry, ReadLowerEntries, ReadTimeout,
         Acquire, WaitOver, Resume, Timer, Release, Yield, DeriveTime, MoveTime,
         trap_resume_proc, Retry, Goto, TypeOK
    <3>2. ~ (KernelStep(h) \/ Yield(h) \/ DeriveTime(h) \/ MoveTime(h))
      BY <2>1, <2>3 DEF KernelStep, ReadOwnEntry, ReadLowerEntries, ReadTimeout, Acquire,
         WaitOver, Resume, Timer, Release, Yield, DeriveTime, MoveTime, Ecall, From
    <3>3. Tick \/ UNCHANGED vars => pc'[h] = pc[h]
      BY DEF Tick, vars
    <3> QED
      BY <1>1, <2>1, <3>1, <3>2, <3>3 DEF Next
  <2> QED
    BY <2>2, <2>3
<1>2. IInv /\ [Next]_vars =>
        [\A h \in Harts : From(h, "loop") /\ pc'[h] = "own" => slice'[h].time <= due[h]]_vars
  BY <1>1
<1> QED
  BY <1>2, Invariance, PTL DEF Spec, NoQuantumSkipped
=============================================================================
