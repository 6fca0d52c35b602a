----------------------------- MODULE IpcProofs -----------------------------
(***************************************************************************)
(* Proofs about Ipc, for any harts, processes, channels and holders.       *)
(*                                                                         *)
(* The registers change nothing in the way harts hand processes to each    *)
(* other, so what HartsProofs proves holds with them.  That a process finds*)
(* what it was told follows from what is true of its registers at every    *)
(* stage of a call (RegsOK): a message is being stored, the error is not   *)
(* stored yet, or the registers are as told.  The second stage outlives    *)
(* the hart's hold on the process; ParkedOK says that a process that runs  *)
(* again before the error is stored was taken by a supervisor.             *)
(***************************************************************************)
EXTENDS Ipc, HartsProofs

(* Every step of Ipc is a step of Harts, or one that Harts does not see.   *)
LEMMA RegsStep == [RegsNext]_allvars => [Next]_vars
<1> SUFFICES ASSUME [RegsNext]_allvars PROVE [Next]_vars
  OBVIOUS
<1>1. CASE UNCHANGED allvars
  BY <1>1 DEF allvars
<1>2. ASSUME NEW h \in Harts, RegsKernelStep(h) PROVE HartStep(h) \/ UNCHANGED vars
  BY <1>2 DEF RegsKernelStep, StoreMessage, StoreInterrupted, MessageDone, ToldDone,
              AccessDone, OtherStep, HartStep, KernelStep
<1>3. ASSUME NEW h \in Harts, Load(h) \/ Save(h) PROVE HartStep(h)
  BY <1>3 DEF Load, Save, HartStep
<1>4. ASSUME NEW h \in Harts, From(h, "user"), RegsUserStep(h) PROVE HartStep(h)
  <2>1. ASSUME NEW p \in Supervisees[cur[h]], SuspendStep(h, p) \/ Seize(h, p)
        PROVE  UserStep(h)
    BY <2>1 DEF SuspendStep, Seize, UserStep
  <2>2. ASSUME NEW ch \in Channels,
               Receive(h, ch) \/ Send(h, ch) \/ Serve(h, ch) \/ CallServer(h, ch)
        PROVE  UserStep(h)
    BY <2>2 DEF Receive, Send, Serve, CallServer, UserStep
  <2> QED
    BY <1>4, <2>1, <2>2 DEF RegsUserStep, HartStep
<1> QED
  BY <1>1, <1>2, <1>3, <1>4 DEF RegsNext, Next

(* The registers, stored to between the steps of Harts, leave every        *)
(* behaviour of Harts as it is.                                            *)
THEOREM RegistersImplementHarts == RegsSpec => Spec
<1>1. RegsInit => Init
  BY DEF RegsInit
<1> QED
  BY <1>1, RegsStep, PTL DEF RegsSpec, Spec

(* A process that no late release has torn is used by one party at a time, *)
(* its registers included.                                                 *)
THEOREM RegistersExclusive == RegsSpec => []Exclusive
BY RegistersImplementHarts, MutualExclusion, PTL

----------------------------------------------------------------------------
Storing(h, p) == pc[h] \in {"sending", "replying", "calling"} /\ peer[h] = p

Untold(h, p) ==
  /\ cur[h] = p
  /\ \/ pc[h] \in {"calling", "client_wait"}
     \/ pc[h] \in {"client_missed", "client_parked"} /\ stores[h] = 0

AtWork(h, p) ==
  pc[h] \in {"user", "suspend", "resume", "access", "sending"} /\ cur[h] = p

Certain(p) == p \notin torn /\ told[p].a0 # "unsure"

RegsOK(p) ==
  /\ \A h \in Harts : Storing(h, p) =>
       /\ told[p] = Message(cur[h])
       /\ stores[h] = 1 => regs[p].a0 = "ok"
       /\ stores[h] = 2 => regs[p] = told[p]
  /\ \A h \in Harts : Untold(h, p) =>
       told[p] = Plainly("interrupted") /\ regs[p] = Plainly("call")
  /\ (\A h \in Harts : ~Storing(h, p) /\ ~Untold(h, p)) => regs[p] = told[p]
  /\ \A h \in Harts : AtWork(h, p) => told[p] = Plainly("own")

Pends(h, p) == From(h, "client_parked") /\ cur[h] = p /\ stores[h] = 0

ParkedOK(p) ==
  \A h \in Harts : Pends(h, p) =>
    /\ state[p].low \in {WAITING, SUSPENDED, SUSPENDED_BUSY}
    /\ \A g \in Harts : ~(pc[g] \in {"resume", "access"} /\ peer[g] = p)
    /\ \A g \in Harts : Pends(g, p) => g = h

RInv ==
  /\ IInv /\ RegsTypeOK
  /\ \A p \in Procs : Certain(p) => RegsOK(p) /\ ParkedOK(p)

(* A step of hart h leaves the others where they are.                      *)
Alone(h) == \A g \in Harts \ {h} :
  pc'[g] = pc[g] /\ cur'[g] = cur[g] /\ peer'[g] = peer[g] /\ stores'[g] = stores[g]

LEMMA PlainContents ==
  /\ \A a \in {"own", "call", "interrupted", "written"} : Plainly(a) \in Contents({})
  /\ \A a \in {"own", "call", "interrupted", "written", "unsure"} :
       Plainly(a) \in Contents({"unsure"})
  /\ \A p \in Procs : Message(p) \in Contents({})
  /\ \A p \in Procs : Message(p) \in Contents({"unsure"})
BY DEF Contents, Plainly, Message

(* What a process was told tells the kind of it.                           *)
LEMMA KindsDiffer ==
  /\ \A q : Message(q) # Plainly("own") /\ Message(q) # Plainly("interrupted")
  /\ Plainly("own") # Plainly("interrupted")
<1>1. \A q, a : Message(q).a0 = "ok" /\ Plainly(a).a0 = a
  BY DEF Message, Plainly
<1> QED
  BY <1>1

(* What a Tell stores is a content, and certain only if no error pends.    *)
LEMMA SureContents ==
  ASSUME NEW p, NEW r \in Contents({"unsure"})
  PROVE  Sure(p, r) \in Contents({"unsure"})
BY PlainContents DEF Sure

LEMMA RegsInitInv == RegsInit => RInv
<1> SUFFICES ASSUME RegsInit PROVE RInv
  OBVIOUS
<1>1. IInv
  BY InitIInv DEF RegsInit
<1>2. RegsTypeOK
  BY PlainContents DEF RegsInit, RegsTypeOK
<1>3. ASSUME NEW p \in Procs PROVE RegsOK(p) /\ ParkedOK(p)
  BY DEF Init, RegsInit, RegsOK, ParkedOK, Pends, Storing, Untold, AtWork, From
<1> QED
  BY <1>1, <1>2, <1>3 DEF RInv

(* How each action of Ipc sets its variables, with types.                  *)
LEMMA RegsTypeStep ==
  ASSUME IInv, RegsTypeOK, [RegsNext]_allvars PROVE RegsTypeOK'
<1> USE DEF RegsTypeOK, From, Goto, Tell, Keep
<1>0. CASE UNCHANGED allvars
  BY <1>0 DEF allvars, vars, rvars
<1>11. pc \in [Harts -> Labels] /\ stores \in [Harts -> 0 .. 2]
  BY DEF IInv, TypeOK
<1> SUFFICES ASSUME NEW h \in Harts,
                    Load(h) \/ Save(h) \/ RegsKernelStep(h) \/ (From(h, "user") /\ RegsUserStep(h))
             PROVE  RegsTypeOK'
  BY <1>0 DEF RegsNext
<1>1. cur[h] \in Procs \/ From(h, "sched") \/ From(h, "hang")
  BY DEF IInv, TypeOK, Placed, Labels
<1>2. CASE Load(h)
  <2>1. pc[h] = "sched" /\ pc' = [pc EXCEPT ![h] = "user"] /\ stores' = stores
    BY <1>2 DEF Load, SchedStart
  <2>2. regs' \in [Procs -> Contents({})] /\ told' \in [Procs -> Contents({"unsure"})]
    BY <1>2, PlainContents, SureContents DEF Load
  <2> QED
    BY <2>1, <2>2
<1>3. CASE Save(h)
  BY <1>11, <1>3, PlainContents DEF Save, TimerOrYield
<1>4. CASE StoreMessage(h)
  <2>1. /\ peer[h] \in Procs /\ cur[h] \in Procs /\ UNCHANGED <<pc, told>>
        /\ stores[h] \in 0 .. 1 /\ stores' = [stores EXCEPT ![h] = @ + 1]
        /\ pc[h] \in {"sending", "replying", "calling"}
    BY <1>4 DEF StoreMessage, vars, IInv, Placed, Runs, Fills
  <2>2. regs' \in [Procs -> Contents({})]
    BY <1>4, <2>1 DEF StoreMessage, Contents
  <2> QED
    BY <2>1, <2>2
<1>5. CASE StoreInterrupted(h)
  <2>1. /\ cur[h] \in Procs /\ UNCHANGED <<pc, told>> /\ stores' = [stores EXCEPT ![h] = 1]
        /\ pc[h] \in {"client_missed", "client_parked"}
    BY <1>5 DEF StoreInterrupted, vars, IInv, Placed, Runs, Parked
  <2>2. regs' \in [Procs -> Contents({})]
    BY <1>5, <2>1 DEF StoreInterrupted, Contents
  <2> QED
    BY <2>1, <2>2
<1>6. CASE MessageDone(h)
  BY <1>11, <1>6 DEF MessageDone, After, SendDone, ReplyDone, Subscribe
<1>7. CASE ToldDone(h)
  BY <1>7 DEF ToldDone, After, ClientDone
<1>8. CASE AccessDone(h)
  <2>1. regs' \in [Procs -> Contents({})] /\ told' \in [Procs -> Contents({"unsure"})]
    BY <1>8, PlainContents, SureContents DEF AccessDone
  <2>2. pc[h] = "access" /\ stores' = stores /\ \A g \in Harts : g # h => pc'[g] = pc[g]
    BY <1>11, <1>8 DEF AccessDone, SupRelease
  <2> QED
    BY <2>1, <2>2
<1>9. CASE OtherStep(h)
  <2>1. /\ pc[h] \notin {"sending", "replying", "calling", "client_missed", "client_parked"}
        /\ \A g \in Harts : g # h => pc'[g] = pc[g]
    BY <1>11, <1>9 DEF OtherStep, ReleaseCheck, ReleaseAnd, SupSuspendWaiting, SupResume, ServerWait,
                ClientWait, Wait
  <2> QED
    BY <1>9, <2>1 DEF OtherStep, rvars
<1>10. ASSUME From(h, "user"), RegsUserStep(h) PROVE RegsTypeOK'
  <2>1. stores' = stores /\ \A g \in Harts : g # h => pc'[g] = pc[g]
    BY <1>11, <1>10 DEF RegsUserStep, SuspendStep, Seize, Receive, Send, Serve, CallServer, rvars,
                 SupSuspend, SupAcquire, InvokeReceiver, Wait, InvokeSender, InvokeServer,
                 InvokeClient
  <2>2. cur[h] \in Procs
    BY <1>1, <1>10
  <2>3. regs' \in [Procs -> Contents({})]
    BY <1>10, PlainContents
       DEF RegsUserStep, SuspendStep, Seize, Receive, Send, Serve, CallServer, rvars
  <2>4. told' \in [Procs -> Contents({"unsure"})]
    <3>1. ASSUME NEW p \in Supervisees[cur[h]], SuspendStep(h, p) \/ Seize(h, p)
          PROVE  told' \in [Procs -> Contents({"unsure"})]
      BY <2>2, <3>1, SureContents DEF SuspendStep, Seize, rvars
    <3>2. ASSUME NEW ch \in Channels, Receive(h, ch) \/ Send(h, ch)
          PROVE  told' \in [Procs -> Contents({"unsure"})]
      BY <2>2, <3>2, PlainContents, SureContents DEF Receive, Send
    <3>3. ASSUME NEW ch \in Channels, Serve(h, ch)
          PROVE  told' \in [Procs -> Contents({"unsure"})]
      BY <2>2, <3>3, PlainContents, SureContents DEF Serve
    <3>4. ASSUME NEW ch \in Channels, CallServer(h, ch)
          PROVE  told' \in [Procs -> Contents({"unsure"})]
      BY <2>2, <3>4, PlainContents, SureContents DEF CallServer
    <3> QED
      BY <1>10, <3>1, <3>2, <3>3, <3>4 DEF RegsUserStep
  <2> QED
    BY <1>10, <2>1, <2>3, <2>4
<1> QED
  BY <1>2, <1>3, <1>4, <1>5, <1>6, <1>7, <1>8, <1>9, <1>10 DEF RegsKernelStep

----------------------------------------------------------------------------
(* Who may not be at p when nobody uses it and no error pends.             *)
LEMMA Clear ==
  ASSUME NEW p \in Procs, NEW g \in Harts, ~Uses(g, p), ~Pending(p)
  PROVE  ~Storing(g, p) /\ ~Untold(g, p) /\ ~AtWork(g, p)
BY DEF Uses, Running, Filling, Runs, Fills, Pending, Storing, Untold, AtWork, From

LEMMA UsedAlone ==
  ASSUME IInv, NEW p \in Procs \ torn, NEW h \in Harts, Uses(h, p)
  PROVE  \A g \in Harts \ {h} : ~Uses(g, p)
BY DEF IInv, One

LEMMA NotTwice ==
  ASSUME IInv, NEW p \in Procs \ torn, NEW h \in Harts, Running(h, p)
  PROVE  ~Filling(h, p) /\ ~Supervising(h, p) /\ state[p].low \in {RUNNING, RUNNING_THEN_SUSPEND}
BY DEF IInv, WordTellsUser, RUNNING, RUNNING_THEN_SUSPEND, RECEIVING, RECEIVING_THEN_SUSPEND,
       SUSPENDED_BUSY

(* A Tell that leaves a process certain told it just that.                 *)
LEMMA CertainTell ==
  ASSUME NEW p \in Procs, NEW r, told'[p] = Sure(p, r), Certain(p)'
  PROVE  told'[p] = r /\ ~Pending(p)
BY DEF Sure, Plainly, Certain

(* The registers of p stay as they are, and so does its stage.             *)
LEMMA Frame ==
  ASSUME NEW p \in Procs, NEW h \in Harts, Alone(h), RegsOK(p),
         regs'[p] = regs[p], told'[p] = told[p],
         Storing(h, p)' => Storing(h, p) /\ stores'[h] = stores[h] /\ cur'[h] = cur[h],
         Storing(h, p) => Storing(h, p)',
         Untold(h, p)' <=> Untold(h, p),
         AtWork(h, p)' => told[p] = Plainly("own")
  PROVE  RegsOK(p)'
<1>1. \A g \in Harts \ {h} : /\ Storing(g, p)' <=> Storing(g, p)
                             /\ Untold(g, p)' <=> Untold(g, p)
                             /\ AtWork(g, p)' <=> AtWork(g, p)
                             /\ stores'[g] = stores[g] /\ cur'[g] = cur[g]
  BY DEF Alone, Storing, Untold, AtWork
<1>2. \A g \in Harts : Storing(g, p)' =>
        Storing(g, p) /\ stores'[g] = stores[g] /\ cur'[g] = cur[g]
  BY <1>1
<1>3. \A g \in Harts : (Untold(g, p)' <=> Untold(g, p)) /\ (Storing(g, p) => Storing(g, p)')
  BY <1>1
<1>4. \A g \in Harts : AtWork(g, p)' => told[p] = Plainly("own")
  BY <1>1 DEF RegsOK
<1> QED
  BY <1>2, <1>3, <1>4 DEF RegsOK, Message, Plainly

(* p's registers are as told, and nobody is about to change them.          *)
LEMMA Fresh ==
  ASSUME NEW p \in Procs, regs'[p] = told'[p],
         \A g \in Harts : ~Storing(g, p)' /\ ~Untold(g, p)',
         \A g \in Harts : AtWork(g, p)' => told'[p] = Plainly("own")
  PROVE  RegsOK(p)'
BY DEF RegsOK

(* Hart h has just taken p to send it a message.                           *)
LEMMA Begins ==
  ASSUME NEW p \in Procs, NEW h \in Harts, Alone(h), Storing(h, p)',
         \A g \in Harts \ {h} : ~Storing(g, p) /\ ~Untold(g, p) /\ ~AtWork(g, p),
         ~Untold(h, p)', ~AtWork(h, p)',
         told'[p] = Message(cur'[h]), stores'[h] = 0
  PROVE  RegsOK(p)'
<1>1. \A g \in Harts \ {h} : ~Storing(g, p)' /\ ~Untold(g, p)' /\ ~AtWork(g, p)'
  BY DEF Alone, Storing, Untold, AtWork
<1> QED
  BY <1>1 DEF RegsOK

RegsHartStep(h) ==
  Load(h) \/ Save(h) \/ RegsKernelStep(h) \/ (From(h, "user") /\ RegsUserStep(h))

LEMMA StepsAlone ==
  ASSUME IInv, RegsTypeOK, NEW h \in Harts, RegsHartStep(h)
  PROVE  Alone(h) /\ torn \subseteq torn'
<1>1. /\ pc \in [Harts -> Labels] /\ stores \in [Harts -> 0 .. 2]
      /\ cur \in [Harts -> Procs \union {NoProc}] /\ peer \in [Harts -> Procs \union {NoProc}]
  BY DEF IInv, TypeOK, RegsTypeOK
<1> USE <1>1 DEF Alone, Goto, Meet, Part
<1>2. CASE Load(h)
  BY <1>2 DEF Load, SchedStart
<1>3. CASE Save(h)
  BY <1>3 DEF Save, TimerOrYield
<1>4. CASE StoreMessage(h) \/ StoreInterrupted(h)
  BY <1>4 DEF StoreMessage, StoreInterrupted, vars
<1>5. CASE MessageDone(h)
  BY <1>5 DEF MessageDone, After, SendDone, ReplyDone, Subscribe
<1>6. CASE ToldDone(h)
  BY <1>6 DEF ToldDone, After, ClientDone
<1>7. CASE AccessDone(h)
  BY <1>7 DEF AccessDone, SupRelease
<1>8. CASE OtherStep(h)
  BY <1>8 DEF OtherStep, rvars, ReleaseCheck, ReleaseAnd, SupSuspendWaiting, SupResume,
              ServerWait, ClientWait, Wait
<1>9. CASE RegsUserStep(h)
  <2>1. ASSUME NEW q \in Supervisees[cur[h]], SuspendStep(h, q) \/ Seize(h, q)
        PROVE  Alone(h) /\ torn \subseteq torn'
    BY <2>1 DEF SuspendStep, Seize, rvars, SupSuspend, SupAcquire
  <2>2. ASSUME NEW ch \in Channels, Receive(h, ch) \/ Send(h, ch)
        PROVE  Alone(h) /\ torn \subseteq torn'
    BY <2>2 DEF Receive, Send, InvokeReceiver, Wait, InvokeSender
  <2>3. ASSUME NEW ch \in Channels, Serve(h, ch)
        PROVE  Alone(h) /\ torn \subseteq torn'
    BY <2>3 DEF Serve, InvokeServer
  <2>4. ASSUME NEW ch \in Channels, CallServer(h, ch)
        PROVE  Alone(h) /\ torn \subseteq torn'
    BY <2>4 DEF CallServer, InvokeClient
  <2> QED
    BY <1>9, <2>1, <2>2, <2>3, <2>4 DEF RegsUserStep
<1> QED
  BY <1>2, <1>3, <1>4, <1>5, <1>6, <1>7, <1>8, <1>9 DEF RegsHartStep, RegsKernelStep

(* Loading, saving and the steps of the kernel keep the registers right.   *)
LEMMA KernelRegsOK ==
  ASSUME RInv, NEW h \in Harts, Load(h) \/ Save(h) \/ RegsKernelStep(h),
         NEW p \in Procs, Certain(p)'
  PROVE  RegsOK(p)'
<1>1. /\ pc \in [Harts -> Labels] /\ stores \in [Harts -> 0 .. 2]
      /\ cur \in [Harts -> Procs \union {NoProc}] /\ peer \in [Harts -> Procs \union {NoProc}]
      /\ regs \in [Procs -> Contents({})] /\ told \in [Procs -> Contents({"unsure"})]
  BY DEF RInv, IInv, TypeOK, RegsTypeOK
<1>2. Alone(h) /\ p \notin torn
  BY StepsAlone DEF RInv, RegsHartStep, Certain
<1>3. told'[p] = told[p] => Certain(p) /\ RegsOK(p) /\ ParkedOK(p)
  BY <1>2 DEF Certain, RInv
<1>4. \A g \in Harts : Uses(g, p) => \A k \in Harts \ {g} : ~Uses(k, p)
  BY <1>2, UsedAlone DEF RInv
<1> USE <1>1, <1>2 DEF From, Goto, Meet, Part, Keep, Tell
<1>5. CASE Load(h)
  <2>1. PICK q \in Procs : /\ proc_acquire(q) /\ cur' = [cur EXCEPT ![h] = q]
                           /\ pc[h] = "sched" /\ pc' = [pc EXCEPT ![h] = "user"]
                           /\ UNCHANGED <<peer, stores>>
    BY <1>5, HartsAssumption DEF Load, SchedStart
  <2>2. /\ regs' = [regs EXCEPT ![q] = Plainly("own")]
        /\ told' = [told EXCEPT ![q] = Sure(q, Plainly("own"))]
    BY <1>5, <2>1 DEF Load
  <2>3. CASE p = q
    <3>1. told'[p] = Plainly("own") /\ ~Pending(p)
      BY <2>2, <2>3, CertainTell
    <3>2. \A g \in Harts : ~Uses(g, p)
      BY <2>1, <2>3, FreeWord DEF RInv, IInv, proc_acquire, compare_and_set, Plain, Word
    <3>3. \A g \in Harts : ~Storing(g, p) /\ ~Untold(g, p) /\ ~AtWork(g, p)
      BY <3>1, <3>2, Clear
    <3>4. \A g \in Harts : ~Storing(g, p)' /\ ~Untold(g, p)'
      BY <2>1, <3>3 DEF Alone, Storing, Untold
    <3> QED
      BY <2>2, <2>3, <3>1, <3>4, Fresh
  <2>4. CASE p # q
    <3>1. regs'[p] = regs[p] /\ told'[p] = told[p]
      BY <2>2, <2>4
    <3>2. /\ ~Storing(h, p) /\ ~Storing(h, p)' /\ ~Untold(h, p) /\ ~Untold(h, p)'
          /\ ~AtWork(h, p)'
      BY <2>1, <2>4 DEF Storing, Untold, AtWork
    <3> QED
      BY <1>3, <3>1, <3>2, Frame
  <2> QED
    BY <2>3, <2>4
<1>6. CASE Save(h)
  <2>1. /\ pc[h] = "user" /\ pc' = [pc EXCEPT ![h] = "yield"]
        /\ UNCHANGED <<cur, peer, stores, told>>
        /\ regs' = [regs EXCEPT ![cur[h]] = Plainly("own")]
    BY <1>6 DEF Save, TimerOrYield
  <2>2. CASE p = cur[h]
    <3>1. told[p] = Plainly("own")
      BY <1>3, <2>1, <2>2 DEF RegsOK, AtWork
    <3>2. \A g \in Harts : ~Storing(g, p) /\ ~Untold(g, p)
      BY <1>3, <2>1, <3>1, KindsDiffer DEF RegsOK
    <3>3. \A g \in Harts : ~Storing(g, p)' /\ ~Untold(g, p)'
      BY <2>1, <3>2 DEF Alone, Storing, Untold
    <3> QED
      BY <2>1, <2>2, <3>1, <3>3, Fresh
  <2>3. CASE p # cur[h]
    <3>1. regs'[p] = regs[p] /\ told'[p] = told[p]
      BY <2>1, <2>3
    <3>2. /\ ~Storing(h, p) /\ ~Storing(h, p)' /\ ~Untold(h, p) /\ ~Untold(h, p)'
          /\ ~AtWork(h, p)'
      BY <2>1, <2>3 DEF Storing, Untold, AtWork
    <3> QED
      BY <1>3, <3>1, <3>2, Frame
  <2> QED
    BY <2>2, <2>3
<1>7. CASE StoreMessage(h)
  <2>1. /\ pc[h] \in {"sending", "replying", "calling"} /\ UNCHANGED <<pc, cur, peer, told>>
        /\ stores[h] \in 0 .. 1 /\ stores' = [stores EXCEPT ![h] = @ + 1]
    BY <1>7 DEF StoreMessage, vars
  <2>2. CASE p = peer[h]
    <3>1. Storing(h, p) /\ told[p] = Message(cur[h]) /\ (stores[h] = 1 => regs[p].a0 = "ok")
      BY <1>3, <2>1, <2>2 DEF RegsOK, Storing
    <3>2. Filling(h, p)
      BY <2>1, <2>2 DEF Filling, Fills
    <3>3. \A g \in Harts : Storing(g, p)' => g = h
      BY <1>4, <2>1, <3>2 DEF Uses, Filling, Fills, Storing
    <3>4. \A g \in Harts : ~Untold(g, p) /\ ~AtWork(g, p)
      BY <1>3, <2>1, <3>1, KindsDiffer DEF RegsOK
    <3>5. \A g \in Harts : ~Untold(g, p)' /\ ~AtWork(g, p)'
      BY <2>1, <3>4 DEF Untold, AtWork
    <3>6. stores'[h] = 1 => regs'[p].a0 = "ok"
      BY <1>7, <2>1, <2>2 DEF StoreMessage, Contents
    <3>7. stores'[h] = 2 => regs'[p] = Message(cur[h])
      BY <1>7, <2>1, <2>2, <3>1 DEF StoreMessage, Contents, Message
    <3>8. told'[p] = Message(cur'[h]) /\ Storing(h, p)'
      BY <2>1, <3>1 DEF Storing
    <3> QED
      BY <2>1, <3>3, <3>5, <3>6, <3>7, <3>8 DEF RegsOK
  <2>3. CASE p # peer[h]
    <3>1. regs'[p] = regs[p] /\ told'[p] = told[p]
      BY <1>7, <2>1, <2>3 DEF StoreMessage
    <3>2. /\ ~Storing(h, p) /\ ~Storing(h, p)' /\ (Untold(h, p)' <=> Untold(h, p))
          /\ (AtWork(h, p)' => AtWork(h, p))
      BY <2>1, <2>3 DEF Storing, Untold, AtWork
    <3>3. AtWork(h, p)' => told[p] = Plainly("own")
      BY <1>3, <3>1, <3>2 DEF RegsOK
    <3> QED
      BY <1>3, <3>1, <3>2, <3>3, Frame
  <2> QED
    BY <2>2, <2>3
<1>8. CASE StoreInterrupted(h)
  <2>1. /\ pc[h] \in {"client_missed", "client_parked"} /\ UNCHANGED <<pc, cur, peer, told>>
        /\ stores[h] = 0 /\ stores' = [stores EXCEPT ![h] = 1]
        /\ regs' = [regs EXCEPT ![cur[h]] = [regs[cur[h]] EXCEPT !.a0 = "interrupted"]]
    BY <1>8 DEF StoreInterrupted, vars
  <2>2. CASE p = cur[h]
    <3>1. Untold(h, p) /\ told[p] = Plainly("interrupted") /\ regs[p] = Plainly("call")
      BY <1>3, <2>1, <2>2 DEF RegsOK, Untold
    <3>2. \A g \in Harts : ~Storing(g, p) /\ ~AtWork(g, p)
      BY <1>3, <2>1, <3>1, KindsDiffer DEF RegsOK
    <3>3. \A g \in Harts \ {h} : ~Untold(g, p)
      <4>1. CASE pc[h] = "client_missed"
        <5>1. Running(h, p)
          BY <2>2, <4>1 DEF Running, Runs
        <5>2. state[p].low \in {RUNNING, RUNNING_THEN_SUSPEND}
          BY <5>1, NotTwice DEF RInv
        <5>3. \A g \in Harts \ {h} : ~Running(g, p)
          BY <1>4, <5>1 DEF Uses
        <5>4. \A g \in Harts : ~Pends(g, p)
          BY <1>3, <2>1, <5>2 DEF ParkedOK, RUNNING, RUNNING_THEN_SUSPEND, WAITING, SUSPENDED,
                                  SUSPENDED_BUSY
        <5> QED
          BY <5>3, <5>4 DEF Untold, Running, Runs, Pends
      <4>2. CASE pc[h] = "client_parked"
        <5>1. Pends(h, p)
          BY <2>1, <2>2, <4>2 DEF Pends
        <5>2. /\ state[p].low \in {WAITING, SUSPENDED, SUSPENDED_BUSY}
              /\ \A g \in Harts : Pends(g, p) => g = h
          BY <1>3, <2>1, <5>1 DEF ParkedOK
        <5>3. \A g \in Harts : ~Running(g, p)
          BY <5>2, NotTwice DEF RInv, RUNNING, RUNNING_THEN_SUSPEND, WAITING, SUSPENDED,
                                SUSPENDED_BUSY
        <5> QED
          BY <5>2, <5>3 DEF Untold, Running, Runs, Pends
      <4> QED
        BY <2>1, <4>1, <4>2
    <3>4. \A g \in Harts : ~Storing(g, p)' /\ ~Untold(g, p)' /\ ~AtWork(g, p)'
      BY <2>1, <3>2, <3>3 DEF Alone, Storing, Untold, AtWork
    <3>5. regs'[p] = told'[p]
      BY <2>1, <2>2, <3>1 DEF Plainly
    <3> QED
      BY <3>4, <3>5, Fresh
  <2>3. CASE p # cur[h]
    <3>1. regs'[p] = regs[p] /\ told'[p] = told[p]
      BY <2>1, <2>3
    <3>2. /\ ~Storing(h, p) /\ ~Storing(h, p)' /\ ~Untold(h, p) /\ ~Untold(h, p)'
          /\ ~AtWork(h, p)'
      BY <2>1, <2>3 DEF Storing, Untold, AtWork
    <3> QED
      BY <1>3, <3>1, <3>2, Frame
  <2> QED
    BY <2>2, <2>3
<1>9. CASE MessageDone(h)
  <2>1. /\ pc[h] \in {"sending", "replying", "calling"} /\ stores[h] = 2
        /\ stores' = [stores EXCEPT ![h] = 0] /\ UNCHANGED <<cur, regs, told>>
        /\ pc'[h] = IF pc[h] = "sending" THEN "user"
                    ELSE IF pc[h] = "replying" THEN "server_wait" ELSE "client_wait"
    BY <1>9 DEF MessageDone, After, SendDone, ReplyDone, Subscribe
  <2>2. CASE p = peer[h]
    <3>1. Storing(h, p) /\ regs[p] = told[p] /\ told[p] = Message(cur[h])
      BY <1>3, <2>1, <2>2 DEF RegsOK, Storing
    <3>2. Filling(h, p)
      BY <2>1, <2>2 DEF Filling, Fills
    <3>3. \A g \in Harts \ {h} : ~Storing(g, p)
      BY <1>4, <3>2 DEF Uses, Filling, Fills, Storing
    <3>4. \A g \in Harts : ~Untold(g, p) /\ ~AtWork(g, p)
      BY <1>3, <2>1, <3>1, KindsDiffer DEF RegsOK
    <3>5. \A g \in Harts : ~Storing(g, p)' /\ ~Untold(g, p)' /\ ~AtWork(g, p)'
      BY <2>1, <3>3, <3>4 DEF Alone, Storing, Untold, AtWork
    <3> QED
      BY <2>1, <3>1, <3>5, Fresh
  <2>3. CASE p # peer[h]
    <3>1. /\ ~Storing(h, p) /\ ~Storing(h, p)' /\ (Untold(h, p)' <=> Untold(h, p))
          /\ (AtWork(h, p)' => AtWork(h, p))
      BY <2>1, <2>3 DEF Storing, Untold, AtWork
    <3>2. AtWork(h, p)' => told[p] = Plainly("own")
      BY <1>3, <2>1, <3>1 DEF RegsOK
    <3> QED
      BY <1>3, <2>1, <3>1, <3>2, Frame
  <2> QED
    BY <2>2, <2>3
<1>10. CASE ToldDone(h)
  <2>1. /\ pc[h] \in {"client_missed", "client_parked"} /\ pc'[h] \in {"yield", "parked"}
        /\ stores[h] = 1 /\ UNCHANGED <<cur, regs, told>>
    BY <1>10 DEF ToldDone, After, ClientDone
  <2>2. /\ ~Storing(h, p) /\ ~Storing(h, p)' /\ ~Untold(h, p) /\ ~Untold(h, p)'
        /\ ~AtWork(h, p)'
    BY <2>1 DEF Storing, Untold, AtWork
  <2> QED
    BY <1>3, <2>1, <2>2, Frame
<1>11. CASE AccessDone(h)
  <2>1. /\ pc[h] = "access" /\ pc'[h] \in {"user", "hang"} /\ UNCHANGED <<cur, stores>>
    BY <1>11 DEF AccessDone, SupRelease
  <2>2. CASE p = peer[h] /\ regs' = [regs EXCEPT ![peer[h]] = Plainly("written")]
             /\ told' = [told EXCEPT ![peer[h]] = Sure(peer[h], Plainly("written"))]
    <3>1. told'[p] = Plainly("written") /\ regs'[p] = Plainly("written") /\ ~Pending(p)
      BY <2>2, CertainTell
    <3>2. Supervising(h, p) /\ ~Running(h, p) /\ ~Filling(h, p)
      BY <2>1, <2>2, NotTwice DEF RInv, Supervising, Filling, Fills
    <3>3. \A g \in Harts \ {h} : ~Uses(g, p)
      BY <1>4, <3>2 DEF Uses
    <3>4. \A g \in Harts \ {h} : ~Storing(g, p) /\ ~Untold(g, p) /\ ~AtWork(g, p)
      BY <3>1, <3>3, Clear
    <3>5. cur[h] # p
      BY <2>1, <3>2 DEF Running, Runs
    <3>6. \A g \in Harts : ~Storing(g, p)' /\ ~Untold(g, p)' /\ ~AtWork(g, p)'
      BY <2>1, <3>4, <3>5 DEF Alone, Storing, Untold, AtWork
    <3> QED
      BY <3>1, <3>6, Fresh
  <2>3. CASE regs'[p] = regs[p] /\ told'[p] = told[p]
    <3>1. /\ ~Storing(h, p) /\ ~Storing(h, p)' /\ ~Untold(h, p) /\ ~Untold(h, p)'
          /\ (AtWork(h, p)' => AtWork(h, p))
      BY <2>1 DEF Storing, Untold, AtWork
    <3>2. AtWork(h, p)' => told[p] = Plainly("own")
      BY <1>3, <2>3, <3>1 DEF RegsOK
    <3> QED
      BY <1>3, <2>3, <3>1, <3>2, Frame
  <2> QED
    BY <1>11, <2>2, <2>3 DEF AccessDone
<1>12. CASE OtherStep(h)
  <2>1. /\ UNCHANGED <<regs, stores, told>>
        /\ pc[h] \in {"yield", "yield_and", "parked", "parked_and", "suspend", "resume",
                      "server_wait", "client_wait"}
    BY <1>12 DEF OtherStep, rvars, ReleaseCheck, ReleaseAnd, SupSuspendWaiting, SupResume,
                 ServerWait, ClientWait
  <2>2. /\ ~Storing(h, p)' /\ (Untold(h, p)' <=> Untold(h, p)) /\ (AtWork(h, p)' => AtWork(h, p))
    <3>1. CASE ClientWait(h)
      <4>1. pc[h] = "client_wait" /\ pc'[h] \in {"client_missed", "client_parked"} /\ cur' = cur
        BY <3>1 DEF ClientWait, Wait
      <4>2. stores[h] = 0
        BY <4>1 DEF RInv, RegsTypeOK
      <4> QED
        BY <2>1, <4>1, <4>2 DEF Storing, Untold, AtWork
    <3>2. CASE SupSuspendWaiting(h) \/ SupResume(h)
      <4>1. pc[h] \in {"suspend", "resume"} /\ pc'[h] = "user" /\ cur' = cur
        BY <3>2 DEF SupSuspendWaiting, SupResume
      <4> QED
        BY <4>1 DEF Storing, Untold, AtWork
    <3>3. CASE ServerWait(h) \/ ReleaseCheck(h) \/ ReleaseAnd(h)
      <4>1. /\ pc[h] \in {"server_wait", "yield", "yield_and", "parked", "parked_and"}
            /\ pc'[h] \in {"yield", "parked", "sched", "yield_and", "parked_and"}
        BY <3>3 DEF ServerWait, Wait, ReleaseCheck, ReleaseAnd
      <4> QED
        BY <4>1 DEF Storing, Untold, AtWork
    <3> QED
      BY <1>12, <3>1, <3>2, <3>3 DEF OtherStep
  <2>3. ~Storing(h, p) /\ (AtWork(h, p)' => told[p] = Plainly("own"))
    BY <1>3, <2>1, <2>2 DEF RegsOK, Storing
  <2> QED
    BY <1>3, <2>1, <2>2, <2>3, Frame
<1> QED
  BY <1>5, <1>6, <1>7, <1>8, <1>9, <1>10, <1>11, <1>12 DEF RegsKernelStep

(* A step that changes neither p's registers nor what hart h does to them. *)
LEMMA Stays ==
  ASSUME RInv, NEW p \in Procs, NEW h \in Harts, Alone(h), Certain(p)', torn \subseteq torn',
         regs'[p] = regs[p], told'[p] = told[p],
         ~Storing(h, p), ~Storing(h, p)', ~Untold(h, p), ~Untold(h, p)',
         AtWork(h, p)' => AtWork(h, p)
  PROVE  RegsOK(p)'
<1>1. RegsOK(p)
  BY DEF RInv, Certain
<1>2. AtWork(h, p)' => told[p] = Plainly("own")
  BY <1>1 DEF RegsOK
<1> QED
  BY <1>1, <1>2, Frame

(* Invocations keep the registers right.                                   *)
LEMMA UserRegsOK ==
  ASSUME RInv, NEW h \in Harts, From(h, "user"), RegsUserStep(h),
         NEW p \in Procs, Certain(p)'
  PROVE  RegsOK(p)'
<1>1. /\ pc \in [Harts -> Labels] /\ stores \in [Harts -> 0 .. 2]
      /\ cur \in [Harts -> Procs \union {NoProc}] /\ peer \in [Harts -> Procs \union {NoProc}]
      /\ regs \in [Procs -> Contents({})] /\ told \in [Procs -> Contents({"unsure"})]
  BY DEF RInv, IInv, TypeOK, RegsTypeOK
<1>2. Alone(h) /\ torn \subseteq torn' /\ p \notin torn
  BY StepsAlone DEF RInv, RegsHartStep, Certain
<1>3. cur[h] \in Procs /\ Running(h, cur[h])
  BY DEF RInv, IInv, Placed, Running, Runs, From
<1>4. ~Storing(h, p) /\ ~Untold(h, p) /\ (AtWork(h, p) <=> p = cur[h])
  BY DEF From, Storing, Untold, AtWork
<1>5. stores[h] = 0
  BY DEF RInv, RegsTypeOK, From
<1>6. p = cur[h] => \A g \in Harts \ {h} : ~Uses(g, p)
  BY <1>2, <1>3, UsedAlone DEF RInv, Uses
<1>7. state[p].low = WAITING => p # cur[h] /\ \A g \in Harts : ~Uses(g, p)
  BY <1>2, <1>3, FreeWord DEF RInv, IInv, Uses
<1>8. ~Pending(p) => \A g \in Harts : ~Uses(g, p) => ~Storing(g, p) /\ ~Untold(g, p) /\ ~AtWork(g, p)
  BY Clear
<1> USE <1>1, <1>2, <1>3 DEF From, Goto, Meet, Part, Keep, Tell
(* The caller leaves its arguments.                                        *)
<1>9. ASSUME p = cur[h], UNCHANGED cur, regs'[p] = Plainly("call"), told'[p] = Plainly("call"),
             ~Pending(p), pc'[h] \notin {"user", "suspend", "resume", "access", "sending",
                                          "calling", "client_wait", "client_missed",
                                          "client_parked"},
             ~Storing(h, p)'
      PROVE  RegsOK(p)'
  <2>1. \A g \in Harts \ {h} : ~Storing(g, p) /\ ~Untold(g, p) /\ ~AtWork(g, p)
    BY <1>6, <1>8, <1>9
  <2>2. \A g \in Harts : ~Storing(g, p)' /\ ~Untold(g, p)' /\ ~AtWork(g, p)'
    BY <1>9, <2>1 DEF Alone, Storing, Untold, AtWork
  <2> QED
    BY <1>9, <2>2, Fresh
(* A waiting process is taken.                                             *)
<1>10. ASSUME state[p].low = WAITING,
              UNCHANGED <<cur, stores>>, told'[p] = Message(cur[h]), ~Pending(p),
              pc'[h] \in {"sending", "replying", "calling"}, peer'[h] = p
       PROVE  RegsOK(p)'
  <2>1. p # cur[h] /\ \A g \in Harts : ~Storing(g, p) /\ ~Untold(g, p) /\ ~AtWork(g, p)
    BY <1>7, <1>8, <1>10 DEF Word
  <2>2. Storing(h, p)' /\ ~Untold(h, p)' /\ ~AtWork(h, p)'
    BY <1>10, <2>1 DEF Storing, Untold, AtWork
  <2> QED
    BY <1>5, <1>10, <2>1, <2>2, Begins
<1>11. ASSUME NEW q \in Supervisees[cur[h]], SuspendStep(h, q) PROVE RegsOK(p)'
  <2>1. pc'[h] \in {"user", "suspend"} /\ UNCHANGED <<cur, regs, told>>
    BY <1>11 DEF SuspendStep, SupSuspend, rvars
  <2>2. ~Storing(h, p)' /\ ~Untold(h, p)' /\ (AtWork(h, p)' => AtWork(h, p))
    BY <1>4, <2>1 DEF Storing, Untold, AtWork
  <2> QED
    BY <1>4, <2>1, <2>2, Stays
<1>12. ASSUME NEW q \in Supervisees[cur[h]], Seize(h, q) PROVE RegsOK(p)'
  <2>1. pc'[h] \in {"resume", "access"} /\ UNCHANGED <<cur, regs>> /\ q \in Procs
        /\ told' = [told EXCEPT ![q] = Sure(q, told[q])]
    BY <1>12, HartsAssumption DEF Seize, SupAcquire
  <2>2. told'[p] = told[p]
    BY <2>1, CertainTell
  <2>3. ~Storing(h, p)' /\ ~Untold(h, p)' /\ (AtWork(h, p)' => AtWork(h, p))
    BY <1>4, <2>1 DEF Storing, Untold, AtWork
  <2> QED
    BY <1>4, <2>1, <2>2, <2>3, Stays
<1>13. ASSUME NEW ch \in Channels, Receive(h, ch) PROVE RegsOK(p)'
  <2>1. /\ pc'[h] \in {"yield", "parked"} /\ UNCHANGED <<cur, peer, stores>>
        /\ regs' = [regs EXCEPT ![cur[h]] = Plainly("call")]
        /\ told' = [told EXCEPT ![cur[h]] = Sure(cur[h], Plainly("call"))]
    BY <1>13 DEF Receive, InvokeReceiver, Wait
  <2>2. ~Storing(h, p)' /\ ~Untold(h, p)' /\ ~AtWork(h, p)'
    BY <2>1 DEF Storing, Untold, AtWork
  <2>3. CASE p = cur[h]
    <3>1. told'[p] = Plainly("call") /\ ~Pending(p)
      BY <2>1, <2>3, CertainTell
    <3> QED
      BY <1>9, <2>1, <2>2, <2>3, <3>1
  <2>4. CASE p # cur[h]
    BY <1>4, <2>1, <2>2, <2>4, Stays
  <2> QED
    BY <2>3, <2>4
<1>14. ASSUME NEW ch \in Channels, Send(h, ch) PROVE RegsOK(p)'
  <2>1. /\ pc'[h] = "sending" /\ peer'[h] = Receiver[ch] /\ UNCHANGED <<cur, regs, stores>>
        /\ Receiver[ch] \in Procs /\ state[Receiver[ch]] = Word(ch, WAITING)
        /\ told' = [told EXCEPT ![Receiver[ch]] = Sure(Receiver[ch], Message(cur[h]))]
    BY <1>14, HartsAssumption DEF Send, InvokeSender, proc_sender_acquire, compare_and_set
  <2>2. CASE p = Receiver[ch]
    <3>1. told'[p] = Message(cur[h]) /\ ~Pending(p)
      BY <2>1, <2>2, CertainTell
    <3>2. state[p].low = WAITING
      BY <2>1, <2>2 DEF Word
    <3> QED
      BY <1>10, <2>1, <2>2, <3>1, <3>2
  <2>3. CASE p # Receiver[ch]
    <3>1. ~Storing(h, p)' /\ ~Untold(h, p)' /\ (AtWork(h, p)' => AtWork(h, p))
      BY <1>4, <2>1, <2>3 DEF Storing, Untold, AtWork
    <3> QED
      BY <1>4, <2>1, <2>3, <3>1, Stays
  <2> QED
    BY <2>2, <2>3
<1>15. ASSUME NEW ch \in Channels, Serve(h, ch) PROVE RegsOK(p)'
  <2>1. /\ pc'[h] \in {"replying", "server_wait"} /\ UNCHANGED <<cur, stores>>
        /\ pc'[h] = "replying" =>
             /\ peer'[h] = client[ch] /\ client[ch] # NoProc
             /\ state[client[ch]] = Word(ch, WAITING)
        /\ regs' = [regs EXCEPT ![cur[h]] = Plainly("call")]
    BY <1>15 DEF Serve, InvokeServer, proc_sender_acquire, compare_and_set
  <2>2. told'[p] = IF p = cur[h] THEN Sure(p, Plainly("call"))
                   ELSE IF pc'[h] = "replying" /\ p = peer'[h] THEN Sure(p, Message(cur[h]))
                   ELSE told[p]
    BY <1>15 DEF Serve
  <2>3. CASE p = cur[h]
    <3>1. told'[p] = Plainly("call") /\ ~Pending(p)
      BY <2>2, <2>3, CertainTell
    <3>2. ~Storing(h, p)'
      BY <1>7, <2>1, <2>3 DEF Storing, Word
    <3> QED
      BY <1>9, <2>1, <2>3, <3>1, <3>2
  <2>4. CASE p # cur[h] /\ pc'[h] = "replying" /\ p = peer'[h]
    <3>1. told'[p] = Message(cur[h]) /\ ~Pending(p)
      BY <2>2, <2>4, CertainTell
    <3>2. state[p].low = WAITING
      BY <2>1, <2>4 DEF Word
    <3> QED
      BY <1>10, <2>1, <2>4, <3>1, <3>2
  <2>5. CASE p # cur[h] /\ ~(pc'[h] = "replying" /\ p = peer'[h])
    <3>1. ~Storing(h, p)' /\ ~Untold(h, p)' /\ ~AtWork(h, p)'
      BY <2>1, <2>5 DEF Storing, Untold, AtWork
    <3>2. regs'[p] = regs[p] /\ told'[p] = told[p]
      BY <2>1, <2>2, <2>5
    <3> QED
      BY <1>4, <3>1, <3>2, Stays
  <2> QED
    BY <2>3, <2>4, <2>5
<1>16. ASSUME NEW ch \in Channels, CallServer(h, ch) PROVE RegsOK(p)'
  <2>1. /\ pc'[h] = "calling" /\ peer'[h] = Receiver[ch] /\ UNCHANGED <<cur, stores>>
        /\ Receiver[ch] \in Procs /\ state[Receiver[ch]] = Word(ch, WAITING)
        /\ regs' = [regs EXCEPT ![cur[h]] = Plainly("call")]
        /\ told' = [told EXCEPT ![cur[h]] = Sure(cur[h], Plainly("interrupted")),
                                ![Receiver[ch]] = Sure(Receiver[ch], Message(cur[h]))]
    BY <1>16, HartsAssumption DEF CallServer, InvokeClient, proc_sender_acquire, compare_and_set
  <2>2. CASE p = Receiver[ch]
    <3>1. told'[p] = Message(cur[h]) /\ ~Pending(p)
      BY <2>1, <2>2, CertainTell
    <3>2. state[p].low = WAITING
      BY <2>1, <2>2 DEF Word
    <3> QED
      BY <1>10, <2>1, <2>2, <3>1, <3>2
  <2>3. CASE p # Receiver[ch] /\ p = cur[h]
    <3>1. told'[p] = Plainly("interrupted") /\ ~Pending(p)
      <4>1. told'[p] = Sure(p, Plainly("interrupted"))
        BY <2>1, <2>3
      <4> QED
        BY <4>1, CertainTell
    <3>2. \A g \in Harts \ {h} : ~Storing(g, p) /\ ~AtWork(g, p)
      BY <1>6, <1>8, <2>3, <3>1
    <3>3. \A g \in Harts : ~Storing(g, p)' /\ ~AtWork(g, p)'
      BY <2>1, <2>3, <3>2 DEF Alone, Storing, AtWork
    <3>4. Untold(h, p)' /\ regs'[p] = Plainly("call")
      BY <2>1, <2>3 DEF Untold
    <3> QED
      BY <3>1, <3>3, <3>4 DEF RegsOK
  <2>4. CASE p # Receiver[ch] /\ p # cur[h]
    <3>1. ~Storing(h, p)' /\ ~Untold(h, p)' /\ ~AtWork(h, p)'
      BY <2>1, <2>4 DEF Storing, Untold, AtWork
    <3>2. regs'[p] = regs[p] /\ told'[p] = told[p]
      BY <2>1, <2>4
    <3> QED
      BY <1>4, <3>1, <3>2, Stays
  <2> QED
    BY <2>2, <2>3, <2>4
<1> QED
  BY <1>11, <1>12, <1>13, <1>14, <1>15, <1>16 DEF RegsUserStep

----------------------------------------------------------------------------
(* Only a client's wait leaves an error to be stored.                      *)
LEMMA PendsBegins ==
  ASSUME IInv, RegsTypeOK, NEW h \in Harts, RegsHartStep(h), NEW p, Pends(h, p)', ~Pends(h, p)
  PROVE  ClientWait(h) /\ cur[h] = p /\ proc_receiver_wait(p, chan[h]) /\ UNCHANGED told
<1>1. /\ pc \in [Harts -> Labels] /\ stores \in [Harts -> 0 .. 2]
      /\ cur \in [Harts -> Procs \union {NoProc}]
  BY DEF IInv, TypeOK, RegsTypeOK
<1>2. pc'[h] = "client_parked" /\ cur'[h] = p /\ stores'[h] = 0
  BY DEF Pends, From
<1> USE <1>1, <1>2 DEF Goto, From
<1>3. ~Load(h) /\ ~Save(h) /\ ~MessageDone(h) /\ ~ToldDone(h) /\ ~AccessDone(h)
  BY DEF Load, Save, SchedStart, TimerOrYield, MessageDone, SendDone, ReplyDone, Subscribe,
         ToldDone, ClientDone, AccessDone, SupRelease
<1>4. ~StoreMessage(h) /\ ~StoreInterrupted(h)
  BY DEF StoreMessage, StoreInterrupted, vars, Pends
<1>5. ~(From(h, "user") /\ RegsUserStep(h))
  BY DEF RegsUserStep, SuspendStep, SupSuspend, Seize, SupAcquire, Receive, InvokeReceiver, Wait,
         Send, InvokeSender, Serve, InvokeServer, CallServer, InvokeClient
<1>6. OtherStep(h)
  BY <1>3, <1>4, <1>5 DEF RegsHartStep, RegsKernelStep
<1>7. ClientWait(h)
  BY <1>6 DEF OtherStep, ReleaseCheck, ReleaseAnd, SupSuspendWaiting, SupResume, ServerWait, Wait
<1>8. cur[h] = p /\ proc_receiver_wait(p, chan[h])
  BY <1>7 DEF ClientWait, Wait
<1> QED
  BY <1>6, <1>7, <1>8 DEF OtherStep, rvars

(* What a process is to find changes only with certainty if no error       *)
(* pends.                                                                  *)
LEMMA CertainKept ==
  ASSUME RInv, NEW h \in Harts, RegsHartStep(h), NEW p \in Procs, Certain(p)', Pending(p)
  PROVE  Certain(p) /\ told'[p] = told[p]
<1>1. told \in [Procs -> Contents({"unsure"})] /\ p \notin torn
  BY StepsAlone DEF RInv, RegsTypeOK, Certain
<1>2. \A r : told'[p] # Sure(p, r)
  BY CertainTell
<1>3. ASSUME NEW q, NEW r, told' = [told EXCEPT ![q] = Sure(q, r)] PROVE told'[p] = told[p]
  BY <1>1, <1>2, <1>3
<1> USE DEF Tell
<1>4. ASSUME Load(h) \/ Save(h) \/ RegsKernelStep(h) PROVE told'[p] = told[p]
  <2>1. CASE Load(h) \/ AccessDone(h)
    BY <1>3, <2>1 DEF Load, AccessDone
  <2>2. CASE Save(h) \/ StoreMessage(h) \/ StoreInterrupted(h)
    BY <2>2 DEF Save, StoreMessage, StoreInterrupted
  <2>3. CASE MessageDone(h) \/ ToldDone(h) \/ OtherStep(h)
    BY <2>3 DEF MessageDone, ToldDone, After, OtherStep, rvars
  <2> QED
    BY <1>4, <2>1, <2>2, <2>3 DEF RegsKernelStep
<1>5. ASSUME NEW q \in Supervisees[cur[h]], SuspendStep(h, q) \/ Seize(h, q)
      PROVE  told'[p] = told[p]
  BY <1>3, <1>5 DEF SuspendStep, Seize, rvars
<1>6. ASSUME NEW ch \in Channels, Receive(h, ch) \/ Send(h, ch) PROVE told'[p] = told[p]
  BY <1>3, <1>6 DEF Receive, Send
<1>7. ASSUME NEW ch \in Channels, Serve(h, ch) PROVE told'[p] = told[p]
  BY <1>1, <1>2, <1>7 DEF Serve
<1>8. ASSUME NEW ch \in Channels, CallServer(h, ch) PROVE told'[p] = told[p]
  <2>1. told' = [told EXCEPT ![cur[h]] = Sure(cur[h], Plainly("interrupted")),
                             ![Receiver[ch]] = Sure(Receiver[ch], Message(cur[h]))]
    BY <1>8 DEF CallServer
  <2>2. p # Receiver[ch]
    <3>1. p = Receiver[ch] => told'[p] = Sure(p, Message(cur[h]))
      BY <1>1, <2>1
    <3> QED
      BY <1>2, <3>1
  <2>3. p # cur[h]
    <3>1. p = cur[h] => told'[p] = Sure(p, Plainly("interrupted"))
      BY <1>1, <2>1, <2>2
    <3> QED
      BY <1>2, <3>1
  <2> QED
    BY <1>1, <2>1, <2>2, <2>3
<1>9. told'[p] = told[p]
  BY <1>4, <1>5, <1>6, <1>7, <1>8 DEF RegsHartStep, RegsUserStep
<1> QED
  BY <1>1, <1>9 DEF Certain

(* While it is to be stored, the process stays where its wait or its       *)
(* supervisor put it, unless somebody takes it.                            *)
LEMMA PendingWord ==
  ASSUME RInv, NEW h \in Harts, RegsHartStep(h), NEW p \in Procs, Certain(p)', Pending(p)
  PROVE  /\ state'[p].low \in {WAITING, SUSPENDED, SUSPENDED_BUSY}
         /\ \A g \in Harts : ~(pc'[g] \in {"resume", "access"} /\ peer'[g] = p)
<1>1. /\ pc \in [Harts -> Labels] /\ peer \in [Harts -> Procs \union {NoProc}]
      /\ state \in [Procs -> Words]
      /\ regs \in [Procs -> Contents({})] /\ told \in [Procs -> Contents({"unsure"})]
  BY DEF RInv, IInv, TypeOK, StateTypeOK, RegsTypeOK
<1>2. Alone(h) /\ torn \subseteq torn' /\ p \notin torn /\ p \notin torn'
  BY StepsAlone DEF RInv, Certain
<1>3. \A r : told'[p] # Sure(p, r)
  BY CertainTell
<1> DEFINE Held == state[p].low \in {WAITING, SUSPENDED, SUSPENDED_BUSY}
<1>4. Held /\ \A g \in Harts : ~(pc[g] \in {"resume", "access"} /\ peer[g] = p)
  BY CertainKept DEF RInv, ParkedOK, Pending, Pends
<1>5. \A g \in Harts : ~Running(g, p) /\ ~Filling(g, p)
  BY <1>2, <1>4 DEF RInv, IInv, WordTellsUser, WAITING, SUSPENDED, SUSPENDED_BUSY, RUNNING,
              RUNNING_THEN_SUSPEND, RECEIVING, RECEIVING_THEN_SUSPEND
(* Most steps leave the word of p alone.                                   *)
<1>6. ASSUME told'[p] = told[p], state'[p] = state[p],
             pc'[h] \in {"resume", "access"} => pc'[h] = pc[h] /\ peer'[h] = peer[h]
      PROVE  /\ state'[p].low \in {WAITING, SUSPENDED, SUSPENDED_BUSY}
             /\ \A g \in Harts : ~(pc'[g] \in {"resume", "access"} /\ peer'[g] = p)
  BY <1>2, <1>4, <1>6 DEF Alone
<1> USE <1>1 DEF From, Goto, Meet, Part, Store, compare_and_set
<1>7. CASE Load(h)
  <2>1. PICK q \in Procs : /\ proc_acquire(q) /\ cur' = [cur EXCEPT ![h] = q]
                           /\ pc' = [pc EXCEPT ![h] = "user"]
    BY <1>7, HartsAssumption DEF Load, SchedStart
  <2>2. h \in DOMAIN cur
    BY DEF RInv, IInv, TypeOK
  <2>3. told' = [told EXCEPT ![q] = Sure(q, Plainly("own"))]
    BY <1>7, <2>1, <2>2 DEF Load, Tell
  <2>4. q # p
    BY <1>3, <2>3
  <2> QED
    BY <1>6, <2>1, <2>3, <2>4 DEF proc_acquire
<1>8. CASE Save(h)
  BY <1>6, <1>8 DEF Save, TimerOrYield
<1>9. CASE StoreMessage(h) \/ StoreInterrupted(h)
  BY <1>6, <1>9 DEF StoreMessage, StoreInterrupted, vars
<1>10. CASE MessageDone(h) \/ ToldDone(h)
  <2>1. /\ told' = told /\ pc[h] \in Fills /\ pc'[h] \notin {"resume", "access"}
        /\ \/ state' = state
           \/ state' = [state EXCEPT ![peer[h]] = AndSuspended(state[peer[h]])]
    BY <1>10 DEF MessageDone, ToldDone, After, SendDone, ReplyDone, Subscribe, ClientDone,
                 proc_sender_release, Fills
  <2>2. peer[h] # p
    BY <1>4, <1>5, <2>1 DEF Filling
  <2> QED
    BY <1>6, <2>1, <2>2
<1>11. CASE AccessDone(h)
  <2>1. /\ pc[h] = "access" /\ pc'[h] \notin {"resume", "access"}
        /\ \/ state' = state \/ state' = [state EXCEPT ![peer[h]] = Plain(SUSPENDED)]
    BY <1>11 DEF AccessDone, SupRelease, proc_supervisor_release
  <2>2. told' = told \/ told' = [told EXCEPT ![peer[h]] = Sure(peer[h], Plainly("written"))]
    BY <1>11 DEF AccessDone, Tell
  <2>3. told'[p] = told[p]
    BY <1>3, <2>2
  <2>4. peer[h] # p
    BY <1>4, <2>1, <2>3
  <2> QED
    BY <1>6, <2>1, <2>3, <2>4
<1>12. CASE OtherStep(h)
  <2>1. told' = told
    BY <1>12 DEF OtherStep, rvars
  <2>2. CASE ReleaseCheck(h)
    BY <1>6, <2>1, <2>2 DEF ReleaseCheck
  <2>3. CASE ReleaseAnd(h)
    <3>1. /\ pc[h] \in {"yield_and", "parked_and"} /\ pc'[h] = "sched"
          /\ state' = [state EXCEPT ![cur[h]] = AndSuspended(state[cur[h]])]
          /\ pc[h] = "parked_and" /\ AndSuspended(state[cur[h]]) # state[cur[h]] => cur[h] \in torn'
      BY <2>3 DEF ReleaseAnd, proc_release_and
    <3>2. state'[p] = state[p]
      BY <1>2, <1>4, <1>5, <2>1, <3>1 DEF Running, Runs
    <3> QED
      BY <1>6, <2>1, <3>1, <3>2
  <2>4. CASE SupSuspendWaiting(h)
    <3>1. /\ pc'[h] = "user" /\ state' = [state EXCEPT ![peer[h]] = Plain(SUSPENDED)]
      BY <2>4 DEF SupSuspendWaiting, proc_supervisor_suspend_wait
    <3>2. state'[p].low \in {state[p].low, SUSPENDED}
      BY <3>1 DEF Plain, Word
    <3> QED
      BY <1>2, <1>4, <2>1, <3>1, <3>2 DEF Alone
  <2>5. CASE SupResume(h)
    <3>1. /\ pc[h] = "resume" /\ pc'[h] = "user"
          /\ state' = [state EXCEPT ![peer[h]] = Plain(READY)]
      BY <2>5 DEF SupResume, proc_supervisor_resume
    <3>2. peer[h] # p
      BY <1>4, <2>1, <3>1
    <3> QED
      BY <1>6, <2>1, <3>1, <3>2
  <2>6. CASE ServerWait(h) \/ ClientWait(h)
    <3>1. /\ Running(h, cur[h]) /\ pc'[h] \notin {"resume", "access"}
          /\ state' = state \/ state' = [state EXCEPT ![cur[h]] = Word(chan[h], WAITING)]
      BY <2>6 DEF ServerWait, ClientWait, Wait, proc_receiver_wait, Running, Runs
    <3>2. cur[h] # p
      BY <1>4, <1>5, <2>1, <3>1
    <3> QED
      BY <1>6, <2>1, <3>1, <3>2
  <2> QED
    BY <1>12, <2>2, <2>3, <2>4, <2>5, <2>6 DEF OtherStep
<1>13. ASSUME From(h, "user"), NEW q \in Supervisees[cur[h]], SuspendStep(h, q)
       PROVE  /\ state'[p].low \in {WAITING, SUSPENDED, SUSPENDED_BUSY}
              /\ \A g \in Harts : ~(pc'[g] \in {"resume", "access"} /\ peer'[g] = p)
  <2>1. /\ told' = told /\ pc'[h] \notin {"resume", "access"}
        /\ ~HasSuspended(state[q]) /\ state' = [state EXCEPT ![q] = OrSuspended(state[q])]
    BY <1>13 DEF SuspendStep, SupSuspend, rvars, proc_supervisor_suspend_or
  <2>2. CASE q # p
    BY <1>6, <2>1, <2>2
  <2>3. CASE q = p
    <3>1. state[p].low = WAITING
      BY <1>4, <2>1, <2>3 DEF HasSuspended
    <3>2. state'[p].low = SUSPENDED_BUSY
      BY <2>1, <2>3, <3>1 DEF OrSuspended, Word, WAITING, SUSPENDED, SUSPENDED_BUSY
    <3> QED
      BY <1>2, <1>4, <2>1, <3>2 DEF Alone
  <2> QED
    BY <2>2, <2>3
<1>14. ASSUME From(h, "user"), NEW q \in Supervisees[cur[h]], Seize(h, q)
       PROVE  /\ state'[p].low \in {WAITING, SUSPENDED, SUSPENDED_BUSY}
              /\ \A g \in Harts : ~(pc'[g] \in {"resume", "access"} /\ peer'[g] = p)
  <2>1. /\ state' = [state EXCEPT ![q] = Plain(SUSPENDED_BUSY)] /\ peer'[h] = q /\ q \in Procs
        /\ told' = [told EXCEPT ![q] = Sure(q, told[q])]
    <3>1. cur[h] \in Procs
      BY <1>14 DEF RInv, IInv, Placed, Runs
    <3> QED
      BY <1>14, <3>1, HartsAssumption DEF Seize, SupAcquire, proc_supervisor_acquire, Tell
  <2>2. q # p
    BY <1>3, <2>1
  <2>3. state'[p] = state[p] /\ told'[p] = told[p] /\ peer'[h] # p
    BY <2>1, <2>2
  <2> QED
    BY <1>2, <1>4, <2>3 DEF Alone
<1>15. ASSUME From(h, "user"), NEW ch \in Channels,
              Receive(h, ch) \/ Send(h, ch) \/ Serve(h, ch) \/ CallServer(h, ch)
       PROVE  /\ state'[p].low \in {WAITING, SUSPENDED, SUSPENDED_BUSY}
              /\ \A g \in Harts : ~(pc'[g] \in {"resume", "access"} /\ peer'[g] = p)
  <2>0. cur[h] \in Procs
    BY <1>15 DEF RInv, IInv, Placed, Runs
  <2>1. CASE Receive(h, ch)
    <3>1. /\ pc'[h] \notin {"resume", "access"}
          /\ state' = state \/ state' = [state EXCEPT ![cur[h]] = Word(ch, WAITING)]
          /\ told' = [told EXCEPT ![cur[h]] = Sure(cur[h], Plainly("call"))]
      BY <2>1 DEF Receive, InvokeReceiver, Wait, proc_receiver_wait, Tell
    <3>2. cur[h] # p
      BY <1>3, <3>1
    <3> QED
      BY <1>6, <3>1, <3>2
  <2>2. CASE Send(h, ch)
    <3>1. /\ pc'[h] \notin {"resume", "access"}
          /\ state' = [state EXCEPT ![Receiver[ch]] = Word(ch, RECEIVING)]
          /\ told' = [told EXCEPT ![Receiver[ch]] = Sure(Receiver[ch], Message(cur[h]))]
      BY <2>2 DEF Send, InvokeSender, proc_sender_acquire, Tell
    <3>2. Receiver[ch] # p
      BY <1>3, <3>1
    <3> QED
      BY <1>6, <3>1, <3>2
  <2>3. CASE Serve(h, ch)
    <3>1. /\ pc'[h] \in {"replying", "server_wait"}
          /\ \/ state' = state
             \/ /\ pc'[h] = "replying" /\ peer'[h] = client[ch]
                /\ state' = [state EXCEPT ![client[ch]] = Word(ch, RECEIVING)]
      BY <2>3 DEF Serve, InvokeServer, proc_sender_acquire
    <3>2. told'[p] = IF p = cur[h] THEN Sure(p, Plainly("call"))
                     ELSE IF pc'[h] = "replying" /\ p = peer'[h] THEN Sure(p, Message(cur[h]))
                     ELSE told[p]
      BY <2>3 DEF Serve
    <3>3. told'[p] = told[p] /\ ~(pc'[h] = "replying" /\ p = peer'[h])
      BY <1>3, <3>2
    <3> QED
      BY <1>6, <3>1, <3>3
  <2>4. CASE CallServer(h, ch)
    <3>1. /\ pc'[h] \notin {"resume", "access"} /\ Receiver[ch] \in Procs
          /\ state' = [state EXCEPT ![Receiver[ch]] = Word(ch, RECEIVING)]
      BY <2>4, HartsAssumption
         DEF CallServer, InvokeClient, proc_sender_acquire
    <3>2. told' = [told EXCEPT ![cur[h]] = Sure(cur[h], Plainly("interrupted")),
                               ![Receiver[ch]] = Sure(Receiver[ch], Message(cur[h]))]
      BY <2>4 DEF CallServer
    <3>3. Receiver[ch] # p
      BY <1>3, <3>1, <3>2
    <3>4. cur[h] # p
      BY <1>3, <2>0, <3>2, <3>3
    <3>5. told'[p] = told[p]
      BY <3>2, <3>3, <3>4
    <3> QED
      BY <1>6, <3>1, <3>3, <3>5
  <2> QED
    BY <1>15, <2>1, <2>2, <2>3, <2>4
<1> QED
  BY <1>7, <1>8, <1>9, <1>10, <1>11, <1>12, <1>13, <1>14, <1>15
     DEF RegsHartStep, RegsKernelStep, RegsUserStep

LEMMA ParkedStep ==
  ASSUME RInv, NEW h \in Harts, RegsHartStep(h), NEW p \in Procs, Certain(p)'
  PROVE  ParkedOK(p)'
<1>1. Alone(h) /\ torn \subseteq torn' /\ p \notin torn
  BY StepsAlone DEF RInv, Certain
<1>2. \A g \in Harts \ {h} : Pends(g, p)' <=> Pends(g, p)
  BY <1>1 DEF Alone, Pends, From
<1>3. CASE ClientWait(h) /\ cur[h] = p /\ proc_receiver_wait(p, chan[h]) /\ UNCHANGED told
  <2>1. ParkedOK(p) /\ Running(h, p) /\ pc'[h] \in {"client_missed", "client_parked"}
    BY <1>1, <1>3 DEF RInv, Certain, Running, Runs, ClientWait, Wait, From, Goto, IInv, TypeOK
  <2>2. \A g \in Harts : ~Pends(g, p)
    BY <1>1, <2>1, NotTwice
       DEF RInv, ParkedOK, RUNNING, RUNNING_THEN_SUSPEND, WAITING, SUSPENDED, SUSPENDED_BUSY
  <2>3. \A g \in Harts \ {h} : ~Uses(g, p)
    BY <1>1, <2>1, UsedAlone DEF RInv, Uses
  <2>4. \A g \in Harts : ~(pc'[g] \in {"resume", "access"} /\ peer'[g] = p)
    BY <1>1, <2>1, <2>3 DEF Alone, Uses, Supervising
  <2>5. state'[p].low = WAITING
    BY <1>3 DEF proc_receiver_wait, compare_and_set, Word, RInv, IInv, TypeOK, StateTypeOK
  <2> QED
    BY <1>2, <2>2, <2>4, <2>5 DEF ParkedOK
<1>4. CASE ~(ClientWait(h) /\ cur[h] = p /\ proc_receiver_wait(p, chan[h]) /\ UNCHANGED told)
  <2>1. \A g \in Harts : Pends(g, p)' => Pends(g, p)
    BY <1>2, <1>4, PendsBegins DEF RInv
  <2>2. CASE Pending(p)
    <3>1. /\ state'[p].low \in {WAITING, SUSPENDED, SUSPENDED_BUSY}
          /\ \A g \in Harts : ~(pc'[g] \in {"resume", "access"} /\ peer'[g] = p)
      BY <2>2, PendingWord
    <3>2. ParkedOK(p)
      BY <2>2, CertainKept DEF RInv
    <3>3. \A g, k \in Harts : Pends(g, p)' /\ Pends(k, p)' => g = k
      BY <2>1, <3>2 DEF ParkedOK
    <3> QED
      BY <3>1, <3>3 DEF ParkedOK
  <2>3. CASE ~Pending(p)
    BY <2>1, <2>3 DEF Pending, Pends, ParkedOK
  <2> QED
    BY <2>2, <2>3
<1> QED
  BY <1>3, <1>4

----------------------------------------------------------------------------
LEMMA RegsInvStep == RInv /\ [RegsNext]_allvars => RInv'
<1> SUFFICES ASSUME RInv, [RegsNext]_allvars PROVE RInv'
  OBVIOUS
<1>1. IInv' /\ RegsTypeOK'
  BY RegsStep, TypeStep, OwnStep, RegsTypeStep DEF RInv, IInv, Own
<1>2. ASSUME NEW p \in Procs, Certain(p)' PROVE RegsOK(p)' /\ ParkedOK(p)'
  <2>1. CASE UNCHANGED allvars
    BY <1>2, <2>1
       DEF allvars, vars, rvars, RInv, Certain, RegsOK, ParkedOK, Storing, Untold, AtWork, Pends, From
  <2>2. ASSUME NEW h \in Harts, RegsHartStep(h) PROVE RegsOK(p)' /\ ParkedOK(p)'
    BY <1>2, <2>2, KernelRegsOK, UserRegsOK, ParkedStep DEF RegsHartStep
  <2> QED
    BY <2>1, <2>2 DEF RegsNext, RegsHartStep
<1> QED
  BY <1>1, <1>2 DEF RInv

LEMMA RegsInvariance == RegsSpec => []RInv
<1>1. RegsInit => RInv
  BY RegsInitInv
<1> QED
  BY <1>1, RegsInvStep, PTL DEF RegsSpec

(* syscall.c: when trap_resume_proc loads a process's registers, it finds  *)
(* what the process was told: a whole message of one sender, or that its   *)
(* call was interrupted, or what its supervisor wrote.                     *)
THEOREM ProcessFindsWhatItWasTold == RegsSpec => FindsWhatItWasTold
<1> DEFINE Found(h) ==
      From(h, "sched") /\ pc'[h] = "user" /\ cur'[h] \notin torn /\ told[cur'[h]].a0 # "unsure"
        => regs[cur'[h]] = told[cur'[h]]
<1>1. ASSUME RInv, [RegsNext]_allvars, NEW h \in Harts PROVE Found(h)
  <2> SUFFICES ASSUME From(h, "sched"), pc'[h] = "user", cur'[h] \notin torn,
                      told[cur'[h]].a0 # "unsure"
               PROVE  regs[cur'[h]] = told[cur'[h]]
    OBVIOUS
  <2>1. PICK g \in Harts : RegsHartStep(g)
    BY <1>1 DEF RegsNext, RegsHartStep, allvars, vars, From
  <2>2. g = h
    BY <1>1, <2>1, StepsAlone DEF RInv, Alone, From
  <2>3. Load(h)
    BY <2>1, <2>2
       DEF RegsHartStep, From, Save, TimerOrYield, RegsKernelStep, StoreMessage, StoreInterrupted,
           MessageDone, SendDone, ReplyDone, Subscribe, ToldDone, ClientDone, AccessDone, SupRelease,
           OtherStep, ReleaseCheck, ReleaseAnd, SupSuspendWaiting, SupResume, ServerWait, ClientWait
  <2>4. PICK q \in Procs : proc_acquire(q) /\ cur'[h] = q
    BY <1>1, <2>3, HartsAssumption DEF Load, SchedStart, RInv, IInv, TypeOK
  <2>5. state[q].low = READY /\ Certain(q) /\ RegsOK(q) /\ ParkedOK(q)
    BY <1>1, <2>4 DEF proc_acquire, compare_and_set, Plain, Word, RInv, Certain
  <2>6. ~Pending(q) /\ \A k \in Harts : ~Uses(k, q)
    BY <1>1, <2>4, <2>5, FreeWord
       DEF RInv, IInv, Certain, Pending, Pends, ParkedOK, READY, WAITING, SUSPENDED, SUSPENDED_BUSY
  <2> QED
    BY <2>4, <2>5, <2>6, Clear DEF RegsOK
<1>2. RInv /\ [RegsNext]_allvars => [\A h \in Harts : Found(h)]_allvars
  BY <1>1
<1> QED
  BY RegsInvariance, <1>2, PTL DEF RegsSpec, FindsWhatItWasTold

----------------------------------------------------------------------------
(* A process that was sent a message does not wait, and is not about to.   *)
Talking == {"replying", "server_wait", "calling", "client_wait"}
Answered(p) ==
  told[p].a0 = "ok" =>
    /\ state[p].low # WAITING
    /\ \A h \in Harts : ~(pc[h] \in Talking /\ cur[h] = p)
Unsent == \A p \in Procs \ torn : Answered(p)

(* A step that says nothing to p, and does not lead it to a wait ...       *)
Silent(p) ==
  /\ told'[p] = told[p]
  /\ state'[p].low = WAITING => state[p].low = WAITING
  /\ \A g \in Harts : pc'[g] \in Talking /\ cur'[g] = p => pc[g] \in Talking /\ cur[g] = p

(* ... and one that brings a message to p, which waits.                    *)
Delivered(p) ==
  /\ state[p].low = WAITING /\ state'[p].low = RECEIVING
  /\ \A g \in Harts : ~(pc'[g] \in Talking /\ cur'[g] = p)

LEMMA AnsweredStep ==
  ASSUME NEW p, Answered(p), told'[p].a0 # "ok" \/ Silent(p) \/ Delivered(p)
  PROVE  /\ Answered(p)'
         /\ told[p].a0 = "ok" /\ told'[p].a0 = "ok" => told'[p] = told[p]
BY DEF Answered, Silent, Delivered, WAITING, RECEIVING

LEMMA NoWaitLeft ==
  \A w \in Words : AndSuspended(w).low # WAITING /\ OrSuspended(w).low # WAITING
BY DEF Words, AndSuspended, OrSuspended, HasSuspended, Plain, Word, WAITING, READY, SUSPENDED,
       RUNNING_THEN_SUSPEND, SUSPENDED_BUSY, RECEIVING_THEN_SUSPEND

LEMMA SureKinds ==
  \A p : /\ \A a \in {"own", "call", "interrupted", "written"} : Sure(p, Plainly(a)).a0 # "ok"
         /\ \A r : Sure(p, r) = r \/ Sure(p, r).a0 # "ok"
BY DEF Sure, Plainly

LEMMA AnsweredByStep ==
  ASSUME RInv, Unsent, NEW h \in Harts, RegsHartStep(h), NEW p \in Procs \ torn
  PROVE  told'[p].a0 # "ok" \/ Silent(p) \/ Delivered(p)
<1>1. /\ pc \in [Harts -> Labels] /\ state \in [Procs -> Words]
      /\ cur \in [Harts -> Procs \union {NoProc}] /\ peer \in [Harts -> Procs \union {NoProc}]
      /\ told \in [Procs -> Contents({"unsure"})]
  BY DEF RInv, IInv, TypeOK, StateTypeOK, RegsTypeOK
<1>2. \A g \in Harts : pc[g] \in Talking /\ cur[g] = p => state[p].low # WAITING /\ told[p].a0 # "ok"
  BY DEF RInv, IInv, WordTellsUser, Running, Runs, Talking, Unsent, Answered,
         WAITING, RUNNING, RUNNING_THEN_SUSPEND
<1>3. \A g \in Harts : pc[g] = "user" /\ cur[g] = p => state[p].low # WAITING
  BY DEF RInv, IInv, WordTellsUser, Running, Runs, WAITING, RUNNING, RUNNING_THEN_SUSPEND
<1>4. \A g \in Harts \ {h} : pc'[g] = pc[g] /\ cur'[g] = cur[g]
  BY StepsAlone DEF RInv, Alone
<1> USE <1>1, <1>4 DEF From, Goto, Meet, Part, On, Tell, Store, compare_and_set, Talking
<1>5. CASE Load(h)
  BY <1>5, SureKinds, HartsAssumption DEF Load, SchedStart, proc_acquire, Plain, Word, Silent, RUNNING, WAITING
<1>6. CASE Save(h)
  BY <1>6 DEF Save, TimerOrYield, Silent
<1>7. CASE StoreMessage(h) \/ StoreInterrupted(h)
  BY <1>7 DEF StoreMessage, StoreInterrupted, vars, Silent
<1>8. CASE MessageDone(h)
  BY <1>8, NoWaitLeft DEF MessageDone, After, SendDone, ReplyDone, Subscribe, proc_sender_release, Silent
<1>9. CASE ToldDone(h)
  BY <1>9, NoWaitLeft DEF ToldDone, After, ClientDone, proc_sender_release, Silent
<1>10. CASE AccessDone(h)
  BY <1>10, SureKinds
     DEF AccessDone, SupRelease, proc_supervisor_release, Plain, Word, Silent, SUSPENDED, WAITING
<1>11. CASE OtherStep(h)
  <2>1. CASE ReleaseCheck(h) \/ ReleaseAnd(h)
    BY <1>11, <2>1, NoWaitLeft DEF OtherStep, rvars, ReleaseCheck, ReleaseAnd, proc_release_and, Silent
  <2>2. CASE SupSuspendWaiting(h) \/ SupResume(h)
    BY <1>11, <2>2 DEF OtherStep, rvars, SupSuspendWaiting, SupResume, proc_supervisor_suspend_wait,
       proc_supervisor_resume, Plain, Word, Silent, SUSPENDED, READY, WAITING
  <2>3. CASE ServerWait(h) \/ ClientWait(h)
    BY <1>2, <1>11, <2>3
       DEF OtherStep, rvars, ServerWait, ClientWait, Wait, proc_receiver_wait, Silent
  <2> QED
    BY <1>11, <2>1, <2>2, <2>3 DEF OtherStep
<1>12. CASE From(h, "user") /\ RegsUserStep(h)
  <2>1. ASSUME NEW q \in Supervisees[cur[h]], SuspendStep(h, q)
        PROVE  Silent(p)
    BY <2>1, NoWaitLeft DEF SuspendStep, rvars, SupSuspend, proc_supervisor_suspend_or, Silent
  <2>2. ASSUME NEW q \in Supervisees[cur[h]], Seize(h, q)
        PROVE  told'[p].a0 # "ok" \/ Silent(p)
    BY <2>2, SureKinds
       DEF Seize, SupAcquire, proc_supervisor_acquire, Plain, Word, Silent, SUSPENDED_BUSY, WAITING
  <2>3. ASSUME NEW ch \in Channels, Receive(h, ch)
        PROVE  told'[p].a0 # "ok" \/ Silent(p)
    BY <2>3, SureKinds DEF Receive, InvokeReceiver, Wait, proc_receiver_wait, Silent
  <2>4. ASSUME NEW ch \in Channels, Send(h, ch)
        PROVE  told'[p].a0 # "ok" \/ Silent(p) \/ Delivered(p)
    BY <1>2, <2>4 DEF Send, InvokeSender, proc_sender_acquire, Word, Silent, Delivered, RECEIVING, WAITING
  <2>5. ASSUME NEW ch \in Channels, Serve(h, ch)
        PROVE  told'[p].a0 # "ok" \/ Silent(p) \/ Delivered(p)
    BY <1>2, <2>5, SureKinds
       DEF Serve, InvokeServer, proc_sender_acquire, Word, Silent, Delivered, RECEIVING, WAITING
  <2>6. ASSUME NEW ch \in Channels, CallServer(h, ch)
        PROVE  told'[p].a0 # "ok" \/ Silent(p) \/ Delivered(p)
    BY <1>2, <1>3, <2>6, SureKinds
       DEF CallServer, InvokeClient, proc_sender_acquire, Word, Silent, Delivered, RECEIVING, WAITING
  <2> QED
    BY <1>12, <2>1, <2>2, <2>3, <2>4, <2>5, <2>6 DEF RegsUserStep
<1> QED
  BY <1>5, <1>6, <1>7, <1>8, <1>9, <1>10, <1>11, <1>12 DEF RegsHartStep, RegsKernelStep

LEMMA UnsentStep ==
  RInv /\ Unsent /\ [RegsNext]_allvars =>
    /\ Unsent'
    /\ \A p \in Procs \ torn : told[p].a0 = "ok" /\ told'[p].a0 = "ok" => told'[p] = told[p]
<1> SUFFICES ASSUME RInv, Unsent, [RegsNext]_allvars
             PROVE  /\ Unsent'
                    /\ \A p \in Procs \ torn :
                         told[p].a0 = "ok" /\ told'[p].a0 = "ok" => told'[p] = told[p]
  OBVIOUS
<1>1. CASE UNCHANGED allvars
  BY <1>1 DEF allvars, vars, rvars, Unsent, Answered
<1>2. CASE RegsNext
  <2>1. PICK h \in Harts : RegsHartStep(h)
    BY <1>2 DEF RegsNext, RegsHartStep
  <2>2. torn \subseteq torn'
    BY <2>1, StepsAlone DEF RInv
  <2>3. ASSUME NEW p \in Procs \ torn
        PROVE  /\ Answered(p)'
               /\ told[p].a0 = "ok" /\ told'[p].a0 = "ok" => told'[p] = told[p]
    BY <2>1, AnsweredByStep, AnsweredStep DEF Unsent
  <2> QED
    BY <2>2, <2>3 DEF Unsent
<1> QED
  BY <1>1, <1>2

(* syscall_invoke_sender, _server and _client take a process that waits on *)
(* the channel, and leave it RECEIVING, so that nobody else can send to it *)
(* before it has run and waits again.                                      *)
THEOREM MessagesAreKept == RegsSpec => OneMessagePerWait
<1>1. RegsInit => Unsent
  BY DEF RegsInit, Plainly, Unsent, Answered
<1> QED
  BY <1>1, RegsInvariance, UnsentStep, PTL DEF RegsSpec, OneMessagePerWait
=============================================================================
