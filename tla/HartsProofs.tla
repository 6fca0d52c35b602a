---------------------------- MODULE HartsProofs ----------------------------
(***************************************************************************)
(* Proofs about Harts for every number of harts, processes and channels.   *)
(*                                                                         *)
(* Exclusive is not inductive alone: that no second party takes a process  *)
(* follows from what its state word says, so the invariant joins Exclusive *)
(* (pairwise, as One) with WordTellsUser, with AssertUnlessTorn, and with  *)
(* the fact that a control point's variables hold real processes (Placed). *)
(***************************************************************************)
EXTENDS Harts, TLAPS

Placed ==
  \A h \in Harts :
    /\ pc[h] \in Runs \union Parked => cur[h] \in Procs
    /\ pc[h] \in Fills \union {"suspend", "resume", "access", "hang"} => peer[h] \in Procs
    /\ pc[h] \in {"replying", "server_wait", "calling", "client_wait"} => chan[h] \in Channels

One == \A p \in Procs \ torn : \A g, h \in Harts : Uses(g, p) /\ Uses(h, p) => g = h

IInv == TypeOK /\ Placed /\ WordTellsUser /\ One /\ AssertUnlessTorn

USE ChannelsAssumption, HartsAssumption

LEMMA InitIInv == Init => IInv
<1> SUFFICES ASSUME Init PROVE IInv
  OBVIOUS
<1>1. TypeOK
  BY DEF Init, TypeOK, StateTypeOK, Words, Plain, Word, READY, SUSPENDED, Labels
<1>2. \A h \in Harts : pc[h] = "sched"
  BY DEF Init
<1>3. Placed /\ WordTellsUser /\ One /\ AssertUnlessTorn
  BY <1>2 DEF Placed, WordTellsUser, One, AssertUnlessTorn, Uses, Running,
              Filling, Supervising, Runs, Parked, Fills, From
<1> QED
  BY <1>1, <1>3 DEF IInv

(* The words the state operations store are words.                         *)
LEMMA WordTyping ==
  /\ \A ch \in Channels \union {0}, low \in 0 .. 7 : Word(ch, low) \in Words
  /\ \A low \in 0 .. 7 : Plain(low) \in Words
  /\ \A w \in Words : AndSuspended(w) \in Words /\ OrSuspended(w) \in Words
BY DEF Words, Plain, Word, AndSuspended, OrSuspended, HasSuspended, SUSPENDED,
       RUNNING_THEN_SUSPEND, SUSPENDED_BUSY, RECEIVING_THEN_SUSPEND, READY

LEMMA TypeStep == TypeOK /\ Placed /\ [Next]_vars => TypeOK' /\ Placed'
<1> SUFFICES ASSUME TypeOK, Placed, [Next]_vars PROVE TypeOK' /\ Placed'
  OBVIOUS
<1> USE DEF TypeOK, Placed, Runs, Parked, Fills, Labels, Goto, From, Meet, Part, On, Store,
            StateTypeOK, compare_and_set
<1>0. CASE UNCHANGED vars
  BY <1>0 DEF vars
<1> SUFFICES ASSUME NEW h \in Harts, HartStep(h) PROVE TypeOK' /\ Placed'
  BY <1>0 DEF Next
<1>1. CASE SchedStart(h)
  BY <1>1, WordTyping DEF SchedStart, proc_acquire, RUNNING
<1>2. CASE TimerOrYield(h)
  BY <1>2 DEF TimerOrYield
<1>3. CASE ReleaseCheck(h)
  BY <1>3 DEF ReleaseCheck
<1>4. CASE ReleaseAnd(h)
  BY <1>4, WordTyping DEF ReleaseAnd, proc_release_and
<1>5. CASE SupSuspendWaiting(h)
  BY <1>5, WordTyping DEF SupSuspendWaiting, proc_supervisor_suspend_wait, SUSPENDED
<1>6. CASE SupResume(h)
  BY <1>6, WordTyping DEF SupResume, proc_supervisor_resume, READY
<1>7. CASE SupRelease(h)
  BY <1>7, WordTyping DEF SupRelease, proc_supervisor_release, SUSPENDED
<1>8. CASE SendDone(h)
  BY <1>8, WordTyping DEF SendDone, proc_sender_release
<1>9. CASE ReplyDone(h)
  BY <1>9, WordTyping DEF ReplyDone, proc_sender_release
<1>10. CASE ServerWait(h)
  <2>1. Word(chan[h], WAITING) \in Words
    <3>1. chan[h] \in Channels
      BY <1>10 DEF ServerWait
    <3> QED
      BY <3>1, WordTyping, WAITING \in 0 .. 7 DEF WAITING
  <2>2. StateTypeOK'
    BY <1>10, <2>1 DEF ServerWait, Wait, proc_receiver_wait
  <2>3. pc' \in [Harts -> Labels] /\ \A g \in Harts : g # h => pc'[g] = pc[g]
    BY <1>10 DEF ServerWait, Wait
  <2>4. pc'[h] \in {"yield", "parked"}
    BY <1>10 DEF ServerWait, Wait
  <2> QED
    BY <1>10, <2>2, <2>3, <2>4 DEF ServerWait
<1>11. CASE Subscribe(h)
  BY <1>11 DEF Subscribe
<1>12. CASE ClientWait(h)
  <2>1. Word(chan[h], WAITING) \in Words
    <3>1. chan[h] \in Channels
      BY <1>12 DEF ClientWait
    <3> QED
      BY <3>1, WordTyping, WAITING \in 0 .. 7 DEF WAITING
  <2>2. StateTypeOK'
    BY <1>12, <2>1 DEF ClientWait, Wait, proc_receiver_wait
  <2>3. pc' \in [Harts -> Labels] /\ \A g \in Harts : g # h => pc'[g] = pc[g]
    BY <1>12 DEF ClientWait, Wait
  <2>4. pc'[h] \in {"client_missed", "client_parked"}
    BY <1>12 DEF ClientWait, Wait
  <2> QED
    BY <1>12, <2>2, <2>3, <2>4 DEF ClientWait
<1>13. CASE ClientDone(h)
  BY <1>13, WordTyping DEF ClientDone, proc_sender_release
<1>14. ASSUME NEW p \in Supervisees[cur[h]], SupSuspend(h, p), From(h, "user")
       PROVE  TypeOK' /\ Placed'
  BY <1>14, WordTyping DEF SupSuspend, proc_supervisor_suspend_or
<1>15. ASSUME NEW p \in Supervisees[cur[h]], SupAcquire(h, p), From(h, "user")
       PROVE  TypeOK' /\ Placed'
  BY <1>15, WordTyping DEF SupAcquire, proc_supervisor_acquire, SUSPENDED_BUSY
<1>16. ASSUME NEW ch \in Channels, InvokeReceiver(h, ch)
       PROVE  TypeOK' /\ Placed'
  BY <1>16, WordTyping DEF InvokeReceiver, Wait, proc_receiver_wait, WAITING
<1>17. ASSUME NEW ch \in Channels, InvokeSender(h, ch)
       PROVE  TypeOK' /\ Placed'
  BY <1>17, WordTyping DEF InvokeSender, proc_sender_acquire, RECEIVING
<1>18. ASSUME NEW ch \in Channels, InvokeServer(h, ch)
       PROVE  TypeOK' /\ Placed'
  BY <1>18, WordTyping DEF InvokeServer, proc_sender_acquire, RECEIVING
<1>19. ASSUME NEW ch \in Channels, InvokeClient(h, ch)
       PROVE  TypeOK' /\ Placed'
  BY <1>19, WordTyping DEF InvokeClient, proc_sender_acquire, RECEIVING
<1> QED
  BY <1>1, <1>2, <1>3, <1>4, <1>5, <1>6, <1>7, <1>8, <1>9, <1>10, <1>11, <1>12,
     <1>13, <1>14, <1>15, <1>16, <1>17, <1>18, <1>19
     DEF HartStep, KernelStep, UserStep

(* A process that is ready, waiting or suspended is used by nobody.        *)
LEMMA FreeWord ==
  ASSUME WordTellsUser, NEW p \in Procs \ torn,
         state[p].low \in {READY, WAITING, SUSPENDED}
  PROVE  \A h \in Harts : ~Uses(h, p)
BY DEF WordTellsUser, Uses, READY, RUNNING, WAITING, RECEIVING, SUSPENDED,
       RUNNING_THEN_SUSPEND, SUSPENDED_BUSY, RECEIVING_THEN_SUSPEND

Own == WordTellsUser /\ One /\ AssertUnlessTorn

LEMMA OwnStep == IInv /\ [Next]_vars => Own'
<1> SUFFICES ASSUME IInv, [Next]_vars PROVE Own'
  OBVIOUS
<1> USE DEF IInv, TypeOK, Placed, Runs, Parked, Fills, Labels, Goto, From, Meet, Part, On, Store,
            StateTypeOK, Words, compare_and_set, Own, WordTellsUser, One, AssertUnlessTorn,
            Uses, Running, Filling, Supervising, Word, Plain, READY, RUNNING, WAITING, RECEIVING,
            SUSPENDED, RUNNING_THEN_SUSPEND, SUSPENDED_BUSY, RECEIVING_THEN_SUSPEND
<1>0. CASE UNCHANGED vars
  BY <1>0 DEF vars
<1> SUFFICES ASSUME NEW h \in Harts, HartStep(h) PROVE Own'
  BY <1>0 DEF Next
<1>1. CASE SchedStart(h)
  BY <1>1 DEF SchedStart, proc_acquire
<1>2. CASE TimerOrYield(h)
  BY <1>2 DEF TimerOrYield
<1>3. CASE ReleaseCheck(h)
  BY <1>3, SMTT(30) DEF ReleaseCheck, proc_release_skips, HasWaiting
<1>4. CASE ReleaseAnd(h)
  BY <1>4 DEF ReleaseAnd, proc_release_and, AndSuspended, HasSuspended
<1>5. CASE SupSuspendWaiting(h)
  BY <1>5 DEF SupSuspendWaiting, proc_supervisor_suspend_wait
<1>6. CASE SupResume(h)
  <2>1. peer[h] \in Procs /\ Supervising(h, peer[h])
    BY <1>6 DEF SupResume
  <2>2. /\ state' = [state EXCEPT ![peer[h]] = Plain(READY)]
        /\ pc' = [pc EXCEPT ![h] = "user"] /\ peer' = [peer EXCEPT ![h] = NoProc]
        /\ UNCHANGED <<cur, torn>>
    BY <1>6 DEF SupResume, proc_supervisor_resume
  <2>3. \A g \in Harts : g # h /\ peer[h] \notin torn => ~Uses(g, peer[h])
    BY <2>1
  <2>4. WordTellsUser'
    BY <2>1, <2>2, <2>3
  <2>5. One'
    BY <2>1, <2>2
  <2>6. AssertUnlessTorn'
    BY <2>1, <2>2
  <2> QED
    BY <2>4, <2>5, <2>6
<1>7. CASE SupRelease(h)
  <2>1. From(h, "access") /\ UNCHANGED <<cur, torn>>
    BY <1>7 DEF SupRelease
  <2>2. CASE state[peer[h]] = Plain(SUSPENDED_BUSY)
    <3>1. /\ state' = [state EXCEPT ![peer[h]] = Plain(SUSPENDED)]
          /\ pc' = [pc EXCEPT ![h] = "user"] /\ peer' = [peer EXCEPT ![h] = NoProc]
      BY <1>7, <2>2 DEF SupRelease, proc_supervisor_release
    <3>2. WordTellsUser'
      BY <2>1, <3>1
    <3>3. One'
      BY <2>1, <3>1
    <3>4. AssertUnlessTorn'
      BY <2>1, <3>1
    <3> QED
      BY <3>2, <3>3, <3>4
  <2>3. CASE state[peer[h]] # Plain(SUSPENDED_BUSY)
    <3>1. UNCHANGED <<state, peer>> /\ pc' = [pc EXCEPT ![h] = "hang"]
      BY <1>7, <2>3 DEF SupRelease
    <3>2. peer[h] \in torn
      BY <2>1, <2>3
    <3> QED
      BY <2>1, <3>1, <3>2
  <2> QED
    BY <2>2, <2>3
<1>8. CASE SendDone(h)
  BY <1>8 DEF SendDone, proc_sender_release, AndSuspended, HasSuspended
<1>9. CASE ReplyDone(h)
  BY <1>9 DEF ReplyDone, proc_sender_release, AndSuspended, HasSuspended
<1>10. CASE ServerWait(h)
  <2>1. CASE proc_receiver_wait(cur[h], chan[h]) /\ Goto(h, "parked")
    BY <1>10, <2>1 DEF ServerWait, proc_receiver_wait
  <2>2. CASE UNCHANGED state /\ Goto(h, "yield")
    BY <1>10, <2>2 DEF ServerWait
  <2> QED
    BY <1>10, <2>1, <2>2 DEF ServerWait, Wait
<1>11. CASE Subscribe(h)
  BY <1>11 DEF Subscribe
<1>12. CASE ClientWait(h)
  <2>1. CASE proc_receiver_wait(cur[h], chan[h]) /\ Goto(h, "client_parked")
    BY <1>12, <2>1 DEF ClientWait, proc_receiver_wait
  <2>2. CASE UNCHANGED state /\ Goto(h, "client_missed")
    BY <1>12, <2>2 DEF ClientWait
  <2> QED
    BY <1>12, <2>1, <2>2 DEF ClientWait, Wait
<1>13. CASE ClientDone(h)
  BY <1>13 DEF ClientDone, proc_sender_release, AndSuspended, HasSuspended
<1>14. ASSUME NEW p \in Supervisees[cur[h]], SupSuspend(h, p), From(h, "user")
       PROVE  Own'
  <2>1. CASE state[p].low = WAITING
    <3>1. p \in Procs /\ \A g \in Harts : p \notin torn => ~Uses(g, p)
      BY <1>14, <2>1, FreeWord
    <3>2. /\ state' = [state EXCEPT ![p] = Word(state[p].ch, SUSPENDED_BUSY)]
          /\ pc' = [pc EXCEPT ![h] = "suspend"] /\ peer' = [peer EXCEPT ![h] = p]
          /\ From(h, "user") /\ UNCHANGED <<cur, torn>>
      BY <1>14, <2>1 DEF SupSuspend, proc_supervisor_suspend_or, OrSuspended, HasSuspended
    <3>3. WordTellsUser'
      BY <3>1, <3>2
    <3>4. One'
      BY <3>1, <3>2
    <3>5. AssertUnlessTorn'
      BY <3>2
    <3> QED
      BY <3>3, <3>4, <3>5
  <2>2. CASE state[p].low # WAITING
    BY <1>14, <2>2 DEF SupSuspend, proc_supervisor_suspend_or, OrSuspended, HasSuspended
  <2> QED
    BY <2>1, <2>2
<1>15. ASSUME NEW p \in Supervisees[cur[h]], SupAcquire(h, p), From(h, "user")
       PROVE  Own'
  <2>1. p \in Procs
    BY <1>15
  <2>2. \A g \in Harts : p \notin torn => ~Uses(g, p)
    BY <1>15, <2>1, FreeWord DEF SupAcquire, proc_supervisor_acquire
  <2>3. CASE Goto(h, "resume")
    BY <1>15, <2>1, <2>2, <2>3 DEF SupAcquire, proc_supervisor_acquire
  <2>4. CASE Goto(h, "access")
    BY <1>15, <2>1, <2>2, <2>4 DEF SupAcquire, proc_supervisor_acquire
  <2> QED
    BY <1>15, <2>3, <2>4 DEF SupAcquire
<1>16. ASSUME NEW ch \in Channels, InvokeReceiver(h, ch)
       PROVE  Own'
  <2>1. CASE proc_receiver_wait(cur[h], ch) /\ Goto(h, "parked")
    BY <1>16, <2>1 DEF InvokeReceiver, proc_receiver_wait
  <2>2. CASE UNCHANGED state /\ Goto(h, "yield")
    BY <1>16, <2>2 DEF InvokeReceiver
  <2> QED
    BY <1>16, <2>1, <2>2 DEF InvokeReceiver, Wait
<1>17. ASSUME NEW ch \in Channels, InvokeSender(h, ch)
       PROVE  Own'
  BY <1>17, SMTT(30) DEF InvokeSender, proc_sender_acquire
<1>18. ASSUME NEW ch \in Channels, InvokeServer(h, ch)
       PROVE  Own'
  <2>1. CASE proc_sender_acquire(client[ch], ch) /\ client[ch] # NoProc
             /\ Goto(h, "replying") /\ Meet(h, client[ch])
    <3>1. client[ch] \in Procs
      BY <2>1
    <3>2. \A g \in Harts : client[ch] \notin torn => ~Uses(g, client[ch])
      BY <2>1, <3>1, FreeWord DEF proc_sender_acquire
    <3> QED
      BY <1>18, <2>1, <3>1, <3>2 DEF InvokeServer, proc_sender_acquire
  <2>2. CASE Goto(h, "server_wait") /\ UNCHANGED <<state, peer>>
    BY <1>18, <2>2 DEF InvokeServer
  <2> QED
    BY <1>18, <2>1, <2>2 DEF InvokeServer
<1>19. ASSUME NEW ch \in Channels, InvokeClient(h, ch)
       PROVE  Own'
  BY <1>19 DEF InvokeClient, proc_sender_acquire
<1> QED
  BY <1>1, <1>2, <1>3, <1>4, <1>5, <1>6, <1>7, <1>8, <1>9, <1>10, <1>11, <1>12,
     <1>13, <1>14, <1>15, <1>16, <1>17, <1>18, <1>19
     DEF HartStep, KernelStep, UserStep

LEMMA Invariance == Spec => []IInv
<1>1. IInv /\ [Next]_vars => IInv'
  BY TypeStep, OwnStep DEF IInv, Own
<1> QED
  BY InitIInv, <1>1, PTL DEF Spec

(* Type correctness of the state words and of every hart's registers.      *)
THEOREM TypeCorrect == Spec => []TypeOK
<1>1. IInv => TypeOK
  BY DEF IInv
<1> QED
  BY Invariance, <1>1, PTL

(* Whatever the harts do, the state word of an untorn process tells who    *)
(* uses it: the words of inc/proc_state.h are a lock's owner field.        *)
THEOREM WordsTellUsers == Spec => []WordTellsUser
<1>1. IInv => WordTellsUser
  BY DEF IInv
<1> QED
  BY Invariance, <1>1, PTL

(* The state word is a lock: an untorn process is used by one party at a   *)
(* time, be it run by sched_start, filled by syscall_invoke_sender, server *)
(* or client, or held by syscall_invoke_supervisor.                        *)
THEOREM MutualExclusion == Spec => []Exclusive
<1>1. ASSUME IInv PROVE Exclusive
  <2> USE DEF IInv
  <2>1. ASSUME NEW p \in Procs \ torn, NEW g \in Harts, NEW h \in Harts, Uses(g, p), Uses(h, p)
        PROVE  g = h
    BY <1>1, <2>1 DEF One
  <2>2. ASSUME NEW p \in Procs \ torn, NEW h \in Harts, Running(h, p)
        PROVE  ~Filling(h, p) /\ ~Supervising(h, p)
    BY <1>1, <2>2 DEF WordTellsUser, RUNNING, RECEIVING, RUNNING_THEN_SUSPEND,
                      SUSPENDED_BUSY, RECEIVING_THEN_SUSPEND
  <2> QED
    BY <2>1, <2>2 DEF Exclusive
<1> QED
  BY Invariance, <1>1, PTL

(* The kassert of proc_supervisor_release can fail only after the release  *)
(* that follows a wait has overwritten somebody else's word.               *)
THEOREM AssertSafeUnlessTorn == Spec => []AssertUnlessTorn
<1>1. IInv => AssertUnlessTorn
  BY DEF IInv
<1> QED
  BY Invariance, <1>1, PTL

(* A system in which no process holds a channel capability has no wait,    *)
(* hence no late release.                                                  *)
NoWait == torn = {} /\ \A h \in Harts : pc[h] \notin Parked

LEMMA NoWaitInvariant == ASSUME Channels = {} PROVE Spec => []NoWait
<1>1. Init => NoWait
  BY DEF Init, NoWait, Parked
<1>2. IInv /\ NoWait /\ [Next]_vars => NoWait'
  <2> SUFFICES ASSUME IInv, NoWait, [Next]_vars PROVE NoWait'
    OBVIOUS
  <2> USE DEF NoWait, Parked, IInv, TypeOK, Goto, From
  <2>1. CASE UNCHANGED vars
    BY <2>1 DEF vars
  <2> SUFFICES ASSUME NEW h \in Harts, HartStep(h) PROVE NoWait'
    BY <2>1 DEF Next
  <2>2. CASE SchedStart(h) \/ TimerOrYield(h)
    BY <2>2 DEF SchedStart, TimerOrYield
  <2>8. CASE ReleaseCheck(h)
    BY <2>8 DEF ReleaseCheck
  <2>9. CASE ReleaseAnd(h)
    BY <2>9 DEF ReleaseAnd
  <2>3. CASE SupSuspendWaiting(h) \/ SupResume(h) \/ SupRelease(h)
    BY <2>3 DEF SupSuspendWaiting, SupResume, SupRelease
  <2>4. CASE SendDone(h) \/ ReplyDone(h) \/ Subscribe(h)
    BY <2>4 DEF SendDone, ReplyDone, Subscribe
  <2>5. CASE ServerWait(h) \/ ClientWait(h)
    BY <2>5 DEF ServerWait, ClientWait, Placed
  <2>6. CASE ClientDone(h)
    BY <2>6 DEF ClientDone
  <2>7. CASE From(h, "user") /\ UserStep(h)
    BY <2>7 DEF UserStep, SupSuspend, SupAcquire
  <2> QED
    BY <2>2, <2>3, <2>4, <2>5, <2>6, <2>7, <2>8, <2>9 DEF HartStep, KernelStep
<1> QED
  BY Invariance, <1>1, <1>2, PTL DEF Spec

(* Without channels the README's promise holds as it stands: a supervisor  *)
(* uses only suspended processes, and its kassert never fails.             *)
THEOREM AccessWithoutChannels ==
  ASSUME Channels = {} PROVE Spec => [](AccessOnlySuspended /\ ReleaseAssertHolds)
<1>1. ASSUME IInv, NoWait PROVE AccessOnlySuspended /\ ReleaseAssertHolds
  <2>1. ReleaseAssertHolds
    BY <1>1 DEF IInv, NoWait, AssertUnlessTorn, ReleaseAssertHolds
  <2>2. ASSUME NEW g \in Harts, NEW h \in Harts, From(g, "access"), Running(h, peer[g])
        PROVE  FALSE
    <3>1. peer[g] \in Procs \ torn
      BY <1>1, <2>2 DEF IInv, NoWait, Placed, From
    <3>2. Supervising(g, peer[g])
      BY <2>2 DEF Supervising, From
    <3> QED
      BY <1>1, <2>2, <3>1, <3>2
         DEF IInv, WordTellsUser, RUNNING, RUNNING_THEN_SUSPEND, SUSPENDED_BUSY
  <2> QED
    BY <2>1, <2>2 DEF AccessOnlySuspended
<1> QED
  BY Invariance, NoWaitInvariant, <1>1, PTL
----------------------------------------------------------------------------
(* The dialogue of clients and servers.  Talks says what the registers of  *)
(* a hart hold between the steps of syscall_invoke_client and              *)
(* syscall_invoke_server; Asked(ch), what an untorn server can rely on.    *)
Calls(h, ch)  == pc[h] \in {"calling", "client_wait"} /\ chan[h] = ch
Serves(h, ch) == pc[h] = "server_wait" /\ chan[h] = ch
Awaits(p, ch) == state[p] = Word(ch, WAITING)

Talks ==
  \A h \in Harts :
    /\ pc[h] \in {"calling", "client_wait"} =>
         /\ chan[h] \in ServerChans
         /\ cur[h] \in Callers[chan[h]]
         /\ peer[h] = Receiver[chan[h]]
    /\ pc[h] = "client_wait" => client[chan[h]] # NoProc
    /\ pc[h] \in {"replying", "server_wait"} =>
         /\ chan[h] \in ServerChans
         /\ cur[h] = Receiver[chan[h]]
    /\ pc[h] = "replying" => peer[h] = client[chan[h]]

Asked(ch) ==
  /\ client[ch] \in (Callers[ch] \ {Receiver[ch]}) \union {NoProc}
  /\ \A h \in Harts : Calls(h, ch) => req[ch] = cur[h]
  /\ \A p \in Procs \ {Receiver[ch]} : Awaits(p, ch) => p \in Callers[ch] /\ client[ch] # NoProc
  /\ client[ch] # NoProc /\ Awaits(client[ch], ch) =>
       /\ req[ch] = client[ch]
       /\ ~Awaits(Receiver[ch], ch)
       /\ \A h \in Harts : ~Serves(h, ch)

Dialogue == Talks /\ \A ch \in ServerChans : Receiver[ch] \in Procs \ torn => Asked(ch)

LEMMA InitDialogue == Init => Dialogue
<1> SUFFICES ASSUME Init PROVE Dialogue
  OBVIOUS
<1>1. /\ \A h \in Harts : pc[h] = "sched"
      /\ \A ch \in ServerChans : client[ch] = NoProc /\ \A p \in Procs : ~Awaits(p, ch)
  BY DEF Init, Awaits, Word, Plain, READY, SUSPENDED, WAITING
<1>2. Talks
  BY <1>1 DEF Talks
<1>3. \A ch \in ServerChans : Asked(ch)
  BY <1>1 DEF Asked, Calls, Serves
<1> QED
  BY <1>2, <1>3 DEF Dialogue

LEMMA TalksStep == IInv /\ Talks /\ [Next]_vars => Talks'
<1> SUFFICES ASSUME IInv, Talks, [Next]_vars PROVE Talks'
  OBVIOUS
<1> USE DEF IInv, TypeOK, Placed, Talks, Goto, From, Meet, Part, On, Fills
<1>0. CASE UNCHANGED vars
  BY <1>0 DEF vars
<1> SUFFICES ASSUME NEW h \in Harts, HartStep(h) PROVE Talks'
  BY <1>0 DEF Next
<1>1. ASSUME UNCHANGED client, \A g \in Harts \ {h} : UNCHANGED <<pc[g], cur[g], peer[g], chan[g]>>,
             pc'[h] \notin {"calling", "client_wait", "replying", "server_wait"}
      PROVE  Talks'
  BY <1>1
<1>2. CASE SchedStart(h) \/ TimerOrYield(h) \/ ReleaseCheck(h) \/ ReleaseAnd(h)
  BY <1>1, <1>2 DEF SchedStart, TimerOrYield, ReleaseCheck, ReleaseAnd
<1>3. CASE SupSuspendWaiting(h) \/ SupResume(h) \/ SupRelease(h) \/ SendDone(h) \/ ClientDone(h)
  BY <1>1, <1>3 DEF SupSuspendWaiting, SupResume, SupRelease, SendDone, ClientDone
<1>4. CASE ServerWait(h) \/ ClientWait(h)
  BY <1>1, <1>4 DEF ServerWait, ClientWait, Wait
<1>5. CASE ReplyDone(h)
  BY <1>5 DEF ReplyDone
<1>6. CASE Subscribe(h)
  <2>1. /\ client[chan[h]] = NoProc \/ UNCHANGED client
        /\ \A ch \in Channels \ {chan[h]} : client'[ch] = client[ch]
        /\ client'[chan[h]] # NoProc
    BY <1>6 DEF Subscribe, Runs
  <2> QED
    BY <1>6, <2>1 DEF Subscribe
<1>7. CASE From(h, "user") /\ UserStep(h)
  <2>1. ASSUME NEW p, SupSuspend(h, p) \/ SupAcquire(h, p)
        PROVE  Talks'
    BY <1>1, <2>1 DEF SupSuspend, SupAcquire
  <2>2. ASSUME NEW ch \in Channels, InvokeReceiver(h, ch) \/ InvokeSender(h, ch)
        PROVE  Talks'
    BY <1>1, <2>2 DEF InvokeReceiver, InvokeSender, Wait
  <2>3. ASSUME NEW ch \in Channels, InvokeServer(h, ch)
        PROVE  Talks'
    BY <2>3 DEF InvokeServer
  <2>4. ASSUME NEW ch \in Channels, InvokeClient(h, ch)
        PROVE  Talks'
    BY <2>4 DEF InvokeClient
  <2> QED
    BY <1>7, <2>1, <2>2, <2>3, <2>4 DEF UserStep
<1> QED
  BY <1>2, <1>3, <1>4, <1>5, <1>6, <1>7 DEF HartStep, KernelStep
(* A word becomes WAITING only by the wait of the process itself.          *)
LEMMA OnlyWaitsAwait ==
  ASSUME IInv, NEW h \in Harts, HartStep(h), NEW p \in Procs, NEW ch \in Channels,
         ~Awaits(p, ch), Awaits(p, ch)'
  PROVE  /\ cur[h] = p
         /\ \/ (ServerWait(h) \/ ClientWait(h)) /\ chan[h] = ch
            \/ InvokeReceiver(h, ch)
<1> USE DEF IInv, TypeOK, StateTypeOK, Words, Awaits, Word, Plain, Store, compare_and_set, READY, RUNNING,
            WAITING, RECEIVING, SUSPENDED, RUNNING_THEN_SUSPEND, SUSPENDED_BUSY,
            RECEIVING_THEN_SUSPEND, AndSuspended
<1> SUFFICES ASSUME ~(/\ cur[h] = p
                      /\ \/ (ServerWait(h) \/ ClientWait(h)) /\ chan[h] = ch
                         \/ InvokeReceiver(h, ch))
             PROVE  FALSE
  OBVIOUS
<1>0. UNCHANGED state => FALSE
  OBVIOUS
<1>1. ASSUME NEW q, NEW low, low # WAITING, NEW c, Store(q, Word(c, low))
      PROVE  FALSE
  BY <1>1
<1>2. ASSUME NEW q, Store(q, AndSuspended(state[q]))
      PROVE  FALSE
  BY <1>2
<1>3. CASE SchedStart(h) \/ TimerOrYield(h) \/ ReleaseCheck(h) \/ ReleaseAnd(h)
  BY <1>0, <1>1, <1>2, <1>3
     DEF SchedStart, TimerOrYield, ReleaseCheck, ReleaseAnd, proc_acquire, proc_release_and
<1>4. CASE SupSuspendWaiting(h) \/ SupResume(h) \/ SupRelease(h)
  BY <1>0, <1>1, <1>4
     DEF SupSuspendWaiting, SupResume, SupRelease, proc_supervisor_suspend_wait,
         proc_supervisor_resume, proc_supervisor_release
<1>5. CASE SendDone(h) \/ ReplyDone(h) \/ ClientDone(h) \/ Subscribe(h)
  BY <1>0, <1>2, <1>5 DEF SendDone, ReplyDone, ClientDone, Subscribe, proc_sender_release
<1>6. ASSUME NEW c, NEW missed, NEW waiting, Wait(h, c, missed, waiting)
      PROVE  cur[h] = p /\ c = ch
  BY <1>0, <1>6 DEF Wait, proc_receiver_wait
<1>7. CASE ServerWait(h) \/ ClientWait(h)
  BY <1>6, <1>7 DEF ServerWait, ClientWait
<1>8. CASE From(h, "user") /\ UserStep(h)
  <2>1. ASSUME NEW q \in Supervisees[cur[h]], SupSuspend(h, q)
        PROVE  FALSE
    <3>1. q \in Procs
      BY <2>1 DEF SupSuspend, From, Placed, Runs
    <3>2. OrSuspended(state[q]).low # WAITING
      BY <3>1 DEF OrSuspended, HasSuspended
    <3> QED
      BY <2>1, <3>1, <3>2 DEF SupSuspend, proc_supervisor_suspend_or
  <2>2. ASSUME NEW q, SupAcquire(h, q)
        PROVE  FALSE
    BY <1>1, <2>2 DEF SupAcquire, proc_supervisor_acquire
  <2>3. ASSUME NEW c \in Channels, InvokeReceiver(h, c)
        PROVE  FALSE
    BY <1>6, <2>3 DEF InvokeReceiver
  <2>4. ASSUME NEW c \in Channels, InvokeSender(h, c) \/ InvokeServer(h, c) \/ InvokeClient(h, c)
        PROVE  FALSE
    BY <1>0, <1>1, <2>4 DEF InvokeSender, InvokeServer, InvokeClient, proc_sender_acquire
  <2> QED
    BY <1>8, <2>1, <2>2, <2>3, <2>4 DEF UserStep
<1> QED
  BY <1>3, <1>4, <1>5, <1>7, <1>8 DEF HartStep, KernelStep

(* While a hart fills an untorn process, that process neither runs nor     *)
(* waits.                                                                  *)
LEMMA FilledIsStill ==
  ASSUME IInv, NEW h \in Harts, NEW p \in Procs \ torn, Filling(h, p)
  PROVE  /\ \A ch : ~Awaits(p, ch)
         /\ \A g \in Harts : ~Running(g, p)
BY DEF IInv, WordTellsUser, Awaits, Word, RUNNING, WAITING, RECEIVING,
       RUNNING_THEN_SUSPEND, RECEIVING_THEN_SUSPEND

(* A step that leaves the dialogue on a channel alone.                     *)
LEMMA AskedKept ==
  ASSUME NEW ch \in ServerChans, Receiver[ch] \in Procs, Asked(ch),
         client'[ch] = client[ch], client[ch] # NoProc => client[ch] \in Procs,
         req'[ch] = req[ch],
         \A p \in Procs : Awaits(p, ch)' => Awaits(p, ch),
         \A g \in Harts : Calls(g, ch)' => Calls(g, ch) /\ cur'[g] = cur[g],
         \A g \in Harts : Serves(g, ch)' => Serves(g, ch)
  PROVE  Asked(ch)'
BY DEF Asked

LEMMA AskedStep ==
  ASSUME IInv, Talks, [Next]_vars, NEW ch \in ServerChans,
         Receiver[ch] \in Procs \ torn, Receiver[ch] \notin torn', Asked(ch)
  PROVE  Asked(ch)'
<1> DEFINE R == Receiver[ch]
<1>a. R \in Procs \ torn /\ ch \in Channels
  OBVIOUS
<1>0. CASE UNCHANGED vars
  BY <1>0 DEF vars, Asked, Calls, Serves, Awaits
<1> SUFFICES ASSUME NEW h \in Harts, HartStep(h) PROVE Asked(ch)'
  BY <1>0 DEF Next
<1>t. /\ client[ch] # NoProc => client[ch] \in Procs
      /\ pc[h] \in Runs => cur[h] \in Procs
      /\ pc[h] \in Fills => peer[h] \in Procs
      /\ pc \in [Harts -> Labels] /\ cur \in [Harts -> Procs \union {NoProc}]
      /\ peer \in [Harts -> Procs \union {NoProc}] /\ chan \in [Harts -> Channels \union {0}]
      /\ client \in [Channels -> Procs \union {NoProc}]
      /\ req \in [Channels -> Procs \union {NoProc}]
  BY DEF IInv, TypeOK, Placed
<1>1. ASSUME UNCHANGED client, req'[ch] = req[ch],
             \A g \in Harts \ {h} : UNCHANGED <<pc[g], cur[g], chan[g]>>,
             pc'[h] \notin {"calling", "client_wait", "server_wait"},
             ~(ServerWait(h) \/ ClientWait(h))
      PROVE  Asked(ch)'
  <2>1. \A p \in Procs : Awaits(p, ch)' => Awaits(p, ch)
    BY <1>a, <1>1, OnlyWaitsAwait DEF InvokeReceiver
  <2>2. \A g \in Harts : /\ Calls(g, ch)' => Calls(g, ch) /\ cur'[g] = cur[g]
                         /\ Serves(g, ch)' => Serves(g, ch)
    BY <1>1 DEF Calls, Serves
  <2> QED
    BY <1>a, <1>t, <1>1, <2>1, <2>2, AskedKept
<1>2. CASE SchedStart(h) \/ TimerOrYield(h) \/ ReleaseCheck(h) \/ ReleaseAnd(h)
  BY <1>1, <1>2, <1>t DEF SchedStart, TimerOrYield, ReleaseCheck, ReleaseAnd, Goto, From, ServerWait, ClientWait
<1>3. CASE SupSuspendWaiting(h) \/ SupResume(h) \/ SupRelease(h) \/ SendDone(h) \/ ClientDone(h)
  BY <1>1, <1>3, <1>t
     DEF SupSuspendWaiting, SupResume, SupRelease, SendDone, ClientDone, Goto, From, ServerWait, ClientWait
<1>4. CASE ServerWait(h)
  <2>1. /\ pc[h] = "server_wait" /\ pc' \in [Harts -> Labels] /\ pc'[h] \in {"yield", "parked"}
        /\ \A g \in Harts \ {h} : pc'[g] = pc[g] /\ chan'[g] = chan[g]
        /\ UNCHANGED <<cur, client, req>>
        /\ cur[h] = Receiver[chan[h]]
    BY <1>4, <1>t DEF ServerWait, Wait, Goto, From, On, Talks, Labels, Runs, Parked
  <2>2. /\ \A g \in Harts : Calls(g, ch)' => Calls(g, ch) /\ cur'[g] = cur[g]
        /\ \A g \in Harts : Serves(g, ch)' => Serves(g, ch)
    BY <2>1 DEF Calls, Serves
  <2>3. \A p \in Procs : Awaits(p, ch)' /\ ~Awaits(p, ch) => p = R /\ chan[h] = ch
    BY <1>a, <1>4, <2>1, OnlyWaitsAwait DEF ClientWait, InvokeReceiver, From
  <2>4. CASE chan[h] # ch
    BY <1>a, <1>t, <2>1, <2>2, <2>3, <2>4, AskedKept
  <2>5. CASE chan[h] = ch
    BY <1>a, <1>t, <2>1, <2>2, <2>3, <2>5 DEF Asked, Serves
  <2> QED
    BY <2>4, <2>5
<1>5. CASE ClientWait(h)
  <2>1. /\ pc[h] = "client_wait" /\ pc'[h] \in {"client_missed", "client_parked"}
        /\ \A g \in Harts \ {h} : pc'[g] = pc[g] /\ chan'[g] = chan[g]
        /\ UNCHANGED <<cur, client, req>>
        /\ cur[h] \in Callers[chan[h]] /\ peer[h] = Receiver[chan[h]]
        /\ client[chan[h]] # NoProc /\ chan[h] \in Channels
        /\ cur[h] \in Procs
    BY <1>5, <1>t DEF ClientWait, Wait, Goto, From, On, Talks, Runs
  <2>2. /\ \A g \in Harts : Calls(g, ch)' => Calls(g, ch) /\ cur'[g] = cur[g]
        /\ \A g \in Harts : Serves(g, ch)' => Serves(g, ch)
    BY <2>1 DEF Calls, Serves
  <2>3. \A p \in Procs : Awaits(p, ch)' /\ ~Awaits(p, ch) => p = cur[h] /\ chan[h] = ch
    BY <1>a, <1>5, <2>1, OnlyWaitsAwait DEF ServerWait, InvokeReceiver, From
  <2>4. CASE chan[h] # ch
    BY <1>a, <1>t, <2>1, <2>2, <2>3, <2>4, AskedKept
  <2>5. CASE chan[h] = ch
    <3>1. Filling(h, R) /\ Running(h, cur[h]) /\ Calls(h, ch)
      BY <2>1, <2>5 DEF Filling, Running, Calls, Fills, Runs
    <3>2. ~Awaits(R, ch) /\ cur[h] # R /\ \A g \in Harts : ~Serves(g, ch)
      <4>1. \A g \in Harts : ~Running(g, R) /\ ~Awaits(R, ch)
        BY <1>a, <3>1, FilledIsStill
      <4>2. \A g \in Harts : Serves(g, ch) => Running(g, R)
        BY DEF Talks, Serves, Running, Runs
      <4> QED
        BY <3>1, <4>1, <4>2
    <3>3. ~Awaits(R, ch)'
      BY <1>a, <2>3, <3>2
    <3>4. \A g \in Harts : ~Serves(g, ch)'
      BY <2>2, <3>2
    <3>5. req'[ch] = cur[h] /\ client'[ch] = client[ch] /\ client[ch] # NoProc
      BY <2>1, <2>5, <3>1 DEF Asked
    <3>6. client[ch] # NoProc /\ Awaits(client[ch], ch)' => req'[ch] = client[ch]
      BY <1>t, <2>3, <3>5, <2>1 DEF Asked
    <3>7. \A p \in Procs \ {R} : Awaits(p, ch)' => p \in Callers[ch]
      BY <2>1, <2>3, <2>5 DEF Asked
    <3>8. \A g \in Harts : Calls(g, ch)' => req'[ch] = cur'[g]
      BY <2>1, <2>2 DEF Asked
    <3>9. client'[ch] \in (Callers[ch] \ {R}) \union {NoProc}
      BY <3>5 DEF Asked
    <3> QED
      BY <3>3, <3>4, <3>5, <3>6, <3>7, <3>8, <3>9 DEF Asked, Awaits
  <2> QED
    BY <2>4, <2>5
<1>6. CASE Subscribe(h)
  <2>1. /\ pc[h] = "calling" /\ pc'[h] = "client_wait"
        /\ \A g \in Harts \ {h} : pc'[g] = pc[g]
        /\ UNCHANGED <<state, cur, chan, req>>
        /\ cur[h] \in Callers[chan[h]] /\ peer[h] = Receiver[chan[h]]
        /\ chan[h] \in Channels /\ cur[h] \in Procs
        /\ \A c \in Channels \ {chan[h]} : client'[c] = client[c]
        /\ client'[chan[h]] = IF client[chan[h]] = NoProc THEN cur[h] ELSE client[chan[h]]
    BY <1>6, <1>t DEF Subscribe, Goto, From, Talks, Runs
  <2>2. \A g \in Harts : /\ Calls(g, ch)' => Calls(g, ch) /\ cur'[g] = cur[g]
                         /\ Serves(g, ch)' => Serves(g, ch)
    BY <2>1 DEF Calls, Serves
  <2>3. \A p : Awaits(p, ch)' <=> Awaits(p, ch)
    BY <2>1 DEF Awaits
  <2>4. CASE client'[ch] = client[ch]
    BY <1>a, <1>t, <2>1, <2>2, <2>3, <2>4, AskedKept
  <2>5. CASE client'[ch] # client[ch]
    <3>1. chan[h] = ch /\ client[ch] = NoProc /\ client'[ch] = cur[h]
      BY <1>a, <2>1, <2>5
    <3>2. Filling(h, R) /\ Running(h, cur[h])
      BY <2>1, <3>1 DEF Filling, Running, Fills, Runs
    <3>3. cur[h] # R
      BY <1>a, <3>2, FilledIsStill
    <3>4. ~Awaits(cur[h], ch)
      BY <2>1, <3>1, <3>3 DEF Asked
    <3>5. client'[ch] # NoProc /\ ~Awaits(client'[ch], ch)
      BY <2>1, <3>1, <3>4
    <3>6. \A p \in Procs \ {R} : ~Awaits(p, ch)
      BY <3>1 DEF Asked
    <3>7. ~(Awaits(client[ch], ch)')
      BY <2>1, <3>1, <3>5 DEF Awaits
    <3> QED
      BY <2>1, <2>2, <2>3, <3>1, <3>3, <3>6, <3>7 DEF Asked
  <2> QED
    BY <2>4, <2>5
<1>7. CASE ReplyDone(h)
  <2>1. /\ pc[h] = "replying" /\ pc'[h] = "server_wait"
        /\ \A g \in Harts \ {h} : pc'[g] = pc[g]
        /\ UNCHANGED <<cur, chan, client, req>>
        /\ state' = [state EXCEPT ![peer[h]] = AndSuspended(state[peer[h]])]
        /\ peer[h] = client[chan[h]] /\ peer[h] \in Procs
        /\ cur[h] = Receiver[chan[h]]
    BY <1>7, <1>t DEF ReplyDone, Goto, From, Talks, Fills, proc_sender_release, Store
  <2>2. \A p \in Procs : Awaits(p, ch)' => Awaits(p, ch)
    BY <1>a, <1>7, <2>1, OnlyWaitsAwait DEF ServerWait, ClientWait, InvokeReceiver, From
  <2>3. /\ \A g \in Harts : Calls(g, ch)' => Calls(g, ch) /\ cur'[g] = cur[g]
        /\ \A g \in Harts : Serves(g, ch)' => Serves(g, ch) \/ (g = h /\ chan[h] = ch)
    BY <2>1 DEF Calls, Serves
  <2>4. CASE chan[h] # ch
    BY <1>a, <1>t, <2>1, <2>2, <2>3, <2>4, AskedKept
  <2>5. CASE chan[h] = ch
    <3>1. ~Awaits(client[ch], ch)'
      BY <2>1, <2>5 DEF Awaits, AndSuspended, Plain, Word, WAITING, READY, SUSPENDED,
                        IInv, TypeOK, StateTypeOK
    <3>2. client'[ch] = client[ch] /\ req'[ch] = req[ch]
      BY <2>1
    <3>3. \A p \in Procs \ {R} : Awaits(p, ch)' => p \in Callers[ch]
      BY <2>2 DEF Asked
    <3>4. \A g \in Harts : Calls(g, ch)' => req'[ch] = cur'[g]
      BY <2>3, <3>2 DEF Asked
    <3>5. \A p \in Procs \ {R} : Awaits(p, ch)' => client'[ch] # NoProc
      BY <2>2, <3>2 DEF Asked
    <3>6. client'[ch] \in (Callers[ch] \ {R}) \union {NoProc}
      BY <3>2 DEF Asked
    <3> QED
      BY <3>1, <3>2, <3>3, <3>4, <3>5, <3>6 DEF Asked, Awaits
  <2> QED
    BY <2>4, <2>5
<1>8. ASSUME NEW p \in Supervisees[cur[h]], SupSuspend(h, p) \/ SupAcquire(h, p)
      PROVE  Asked(ch)'
  BY <1>1, <1>8, <1>t DEF SupSuspend, SupAcquire, Goto, From, ServerWait, ClientWait
<1>9. ASSUME NEW c \in Channels, InvokeSender(h, c)
      PROVE  Asked(ch)'
  BY <1>1, <1>9, <1>t DEF InvokeSender, Goto, From, ServerWait, ClientWait
<1>10. ASSUME NEW c \in Channels, InvokeReceiver(h, c)
       PROVE  Asked(ch)'
  <2>1. /\ pc[h] = "user" /\ pc'[h] \in {"yield", "parked"} /\ c \notin ServerChans
        /\ \A g \in Harts \ {h} : pc'[g] = pc[g]
        /\ UNCHANGED <<cur, chan, client, req>>
    BY <1>10, <1>t DEF InvokeReceiver, Wait, Goto, From
  <2>2. \A p \in Procs : Awaits(p, ch)' => Awaits(p, ch)
    <3> SUFFICES ASSUME NEW p \in Procs, Awaits(p, ch)', ~Awaits(p, ch)
                 PROVE  FALSE
      OBVIOUS
    <3>1. InvokeReceiver(h, ch)
      BY <1>a, <2>1, OnlyWaitsAwait DEF ServerWait, ClientWait, From
    <3> QED
      BY <3>1 DEF InvokeReceiver
  <2>3. \A g \in Harts : /\ Calls(g, ch)' => Calls(g, ch) /\ cur'[g] = cur[g]
                         /\ Serves(g, ch)' => Serves(g, ch)
    BY <2>1 DEF Calls, Serves
  <2> QED
    BY <1>a, <1>t, <2>1, <2>2, <2>3, AskedKept
<1>11. ASSUME NEW c \in Channels, InvokeServer(h, c)
       PROVE  Asked(ch)'
  <2>1. /\ pc[h] = "user" /\ cur[h] = Receiver[c] /\ c \in ServerChans
        /\ pc'[h] \in {"replying", "server_wait"} /\ chan'[h] = c
        /\ \A g \in Harts \ {h} : pc'[g] = pc[g] /\ chan'[g] = chan[g]
        /\ req' = [req EXCEPT ![c] = NoProc]
        /\ UNCHANGED <<cur, client>>
        /\ cur[h] \in Procs
    BY <1>11, <1>t DEF InvokeServer, Goto, From, On, Runs
  <2>2. \A p \in Procs : Awaits(p, ch)' => Awaits(p, ch)
    BY <1>a, <1>11, <2>1, OnlyWaitsAwait DEF ServerWait, ClientWait, InvokeReceiver, From
  <2>3. /\ \A g \in Harts : Calls(g, ch)' => Calls(g, ch) /\ cur'[g] = cur[g]
        /\ \A g \in Harts : Serves(g, ch)' => Serves(g, ch) \/ (g = h /\ c = ch)
    BY <2>1 DEF Calls, Serves
  <2>4. CASE c # ch
    BY <1>a, <1>t, <2>1, <2>2, <2>3, <2>4, AskedKept
  <2>5. CASE c = ch
    <3>1. Running(h, R)
      BY <2>1, <2>5 DEF Running, Runs
    <3>2. \A g \in Harts : ~Calls(g, ch)
      <4>1. \A g \in Harts : Calls(g, ch) => Filling(g, R)
        BY DEF Talks, Calls, Filling, Fills
      <4> QED
        BY <1>a, <3>1, <4>1, FilledIsStill
    <3>3. client[ch] # NoProc => ~Awaits(client[ch], ch)'
      BY <1>11, <1>t, <2>5
         DEF InvokeServer, proc_sender_acquire, compare_and_set, Awaits, Word, WAITING, RECEIVING,
             IInv, TypeOK, StateTypeOK
    <3>4. client'[ch] = client[ch]
      BY <2>1
    <3>5. \A p \in Procs \ {R} : Awaits(p, ch)' => p \in Callers[ch] /\ client'[ch] # NoProc
      BY <2>2, <3>4 DEF Asked
    <3>6. client'[ch] \in (Callers[ch] \ {R}) \union {NoProc}
      BY <3>4 DEF Asked
    <3>7. \A g \in Harts : ~Calls(g, ch)'
      BY <2>3, <3>2
    <3> QED
      BY <3>3, <3>4, <3>5, <3>6, <3>7 DEF Asked, Awaits
  <2> QED
    BY <2>4, <2>5
<1>12. ASSUME NEW c \in Channels, InvokeClient(h, c)
       PROVE  Asked(ch)'
  <2>1. /\ pc[h] = "user" /\ c \in ServerChans
        /\ state[Receiver[c]] = Word(c, WAITING) /\ Receiver[c] \in Procs
        /\ state' = [state EXCEPT ![Receiver[c]] = Word(c, RECEIVING)]
        /\ pc'[h] = "calling" /\ chan'[h] = c
        /\ \A g \in Harts \ {h} : pc'[g] = pc[g] /\ chan'[g] = chan[g]
        /\ req' = [req EXCEPT ![c] = cur[h]]
        /\ UNCHANGED <<cur, client>>
    BY <1>12, <1>t DEF InvokeClient, Goto, From, On, proc_sender_acquire, compare_and_set
  <2>2. \A p \in Procs : Awaits(p, ch)' => Awaits(p, ch)
    BY <1>a, <1>12, <2>1, OnlyWaitsAwait DEF ServerWait, ClientWait, InvokeReceiver, From
  <2>3. /\ \A g \in Harts : Serves(g, ch)' => Serves(g, ch)
        /\ \A g \in Harts : Calls(g, ch)' => Calls(g, ch) \/ (g = h /\ c = ch)
    BY <2>1 DEF Calls, Serves
  <2>4. CASE c # ch
    <3>1. \A g \in Harts : Calls(g, ch)' => Calls(g, ch) /\ cur'[g] = cur[g]
      BY <2>1, <2>3, <2>4
    <3>2. client'[ch] = client[ch] /\ req'[ch] = req[ch]
      BY <2>1, <2>4
    <3> QED
      BY <1>a, <1>t, <2>2, <2>3, <3>1, <3>2, AskedKept
  <2>5. CASE c = ch
    <3>1. Awaits(R, ch)
      BY <2>1, <2>5 DEF Awaits
    <3>2. \A g \in Harts : ~Calls(g, ch)
      <4>1. \A g \in Harts : Calls(g, ch) => Filling(g, R)
        BY DEF Talks, Calls, Filling, Fills
      <4> QED
        BY <1>a, <3>1, <4>1, FilledIsStill
    <3>3. client'[ch] = client[ch]
      BY <2>1
    <3>4. client[ch] # NoProc => ~Awaits(client[ch], ch)
      BY <3>1 DEF Asked
    <3>5. client[ch] # NoProc => ~Awaits(client[ch], ch)'
      BY <1>t, <2>2, <3>3, <3>4 DEF Awaits
    <3>6. \A p \in Procs \ {R} : Awaits(p, ch)' => p \in Callers[ch] /\ client'[ch] # NoProc
      BY <2>2, <3>3 DEF Asked
    <3>7. client'[ch] \in (Callers[ch] \ {R}) \union {NoProc}
      BY <3>3 DEF Asked
    <3>8. \A g \in Harts : Calls(g, ch)' => req'[ch] = cur'[g]
      BY <1>t, <2>1, <2>3, <2>5, <3>2
    <3> QED
      BY <3>3, <3>5, <3>6, <3>7, <3>8 DEF Asked, Awaits
  <2> QED
    BY <2>4, <2>5
<1> QED
  BY <1>2, <1>3, <1>4, <1>5, <1>6, <1>7, <1>8, <1>9, <1>10, <1>11, <1>12
     DEF HartStep, KernelStep, UserStep

LEMMA DialogueInvariant == Spec => []Dialogue
<1>1. IInv /\ Dialogue /\ [Next]_vars => Dialogue'
  <2> SUFFICES ASSUME IInv, Dialogue, [Next]_vars PROVE Dialogue'
    OBVIOUS
  <2>1. Talks'
    BY TalksStep DEF Dialogue
  <2>2. torn \subseteq torn'
    BY DEF Next, HartStep, KernelStep, UserStep, vars, SchedStart, TimerOrYield, ReleaseCheck,
           ReleaseAnd, SupSuspendWaiting, SupResume, SupRelease, SendDone, ReplyDone, ServerWait,
           Subscribe, ClientWait, ClientDone, SupSuspend, SupAcquire, InvokeReceiver,
           InvokeSender, InvokeServer, InvokeClient
  <2>3. ASSUME NEW ch \in ServerChans, Receiver[ch] \in Procs \ torn'
        PROVE  Asked(ch)'
    BY <2>2, <2>3, AskedStep DEF Dialogue
  <2> QED
    BY <2>1, <2>3 DEF Dialogue
<1> QED
  BY Invariance, InitDialogue, <1>1, PTL DEF Spec

(* syscall_invoke_server replies to the process in receivers[ch][1], which *)
(* another client never overwrites: as long as the server is untorn, that  *)
(* is the client whose request the server was given last, however many     *)
(* clients the channel has.                                                *)
THEOREM RepliesToRequester == Spec => ReplyToRequester
<1>1. ASSUME IInv, Dialogue, [Next]_vars, NEW h \in Harts,
             From(h, "user"), pc'[h] = "replying", {cur[h], peer'[h]} \cap torn = {}
      PROVE  peer'[h] = req[chan'[h]]
  <2> USE DEF IInv, TypeOK, Goto, From, Meet, On
  <2>1. UserStep(h)
    <3>1. \A g \in Harts : HartStep(g) => g = h \/ pc'[h] = pc[h]
      BY <1>1 DEF HartStep, KernelStep, UserStep, SchedStart, TimerOrYield, ReleaseCheck,
                  ReleaseAnd, SupSuspendWaiting, SupResume, SupRelease, SendDone, ReplyDone,
                  ServerWait, Subscribe, ClientWait, ClientDone, SupSuspend, SupAcquire,
                  InvokeReceiver, InvokeSender, InvokeServer, InvokeClient, Wait
    <3>2. HartStep(h)
      BY <1>1, <3>1 DEF Next, vars
    <3> QED
      BY <1>1, <3>2 DEF HartStep, KernelStep, SchedStart, TimerOrYield, ReleaseCheck,
                        ReleaseAnd, SupSuspendWaiting, SupResume, SupRelease, SendDone, ReplyDone,
                        ServerWait, Subscribe, ClientWait, ClientDone
  <2>2. PICK ch \in Channels : InvokeServer(h, ch)
    <3>1. \A p : ~SupSuspend(h, p) /\ ~SupAcquire(h, p)
      BY <1>1 DEF SupSuspend, SupAcquire
    <3>2. \A ch : ~InvokeReceiver(h, ch) /\ ~InvokeSender(h, ch) /\ ~InvokeClient(h, ch)
      BY <1>1 DEF InvokeReceiver, InvokeSender, InvokeClient, Wait
    <3> QED
      BY <2>1, <3>1, <3>2 DEF UserStep
  <2>3. /\ ch \in ServerChans /\ cur[h] = Receiver[ch] /\ chan'[h] = ch
        /\ client[ch] # NoProc /\ Awaits(client[ch], ch) /\ peer'[h] = client[ch]
    BY <1>1, <2>2 DEF InvokeServer, proc_sender_acquire, compare_and_set, Awaits
  <2>4. Receiver[ch] \in Procs \ torn
    BY <1>1, <2>3 DEF Placed, Runs
  <2> QED
    BY <1>1, <2>3, <2>4 DEF Dialogue, Asked
<1>2. ASSUME IInv, Dialogue, [Next]_vars
      PROVE  [\A h \in Harts :
                From(h, "user") /\ pc'[h] = "replying" /\ {cur[h], peer'[h]} \cap torn = {}
                  => peer'[h] = req[chan'[h]]]_vars
  BY <1>1, <1>2
<1> QED
  BY Invariance, DialogueInvariant, <1>2, PTL DEF Spec, ReplyToRequester

(* A server channel with one client besides the server itself.             *)
OneClient == \A ch \in ServerChans : \A p, q \in Callers[ch] \ {Receiver[ch]} : p = q

SoleClient ==
  \A ch \in ServerChans : \A p \in Callers[ch] \ {Receiver[ch]} :
    Receiver[ch] \in Procs \ torn /\ state[p] = Word(ch, WAITING) => client[ch] = p

(* With one client on the channel, syscall_invoke_client has subscribed    *)
(* whoever waits on it: what two clients lose (WaitingClientSubscribed).   *)
THEOREM SoleClientSubscribed == ASSUME OneClient PROVE Spec => []SoleClient
<1>1. ASSUME IInv, Dialogue PROVE SoleClient
  <2> SUFFICES ASSUME NEW ch \in ServerChans, NEW p \in Callers[ch] \ {Receiver[ch]},
                      Receiver[ch] \in Procs \ torn, Awaits(p, ch)
               PROVE  client[ch] = p
    BY DEF SoleClient, Awaits
  <2>1. Asked(ch) /\ p \in Procs
    BY <1>1 DEF Dialogue
  <2> QED
    BY <2>1 DEF Asked, OneClient
<1> QED
  BY Invariance, DialogueInvariant, <1>1, PTL

(* syscall_invoke_client holds the server (RECEIVING) until the client     *)
(* waits, so client and server never wait for each other.                  *)
THEOREM NoMutualWaiting == ASSUME OneClient PROVE Spec => []NoMutualWait
<1>1. ASSUME IInv, Dialogue PROVE NoMutualWait
  <2> SUFFICES ASSUME NEW ch \in ServerChans, NEW p \in Callers[ch] \ {Receiver[ch]},
                      Receiver[ch] \in Procs \ torn, Awaits(p, ch), Awaits(Receiver[ch], ch)
               PROVE  FALSE
    BY DEF NoMutualWait, Awaits
  <2>1. Asked(ch) /\ p \in Procs
    BY <1>1 DEF Dialogue
  <2>2. client[ch] = p /\ client[ch] # NoProc
    BY <2>1 DEF Asked, OneClient
  <2> QED
    BY <2>1, <2>2 DEF Asked
<1> QED
  BY Invariance, DialogueInvariant, <1>1, PTL
============================================================================
