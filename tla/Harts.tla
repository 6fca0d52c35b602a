------------------------------- MODULE Harts -------------------------------
(***************************************************************************)
(* The harts of the kernel and the way they hand processes to each other:  *)
(* the scheduler loop (src/sched.c), the trap that ends a time slice       *)
(* (src/trap.S) and the capability invocations that touch the state of     *)
(* another process (supervisor, receiver, sender, server and client, in    *)
(* src/syscall.c).  A hart's program counter stops before every access to  *)
(* shared memory, so harts interleave as the machine allows: nothing locks *)
(* a process but its state word.                                           *)
(*                                                                         *)
(* Time is abstracted: a hart may pick any process that the schedule gives *)
(* it (Slots).  Capabilities do not move here: who holds which is constant.*)
(***************************************************************************)
EXTENDS ProcState, FiniteSets

CONSTANTS
  Harts,        \* MIN_HARTID .. MAX_HARTID
  NoProc,       \* the NULL process
  Root,         \* process 0, the only one that is ready after boot
  Slots,        \* Slots[h]: the processes with time slices on hart h
  Supervisees,  \* Supervisees[p]: the pids in p's supervisor capability
  Receiver,     \* Receiver[ch]: receivers[ch][0], or NoProc
  ServerChans,  \* the channels whose receiver holds a server capability
  Callers       \* Callers[ch]: holders of a sender or client capability

ASSUME HartsAssumption ==
  /\ NoProc \notin Procs
  /\ Root \in Procs
  /\ Slots \in [Harts -> SUBSET Procs]
  /\ Supervisees \in [Procs -> SUBSET Procs]
  /\ Receiver \in [Channels -> Procs \union {NoProc}]
  /\ ServerChans \subseteq Channels
  /\ Callers \in [Channels -> SUBSET Procs]

VARIABLES
  pc,      \* pc[h]: where hart h is
  cur,     \* cur[h]: `current', the process hart h works for
  peer,    \* peer[h]: the other process of the invocation hart h is in
  chan,    \* chan[h]: the channel of the invocation hart h is in
  client,  \* client[ch]: receivers[ch][1], where the server's reply goes
  torn,    \* history: processes whose word a late release has overwritten
  req      \* history: req[ch] is the client whose request the server has

vars == <<state, pc, cur, peer, chan, client, torn, req>>

(* Control points.  Those in Runs belong to the hart that acquired its     *)
(* process; the parked points come after the process was put in WAITING:   *)
(* the same code, on a process the hart no longer owns.                    *)
Runs ==
  {"user", "suspend", "resume", "access", "sending", "replying",
   "server_wait", "calling", "client_wait", "client_missed",
   "yield", "yield_and"}
Parked == {"client_parked", "parked", "parked_and"}
Fills  == {"sending", "replying", "calling", "client_wait",
           "client_missed", "client_parked"}
Labels == Runs \union Parked \union {"sched", "hang"}

Init ==
  /\ state  = [p \in Procs |-> Plain(IF p = Root THEN READY ELSE SUSPENDED)]
  /\ pc     = [h \in Harts |-> "sched"]
  /\ cur    = [h \in Harts |-> NoProc]
  /\ peer   = [h \in Harts |-> NoProc]
  /\ chan   = [h \in Harts |-> 0]
  /\ client = [ch \in Channels |-> NoProc]
  /\ torn   = {}
  /\ req    = [ch \in Channels |-> NoProc]

Goto(h, l)  == pc' = [pc EXCEPT ![h] = l]
From(h, l)  == pc[h] = l
Meet(h, p)  == peer' = [peer EXCEPT ![h] = p]
On(h, ch)   == chan' = [chan EXCEPT ![h] = ch]
Part(h)     == Meet(h, NoProc)  \* what a hart needs no more, it forgets

----------------------------------------------------------------------------
(* Scheduling.  sched_start takes the process of the next time slice if it *)
(* is ready; wait_and_set_timeout and trap_resume_proc bring it to user    *)
(* mode.                                                                   *)
SchedStart(h) ==
  /\ From(h, "sched")
  /\ \E p \in Slots[h] :
       /\ proc_acquire(p)
       /\ cur' = [cur EXCEPT ![h] = p]
  /\ Goto(h, "user")
  /\ UNCHANGED <<peer, chan, client, torn, req>>

(* The time slice ends, or the process yields: tail call of sched_yield.   *)
TimerOrYield(h) ==
  /\ From(h, "user")
  /\ Goto(h, "yield")
  /\ UNCHANGED <<state, cur, peer, chan, client, torn, req>>

(* proc_release reads the state word of the process it leaves ...          *)
ReleaseCheck(h) ==
  /\ pc[h] \in {"yield", "parked"}
  /\ IF proc_release_skips(cur[h])
     THEN Goto(h, "sched") /\ cur' = [cur EXCEPT ![h] = NoProc]
     ELSE /\ Goto(h, IF From(h, "yield") THEN "yield_and" ELSE "parked_and")
          /\ UNCHANGED cur
  /\ UNCHANGED <<state, peer, chan, client, torn, req>>

(* ... and clears it.  After a wait the word may be somebody else's by now:*)
(* the history variable torn remembers that the hart has overwritten it.   *)
ReleaseAnd(h) ==
  /\ pc[h] \in {"yield_and", "parked_and"}
  /\ proc_release_and(cur[h])
  /\ torn' = IF From(h, "parked_and")
                  /\ AndSuspended(state[cur[h]]) # state[cur[h]]
             THEN torn \union {cur[h]} ELSE torn
  /\ Goto(h, "sched") /\ cur' = [cur EXCEPT ![h] = NoProc]
  /\ UNCHANGED <<peer, chan, client, req>>

----------------------------------------------------------------------------
(* Supervisor invocations.                                                 *)

(* Mutant: the bit is added, not or-ed, and an order given twice goes on.  *)
MutSuspendAdds(h, p) ==
  /\ From(h, "user")
  /\ Store(p, Word(state[p].ch, state[p].low + SUSPENDED))
  /\ IF state[p].low = WAITING THEN Goto(h, "suspend") /\ Meet(h, p)
                                ELSE UNCHANGED <<pc, peer>>
  /\ UNCHANGED <<cur, chan, client, torn, req>>

(* ECALL_SUP_SUSPEND sets the bit; a process found waiting also loses its  *)
(* channel, by a second store.                                             *)
SupSuspend(h, p) ==
  /\ From(h, "user")
  /\ ~HasSuspended(state[p])
  /\ proc_supervisor_suspend_or(p)
  /\ IF state[p].low = WAITING THEN Goto(h, "suspend") /\ Meet(h, p)
                                ELSE UNCHANGED <<pc, peer>>
  /\ UNCHANGED <<cur, chan, client, torn, req>>

SupSuspendWaiting(h) ==
  /\ From(h, "suspend")
  /\ proc_supervisor_suspend_wait(peer[h])
  /\ Goto(h, "user") /\ Part(h)
  /\ UNCHANGED <<cur, chan, client, torn, req>>

(* ECALL_SUP_RESUME, and the invocations that use the registers or the     *)
(* capabilities of the supervisee (read/write register, read/give/take     *)
(* capability), start by acquiring it; they fail if it is not suspended.   *)
SupAcquire(h, p) ==
  /\ From(h, "user")
  /\ proc_supervisor_acquire(p)
  /\ \/ Goto(h, "resume")
     \/ Goto(h, "access")
  /\ Meet(h, p)
  /\ UNCHANGED <<cur, chan, client, torn, req>>

SupResume(h) ==
  /\ From(h, "resume")
  /\ proc_supervisor_resume(peer[h])
  /\ Goto(h, "user") /\ Part(h)
  /\ UNCHANGED <<cur, chan, client, torn, req>>

(* proc_supervisor_release asserts that the supervisee is still its own;   *)
(* a failed kassert stops the hart.                                        *)
SupRelease(h) ==
  /\ From(h, "access")
  /\ IF state[peer[h]] = Plain(SUSPENDED_BUSY)
     THEN proc_supervisor_release(peer[h]) /\ Goto(h, "user") /\ Part(h)
     ELSE UNCHANGED <<state, peer>> /\ Goto(h, "hang")
  /\ UNCHANGED <<cur, chan, client, torn, req>>

----------------------------------------------------------------------------
(* Message passing.  The result of proc_receiver_wait is ignored: a        *)
(* process that was ordered to suspend does not wait, but yields alike.    *)
Wait(h, ch, missed, waiting) ==
  \/ proc_receiver_wait(cur[h], ch) /\ Goto(h, waiting)
  \/ state[cur[h]] # Plain(RUNNING) /\ UNCHANGED state /\ Goto(h, missed)

InvokeReceiver(h, ch) ==
  /\ From(h, "user")
  /\ ch \notin ServerChans /\ Receiver[ch] = cur[h]
  /\ Wait(h, ch, "yield", "parked")
  /\ UNCHANGED <<cur, peer, chan, client, torn, req>>

InvokeSender(h, ch) ==
  /\ From(h, "user")
  /\ ch \notin ServerChans /\ cur[h] \in Callers[ch] /\ Receiver[ch] # NoProc
  /\ proc_sender_acquire(Receiver[ch], ch)
  /\ Goto(h, "sending") /\ Meet(h, Receiver[ch])
  /\ UNCHANGED <<cur, chan, client, torn, req>>

SendDone(h) ==
  /\ From(h, "sending")
  /\ proc_sender_release(peer[h])
  /\ Goto(h, "user") /\ Part(h)
  /\ UNCHANGED <<cur, chan, client, torn, req>>

(* A server replies to the process in receivers[ch][1], if that process is *)
(* waiting on the channel, and then waits for the next request.            *)
InvokeServer(h, ch) ==
  /\ From(h, "user")
  /\ ch \in ServerChans /\ Receiver[ch] = cur[h]
  /\ On(h, ch)
  /\ \/ /\ client[ch] # NoProc
        /\ proc_sender_acquire(client[ch], ch)
        /\ Goto(h, "replying") /\ Meet(h, client[ch])
     \/ /\ client[ch] # NoProc => state[client[ch]] # Word(ch, WAITING)
        /\ Goto(h, "server_wait")
        /\ UNCHANGED <<state, peer>>
  /\ req' = [req EXCEPT ![ch] = NoProc]
  /\ UNCHANGED <<cur, client, torn>>

ReplyDone(h) ==
  /\ From(h, "replying")
  /\ proc_sender_release(peer[h])
  /\ Goto(h, "server_wait") /\ Part(h)
  /\ UNCHANGED <<cur, chan, client, torn, req>>

ServerWait(h) ==
  /\ From(h, "server_wait")
  /\ Wait(h, chan[h], "yield", "parked") /\ On(h, 0)
  /\ UNCHANGED <<cur, peer, client, torn, req>>

(* A client takes the server, fills in its request, subscribes to replies  *)
(* if nobody has, waits, and only then lets the server go.                 *)
InvokeClient(h, ch) ==
  /\ From(h, "user")
  /\ ch \in ServerChans /\ cur[h] \in Callers[ch] /\ Receiver[ch] # NoProc
  /\ proc_sender_acquire(Receiver[ch], ch)
  /\ Goto(h, "calling") /\ Meet(h, Receiver[ch]) /\ On(h, ch)
  /\ req' = [req EXCEPT ![ch] = cur[h]]
  /\ UNCHANGED <<cur, client, torn>>

(* Mutant: the server is let go before the client waits.                   *)
MutSubscribeReleases(h) ==
  /\ From(h, "calling")
  /\ client' = IF client[chan[h]] = NoProc
               THEN [client EXCEPT ![chan[h]] = cur[h]] ELSE client
  /\ proc_sender_release(peer[h])
  /\ Goto(h, "client_wait")
  /\ UNCHANGED <<cur, peer, chan, torn, req>>

Subscribe(h) ==
  /\ From(h, "calling")
  /\ client' = IF client[chan[h]] = NoProc
               THEN [client EXCEPT ![chan[h]] = cur[h]] ELSE client
  /\ Goto(h, "client_wait")
  /\ UNCHANGED <<state, cur, peer, chan, torn, req>>

ClientWait(h) ==
  /\ From(h, "client_wait")
  /\ Wait(h, chan[h], "client_missed", "client_parked") /\ On(h, 0)
  /\ UNCHANGED <<cur, peer, client, torn, req>>

ClientDone(h) ==
  /\ pc[h] \in {"client_missed", "client_parked"}
  /\ proc_sender_release(peer[h])
  /\ Goto(h, IF From(h, "client_missed") THEN "yield" ELSE "parked") /\ Part(h)
  /\ UNCHANGED <<cur, chan, client, torn, req>>

----------------------------------------------------------------------------
UserStep(h) ==
  \/ \E p \in Supervisees[cur[h]] : SupSuspend(h, p) \/ SupAcquire(h, p)
  \/ \E ch \in Channels :
       \/ InvokeReceiver(h, ch) \/ InvokeSender(h, ch)
       \/ InvokeServer(h, ch)   \/ InvokeClient(h, ch)

(* The kernel runs with interrupts off: it does not stop between these.    *)
KernelStep(h) ==
  \/ ReleaseCheck(h) \/ ReleaseAnd(h)
  \/ SupSuspendWaiting(h) \/ SupResume(h) \/ SupRelease(h)
  \/ SendDone(h) \/ ReplyDone(h) \/ ServerWait(h)
  \/ Subscribe(h) \/ ClientWait(h) \/ ClientDone(h)

HartStep(h) ==
  \/ SchedStart(h) \/ TimerOrYield(h) \/ KernelStep(h)
  \/ From(h, "user") /\ UserStep(h)

Next == \E h \in Harts : HartStep(h)

Spec == Init /\ [][Next]_vars

(* A hart in the kernel goes on; the timer of a time slice always fires,   *)
(* and a pending interrupt is taken on the way to user mode.               *)
Fairness == \A h \in Harts : WF_vars(KernelStep(h)) /\ SF_vars(TimerOrYield(h))

FairSpec == Spec /\ Fairness
----------------------------------------------------------------------------
(* Who is using process p: the hart that runs it, a hart that fills its    *)
(* registers with a message, a supervisor's hart.                          *)
Running(h, p)     == pc[h] \in Runs /\ cur[h] = p
Filling(h, p)     == pc[h] \in Fills /\ peer[h] = p
Supervising(h, p) == pc[h] \in {"suspend", "resume", "access"} /\ peer[h] = p
Uses(h, p) == Running(h, p) \/ Filling(h, p) \/ Supervising(h, p)

TypeOK ==
  /\ StateTypeOK
  /\ pc \in [Harts -> Labels]
  /\ cur \in [Harts -> Procs \union {NoProc}]
  /\ peer \in [Harts -> Procs \union {NoProc}]
  /\ chan \in [Harts -> Channels \union {0}]
  /\ client \in [Channels -> Procs \union {NoProc}]
  /\ torn \subseteq Procs
  /\ req \in [Channels -> Procs \union {NoProc}]

(* A process is used by one party at a time: by the hart that runs it, or  *)
(* the hart that fills it with a message, or the hart of its supervisor    *)
(* (the state word is the only lock its registers and capabilities have).  *)
(* True of every process that no late release has torn.                    *)
Exclusive ==
  \A p \in Procs \ torn :
    /\ \A g, h \in Harts : Uses(g, p) /\ Uses(h, p) => g = h
    /\ \A h \in Harts : /\ ~(Running(h, p) /\ Filling(h, p))
                        /\ ~(Running(h, p) /\ Supervising(h, p))

(* The state word tells who uses the process, so that the compare-and-set  *)
(* of any other party fails.                                               *)
WordTellsUser ==
  \A p \in Procs \ torn, h \in Harts :
    /\ Running(h, p) => state[p].low \in {RUNNING, RUNNING_THEN_SUSPEND}
    /\ Filling(h, p) => state[p].low \in {RECEIVING, RECEIVING_THEN_SUSPEND}
    /\ Supervising(h, p) => state[p].low = SUSPENDED_BUSY
    /\ Supervising(h, p) /\ pc[h] # "suspend" => state[p].ch = 0

(* The kassert of proc_supervisor_release fails only for a torn process.   *)
AssertUnlessTorn == \A h \in Harts : From(h, "hang") => peer[h] \in torn

(* proc_supervisor_release: kassert(proc->state == SUSPENDED_BUSY).        *)
ReleaseAssertHolds == \A h \in Harts : ~From(h, "hang")

(* README: the registers and capabilities of a process are read, written,  *)
(* given and taken only while the process is suspended.                    *)
AccessOnlySuspended ==
  \A g, h \in Harts : ~(From(g, "access") /\ Running(h, peer[g]))

(* syscall_invoke_client subscribes to the replies of its channel, so a    *)
(* waiting client is the one that the server will reply to.                *)
WaitingClientSubscribed ==
  \A ch \in ServerChans : \A p \in Callers[ch] :
    state[p] = Word(ch, WAITING) => client[ch] = p

(* A client does not wait for a server that waits for clients.             *)
NoMutualWait ==
  \A ch \in ServerChans : \A p \in Callers[ch] \ {Receiver[ch]} :
    Receiver[ch] \in Procs \ torn
      => ~(state[p] = Word(ch, WAITING) /\ state[Receiver[ch]] = Word(ch, WAITING))

(* A server's reply goes to the client whose request it was given last.    *)
ReplyToRequester ==
  [][\A h \in Harts :
       From(h, "user") /\ pc'[h] = "replying" /\ {cur[h], peer'[h]} \cap torn = {}
         => peer'[h] = req[chan'[h]]]_vars

(* An order to suspend a process that runs or receives is not lost on the  *)
(* way: whoever releases the process leaves it suspended.                  *)
SuspendTakesEffect ==
  \A p \in Procs :
    state[p].low \in {RUNNING_THEN_SUSPEND, RECEIVING_THEN_SUSPEND}
      ~> state[p].low = SUSPENDED
============================================================================
