-------------------------------- MODULE Ipc --------------------------------
(***************************************************************************)
(* What the invocations of Harts do to registers (src/syscall.c): a message*)
(* or a reply fills those of a process that waits, a client is told in a0  *)
(* that it was interrupted, a supervisor writes those of a process it has  *)
(* suspended.  Every step is a step of Harts or a store in between.        *)
(*                                                                         *)
(* Of a process that runs, nothing is said: its hart loads the registers   *)
(* when it takes the process and saves them at the next trap.  The results *)
(* of calls that do not block stay in the hart.                            *)
(***************************************************************************)
EXTENDS Harts

VARIABLES
  regs,    \* regs[p]: a0 and, as their author, a1 to a4 in the memory of p
  stores,  \* stores[h]: the stores hart h has done at its control point
  told     \* history: what p is to find in its registers

rvars == <<regs, stores, told>>
allvars == <<vars, rvars>>

(* A message of process p; and what else can be there: what the process    *)
(* computed ("own"), the arguments of its call, the error of a call that   *)
(* was interrupted, the word of a supervisor.                              *)
Message(p) == [a0 |-> "ok", from |-> p]
Plainly(a) == [a0 |-> a, from |-> NoProc]

RegsInit ==
  /\ Init
  /\ regs = [p \in Procs |-> Plainly("own")]
  /\ stores = [h \in Harts |-> 0]
  /\ told = [p \in Procs |-> Plainly("own")]

(* Another hart has yet to store the error of p's last call: nothing is    *)
(* certain about p's registers if they are used before it has.             *)
Pending(p)  == \E h \in Harts : From(h, "client_parked") /\ cur[h] = p /\ stores[h] = 0
Sure(p, r)  == IF Pending(p) THEN Plainly("unsure") ELSE r
Tell(p, r)  == told' = [told EXCEPT ![p] = Sure(p, r)]
Keep(p, r)  == regs' = [regs EXCEPT ![p] = r]

----------------------------------------------------------------------------
(* trap_resume_proc loads the registers, a trap saves them.                *)
Load(h) ==
  /\ SchedStart(h)
  /\ Keep(cur'[h], Plainly("own")) /\ Tell(cur'[h], Plainly("own"))
  /\ UNCHANGED stores

Save(h) ==
  /\ TimerOrYield(h)
  /\ Keep(cur[h], Plainly("own"))
  /\ UNCHANGED <<stores, told>>

(* A receiver, or a server, that is sent nothing finds its arguments.      *)
Receive(h, ch) ==
  /\ InvokeReceiver(h, ch)
  /\ Keep(cur[h], Plainly("call")) /\ Tell(cur[h], Plainly("call"))
  /\ UNCHANGED stores

Send(h, ch) ==
  /\ InvokeSender(h, ch)
  /\ Tell(Receiver[ch], Message(cur[h]))
  /\ UNCHANGED <<regs, stores>>

Serve(h, ch) ==
  /\ InvokeServer(h, ch)
  /\ Keep(cur[h], Plainly("call"))
  /\ told' = [p \in Procs |->
       IF p = cur[h] THEN Sure(p, Plainly("call"))
       ELSE IF pc'[h] = "replying" /\ p = peer'[h] THEN Sure(p, Message(cur[h]))
       ELSE told[p]]
  /\ UNCHANGED stores

(* A client that gets no reply finds that it was interrupted.              *)
CallServer(h, ch) ==
  /\ InvokeClient(h, ch)
  /\ Keep(cur[h], Plainly("call"))
  /\ told' = [told EXCEPT ![cur[h]] = Sure(cur[h], Plainly("interrupted")),
                          ![Receiver[ch]] = Sure(Receiver[ch], Message(cur[h]))]
  /\ UNCHANGED stores

(* The supervisor takes the process with the registers it has.             *)
Seize(h, p) ==
  /\ SupAcquire(h, p)
  /\ Tell(p, told[p])
  /\ UNCHANGED <<regs, stores>>

----------------------------------------------------------------------------
(* a0 = ERROR_OK, and the words of the message.                            *)
StoreMessage(h) ==
  /\ pc[h] \in {"sending", "replying", "calling"} /\ stores[h] < 2
  /\ Keep(peer[h], IF stores[h] = 0 THEN [regs[peer[h]] EXCEPT !.a0 = "ok"]
                                    ELSE [regs[peer[h]] EXCEPT !.from = cur[h]])
  /\ stores' = [stores EXCEPT ![h] = @ + 1]
  /\ UNCHANGED <<vars, told>>

(* a0 = ERROR_INTERRUPTED, whether the client waits or not.                *)
StoreInterrupted(h) ==
  /\ pc[h] \in {"client_missed", "client_parked"} /\ stores[h] = 0
  /\ Keep(cur[h], [regs[cur[h]] EXCEPT !.a0 = "interrupted"])
  /\ stores' = [stores EXCEPT ![h] = 1]
  /\ UNCHANGED <<vars, told>>

After(h, n) ==
  /\ stores[h] = n /\ stores' = [stores EXCEPT ![h] = 0]
  /\ UNCHANGED <<regs, told>>

(* Mutant: a client that waits is not told. *)
MutToldDone(h) ==
  /\ ClientDone(h)
  /\ IF From(h, "client_parked") THEN UNCHANGED rvars ELSE After(h, 1)

MessageDone(h) == (SendDone(h) \/ ReplyDone(h) \/ Subscribe(h)) /\ After(h, 2)
ToldDone(h)    == ClientDone(h) /\ After(h, 1)

(* ECALL_SUP_WRITE_REG, before the release; the other operations leave the *)
(* registers alone.                                                        *)
AccessDone(h) ==
  /\ SupRelease(h)
  /\ \/ Keep(peer[h], Plainly("written")) /\ Tell(peer[h], Plainly("written"))
     \/ UNCHANGED <<regs, told>>
  /\ UNCHANGED stores

(* The other steps touch no registers.                                     *)
OtherStep(h) ==
  /\ \/ ReleaseCheck(h) \/ ReleaseAnd(h) \/ SupSuspendWaiting(h) \/ SupResume(h)
     \/ ServerWait(h) \/ ClientWait(h)
  /\ UNCHANGED rvars

SuspendStep(h, p) == SupSuspend(h, p) /\ UNCHANGED rvars

----------------------------------------------------------------------------
RegsUserStep(h) ==
  \/ \E p \in Supervisees[cur[h]] : SuspendStep(h, p) \/ Seize(h, p)
  \/ \E ch \in Channels :
       Receive(h, ch) \/ Send(h, ch) \/ Serve(h, ch) \/ CallServer(h, ch)

RegsKernelStep(h) ==
  \/ StoreMessage(h) \/ StoreInterrupted(h)
  \/ MessageDone(h) \/ ToldDone(h) \/ AccessDone(h) \/ OtherStep(h)

RegsNext == \E h \in Harts :
  \/ Load(h) \/ Save(h) \/ RegsKernelStep(h)
  \/ From(h, "user") /\ RegsUserStep(h)

RegsSpec == RegsInit /\ [][RegsNext]_allvars

(* The fairness of Harts, with the stores among the kernel's steps.        *)
FairRegsSpec ==
  RegsSpec /\ \A h \in Harts : WF_allvars(RegsKernelStep(h)) /\ SF_allvars(Save(h))
----------------------------------------------------------------------------
Contents(a) == [a0 : {"own", "call", "ok", "interrupted", "written"} \union a,
                from : Procs \union {NoProc}]

RegsTypeOK ==
  /\ regs \in [Procs -> Contents({})]
  /\ told \in [Procs -> Contents({"unsure"})]
  /\ stores \in [Harts -> 0 .. 2]
  /\ \A h \in Harts : stores[h] > 0 =>
       pc[h] \in {"sending", "replying", "calling", "client_missed", "client_parked"}

(* syscall.c: a process finds in its registers what it is to find: one     *)
(* sender's message, whole, if one was sent to it, else that its call was  *)
(* interrupted or the arguments of its receive, and what a supervisor wrote*)
(* over them.  Two cases are left out: a process that a late release has   *)
(* torn, and one that a supervisor took while the error of its call had    *)
(* yet to be stored.                                                       *)
FindsWhatItWasTold ==
  [][\A h \in Harts :
       From(h, "sched") /\ pc'[h] = "user" /\ cur'[h] \notin torn /\ told[cur'[h]].a0 # "unsure"
         => regs[cur'[h]] = told[cur'[h]]]_allvars

(* A message that was sent is not replaced by another one before its       *)
(* receiver has run.                                                       *)
OneMessagePerWait ==
  [][\A p \in Procs \ torn :
       told[p].a0 = "ok" /\ told'[p].a0 = "ok" => told'[p] = told[p]]_allvars
=============================================================================
