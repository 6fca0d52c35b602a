-------------------------------- MODULE Caps --------------------------------
(***************************************************************************)
(* The capability system: the slots of the processes, the lists that link  *)
(* them (here in the order CapSeq promises), and the two tables the slots  *)
(* are mirrored in, the schedule (src/sched.c) and the receivers           *)
(* (src/syscall.c).  A system call that changes capabilities takes several *)
(* steps, and the processes run on different harts, so the steps of        *)
(* different calls interleave.  The slots of a process are used by itself  *)
(* or by the one process that holds it (supervisor or sender): that is     *)
(* what the state word is for, and Harts checks.                           *)
(***************************************************************************)
EXTENDS CapRules, FiniteSets, NodeList

CONSTANTS
  Procs,      \* the pids 0 .. N_PROC - 1; 0 is the root process
  Slots,      \* <<p, i>>: slot i of the capability table of process p
  HartIds,    \* MIN_HARTID .. MAX_HARTID
  NQuantum,   \* N_QUANTUM
  NChannels,  \* N_CHANNELS
  Boot,       \* Boot[i]: the capability of the root's slot i after boot
  Words,      \* the capabilities a user may ask for
  None        \* NULL and INVALID_PID

Quanta   == 0 .. NQuantum - 1
Channels == 0 .. NChannels - 1

(* c and d do not give their holders the same quantum, channel or process. *)
Apart(c, d) ==
  /\ \A h \in HartIds, q \in Quanta : ~(OwnsQuantum(c, h, q) /\ OwnsQuantum(d, h, q))
  /\ \A ch \in Channels : ~(OwnsChannel(c, ch) /\ OwnsChannel(d, ch))
  /\ \A n \in Procs : ~(OwnsPid(c, n) /\ OwnsPid(d, n))

(* The capabilities that proc_init makes for the root are apart.           *)
ASSUME CapsAssumption ==
  /\ NQuantum \in Nat \ {0} /\ NChannels \in Nat
  /\ HartIds \subseteq Nat
  /\ 0 \in Procs /\ Procs \subseteq Nat /\ None \notin Procs
  /\ Slots \subseteq Procs \X Nat
  /\ Words \subseteq Cap
  /\ \A i \in DOMAIN Boot : <<0, i>> \in Slots /\ Boot[i] \in Cap
  /\ \A i, j \in DOMAIN Boot : i # j => Apart(Boot[i], Boot[j])

Families == {"time", "channels", "supervisor"}

(* They have given out nothing yet, and something to give; those for time  *)
(* end with the last quantum, as the slices of sched_init do.              *)
ASSUME BootAssumption ==
  /\ None \notin Channels /\ None \notin Slots
  /\ IsFiniteSet(DOMAIN Boot)
  /\ \A i \in DOMAIN Boot :
       /\ Boot[i].type \in Families
       /\ Boot[i].free = Boot[i].begin /\ Boot[i].begin < Boot[i].end
       /\ Boot[i].type = "time" => Boot[i].end = NQuantum /\ Boot[i].hartid \in HartIds
       /\ Boot[i].type = "channels" => Boot[i].end <= NChannels
       /\ Boot[i].type = "supervisor" => Boot[i].begin .. Boot[i].end - 1 \subseteq Procs

Table(p) == {s \in Slots : s[1] = p}

VARIABLES
  cap,       \* cap[s]: the capability of slot s
  live,      \* the slots that are not deleted (prev is not NULL)
  order,     \* order[f]: the live slots of a family, as the list has them
  schedule,  \* schedule[h][q]: a pid (or None) and a length
  receiver,  \* receivers[ch][0]
  client,    \* receivers[ch][1]
  pc,        \* pc[p]: where process p is in its system call, or in whose
             \* hands it is
  src, dst,  \* src[p], dst[p]: the slots of p's system call
  new,       \* new[p]: the capability it has read or made
  peer,      \* peer[p]: the process p holds
  wait       \* wait[p]: the channel p waits at, or is about to wait at

vars == <<cap, live, order, schedule, receiver, client,
          pc, src, dst, new, peer, wait>>

call == <<src, dst, new, peer, wait>>

Family(c) == CASE c.type \in {"time", "channels", "supervisor"} -> c.type
               [] c.type \in Endpoints -> "channels"

(* proc_init and sched_init: the root has all the capabilities and runs in *)
(* every quantum.  The boot capabilities of a family are linked each       *)
(* directly after the sentinel.                                            *)
BootOrder(f) ==
  LET S == {<<0, i>> : i \in {k \in DOMAIN Boot : Family(Boot[k]) = f}}
  IN  {l \in [1 .. Cardinality(S) -> S] :
         Range(l) = S /\ \A i, j \in DOMAIN l : i < j => l[i][2] > l[j][2]}

Init ==
  /\ cap = [s \in Slots |-> IF s[1] = 0 /\ s[2] \in DOMAIN Boot
                            THEN Boot[s[2]] ELSE NULL_CAP]
  /\ live = {<<0, i>> : i \in DOMAIN Boot}
  /\ order \in [Families -> UNION {BootOrder(f) : f \in Families}]
  /\ \A f \in Families : order[f] \in BootOrder(f)
  /\ schedule = [h \in HartIds |-> [q \in Quanta |->
                   [pid |-> 0, length |-> NQuantum - q]]]
  /\ receiver = [ch \in Channels |-> None]
  /\ client = [ch \in Channels |-> None]
  /\ pc = [p \in Procs |-> "user"]
  /\ src = [p \in Procs |-> None] /\ dst = src
  /\ new = [p \in Procs |-> NULL_CAP]
  /\ peer = [p \in Procs |-> None] /\ wait = [p \in Procs |-> None]

Labels == {"user", "held", "waiting", "hang", "revoke", "hook", "insert",
           "move_insert", "delete", "delete_hook",
           "xfer_hook", "xfer_insert", "xfer_delete", "release"}

User(p) == pc[p] = "user"
Goto(p, l) == pc' = [pc EXCEPT ![p] = l]

(* The locals of a system call of p.                                       *)
Call(p, s, t, c, q, ch) ==
  /\ src' = [src EXCEPT ![p] = s] /\ dst' = [dst EXCEPT ![p] = t]
  /\ new' = [new EXCEPT ![p] = c] /\ peer' = [peer EXCEPT ![p] = q]
  /\ wait' = [wait EXCEPT ![p] = ch]

(* The call goes on at l; back in user mode it has no locals.              *)
Continue(p, l) ==
  /\ Goto(p, l)
  /\ IF l = "user" THEN Call(p, None, None, NULL_CAP, None, None)
                   ELSE UNCHANGED call

----------------------------------------------------------------------------
(* A slot is linked directly after another, and taken out.                 *)
Link(s, t, c) ==
  /\ cap' = [cap EXCEPT ![t] = c]
  /\ live' = live \union {t}
  /\ order' = [order EXCEPT ![Family(c)] = InsertAfter(@, s, t)]

(* Mutant: the deleted node stays in the list. *)
MutUnlink(s) ==
  /\ live' = live \ {s}
  /\ cap' = [cap EXCEPT ![s] = Stale(@)]
  /\ UNCHANGED order

Unlink(s) ==
  /\ live' = live \ {s}
  /\ order' = [order EXCEPT ![Family(cap[s])] = TakeOut(@, s)]
  /\ cap' = [cap EXCEPT ![s] = Stale(@)]

(* sched_get_proc: whom hart h runs in quantum q; a hart with a lower id   *)
(* that has the same process comes first.                                  *)
sched_get_proc(h, q) ==
  LET p == schedule[h][q].pid
  IN  IF \E l \in HartIds : l < h /\ schedule[l][q].pid = p THEN None ELSE p

(* Mutant: every slice gets the length of the whole range. *)
MutSchedUpdate(q, node, c) ==
  schedule' = IF node \in live
              THEN [schedule EXCEPT ![c.hartid] = [i \in Quanta |->
                      IF c.free <= i /\ i < c.end
                      THEN [pid |-> q, length |-> c.end - c.free] ELSE @[i]]]
              ELSE schedule

(* Mutant: the loop ends before the last quantum. *)
MutSchedUpdateEndsEarly(q, node, c) ==
  schedule' = IF node \in live
              THEN [schedule EXCEPT ![c.hartid] = [i \in Quanta |->
                      IF c.free <= i /\ i + 1 < c.end
                      THEN [pid |-> q, length |-> c.end - i] ELSE @[i]]]
              ELSE schedule

(* sched_update: the quanta from free to end run q, unless the node was    *)
(* deleted; the loop runs under the ticket lock.                           *)
sched_update(q, node, c) ==
  schedule' = IF node \in live
              THEN [schedule EXCEPT ![c.hartid] = [i \in Quanta |->
                      IF c.free <= i /\ i < c.end
                      THEN [pid |-> q, length |-> c.end - i] ELSE @[i]]]
              ELSE schedule

(* cap_update_hook for processes' capabilities that are mirrored in a table*)
cap_update_hook(q, node, c) ==
  /\ IF c.type = "time" THEN sched_update(q, node, c) ELSE UNCHANGED schedule
  /\ IF c.type \in {"receiver", "server"} /\ node \in live
     THEN /\ receiver' = [receiver EXCEPT ![c.channel] = q]
          /\ client' = IF q = None THEN [client EXCEPT ![c.channel] = None]
                       ELSE client
     ELSE UNCHANGED <<receiver, client>>

(* sched_update's first kassert; its others hold of every capability.      *)
HookAsserts(c) == c.type = "time" => c.free < c.end

----------------------------------------------------------------------------
(* System calls on the caller's own slots.                                 *)

(* Mutant: the parent is left as it was. *)
MutDerive(p, s, t, c) ==
  /\ User(p)
  /\ s \in live /\ t \notin live
  /\ cap_can_derive(cap[s], c)
  /\ Call(p, s, t, c, None, None)
  /\ Goto(p, "hook")
  /\ UNCHANGED <<cap, live, order, schedule, receiver, client>>

(* syscall_derive_cap.  Preempted before its first write it starts again   *)
(* from user mode, with nothing changed.                                   *)
Derive(p, s, t, c) ==
  /\ User(p)
  /\ s \in live /\ t \notin live
  /\ cap_can_derive(cap[s], c)
  /\ cap' = [cap EXCEPT ![s] = derive_update_cap(@, c)]
  /\ Call(p, s, t, c, None, None)
  /\ Goto(p, "hook")
  /\ UNCHANGED <<live, order, schedule, receiver, client>>

(* syscall_move_cap: no table changes, the holder is the same.             *)
Move(p, s, t) ==
  /\ User(p)
  /\ s \in live /\ t \notin live
  /\ Call(p, s, t, cap[s], None, None)
  /\ Goto(p, "move_insert")
  /\ UNCHANGED <<cap, live, order, schedule, receiver, client>>

(* syscall_delete_cap: the hook runs on a node that is deleted already.    *)
Delete(p, s) ==
  /\ User(p) /\ s \in live
  /\ Unlink(s)
  /\ Call(p, s, None, cap[s], None, None)
  /\ Goto(p, "delete_hook")
  /\ UNCHANGED <<schedule, receiver, client>>

(* syscall_revoke_cap, preemptible until it has looked at the slot.        *)
Revoke(p, s) ==
  /\ User(p)
  /\ Call(p, s, None, NULL_CAP, None, None)
  /\ Goto(p, "revoke")
  /\ UNCHANGED <<cap, live, order, schedule, receiver, client>>

(* Of a live slot it returns ERROR_EMPTY; of a deleted one the loop ends at*)
(* once, and update and hook touch nothing live.                           *)
RevokeReturn(p) ==
  /\ pc[p] = "revoke"
  /\ Continue(p, IF src[p] \notin live /\ cap[src[p]].asserts THEN "hang"
                 ELSE "user")
  /\ UNCHANGED <<cap, live, order, schedule, receiver, client>>

----------------------------------------------------------------------------
(* Moves between processes: interprocess_move, with the other process held.*)
Xfer(p, s, t, q, ch) ==
  /\ s \in live /\ t \notin live
  /\ Call(p, s, t, cap[s], q, ch)
  /\ pc' = [pc EXCEPT ![p] = "xfer_hook", ![q] = "held"]

Supervises(p, k, q) ==
  /\ User(p) /\ q # p
  /\ k \in live /\ OwnsPid(cap[k], q)

Give(p, k, q, s, t) ==
  /\ Supervises(p, k, q) /\ User(q)
  /\ Xfer(p, s, t, q, None)
  /\ UNCHANGED <<cap, live, order, schedule, receiver, client>>

Take(p, k, q, s, t) ==
  /\ Supervises(p, k, q) /\ User(q)
  /\ Xfer(p, s, t, q, None)
  /\ UNCHANGED <<cap, live, order, schedule, receiver, client>>

(* A suspended process no longer waits.                                    *)
Suspend(p, k, q) ==
  /\ Supervises(p, k, q) /\ pc[q] = "waiting"
  /\ Goto(q, "user")
  /\ wait' = [wait EXCEPT ![q] = None]
  /\ UNCHANGED <<cap, live, order, schedule, receiver, client,
                 src, dst, new, peer>>

Holds(p, k, t) == User(p) /\ k \in live /\ cap[k].type = t

(* syscall_invoke_receiver, and syscall_invoke_server when nobody waits    *)
(* for its reply.                                                          *)
Receive(p, k) ==
  /\ Holds(p, k, "receiver") \/ Holds(p, k, "server")
  /\ wait' = [wait EXCEPT ![p] = cap[k].channel]
  /\ Goto(p, "waiting")
  /\ UNCHANGED <<cap, live, order, schedule, receiver, client,
                 src, dst, new, peer>>

(* A message to q, which waits at ch, with the capability of slot i for    *)
(* slot j of q (its register dest_cidx), or without one.  Afterwards the   *)
(* caller waits at next, or goes on.                                       *)
Message(p, q, ch, next) ==
  /\ q \in Procs \ {p} /\ pc[q] = "waiting" /\ wait[q] = ch
  /\ \/ \E s \in Table(p), t \in Table(q) : Xfer(p, s, t, q, next)
     \/ /\ Call(p, None, None, NULL_CAP, q, next)
        /\ pc' = [pc EXCEPT ![p] = "release", ![q] = "held"]

Send(p, k) ==
  LET ch == cap[k].channel
  IN  /\ Holds(p, k, "sender")
      /\ Message(p, receiver[ch], ch, None)
      /\ UNCHANGED <<cap, live, order, schedule, receiver, client>>

(* The client subscribes to the reply, if nobody has yet.  The code does so*)
(* after the move; until the server is released nobody reads the entry.    *)
ClientCall(p, k) ==
  LET ch == cap[k].channel
  IN  /\ Holds(p, k, "client")
      /\ Message(p, receiver[ch], ch, ch)
      /\ client' = IF client[ch] = None THEN [client EXCEPT ![ch] = p] ELSE client
      /\ UNCHANGED <<cap, live, order, schedule, receiver>>

Reply(p, k) ==
  LET ch == cap[k].channel
  IN  /\ Holds(p, k, "server")
      /\ Message(p, client[ch], ch, ch)
      /\ UNCHANGED <<cap, live, order, schedule, receiver, client>>

----------------------------------------------------------------------------
(* The later steps of the calls.  The tables are updated for the process   *)
(* of the destination slot; a deletion passes NULL.                        *)
AfterHook == [hook |-> "insert", xfer_hook |-> "xfer_insert",
              delete_hook |-> "user"]

(* Mutant: the tables are updated for the caller. *)
MutHook(p) ==
  /\ pc[p] \in DOMAIN AfterHook
  /\ cap_update_hook(p, src[p], new[p])
  /\ Continue(p, AfterHook[pc[p]])
  /\ UNCHANGED <<cap, live, order>>

Hook(p) ==
  /\ pc[p] \in DOMAIN AfterHook
  /\ IF HookAsserts(new[p])
     THEN /\ cap_update_hook(IF dst[p] = None THEN None ELSE dst[p][1],
                             src[p], new[p])
          /\ Continue(p, AfterHook[pc[p]])
     ELSE /\ Goto(p, "hang")
          /\ UNCHANGED <<schedule, receiver, client, call>>
  /\ UNCHANGED <<cap, live, order>>

AfterInsert == [insert |-> "user", move_insert |-> "delete",
                xfer_insert |-> "xfer_delete"]

(* Mutant: the new node goes to the head of the list. *)
MutInsert(p) ==
  /\ pc[p] \in DOMAIN AfterInsert
  /\ cap' = [cap EXCEPT ![dst[p]] = new[p]]
  /\ live' = live \union {dst[p]}
  /\ order' = [order EXCEPT ![Family(new[p])] = <<dst[p]>> \o @]
  /\ Continue(p, AfterInsert[pc[p]])
  /\ UNCHANGED <<schedule, receiver, client>>

Insert(p) ==
  /\ pc[p] \in DOMAIN AfterInsert
  /\ Link(src[p], dst[p], new[p])
  /\ Continue(p, AfterInsert[pc[p]])
  /\ UNCHANGED <<schedule, receiver, client>>

DeleteSource(p) ==
  /\ pc[p] \in {"delete", "xfer_delete"}
  /\ Unlink(src[p])
  /\ Continue(p, IF pc[p] = "xfer_delete" THEN "release" ELSE "user")
  /\ UNCHANGED <<schedule, receiver, client>>

(* The other process is released; who called or replied waits.             *)
Release(p) ==
  /\ pc[p] = "release"
  /\ pc' = [pc EXCEPT ![p] = IF wait[p] = None THEN "user" ELSE "waiting",
                      ![peer[p]] = "user"]
  /\ src' = [src EXCEPT ![p] = None] /\ dst' = [dst EXCEPT ![p] = None]
  /\ new' = [new EXCEPT ![p] = NULL_CAP]
  /\ peer' = [peer EXCEPT ![p] = None]
  /\ wait' = [wait EXCEPT ![peer[p]] = None]
  /\ UNCHANGED <<cap, live, order, schedule, receiver, client>>

Step(p) ==
  \/ \E s, t \in Table(p) : \/ \E c \in Words : Derive(p, s, t, c)
                           \/ Move(p, s, t)
  \/ \E s \in Table(p) : Delete(p, s) \/ Revoke(p, s)
  \/ \E k \in Table(p), q \in Procs :
       \/ \E s \in Table(p), t \in Table(q) : Give(p, k, q, s, t)
       \/ \E s \in Table(q), t \in Table(p) : Take(p, k, q, s, t)
       \/ Suspend(p, k, q)
  \/ \E k \in Table(p) :
       Receive(p, k) \/ Send(p, k) \/ ClientCall(p, k) \/ Reply(p, k)
  \/ RevokeReturn(p) \/ Hook(p) \/ Insert(p) \/ DeleteSource(p) \/ Release(p)

Next == \E p \in Procs : Step(p)

Spec == Init /\ [][Next]_vars

----------------------------------------------------------------------------
(* Properties.                                                             *)

Entries == [pid : Procs \union {None}, length : 0 .. NQuantum]

(* The tables and locals of Caps keep their ranges.  A list has exactly    *)
(* the live slots of its family, each once.                                *)
TypeOK ==
  /\ cap \in [Slots -> Cap \union EmptyCap]
  /\ live \subseteq Slots
  /\ pc \in [Procs -> Labels]
  /\ schedule \in [HartIds -> [Quanta -> Entries]]
  /\ receiver \in [Channels -> Procs \union {None}]
  /\ client \in [Channels -> Procs \union {None}]
  /\ \A f \in Families : Lists(order[f], {s \in live : Family(cap[s]) = f})

(* The source of a move, once its copy is linked: on its way out.          *)
Leaving(s) == \E p \in Procs : pc[p] \in {"delete", "xfer_delete"} /\ src[p] = s
Held == {s \in live : ~Leaving(s)}

(* Whatever processes derive, move, give, send and delete, a quantum of a  *)
(* hart, a channel and a supervised process belong to one capability: the  *)
(* isolation that syscall_derive_cap and the order of steps of             *)
(* cap_node_move have to keep.                                             *)
OneOwner == \A s, t \in Held : s # t => Apart(cap[s], cap[t])

(* The source slot of a move between processes whose hook has run: the     *)
(* tables show the new holder before the lists do.                         *)
Promised(s) ==
  \E p \in Procs : pc[p] \in {"xfer_insert", "xfer_delete"} /\ src[p] = s
Settled == {s \in live : ~Promised(s)}

(* Who holds a quantum is in the schedule for it, with a slice that lasts  *)
(* to the end of the capability: cap_update_hook keeps the schedule right  *)
(* although it runs before the insertion and outside any common lock.      *)
ScheduleFollowsCaps ==
  \A s \in Settled : \A h \in HartIds, q \in Quanta :
    OwnsQuantum(cap[s], h, q) =>
      schedule[h][q] = [pid |-> s[1], length |-> cap[s].end - q]

(* Who holds a receiver or server capability is the channel's receiver.    *)
ReceiverFollowsCaps ==
  \A s \in Settled : cap[s].type \in {"receiver", "server"} =>
    receiver[cap[s].channel] = s[1]

(* A process that holds a quantum of a hart is run in it, by that hart or  *)
(* by one of a lower id whose schedule has it too (sched_get_proc).        *)
OwnerIsServed ==
  \A s \in Settled : \A h \in HartIds, q \in Quanta :
    OwnsQuantum(cap[s], h, q) =>
      \E l \in HartIds : l <= h /\ sched_get_proc(l, q) = s[1]

Before(s, t) == Ahead(order[Family(cap[s])], s, t)

(* The children of a capability directly follow it in its list, apart from *)
(* the source of an unfinished move: syscall_revoke_cap walks on from the  *)
(* node and stops at the first that is not a child.  (Two capabilities that*)
(* have given out the same whole range are children of each other by the   *)
(* rule; of those the older one stands first.)                             *)
ChildrenFollow ==
  \A s, t \in Held : s # t /\ cap_is_child(cap[s], cap[t]) =>
    \/ /\ Before(s, t)
       /\ \A m \in Held : Before(s, m) /\ Before(m, t) => cap_is_child(cap[s], cap[m])
    \/ Before(t, s) /\ cap_is_child(cap[t], cap[s])

(* A message is delivered to a process that has the receiver or the server *)
(* capability of its channel, though receivers[ch][0] is never cleared.    *)
MessageReachesHolder ==
  \A p \in Procs : \A ch \in Channels :
    pc[p] = "waiting" /\ wait[p] = ch /\ receiver[ch] = p =>
      \E s \in Held : /\ s[1] = p
                      /\ cap[s].type \in {"receiver", "server"}
                      /\ cap[s].channel = ch

(* sched.c:127, kassert(begin < end), whenever the hook is called.         *)
ScheduleAssertHolds ==
  \A p \in Procs : pc[p] \in DOMAIN AfterHook => HookAsserts(new[p])

(* README.md, s3k_revoke_cap: "Delete all children of capability in slot   *)
(* i": when the call returns, a live capability has no child.              *)
RevokeDeletesChildren ==
  [][\A p \in Procs :
       pc[p] = "revoke" /\ pc'[p] = "user" /\ src[p] \in live =>
         ~\E t \in live' : cap_is_child(cap[src[p]], cap'[t])]_vars
=============================================================================
