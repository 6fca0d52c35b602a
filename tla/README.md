# A model of the S3K separation kernel

S3K is a small separation kernel for RISC-V: a fixed number of processes, a time-triggered
scheduler on every hart, and capabilities for time slices, channels, supervision and memory.
There is no kernel lock. Processes are handed from hart to hart by one word of state, and
capabilities are linked in lists that every hart changes with compare-and-set. This
directory holds TLA+ modules of the kernel, the TLC runs that check them on small systems,
and proofs, checked by TLAPS, of the properties that matter most.

Paths below are relative to the repository. Line numbers are in `PROJECT.json`.

## Inventory

| Component | State | Operations | Interacts with | Must hold |
|---|---|---|---|---|
| State word (`inc/proc_state.h`) | `proc->state`: channel and one of eight states | acquire, release, suspend, resume, wait, send | everything that touches a process | a process is used by one party; orders to suspend take effect |
| Harts (`src/sched.c`, `src/trap.S`) | `current` per hart, timer | take the process of the next slice, run it, release it | state word, schedule, system calls | a process runs on one hart |
| Schedule and time (`src/sched.c`) | `schedule[quantum][hart]`, `lock`, timer registers, `regs.timeout` | read an entry, choose a slice, wait for it, end it; `sched_update` | harts, capability hook, yield | who owns a quantum is run in it, and only he; no quantum is passed over |
| Capability list (`inc/cap_node.h`) | `prev`, `next` of every slot, four sentinels | insert, delete, move | derive, move, delete, revoke | no node is lost; order is kept |
| Capability rules (`gen/cap.yml`, generated header) | none | `cap_is_child`, `cap_can_derive` | derive, revoke | children get a part, never more |
| Capability calls (`src/syscall.c`) | slots, `receivers[ch][0..1]` | move, delete, derive, revoke, give, take, send, call, reply | list, rules, schedule, state word | one owner for every quantum, channel, process; tables show the owner |
| Ticket lock (`inc/lock.h`) | two counters | acquire, release | schedule, receivers, console | mutual exclusion, first come first served |
| Registers (`inc/proc.h`, `src/syscall.c`) | `regs` | messages, results of calls that block, writes of a supervisor | harts, state word | a message arrives whole, once, or the call says why not |
| Memory protection (`src/proc.c`) | PMP registers | `proc_load_pmp` | harts, capabilities | a process reaches its frames only |
| Traps (`src/trap.S`, `src/exception.c`, `inc/preemption.h`) | registers, `mscratch`, `mepc`, interrupt enable; `ppc`, `psp`, ... | enter, serve, be preempted, restore; enter and leave the user's handler | harts, system calls | a process sees nothing of interrupts; a call is atomic and answered |
| Encoding (`scripts/cap_gen.py`) | none | pack and unpack fields | rules | round trip |
| Boot, console, user library | - | - | - | not modelled |

The hard part is concurrency. Interrupts are off in the kernel (but for a window in derive
and revoke, and another where registers are restored: `Trap`), so a hart is only disturbed by other harts, at every access to shared memory:
the state words, the links, the tables. Nothing is persistent and no message is lost or
repeated by a network; there is no crash and no recovery, except that a failed `kassert`
stops a hart for good. `PROJECT.json` lists, as hazards, the places where this code can go wrong in a way
that a test would hardly reach.

## Modules

| Module | Models | State and code |
|---|---|---|
| `ProcState` | `inc/proc_state.h` | `state[p]` is the word; one action per atomic access |
| `Harts` | `sched_start`, `sched_yield`, the trap, the invocations of `syscall.c` | `pc[h]` stops before every shared access, `cur` is `current`, `client` is `receivers[ch][1]` |
| `NodeList` | what an insertion and a deletion do to the list | operators on sequences, shared by `CapSeq` and `Caps` |
| `CapSeq` | what the list promises | a sequence that changes one element at a time |
| `CapList` | `inc/cap_node.h` | `prev`, `next`; locals of insert and delete |
| `CapRules` | `gen/cap.yml`, `derive_update_cap`, `revoke_update_cap` | pure operators on records |
| `Ipc` | what the invocations store in registers | extends `Harts`: every action is one of `Harts` with its effect on `regs`, or a store in between |
| `Sched` | `sched_start`, `sched_get_proc`, `wait_and_set_timeout`, `sched_yield`, `sched_update`, `syscall_yield` | `schedule`, `mtimecmp`, the locals of `sched_start` (`slice`), a clock (`now`) |
| `UserView` | what a process may see of traps | its registers, whether it runs, calls, waits for a message or none of these |
| `Trap` | `trap_entry`, `trap_syscall`, `trap_resume_proc`, `exception_handler`, the preemption windows | live and saved registers, `mscratch`, `mepc`, interrupt enable (`mie`); who is `blocked` |
| `Caps` | capability calls, `cap_update_hook`, `sched_update`, `sched_get_proc`, `proc_init` | slots (`cap`, `live`), lists (`order`), `schedule`, `receiver` and `client`; `pc[p]` is a process's place in its call |
| `FifoLock` | what a ticket lock promises | a queue |
| `TicketLock` | `inc/lock.h` | the two counters, wrapping around |
| `MCHarts`, `MCIpc`, `MCCapList`, `MCCaps`, `MCSched`, `MCTrap` | - | small instances for TLC |
| `HartsProofs`, `IpcProofs`, `SchedProofs`, `TrapProofs`, `CapListProofs`, `CapsProofs`, `TicketLockProofs`; lemmas in `NodeListProofs` | - | theorems |

How they fit together. `Harts` extends `ProcState` and shows that a process, with its registers
and slots, is in one pair of hands. `CapList` relies on that (a hart works on slots it
holds) and shows that the list behaves like `CapSeq`. `Caps` relies on both: the slots of
a process are used by itself or by the one process that holds it, and an insertion or deletion is one step of a
sequence. `TicketLock` implements `FifoLock`, and `Caps` and `Sched` rely on it where `sched_update`
and the hook hold a lock: their critical sections are one step.

`Ipc` is superposed on `Harts`: it adds what is stored in registers and when, and restricts nothing
(`RegistersImplementHarts`). `Sched` fills in what is a free choice in `Harts`, the time slice, and
keeps of the state word only whether a process has been acquired. `Trap` fills in what `Harts` calls a
trap and a return: it keeps of the calls what they answer and in which registers, that they block, and where they may
be preempted. What ends a wait is the environment's there (`Message`, `Resumed`). A process is acquired by one hart in both, as `Harts` shows.

`CapRules` reads the generated header `api/s3k_cap.h`, which has the same predicates as the
kernel's own generated `cap.h`.

### What is abstracted

* Memory is sequentially consistent. The kernel's inline assembly for compare-and-set has
  acquire but no release semantics on 64 bits; reorderings by the machine or the compiler are outside the model.
* `Harts`: time is a free choice among the processes that have slices on a hart (`Slots`),
  so every interleaving of slices is included; registers are left to `Ipc`; who holds
  which capability is constant. The locals of a hart that is back in its loop are forgotten. `proc_supervisor_release`'s assertion and store are one step.
  Calls that touch no other process (reading registers, `get_pid`) are steps in user mode.
  `InvokeServer` takes the load of `receivers[ch][1]` together with the compare-and-set that follows. The entry is written once and
  never cleared, so what has been loaded stays true until then, and a `NULL` decides at the load.
* `torn` and `req` of `Harts` and `met` of `CapList` are history variables: they record which words a late release
  has overwritten, whose request the server was given, and whether two removals have been at work together or a node has come
  back into the list while an insertion had it for its successor. They guard nothing.
* `TicketLock`: only the holder writes `now_serving`, so `now_serving++` is one step.
* `Caps`: memory and PMP capabilities are left out (the kernel makes one PMP capability at
  boot and no memory capability, from which alone others could be derived). The `grant` field is copied
  and never tested by the code, so one value is enough. A call that fails changes
  nothing and is not a step. A deleted slot keeps its word in the code; what can still be
  observed of it is whether a revocation of it stops the hart, and that is what `Stale` keeps. The hook's loop over the quanta runs
  under the lock and is one step. The subscription of a client is taken together with the
  acquisition of the server: until the server is released nobody reads the entry.
  A process that a late release has overwritten is outside `Caps`, and so is a hart that loops in an insertion (`caplist_spin`).
* Capabilities travel in the model with every message, or with none, to any slot.
* `Ipc`: a message fills `a0` and then the words, two stores; the words are known by their author. While a process runs,
  its registers are in the hart and nothing is said of them ("own"). `syscall_invoke_supervisor` writes a register
  before it releases the process: both are one step, as the process is held. `told` is a history variable. It is
  "unsure" for a process that a supervisor took, or that was sent a message, while another hart had yet to store `ERROR_INTERRUPTED` (see below).
* `Sched`: all processes are ready or running, as `Harts` has the rest. The clock counts within a major frame: at
  the end of a frame everything that is an instant or a number of a quantum is counted from the next (`Tick`), which
  changes no difference and no quantum, and makes the states finite. Instants more than
  a margin ago are all the same to the comparisons (`Past`). A piece of kernel code, from a trap or a reading of the clock to the next, takes up to
  `KERNEL_TICKS`; the module assumes that this is less than `SCHEDULER_TICKS` and than a quantum, as the margin intends.
  The loop of `sched_update` over the row of a hart is one step (a reader looks at one quantum of a row), and so are the readings of the lower
  harts' entries, which the code makes one after the other: with two harts there is only one. An entry is never `INVALID_PID`, so the
  test for it at `sched.c:61` never succeeds (`ReadOwnEntry`), because only a deletion asks for one, and `sched_update` then finds its node deleted and writes nothing. A capability that has given out everything has no part in the schedule and is left out. A
  supervisor's write to the register `timeout` is left out, and so are deletions, which change no entry. `due` and `given` are history variables.
* `Trap`: a hart runs straight on while interrupts are off, and the registers of its process are its own, so such a
  stretch is one step. `x` stands for the registers that are not named, the second words of answers and messages, `timeout` and `pmp` among them; `sp` stands for `gp` too. Of a
  system call the model keeps how it ends: with a result and the words it brings, with a register of the process exchanged (`syscall_write_reg`),
  blocked with the arguments or the error left in `a0`, yielding, or after a stretch that can be preempted. A process that blocks is
  released in the same step; that the release may come late, and that several stores make a message, is the subject of `Harts` and `Ipc`, and so are
  the registers that a supervisor writes. `made` is one bit, flipped by every derivation that takes effect. An exception has any
  cause and value (`Faults`), and `MRET` is whatever `exception_handler` compares with. The loop of `syscall_revoke_cap`, which would enable preemption
  after each deletion, is not in `Commit`: behind the guard at `syscall.c:96` it is never entered (`caps_revoke`). The register words are small
  and wrap around at `WORD`.

## Runs

Every run of `Harts`, `Ipc`, `CapList` and `Caps` has `CHECK_DEADLOCK FALSE`: the system may really
stop, when all processes are suspended or wait, when a hart has hung, or when every slot is empty. `trap` has it too: the
scheduler's choice is not its subject, and a hart finds no process when all are taken. `sched` and `ticketlock` never stop.

| Run | System | Shows |
|---|---|---|
| `harts` (`Ipc`) | 2 harts; root, a server, its client who receives from both others; registers | exclusive use; no mutual waiting; replies go to the requester; a process finds in its registers the one message it was sent, or why there is none; a process ordered to suspend while it runs gets suspended |
| `harts_subscribe` | two clients | **violated**: the second client is not subscribed |
| `harts_assert` | 2 harts, 2 processes | **violated**: `kassert` of `proc_supervisor_release` |
| `caplist` | 2 harts, 3 slots, all calls | the prev links refine `CapSeq`; no live node is lost; the hart that makes a node live or deleted is its only holder; until two operations meet that undo each other's next, it agrees with prev and the list is lock-free |
| `caplist_spin` | 2 harts, 4 slots; one hart only inserts | **violated**: an insertion that nobody disturbs ends |
| `caps_time` | 2 processes, 4 slots, 2 quanta, hart 2 beside hart 1 | one owner; the schedule shows it; the owner is run; children follow |
| `caps_channels` | 2 processes, 4 slots, 2 channels | one owner; the holder of a receiver or server capability is the receiver; who waits has the capability; children follow |
| `caps_assert` | 2 processes, 5 slots, 1 hart, 2 quanta | **violated**: `kassert(begin < end)` |
| `caps_revoke` | same | **violated**: revocation deletes nothing |
| `ticketlock` | 3 harts, 4 tickets | mutual exclusion, order, progress |
| `sched` | 2 harts, 2 processes, 3 quanta of 2 ticks, margin 2, kernel code 1 tick; the time of hart 2 may be divided | a process runs in its own quanta; slices end with the frame; no quantum is passed over; who has time on one hart only, and keeps a slice longer than the margin and a piece of kernel code, runs |
| `trap` | 1 hart, 2 processes, one with an exception handler, exceptions of two causes, messages | traps find their process; `UserView` is implemented |

Why the bounds are enough. The state word is shared by at most three parties: the hart that
runs or has just left a process, a peer in a message, a supervisor; two harts give every pair of them at once,
because a hart leaves a process and then acts for another one, and three processes give a supervisor, a
receiver and a sender. The list algorithm touches
a node and its two neighbours: three nodes between the ends of the list give two operations on
the same neighbour from both sides, and slots that are reused. That the successor of an insertion leaves the list and comes back
before the same parent takes a fourth slot: the parent, the new node, the successor, and the node whose capability is moved to it. `caplist_spin` has it, and
one hart there makes insertions only, so that no two removals meet. In `Caps`, two quanta, channels or process ids are the fewest that can be split, and two slots per process are the fewest for a parent and a child. The root's other slot starts with
its supervisor capability, by which capabilities travel both ways; it can derive once it has given a capability away or deleted one.
The root starts with the boot capabilities of the run's
family only, as it does in the kernel after deleting the others; in `caps_time` it has deleted the time of hart 1, whose
schedule still shows it. Channel 0 is used in all four ways, channel 1 by a receiver. The tickets are one more than the harts,
the fewest that the lock's assumption allows, so that they wrap around at once. In `harts` the server has time on one hart only:
the others meet on both, and its late release and theirs still meet a supervisor. In `sched`, two ticks let an instant lie within a
quantum; three quanta leave room for a slice longer than the margin beside a slice of another owner, and for one that is as long as the margin and never
runs; two harts give the precedence of the lower. `MAX_TIMES` bounds the divisions: hart 2 may be divided once, hart 1 not at all (`MCSched`); with more,
the instants of both harts multiply past what can be enumerated. In `trap`, one hart suffices: harts share nothing but the
processes they have acquired, and the theorems are for any number. Each process computes one register file of its own, so that a register of the other
or of the kernel shows, on words modulo 4. One of them executes the instruction that leaves the handler, has another exception with the same
trap value (only the cause tells them apart), sets `tpc` and reads and is sent words; the other makes calls, blocks and is resumed only.

Fairness. `harts` assumes that a hart in the kernel takes its next step or store (interrupts are off, no
step waits) and that the timer of a running slice fires in the end: strong fairness, because
the action is disabled during each kernel step, while a pending interrupt is taken whenever the hart is back in user
mode. Nothing is assumed of the scheduler's choice or of user programs. `caplist`, `caplist_spin` and `ticketlock` assume
that a hart inside an operation goes on, which it does with interrupts off; in `TicketLock` a spinning hart is enabled only when it can go on.
`sched` assumes that time passes and that a hart in the kernel goes on. `trap` checks safety only and assumes nothing.

## What disagrees with the code's own words

1. **The late release** (`harts_assert`). `proc_release` is right for a hart that
   leaves a process it owns. After `proc_receiver_wait` the hart does not own it any more:
   suspended and taken by a supervisor between the test and the `fetch_and_and`, or even
   resumed on another hart before the test, the process has its word overwritten. The
   assertion at `inc/proc_state.h:45` fails. With a third hart a supervisor can also meet a
   process that runs (`AccessOnlySuspended`, which holds in systems without channels). Everything else that `Harts` says of exclusive use is stated
   for the processes that were never overwritten (`torn`), and holds.
2. **Subscription** (`harts_subscribe`). `receivers[ch][1]` is set once and stays: the second
   client of a channel waits for a reply that the server sends to the first.
3. **The late next link** (`caplist_spin`). `prev->next = next` is stored after the compare-and-set that
   made a deletion effective, and may overwrite a newer next of the predecessor. Of two neighbours removed at once, by two harts, the first one's store may come last and
   leave the predecessor's next at the node that the second one removed. One removing hart is enough, too, if an insertion is overtaken by
   two calls, as the run shows: the successor it has loaded is deleted, and the capability that follows is moved into the freed slot. The
   compare-and-set of the insertion takes the successor's prev, which is the parent again, for proof that nothing has changed; it succeeds
   between the two stores of the deletion that ends the move, whose late one then overwrites the `prev->next` of the insertion.
   Either way next disagrees with prev between calls (`NextMatchesPrev`), and the next insertion after the predecessor never leaves its loop: it
   reloads the same next, whose prev is another node or NULL, with interrupts off. The prev links are
   right at all times (`RefinesCapSeq`), and without the one meeting or the other the next links are too (`NextUnlessMet`).
4. **Empty range** (`caps_assert`). A time capability that was derived away completely cannot be deleted, given or taken:
   `kassert(begin < end)` stops the hart.
5. **Revocation** (`caps_revoke`). The guard at `src/syscall.c:96` is inverted.

### Met while modelling

These break no promise that the code states, or are out of reach of the configured kernel; no run is expected to fail on them.

* **Short slices never run.** `OwnerRuns` is about slices longer than `SCHEDULER_TICKS`. With
  `config.h`, `TICKS` is 781 on virt and 78 on the other board, and the margin 2000: a process
  whose slices have one or two quanta (fewer than 26 on the other board) is chosen, waits for its quantum, and is
  interrupted before it reaches user mode (or found to sleep past its end).
* **Two harts can starve a process.** `OwnerRuns` is about processes with time on one hart. With four quanta, let hart 1 give quanta 0-1 to
  process 0 and 2-3 to process 1, and hart 2 the other way round. A hart that finds its process still held by the other one fails to acquire it and tries again
  with what is left of the slice, until one quantum remains, which is too short to reach user mode; that late attempt in turn holds the
  process when the other hart wants it for a full slice. This repeats in every frame, and no fairness of the code excludes it.
  TLC finds the behaviour in this frame. The precedence rule at `sched.c:65` compares quanta, not slices, and does not prevent it.
* **Stale time after a deletion.** Deleting a time capability changes no entry of the schedule: the process goes on being run in those quanta.
  `ScheduleFollowsCaps` is therefore about live capabilities only.
* **Exceptions in the handler** overwrite the registers saved by the first one; there is one place for them. `UserView` says so (`Raise`).
* **The kernel's stack.** Such an interrupt comes from the kernel, and `trap_timer_preempted` (`trap.S:48`) goes on
  with the stack pointer it finds, unlike the path from user mode. A hart that serves nothing but short slices never
  gets back to the top of its stack.
* **Leaving a handler.** `exception.c:7` compares the instruction with `0x0320000073`, which has 34 bits; `mret` is
  `0x30200073`. Where the trap value is the instruction, a handler that executes `mret` is entered again and its saved registers are
  overwritten. `Trap` holds for whatever value `MRET` has.
* **The error after the wait.** `src/syscall.c:320` stores `ERROR_INTERRUPTED` when the client already waits and others may have
  it. A supervisor that has taken the client may find its own word overwritten, and a client (now in another call) an answer; until then
  a supervisor reads the arguments of the call. The same store is lost under a reply, as it should be. These are the
  processes for which `told` is "unsure".
* **The hand-over of time is quick.** An owner's quanta are his from the moment the schedule is rewritten, in the middle of a frame; a process
  that runs in a quantum then given to another keeps it to the end of its slice (`given`), and one that was chosen by an earlier entry runs in that quantum too.
* **The system-call number** is in `t0`, although the comment at `trap.S:60` says `a7`.
* **PMP.** `proc_load_pmp` (not compiled) takes slot `i` where `regs.pmp` names a slot, and looks at the same byte for all eight.
  The end of a NAPOT region is its last block, the end of a memory capability the block after its last: a region can be one block larger than
  the memory it is derived from (`PmpPassesEnd`). A PMP capability of a memory capability's child is not its child
  (`PmpGrandchildIsNone`), so a revocation would stop before it. No memory capability exists in the configured kernel.

## Proofs

TLC checks the properties for the systems above, TLAPS for every value of the constants.

* `HartsProofs`. `IInv` strengthens the two properties about exclusive use by facts on the
  control points: `Placed` (who is at a kernel label has a process and a peer), `One` (no two
  harts use a process), `Own` (the word of an untorn process tells who uses it), and `NoWait`
  (without channels nobody waits). `Own` is what makes the rest inductive: a compare-and-set
  of a second party fails because of it. Every action has one step. From `IInv` follow `TypeCorrect`, `WordsTellUsers`,
  `MutualExclusion` and `AssertSafeUnlessTorn`. `Dialogue` adds, for every channel whose server is not torn (`Asked`): a hart in the middle of a call acts for the client
  whose request the server has; if anybody waits, somebody is subscribed; and if the subscribed client waits, it is the one with that request, and the server
  neither waits nor is about to. `RepliesToRequester`
  follows for any number of clients. `NoMutualWaiting` and `SoleClientSubscribed` assume that a channel has one client (`OneClient`), because two
  lose each other's subscription (`harts_subscribe`). `AccessWithoutChannels` says that the late
  release is the only way to break the kernel's promises on supervision: without channels they hold for every process.
* `TicketLockProofs`. `TicketsOut` counts: as many harts are engaged as there are tickets between the counters,
  and no two have the same. With fewer harts than tickets the difference never wraps to zero. `LockIsFifo` is
  the refinement of `FifoLock`, one abstract step for each of the three actions.
* `CapsProofs`. `OneOwner` is not inductive: between the two halves of a derivation the child exists only in a local
  variable, and during a move two slots have the same capability. `IInv` adds where the slots of a call are
  and what they hold (`Places`), that a held process has one holder (`Holders`), and that a child not
  yet linked overlaps nothing (`FreshApart`). `DeriveSplits`, with `PartsApart`, is the arithmetic: what
  `cap_can_derive` admits and `derive_update_cap` leaves do not overlap. `Frame` and `OthersPlaces` show
  that a step leaves the calls of others alone. From `IInv` follow `SingleOwner` and `CallsStayDisjoint`.
  `TInv` is about the tables. What a call has announced to them by its hook but not yet linked is shown too (`Mirrored`), and
  nothing that another call owns is rewritten, because the hook writes what its caller owns (`HookApart`): so the lock, which does not cover the
  move, suffices. `ScheduleFollows`, `ReceiverFollows` and `OwnersServed` follow; `ReachesHolder` needs that a process that waits has not let go of its
  end of the channel meanwhile (`Listening`).
  `Followed` is about the lists. Two capabilities are strangers or one is the child of the other (`Forest`), and a child not yet linked has no child and
  its parent's ancestors (`Budding`). Then an insertion directly after the parent (`DeriveFollowed`), a copy directly after its source
  (`CopyFollowed`) and a removal keep the children together: `ChildrenStayBehind`. It needs of the boot capabilities that they have given
  nothing away (`BootAssumption`).
* `CapListProofs`. `PInv` says what a hart may rely on whatever the others do: the nodes of its call are its own, and live or deleted as
  it left them (`HartOK`, `Exclusive`); hence `LivenessIsTheHolders`. `WInv` says that the links thread one sequence: there is a row of the nodes in the list, and of those
  that a deletion has not bypassed yet, in which each has before it what its prev says, or its insertion or deletion will make it say (`Threads`),
  and the list keeps its order (`Keeps`). Every step leaves the row alone, puts one node in or takes one out (`AfterLinked`,
  `AfterBypassed`, ...), because the compare-and-set can succeed only next to the right neighbour; `AfterCleared` is the deletion's effect on the list.
  A walk back from the sentinel is unique (`OneWalk`, by the first place where two would differ), so `Order`, which the refinement maps the links to, is that row.
  `NInv` adds, until operations meet, that `next` leads back along the row but for the one store still to come (`Agreeing`), and that
  what a hart has loaded of it is current or points to a node that is gone (`Fresh`). The attempt to prove this is what
  showed that a node that comes back breaks it (disagreement 3).
* `IpcProofs`. Every step of `Ipc` is a step of `Harts` or leaves its variables alone (`RegistersImplementHarts`), so the
  invariant of `HartsProofs` holds. `RInv` adds, for each process that is not torn and whose `told` is certain, that its
  registers are what it was told, less the stores still due of the one hart that is writing (`RegsOK`, on registers typed by `RegsTypeOK`), and that a client
  whose error is yet to be stored is in nobody else's hands (`ParkedOK`). One party
  at a time is what makes it inductive: two writers of one process would mix their stores. `Unsent` adds that a process that was
  sent a message neither waits nor is on its way to a wait, which gives `MessagesAreKept`.
* `SchedProofs`. `IInv` says of a hart on its way to a slice where its instants are and that it is back in time for the next quantum (`Timed`), that the slice is
  within the frame (`Sized`), that all its quanta are the process's in the schedule or have changed hands since (`Offered`), and that
  the row of a hart is cut into runs of quanta (`Tiled`): an
  entry's length counts the rest of its run, whatever an update rewrites. `Offered` needs `Tiled`, or a reader could
  find a length that reaches into another's quanta. The step over the end of the frame, where all counts change their origin,
  is one lemma (`TickOverOK`). The number of ticks in quanta (`Ticks`) is an operator that most leaves see only through its few laws, so that the
  arithmetic stays linear.
* `TrapProofs`. `IInv` adds that a hart in the kernel has a process of its own (`One`), that no process that waits is taken (`Apart`), and what `mscratch`, `mie` and the registers
  hold at each control point (`Control`); `TrapFindsItsProcess` follows. `TrapsAreInvisible` is the refinement of `UserView`: each step moves
  the view of the process of its hart by one abstract step or not at all (`SeenAt`), and of no other (`ViewOthers`).
* The rules, at the beginning of `CapsProofs`. Facts about data that the revocation relies on, without any bound: what is derived is a child of what is left
  (`DerivedIsChild`), who was a child before is one after (`ChildrenRemain`), ranges stay in order (`DerivationKeepsOrder`), children of
  children are children (`GrandchildIsChild`), and the exception and the excess for PMP named above.

The assumptions are the named `ASSUME`s of the modules: the shape of the constants, fewer harts than tickets, for
`Caps` that the boot capabilities do not overlap, have given nothing away and end with the schedule, as those of `proc_init` do, for `CapList` finitely many slots, and for `Sched` that a piece of kernel code
is shorter than the margin and than a quantum. TLC evaluates them in the runs.

Only model-checked: liveness (`SuspendTakesEffect`, `LockFreeUnlessMet`, `AcquireReturns`, `OwnerRuns`), which under
fairness is out of TLAPS's reach. Every other property of the passing runs is a theorem, some under the restrictions named above. The runs that expect a violation show what the code does; nothing is to be proved there.

## Not modelled, and the plan

What is left, in this order:

1. Revocation with the list order: the loop of `syscall_revoke_cap` on the states that `Caps` reaches, under the guard its
   documentation asks for, and the assertion hit by a deleted channels capability. The code as it is deletes nothing (`caps_revoke`).
2. `AccessOnlySuspended` where every process has its slices on one hart, and with three harts, where it fails.
3. `Memory`: `proc_load_pmp` and the capabilities it loads. `MEMORY_PROTECTION` is not defined (`config.h:24`), so no build
   runs it, and no memory capability exists that could be derived; the rules are in `CapRules`.
4. The packing of fields by `cap_gen.py` and its round trip: shifts and masks without state.

Not planned: boot code, console output, the user library (straight-line or stateless code), and the memory model of the machine.
