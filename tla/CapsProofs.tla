----------------------------- MODULE CapsProofs -----------------------------
(***************************************************************************)
(* What the rules of gen/cap.yml and the updates of src/syscall.c owe each *)
(* other, for capabilities of every type and size; and of the system calls:*)
(* that a quantum, a channel and a supervised process belong to one        *)
(* capability (OneOwner), that the schedule and the receivers show who     *)
(* holds it (TInv), and that the lists have the live slots, a capability's *)
(* children directly after it (Ordered, Followed), for any number of       *)
(* processes, slots, harts, quanta and channels.                           *)
(***************************************************************************)
EXTENDS Caps, NodeListProofs, FiniteSetTheorems

----------------------------------------------------------------------------
(* The rules.  Revocation finds what was derived by asking is_child of the *)
(* nodes that follow, so whatever can_derive admits must be a child, and   *)
(* remain one while the parent and the child go on deriving.               *)
AnyCap == Cap \union MemoryCap \union PmpCap

(* What is given out lies in the range.                                    *)
InOrder(c) == c.type \in Ranged => c.begin <= c.free /\ c.free <= c.end

(* The types tell the fields.                                              *)
LEMMA Fields ==
  ASSUME NEW c \in AnyCap
  PROVE  /\ c.type = "memory" => c \in MemoryCap
         /\ c.type = "pmp" => c \in PmpCap
         /\ c.type = "time" => c \in TimeCap
         /\ c.type = "channels" => c \in ChannelsCap
         /\ c.type = "supervisor" => c \in SupervisorCap
         /\ c.type \in Endpoints => c \in EndpointCap
         /\ c.type \in Ranged => c.begin \in Nat /\ c.end \in Nat /\ c.free \in Nat
BY DEF AnyCap, Cap, MemoryCap, PmpCap, TimeCap, ChannelsCap, SupervisorCap, EndpointCap,
       Endpoints, Ranged

(* What derive_update_cap does to the fields.                              *)
LEMMA Updated ==
  ASSUME NEW p \in AnyCap, NEW c \in AnyCap, cap_can_derive(p, c)
  PROVE  /\ p.type \in Ranged /\ c.type = p.type =>
              derive_update_cap(p, c) = [p EXCEPT !.free = c.end]
         /\ p.type = "channels" /\ c.type # "channels" =>
              derive_update_cap(p, c) = [p EXCEPT !.free = c.channel + 1]
         /\ p.type = "memory" /\ c.type = "pmp" =>
              derive_update_cap(p, c) = [p EXCEPT !.pmp = 1]
         /\ p.type \in {"receiver", "server"} => derive_update_cap(p, c) = p
  <1>1. CASE p.type = "memory"
    BY <1>1 DEF derive_update_cap, cap_can_derive, Ranged, Endpoints
  <1>2. CASE p.type = "channels"
    BY <1>2 DEF derive_update_cap, cap_can_derive, Ranged, Endpoints
  <1>3. CASE p.type \in {"time", "supervisor"}
    BY <1>3 DEF derive_update_cap, cap_can_derive, Ranged, Endpoints
  <1>4. CASE p.type \in {"receiver", "server"}
    BY <1>4 DEF derive_update_cap, cap_can_derive, Ranged, Endpoints
  <1> QED
    BY <1>1, <1>2, <1>3, <1>4 DEF cap_can_derive, Ranged

(* syscall_derive_cap leaves a parent of its type, with the same range, in *)
(* which what is given out lies, and a child that has given out nothing.   *)
THEOREM DerivationKeepsOrder ==
  ASSUME NEW p \in AnyCap, NEW c \in AnyCap, cap_can_derive(p, c), InOrder(p)
  PROVE  /\ derive_update_cap(p, c) \in AnyCap
         /\ InOrder(derive_update_cap(p, c)) /\ InOrder(c)
<1> USE Fields, Updated DEF Ranged, Endpoints, InOrder
<1>1. CASE p.type \in {"time", "supervisor"} \/ (p.type = "memory" /\ c.type = "memory")
           \/ (p.type = "channels" /\ c.type = "channels")
  <2>1. c.type = p.type /\ p.free <= c.begin /\ c.free = c.begin /\ c.begin < c.end /\ c.end <= p.end
    BY <1>1 DEF cap_can_derive, NextOf
  <2>2. derive_update_cap(p, c) = [p EXCEPT !.free = c.end]
    BY <1>1, <2>1
  <2>3. [p EXCEPT !.free = c.end] \in AnyCap
    BY <1>1, <2>1 DEF AnyCap, Cap, MemoryCap, TimeCap, ChannelsCap, SupervisorCap
  <2>4. LET u == [p EXCEPT !.free = c.end]
        IN  u.begin = p.begin /\ u.end = p.end /\ u.free = c.end
    BY <1>1 DEF MemoryCap, TimeCap, ChannelsCap, SupervisorCap
  <2> QED
    BY <1>1, <2>1, <2>2, <2>3, <2>4
<1>2. CASE p.type = "channels" /\ c.type # "channels"
  <2>1. c.type \in {"receiver", "server"} /\ p.free = c.channel /\ c.channel < p.end
    BY <1>2 DEF cap_can_derive
  <2>2. /\ p \in ChannelsCap /\ c \in EndpointCap
        /\ derive_update_cap(p, c) = [p EXCEPT !.free = c.channel + 1]
    BY <1>2, <2>1
  <2> QED
    BY <1>2, <2>1, <2>2 DEF AnyCap, Cap, ChannelsCap, EndpointCap
<1>3. CASE p.type = "memory" /\ c.type # "memory"
  <2>1. c.type = "pmp"
    BY <1>3 DEF cap_can_derive
  <2>2. p \in MemoryCap /\ derive_update_cap(p, c) = [p EXCEPT !.pmp = 1]
    BY <1>3, <2>1
  <2> QED
    BY <1>3, <2>1, <2>2 DEF AnyCap, MemoryCap
<1>4. CASE p.type \in {"receiver", "server"}
  BY <1>4 DEF cap_can_derive
<1> QED
  BY <1>1, <1>2, <1>3, <1>4 DEF cap_can_derive

(* What cap_can_derive admits is a child of the parent that                *)
(* derive_update_cap leaves: the node that cap_node_insert puts behind it  *)
(* is one that syscall_revoke_cap takes.                                   *)
THEOREM DerivedIsChild ==
  ASSUME NEW p \in AnyCap, NEW c \in AnyCap, cap_can_derive(p, c), InOrder(p)
  PROVE  cap_is_child(derive_update_cap(p, c), c)
<1> USE Fields, Updated DEF Ranged, Endpoints, InOrder
<1>1. CASE p.type \in {"time", "supervisor"} \/ (p.type = "memory" /\ c.type = "memory")
           \/ (p.type = "channels" /\ c.type = "channels")
  <2>1. c.type = p.type /\ p.free <= c.begin /\ c.begin < c.end
    BY <1>1 DEF cap_can_derive, NextOf
  <2>2. derive_update_cap(p, c) = [p EXCEPT !.free = c.end]
    BY <1>1, <2>1
  <2>3. CASE p.type = "memory"
    <3>1. p \in MemoryCap /\ Rights(c, p)
      BY <1>1, <2>1, <2>3 DEF cap_can_derive
    <3> QED
      BY <2>1, <2>2, <2>3, <3>1 DEF cap_is_child, Within, MemoryCap, Rights
  <2>4. CASE p.type = "time"
    <3>1. p \in TimeCap /\ p.hartid = c.hartid
      BY <1>1, <2>1, <2>4 DEF cap_can_derive
    <3> QED
      BY <2>1, <2>2, <2>4, <3>1 DEF cap_is_child, Within, TimeCap
  <2>5. CASE p.type \in {"channels", "supervisor"}
    BY <2>1, <2>2, <2>5 DEF cap_is_child, Within, ChannelsCap, SupervisorCap
  <2> QED
    BY <1>1, <2>3, <2>4, <2>5
<1>2. CASE p.type = "channels" /\ c.type # "channels"
  <2>1. c.type \in {"receiver", "server"} /\ p.free = c.channel /\ p \in ChannelsCap
        /\ derive_update_cap(p, c) = [p EXCEPT !.free = c.channel + 1]
    BY <1>2 DEF cap_can_derive
  <2> QED
    BY <1>2, <2>1 DEF cap_is_child, ChannelWithin, ChannelsCap
<1>3. CASE p.type = "memory" /\ c.type # "memory"
  <2>1. /\ c.type = "pmp" /\ p \in MemoryCap /\ Rights(c, p)
        /\ p.free <= pmp_napot_begin(c.addr) /\ pmp_napot_end(c.addr) <= p.end
        /\ derive_update_cap(p, c) = [p EXCEPT !.pmp = 1]
    BY <1>3 DEF cap_can_derive
  <2> QED
    BY <1>3, <2>1 DEF cap_is_child, MemoryCap, Rights
<1>4. CASE p.type \in {"receiver", "server"}
  BY <1>4 DEF cap_can_derive, cap_is_child
<1> QED
  BY <1>1, <1>2, <1>3, <1>4 DEF cap_can_derive

(* Who was a child remains one when the parent derives again: free grows,  *)
(* and a memory capability that has PMP children (pmp = 1) derives no      *)
(* memory, which would move free past them.                                *)
THEOREM ChildrenRemain ==
  ASSUME NEW p \in AnyCap, NEW c \in AnyCap, NEW d \in AnyCap,
         cap_can_derive(p, c), InOrder(p), cap_is_child(p, d)
  PROVE  cap_is_child(derive_update_cap(p, c), d)
<1> USE Fields, Updated DEF Ranged, Endpoints, InOrder
<1>1. CASE p.type = "memory" /\ c.type = "memory"
  <2>1. /\ p \in MemoryCap /\ p.pmp = 0 /\ p.free <= c.end
        /\ derive_update_cap(p, c) = [p EXCEPT !.free = c.end]
    BY <1>1 DEF cap_can_derive, NextOf
  <2>2. d.type = "memory" /\ Within(p, d) /\ Rights(d, p)
    BY <1>1, <2>1 DEF cap_is_child
  <2> QED
    BY <1>1, <2>1, <2>2 DEF cap_is_child, Within, Rights, MemoryCap
<1>2. CASE p.type = "memory" /\ c.type = "pmp"
  <2>1. p \in MemoryCap /\ derive_update_cap(p, c) = [p EXCEPT !.pmp = 1]
    BY <1>2
  <2> QED
    BY <1>2, <2>1 DEF cap_is_child, Within, Rights, MemoryCap
<1>3. CASE p.type = "time"
  <2>1. /\ p \in TimeCap /\ c.type = "time" /\ p.free <= c.end
        /\ derive_update_cap(p, c) = [p EXCEPT !.free = c.end]
    BY <1>3 DEF cap_can_derive, NextOf
  <2> QED
    BY <1>3, <2>1 DEF cap_is_child, Within, TimeCap
<1>4. CASE p.type = "channels"
  <2>1. /\ p \in ChannelsCap
        /\ \E e \in Nat : p.free <= e /\ derive_update_cap(p, c) = [p EXCEPT !.free = e]
    <3>1. CASE c.type = "channels"
      BY <1>4, <3>1 DEF cap_can_derive, NextOf
    <3>2. CASE c.type # "channels"
      <4>1. c.type \in {"receiver", "server"} /\ p.free = c.channel /\ c.channel \in Nat
        BY <1>4, <3>2 DEF cap_can_derive, EndpointCap
      <4> QED
        BY <1>4, <3>2, <4>1
    <3> QED
      BY <3>1, <3>2
  <2>2. PICK e \in Nat : p.free <= e /\ derive_update_cap(p, c) = [p EXCEPT !.free = e]
    BY <2>1
  <2>3. d.type \in Endpoints => d.channel \in Nat
    BY DEF EndpointCap
  <2> QED
    BY <1>4, <2>1, <2>2, <2>3 DEF cap_is_child, Within, ChannelWithin, ChannelsCap
<1>5. CASE p.type = "supervisor"
  <2>1. /\ p \in SupervisorCap /\ c.type = "supervisor" /\ p.free <= c.end
        /\ derive_update_cap(p, c) = [p EXCEPT !.free = c.end]
    BY <1>5 DEF cap_can_derive
  <2> QED
    BY <1>5, <2>1 DEF cap_is_child, Within, SupervisorCap
<1>6. CASE p.type \in {"receiver", "server"}
  BY <1>6
<1> QED
  BY <1>1, <1>2, <1>3, <1>4, <1>5, <1>6 DEF cap_can_derive

(* The child of a child is a child, so that a walk over the nodes behind p *)
(* that stops at the first that is not a child of p takes the whole        *)
(* subtree; unless a memory capability between them has PMP children.      *)
THEOREM GrandchildIsChild ==
  ASSUME NEW p \in AnyCap, NEW c \in AnyCap, NEW d \in AnyCap,
         cap_is_child(p, c), cap_is_child(c, d), InOrder(c),
         ~(c.type = "memory" /\ d.type = "pmp")
  PROVE  cap_is_child(p, d)
<1> USE Fields DEF Ranged, Endpoints, InOrder
<1>1. CASE c.type = "memory"
  BY <1>1 DEF cap_is_child, Within, Rights
<1>2. CASE c.type \in {"time", "supervisor"}
  BY <1>2 DEF cap_is_child, Within
<1>3. CASE c.type = "channels"
  <2>1. d.type \in Endpoints => d.channel \in Nat
    BY DEF EndpointCap
  <2> QED
    BY <1>3, <2>1 DEF cap_is_child, Within, ChannelWithin
<1>4. CASE c.type \in {"receiver", "server"}
  BY <1>4 DEF cap_is_child, ChannelWithin
<1> QED
  BY <1>1, <1>2, <1>3, <1>4 DEF cap_is_child

(* That case is no child: what the child gave its PMP capability lies in   *)
(* what the parent has given out, and is_child looks for it in the rest.   *)
(* A revocation of p would stop there.                                     *)
THEOREM PmpGrandchildIsNone ==
  ASSUME NEW p \in MemoryCap, NEW c \in MemoryCap, NEW d \in PmpCap,
         cap_is_child(p, c), cap_is_child(c, d), \E b \in Powers :
           (d.addr + 1) % b = 0 /\ (d.addr + 1) % (2 * b) # 0
  PROVE  ~cap_is_child(p, d)
<1>1. Block(d.addr) \in Nat \ {0}
  BY DEF Block, Powers
<1>2. d.addr \in Nat /\ p.free \in Nat /\ p.end \in Nat /\ c.end \in Nat /\ c.free \in Nat
  BY DEF MemoryCap, PmpCap
<1>3. pmp_napot_begin(d.addr) < pmp_napot_end(d.addr)
  BY <1>1, <1>2 DEF pmp_napot_begin, pmp_napot_end
<1>4. pmp_napot_end(d.addr) <= c.end /\ c.end <= p.free
  BY DEF cap_is_child, MemoryCap, PmpCap, Within, Endpoints
<1>5. pmp_napot_begin(d.addr) \in Int /\ pmp_napot_end(d.addr) \in Int
  BY <1>1, <1>2 DEF pmp_napot_begin, pmp_napot_end
<1>6. ~(p.free <= pmp_napot_begin(d.addr))
  BY <1>2, <1>3, <1>4, <1>5
<1> QED
  BY <1>6 DEF cap_is_child, MemoryCap, PmpCap, Endpoints

(* gen/cap.yml compares the last page of a PMP region with the page after  *)
(* the last of the memory: a region of two pages comes out of one page.    *)
Pages(c) == pmp_napot_begin(c.addr) .. pmp_napot_end(c.addr)

THEOREM PmpPassesEnd ==
  \E p \in MemoryCap, c \in PmpCap :
    InOrder(p) /\ cap_can_derive(p, c) /\ p.end \in Pages(c)
<1> DEFINE p == [type |-> "memory", begin |-> 0, end |-> 1, free |-> 0, rwx |-> {"r"}, pmp |-> 0]
           c == [type |-> "pmp", addr |-> 0, rwx |-> {"r"}]
<1>1. p \in MemoryCap /\ c \in PmpCap
  BY DEF MemoryCap, PmpCap
<1>2. Block(0) = 1
  BY DEF Block, Powers
<1>3. pmp_napot_begin(c.addr) = 0 /\ pmp_napot_end(c.addr) = 1
  BY <1>2 DEF pmp_napot_begin, pmp_napot_end
<1>4. InOrder(p) /\ cap_can_derive(p, c) /\ p.end \in Pages(c)
  BY <1>3 DEF InOrder, cap_can_derive, Rights, Pages, Endpoints
<1> QED
  BY <1>1, <1>4

----------------------------------------------------------------------------
(* The system calls.                                                       *)

(* Where a call is: its destination is to get a copy or a fresh child, or  *)
(* its source is on its way out; it holds another process.                 *)
Copies   == {"move_insert", "xfer_hook", "xfer_insert"}
Fresh    == {"hook", "insert"}
Sources  == {"delete", "xfer_delete"}
Holding  == {"xfer_hook", "xfer_insert", "xfer_delete", "release"}
Busy     == Copies \union Fresh \union Sources

(* Whose slots a call of p works on. *)
Reach(p) == IF pc[p] \in Holding THEN {p, peer[p]} ELSE {p}

Typed ==
  /\ cap \in [Slots -> Cap \union EmptyCap]
  /\ live \subseteq Slots
  /\ \A s \in live : cap[s] \in Cap
  /\ pc \in [Procs -> Labels]
  /\ src \in [Procs -> Slots \union {None}]
  /\ dst \in [Procs -> Slots \union {None}]
  /\ new \in [Procs -> Cap \union EmptyCap]
  /\ peer \in [Procs -> Procs \union {None}]

Holders ==
  /\ \A p \in Procs : pc[p] \in Holding => peer[p] \in Procs /\ pc[peer[p]] = "held"
  /\ \A p, q \in Procs : /\ pc[p] \in Holding /\ pc[q] \in Holding
                         /\ peer[p] = peer[q]
                         => p = q

Place(p) ==
  pc[p] \in Busy =>
    /\ src[p] \in live /\ src[p][1] \in Reach(p)
    /\ dst[p] \in Slots /\ dst[p][1] \in Reach(p)
    /\ pc[p] \in Fresh  => dst[p] \notin live /\ new[p] \in Cap
    /\ pc[p] \in Copies => dst[p] \notin live /\ new[p] = cap[src[p]]
    /\ pc[p] \in Sources => dst[p] \in live /\ dst[p] # src[p] /\ cap[dst[p]] = cap[src[p]]
Places == \A p \in Procs : Place(p)

FreshApart ==
  /\ \A p \in Procs, s \in Held : pc[p] \in Fresh => Apart(new[p], cap[s])
  /\ \A p, q \in Procs : p # q /\ pc[p] \in Fresh /\ pc[q] \in Fresh => Apart(new[p], new[q])

IInv == Typed /\ Holders /\ Places /\ OneOwner /\ FreshApart

----------------------------------------------------------------------------
(* Apart does not depend on the order.                                     *)
LEMMA ApartSymmetric ==
  ASSUME NEW c, NEW d, Apart(c, d)
  PROVE  Apart(d, c)
BY DEF Apart

(* Two disjoint parts of what p owns are apart, from each other and from   *)
(* what is apart from p.                                                   *)
LEMMA PartsApart ==
  ASSUME NEW p, NEW u, NEW c,
         \A h \in HartIds, q \in Quanta :
           /\ ~(OwnsQuantum(u, h, q) /\ OwnsQuantum(c, h, q))
           /\ OwnsQuantum(u, h, q) \/ OwnsQuantum(c, h, q) => OwnsQuantum(p, h, q),
         \A ch \in Channels :
           /\ ~(OwnsChannel(u, ch) /\ OwnsChannel(c, ch))
           /\ OwnsChannel(u, ch) \/ OwnsChannel(c, ch) => OwnsChannel(p, ch),
         \A n \in Procs :
           /\ ~(OwnsPid(u, n) /\ OwnsPid(c, n))
           /\ OwnsPid(u, n) \/ OwnsPid(c, n) => OwnsPid(p, n)
  PROVE  /\ Apart(u, c)
         /\ \A d : Apart(p, d) => Apart(u, d) /\ Apart(c, d)
BY DEF Apart

(* A derivation splits what the parent owns between parent and child.      *)
LEMMA DeriveSplits ==
  ASSUME NEW p \in Cap, NEW c \in Cap, cap_can_derive(p, c)
  PROVE  /\ derive_update_cap(p, c) \in Cap
         /\ Apart(derive_update_cap(p, c), c)
         /\ \A d : Apart(p, d) => /\ Apart(derive_update_cap(p, c), d)
                                  /\ Apart(c, d)
<1> DEFINE u == derive_update_cap(p, c)
<1>0. /\ HartIds \subseteq Nat /\ Procs \subseteq Nat /\ Quanta \subseteq Nat /\ Channels \subseteq Nat
  BY CapsAssumption DEF Quanta, Channels
<1>1. CASE p.type = "time" /\ c.type = "time"
  <2>1. p \in TimeCap /\ c \in TimeCap
    BY <1>1 DEF Cap, TimeCap, ChannelsCap, SupervisorCap, EndpointCap, Endpoints
  <2>2. u = [p EXCEPT !.free = c.end]
    BY <1>1, <2>1 DEF derive_update_cap, Ranged
  <2>3. u \in TimeCap /\ u.hartid = p.hartid /\ u.end = p.end /\ u.free = c.end
    BY <2>1, <2>2 DEF TimeCap
  <2>4. /\ p.hartid = c.hartid /\ p.free = c.begin /\ c.end <= p.end
        /\ c.free = c.begin /\ c.begin < c.end
    BY <1>1, <2>1 DEF cap_can_derive, NextOf, TimeCap, Endpoints
  <2>5. u.type = "time" BY <2>3 DEF TimeCap
  <2>6. \A h \in HartIds, q \in Quanta :
           /\ ~(OwnsQuantum(u, h, q) /\ OwnsQuantum(c, h, q))
           /\ OwnsQuantum(u, h, q) \/ OwnsQuantum(c, h, q) => OwnsQuantum(p, h, q)
    BY <1>0, <1>1, <2>1, <2>3, <2>4, <2>5 DEF OwnsQuantum, TimeCap
  <2>7. \A ch \in Channels :
           /\ ~(OwnsChannel(u, ch) /\ OwnsChannel(c, ch))
           /\ OwnsChannel(u, ch) \/ OwnsChannel(c, ch) => OwnsChannel(p, ch)
    BY <1>0, <1>1, <2>1, <2>3, <2>4, <2>5 DEF OwnsChannel, TimeCap
  <2>8. \A n \in Procs :
           /\ ~(OwnsPid(u, n) /\ OwnsPid(c, n))
           /\ OwnsPid(u, n) \/ OwnsPid(c, n) => OwnsPid(p, n)
    BY <1>0, <1>1, <2>1, <2>3, <2>4, <2>5 DEF OwnsPid, TimeCap
  <2> QED BY <2>3, <2>6, <2>7, <2>8, PartsApart DEF Cap
<1>2. CASE p.type = "channels" /\ c.type = "channels"
  <2>1. p \in ChannelsCap /\ c \in ChannelsCap
    BY <1>2 DEF Cap, TimeCap, ChannelsCap, SupervisorCap, EndpointCap, Endpoints
  <2>2. u = [p EXCEPT !.free = c.end]
    BY <1>2, <2>1 DEF derive_update_cap, Ranged
  <2>3. u \in ChannelsCap /\ u.end = p.end /\ u.free = c.end /\ u.type = "channels"
    BY <2>1, <2>2 DEF ChannelsCap
  <2>4. p.free <= c.begin /\ c.end <= p.end /\ c.free = c.begin /\ c.begin < c.end
    BY <1>2, <2>1 DEF cap_can_derive, NextOf, ChannelsCap, Endpoints
  <2>5. \A h \in HartIds, q \in Quanta :
           /\ ~(OwnsQuantum(u, h, q) /\ OwnsQuantum(c, h, q))
           /\ OwnsQuantum(u, h, q) \/ OwnsQuantum(c, h, q) => OwnsQuantum(p, h, q)
    BY <1>0, <1>2, <2>1, <2>3, <2>4 DEF OwnsQuantum, ChannelsCap
  <2>6. \A ch \in Channels :
           /\ ~(OwnsChannel(u, ch) /\ OwnsChannel(c, ch))
           /\ OwnsChannel(u, ch) \/ OwnsChannel(c, ch) => OwnsChannel(p, ch)
    BY <1>0, <1>2, <2>1, <2>3, <2>4 DEF OwnsChannel, ChannelsCap
  <2>7. \A n \in Procs :
           /\ ~(OwnsPid(u, n) /\ OwnsPid(c, n))
           /\ OwnsPid(u, n) \/ OwnsPid(c, n) => OwnsPid(p, n)
    BY <1>0, <1>2, <2>1, <2>3, <2>4 DEF OwnsPid, ChannelsCap
  <2> QED BY <2>3, <2>5, <2>6, <2>7, PartsApart DEF Cap
<1>3. CASE p.type = "supervisor" /\ c.type = "supervisor"
  <2>1. p \in SupervisorCap /\ c \in SupervisorCap
    BY <1>3 DEF Cap, TimeCap, ChannelsCap, SupervisorCap, EndpointCap, Endpoints
  <2>2. u = [p EXCEPT !.free = c.end]
    BY <1>3, <2>1 DEF derive_update_cap, Ranged
  <2>3. u \in SupervisorCap /\ u.end = p.end /\ u.free = c.end /\ u.type = "supervisor"
    BY <2>1, <2>2 DEF SupervisorCap
  <2>4. p.free <= c.begin /\ c.end <= p.end /\ c.free = c.begin /\ c.begin < c.end
    BY <1>3, <2>1 DEF cap_can_derive, NextOf, SupervisorCap, Endpoints
  <2>5. \A h \in HartIds, q \in Quanta :
           /\ ~(OwnsQuantum(u, h, q) /\ OwnsQuantum(c, h, q))
           /\ OwnsQuantum(u, h, q) \/ OwnsQuantum(c, h, q) => OwnsQuantum(p, h, q)
    BY <1>0, <1>3, <2>1, <2>3, <2>4 DEF OwnsQuantum, SupervisorCap
  <2>6. \A ch \in Channels :
           /\ ~(OwnsChannel(u, ch) /\ OwnsChannel(c, ch))
           /\ OwnsChannel(u, ch) \/ OwnsChannel(c, ch) => OwnsChannel(p, ch)
    BY <1>0, <1>3, <2>1, <2>3, <2>4 DEF OwnsChannel, SupervisorCap
  <2>7. \A n \in Procs :
           /\ ~(OwnsPid(u, n) /\ OwnsPid(c, n))
           /\ OwnsPid(u, n) \/ OwnsPid(c, n) => OwnsPid(p, n)
    BY <1>0, <1>3, <2>1, <2>3, <2>4 DEF OwnsPid, SupervisorCap
  <2> QED BY <2>3, <2>5, <2>6, <2>7, PartsApart DEF Cap
<1>4. CASE p.type = "channels" /\ c.type \in {"receiver", "server"}
  <2>1. p \in ChannelsCap /\ c \in EndpointCap
    BY <1>4 DEF Cap, TimeCap, ChannelsCap, SupervisorCap, EndpointCap, Endpoints
  <2>2. u = [p EXCEPT !.free = c.channel + 1]
    BY <1>4, <2>1 DEF derive_update_cap, Ranged
  <2>3. /\ u \in ChannelsCap /\ u.end = p.end /\ u.free = c.channel + 1
        /\ u.type = "channels"
    BY <2>1, <2>2 DEF ChannelsCap, EndpointCap
  <2>4. p.free = c.channel /\ c.channel < p.end
    BY <1>4, <2>1 DEF cap_can_derive, ChannelsCap, Endpoints
  <2>5. \A h \in HartIds, q \in Quanta :
           /\ ~(OwnsQuantum(u, h, q) /\ OwnsQuantum(c, h, q))
           /\ OwnsQuantum(u, h, q) \/ OwnsQuantum(c, h, q) => OwnsQuantum(p, h, q)
    BY <1>0, <1>4, <2>1, <2>3, <2>4 DEF OwnsQuantum, ChannelsCap, EndpointCap
  <2>6. \A ch \in Channels :
           /\ ~(OwnsChannel(u, ch) /\ OwnsChannel(c, ch))
           /\ OwnsChannel(u, ch) \/ OwnsChannel(c, ch) => OwnsChannel(p, ch)
    BY <1>0, <1>4, <2>1, <2>3, <2>4 DEF OwnsChannel, ChannelsCap, EndpointCap
  <2>7. \A n \in Procs :
           /\ ~(OwnsPid(u, n) /\ OwnsPid(c, n))
           /\ OwnsPid(u, n) \/ OwnsPid(c, n) => OwnsPid(p, n)
    BY <1>0, <1>4, <2>1, <2>3, <2>4 DEF OwnsPid, ChannelsCap, EndpointCap
  <2> QED BY <2>3, <2>5, <2>6, <2>7, PartsApart DEF Cap
<1>5. CASE /\ p.type \in {"receiver", "server"} /\ c.type \in {"sender", "client"}
  <2>1. p \in EndpointCap /\ c \in EndpointCap
    BY <1>5 DEF Cap, TimeCap, ChannelsCap, SupervisorCap, EndpointCap, Endpoints
  <2>2. u = p
    BY <1>5, <2>1 DEF derive_update_cap, Ranged
  <2>3. \A h \in HartIds, q \in Quanta :
           /\ ~(OwnsQuantum(u, h, q) /\ OwnsQuantum(c, h, q))
           /\ OwnsQuantum(u, h, q) \/ OwnsQuantum(c, h, q) => OwnsQuantum(p, h, q)
    BY <1>0, <1>5, <2>1, <2>2 DEF OwnsQuantum, EndpointCap
  <2>4. \A ch \in Channels :
           /\ ~(OwnsChannel(u, ch) /\ OwnsChannel(c, ch))
           /\ OwnsChannel(u, ch) \/ OwnsChannel(c, ch) => OwnsChannel(p, ch)
    BY <1>0, <1>5, <2>1, <2>2 DEF OwnsChannel, EndpointCap
  <2>5. \A n \in Procs :
           /\ ~(OwnsPid(u, n) /\ OwnsPid(c, n))
           /\ OwnsPid(u, n) \/ OwnsPid(c, n) => OwnsPid(p, n)
    BY <1>0, <1>5, <2>1, <2>2 DEF OwnsPid, EndpointCap
  <2> QED BY <2>1, <2>2, <2>3, <2>4, <2>5, PartsApart DEF Cap
<1>6. p.type \in {"time", "channels", "supervisor"} \union Endpoints
  BY DEF Cap, TimeCap, ChannelsCap, SupervisorCap, EndpointCap
<1> QED
  BY <1>1, <1>2, <1>3, <1>4, <1>5, <1>6 DEF cap_can_derive, Endpoints

----------------------------------------------------------------------------
(* Nobody's call works on the slots of a process that is not held, but its *)
(* own; and no two calls work on the same slot.                            *)
LEMMA Reaches ==
  ASSUME Holders, Places,
         NEW q \in Procs, pc[q] \in Busy,
         NEW r \in Procs, r # q, pc[r] # "held"
  PROVE  src[q][1] # r /\ dst[q][1] # r
<1>1. r \notin Reach(q)
  BY DEF Holders, Reach
<1> QED
  BY <1>1 DEF Places, Place

LEMMA CallsApart ==
  ASSUME Holders, Places,
         NEW p \in Procs, pc[p] \in Busy,
         NEW q \in Procs, pc[q] \in Busy, p # q
  PROVE  /\ src[p] # src[q] /\ src[p] # dst[q]
         /\ dst[p] # src[q] /\ dst[p] # dst[q]
<1>1. pc[p] # "held" /\ pc[q] # "held"
  BY DEF Busy, Copies, Fresh, Sources
<1>2. \A x : ~(x \in Reach(p) /\ x \in Reach(q))
  BY <1>1 DEF Holders, Reach
<1> QED
  BY <1>2 DEF Places, Place

LEMMA InitIInv == Init => IInv
<1> SUFFICES ASSUME Init PROVE IInv
  OBVIOUS
<1>1. Typed
  <2>1. cap \in [Slots -> Cap \union EmptyCap]
    BY CapsAssumption DEF Init, EmptyCap, NULL_CAP
  <2>2. live \subseteq Slots /\ \A s \in live : cap[s] \in Cap
    BY CapsAssumption DEF Init
  <2> QED
    BY <2>1, <2>2 DEF Init, Typed, Labels, EmptyCap, NULL_CAP
<1>2. \A p \in Procs : pc[p] = "user"
  BY DEF Init
<1>3. Holders /\ Places /\ FreshApart
  BY <1>2 DEF Holders, Places, Place, FreshApart, Busy, Copies, Fresh, Sources, Holding
<1>4. OneOwner
  BY CapsAssumption DEF Init, OneOwner, Held
<1> QED
  BY <1>1, <1>3, <1>4 DEF IInv

----------------------------------------------------------------------------
(* Link and Unlink keep the types.                                         *)
LEMMA TypedStep ==
  ASSUME IInv, NEW p \in Procs, Step(p)
  PROVE  Typed'
<1> USE DEF IInv, Typed, Labels, User
<1>0. \A q \in Procs : Table(q) \subseteq Slots
  BY DEF Table
<1>e. NULL_CAP \in EmptyCap /\ \A c : Stale(c) \in EmptyCap
  BY DEF NULL_CAP, EmptyCap, Stale
<1>1. ASSUME NEW s \in Table(p), NEW t \in Table(p), NEW c \in Words, Derive(p, s, t, c)
      PROVE  Typed'
  <2>1. c \in Cap /\ derive_update_cap(cap[s], c) \in Cap
    BY <1>1, CapsAssumption, DeriveSplits DEF Derive
  <2> QED
    BY <1>0, <1>1, <2>1 DEF Derive, Call, Goto
<1>2. ASSUME NEW s \in Table(p), NEW t \in Table(p), Move(p, s, t)
      PROVE  Typed'
  BY <1>0, <1>2 DEF Move, Call, Goto
<1>3. ASSUME NEW s \in Table(p), Delete(p, s)
      PROVE  Typed'
  BY <1>0, <1>e, <1>3 DEF Delete, Unlink, Call, Goto
<1>4. ASSUME NEW s \in Table(p), Revoke(p, s)
      PROVE  Typed'
  BY <1>0, <1>e, <1>4 DEF Revoke, Call, Goto
<1>5. ASSUME NEW q \in Procs, NEW s \in Slots, NEW t \in Slots, NEW ch,
             Xfer(p, s, t, q, ch), UNCHANGED <<cap, live>>
      PROVE  Typed'
  BY <1>5 DEF Xfer, Call
<1>6. ASSUME NEW q \in Procs, NEW k \in Table(p), Suspend(p, k, q)
      PROVE  Typed'
  BY <1>6 DEF Suspend, Goto
<1>7. ASSUME NEW k \in Table(p), Receive(p, k)
      PROVE  Typed'
  BY <1>7 DEF Receive, Goto
<1>8. ASSUME NEW q, NEW ch, NEW next, Message(p, q, ch, next), UNCHANGED <<cap, live>>
      PROVE  Typed'
  <2>1. CASE \E s \in Table(p), t \in Table(q) : Xfer(p, s, t, q, next)
    <3>1. q \in Procs
      BY <1>8 DEF Message
    <3> QED
      BY <1>0, <1>5, <1>8, <2>1, <3>1
  <2>2. CASE /\ Call(p, None, None, NULL_CAP, q, next)
             /\ pc' = [pc EXCEPT ![p] = "release", ![q] = "held"]
    BY <1>8, <1>e, <2>2 DEF Message, Call
  <2> QED
    BY <1>8, <2>1, <2>2 DEF Message
<1>9. ASSUME NEW l \in Labels, Continue(p, l)
      PROVE  /\ pc' \in [Procs -> Labels]
             /\ src' \in [Procs -> Slots \union {None}]
             /\ dst' \in [Procs -> Slots \union {None}]
             /\ new' \in [Procs -> Cap \union EmptyCap]
             /\ peer' \in [Procs -> Procs \union {None}]
  <2>1. CASE l = "user"
    BY <1>9, <1>e, <2>1 DEF Continue, Call, Goto
  <2>2. CASE l # "user"
    BY <1>9, <2>2 DEF Continue, call, Goto
  <2> QED
    BY <2>1, <2>2
<1>10. CASE RevokeReturn(p)
  <2> DEFINE l == IF src[p] \notin live /\ cap[src[p]].asserts THEN "hang" ELSE "user"
  <2>1. l \in Labels /\ Continue(p, l)
    BY <1>10 DEF RevokeReturn
  <2> QED
    BY <1>9, <1>10, <2>1 DEF RevokeReturn
<1>11. CASE Hook(p)
  <2>1. UNCHANGED <<cap, live>>
    BY <1>11 DEF Hook
  <2>2. CASE HookAsserts(new[p])
    <3>1. AfterHook[pc[p]] \in Labels /\ Continue(p, AfterHook[pc[p]])
      BY <1>11, <2>2 DEF Hook, AfterHook
    <3> QED
      BY <1>9, <2>1, <3>1
  <2>3. CASE ~HookAsserts(new[p])
    BY <1>11, <2>1, <2>3 DEF Hook, Goto, call
  <2> QED
    BY <2>2, <2>3
<1>12. CASE Insert(p)
  <2>1. AfterInsert[pc[p]] \in Labels /\ Continue(p, AfterInsert[pc[p]])
    BY <1>12 DEF Insert, AfterInsert
  <2>2. dst[p] \in Slots /\ new[p] \in Cap
    BY <1>12 DEF Insert, AfterInsert, Places, Place, Busy, Copies, Fresh
  <2>3. cap' = [cap EXCEPT ![dst[p]] = new[p]] /\ live' = live \union {dst[p]}
    BY <1>12 DEF Insert, Link
  <2> QED
    BY <1>9, <2>1, <2>2, <2>3
<1>13. CASE DeleteSource(p)
  <2> DEFINE l == IF pc[p] = "xfer_delete" THEN "release" ELSE "user"
  <2>1. l \in Labels /\ Continue(p, l)
    BY <1>13 DEF DeleteSource
  <2>2. src[p] \in Slots
    BY <1>13 DEF DeleteSource, Places, Place, Busy, Sources
  <2>3. cap' = [cap EXCEPT ![src[p]] = Stale(@)] /\ live' = live \ {src[p]}
    BY <1>13 DEF DeleteSource, Unlink
  <2> QED
    BY <1>9, <1>e, <2>1, <2>2, <2>3
<1>14. CASE Release(p)
  <2>1. peer[p] \in Procs
    BY <1>14 DEF Release, Holders, Holding
  <2> QED
    BY <1>e, <1>14, <2>1 DEF Release
<1> QED
  BY <1>0, <1>1, <1>2, <1>3, <1>4, <1>5, <1>6, <1>7, <1>8, <1>10, <1>11, <1>12, <1>13, <1>14
  DEF Step, Give, Take, Send, ClientCall, Reply

----------------------------------------------------------------------------
(* The steps of p that do not take a process end with p holding nobody, or *)
(* go on with the one it holds.                                            *)
LEMMA HoldersStep ==
  ASSUME IInv, NEW p \in Procs, Step(p)
  PROVE  Holders'
<1> USE DEF IInv, Typed, User
<1>1. ASSUME NEW r \in Procs, pc[r] # "held", NEW l, l \notin Holding,
             pc' = [pc EXCEPT ![r] = l],
             \A x \in Procs \ {r} : peer'[x] = peer[x]
      PROVE  Holders'
  BY <1>1 DEF Holders
<1>2. ASSUME NEW l \in Holding, pc[p] \in Holding,
             pc' = [pc EXCEPT ![p] = l], UNCHANGED peer
      PROVE  Holders'
  BY <1>2 DEF Holders, Holding
<1>3. ASSUME NEW q \in Procs \ {p}, pc[p] = "user", pc[q] \in {"user", "waiting"},
             NEW l \in Holding, pc' = [pc EXCEPT ![p] = l, ![q] = "held"],
             peer' = [peer EXCEPT ![p] = q]
      PROVE  Holders'
  BY <1>3 DEF Holders, Holding
<1>4. ASSUME NEW l, l \notin Holding, pc[p] # "held", Continue(p, l)
      PROVE  Holders'
  <2>1. pc' = [pc EXCEPT ![p] = l] /\ \A x \in Procs \ {p} : peer'[x] = peer[x]
    <3>1. CASE l = "user"
      BY <1>4, <3>1 DEF Continue, Goto, Call
    <3>2. CASE l # "user"
      BY <1>4, <3>2 DEF Continue, Goto, call
    <3> QED
      BY <3>1, <3>2
  <2> QED
    BY <1>1, <1>4, <2>1
<1>5. ASSUME NEW l \in Holding, pc[p] \in Holding, Continue(p, l)
      PROVE  Holders'
  <2>1. pc' = [pc EXCEPT ![p] = l] /\ UNCHANGED peer
    BY <1>5 DEF Continue, Goto, call, Holding
  <2> QED
    BY <1>2, <1>5, <2>1
<1>6. ASSUME NEW s, NEW t, NEW c, Derive(p, s, t, c)
      PROVE  Holders'
  BY <1>1, <1>6 DEF Derive, Call, Goto, Holding
<1>7. ASSUME NEW s, NEW t, Move(p, s, t) \/ Delete(p, s) \/ Revoke(p, s)
      PROVE  Holders'
  BY <1>1, <1>7 DEF Move, Delete, Revoke, Call, Goto, Holding
<1>8. ASSUME NEW q \in Procs, NEW k, NEW s, NEW t,
             Give(p, k, q, s, t) \/ Take(p, k, q, s, t)
      PROVE  Holders'
  BY <1>3, <1>8 DEF Give, Take, Supervises, Xfer, Call, Holding
<1>9. ASSUME NEW q \in Procs, NEW k, Suspend(p, k, q)
      PROVE  Holders'
  BY <1>1, <1>9 DEF Suspend, Goto, Holding
<1>10. ASSUME NEW k, Receive(p, k)
      PROVE  Holders'
  BY <1>1, <1>10 DEF Receive, Holds, Goto, Holding
<1>11. ASSUME NEW q, NEW ch, NEW next, pc[p] = "user", Message(p, q, ch, next)
      PROVE  Holders'
  BY <1>3, <1>11 DEF Message, Xfer, Call, Holding
<1>12. ASSUME NEW k, Send(p, k) \/ ClientCall(p, k) \/ Reply(p, k)
      PROVE  Holders'
  BY <1>11, <1>12 DEF Send, ClientCall, Reply, Holds
<1>13. CASE RevokeReturn(p)
  BY <1>4, <1>13 DEF RevokeReturn, Holding
<1>14. CASE Hook(p)
  <2>1. CASE HookAsserts(new[p])
    BY <1>4, <1>5, <1>14, <2>1 DEF Hook, AfterHook, Holding
  <2>2. CASE ~HookAsserts(new[p])
    BY <1>1, <1>14, <2>2 DEF Hook, AfterHook, Goto, call, Holding
  <2> QED
    BY <2>1, <2>2
<1>15. CASE Insert(p)
  BY <1>4, <1>5, <1>15 DEF Insert, AfterInsert, Holding
<1>16. CASE DeleteSource(p)
  BY <1>4, <1>5, <1>16 DEF DeleteSource, Holding
<1>17. CASE Release(p)
  BY <1>17 DEF Release, Holders, Holding
<1> QED
  BY <1>6, <1>7, <1>8, <1>9, <1>10, <1>12, <1>13, <1>14, <1>15, <1>16, <1>17 DEF Step

----------------------------------------------------------------------------
(* A step of p leaves the calls of the others where they are ...           *)
Steady(p) ==
  \A q \in Procs \ {p} : pc[q] \in Busy \/ pc'[q] \in Busy =>
    /\ pc'[q] = pc[q] /\ src'[q] = src[q] /\ dst'[q] = dst[q]
    /\ new'[q] = new[q] /\ peer'[q] = peer[q]

(* ... and changes a slot of its own, or one of its call.                  *)
Mine(p, x) == \/ pc[p] = "user" /\ x[1] = p
              \/ pc[p] \in Busy /\ x \in {src[p], dst[p]}
Only(x) ==
  \A y \in Slots \ {x} : cap'[y] = cap[y] /\ (y \in live' <=> y \in live)
Local(p) == UNCHANGED <<cap, live>> \/ \E x : Mine(p, x) /\ Only(x)

LEMMA OthersPlaces ==
  ASSUME IInv, NEW p \in Procs, Steady(p), Local(p),
         NEW q \in Procs \ {p}
  PROVE  Place(q)'
<1> SUFFICES ASSUME pc'[q] \in Busy PROVE Place(q)'
  BY DEF Place
<1>1. pc[q] \in Busy /\ Place(q)
  BY DEF Steady, IInv, Places
<1>2. ASSUME NEW x, Mine(p, x)
      PROVE  x # src[q] /\ x # dst[q]
  <2>1. CASE pc[p] = "user" /\ x[1] = p
    BY <1>1, <2>1, Reaches DEF IInv
  <2>2. CASE pc[p] \in Busy /\ x \in {src[p], dst[p]}
    BY <1>1, <2>2, CallsApart DEF IInv
  <2> QED
    BY <1>2, <2>1, <2>2 DEF Mine
<1>3. src[q] \in Slots /\ dst[q] \in Slots
  BY <1>1 DEF Place, IInv, Typed
<1>4. /\ cap'[src[q]] = cap[src[q]] /\ (src[q] \in live' <=> src[q] \in live)
      /\ cap'[dst[q]] = cap[dst[q]] /\ (dst[q] \in live' <=> dst[q] \in live)
  BY <1>2, <1>3 DEF Local, Only
<1>5. /\ pc'[q] = pc[q] /\ src'[q] = src[q] /\ dst'[q] = dst[q]
      /\ new'[q] = new[q] /\ peer'[q] = peer[q]
  BY DEF Steady
<1> QED
  BY <1>1, <1>4, <1>5 DEF Place, Reach

LEMMA Frame ==
  ASSUME IInv, NEW p \in Procs, Step(p)
  PROVE  Steady(p) /\ Local(p)
<1> USE DEF IInv, Typed, User, Busy, Copies, Fresh, Sources, Steady
<1>m. \A s \in Table(p) : pc[p] = "user" => Mine(p, s)
  BY DEF Table, Mine
<1>c. ASSUME NEW l, Continue(p, l)
      PROVE  Steady(p)
  <2>1. CASE l = "user"
    BY <1>c, <2>1 DEF Continue, Goto, Call
  <2>2. CASE l # "user"
    BY <1>c, <2>2 DEF Continue, Goto, call
  <2> QED
    BY <2>1, <2>2
<1>1. ASSUME NEW s \in Table(p), NEW t, NEW c, Derive(p, s, t, c)
      PROVE  Steady(p) /\ Local(p)
  <2>1. Steady(p)
    BY <1>1 DEF Derive, Call, Goto
  <2>2. Only(s)
    BY <1>1 DEF Derive, Only
  <2> QED
    BY <1>m, <1>1, <2>1, <2>2 DEF Derive, Local
<1>2. ASSUME NEW s, NEW t, Move(p, s, t) \/ Revoke(p, s)
      PROVE  Steady(p) /\ Local(p)
  BY <1>2 DEF Move, Revoke, Call, Goto, Local
<1>3. ASSUME NEW s \in Table(p), Delete(p, s)
      PROVE  Steady(p) /\ Local(p)
  <2>1. Steady(p)
    BY <1>3 DEF Delete, Call, Goto
  <2>2. Only(s)
    BY <1>3 DEF Delete, Unlink, Only
  <2> QED
    BY <1>m, <1>3, <2>1, <2>2 DEF Delete, Local
<1>4. ASSUME NEW q \in Procs \ {p}, NEW s, NEW t, NEW ch, Xfer(p, s, t, q, ch),
             pc[q] \in {"user", "waiting"}, UNCHANGED <<cap, live>>
      PROVE  Steady(p) /\ Local(p)
  BY <1>4 DEF Xfer, Call, Local
<1>5. ASSUME NEW q \in Procs, NEW k, Suspend(p, k, q)
      PROVE  Steady(p) /\ Local(p)
  BY <1>5 DEF Suspend, Supervises, Goto, Local
<1>6. ASSUME NEW k, Receive(p, k)
      PROVE  Steady(p) /\ Local(p)
  BY <1>6 DEF Receive, Goto, Local
<1>7. ASSUME NEW q, NEW ch, NEW next, Message(p, q, ch, next), UNCHANGED <<cap, live>>
      PROVE  Steady(p) /\ Local(p)
  BY <1>4, <1>7 DEF Message, Call, Local
<1>8. CASE RevokeReturn(p)
  BY <1>c, <1>8 DEF RevokeReturn, Local
<1>9. CASE Hook(p)
  <2>1. Local(p)
    BY <1>9 DEF Hook, Local
  <2>2. CASE HookAsserts(new[p])
    BY <1>c, <1>9, <2>1, <2>2 DEF Hook
  <2>3. CASE ~HookAsserts(new[p])
    BY <1>9, <2>1, <2>3 DEF Hook, Goto, call
  <2> QED
    BY <2>2, <2>3
<1>10. CASE Insert(p)
  <2>1. Steady(p)
    BY <1>c, <1>10 DEF Insert
  <2>2. Only(dst[p])
    BY <1>10 DEF Insert, Link, Only
  <2>3. Mine(p, dst[p])
    BY <1>10 DEF Insert, AfterInsert, Mine
  <2> QED
    BY <2>1, <2>2, <2>3 DEF Local
<1>11. CASE DeleteSource(p)
  <2>1. Steady(p)
    BY <1>c, <1>11 DEF DeleteSource
  <2>2. Only(src[p])
    BY <1>11 DEF DeleteSource, Unlink, Only
  <2>3. Mine(p, src[p])
    BY <1>11 DEF DeleteSource, Mine
  <2> QED
    BY <2>1, <2>2, <2>3 DEF Local
<1>12. CASE Release(p)
  BY <1>12 DEF Release, Local, Holders, Holding
<1> QED
  BY <1>1, <1>2, <1>3, <1>4, <1>5, <1>6, <1>7, <1>8, <1>9, <1>10, <1>11, <1>12
  DEF Step, Give, Take, Supervises, Send, ClientCall, Reply

----------------------------------------------------------------------------
LEMMA PlacesStep ==
  ASSUME IInv, NEW p \in Procs, Step(p)
  PROVE  Places'
<1>0. SUFFICES Place(p)'
  BY Frame, OthersPlaces DEF Places
<1> USE DEF IInv, Typed, User, Place, Reach
<1>e. "user" \notin Busy /\ "waiting" \notin Busy /\ "hang" \notin Busy
      /\ "release" \notin Busy /\ "revoke" \notin Busy /\ "delete_hook" \notin Busy
  BY DEF Busy, Copies, Fresh, Sources
<1>1. ASSUME NEW s \in Table(p), NEW t \in Table(p), NEW c \in Words, Derive(p, s, t, c)
      PROVE  Place(p)'
  BY <1>1, CapsAssumption DEF Derive, Call, Goto, Table, Copies, Fresh, Sources, Holding
<1>2. ASSUME NEW s \in Table(p), NEW t \in Table(p), Move(p, s, t)
      PROVE  Place(p)'
  BY <1>2 DEF Move, Call, Goto, Table, Copies, Fresh, Sources, Holding
<1>3. ASSUME NEW l, l \notin Busy, pc'[p] = l
      PROVE  Place(p)'
  BY <1>3
<1>4. ASSUME NEW s, Delete(p, s) \/ Revoke(p, s)
      PROVE  Place(p)'
  BY <1>e, <1>3, <1>4 DEF Delete, Revoke, Goto
<1>5. ASSUME NEW q \in Procs \ {p}, NEW s \in Slots, NEW t \in Slots, NEW ch,
             Xfer(p, s, t, q, ch), UNCHANGED <<cap, live>>,
             s[1] \in {p, q}, t[1] \in {p, q}
      PROVE  Place(p)'
  BY <1>5 DEF Xfer, Call, Copies, Fresh, Sources, Holding
<1>6. ASSUME NEW q \in Procs, NEW k \in Table(p),
             \/ \E s \in Table(p), t \in Table(q) : Give(p, k, q, s, t)
             \/ \E s \in Table(q), t \in Table(p) : Take(p, k, q, s, t)
      PROVE  Place(p)'
  BY <1>5, <1>6 DEF Give, Take, Supervises, Table
<1>7. ASSUME NEW q, NEW k, Suspend(p, k, q)
      PROVE  Place(p)'
  BY <1>e, <1>7 DEF Suspend, Supervises, Goto
<1>8. ASSUME NEW k, Receive(p, k)
      PROVE  Place(p)'
  BY <1>e, <1>8 DEF Receive, Goto
<1>9. ASSUME NEW q, NEW ch, NEW next, Message(p, q, ch, next), UNCHANGED <<cap, live>>
      PROVE  Place(p)'
  BY <1>e, <1>5, <1>9 DEF Message, Table
<1>10. ASSUME NEW k, Send(p, k) \/ ClientCall(p, k) \/ Reply(p, k)
      PROVE  Place(p)'
  BY <1>9, <1>10 DEF Send, ClientCall, Reply
<1>11. ASSUME NEW l, l \in Labels, Continue(p, l), l \notin Busy
      PROVE  Place(p)'
  BY <1>11 DEF Continue, Goto
<1>12. ASSUME NEW l, l # "user", Continue(p, l)
      PROVE  pc' = [pc EXCEPT ![p] = l] /\ UNCHANGED <<src, dst, new, peer>>
  BY <1>12 DEF Continue, Goto, call
<1>13. CASE RevokeReturn(p)
  BY <1>e, <1>13 DEF RevokeReturn, Continue, Goto
<1>14. CASE Hook(p)
  <2>1. CASE ~HookAsserts(new[p])
    BY <1>e, <1>14, <2>1 DEF Hook, Goto
  <2>2. CASE HookAsserts(new[p]) /\ pc[p] = "delete_hook"
    BY <1>e, <1>14, <2>2 DEF Hook, AfterHook, Continue, Goto
  <2>3. CASE HookAsserts(new[p]) /\ pc[p] \in {"hook", "xfer_hook"}
    <3>1. UNCHANGED <<cap, live, src, dst, new, peer>>
      BY <1>12, <1>14, <2>3 DEF Hook, AfterHook
    <3>2. \/ pc[p] = "hook" /\ pc'[p] = "insert"
          \/ pc[p] = "xfer_hook" /\ pc'[p] = "xfer_insert"
      BY <1>12, <1>14, <2>3 DEF Hook, AfterHook
    <3> QED
      BY <3>1, <3>2 DEF Places, Busy, Copies, Fresh, Sources, Holding
  <2> QED
    BY <1>14, <2>1, <2>2, <2>3 DEF Hook, AfterHook
<1>15. CASE Insert(p)
  <2>1. CASE pc[p] = "insert"
    BY <1>e, <1>15, <2>1 DEF Insert, AfterInsert, Continue, Goto
  <2>2. CASE pc[p] \in {"move_insert", "xfer_insert"}
    <3>1. /\ UNCHANGED <<src, dst, new, peer>>
          /\ \/ pc[p] = "move_insert" /\ pc'[p] = "delete"
             \/ pc[p] = "xfer_insert" /\ pc'[p] = "xfer_delete"
      BY <1>12, <1>15, <2>2 DEF Insert, AfterInsert
    <3>2. cap' = [cap EXCEPT ![dst[p]] = new[p]] /\ live' = live \union {dst[p]}
      BY <1>15 DEF Insert, Link
    <3>3. /\ src[p] \in live /\ src[p][1] \in Reach(p)
          /\ dst[p] \in Slots /\ dst[p][1] \in Reach(p)
          /\ dst[p] \notin live /\ new[p] = cap[src[p]]
      BY <2>2 DEF Places, Busy, Copies
    <3> QED
      BY <3>1, <3>2, <3>3 DEF Busy, Copies, Fresh, Sources, Holding
  <2> QED
    BY <1>15, <2>1, <2>2 DEF Insert, AfterInsert
<1>16. CASE DeleteSource(p)
  BY <1>e, <1>16 DEF DeleteSource, Continue, Goto
<1>17. CASE Release(p)
  BY <1>e, <1>17 DEF Release, Holders, Holding
<1> QED
  BY <1>1, <1>2, <1>4, <1>6, <1>7, <1>8, <1>10, <1>13, <1>14, <1>15, <1>16, <1>17 DEF Step

----------------------------------------------------------------------------
(* Who is on the way out after a step of p.                                *)
LEMMA HeldAfter ==
  ASSUME IInv, NEW p \in Procs, Steady(p), NEW y \in Held'
  PROVE  /\ y \in live'
         /\ ~(pc'[p] \in Sources /\ src'[p] = y)
         /\ y \in live /\ ~(pc[p] \in Sources /\ src[p] = y) => y \in Held
<1>1. y \in live' /\ ~Leaving(y)'
  BY DEF Held
<1>2. \A r \in Procs \ {p} : ~(pc[r] \in Sources /\ src[r] = y)
  BY <1>1 DEF Leaving, Steady, Sources, Busy
<1> QED
  BY <1>1, <1>2 DEF Held, Leaving, Sources

(* Nothing new is held: what was apart stays so.                           *)
LEMMA Shrink ==
  ASSUME OneOwner, FreshApart, Held' \subseteq Held,
         \A y \in Held' : cap'[y] = cap[y],
         \A q \in Procs : pc'[q] \in Fresh => pc[q] \in Fresh /\ new'[q] = new[q]
  PROVE  OneOwner' /\ FreshApart'
BY DEF OneOwner, FreshApart

(* The steps that change no slot, begin no derivation and end no move.     *)
LEMMA SlotsKept ==
  ASSUME IInv, NEW p \in Procs, Steady(p), UNCHANGED <<cap, live>>,
         pc[p] \notin Sources,
         pc'[p] \in Fresh => pc[p] \in Fresh /\ new'[p] = new[p]
  PROVE  OneOwner' /\ FreshApart'
<1>1. Held' \subseteq Held
  BY HeldAfter
<1>2. \A q \in Procs : pc'[q] \in Fresh => pc[q] \in Fresh /\ new'[q] = new[q]
  BY DEF Steady, Busy
<1> QED
  BY <1>1, <1>2, Shrink DEF IInv

LEMMA DeriveKeepsOwners ==
  ASSUME IInv, NEW p \in Procs, NEW s \in Table(p), NEW t \in Table(p),
         NEW c \in Words, Derive(p, s, t, c), Steady(p)
  PROVE  OneOwner' /\ FreshApart'
<1> DEFINE u == derive_update_cap(cap[s], c)
<1>1. /\ pc[p] = "user" /\ pc'[p] = "hook" /\ new'[p] = c
      /\ s \in live /\ live' = live /\ cap[s] \in Cap /\ c \in Cap
      /\ cap_can_derive(cap[s], c) /\ cap' = [cap EXCEPT ![s] = u]
  BY CapsAssumption DEF Derive, User, Call, Goto, IInv, Typed
<1>2. s \in Slots /\ s[1] = p
  BY DEF Table
<1>3. s \in Held
  <2>1. \A r \in Procs : pc[r] \in Sources => src[r] # s
    BY <1>1, <1>2, Reaches DEF IInv, Busy, Sources, Copies, Fresh
  <2> QED
    BY <1>1, <2>1 DEF Held, Leaving, Sources
<1>4. Held' \subseteq Held
  BY <1>1, HeldAfter DEF Sources
<1>5. /\ cap'[s] = u
      /\ \A y \in Slots \ {s} : cap'[y] = cap[y]
  BY <1>1, <1>2 DEF IInv, Typed
<1>6. /\ Apart(u, c) /\ Apart(c, u)
      /\ \A d : Apart(cap[s], d) => Apart(u, d) /\ Apart(d, u) /\ Apart(c, d) /\ Apart(d, c)
  BY <1>1, DeriveSplits, ApartSymmetric
<1>7. \A q \in Procs \ {p} : pc'[q] \in Fresh => pc[q] \in Fresh /\ new'[q] = new[q]
  BY DEF Steady, Busy
<1>8. Held \subseteq Slots
  BY DEF Held, IInv, Typed
<1>9. \A y \in Held \ {s} : Apart(cap[s], cap[y])
  BY <1>3 DEF IInv, OneOwner
<1>10. \A q \in Procs : pc[q] \in Fresh => Apart(cap[s], new[q])
  BY <1>3, ApartSymmetric DEF IInv, FreshApart
<1>11. OneOwner'
  BY <1>4, <1>5, <1>6, <1>8, <1>9 DEF IInv, OneOwner
<1>12. \A q \in Procs, y \in Held' : pc'[q] \in Fresh => Apart(new'[q], cap'[y])
  <2>1. ASSUME NEW y \in Held' PROVE Apart(c, cap'[y])
    BY <1>4, <1>5, <1>6, <1>8, <1>9
  <2>2. ASSUME NEW q \in Procs \ {p}, NEW y \in Held', pc'[q] \in Fresh
        PROVE  Apart(new'[q], cap'[y])
    <3>1. pc[q] \in Fresh /\ new'[q] = new[q] /\ y \in Held
      BY <1>4, <1>7, <2>2
    <3>2. CASE y = s
      BY <1>5, <1>6, <1>10, <3>1, <3>2
    <3>3. CASE y # s
      BY <1>5, <1>8, <3>1, <3>3 DEF IInv, FreshApart
    <3> QED
      BY <3>2, <3>3
  <2> QED
    BY <1>1, <2>1, <2>2
<1>13. ASSUME NEW q \in Procs, NEW r \in Procs, q # r, pc'[q] \in Fresh, pc'[r] \in Fresh
       PROVE  Apart(new'[q], new'[r])
  <2>1. CASE q = p
    BY <1>1, <1>6, <1>7, <1>10, <1>13, <2>1
  <2>2. CASE r = p
    BY <1>1, <1>6, <1>7, <1>10, <1>13, <2>2
  <2>3. CASE q # p /\ r # p
    BY <1>7, <1>13, <2>3 DEF IInv, FreshApart
  <2> QED
    BY <2>1, <2>2, <2>3
<1> QED
  BY <1>11, <1>12, <1>13 DEF FreshApart

(* The destination takes the place of the fresh capability, or of the      *)
(* source.                                                                 *)
LEMMA InsertKeepsOwners ==
  ASSUME IInv, NEW p \in Procs, Insert(p), Steady(p)
  PROVE  OneOwner' /\ FreshApart'
<1> DEFINE d == dst[p]
<1>1. /\ pc[p] \in Busy \ Sources /\ d \in Slots /\ d \notin live
      /\ cap' = [cap EXCEPT ![d] = new[p]] /\ live' = live \union {d}
      /\ pc'[p] = AfterInsert[pc[p]]
      /\ pc[p] # "insert" => src'[p] = src[p]
  BY DEF Insert, Link, Continue, Goto, call, AfterInsert, IInv, Typed, Places, Place,
         Busy, Copies, Fresh, Sources
<1>2. cap'[d] = new[p] /\ \A y \in Slots \ {d} : cap'[y] = cap[y]
  BY <1>1 DEF IInv, Typed
<1>3. Held' \subseteq Held \union {d}
  BY <1>1, HeldAfter
<1>4. d \notin Held /\ Held \subseteq Slots
  BY <1>1 DEF Held, IInv, Typed
<1>5. pc'[p] \notin Fresh
  BY <1>1 DEF AfterInsert, Fresh, Insert
<1>6. \A q \in Procs : pc'[q] \in Fresh => q # p /\ pc[q] \in Fresh /\ new'[q] = new[q]
  BY <1>5 DEF Steady, Busy
<1>7. /\ \A y \in Held' \ {d} : y \in Held /\ Apart(new[p], cap[y])
      /\ \A q \in Procs \ {p} : pc[q] \in Fresh => Apart(new[q], new[p])
  <2>1. CASE pc[p] = "insert"
    BY <1>3, <2>1 DEF IInv, FreshApart, Fresh
  <2>2. CASE pc[p] \in {"move_insert", "xfer_insert"}
    <3>1. new[p] = cap[src[p]] /\ src[p] \in live /\ pc'[p] \in Sources /\ src'[p] = src[p]
      BY <1>1, <2>2 DEF IInv, Places, Place, Copies, AfterInsert, Sources, Busy
    <3>2. src[p] \notin Held'
      BY <3>1, HeldAfter
    <3>3. src[p] \in Held
      <4>1. \A r \in Procs : pc[r] \in Sources => src[r] # src[p]
        BY <1>1, CallsApart DEF IInv, Busy
      <4> QED
        BY <3>1, <4>1 DEF Held, Leaving, Sources
    <3> QED
      BY <1>3, <3>1, <3>2, <3>3, ApartSymmetric DEF IInv, OneOwner, FreshApart
  <2> QED
    BY <2>1, <2>2 DEF Insert, AfterInsert
<1>8. OneOwner'
  BY <1>2, <1>4, <1>7, ApartSymmetric DEF IInv, OneOwner
<1>9. ASSUME NEW q \in Procs, NEW y \in Held', pc'[q] \in Fresh
      PROVE  Apart(new'[q], cap'[y])
  <2>1. CASE y = d
    BY <1>2, <1>6, <1>7, <1>9, <2>1
  <2>2. CASE y # d
    BY <1>2, <1>4, <1>6, <1>7, <1>9, <2>2 DEF IInv, FreshApart
  <2> QED
    BY <2>1, <2>2
<1>10. \A q, r \in Procs : q # r /\ pc'[q] \in Fresh /\ pc'[r] \in Fresh
                        => Apart(new'[q], new'[r])
  BY <1>6 DEF IInv, FreshApart
<1> QED
  BY <1>8, <1>9, <1>10 DEF FreshApart

(* A slot is deleted: at once, or the source of a move, which was not held.*)
LEMMA UnlinkKeepsOwners ==
  ASSUME IInv, NEW p \in Procs, Steady(p), NEW s \in Slots,
         live' = live \ {s}, cap' = [cap EXCEPT ![s] = Stale(@)],
         pc[p] \in Sources => src[p] = s,
         pc'[p] \notin Fresh
  PROVE  OneOwner' /\ FreshApart'
<1>1. \A y \in Held' : y # s /\ y \in Held
  BY HeldAfter
<1>2. \A y \in Held' : cap'[y] = cap[y]
  BY <1>1 DEF Held, IInv, Typed
<1>3. \A q \in Procs : pc'[q] \in Fresh => pc[q] \in Fresh /\ new'[q] = new[q]
  BY DEF Steady, Busy
<1> QED
  BY <1>1, <1>2, <1>3, Shrink DEF IInv

LEMMA OwnersStep ==
  ASSUME IInv, NEW p \in Procs, Step(p)
  PROVE  OneOwner' /\ FreshApart'
<1>0. Steady(p)
  BY Frame
<1> USE <1>0 DEF User
<1>t. pc \in [Procs -> Labels]
  BY DEF IInv, Typed
<1>1. ASSUME NEW s \in Table(p), NEW t \in Table(p), NEW c \in Words, Derive(p, s, t, c)
      PROVE  OneOwner' /\ FreshApart'
  BY <1>1, DeriveKeepsOwners
<1>2. ASSUME NEW s \in Table(p), Delete(p, s)
      PROVE  OneOwner' /\ FreshApart'
  <2>1. /\ s \in Slots /\ pc[p] \notin Sources /\ pc'[p] \notin Fresh
        /\ live' = live \ {s} /\ cap' = [cap EXCEPT ![s] = Stale(@)]
    BY <1>2, <1>t DEF Delete, Unlink, Goto, Table, Sources, Fresh
  <2> QED
    BY <2>1, UnlinkKeepsOwners
<1>3. ASSUME pc[p] \notin Sources, UNCHANGED <<cap, live>>, pc'[p] \notin Fresh
      PROVE  OneOwner' /\ FreshApart'
  BY <1>3, SlotsKept
<1>4. ASSUME NEW s, NEW t, Move(p, s, t) \/ Revoke(p, s)
      PROVE  OneOwner' /\ FreshApart'
  BY <1>3, <1>4, <1>t DEF Move, Revoke, Goto, Sources, Fresh
<1>5. ASSUME NEW q \in Procs \ {p}, pc[p] = "user", NEW l \in {"xfer_hook", "release"},
             pc' = [pc EXCEPT ![p] = l, ![q] = "held"], UNCHANGED <<cap, live>>
      PROVE  OneOwner' /\ FreshApart'
  BY <1>3, <1>5, <1>t DEF Sources, Fresh
<1>6. ASSUME NEW q \in Procs, NEW k, NEW s, NEW t,
             Give(p, k, q, s, t) \/ Take(p, k, q, s, t)
      PROVE  OneOwner' /\ FreshApart'
  BY <1>5, <1>6 DEF Give, Take, Supervises, Xfer
<1>7. ASSUME NEW q \in Procs, NEW k, Suspend(p, k, q)
      PROVE  OneOwner' /\ FreshApart'
  BY <1>3, <1>7, <1>t DEF Suspend, Supervises, Goto, Sources, Fresh
<1>8. ASSUME NEW k, Receive(p, k)
      PROVE  OneOwner' /\ FreshApart'
  BY <1>3, <1>8, <1>t DEF Receive, Holds, Goto, Sources, Fresh
<1>9. ASSUME NEW q, NEW ch, NEW next, pc[p] = "user", Message(p, q, ch, next),
             UNCHANGED <<cap, live>>
      PROVE  OneOwner' /\ FreshApart'
  BY <1>5, <1>9 DEF Message, Xfer
<1>10. ASSUME NEW k, Send(p, k) \/ ClientCall(p, k) \/ Reply(p, k)
       PROVE  OneOwner' /\ FreshApart'
  BY <1>9, <1>10 DEF Send, ClientCall, Reply, Holds
<1>11. CASE RevokeReturn(p)
  BY <1>3, <1>11, <1>t DEF RevokeReturn, Continue, Goto, Sources, Fresh
<1>12. CASE Hook(p)
  <2>1. pc[p] \notin Sources /\ UNCHANGED <<cap, live>>
    BY <1>12 DEF Hook, AfterHook, Sources
  <2>2. CASE ~HookAsserts(new[p])
    BY <1>3, <1>12, <1>t, <2>1, <2>2 DEF Hook, Goto, Fresh
  <2>3. CASE HookAsserts(new[p]) /\ pc[p] # "hook"
    BY <1>3, <1>12, <1>t, <2>1, <2>3 DEF Hook, AfterHook, Continue, Goto, Fresh
  <2>4. CASE HookAsserts(new[p]) /\ pc[p] = "hook"
    BY <1>12, <2>1, <2>4, SlotsKept DEF Hook, AfterHook, Continue, call, Fresh
  <2> QED
    BY <2>2, <2>3, <2>4
<1>13. CASE Insert(p)
  BY <1>13, InsertKeepsOwners
<1>14. CASE DeleteSource(p)
  <2>1. /\ src[p] \in Slots /\ pc'[p] \notin Fresh
        /\ live' = live \ {src[p]} /\ cap' = [cap EXCEPT ![src[p]] = Stale(@)]
    BY <1>14, <1>t DEF DeleteSource, Unlink, Continue, Goto, Fresh, Sources, Busy,
                       IInv, Typed, Places, Place
  <2> QED
    BY <2>1, UnlinkKeepsOwners
<1>15. CASE Release(p)
  <2>1. peer[p] \in Procs
    BY <1>15 DEF Release, IInv, Holders, Holding
  <2> QED
    BY <1>3, <1>15, <1>t, <2>1 DEF Release, Sources, Fresh
<1> QED
  BY <1>1, <1>2, <1>4, <1>6, <1>7, <1>8, <1>10, <1>11, <1>12, <1>13, <1>14, <1>15 DEF Step

----------------------------------------------------------------------------
LEMMA Invariance == IInv /\ [Next]_vars => IInv'
<1> SUFFICES ASSUME IInv, [Next]_vars PROVE IInv'
  OBVIOUS
<1>1. ASSUME NEW p \in Procs, Step(p)
      PROVE  IInv'
  BY <1>1, TypedStep, HoldersStep, PlacesStep, OwnersStep DEF IInv
<1>2. CASE UNCHANGED vars
  <2>1. Typed' /\ Holders' /\ Places'
    BY <1>2 DEF vars, IInv, Typed, Holders, Places, Place, Reach
  <2>2. Held' = Held
    BY <1>2 DEF vars, Held, Leaving
  <2>3. OneOwner' /\ FreshApart'
    BY <1>2, <2>2 DEF vars, IInv, OneOwner, FreshApart
  <2> QED
    BY <2>1, <2>3 DEF IInv
<1> QED
  BY <1>1, <1>2 DEF Next

(* syscall_derive_cap splits a capability between parent and child before  *)
(* the child is linked, and a move links the copy before it deletes the    *)
(* source; still no quantum, channel or process ever has two owners.       *)
THEOREM SingleOwner == Spec => []OneOwner
<1>1. IInv => OneOwner
  BY DEF IInv
<1> QED
  BY InitIInv, Invariance, <1>1, PTL DEF Spec

(* A process whose slots are in another's hands (its state word is busy)   *)
(* is in the hands of one process only, and no two calls work on the same  *)
(* slot: what every step of a capability call relies on.                   *)
CallsDisjoint ==
  \A p, q \in Procs : p # q /\ pc[p] \in Busy /\ pc[q] \in Busy =>
    {src[p], dst[p]} \intersect {src[q], dst[q]} = {}

THEOREM CallsStayDisjoint == Spec => []CallsDisjoint
<1>1. IInv => CallsDisjoint
  BY CallsApart DEF IInv, CallsDisjoint
<1> QED
  BY InitIInv, Invariance, <1>1, PTL DEF Spec
----------------------------------------------------------------------------
(* The tables.  A capability does not pass the end of the tables (Bounded),*)
(* and the entries of what it owns name its holder (Shown).                *)
Bounded(c) ==
  /\ c.type = "time" => c.end <= NQuantum
  /\ c.type = "channels" => c.end <= NChannels
  /\ c.type \in Endpoints => c.channel \in Channels

Limits ==
  /\ \A s \in live : Bounded(cap[s])
  /\ \A p \in Procs : pc[p] \in Fresh => Bounded(new[p])
  /\ wait \in [Procs -> Channels \union {None}]

ShownIn(sched, recv, c, n) ==
  /\ \A h \in HartIds, q \in Quanta :
       OwnsQuantum(c, h, q) => sched[h][q] = [pid |-> n, length |-> c.end - q]
  /\ c.type \in {"receiver", "server"} => recv[c.channel] = n
Shown(c, n) == ShownIn(schedule, receiver, c, n)

(* A deletion runs the hook on a slot that is not live (nor will be, it is *)
(* the caller's own).                                                      *)
Gone == \A p \in Procs : pc[p] = "delete_hook" => /\ src[p] \in Table(p) \ live
                                                  /\ dst[p] = None

Mirrored ==
  /\ schedule \in [HartIds -> [Quanta -> Entries]]
  /\ receiver \in [Channels -> Procs \union {None}]
  /\ client \in [Channels -> Procs \union {None}]
  /\ \A s \in Settled : Shown(cap[s], s[1])
  /\ \A p \in Procs : pc[p] \in {"insert", "xfer_insert"} => Shown(new[p], dst[p][1])

(* A process that waits on a channel, or will when its call ends, has not  *)
(* let go of the capability for it while it is the receiver there.         *)
HoldsEnd(p, ch) ==
  \E s \in Held : /\ s[1] = p
                  /\ cap[s].type \in {"receiver", "server"}
                  /\ cap[s].channel = ch

Waits(p) == pc[p] \in Holding \union {"waiting"} /\ wait[p] # None

Listening ==
  /\ \A p \in Procs : Waits(p) /\ pc[p] \in Busy => dst[p][1] # p
  /\ \A p \in Procs, ch \in Channels :
       Waits(p) /\ wait[p] = ch /\ receiver[ch] = p => HoldsEnd(p, ch)

TInv == Limits /\ Gone /\ Mirrored /\ Listening

LEMMA DeriveBounds ==
  ASSUME NEW p \in Cap, NEW c \in Cap, cap_can_derive(p, c), Bounded(p)
  PROVE  Bounded(derive_update_cap(p, c)) /\ Bounded(c)
<1> DEFINE u == derive_update_cap(p, c)
<1> USE DEF Cap, TimeCap, ChannelsCap, SupervisorCap, EndpointCap, Endpoints, Bounded, Channels
<1>0. NQuantum \in Nat /\ NChannels \in Nat
  BY CapsAssumption
<1>1. CASE p.type \in {"time", "channels", "supervisor"} /\ c.type = p.type
  <2>1. u = [p EXCEPT !.free = c.end]
    BY <1>1 DEF derive_update_cap, Ranged
  <2>2. c.end <= p.end
    BY <1>1 DEF cap_can_derive, NextOf
  <2> QED
    BY <1>0, <1>1, <2>1, <2>2
<1>2. CASE p.type = "channels" /\ c.type \in {"receiver", "server"}
  <2>1. u = [p EXCEPT !.free = c.channel + 1]
    BY <1>2 DEF derive_update_cap, Ranged
  <2>2. c.channel < p.end
    BY <1>2 DEF cap_can_derive
  <2> QED
    BY <1>0, <1>2, <2>1, <2>2
<1>3. CASE p.type \in {"receiver", "server"}
  <2>1. u = p
    BY <1>3 DEF derive_update_cap, Ranged
  <2>2. c.type \in {"sender", "client"} /\ c.channel = p.channel
    BY <1>3 DEF cap_can_derive
  <2> QED
    BY <1>3, <2>1, <2>2
<1> QED
  BY <1>1, <1>2, <1>3 DEF cap_can_derive

(* What a derivation leaves the parent was its own, and ends where it did. *)
LEMMA DeriveShrinks ==
  ASSUME NEW p \in Cap, NEW c \in Cap, cap_can_derive(p, c),
         NEW sched, NEW recv, NEW n, ShownIn(sched, recv, p, n)
  PROVE  ShownIn(sched, recv, derive_update_cap(p, c), n)
<1> DEFINE u == derive_update_cap(p, c)
<1> USE DEF Cap, TimeCap, ChannelsCap, SupervisorCap, EndpointCap, Endpoints, ShownIn, OwnsQuantum
<1>0. Quanta \subseteq Nat
  BY CapsAssumption DEF Quanta
<1>1. CASE p.type = "time"
  <2>1. u = [p EXCEPT !.free = c.end] /\ p.free <= c.end /\ p \in TimeCap /\ c \in TimeCap
    BY <1>1 DEF derive_update_cap, Ranged, cap_can_derive, NextOf
  <2>2. /\ u.type = "time" /\ u.hartid = p.hartid /\ u.end = p.end /\ u.free = c.end
    BY <2>1
  <2>3. \A h \in HartIds, q \in Quanta : OwnsQuantum(u, h, q) => OwnsQuantum(p, h, q)
    BY <1>0, <1>1, <2>1, <2>2
  <2> QED
    BY <2>2, <2>3
<1>2. CASE p.type \in {"channels", "supervisor"}
  <2>1. u.type = p.type
    BY <1>2 DEF derive_update_cap, Ranged, cap_can_derive
  <2> QED
    BY <1>2, <2>1
<1>3. CASE p.type \in {"receiver", "server"}
  BY <1>3 DEF derive_update_cap, Ranged
<1> QED
  BY <1>1, <1>2, <1>3 DEF cap_can_derive

(* A change of what d owns is not seen by a capability apart from d.       *)
LEMMA ShownKept ==
  ASSUME NEW sched, NEW recv, NEW sched2, NEW recv2, NEW c, NEW d, NEW n,
         \A h \in HartIds, q \in Quanta : sched2[h][q] = sched[h][q] \/ OwnsQuantum(d, h, q),
         \A ch \in Channels : recv2[ch] = recv[ch] \/ OwnsChannel(d, ch),
         Apart(d, c), Bounded(c), ShownIn(sched, recv, c, n)
  PROVE  ShownIn(sched2, recv2, c, n)
BY DEF ShownIn, Apart, Bounded, OwnsChannel, Endpoints

(* The capability a hook is called for is apart from all others.           *)
LEMMA HookApart ==
  ASSUME IInv, NEW p \in Procs, pc[p] \in {"hook", "xfer_hook"}
  PROVE  /\ \A s \in live : ~(pc[p] = "xfer_hook" /\ s = src[p]) => Apart(new[p], cap[s])
         /\ \A r \in Procs \ {p} :
              pc[r] \in {"insert", "xfer_insert"} => Apart(new[p], new[r])
<1> USE DEF IInv, Busy, Copies, Fresh, Sources
<1>1. /\ src[p] \in live
      /\ pc[p] = "xfer_hook" => new[p] = cap[src[p]]
  BY DEF Places, Place
<1>2. \A r \in Procs \ {p} : pc[r] \in Sources =>
        /\ dst[r] \in Held /\ cap[dst[r]] = cap[src[r]] /\ dst[r] # src[p]
  BY CallsApart DEF Places, Place, Held, Leaving
<1>3. \A r \in Procs : pc[r] \in {"xfer_hook", "xfer_insert"} =>
        new[r] = cap[src[r]] /\ src[r] \in Held
  BY CallsApart DEF Places, Place, Held, Leaving
<1>4. ASSUME NEW t \in Held, ~(pc[p] = "xfer_hook" /\ t = src[p])
      PROVE  Apart(new[p], cap[t])
  BY <1>3, <1>4 DEF FreshApart, OneOwner
<1>5. ASSUME NEW s \in live, ~(pc[p] = "xfer_hook" /\ s = src[p])
      PROVE  Apart(new[p], cap[s])
  <2>1. CASE s \in Held
    BY <1>4, <1>5, <2>1
  <2>2. CASE s \notin Held
    <3>1. PICK r \in Procs : pc[r] \in Sources /\ src[r] = s
      BY <2>2 DEF Held, Leaving
    <3>2. r # p
      BY <3>1
    <3> QED
      BY <1>2, <1>4, <3>1, <3>2
  <2> QED
    BY <2>1, <2>2
<1>6. ASSUME NEW r \in Procs \ {p}, pc[r] \in {"insert", "xfer_insert"}
      PROVE  Apart(new[p], new[r])
  <2>1. CASE pc[r] = "insert" /\ pc[p] = "hook"
    BY <2>1 DEF FreshApart
  <2>2. CASE pc[r] = "insert" /\ pc[p] = "xfer_hook"
    BY <1>3, <2>2, ApartSymmetric DEF FreshApart
  <2>3. CASE pc[r] = "xfer_insert"
    <3>1. src[r] # src[p]
      BY <2>3, CallsApart
    <3> QED
      BY <1>3, <1>4, <2>3, <3>1
  <2> QED
    BY <1>6, <2>1, <2>2, <2>3
<1> QED
  BY <1>5, <1>6

----------------------------------------------------------------------------
(* A step of p leaves the calls of the others alone, but that a process    *)
(* may be taken, released or suspended.                                    *)
Undisturbed(q) ==
  /\ pc'[q] = pc[q] /\ src'[q] = src[q] /\ dst'[q] = dst[q]
  /\ new'[q] = new[q] /\ wait'[q] = wait[q]

LEMMA Others ==
  ASSUME IInv, Limits, NEW p \in Procs, Step(p), NEW q \in Procs \ {p}
  PROVE  pc'[q] \in {"user", "held"} \/ Undisturbed(q)
<1> USE DEF IInv, Typed, Limits, Undisturbed
<1>c. ASSUME NEW l, Continue(p, l)
      PROVE  Undisturbed(q)
  <2>1. CASE l = "user"
    BY <1>c, <2>1 DEF Continue, Goto, Call
  <2>2. CASE l # "user"
    BY <1>c, <2>2 DEF Continue, Goto, call
  <2> QED
    BY <2>1, <2>2
<1>1. ASSUME NEW s, NEW t, NEW c, Derive(p, s, t, c) \/ Move(p, s, t)
      PROVE  Undisturbed(q)
  BY <1>1 DEF Derive, Move, Call, Goto
<1>2. ASSUME NEW s, Delete(p, s) \/ Revoke(p, s)
      PROVE  Undisturbed(q)
  BY <1>2 DEF Delete, Revoke, Call, Goto
<1>3. ASSUME NEW r \in Procs, NEW s, NEW t, NEW ch, Xfer(p, s, t, r, ch)
      PROVE  pc'[q] \in {"user", "held"} \/ Undisturbed(q)
  BY <1>3 DEF Xfer, Call
<1>4. ASSUME NEW r \in Procs, NEW k, Suspend(p, k, r)
      PROVE  pc'[q] \in {"user", "held"} \/ Undisturbed(q)
  BY <1>4 DEF Suspend, Goto
<1>5. ASSUME NEW k, Receive(p, k)
      PROVE  Undisturbed(q)
  BY <1>5 DEF Receive, Goto
<1>6. ASSUME NEW r, NEW ch, NEW next, Message(p, r, ch, next)
      PROVE  pc'[q] \in {"user", "held"} \/ Undisturbed(q)
  BY <1>3, <1>6 DEF Message, Call
<1>7. CASE RevokeReturn(p) \/ Insert(p) \/ DeleteSource(p)
  BY <1>c, <1>7 DEF RevokeReturn, Insert, DeleteSource
<1>8. CASE Hook(p)
  BY <1>c, <1>8 DEF Hook, Goto, call
<1>9. CASE Release(p)
  BY <1>9 DEF Release
<1> QED
  BY <1>1, <1>2, <1>3, <1>4, <1>5, <1>6, <1>7, <1>8, <1>9
     DEF Step, Give, Take, Send, ClientCall, Reply

(* The steps that change slots or tables; all others are quiet.            *)
Quiet(p) ==
  /\ UNCHANGED <<cap, live, order, schedule, receiver>>
  /\ client' = client \/ \E ch : client' = [client EXCEPT ![ch] = p]
  /\ pc[p] \notin Sources \union {"insert", "xfer_insert"}
  /\ pc'[p] \notin Fresh \union Sources \union {"xfer_insert", "delete_hook"}

LEMMA Kinds ==
  ASSUME IInv, NEW p \in Procs, Step(p)
  PROVE  \/ \E s, t \in Table(p), c \in Words : Derive(p, s, t, c)
         \/ \E s \in Table(p) : Delete(p, s)
         \/ Hook(p) /\ HookAsserts(new[p])
         \/ Insert(p) \/ DeleteSource(p)
         \/ Quiet(p)
<1> USE DEF IInv, Typed, Quiet, Fresh, Sources, User
<1>1. ASSUME NEW s, NEW t, Move(p, s, t) \/ Revoke(p, s)
      PROVE  Quiet(p)
  BY <1>1 DEF Move, Revoke, Goto
<1>2. ASSUME NEW q \in Procs \ {p}, NEW s, NEW t, NEW ch, Xfer(p, s, t, q, ch), pc[p] = "user"
      PROVE  /\ pc[p] \notin Sources \union {"insert", "xfer_insert"}
             /\ pc'[p] = "xfer_hook"
  BY <1>2 DEF Xfer
<1>3. ASSUME NEW q \in Procs, NEW k, NEW s, NEW t,
             Give(p, k, q, s, t) \/ Take(p, k, q, s, t)
      PROVE  Quiet(p)
  BY <1>2, <1>3 DEF Give, Take, Supervises
<1>4. ASSUME NEW q \in Procs, NEW k, Suspend(p, k, q)
      PROVE  Quiet(p)
  BY <1>4 DEF Suspend, Supervises, Goto
<1>5. ASSUME NEW k, Receive(p, k)
      PROVE  Quiet(p)
  BY <1>5 DEF Receive, Holds, Goto
<1>6. ASSUME NEW q, NEW ch, NEW next, Message(p, q, ch, next), pc[p] = "user"
      PROVE  /\ pc[p] \notin Sources \union {"insert", "xfer_insert"}
             /\ pc'[p] \in {"xfer_hook", "release"}
  BY <1>2, <1>6 DEF Message
<1>7. ASSUME NEW k, Send(p, k) \/ ClientCall(p, k) \/ Reply(p, k)
      PROVE  Quiet(p)
  BY <1>6, <1>7 DEF Send, ClientCall, Reply, Holds
<1>8. CASE RevokeReturn(p)
  BY <1>8 DEF RevokeReturn, Continue, Goto
<1>9. CASE Hook(p) /\ ~HookAsserts(new[p])
  BY <1>9 DEF Hook, AfterHook, Goto
<1>10. CASE Release(p)
  BY <1>10 DEF Release, Holders, Holding
<1> QED
  BY <1>1, <1>3, <1>4, <1>5, <1>7, <1>8, <1>9, <1>10 DEF Step

(* What is held in the table of another, untaken process stays.            *)
LEMMA HeldKept ==
  ASSUME IInv, NEW p \in Procs, Step(p), NEW r \in Procs \ {p}, pc[r] # "held",
         NEW s \in Held, s[1] = r
  PROVE  s \in Held' /\ cap'[s] = cap[s]
<1> USE DEF IInv
<1>1. Steady(p) /\ Local(p)
  BY Frame
<1>2. s \in Slots /\ s \in live
  BY DEF Held, Typed
<1>3. \A x : Mine(p, x) => x # s
  BY Reaches DEF Mine
<1>4. cap'[s] = cap[s] /\ s \in live'
  BY <1>1, <1>2, <1>3 DEF Local, Only
<1>5. \A q \in Procs \ {p} : ~(pc'[q] \in Sources /\ src'[q] = s)
  BY <1>1 DEF Steady, Busy, Held, Leaving, Sources
<1>6. ~(pc'[p] \in Sources /\ src'[p] = s)
  <2> SUFFICES ASSUME pc'[p] \in Sources PROVE src'[p] # s
    OBVIOUS
  <2>1. /\ pc[p] \in Busy /\ src'[p] = src[p]
    <3> USE DEF Typed, Sources, Busy, Fresh, Copies
    <3>1. ASSUME NEW x, NEW y, NEW c, Derive(p, x, y, c)
          PROVE  FALSE
      BY <3>1 DEF Derive, Goto
    <3>2. ASSUME NEW x, Delete(p, x)
          PROVE  FALSE
      BY <3>2 DEF Delete, Goto
    <3>3. CASE Hook(p)
      BY <3>3 DEF Hook, AfterHook, Continue, Goto
    <3>4. CASE Insert(p)
      BY <3>4 DEF Insert, AfterInsert, Continue, Goto, call
    <3>5. CASE DeleteSource(p)
      BY <3>5 DEF DeleteSource, Continue, Goto
    <3> QED
      BY <3>1, <3>2, <3>3, <3>4, <3>5, Kinds DEF Quiet
  <2> QED
    BY <2>1, Reaches
<1> QED
  BY <1>4, <1>5, <1>6 DEF Held, Leaving, Sources

----------------------------------------------------------------------------
LEMMA LimitsStep ==
  ASSUME IInv, Limits, NEW p \in Procs, Step(p)
  PROVE  Limits'
<1> USE DEF IInv, Typed
<1>s. Steady(p)
  BY Frame
<1>o. \A q \in Procs \ {p} : pc'[q] \in Fresh => pc[q] \in Fresh /\ new'[q] = new[q]
  BY <1>s DEF Steady, Busy
<1>1. /\ \A s \in live' : Bounded(cap'[s])
      /\ pc'[p] \in Fresh => Bounded(new'[p])
  <2>1. ASSUME NEW s \in Table(p), NEW t \in Table(p), NEW c \in Words, Derive(p, s, t, c)
        PROVE  <1>1!1 /\ <1>1!2
    <3>1. /\ s \in live /\ live' = live /\ cap[s] \in Cap /\ c \in Cap
          /\ cap_can_derive(cap[s], c) /\ cap' = [cap EXCEPT ![s] = derive_update_cap(cap[s], c)]
          /\ new'[p] = c
      BY <2>1, CapsAssumption DEF Derive, Call
    <3>2. Bounded(derive_update_cap(cap[s], c)) /\ Bounded(c)
      BY <3>1, DeriveBounds DEF Limits
    <3> QED
      BY <3>1, <3>2 DEF Limits
  <2>2. ASSUME NEW s, live' = live \ {s}, cap' = [cap EXCEPT ![s] = Stale(@)], pc'[p] \notin Fresh
        PROVE  <1>1!1 /\ <1>1!2
    BY <2>2 DEF Limits
  <2>3. ASSUME NEW s \in Table(p), Delete(p, s)
        PROVE  <1>1!1 /\ <1>1!2
    BY <2>2, <2>3 DEF Delete, Unlink, Goto, Fresh
  <2>4. CASE DeleteSource(p)
    BY <2>2, <2>4 DEF DeleteSource, Unlink, Continue, Goto, Fresh
  <2>5. CASE Hook(p) /\ HookAsserts(new[p])
    BY <2>5 DEF Hook, AfterHook, Continue, Goto, call, Fresh, Limits
  <2>6. CASE Insert(p)
    <3>1. /\ dst[p] \in Slots /\ cap' = [cap EXCEPT ![dst[p]] = new[p]] /\ live' = live \union {dst[p]}
          /\ pc'[p] \notin Fresh
      BY <2>6 DEF Insert, Link, AfterInsert, Continue, Goto, Fresh, Places, Place, Busy, Copies
    <3>2. Bounded(new[p])
      BY <2>6 DEF Insert, AfterInsert, Limits, Fresh, Places, Place, Busy, Copies
    <3> QED
      BY <3>1, <3>2 DEF Limits
  <2>7. CASE Quiet(p)
    BY <2>7 DEF Quiet, Limits
  <2> QED
    BY <2>1, <2>3, <2>4, <2>5, <2>6, <2>7, Kinds
<1>2. wait' \in [Procs -> Channels \union {None}]
  <2> DEFINE W == Channels \union {None}
  <2> USE DEF Limits
  <2>e. \A k \in Table(p) : k \in live /\ cap[k].type \in Endpoints => cap[k].channel \in W
    BY DEF Bounded
  <2>1. ASSUME NEW s, NEW t, NEW c, NEW q, NEW ch \in W, Call(p, s, t, c, q, ch)
        PROVE  wait' \in [Procs -> W]
    BY <2>1 DEF Call
  <2>2. ASSUME NEW l, Continue(p, l)
        PROVE  wait' \in [Procs -> W]
    BY <2>1, <2>2 DEF Continue, call
  <2>3. ASSUME NEW s, NEW t, NEW c, Derive(p, s, t, c) \/ Move(p, s, t)
        PROVE  wait' \in [Procs -> W]
    BY <2>1, <2>3 DEF Derive, Move
  <2>4. ASSUME NEW s, Delete(p, s) \/ Revoke(p, s)
        PROVE  wait' \in [Procs -> W]
    BY <2>1, <2>4 DEF Delete, Revoke
  <2>5. ASSUME NEW q, NEW k, NEW s, NEW t, Give(p, k, q, s, t) \/ Take(p, k, q, s, t)
        PROVE  wait' \in [Procs -> W]
    BY <2>1, <2>5 DEF Give, Take, Xfer
  <2>6. ASSUME NEW q, NEW k, Suspend(p, k, q)
        PROVE  wait' \in [Procs -> W]
    BY <2>6 DEF Suspend
  <2>7. ASSUME NEW k \in Table(p), Receive(p, k)
        PROVE  wait' \in [Procs -> W]
    BY <2>7, <2>e DEF Receive, Holds, Endpoints
  <2>8. ASSUME NEW q, NEW ch, NEW next \in W, Message(p, q, ch, next)
        PROVE  wait' \in [Procs -> W]
    BY <2>1, <2>8 DEF Message, Xfer
  <2>9. ASSUME NEW k \in Table(p), Send(p, k) \/ ClientCall(p, k) \/ Reply(p, k)
        PROVE  wait' \in [Procs -> W]
    BY <2>8, <2>9, <2>e DEF Send, ClientCall, Reply, Holds, Endpoints
  <2>10. CASE RevokeReturn(p) \/ Insert(p) \/ DeleteSource(p)
    BY <2>2, <2>10 DEF RevokeReturn, Insert, DeleteSource
  <2>11. CASE Hook(p)
    BY <2>2, <2>11 DEF Hook, call
  <2>12. CASE Release(p)
    BY <2>12 DEF Release
  <2> QED
    BY <2>3, <2>4, <2>5, <2>6, <2>7, <2>9, <2>10, <2>11, <2>12 DEF Step
<1> QED
  BY <1>o, <1>1, <1>2 DEF Limits

LEMMA GoneStep ==
  ASSUME IInv, Limits, Gone, NEW p \in Procs, Step(p)
  PROVE  Gone'
<1> USE DEF IInv, Typed
<1>1. ASSUME NEW q \in Procs \ {p}, pc'[q] = "delete_hook"
      PROVE  src'[q] \in Table(q) \ live' /\ dst'[q] = None
  <2>1. /\ pc[q] = "delete_hook" /\ src'[q] = src[q] /\ dst'[q] = dst[q]
    BY <1>1, Others DEF Undisturbed
  <2>2. src[q] \in Table(q) \ live /\ dst[q] = None
    BY <2>1 DEF Gone
  <2>3. \A x : Mine(p, x) => x # src[q]
    BY <2>1, <2>2, Reaches DEF Mine, Table
  <2>4. src[q] \notin live'
    BY <2>2, <2>3, Frame DEF Local, Only, Table
  <2> QED
    BY <2>1, <2>2, <2>4
<1>2. ASSUME pc'[p] = "delete_hook"
      PROVE  src'[p] \in Table(p) \ live' /\ dst'[p] = None
  <2>1. PICK s \in Table(p) : Delete(p, s)
    <3>1. ASSUME NEW s, NEW t, NEW c, Derive(p, s, t, c)
          PROVE  FALSE
      BY <1>2, <3>1 DEF Derive, Goto
    <3>2. CASE Hook(p) /\ HookAsserts(new[p])
      BY <1>2, <3>2 DEF Hook, AfterHook, Continue, Goto
    <3>3. CASE Insert(p) \/ DeleteSource(p)
      BY <1>2, <3>3 DEF Insert, AfterInsert, DeleteSource, Continue, Goto
    <3> QED
      BY <1>2, <3>1, <3>2, <3>3, Kinds DEF Quiet
  <2> QED
    BY <2>1 DEF Delete, Unlink, Call
<1> QED
  BY <1>1, <1>2 DEF Gone

----------------------------------------------------------------------------
(* What the hook does to the tables.                                       *)
LEMMA HookEffect ==
  ASSUME IInv, Limits, Mirrored, NEW p \in Procs, Hook(p), HookAsserts(new[p]),
         pc[p] \in {"hook", "xfer_hook"}
  PROVE  /\ schedule' \in [HartIds -> [Quanta -> Entries]]
         /\ receiver' \in [Channels -> Procs \union {None}]
         /\ client' \in [Channels -> Procs \union {None}]
         /\ ShownIn(schedule', receiver', new[p], dst[p][1])
         /\ \A h \in HartIds, q \in Quanta :
              schedule'[h][q] = schedule[h][q] \/ OwnsQuantum(new[p], h, q)
         /\ \A ch \in Channels :
              \/ receiver'[ch] = receiver[ch]
              \/ OwnsChannel(new[p], ch) /\ receiver'[ch] = dst[p][1]
<1> DEFINE n == dst[p][1]
           c == new[p]
<1>1. /\ src[p] \in live /\ dst[p] \in Slots /\ c \in Cap /\ Bounded(c)
  BY DEF IInv, Typed, Places, Place, Busy, Copies, Fresh, Limits
<1>2. /\ dst[p] # None /\ n \in Procs
  BY <1>1, CapsAssumption, BootAssumption
<1>3. cap_update_hook(n, src[p], c)
  BY <1>2 DEF Hook
<1>4. Quanta \subseteq Nat /\ NQuantum \in Nat
  BY CapsAssumption DEF Quanta
<1>5. CASE c.type = "time"
  <2>1. c \in TimeCap
    BY <1>1, <1>5 DEF Cap, ChannelsCap, SupervisorCap, EndpointCap, Endpoints
  <2>2. /\ schedule' = [schedule EXCEPT ![c.hartid] = [i \in Quanta |->
                          IF c.free <= i /\ i < c.end
                          THEN [pid |-> n, length |-> c.end - i] ELSE @[i]]]
        /\ UNCHANGED <<receiver, client>>
    BY <1>1, <1>3, <1>5 DEF cap_update_hook, sched_update
  <2>3. \A h \in HartIds, q \in Quanta :
          schedule'[h][q] = IF OwnsQuantum(c, h, q) THEN [pid |-> n, length |-> c.end - q]
                            ELSE schedule[h][q]
    BY <2>1, <2>2, <1>5 DEF OwnsQuantum, Mirrored
  <2>4. ASSUME NEW i \in Quanta, c.free <= i, i < c.end
        PROVE  [pid |-> n, length |-> c.end - i] \in Entries
    <3>1. c.end \in Nat /\ i \in Nat /\ c.end <= NQuantum
      BY <1>1, <1>4, <1>5, <2>1 DEF TimeCap, Bounded
    <3>2. c.end - i \in 0 .. NQuantum
      BY <1>4, <2>4, <3>1
    <3> QED
      BY <1>2, <3>2 DEF Entries
  <2>5. schedule' \in [HartIds -> [Quanta -> Entries]]
    <3>1. ASSUME c.hartid \in HartIds
          PROVE  [i \in Quanta |-> IF c.free <= i /\ i < c.end
                                   THEN [pid |-> n, length |-> c.end - i]
                                   ELSE schedule[c.hartid][i]] \in [Quanta -> Entries]
      BY <2>4, <3>1 DEF Mirrored
    <3> QED
      BY <2>2, <3>1 DEF Mirrored
  <2> QED
    BY <1>5, <2>2, <2>3, <2>5 DEF ShownIn, Mirrored
<1>6. CASE c.type \in {"receiver", "server"}
  <2>1. /\ UNCHANGED <<schedule, client>> /\ receiver' = [receiver EXCEPT ![c.channel] = n]
        /\ c.channel \in Channels
    BY <1>1, <1>2, <1>3, <1>6, CapsAssumption DEF cap_update_hook, Bounded, Endpoints
  <2> QED
    BY <1>2, <1>6, <2>1 DEF ShownIn, Mirrored, OwnsChannel, OwnsQuantum
<1>7. CASE c.type \notin {"time", "receiver", "server"}
  <2>1. UNCHANGED <<schedule, receiver, client>>
    BY <1>3, <1>7 DEF cap_update_hook
  <2> QED
    BY <1>7, <2>1 DEF ShownIn, Mirrored, OwnsQuantum
<1> QED
  BY <1>5, <1>6, <1>7

(* Which slots a step of p can leave settled.                              *)
LEMMA SettledAfter ==
  ASSUME NEW p \in Procs, Steady(p), NEW y \in Settled'
  PROVE  /\ y \in live'
         /\ ~(pc'[p] \in {"xfer_insert", "xfer_delete"} /\ src'[p] = y)
         /\ y \in live /\ ~(pc[p] \in {"xfer_insert", "xfer_delete"} /\ src[p] = y)
              => y \in Settled
<1>1. y \in live' /\ ~Promised(y)'
  BY DEF Settled
<1>2. \A r \in Procs \ {p} : ~(pc[r] \in {"xfer_insert", "xfer_delete"} /\ src[r] = y)
  BY <1>1 DEF Promised, Steady, Busy, Copies, Sources
<1> QED
  BY <1>1, <1>2 DEF Settled, Promised

LEMMA MirroredStep ==
  ASSUME IInv, Limits, Gone, Mirrored, NEW p \in Procs, Step(p)
  PROVE  Mirrored'
<1> USE DEF IInv, Typed
<1> DEFINE Pending(q) == pc[q] \in {"insert", "xfer_insert"}
           TablesTyped == /\ schedule' \in [HartIds -> [Quanta -> Entries]]
                          /\ receiver' \in [Channels -> Procs \union {None}]
                          /\ client' \in [Channels -> Procs \union {None}]
<1>s. Steady(p) /\ Limits'
  BY Frame, LimitsStep
<1>o. \A q \in Procs \ {p} : Pending(q)' =>
        Pending(q) /\ new'[q] = new[q] /\ dst'[q] = dst[q] /\ pc'[q] = pc[q]
  BY <1>s DEF Steady, Busy, Fresh, Copies
<1>1. ASSUME UNCHANGED <<schedule, receiver>>, TablesTyped, ~Pending(p)',
             \A y \in Settled' : ShownIn(schedule, receiver, cap'[y], y[1])
      PROVE  Mirrored'
  <2>1. \A q \in Procs : Pending(q)' => ShownIn(schedule, receiver, new'[q], dst'[q][1])
    BY <1>1, <1>o DEF Mirrored, Shown
  <2> QED
    BY <1>1, <2>1 DEF Mirrored, Shown
<1>t. UNCHANGED <<schedule, receiver>> /\ (client' = client \/ \E ch : client' = [client EXCEPT ![ch] = p])
        => TablesTyped
  BY DEF Mirrored
<1>2. ASSUME NEW s \in Table(p), NEW t \in Table(p), NEW c \in Words, Derive(p, s, t, c)
      PROVE  Mirrored'
  <2>1. /\ s \in Slots /\ s \in live /\ live' = live /\ cap[s] \in Cap /\ c \in Cap
        /\ cap_can_derive(cap[s], c) /\ cap' = [cap EXCEPT ![s] = derive_update_cap(cap[s], c)]
        /\ pc[p] = "user" /\ pc'[p] = "hook" /\ UNCHANGED <<schedule, receiver, client>>
    BY <1>2, CapsAssumption DEF Derive, Table, User, Goto
  <2>2. \A y \in Settled' : y \in Settled
    BY <1>s, <2>1, SettledAfter
  <2>3. ASSUME NEW y \in Settled'
        PROVE  ShownIn(schedule, receiver, cap'[y], y[1])
    <3>1. ShownIn(schedule, receiver, cap[y], y[1]) /\ y \in Slots
      BY <2>2 DEF Mirrored, Shown, Settled
    <3>2. CASE y = s
      BY <2>1, <3>1, <3>2, DeriveShrinks
    <3>3. CASE y # s
      BY <2>1, <3>1, <3>3
    <3> QED
      BY <3>2, <3>3
  <2> QED
    BY <1>1, <1>t, <2>1, <2>3
<1>3. ASSUME NEW s \in Slots, live' = live \ {s}, cap' = [cap EXCEPT ![s] = Stale(@)], ~Pending(p)',
             UNCHANGED <<schedule, receiver, client>>,
             pc[p] \in {"xfer_insert", "xfer_delete"} => src[p] = s
      PROVE  Mirrored'
  <2>1. \A y \in Settled' : y \in Settled /\ y # s
    BY <1>s, <1>3, SettledAfter
  <2>2. \A y \in Settled' : ShownIn(schedule, receiver, cap'[y], y[1])
    BY <1>3, <2>1 DEF Mirrored, Shown, Settled
  <2> QED
    BY <1>1, <1>3, <1>t, <2>2
<1>4. ASSUME NEW s \in Table(p), Delete(p, s)
      PROVE  Mirrored'
  BY <1>3, <1>4 DEF Delete, Unlink, Goto, Table, User
<1>5. CASE DeleteSource(p)
  <2>1. src[p] \in Slots
    BY <1>5 DEF DeleteSource, Places, Place, Busy, Sources
  <2> QED
    BY <1>3, <1>5, <2>1 DEF DeleteSource, Unlink, Continue, Goto
<1>6. CASE Insert(p)
  <2>1. /\ dst[p] \in Slots /\ cap' = [cap EXCEPT ![dst[p]] = new[p]] /\ live' = live \union {dst[p]}
        /\ UNCHANGED <<schedule, receiver, client>>
        /\ pc'[p] \in {"user", "delete", "xfer_delete"}
        /\ pc[p] = "xfer_insert" => pc'[p] = "xfer_delete" /\ src'[p] = src[p]
    BY <1>6 DEF Insert, Link, AfterInsert, Continue, Goto, call, Places, Place, Busy, Fresh, Copies
  <2>2. ShownIn(schedule, receiver, new[p], dst[p][1])
    <3>1. CASE Pending(p)
      BY <3>1 DEF Mirrored, Shown
    <3>2. CASE pc[p] = "move_insert"
      <4>1. /\ src[p] \in live /\ new[p] = cap[src[p]] /\ src[p][1] = p /\ dst[p][1] = p
        BY <3>2 DEF Places, Place, Busy, Copies, Reach, Holding
      <4>2. src[p] \in Settled
        BY <3>2, <4>1, CallsApart DEF Settled, Promised, Busy, Copies, Sources
      <4> QED
        BY <4>1, <4>2 DEF Mirrored, Shown
    <3> QED
      BY <1>6, <3>1, <3>2 DEF Insert, AfterInsert
  <2>3. ASSUME NEW y \in Settled'
        PROVE  ShownIn(schedule, receiver, cap'[y], y[1])
    <3>1. CASE y = dst[p]
      BY <2>1, <2>2, <3>1
    <3>2. CASE y # dst[p]
      <4>1. y \in live /\ ~(pc[p] \in {"xfer_insert", "xfer_delete"} /\ src[p] = y)
        BY <1>6, <1>s, <2>1, <3>2, SettledAfter DEF Insert, AfterInsert
      <4>2. y \in Settled /\ cap'[y] = cap[y]
        BY <1>s, <2>1, <3>2, <4>1, SettledAfter
      <4> QED
        BY <4>2 DEF Mirrored, Shown
    <3> QED
      BY <3>1, <3>2
  <2> QED
    BY <1>1, <1>t, <2>1, <2>3
<1>7. CASE Hook(p) /\ HookAsserts(new[p])
  <2>1. UNCHANGED <<cap, live>>
    BY <1>7 DEF Hook
  <2>2. CASE pc[p] = "delete_hook"
    <3>1. src[p] \notin live
      BY <2>2 DEF Gone
    <3>2. UNCHANGED <<schedule, receiver, client>>
      BY <1>7, <3>1 DEF Hook, cap_update_hook, sched_update
    <3>3. pc'[p] = "user"
      BY <1>7, <2>2 DEF Hook, AfterHook, Continue, Goto
    <3>4. \A y \in Settled' : ShownIn(schedule, receiver, cap'[y], y[1])
      BY <1>s, <2>1, <2>2, SettledAfter DEF Mirrored, Shown
    <3> QED
      BY <1>1, <1>t, <3>2, <3>3, <3>4
  <2>3. CASE pc[p] \in {"hook", "xfer_hook"}
    <3>1. /\ pc'[p] \in {"insert", "xfer_insert"}
          /\ pc[p] = "xfer_hook" => pc'[p] = "xfer_insert"
          /\ new'[p] = new[p] /\ dst'[p] = dst[p] /\ src'[p] = src[p]
      BY <1>7, <2>3 DEF Hook, AfterHook, Continue, Goto, call
    <3>2. \A y \in Settled' : y \in Settled /\ ~(pc[p] = "xfer_hook" /\ y = src[p])
      BY <1>s, <2>1, <2>3, <3>1, SettledAfter
    <3>3. \A c, n : Apart(new[p], c) /\ Bounded(c) /\ ShownIn(schedule, receiver, c, n)
                    => ShownIn(schedule', receiver', c, n)
      BY <1>7, <2>3, HookEffect, ShownKept
    <3>4. ASSUME NEW y \in Settled'
          PROVE  ShownIn(schedule', receiver', cap'[y], y[1])
      <4>1. /\ Apart(new[p], cap[y]) /\ Bounded(cap[y])
            /\ ShownIn(schedule, receiver, cap[y], y[1])
        BY <2>3, <3>2, HookApart DEF Mirrored, Shown, Settled, Limits
      <4> QED
        BY <2>1, <3>3, <4>1
    <3>5. ASSUME NEW q \in Procs \ {p}, Pending(q)'
          PROVE  ShownIn(schedule', receiver', new'[q], dst'[q][1])
      <4>1. Pending(q) /\ new'[q] = new[q] /\ dst'[q] = dst[q]
        BY <1>o, <3>5
      <4>2. Bounded(new[q])
        BY <4>1 DEF Limits, Fresh, Places, Place, Busy, Copies
      <4>3. Apart(new[p], new[q]) /\ ShownIn(schedule, receiver, new[q], dst[q][1])
        BY <2>3, <4>1, HookApart DEF Mirrored, Shown
      <4> QED
        BY <3>3, <4>1, <4>2, <4>3
    <3>6. ShownIn(schedule', receiver', new'[p], dst'[p][1])
      BY <1>7, <2>3, <3>1, HookEffect
    <3>7. TablesTyped
      BY <1>7, <2>3, HookEffect
    <3> QED
      BY <3>4, <3>5, <3>6, <3>7 DEF Mirrored, Shown
  <2> QED
    BY <1>7, <2>2, <2>3 DEF Hook, AfterHook
<1>8. CASE Quiet(p)
  <2>1. \A y \in Settled' : y \in Settled /\ cap'[y] = cap[y]
    BY <1>8, <1>s, SettledAfter DEF Quiet, Sources
  <2> QED
    BY <1>1, <1>8, <1>t, <2>1 DEF Quiet, Fresh, Mirrored, Shown
<1> QED
  BY <1>2, <1>4, <1>5, <1>6, <1>7, <1>8, Kinds

----------------------------------------------------------------------------
(* The other processes keep listening: nobody works on their slots, and no *)
(* hook makes them receivers.                                              *)
LEMMA OthersListen ==
  ASSUME IInv, Limits, Gone, Mirrored, Listening, NEW p \in Procs, Step(p),
         NEW q \in Procs \ {p}, Waits(q)'
  PROVE  /\ pc'[q] \in Busy => dst'[q][1] # q
         /\ \A ch \in Channels : wait'[q] = ch /\ receiver'[ch] = q => HoldsEnd(q, ch)'
<1>1. Waits(q) /\ Undisturbed(q)
  BY Others DEF Waits, Holding, Undisturbed
<1>2. pc[q] # "held"
  BY <1>1 DEF Waits, Holding
<1>3. \A ch \in Channels : receiver'[ch] = q => receiver[ch] = q
  <2>1. UNCHANGED receiver \/ (Hook(p) /\ HookAsserts(new[p]))
    BY Kinds DEF Derive, Delete, Insert, DeleteSource, Quiet
  <2>2. CASE Hook(p) /\ HookAsserts(new[p]) /\ pc[p] \in {"hook", "xfer_hook"}
    <3>1. dst[p][1] # q
      BY <1>2, <2>2, Reaches DEF IInv, Busy, Copies, Fresh
    <3> QED
      BY <2>2, <3>1, HookEffect
  <2>3. CASE Hook(p) /\ HookAsserts(new[p]) /\ pc[p] = "delete_hook"
    <3>1. src[p] \notin live
      BY <2>3 DEF Gone
    <3> QED
      BY <2>3, <3>1 DEF Hook, cap_update_hook
  <2> QED
    BY <2>1, <2>2, <2>3 DEF Hook, AfterHook
<1>4. \A ch \in Channels : HoldsEnd(q, ch) => HoldsEnd(q, ch)'
  BY <1>2, HeldKept DEF HoldsEnd
<1> QED
  BY <1>1, <1>3, <1>4 DEF Listening, Undisturbed

LEMMA ListeningStep ==
  ASSUME IInv, Limits, Gone, Mirrored, Listening, NEW p \in Procs, Step(p)
  PROVE  Listening'
<1> USE DEF IInv, Typed
<1> DEFINE Listens == Waits(p)' =>
             /\ pc'[p] \in Busy => dst'[p][1] # p
             /\ \A ch \in Channels : wait'[p] = ch /\ receiver'[ch] = p => HoldsEnd(p, ch)'
<1>0. SUFFICES Listens
  BY OthersListen DEF Listening
<1>s. Steady(p) /\ Limits'
  BY Frame, LimitsStep
<1>w. wait \in [Procs -> Channels \union {None}] /\ None \notin Channels
  BY BootAssumption DEF Limits
<1>1. ASSUME pc'[p] \notin Holding \union {"waiting"} \/ wait'[p] = None
      PROVE  Listens
  BY <1>1 DEF Waits
<1>h. ASSUME NEW k \in Table(p), pc[p] = "user", k \in live
      PROVE  k \in Held
  BY <1>h, Reaches DEF Held, Leaving, Table, Busy, Copies, Fresh, Sources
<1>k. UNCHANGED <<cap, live>> /\ pc'[p] \notin Sources => Held' = Held \/ pc[p] \in Sources
  <2> SUFFICES ASSUME UNCHANGED <<cap, live>>, pc'[p] \notin Sources, pc[p] \notin Sources
               PROVE  Held' = Held
    OBVIOUS
  <2>1. Held' \subseteq Held
    <3>1. ASSUME NEW y \in Held' PROVE y \in Held
      BY <1>s, <3>1, HeldAfter
    <3> QED
      BY <3>1
  <2>2. \A s \in Held : ~Leaving(s)'
    BY <1>s DEF Held, Leaving, Steady, Sources, Busy
  <2> QED
    BY <2>1, <2>2 DEF Held
<1>2. ASSUME NEW s, NEW t, NEW c, Derive(p, s, t, c) \/ Move(p, s, t)
      PROVE  Listens
  BY <1>1, <1>2 DEF Derive, Move, Goto, Holding
<1>3. ASSUME NEW s, Delete(p, s) \/ Revoke(p, s)
      PROVE  Listens
  BY <1>1, <1>3 DEF Delete, Revoke, Goto, Holding
<1>4. ASSUME NEW q, NEW k, NEW s, NEW t, Give(p, k, q, s, t) \/ Take(p, k, q, s, t)
      PROVE  Listens
  <2>1. wait'[p] = None
    BY <1>4, <1>w DEF Give, Take, Xfer, Call
  <2> QED
    BY <1>1, <2>1
<1>5. ASSUME NEW q \in Procs, NEW k, Suspend(p, k, q)
      PROVE  Listens
  BY <1>1, <1>5 DEF Suspend, Supervises, User, Goto, Holding
<1>6. ASSUME NEW k \in Table(p), Receive(p, k)
      PROVE  Listens
  <2>1. /\ pc[p] = "user" /\ k \in live /\ cap[k].type \in {"receiver", "server"}
        /\ wait'[p] = cap[k].channel /\ pc'[p] = "waiting" /\ UNCHANGED <<cap, live, receiver>>
    BY <1>6, <1>w DEF Receive, Holds, User, Goto
  <2>2. k \in Held' /\ k[1] = p /\ cap'[k] = cap[k]
    BY <1>h, <1>k, <2>1 DEF Sources, Table
  <2> QED
    BY <2>1, <2>2 DEF HoldsEnd, Busy, Copies, Fresh, Sources
<1>7. ASSUME NEW q, NEW ch, NEW next, Message(p, q, ch, next), pc[p] = "user"
      PROVE  /\ pc'[p] \in {"xfer_hook", "release"} /\ wait'[p] = next
             /\ pc'[p] \in Busy => dst'[p][1] # p
  BY <1>7, <1>w DEF Message, Xfer, Call, Table, Busy, Copies, Fresh, Sources
<1>8. ASSUME NEW k \in Table(p), Send(p, k)
      PROVE  Listens
  BY <1>1, <1>7, <1>8 DEF Send, Holds, User
<1>9. ASSUME NEW k \in Table(p), ClientCall(p, k)
      PROVE  Listens
  <2>1. /\ wait'[p] = cap[k].channel
        /\ pc'[p] \in Busy => dst'[p][1] # p
    BY <1>7, <1>9 DEF ClientCall, Holds, User
  <2>2. UNCHANGED receiver /\ receiver[cap[k].channel] # p
    BY <1>9 DEF ClientCall, Message
  <2> QED
    BY <2>1, <2>2
<1>10. ASSUME NEW k \in Table(p), Reply(p, k)
       PROVE  Listens
  <2>1. /\ pc[p] = "user" /\ k \in live /\ cap[k].type = "server"
        /\ wait'[p] = cap[k].channel /\ UNCHANGED <<cap, live>>
        /\ pc'[p] \in {"xfer_hook", "release"}
        /\ pc'[p] \in Busy => dst'[p][1] # p
    BY <1>7, <1>10 DEF Reply, Holds, User
  <2>2. k \in Held' /\ k[1] = p /\ cap'[k] = cap[k]
    BY <1>h, <1>k, <2>1 DEF Sources, Table
  <2> QED
    BY <2>1, <2>2 DEF HoldsEnd
<1>11. CASE RevokeReturn(p)
  BY <1>1, <1>11 DEF RevokeReturn, Continue, Goto, Holding
<1>12. CASE Hook(p)
  <2>1. CASE pc'[p] # "xfer_insert"
    BY <1>1, <1>12, <2>1 DEF Hook, AfterHook, Continue, Goto, Holding
  <2>2. CASE pc'[p] = "xfer_insert"
    <3>1. /\ pc[p] = "xfer_hook" /\ HookAsserts(new[p])
          /\ UNCHANGED <<cap, live>> /\ UNCHANGED call
      BY <1>12, <2>2 DEF Hook, AfterHook, Continue, Goto, call
    <3> SUFFICES ASSUME Waits(p) PROVE Listens
      BY <1>1, <2>2, <3>1 DEF Waits, Holding, call
    <3>2. dst[p][1] # p /\ dst'[p][1] # p
      BY <3>1 DEF Listening, Busy, Copies, call
    <3>3. \A ch \in Channels : receiver'[ch] = p => receiver[ch] = p
      BY <1>12, <3>1, <3>2, HookEffect
    <3>4. Held' = Held
      BY <1>k, <2>2, <3>1 DEF Sources
    <3>5. \A ch \in Channels : HoldsEnd(p, ch) => HoldsEnd(p, ch)'
      BY <3>1, <3>4 DEF HoldsEnd
    <3> QED
      BY <3>1, <3>2, <3>3, <3>5 DEF Listening, call
  <2> QED
    BY <2>1, <2>2
<1>13. CASE Insert(p)
  <2>1. CASE pc[p] # "xfer_insert"
    BY <1>1, <1>13, <2>1 DEF Insert, AfterInsert, Continue, Goto, Holding
  <2>2. CASE pc[p] = "xfer_insert"
    <3>1. /\ pc'[p] = "xfer_delete" /\ UNCHANGED call /\ UNCHANGED receiver
          /\ dst[p] \in Slots /\ dst[p] \notin live /\ new[p] = cap[src[p]]
          /\ cap' = [cap EXCEPT ![dst[p]] = new[p]] /\ live' = live \union {dst[p]}
      BY <1>13, <2>2 DEF Insert, Link, AfterInsert, Continue, Goto, call, Places, Place, Busy, Copies
    <3> SUFFICES ASSUME Waits(p) PROVE Listens
      BY <1>1, <2>2, <3>1 DEF Waits, Holding, call
    <3>2. dst[p][1] # p /\ dst'[p][1] # p
      BY <2>2, <3>1 DEF Listening, Busy, Copies, call
    <3>3. ASSUME NEW ch \in Channels, wait[p] = ch, receiver[ch] = p
          PROVE  HoldsEnd(p, ch)'
      <4>1. PICK s \in Held : /\ s[1] = p /\ cap[s].type \in {"receiver", "server"}
                              /\ cap[s].channel = ch
        BY <3>3 DEF Listening, HoldsEnd
      <4>2. s # src[p]
        BY <2>2, <3>1, <3>2, <3>3, <4>1 DEF Mirrored, Shown, ShownIn
      <4>3. s \in Slots /\ s \in live /\ s # dst[p]
        BY <3>1, <4>1 DEF Held
      <4>4. ~Leaving(s)'
        BY <1>s, <3>1, <4>1, <4>2 DEF Held, Leaving, Steady, Busy, Sources, call
      <4> QED
        BY <3>1, <4>1, <4>3, <4>4 DEF HoldsEnd, Held
    <3> QED
      BY <3>1, <3>2, <3>3 DEF call
  <2> QED
    BY <2>1, <2>2
<1>14. CASE DeleteSource(p)
  <2>1. CASE pc[p] # "xfer_delete"
    BY <1>1, <1>14, <2>1 DEF DeleteSource, Continue, Goto, Holding
  <2>2. CASE pc[p] = "xfer_delete"
    <3>1. /\ pc'[p] = "release" /\ UNCHANGED call /\ UNCHANGED receiver
          /\ cap' = [cap EXCEPT ![src[p]] = Stale(@)] /\ live' = live \ {src[p]}
      BY <1>14, <2>2 DEF DeleteSource, Unlink, Continue, Goto, call
    <3> SUFFICES ASSUME Waits(p) PROVE Listens
      BY <1>1, <2>2, <3>1 DEF Waits, Holding, call
    <3>2. ASSUME NEW s \in Held
          PROVE  s \in Held' /\ cap'[s] = cap[s]
      <4>1. s # src[p] /\ s \in Slots /\ s \in live
        BY <2>2 DEF Held, Leaving
      <4>2. ~Leaving(s)'
        BY <1>s, <3>1 DEF Held, Leaving, Steady, Busy, Sources
      <4> QED
        BY <3>1, <4>1, <4>2 DEF Held
    <3>3. \A ch \in Channels : HoldsEnd(p, ch) => HoldsEnd(p, ch)'
      BY <3>2 DEF HoldsEnd
    <3> QED
      BY <3>1, <3>3 DEF Listening, call, Busy, Copies, Fresh, Sources
  <2> QED
    BY <2>1, <2>2
<1>15. CASE Release(p)
  <2>1. /\ pc[p] = "release" /\ peer[p] \in Procs /\ peer[p] # p
    BY <1>15 DEF Release, Holders, Holding
  <2>2. /\ pc'[p] = IF wait[p] = None THEN "user" ELSE "waiting"
        /\ wait'[p] = wait[p] /\ UNCHANGED <<cap, live, receiver>>
    BY <1>15, <1>w, <2>1 DEF Release
  <2>3. \A ch \in Channels : HoldsEnd(p, ch) => HoldsEnd(p, ch)'
    BY <1>k, <2>1, <2>2 DEF HoldsEnd, Sources
  <2> SUFFICES ASSUME wait[p] # None PROVE Listens
    BY <1>1, <2>2 DEF Holding
  <2>4. Waits(p)
    BY <2>1 DEF Waits, Holding
  <2> QED
    BY <2>2, <2>3, <2>4 DEF Listening, Busy, Copies, Fresh, Sources
<1> QED
  BY <1>2, <1>3, <1>4, <1>5, <1>6, <1>8, <1>9, <1>10, <1>11, <1>12, <1>13, <1>14, <1>15 DEF Step

----------------------------------------------------------------------------
(* The root's capabilities cover the slices that sched_init makes.         *)
LEMMA InitTables == Init => TInv
<1> SUFFICES ASSUME Init PROVE TInv
  OBVIOUS
<1>0. /\ \A p \in Procs : pc[p] = "user" /\ wait[p] = None
      /\ live \subseteq Slots
      /\ \A s \in live : \E i \in DOMAIN Boot : s = <<0, i>> /\ cap[s] = Boot[i]
  BY CapsAssumption DEF Init
<1>1. Limits
  <2>1. \A s \in live : Bounded(cap[s])
    BY <1>0, BootAssumption, CapsAssumption DEF Bounded, Families, Endpoints
  <2> QED
    BY <1>0, <2>1 DEF Init, Limits, Fresh
<1>2. Gone /\ Listening
  BY <1>0 DEF Gone, Listening, Waits
<1>3. Mirrored
  <2>1. \A q \in Quanta : [pid |-> 0, length |-> NQuantum - q] \in Entries
    BY CapsAssumption DEF Quanta, Entries
  <2>2. \A s \in live : Shown(cap[s], s[1])
    BY <1>0, BootAssumption DEF Init, Shown, ShownIn, OwnsQuantum, Families
  <2> QED
    BY <1>0, <2>1, <2>2 DEF Init, Mirrored, Settled
<1> QED
  BY <1>1, <1>2, <1>3 DEF TInv

LEMMA TablesInvariance == IInv /\ TInv /\ [Next]_vars => TInv'
<1> SUFFICES ASSUME IInv, TInv, [Next]_vars PROVE TInv'
  OBVIOUS
<1>1. ASSUME NEW p \in Procs, Step(p)
      PROVE  TInv'
  BY <1>1, LimitsStep, GoneStep, MirroredStep, ListeningStep DEF TInv
<1>2. CASE UNCHANGED vars
  <2>1. Limits' /\ Gone'
    BY <1>2 DEF vars, TInv, Limits, Gone
  <2>2. Settled' = Settled /\ Held' = Held
    BY <1>2 DEF vars, Settled, Promised, Held, Leaving
  <2>3. Mirrored'
    BY <1>2, <2>2 DEF vars, TInv, Mirrored, Shown
  <2>4. Listening'
    BY <1>2, <2>2 DEF vars, TInv, Listening, Waits, HoldsEnd
  <2> QED
    BY <2>1, <2>3, <2>4 DEF TInv
<1> QED
  BY <1>1, <1>2 DEF Next

(* cap_update_hook runs before the insertion and outside any common lock;  *)
(* still the schedule has, for whoever holds a quantum, a slice that lasts *)
(* to the end of the capability.                                           *)
THEOREM ScheduleFollows == Spec => []ScheduleFollowsCaps
<1>1. TInv => ScheduleFollowsCaps
  BY DEF TInv, Mirrored, Shown, ShownIn, ScheduleFollowsCaps
<1> QED
  BY InitIInv, Invariance, InitTables, TablesInvariance, <1>1, PTL DEF Spec

(* Wherever a receiver or server capability is moved, cap_update_hook has  *)
(* made its holder the channel's receiver.                                 *)
THEOREM ReceiverFollows == Spec => []ReceiverFollowsCaps
<1>1. TInv => ReceiverFollowsCaps
  BY DEF TInv, Mirrored, Shown, ShownIn, ReceiverFollowsCaps
<1> QED
  BY InitIInv, Invariance, InitTables, TablesInvariance, <1>1, PTL DEF Spec

LEMMA LeastHart ==
  ASSUME NEW S \in SUBSET HartIds, NEW h \in S
  PROVE  \E l \in S : l <= h /\ \A m \in S : ~(m < l)
<1> DEFINE R == OpToRel(<, Nat)
           T == {l \in S : l <= h}
<1>0. S \subseteq Nat /\ h \in Nat
  BY CapsAssumption
<1>1. T \subseteq Nat /\ h \in T
  <2>1. h <= h
    BY <1>0
  <2> QED
    BY <1>0, <2>1
<1>2. PICK l \in T : \A m \in T : ~(<<m, l>> \in R)
  BY <1>1, NatLessThanWellFounded, WFMin
<1>3. \A m \in S : m < l => m \in T /\ <<m, l>> \in R
  BY <1>1, CapsAssumption DEF OpToRel
<1> QED
  BY <1>2, <1>3

(* sched_get_proc gives a process that several harts have in their slices  *)
(* to the hart with the lowest id: who holds a quantum is run in it.       *)
THEOREM OwnersServed == Spec => []OwnerIsServed
<1>1. TInv => OwnerIsServed
  <2> SUFFICES ASSUME TInv, NEW s \in Settled, NEW h \in HartIds, NEW q \in Quanta,
                      OwnsQuantum(cap[s], h, q)
               PROVE  \E l \in HartIds : l <= h /\ sched_get_proc(l, q) = s[1]
    BY DEF OwnerIsServed
  <2> DEFINE S == {l \in HartIds : schedule[l][q].pid = s[1]}
  <2>0. schedule[h][q] = [pid |-> s[1], length |-> cap[s].end - q]
    BY DEF TInv, Mirrored, Shown, ShownIn
  <2>1. h \in S
    BY <2>0
  <2>2. PICK l \in S : l <= h /\ \A m \in S : ~(m < l)
    BY <2>1, LeastHart
  <2> QED
    BY <2>2 DEF sched_get_proc
<1> QED
  BY InitIInv, Invariance, InitTables, TablesInvariance, <1>1, PTL DEF Spec

(* receivers[ch][0] is not cleared when the capability for the channel is  *)
(* deleted or moved away; a message still reaches only a process that has  *)
(* the capability, since whoever waits cannot let go of it.                *)
THEOREM ReachesHolder == Spec => []MessageReachesHolder
<1>1. TInv => MessageReachesHolder
  <2>1. \A ch \in Channels : ch # None
    BY BootAssumption
  <2> QED
    BY <2>1 DEF TInv, Listening, Waits, HoldsEnd, MessageReachesHolder
<1> QED
  BY InitIInv, Invariance, InitTables, TablesInvariance, <1>1, PTL DEF Spec

----------------------------------------------------------------------------
(* The lists have the live slots of their families; a child is of the      *)
(* family of its parent (Kin).                                             *)
Listed(f) == {s \in live : Family(cap[s]) = f}
Ordered ==
  /\ order \in [Families -> Seq(Slots)]
  /\ \A f \in Families : Lists(order[f], Listed(f))
Kin == \A p \in Procs : pc[p] \in Fresh => Family(new[p]) = Family(cap[src[p]])

LEMMA SlotLists ==
  ASSUME NEW l, NEW X, Lists(l, X), X \subseteq Slots
  PROVE  l \in Seq(Slots)
<1>1. l \in Seq(X) /\ \A k \in 1 .. Len(l) : l[k] \in X
  BY Positions DEF Lists
<1> QED
  BY <1>1, ElementsIn

LEMMA FamilyOf ==
  ASSUME NEW c \in Cap
  PROVE  Family(c) \in Families
BY DEF Family, Families, Cap, TimeCap, ChannelsCap, SupervisorCap, EndpointCap

LEMMA DeriveFamily ==
  ASSUME NEW p \in Cap, NEW c \in Cap, cap_can_derive(p, c)
  PROVE  Family(derive_update_cap(p, c)) = Family(p) /\ Family(c) = Family(p)
<1> USE DEF Cap, TimeCap, ChannelsCap, SupervisorCap, EndpointCap, Endpoints
<1>1. derive_update_cap(p, c).type = p.type
  BY DEF derive_update_cap, Ranged, cap_can_derive
<1>2. Family(derive_update_cap(p, c)) = Family(p)
  BY <1>1 DEF Family
<1>3. Family(c) = Family(p)
  BY DEF cap_can_derive, Family
<1> QED
  BY <1>2, <1>3

LEMMA InitOrdered == Init => Ordered /\ Kin
<1> SUFFICES ASSUME Init PROVE Ordered /\ Kin
  OBVIOUS
<1>1. Kin
  BY DEF Init, Kin, Fresh
<1>2. ASSUME NEW f \in Families
      PROVE  Lists(order[f], Listed(f))
  <2> DEFINE I == {k \in DOMAIN Boot : Family(Boot[k]) = f}
             S == {<<0, i>> : i \in I}
             l == order[f]
  <2>1. Listed(f) = S
    <3>1. \A i \in DOMAIN Boot : <<0, i>> \in live /\ cap[<<0, i>>] = Boot[i]
      BY CapsAssumption DEF Init
    <3>2. \A s \in live : \E i \in DOMAIN Boot : s = <<0, i>>
      BY DEF Init
    <3> QED
      BY <3>1, <3>2 DEF Listed
  <2>2. Cardinality(S) \in Nat
    <3>1. IsFiniteSet(I)
      BY BootAssumption, FS_Subset
    <3>2. [i \in I |-> <<0, i>>] \in Surjection(I, S)
      BY DEF Surjection
    <3>3. IsFiniteSet(S)
      BY <3>1, <3>2, FS_Surjection
    <3> QED
      BY <3>3, FS_CardinalityType
  <2>3. /\ l \in [1 .. Cardinality(S) -> S] /\ Range(l) = S
        /\ \A i, j \in DOMAIN l : i < j => l[i][2] > l[j][2]
    BY DEF Init, BootOrder
  <2>4. S \subseteq Slots /\ S \subseteq Procs \X Nat
    BY CapsAssumption
  <2>5. l \in Seq(Slots)
    <3>1. l \in [1 .. Cardinality(S) -> Slots]
      BY <2>3, <2>4
    <3> QED
      BY <2>2, <3>1, SeqDef
  <2>6. IsInjective(l)
    <3> SUFFICES ASSUME NEW i \in DOMAIN l, NEW j \in DOMAIN l, l[i] = l[j] PROVE i = j
      BY DEF IsInjective
    <3>0. DOMAIN l = 1 .. Cardinality(S) /\ l[i] \in S
      BY <2>3
    <3> HIDE DEF S
    <3>1. i \in Nat /\ j \in Nat /\ l[i][2] \in Nat
      BY <2>2, <2>4, <3>0
    <3> QED
      BY <2>3, <3>1
  <2> QED
    <3>1. DOMAIN l = 1 .. Len(l) /\ \A k \in DOMAIN l : l[k] \in S
      BY <2>3, <2>5, LenProperties
    <3>2. l \in Seq(S)
      BY <2>5, <3>1, ElementsIn
    <3> QED
      BY <2>1, <2>3, <2>6, <3>2 DEF Lists
<1>3. order \in [Families -> Seq(Slots)]
  <2>1. \A f \in Families : Listed(f) \subseteq Slots
    BY CapsAssumption DEF Init, Listed
  <2>2. \A f \in Families : order[f] \in Seq(Slots)
    BY <1>2, <2>1, SlotLists
  <2> QED
    BY <2>2 DEF Init
<1> QED
  BY <1>1, <1>2, <1>3 DEF Ordered

LEMMA OrderedStep ==
  ASSUME IInv, Ordered, Kin, NEW p \in Procs, Step(p)
  PROVE  Ordered' /\ Kin'
<1> USE DEF IInv, Typed
<1>s. Steady(p)
  BY Frame
<1>l. \A f \in Families : Listed(f) \subseteq live
  BY DEF Listed
<1>o. \A q \in Procs \ {p} : pc'[q] \in Fresh =>
        /\ pc[q] \in Fresh /\ new'[q] = new[q] /\ src'[q] = src[q] /\ src[q] \in live
  BY <1>s DEF Steady, Busy, Places, Place
<1>1. ASSUME UNCHANGED order, live' = live,
             \A s \in live : Family(cap'[s]) = Family(cap[s]),
             pc'[p] \in Fresh => Family(new'[p]) = Family(cap'[src'[p]])
      PROVE  Ordered' /\ Kin'
  <2>1. \A f \in Families : Listed(f)' = Listed(f)
    BY <1>1 DEF Listed
  <2> QED
    BY <1>o, <1>1, <2>1 DEF Ordered, Kin
<1>2. ASSUME NEW s \in Table(p), NEW t \in Table(p), NEW c \in Words, Derive(p, s, t, c)
      PROVE  Ordered' /\ Kin'
  <2>1. /\ s \in Slots /\ s \in live /\ live' = live /\ cap[s] \in Cap /\ c \in Cap
        /\ cap_can_derive(cap[s], c) /\ cap' = [cap EXCEPT ![s] = derive_update_cap(cap[s], c)]
        /\ src'[p] = s /\ new'[p] = c /\ UNCHANGED order
    BY <1>2, CapsAssumption DEF Derive, Table, Call
  <2>2. Family(derive_update_cap(cap[s], c)) = Family(cap[s]) /\ Family(c) = Family(cap[s])
    BY <2>1, DeriveFamily
  <2> QED
    BY <1>1, <2>1, <2>2
<1>3. ASSUME NEW s \in live, live' = live \ {s}, cap' = [cap EXCEPT ![s] = Stale(@)],
             order' = [order EXCEPT ![Family(cap[s])] = TakeOut(@, s)],
             pc'[p] \notin Fresh, pc[p] \in Busy => pc[p] \in Sources /\ src[p] = s,
             s \in Table(p) \/ pc[p] \in Busy, pc[p] \in Busy \/ pc[p] = "user"
      PROVE  Ordered' /\ Kin'
  <2> DEFINE g == Family(cap[s])
  <2>1. g \in Families /\ s \in Listed(g)
    BY FamilyOf DEF Listed
  <2>2. \A f \in Families : Listed(f)' = IF f = g THEN Listed(f) \ {s} ELSE Listed(f)
    BY <1>3 DEF Listed
  <2>4. Lists(order[g], Listed(g)) /\ order'[g] = TakeOut(order[g], s)
    BY <1>3, <2>1 DEF Ordered
  <2>5. Lists(order'[g], Listed(g) \ {s})
    BY <2>1, <2>4, TakeOutLists
  <2>6. \A f \in Families : Lists(order'[f], Listed(f)')
    BY <1>3, <2>2, <2>5 DEF Ordered
  <2>7. order' \in [Families -> Seq(Slots)]
    <3>1. Listed(g) \ {s} \subseteq Slots
      BY DEF Listed
    <3>2. order'[g] \in Seq(Slots)
      BY <2>5, <3>1, SlotLists
    <3> QED
      BY <1>3, <2>1, <2>4, <3>2 DEF Ordered
  <2>8. ASSUME NEW q \in Procs, pc'[q] \in Fresh
        PROVE  Family(new'[q]) = Family(cap'[src'[q]])
    <3>1. q # p /\ pc[q] \in Fresh /\ new'[q] = new[q] /\ src'[q] = src[q] /\ src[q] \in live
      BY <1>3, <1>o, <2>8
    <3>2. src[q] # s
      <4>1. CASE pc[p] \in Busy
        BY <1>3, <3>1, <4>1, CallsApart DEF Busy
      <4>2. CASE pc[p] = "user"
        BY <1>3, <3>1, <4>2, Reaches DEF Table, Busy, Copies, Fresh, Sources
      <4> QED
        BY <1>3, <4>1, <4>2
    <3> QED
      BY <1>3, <3>1, <3>2 DEF Kin
  <2> QED
    BY <2>6, <2>7, <2>8 DEF Ordered, Kin
<1>4. ASSUME NEW s \in Table(p), Delete(p, s)
      PROVE  Ordered' /\ Kin'
  BY <1>3, <1>4 DEF Delete, Unlink, Goto, User, Busy, Copies, Fresh, Sources
<1>5. CASE DeleteSource(p)
  <2>1. src[p] \in live
    BY <1>5 DEF DeleteSource, Places, Place, Busy, Sources
  <2> QED
    BY <1>3, <1>5, <2>1 DEF DeleteSource, Unlink, Continue, Goto, Busy, Copies, Fresh, Sources
<1>6. CASE Insert(p)
  <2> DEFINE s == src[p]
             t == dst[p]
             c == new[p]
             g == Family(c)
  <2>1. /\ s \in live /\ t \in Slots \ live /\ c \in Cap /\ pc[p] \in Busy
        /\ g = Family(cap[s])
    BY <1>6 DEF Insert, AfterInsert, Places, Place, Busy, Copies, Fresh, Kin
  <2>2. /\ cap' = [cap EXCEPT ![t] = c] /\ live' = live \union {t}
        /\ order' = [order EXCEPT ![g] = InsertAfter(@, s, t)]
        /\ pc'[p] \notin Fresh
    BY <1>6 DEF Insert, Link, AfterInsert, Continue, Goto, Fresh
  <2>3. g \in Families /\ s \in Listed(g) /\ t \in Slots \ Listed(g)
    BY <1>l, <2>1, FamilyOf DEF Listed
  <2>4. \A f \in Families : Listed(f)' = IF f = g THEN Listed(f) \union {t} ELSE Listed(f)
    BY <2>1, <2>2 DEF Listed
  <2>5. Lists(order[g], Listed(g)) /\ order'[g] = InsertAfter(order[g], s, t)
    BY <2>2, <2>3 DEF Ordered
  <2>6. Lists(order'[g], Listed(g) \union {t})
    BY <2>3, <2>5, InsertLists
  <2>7. \A f \in Families : Lists(order'[f], Listed(f)')
    BY <2>2, <2>4, <2>6 DEF Ordered
  <2>8. order' \in [Families -> Seq(Slots)]
    <3>1. Listed(g) \union {t} \subseteq Slots
      BY <2>3 DEF Listed
    <3>2. order'[g] \in Seq(Slots)
      BY <2>6, <3>1, SlotLists
    <3> QED
      BY <2>2, <2>3, <2>5, <3>2 DEF Ordered
  <2>9. Kin'
    BY <1>o, <2>1, <2>2 DEF Kin
  <2> QED
    BY <2>7, <2>8, <2>9 DEF Ordered
<1>7. CASE Hook(p) /\ HookAsserts(new[p])
  <2>1. UNCHANGED <<cap, live, order>>
    BY <1>7 DEF Hook
  <2>2. pc'[p] \in Fresh => pc[p] \in Fresh /\ new'[p] = new[p] /\ src'[p] = src[p]
    BY <1>7 DEF Hook, AfterHook, Continue, Goto, call, Fresh
  <2> QED
    BY <1>1, <2>1, <2>2 DEF Kin
<1>8. CASE Quiet(p)
  BY <1>1, <1>8 DEF Quiet
<1> QED
  BY <1>2, <1>4, <1>5, <1>6, <1>7, <1>8, Kinds

LEMMA ListsInvariance == IInv /\ Ordered /\ Kin /\ [Next]_vars => Ordered' /\ Kin'
<1> SUFFICES ASSUME IInv, Ordered, Kin, [Next]_vars PROVE Ordered' /\ Kin'
  OBVIOUS
<1>1. ASSUME NEW p \in Procs, Step(p)
      PROVE  Ordered' /\ Kin'
  BY <1>1, OrderedStep
<1>2. CASE UNCHANGED vars
  BY <1>2 DEF vars, Ordered, Kin, Listed
<1> QED
  BY <1>1, <1>2 DEF Next

(* cap_node_insert and cap_node_delete work on the list of the family that *)
(* the slot belongs to: every list has the live slots of its family, each  *)
(* once, and the tables and locals keep their ranges.                      *)
THEOREM CapsTypes == Spec => []TypeOK
<1>1. IInv /\ TInv /\ Ordered => TypeOK
  BY DEF IInv, Typed, TInv, Mirrored, Ordered, Lists, Listed, TypeOK
<1> QED
  BY InitIInv, Invariance, InitTables, TablesInvariance, InitOrdered, ListsInvariance, <1>1,
     PTL DEF Spec

----------------------------------------------------------------------------
(* The territory of a capability: all it ever had to give, or its channel. *)
Begin(c) == IF c.type \in Endpoints THEN c.channel ELSE c.begin
End(c)   == IF c.type \in Endpoints THEN c.channel + 1 ELSE c.end
Proper(c) ==
  c.type \in Families => c.begin <= c.free /\ c.free <= c.end /\ c.begin < c.end

(* c and d have no territory in common; they are both ends that nothing is *)
(* derived from.                                                           *)
SameLine(c, d) ==
  Family(c) = Family(d) /\ (c.type = "time" => c.hartid = d.hartid)
Clear(c, d) ==
  ~SameLine(c, d) \/ End(c) <= Begin(d) \/ End(d) <= Begin(c)
Leaves(c, d) == {c.type, d.type} \subseteq {"sender", "client"}
Strangers(c, d) == Clear(c, d) \/ Leaves(c, d)

(* The capabilities form a forest: two of them are strangers or one is the *)
(* child of the other.                                                     *)
Forest ==
  /\ \A s \in Held : Proper(cap[s])
  /\ \A s, t \in Held : s # t =>
       \/ Strangers(cap[s], cap[t])
       \/ cap_is_child(cap[s], cap[t])
       \/ cap_is_child(cap[t], cap[s])

(* A fresh capability has no child, and its ancestors are its parent s and *)
(* those of its parent, which stand before the parent.                     *)
Bud(s, c) ==
  /\ Proper(c) /\ cap_is_child(cap[s], c) /\ ~cap_is_child(c, cap[s])
  /\ \A t \in Held \ {s} :
       \/ Strangers(c, cap[t])
       \/ /\ cap_is_child(cap[t], c) /\ ~cap_is_child(c, cap[t])
          /\ cap_is_child(cap[t], cap[s]) /\ Before(t, s)
Budding ==
  /\ \A p \in Procs, s \in Slots : pc[p] \in Fresh /\ s = src[p] => Bud(s, new[p])
  /\ \A p, q \in Procs :
       p # q /\ pc[p] \in Fresh /\ pc[q] \in Fresh => Strangers(new[p], new[q])
FInv == Forest /\ Budding

EndPair(p, c) == \/ p.type = "receiver" /\ c.type = "sender"
                 \/ p.type = "server" /\ c.type = "client"

LEMMA Territory ==
  ASSUME NEW c \in Cap
  PROVE  /\ Begin(c) \in Nat /\ End(c) \in Nat /\ Family(c) \in Families
         /\ c.type \in Families \union Endpoints
         /\ c.type \in Families => c.free \in Nat /\ Begin(c) = c.begin /\ End(c) = c.end
         /\ c.type \in Endpoints => End(c) = Begin(c) + 1 /\ Begin(c) = c.channel
         /\ c.type \in Endpoints => c.type \notin Families
         /\ c.type \in Families => Family(c) = c.type
         /\ c.type \in Endpoints => Family(c) = "channels"
BY DEF Begin, End, Family, Families, Endpoints, Cap, TimeCap, ChannelsCap, SupervisorCap, EndpointCap

(* What the rule for children says of territories.                         *)
LEMMA ChildIs ==
  ASSUME NEW p \in Cap, NEW c \in Cap
  PROVE  cap_is_child(p, c) <=>
           /\ SameLine(p, c)
           /\ \/ p.type \in Families /\ Begin(p) <= Begin(c) /\ End(c) <= p.free
              \/ EndPair(p, c) /\ Begin(p) = Begin(c)
<1> USE DEF Families, Endpoints
<1>t. /\ p.type \in Families \union Endpoints /\ c.type \in Families \union Endpoints
  BY Territory
<1>1. CASE p.type = "time"
  <2>1. cap_is_child(p, c) <=> c.type = "time" /\ Within(p, c) /\ p.hartid = c.hartid
    BY <1>1 DEF cap_is_child
  <2>2. SameLine(p, c) <=> c.type = "time" /\ p.hartid = c.hartid
    BY <1>1, <1>t, Territory DEF SameLine
  <2> QED
    BY <1>1, <2>1, <2>2, Territory DEF Within, EndPair
<1>2. CASE p.type = "supervisor"
  <2>1. cap_is_child(p, c) <=> c.type = "supervisor" /\ Within(p, c)
    BY <1>2 DEF cap_is_child
  <2>2. SameLine(p, c) <=> c.type = "supervisor"
    BY <1>2, <1>t, Territory DEF SameLine
  <2> QED
    BY <1>2, <2>1, <2>2, Territory DEF Within, EndPair
<1>3. CASE p.type = "channels"
  <2>1. cap_is_child(p, c) <=> \/ c.type = "channels" /\ Within(p, c)
                               \/ c.type \in Endpoints /\ ChannelWithin(p, c)
    BY <1>3 DEF cap_is_child
  <2>2. SameLine(p, c) <=> c.type = "channels" \/ c.type \in Endpoints
    BY <1>3, <1>t, Territory DEF SameLine
  <2> QED
    BY <1>3, <2>1, <2>2, Territory DEF Within, ChannelWithin, EndPair
<1>4. CASE p.type \in Endpoints
  <2>1. cap_is_child(p, c) <=> EndPair(p, c) /\ p.channel = c.channel
    BY <1>4 DEF cap_is_child, EndPair
  <2>2. EndPair(p, c) => SameLine(p, c) /\ c.type \in Endpoints
    BY <1>4, Territory DEF EndPair, SameLine
  <2> QED
    BY <1>4, <2>1, <2>2, Territory
<1> QED
  BY <1>1, <1>2, <1>3, <1>4, <1>t

LEMMA SameLineIs ==
  ASSUME NEW c \in Cap, NEW d \in Cap
  PROVE  /\ SameLine(c, d) => SameLine(d, c)
         /\ \A e \in Cap : SameLine(c, d) /\ SameLine(d, e) => SameLine(c, e)
BY Territory DEF SameLine, Families, Endpoints

(* Strangers are not each other's children.                                *)
LEMMA StrangersApart ==
  ASSUME NEW c \in Cap, NEW d \in Cap, Proper(c), Proper(d), Strangers(c, d)
  PROVE  ~cap_is_child(c, d) /\ ~cap_is_child(d, c) /\ Strangers(d, c)
<1> USE ChildIs, SameLineIs, Territory DEF Strangers, EndPair, Proper
<1>1. CASE Leaves(c, d)
  BY <1>1 DEF Leaves, Families
<1>2. CASE Clear(c, d)
  <2>1. Clear(d, c)
    BY <1>2 DEF Clear
  <2>2. ~cap_is_child(c, d)
    BY <1>2 DEF Clear
  <2>3. ~cap_is_child(d, c)
    BY <2>1 DEF Clear
  <2> QED
    BY <2>1, <2>2, <2>3
<1> QED
  BY <1>1, <1>2

LEMMA ChildTransitive ==
  ASSUME NEW a \in Cap, NEW b \in Cap, NEW c \in Cap, Proper(b),
         cap_is_child(a, b), cap_is_child(b, c)
  PROVE  cap_is_child(a, c)
<1>1. SameLine(a, b) /\ SameLine(b, c) /\ SameLine(a, c)
  BY ChildIs, SameLineIs
<1>2. a.type \in Families /\ Begin(a) <= Begin(b) /\ End(b) <= a.free
  BY ChildIs, Territory DEF EndPair, Families
<1>3. Begin(b) <= Begin(c) /\ End(c) <= End(b)
  <2>1. CASE EndPair(b, c)
    BY <2>1, ChildIs, Territory DEF EndPair, Endpoints, Families
  <2>2. CASE ~EndPair(b, c)
    <3>1. b.type \in Families /\ Begin(b) <= Begin(c) /\ End(c) <= b.free
      BY <2>2, ChildIs
    <3>2. b.free <= End(b) /\ b.free \in Nat /\ End(b) \in Nat /\ End(c) \in Nat
      BY <3>1, Territory DEF Proper
    <3> QED
      BY <3>1, <3>2
  <2> QED
    BY <2>1, <2>2
<1> QED
  BY <1>1, <1>2, <1>3, ChildIs, Territory

(* A derivation makes a child of the parent's own part, and lets the parent*)
(* give out no less.                                                       *)
LEMMA DeriveBuds ==
  ASSUME NEW s \in Cap, NEW c \in Cap, cap_can_derive(s, c), Proper(s)
  PROVE  LET u == derive_update_cap(s, c)
         IN  /\ u \in Cap /\ Proper(u) /\ Proper(c)
             /\ u.type = s.type /\ Begin(u) = Begin(s) /\ End(u) = End(s)
             /\ \A d : SameLine(u, d) <=> SameLine(s, d)
             /\ s.type \in Families => s.free <= u.free
             /\ SameLine(s, c)
             /\ \/ /\ s.type \in Families /\ s.free <= Begin(c) /\ End(c) <= u.free
                   /\ c.type \in Families => c.free = Begin(c)
                   /\ c.type \notin {"sender", "client"}
                \/ EndPair(s, c) /\ Begin(s) = Begin(c) /\ u = s
<1> DEFINE u == derive_update_cap(s, c)
<1> USE DEF Cap, TimeCap, ChannelsCap, SupervisorCap, EndpointCap, Endpoints, Families,
            Proper, Begin, End, SameLine, Family, EndPair
<1>1. CASE s.type \in Families /\ c.type = s.type
  <2>1. u = [s EXCEPT !.free = c.end]
    BY <1>1 DEF derive_update_cap, Ranged
  <2>2. s.free <= c.begin /\ c.end <= s.end /\ c.free = c.begin /\ c.begin < c.end
    BY <1>1 DEF cap_can_derive, NextOf
  <2>3. s.type = "time" => s.hartid = c.hartid
    BY <1>1 DEF cap_can_derive
  <2>4. /\ u \in Cap
        /\ u.type = s.type /\ u.begin = s.begin /\ u.end = s.end /\ u.free = c.end
        /\ (s.type = "time" => u.hartid = s.hartid)
    BY <1>1, <2>1
  <2>5. /\ s.begin \in Nat /\ s.free \in Nat /\ s.end \in Nat
        /\ c.begin \in Nat /\ c.free \in Nat /\ c.end \in Nat
    BY <1>1
  <2> HIDE DEF u
  <2>6. Proper(u) /\ Proper(c) /\ s.free <= u.free
    BY <1>1, <2>2, <2>4, <2>5
  <2>7. /\ Begin(u) = Begin(s) /\ End(u) = End(s)
        /\ s.free <= Begin(c) /\ End(c) <= u.free /\ c.free = Begin(c)
    BY <1>1, <2>2, <2>4, <2>5
  <2>8. \A d : SameLine(u, d) <=> SameLine(s, d)
    BY <1>1, <2>4
  <2>9. SameLine(s, c)
    BY <1>1, <2>3
  <2> QED
    BY <1>1, <2>4, <2>6, <2>7, <2>8, <2>9 DEF u
<1>2. CASE s.type = "channels" /\ c.type \in {"receiver", "server"}
  <2>1. u = [s EXCEPT !.free = c.channel + 1]
    BY <1>2 DEF derive_update_cap, Ranged
  <2>2. s.free = c.channel /\ c.channel < s.end
    BY <1>2 DEF cap_can_derive
  <2>3. u \in Cap
    BY <1>2, <2>1
  <2>4. u.type = s.type /\ u.begin = s.begin /\ u.end = s.end /\ u.free = c.channel + 1
    BY <1>2, <2>1
  <2> QED
    BY <1>2, <2>2, <2>3, <2>4
<1>3. CASE s.type \in {"receiver", "server"}
  <2>1. u = s
    BY <1>3 DEF derive_update_cap, Ranged
  <2>2. EndPair(s, c) /\ s.channel = c.channel
    BY <1>3 DEF cap_can_derive
  <2> QED
    BY <1>3, <2>1, <2>2
<1> QED
  BY <1>1, <1>2, <1>3 DEF cap_can_derive

(* What a derivation changes between its parent s, its child c and another *)
(* capability t.                                                           *)
LEMMA Graft ==
  ASSUME NEW s \in Cap, NEW c \in Cap, NEW t \in Cap, NEW u,
         cap_can_derive(s, c), u = derive_update_cap(s, c), Proper(s), Proper(t)
  PROVE  /\ u \in Cap /\ Proper(u) /\ Proper(c) /\ cap_is_child(u, c) /\ ~cap_is_child(c, u)
         /\ Strangers(s, t) => Strangers(u, t) /\ Strangers(c, t)
         /\ cap_is_child(s, t) => cap_is_child(u, t) /\ Strangers(c, t)
         /\ cap_is_child(t, s) <=> cap_is_child(t, u)
         /\ cap_is_child(t, s) => cap_is_child(t, c) /\ ~cap_is_child(c, t)
<1>1. /\ u \in Cap /\ Proper(u) /\ Proper(c)
      /\ u.type = s.type /\ Begin(u) = Begin(s) /\ End(u) = End(s)
      /\ \A d : SameLine(u, d) <=> SameLine(s, d)
      /\ s.type \in Families => s.free <= u.free
      /\ SameLine(s, c)
      /\ \/ /\ s.type \in Families /\ s.free <= Begin(c) /\ End(c) <= u.free
            /\ c.type \in Families => c.free = Begin(c)
            /\ c.type \notin {"sender", "client"}
         \/ EndPair(s, c) /\ Begin(s) = Begin(c) /\ u = s
  BY DeriveBuds
<1>2. /\ Begin(s) \in Nat /\ End(s) \in Nat /\ Begin(c) \in Nat /\ End(c) \in Nat
      /\ Begin(t) \in Nat /\ End(t) \in Nat
      /\ s.type \in Families => s.free \in Nat /\ u.free \in Nat
      /\ c.type \in Families => c.free \in Nat
      /\ t.type \in Families => t.free \in Nat
  BY <1>1, Territory
<1>3. Begin(s) < End(s) /\ Begin(c) < End(c) /\ Begin(t) < End(t)
  BY <1>1, <1>2, Territory DEF Proper
<1>4. Begin(s) <= Begin(c) /\ End(c) <= End(s)
  <2>1. CASE s.type \in Families
    <3>1. Begin(s) <= s.free /\ u.free <= End(s)
      BY <1>1, <2>1, Territory DEF Proper
    <3>2. ~EndPair(s, c)
      BY <2>1 DEF EndPair, Families
    <3> QED
      BY <1>1, <1>2, <3>1, <3>2
  <2>2. CASE s.type \notin Families
    <3>1. EndPair(s, c) /\ Begin(s) = Begin(c)
      BY <1>1, <2>2
    <3>2. End(s) = Begin(s) + 1 /\ End(c) = Begin(c) + 1
      BY <3>1, Territory DEF EndPair, Families, Endpoints
    <3> QED
      BY <1>2, <3>1, <3>2
  <2> QED
    BY <2>1, <2>2
<1>5. SameLine(u, c) /\ SameLine(c, u) /\ SameLine(c, s)
  BY <1>1, SameLineIs
<1>6. /\ SameLine(s, t) <=> SameLine(u, t)
      /\ SameLine(s, t) <=> SameLine(c, t)
      /\ SameLine(t, s) <=> SameLine(s, t)
      /\ SameLine(t, c) <=> SameLine(s, t)
      /\ SameLine(t, u) <=> SameLine(s, t)
  BY <1>1, <1>5, SameLineIs
<1>7. cap_is_child(u, c)
  BY <1>1, <1>2, <1>4, <1>5, ChildIs DEF EndPair
<1>8. ~cap_is_child(c, u)
  <2>1. ~EndPair(c, u)
    BY <1>1 DEF EndPair, Families
  <2>2. c.type \in Families => ~(End(u) <= c.free)
    BY <1>1, <1>2, <1>3, <1>4 DEF EndPair, Families
  <2> QED
    BY <1>1, <2>1, <2>2, ChildIs
<1>9. ASSUME Strangers(s, t)
      PROVE  Strangers(u, t) /\ Strangers(c, t)
  <2>1. CASE Leaves(s, t)
    BY <1>1, <2>1 DEF Leaves, EndPair, Families
  <2>2. CASE Clear(s, t)
    BY <1>1, <1>2, <1>4, <1>6, <2>2 DEF Clear, Strangers
  <2> QED
    BY <1>9, <2>1, <2>2 DEF Strangers
<1>10. ASSUME cap_is_child(s, t)
       PROVE  cap_is_child(u, t) /\ Strangers(c, t)
  <2>1. CASE s.type \in Families
    <3>1. ~EndPair(s, t) /\ ~EndPair(s, c)
      BY <2>1 DEF EndPair, Families
    <3>2. SameLine(s, t) /\ Begin(s) <= Begin(t) /\ End(t) <= s.free
      BY <1>10, <3>1, ChildIs
    <3>3. End(t) <= Begin(c)
      BY <1>1, <1>2, <2>1, <3>1, <3>2
    <3>4. cap_is_child(u, t)
      BY <1>1, <1>2, <1>6, <2>1, <3>2, ChildIs
    <3> QED
      BY <3>3, <3>4 DEF Strangers, Clear
  <2>2. CASE s.type \notin Families
    <3>1. EndPair(s, t) /\ EndPair(s, c) /\ u = s
      BY <1>1, <1>10, <2>2, ChildIs
    <3> QED
      BY <1>10, <3>1 DEF EndPair, Strangers, Leaves
  <2> QED
    BY <2>1, <2>2
<1>11. cap_is_child(t, s) <=> cap_is_child(t, u)
  BY <1>1, <1>6, ChildIs DEF EndPair
<1>12. ASSUME cap_is_child(t, s)
       PROVE  cap_is_child(t, c) /\ ~cap_is_child(c, t)
  <2>1. cap_is_child(t, c)
    BY <1>1, <1>7, <1>11, <1>12, ChildTransitive
  <2>2. t.type \notin {"sender", "client"}
    BY <1>12, ChildIs DEF EndPair, Families
  <2>3. ~EndPair(c, t)
    BY <2>2 DEF EndPair
  <2>4. c.type \in Families => ~(Begin(c) <= Begin(t) /\ End(t) <= c.free)
    BY <1>1, <1>2, <1>3 DEF EndPair, Families
  <2> QED
    BY <2>1, <2>3, <2>4, ChildIs
<1> QED
  BY <1>1, <1>7, <1>8, <1>9, <1>10, <1>11, <1>12

----------------------------------------------------------------------------
LEMMA BeforeOrders ==
  ASSUME Typed, Ordered
  PROVE  \A x, y, z \in live :
           /\ ~Before(x, x)
           /\ Before(x, y) => ~Before(y, x)
           /\ Before(x, y) /\ Before(y, z) => Before(x, z)
<1>1. \A x \in live : Family(cap[x]) \in Families
  BY FamilyOf DEF Typed
<1>2. \A x, y : Before(x, y) <=> Ahead(order[Family(cap[x])], x, y)
  BY DEF Before
<1>3. \A f \in Families : Lists(order[f], Listed(f))
  BY DEF Ordered
<1>4. ASSUME NEW x \in live, NEW y \in live, Before(x, y)
      PROVE  Family(cap[y]) = Family(cap[x])
  <2>1. y \in Listed(Family(cap[x]))
    BY <1>1, <1>2, <1>3, <1>4, AheadOrders
  <2> QED
    BY <2>1 DEF Listed
<1>5. ASSUME NEW x \in live, NEW y \in live, NEW z \in live
      PROVE  /\ ~Before(x, x)
             /\ Before(x, y) => ~Before(y, x)
             /\ Before(x, y) /\ Before(y, z) => Before(x, z)
  <2>1. PICK l, X : l = order[Family(cap[x])] /\ Lists(l, X)
    BY <1>1, <1>3
  <2>2. /\ ~Ahead(l, x, x)
        /\ Ahead(l, x, y) => ~Ahead(l, y, x)
        /\ Ahead(l, x, y) /\ Ahead(l, y, z) => Ahead(l, x, z)
    BY <2>1, AheadOrders
  <2> QED
    BY <1>2, <1>4, <2>1, <2>2
<1> QED
  BY <1>5

(* What an insertion and a deletion do to the order.                       *)
LEMMA InsertBefore ==
  ASSUME IInv, Ordered, Kin, NEW p \in Procs, Insert(p),
         NEW s, NEW d, s = src[p], d = dst[p]
  PROVE  /\ \A x, y \in live : Before(x, y)' <=> Before(x, y)
         /\ \A x \in live : Before(x, d)' <=> x = s \/ Before(x, s)
         /\ \A y \in live : Before(d, y)' <=> Before(s, y)
         /\ ~Before(d, d)'
<1>1. /\ s \in live /\ d \in Slots \ live /\ new[p] \in Cap /\ cap[s] \in Cap
      /\ Family(new[p]) = Family(cap[s])
  BY DEF Insert, AfterInsert, IInv, Typed, Places, Place, Busy, Copies, Fresh, Kin
<1>2. PICK g : g = Family(cap[s])
  OBVIOUS
<1>3. /\ cap' = [cap EXCEPT ![d] = new[p]]
      /\ order' = [order EXCEPT ![g] = InsertAfter(@, s, d)]
  BY <1>1, <1>2 DEF Insert, Link
<1>4. /\ g \in Families /\ s \in Listed(g) /\ d \in Slots \ Listed(g)
  BY <1>1, <1>2, FamilyOf DEF Listed
<1>5. order'[g] = InsertAfter(order[g], s, d) /\ \A f \in Families \ {g} : order'[f] = order[f]
  BY <1>3, <1>4 DEF Ordered
<1>6. cap'[d] = new[p] /\ \A x \in live : cap'[x] = cap[x] /\ x # d /\ Family(cap[x]) \in Families
  BY <1>1, <1>3, FamilyOf DEF IInv, Typed
<1>7. /\ \A x, y : Before(x, y) <=> Ahead(order[Family(cap[x])], x, y)
      /\ \A x, y : Before(x, y)' <=> Ahead(order'[Family(cap'[x])], x, y)
  BY DEF Before
<1>8. PICK l, X, r : l = order[g] /\ X = Listed(g) /\ r = order'[g] /\ Lists(l, X)
  BY <1>4 DEF Ordered
<1>9. /\ \A x, y : x # d /\ y # d => (Ahead(r, x, y) <=> Ahead(l, x, y))
      /\ \A x : Ahead(r, x, d) <=> x = s \/ Ahead(l, x, s)
      /\ \A y : Ahead(r, d, y) <=> Ahead(l, s, y)
  <2>1. s \in X /\ d \in Slots \ X /\ r = InsertAfter(l, s, d)
    BY <1>4, <1>5, <1>8
  <2> QED
    BY <1>8, <2>1, AheadInserted
<1>10. \A f \in Families : \A x : Ahead(order[f], x, d) \/ Ahead(order[f], d, x) => FALSE
  <2>1. \A f \in Families : d \notin Listed(f) /\ Lists(order[f], Listed(f))
    BY <1>1 DEF Listed, Ordered
  <2> QED
    BY <2>1, AheadOrders
<1>11. \A f \in Families : f # g => \A x : ~Ahead(order[f], x, s)
  <2>1. \A f \in Families : f # g => s \notin Listed(f) /\ Lists(order[f], Listed(f))
    BY <1>2 DEF Listed, Ordered
  <2> QED
    BY <2>1, AheadOrders
<1>12. ASSUME NEW x \in live
       PROVE  /\ \A y \in live : Before(x, y)' <=> Before(x, y)
              /\ Before(x, d)' <=> x = s \/ Before(x, s)
  <2>1. PICK f : f = Family(cap[x]) /\ f \in Families /\ f = Family(cap'[x])
    BY <1>6
  <2>2. CASE f = g
    BY <1>6, <1>7, <1>8, <1>9, <2>1, <2>2
  <2>3. CASE f # g
    BY <1>2, <1>5, <1>6, <1>7, <1>10, <1>11, <2>1, <2>3
  <2> QED
    BY <2>2, <2>3
<1>13. /\ \A y \in live : Before(d, y)' <=> Before(s, y)
       /\ ~Before(d, d)'
  <2>1. Family(cap'[d]) = g
    BY <1>1, <1>2, <1>6
  <2>2. ~Ahead(l, s, d)
    BY <1>4, <1>8, <1>10
  <2> QED
    BY <1>2, <1>7, <1>8, <1>9, <2>1, <2>2
<1> QED
  BY <1>12, <1>13

LEMMA UnlinkBefore ==
  ASSUME IInv, Ordered, NEW s \in live, Unlink(s)
  PROVE  \A x, y \in live \ {s} : Before(x, y)' <=> Before(x, y)
<1>1. PICK g : g = Family(cap[s])
  OBVIOUS
<1>2. g \in Families /\ s \in Listed(g)
  BY <1>1, FamilyOf DEF IInv, Typed, Listed
<1>3. order'[g] = TakeOut(order[g], s) /\ \A f \in Families \ {g} : order'[f] = order[f]
  BY <1>1, <1>2 DEF Unlink, Ordered
<1>4. \A x \in live \ {s} : cap'[x] = cap[x] /\ Family(cap[x]) \in Families
  BY FamilyOf DEF Unlink, IInv, Typed
<1>5. /\ \A x, y : Before(x, y) <=> Ahead(order[Family(cap[x])], x, y)
      /\ \A x, y : Before(x, y)' <=> Ahead(order'[Family(cap'[x])], x, y)
  BY DEF Before
<1>6. PICK l, X, r : l = order[g] /\ X = Listed(g) /\ r = order'[g] /\ Lists(l, X)
  BY <1>2 DEF Ordered
<1>7. \A x, y : x # s /\ y # s => (Ahead(r, x, y) <=> Ahead(l, x, y))
  <2>1. s \in X /\ r = TakeOut(l, s)
    BY <1>2, <1>3, <1>6
  <2> QED
    BY <1>6, <2>1, AheadTakenOut
<1>8. ASSUME NEW x \in live \ {s}, NEW y \in live \ {s}
      PROVE  Before(x, y)' <=> Before(x, y)
  <2>1. PICK f : f = Family(cap[x]) /\ f \in Families /\ f = Family(cap'[x])
    BY <1>4
  <2>2. CASE f = g
    BY <1>5, <1>6, <1>7, <2>1, <2>2
  <2>3. CASE f # g
    BY <1>3, <1>5, <2>1, <2>3
  <2> QED
    BY <2>2, <2>3
<1> QED
  BY <1>8

----------------------------------------------------------------------------
(* The source of a derivation is held.                                     *)
LEMMA FreshSource ==
  ASSUME IInv, NEW q \in Procs, pc[q] \in Fresh
  PROVE  /\ src[q] \in Held
         /\ \A r \in Procs \ {q} : pc[r] \in Busy => src[r] # src[q]
<1>1. pc[q] \in Busy /\ src[q] \in live
  BY DEF IInv, Places, Place, Busy
<1>2. \A r \in Procs \ {q} : pc[r] \in Busy => src[r] # src[q]
  BY <1>1, CallsApart DEF IInv
<1> QED
  BY <1>1, <1>2 DEF Held, Leaving, Busy, Sources, Fresh

Followed == FInv /\ ChildrenFollow

(* A step that holds no more than before, each capability in a slot of its *)
(* own, in the same order.                                                 *)
LEMMA Carried ==
  ASSUME Followed, NEW phi,
         \A x \in Held' : phi[x] \in Held /\ cap'[x] = cap[phi[x]],
         \A x, y \in Held' : phi[x] = phi[y] => x = y,
         \A x, y \in Held' : Before(x, y)' <=> Before(phi[x], phi[y]),
         \A q \in Procs : pc'[q] \in Fresh =>
           /\ pc[q] \in Fresh /\ new'[q] = new[q] /\ src'[q] = src[q]
           /\ src[q] \in Held' /\ phi[src[q]] = src[q]
  PROVE  Followed'
<1>1. Forest'
  BY DEF Followed, FInv, Forest
<1>2. Budding'
  <2>1. ASSUME NEW q \in Procs, NEW s \in Slots, pc'[q] \in Fresh, s = src'[q]
        PROVE  Bud(s, new[q])'
    <3>1. /\ pc[q] \in Fresh /\ new'[q] = new[q] /\ s = src[q]
          /\ s \in Held' /\ phi[s] = s /\ cap'[s] = cap[s]
      BY <2>1
    <3>2. Bud(s, new[q])
      BY <3>1 DEF Followed, FInv, Budding
    <3>3. ASSUME NEW t \in Held', t # s
          PROVE  \/ Strangers(new[q], cap'[t])
                 \/ /\ cap_is_child(cap'[t], new[q]) /\ ~cap_is_child(new[q], cap'[t])
                    /\ cap_is_child(cap'[t], cap[s]) /\ Before(t, s)'
      <4>1. phi[t] \in Held \ {s} /\ cap'[t] = cap[phi[t]]
        BY <3>1, <3>3
      <4>2. Before(t, s)' <=> Before(phi[t], s)
        BY <3>1, <3>3
      <4> QED
        BY <3>2, <4>1, <4>2 DEF Bud
    <3> QED
      BY <3>1, <3>2, <3>3 DEF Bud
  <2>2. \A q, r \in Procs :
          q # r /\ pc'[q] \in Fresh /\ pc'[r] \in Fresh => Strangers(new'[q], new'[r])
    BY DEF Followed, FInv, Budding
  <2> QED
    BY <2>1, <2>2 DEF Budding
<1>3. ChildrenFollow'
  <2> SUFFICES ASSUME NEW x \in Held', NEW y \in Held', x # y, cap_is_child(cap'[x], cap'[y])
      PROVE  \/ /\ Before(x, y)'
                /\ \A m \in Held' : Before(x, m)' /\ Before(m, y)' => cap_is_child(cap'[x], cap'[m])
             \/ Before(y, x)' /\ cap_is_child(cap'[y], cap'[x])
    BY DEF ChildrenFollow
  <2>1. /\ phi[x] \in Held /\ phi[y] \in Held /\ phi[x] # phi[y]
        /\ cap_is_child(cap[phi[x]], cap[phi[y]])
    OBVIOUS
  <2> QED
    BY <2>1 DEF Followed, ChildrenFollow
<1> QED
  BY <1>1, <1>2, <1>3 DEF Followed, FInv

----------------------------------------------------------------------------
(* The source of another derivation stays held.                            *)
LEMMA SourceStays ==
  ASSUME IInv, NEW p \in Procs, Steady(p),
         pc'[p] \in Sources => pc[p] \in Busy /\ src'[p] = src[p],
         NEW q \in Procs, pc[q] \in Fresh, pc'[q] \in Fresh, src[q] \in live'
  PROVE  src[q] \in Held'
<1>1. \A r \in Procs \ {q} : pc[r] \in Busy => src[r] # src[q]
  BY FreshSource
<1>2. \A r \in Procs : pc'[r] \in Sources => r # q /\ pc[r] \in Busy /\ src'[r] = src[r]
  BY DEF Steady, Busy, Sources, Fresh
<1>3. \A r \in Procs : ~(pc'[r] \in Sources /\ src'[r] = src[q])
  BY <1>1, <1>2
<1>4. PICK s : s = src[q]
  OBVIOUS
<1>5. ~Leaving(s)'
  BY <1>3, <1>4 DEF Leaving, Sources
<1> QED
  BY <1>4, <1>5 DEF Held

LEMMA KeptFollowed ==
  ASSUME IInv, Followed, NEW p \in Procs, Steady(p), pc'[p] \notin Sources,
         Held' \subseteq Held,
         \A x \in Held' : cap'[x] = cap[x],
         \A x, y \in Held' : Before(x, y)' <=> Before(x, y),
         pc'[p] \in Fresh => pc[p] \in Fresh /\ new'[p] = new[p] /\ src'[p] = src[p],
         \A q \in Procs : pc'[q] \in Fresh => src[q] \in live'
  PROVE  Followed'
<1>1. PICK phi : phi = [x \in Slots |-> x]
  OBVIOUS
<1>2. \A x \in Held' : phi[x] = x
  BY <1>1 DEF Held, IInv, Typed
<1>3. ASSUME NEW q \in Procs, pc'[q] \in Fresh
      PROVE  /\ pc[q] \in Fresh /\ new'[q] = new[q] /\ src'[q] = src[q]
             /\ src[q] \in Held' /\ phi[src[q]] = src[q]
  <2>1. pc[q] \in Fresh /\ new'[q] = new[q] /\ src'[q] = src[q]
    BY <1>3 DEF Steady, Busy
  <2>2. src[q] \in Held'
    BY <1>3, <2>1, SourceStays
  <2> QED
    BY <1>2, <2>1, <2>2
<1> QED
  BY <1>2, <1>3, Carried

(* A deleted slot is not the source of a derivation.                       *)
LEMMA UnlinkFollowed ==
  ASSUME IInv, Ordered, Followed, NEW p \in Procs, Steady(p), NEW s \in live, Unlink(s),
         pc'[p] \notin Sources \union Fresh,
         \/ pc[p] \in Sources /\ src[p] = s
         \/ pc[p] = "user" /\ s[1] = p
  PROVE  Followed'
<1> USE DEF IInv
<1>1. s \in Slots /\ live' = live \ {s} /\ cap' = [cap EXCEPT ![s] = Stale(@)]
  BY DEF Unlink, Typed
<1>2. Held' \subseteq Held \ {s}
  <2>1. ASSUME NEW y \in Held'
        PROVE  y \in Held \ {s}
    <3>1. /\ y \in live'
          /\ y \in live /\ ~(pc[p] \in Sources /\ src[p] = y) => y \in Held
      BY HeldAfter
    <3> QED
      BY <1>1, <3>1 DEF Sources
  <2> QED
    BY <2>1
<1>3. \A x \in Held' : cap'[x] = cap[x] /\ x \in live \ {s}
  BY <1>1, <1>2 DEF Held, Typed
<1>4. \A x, y \in Held' : Before(x, y)' <=> Before(x, y)
  BY <1>3, UnlinkBefore
<1>5. ASSUME NEW q \in Procs, pc'[q] \in Fresh
      PROVE  src[q] \in live'
  <2>1. q # p /\ pc[q] \in Fresh
    BY <1>5 DEF Steady, Busy
  <2>2. src[q] # s
    <3>1. CASE pc[p] \in Sources /\ src[p] = s
      BY <2>1, <3>1, CallsApart DEF Busy
    <3>2. CASE pc[p] = "user" /\ s[1] = p
      BY <2>1, <3>2, Reaches DEF Busy
    <3> QED
      BY <3>1, <3>2
  <2> QED
    BY <1>1, <2>1, <2>2, FreshSource DEF Held
<1> QED
  BY <1>2, <1>3, <1>4, <1>5, KeptFollowed

(* The copy of a capability takes its place.                               *)
LEMMA CopyFollowed ==
  ASSUME IInv, Ordered, Kin, Followed, NEW p \in Procs, Steady(p), Insert(p), pc[p] \in Copies
  PROVE  Followed'
<1> USE DEF IInv
<1>1. PICK s, d : s = src[p] /\ d = dst[p]
  OBVIOUS
<1>2. /\ s \in live /\ d \in Slots \ live /\ new[p] = cap[s] /\ pc[p] \in Busy \ Sources
      /\ cap' = [cap EXCEPT ![d] = cap[s]] /\ live' = live \union {d}
      /\ pc'[p] \in Sources /\ src'[p] = s
  <2>1. pc[p] \in {"move_insert", "xfer_insert"} /\ pc[p] \in Busy \ Sources
    BY DEF Insert, AfterInsert, Copies, Busy, Sources
  <2>2. s \in live /\ d \in Slots \ live /\ new[p] = cap[s]
    BY <1>1, <2>1 DEF Typed, Places, Place
  <2>3. cap' = [cap EXCEPT ![d] = cap[s]] /\ live' = live \union {d}
    BY <1>1, <2>2 DEF Insert, Link
  <2>4. pc'[p] \in Sources /\ src'[p] = s
    BY <1>1, <2>1 DEF Insert, AfterInsert, Continue, Goto, call, Typed, Sources
  <2> QED
    BY <2>1, <2>2, <2>3, <2>4
<1>3. s \in Held
  <2>1. \A r \in Procs : pc[r] \in Sources => src[r] # s
    BY <1>1, <1>2, CallsApart DEF Busy
  <2> QED
    BY <1>2, <2>1 DEF Held, Leaving, Sources
<1>4. Held' \subseteq (Held \ {s}) \union {d}
  <2>1. ASSUME NEW y \in Held'
        PROVE  y \in (Held \ {s}) \union {d}
    <3>1. /\ y \in live' /\ ~(pc'[p] \in Sources /\ src'[p] = y)
          /\ y \in live /\ ~(pc[p] \in Sources /\ src[p] = y) => y \in Held
      BY HeldAfter
    <3> QED
      BY <1>2, <3>1
  <2> QED
    BY <2>1
<1>5. cap'[d] = cap[s] /\ \A x \in Held : cap'[x] = cap[x] /\ x \in live /\ x # d /\ x \in Slots
  BY <1>2 DEF Held, Typed
<1>6. PICK phi : phi = [x \in Slots |-> IF x = d THEN s ELSE x]
  OBVIOUS
<1>7. phi[d] = s /\ \A x \in Held : phi[x] = x
  BY <1>2, <1>5, <1>6
<1>8. \A x \in Held' : phi[x] \in Held /\ cap'[x] = cap[phi[x]]
  BY <1>3, <1>4, <1>5, <1>7
<1>9. \A x, y \in Held' : phi[x] = phi[y] => x = y
  BY <1>4, <1>7
<1>10. ASSUME NEW x \in Held', NEW y \in Held'
       PROVE  Before(x, y)' <=> Before(phi[x], phi[y])
  <2>1. /\ \A a, b \in live : Before(a, b)' <=> Before(a, b)
        /\ \A a \in live : Before(a, d)' <=> a = s \/ Before(a, s)
        /\ \A b \in live : Before(d, b)' <=> Before(s, b)
        /\ ~Before(d, d)'
    BY <1>1, InsertBefore
  <2>2. ~Before(s, s)
    BY <1>2, BeforeOrders
  <2>3. CASE x = d /\ y = d
    BY <1>7, <2>1, <2>2, <2>3
  <2>4. CASE x = d /\ y # d
    BY <1>4, <1>5, <1>7, <2>1, <2>4
  <2>5. CASE x # d /\ y = d
    BY <1>4, <1>5, <1>7, <2>1, <2>5
  <2>6. CASE x # d /\ y # d
    BY <1>4, <1>5, <1>7, <2>1, <2>6
  <2> QED
    BY <2>3, <2>4, <2>5, <2>6
<1>11. ASSUME NEW q \in Procs, pc'[q] \in Fresh
       PROVE  /\ pc[q] \in Fresh /\ new'[q] = new[q] /\ src'[q] = src[q]
              /\ src[q] \in Held' /\ phi[src[q]] = src[q]
  <2>1. pc[q] \in Fresh /\ new'[q] = new[q] /\ src'[q] = src[q]
    BY <1>2, <1>11 DEF Steady, Busy, Fresh, Sources
  <2>2. src[q] \in Held
    BY <2>1, FreshSource
  <2>3. src[q] \in live'
    BY <1>2, <2>2 DEF Held
  <2>4. pc'[p] \in Sources => pc[p] \in Busy /\ src'[p] = src[p]
    BY <1>1, <1>2
  <2>5. src[q] \in Held'
    BY <1>11, <2>1, <2>3, <2>4, SourceStays
  <2> QED
    BY <1>7, <2>1, <2>2, <2>5
<1> QED
  BY <1>8, <1>9, <1>10, <1>11, Carried

----------------------------------------------------------------------------
(* The fresh child takes its place directly after its parent.              *)
LEMMA ChildFollowed ==
  ASSUME IInv, Ordered, Kin, Followed, NEW p \in Procs, Steady(p), Insert(p), pc[p] \in Fresh
  PROVE  Followed'
<1> USE DEF IInv
<1>1. PICK s, d, c : s = src[p] /\ d = dst[p] /\ c = new[p]
  OBVIOUS
<1>2. /\ s \in Held /\ s \in Slots /\ d \in Slots \ live /\ c \in Cap
      /\ pc[p] \in Busy /\ pc[p] = "insert"
  BY <1>1, FreshSource DEF Insert, AfterInsert, Fresh, Held, Typed, Places, Place, Busy
<1>3. /\ cap' = [cap EXCEPT ![d] = c] /\ live' = live \union {d}
      /\ pc'[p] \notin Fresh \union Sources
  BY <1>1, <1>2 DEF Insert, Link, AfterInsert, Continue, Goto, Typed, Fresh, Sources
<1>4. Held' \subseteq Held \union {d}
  BY <1>3, HeldAfter DEF Insert, AfterInsert, Sources
<1>5. cap'[d] = c
      /\ \A x \in Held : cap'[x] = cap[x] /\ x \in live /\ x # d /\ x \in Slots /\ cap[x] \in Cap
  BY <1>2, <1>3 DEF Held, Typed
<1>6. /\ \A x, y \in live : Before(x, y)' <=> Before(x, y)
      /\ \A x \in live : Before(x, d)' <=> x = s \/ Before(x, s)
      /\ \A y \in live : Before(d, y)' <=> Before(s, y)
      /\ ~Before(d, d)'
  BY <1>1, InsertBefore
<1>7. /\ \A x \in Held : Proper(cap[x])
      /\ \A x, y \in Held : x # y =>
           \/ Strangers(cap[x], cap[y])
           \/ cap_is_child(cap[x], cap[y])
           \/ cap_is_child(cap[y], cap[x])
  BY DEF Followed, FInv, Forest
<1>8. /\ Proper(c) /\ cap_is_child(cap[s], c) /\ ~cap_is_child(c, cap[s])
      /\ \A t \in Held \ {s} :
           \/ Strangers(c, cap[t])
           \/ /\ cap_is_child(cap[t], c) /\ ~cap_is_child(c, cap[t])
              /\ cap_is_child(cap[t], cap[s]) /\ Before(t, s)
  BY <1>1, <1>2 DEF Followed, FInv, Budding, Bud
<1>9. \A t \in Held : /\ \/ Strangers(c, cap[t]) /\ Strangers(cap[t], c)
                         \/ cap_is_child(cap[t], c)
                      /\ ~cap_is_child(c, cap[t])
                      /\ cap_is_child(cap[t], c) => t = s \/ (cap_is_child(cap[t], cap[s]) /\ Before(t, s))
  <2> TAKE t \in Held
  <2>1. CASE t = s
    BY <1>8, <2>1
  <2>2. CASE t # s /\ Strangers(c, cap[t])
    <3>1. ~cap_is_child(c, cap[t]) /\ ~cap_is_child(cap[t], c) /\ Strangers(cap[t], c)
      BY <1>2, <1>5, <1>7, <1>8, <2>2, StrangersApart
    <3> QED
      BY <2>2, <3>1
  <2>3. CASE t # s /\ ~Strangers(c, cap[t])
    BY <1>8, <2>3
  <2> QED
    BY <2>1, <2>2, <2>3
<1>10. Forest'
  <2>1. \A x \in Held' : Proper(cap'[x])
    BY <1>4, <1>5, <1>7, <1>8
  <2>2. ASSUME NEW x \in Held', NEW y \in Held', x # y
        PROVE  \/ Strangers(cap'[x], cap'[y])
               \/ cap_is_child(cap'[x], cap'[y])
               \/ cap_is_child(cap'[y], cap'[x])
    <3>1. CASE x = d
      BY <1>4, <1>5, <1>9, <2>2, <3>1
    <3>2. CASE y = d
      BY <1>4, <1>5, <1>9, <2>2, <3>2
    <3>3. CASE x # d /\ y # d
      BY <1>4, <1>5, <1>7, <2>2, <3>3
    <3> QED
      BY <3>1, <3>2, <3>3
  <2> QED
    BY <2>1, <2>2 DEF Forest
<1>11. Budding'
  <2>0. \A q \in Procs : pc'[q] \in Fresh =>
          q # p /\ pc[q] \in Fresh /\ new'[q] = new[q] /\ src'[q] = src[q]
    BY <1>3 DEF Steady, Busy
  <2>1. ASSUME NEW q \in Procs, NEW x \in Slots, pc'[q] \in Fresh, x = src'[q]
        PROVE  Bud(x, new[q])'
    <3>1. /\ q # p /\ pc[q] \in Fresh /\ new'[q] = new[q] /\ x = src[q] /\ x \in Held
      BY <2>0, <2>1, FreshSource
    <3>2. /\ Proper(new[q]) /\ cap_is_child(cap[x], new[q]) /\ ~cap_is_child(new[q], cap[x])
          /\ \A t \in Held \ {x} :
               \/ Strangers(new[q], cap[t])
               \/ /\ cap_is_child(cap[t], new[q]) /\ ~cap_is_child(new[q], cap[t])
                  /\ cap_is_child(cap[t], cap[x]) /\ Before(t, x)
      BY <3>1 DEF Followed, FInv, Budding, Bud
    <3>3. Strangers(new[q], c)
      BY <1>1, <1>2, <3>1 DEF Followed, FInv, Budding, Fresh
    <3>4. ASSUME NEW t \in Held', t # x
          PROVE  \/ Strangers(new[q], cap'[t])
                 \/ /\ cap_is_child(cap'[t], new[q]) /\ ~cap_is_child(new[q], cap'[t])
                    /\ cap_is_child(cap'[t], cap[x]) /\ Before(t, x)'
      <4>1. CASE t = d
        BY <1>5, <3>3, <4>1
      <4>2. CASE t # d
        BY <1>4, <1>5, <1>6, <3>1, <3>2, <3>4, <4>2
      <4> QED
        BY <4>1, <4>2
    <3> QED
      BY <1>5, <3>1, <3>2, <3>4 DEF Bud
  <2>2. \A q, r \in Procs :
          q # r /\ pc'[q] \in Fresh /\ pc'[r] \in Fresh => Strangers(new'[q], new'[r])
    BY <2>0 DEF Followed, FInv, Budding
  <2> QED
    BY <2>1, <2>2 DEF Budding
<1>12. \A x, y, z \in live :
         /\ ~Before(x, x)
         /\ Before(x, y) => ~Before(y, x)
         /\ Before(x, y) /\ Before(y, z) => Before(x, z)
  BY BeforeOrders
<1>13. \A x, y \in Held : x # y /\ cap_is_child(cap[x], cap[y]) =>
         \/ /\ Before(x, y)
            /\ \A m \in Held : Before(x, m) /\ Before(m, y) => cap_is_child(cap[x], cap[m])
         \/ Before(y, x) /\ cap_is_child(cap[y], cap[x])
  BY DEF Followed, ChildrenFollow
<1>14. \A x \in Held : cap_is_child(cap[x], cap[s]) => cap_is_child(cap[x], c)
  BY <1>2, <1>5, <1>7, <1>8, ChildTransitive
<1>15. ASSUME NEW x \in Held', NEW y \in Held', x # y, cap_is_child(cap'[x], cap'[y])
       PROVE  \/ /\ Before(x, y)'
                 /\ \A m \in Held' : Before(x, m)' /\ Before(m, y)' => cap_is_child(cap'[x], cap'[m])
              \/ Before(y, x)' /\ cap_is_child(cap'[y], cap'[x])
  <2>1. CASE x \in Held /\ y \in Held
    <3>1. cap_is_child(cap[x], cap[y])
      BY <1>5, <1>15, <2>1
    <3>2. CASE Before(y, x) /\ cap_is_child(cap[y], cap[x])
      BY <1>5, <1>6, <2>1, <3>2
    <3>3. CASE /\ Before(x, y)
               /\ \A m \in Held : Before(x, m) /\ Before(m, y) => cap_is_child(cap[x], cap[m])
      <4>1. ASSUME NEW m \in Held', Before(x, m)', Before(m, y)'
            PROVE  cap_is_child(cap'[x], cap'[m])
        <5>1. CASE m = d
          <6>1. x = s \/ (Before(x, s) /\ cap_is_child(cap[x], cap[s]))
            BY <1>2, <1>5, <1>6, <2>1, <3>3, <4>1, <5>1
          <6> QED
            BY <1>5, <1>8, <1>14, <2>1, <5>1, <6>1
        <5>2. CASE m # d
          BY <1>4, <1>5, <1>6, <2>1, <3>3, <4>1, <5>2
        <5> QED
          BY <5>1, <5>2
      <4>2. Before(x, y)'
        BY <1>5, <1>6, <2>1, <3>3
      <4> QED
        BY <4>1, <4>2
    <3> QED
      BY <1>13, <1>15, <2>1, <3>1, <3>2, <3>3
  <2>2. CASE x = d
    BY <1>4, <1>5, <1>9, <1>15, <2>2
  <2>3. CASE y = d /\ x \in Held
    <3>1. cap_is_child(cap[x], c)
      BY <1>5, <1>15, <2>3
    <3>2. CASE x = s
      <4>1. ASSUME NEW m \in Held', Before(x, m)', Before(m, y)'
            PROVE  FALSE
        <5>1. m \in Held
          BY <1>4, <1>6, <2>3, <4>1
        <5> QED
          BY <1>2, <1>5, <1>6, <1>12, <2>3, <3>2, <4>1, <5>1
      <4> QED
        BY <1>5, <1>6, <2>3, <3>2, <4>1
    <3>3. CASE x # s
      <4>1. cap_is_child(cap[x], cap[s]) /\ Before(x, s)
        BY <1>9, <2>3, <3>1, <3>3
      <4>2. \A m \in Held : Before(x, m) /\ Before(m, s) => cap_is_child(cap[x], cap[m])
        BY <1>2, <1>5, <1>12, <1>13, <2>3, <3>3, <4>1
      <4>3. Before(x, y)'
        BY <1>5, <1>6, <2>3, <4>1
      <4>4. ASSUME NEW m \in Held', Before(x, m)', Before(m, y)'
            PROVE  cap_is_child(cap'[x], cap'[m])
        <5>1. m \in Held
          BY <1>4, <1>6, <2>3, <4>4
        <5>2. Before(x, m) /\ (m = s \/ Before(m, s))
          BY <1>5, <1>6, <2>3, <4>4, <5>1
        <5> QED
          BY <1>5, <2>3, <4>1, <4>2, <5>1, <5>2
      <4> QED
        BY <4>3, <4>4
    <3> QED
      BY <3>2, <3>3
  <2> QED
    BY <1>4, <2>1, <2>2, <2>3
<1>16. ChildrenFollow'
  BY <1>15 DEF ChildrenFollow
<1> QED
  BY <1>10, <1>11, <1>16 DEF Followed, FInv

----------------------------------------------------------------------------
(* A derivation lets the parent grow over its new child only.              *)
LEMMA DeriveFollowed ==
  ASSUME IInv, Ordered, Followed, NEW p \in Procs, NEW s \in Table(p), NEW t \in Table(p),
         NEW c \in Words, Derive(p, s, t, c), Steady(p)
  PROVE  Followed'
<1> USE DEF IInv
<1>1. PICK u : u = derive_update_cap(cap[s], c)
  OBVIOUS
<1>2. /\ pc[p] = "user" /\ pc'[p] = "hook" /\ new'[p] = c /\ src'[p] = s
      /\ s \in live /\ live' = live /\ cap[s] \in Cap /\ c \in Cap
      /\ cap_can_derive(cap[s], c) /\ cap' = [cap EXCEPT ![s] = u]
      /\ UNCHANGED order
  BY <1>1, CapsAssumption DEF Derive, User, Call, Goto, Typed
<1>3. s \in Slots /\ s[1] = p
  BY DEF Table
<1>4. \A q \in Procs : pc[q] \in Busy => src[q] # s
  BY <1>2, <1>3, Reaches DEF Busy, Sources, Copies, Fresh
<1>5. s \in Held
  BY <1>2, <1>4 DEF Held, Leaving, Sources, Busy
<1>6. Held' \subseteq Held
  BY <1>2, HeldAfter DEF Sources
<1>7. cap'[s] = u /\ \A y \in Held \ {s} : cap'[y] = cap[y]
  BY <1>2, <1>3 DEF Typed, Held
<1>8. /\ \A x \in Held : Proper(cap[x]) /\ cap[x] \in Cap /\ x \in Slots
      /\ \A x, y \in Held : x # y =>
           \/ Strangers(cap[x], cap[y])
           \/ cap_is_child(cap[x], cap[y])
           \/ cap_is_child(cap[y], cap[x])
  BY DEF Followed, FInv, Forest, Held, Typed
<1>9. ASSUME NEW d \in Cap, Proper(d)
      PROVE  /\ u \in Cap /\ Proper(u) /\ Proper(c) /\ cap_is_child(u, c) /\ ~cap_is_child(c, u)
             /\ Strangers(cap[s], d) => Strangers(u, d) /\ Strangers(c, d)
             /\ cap_is_child(cap[s], d) => cap_is_child(u, d) /\ Strangers(c, d)
             /\ cap_is_child(d, cap[s]) <=> cap_is_child(d, u)
             /\ cap_is_child(d, cap[s]) => cap_is_child(d, c) /\ ~cap_is_child(c, d)
  BY <1>1, <1>2, <1>5, <1>8, <1>9, Graft
<1>10. u \in Cap /\ Proper(u) /\ Proper(c) /\ cap_is_child(u, c) /\ ~cap_is_child(c, u)
  BY <1>5, <1>8, <1>9
<1>11. ASSUME NEW d \in Cap, Proper(d), Strangers(d, cap[s])
       PROVE  Strangers(d, u) /\ Strangers(d, c) /\ ~cap_is_child(u, d)
  <2>1. Strangers(cap[s], d)
    BY <1>2, <1>5, <1>8, <1>11, StrangersApart
  <2>2. Strangers(u, d) /\ Strangers(c, d)
    BY <1>9, <1>11, <2>1
  <2> QED
    BY <1>2, <1>10, <1>11, <2>2, StrangersApart
<1>12. \A x, y : Before(x, y)' <=> Ahead(order[Family(cap'[x])], x, y)
  BY <1>2 DEF Before
<1>13. \A x \in Held : \A y : Before(x, y)' <=> Before(x, y)
  <2>1. Family(u) = Family(cap[s])
    BY <1>1, <1>2, DeriveFamily
  <2>2. \A x \in Held : Family(cap'[x]) = Family(cap[x])
    BY <1>7, <2>1
  <2> QED
    BY <1>12, <2>2 DEF Before
<1>14. \A x, y \in Held : x # y /\ cap_is_child(cap[x], cap[y]) =>
         \/ /\ Before(x, y)
            /\ \A m \in Held : Before(x, m) /\ Before(m, y) => cap_is_child(cap[x], cap[m])
         \/ Before(y, x) /\ cap_is_child(cap[y], cap[x])
  BY DEF Followed, ChildrenFollow
(* What were children still are, and the parent gains only capabilities    *)
(* that it is a child of.                                                  *)
<1>15. ASSUME NEW x \in Held, NEW y \in Held, x # y
       PROVE  /\ cap_is_child(cap[x], cap[y]) => cap_is_child(cap'[x], cap'[y])
              /\ cap_is_child(cap'[x], cap'[y]) =>
                   \/ cap_is_child(cap[x], cap[y])
                   \/ cap_is_child(cap[y], cap[x]) /\ ~cap_is_child(cap[x], cap[y])
  <2>1. CASE x = s
    <3>1. Strangers(cap[x], cap[y]) => ~cap_is_child(u, cap[y])
      <4>1. cap[y] \in Cap /\ Proper(cap[y])
        BY <1>8
      <4> QED
        BY <1>9, <1>10, <2>1, <4>1, StrangersApart
    <3> QED
      BY <1>7, <1>8, <1>9, <1>15, <2>1, <3>1
  <2>2. CASE y = s
    BY <1>7, <1>8, <1>9, <1>15, <2>2
  <2>3. CASE x # s /\ y # s
    BY <1>7, <1>15, <2>3
  <2> QED
    BY <2>1, <2>2, <2>3
<1>16. Forest'
  <2>1. \A x \in Held' : Proper(cap'[x])
    BY <1>6, <1>7, <1>8, <1>10
  <2>2. ASSUME NEW x \in Held', NEW y \in Held', x # y
        PROVE  \/ Strangers(cap'[x], cap'[y])
               \/ cap_is_child(cap'[x], cap'[y])
               \/ cap_is_child(cap'[y], cap'[x])
    <3>1. x \in Held /\ y \in Held
      BY <1>6
    <3>2. CASE Strangers(cap[x], cap[y])
      <4>1. CASE x = s
        BY <1>7, <1>8, <1>9, <2>2, <3>1, <3>2, <4>1
      <4>2. CASE y = s
        BY <1>7, <1>8, <1>11, <2>2, <3>1, <3>2, <4>2
      <4>3. CASE x # s /\ y # s
        BY <1>7, <3>1, <3>2, <4>3
      <4> QED
        BY <4>1, <4>2, <4>3
    <3> QED
      BY <1>8, <1>15, <2>2, <3>1, <3>2
  <2> QED
    BY <2>1, <2>2 DEF Forest
<1>17. \A q \in Procs : q # p /\ pc'[q] \in Fresh =>
         pc[q] \in Fresh /\ new'[q] = new[q] /\ src'[q] = src[q]
  BY DEF Steady, Busy
<1>18. ASSUME NEW q \in Procs, pc[q] \in Fresh
       PROVE  /\ new[q] \in Cap /\ Proper(new[q])
              /\ Strangers(new[q], c) /\ Strangers(c, new[q])
  <2>1. PICK x : x = src[q]
    OBVIOUS
  <2>2. x # s /\ x \in Held /\ new[q] \in Cap
    BY <1>4, <1>18, <2>1, FreshSource DEF Busy, Places, Place
  <2>3. Bud(x, new[q])
    BY <1>8, <1>18, <2>1, <2>2 DEF Followed, FInv, Budding
  <2>4. /\ Proper(new[q])
        /\ Strangers(new[q], cap[s]) \/ cap_is_child(cap[s], new[q])
    BY <1>5, <2>2, <2>3 DEF Bud
  <2>5. CASE Strangers(new[q], cap[s])
    <3>1. Strangers(new[q], c)
      BY <1>11, <2>2, <2>4, <2>5
    <3> QED
      BY <1>2, <1>10, <2>2, <2>4, <3>1, StrangersApart
  <2>6. CASE cap_is_child(cap[s], new[q])
    <3>1. Strangers(c, new[q])
      BY <1>9, <2>2, <2>4, <2>6
    <3> QED
      BY <1>2, <1>10, <2>2, <2>4, <3>1, StrangersApart
  <2> QED
    BY <2>4, <2>5, <2>6
<1>19. Budding'
  <2>1. ASSUME NEW q \in Procs, NEW x \in Slots, pc'[q] \in Fresh, x = src'[q], q # p
        PROVE  Bud(x, new[q])'
    <3>1. pc[q] \in Fresh /\ new'[q] = new[q] /\ x = src[q]
      BY <1>17, <2>1
    <3>2. x # s /\ x \in Held /\ cap'[x] = cap[x] /\ cap[x] \in Cap /\ Proper(cap[x])
      BY <1>4, <1>7, <1>8, <3>1, FreshSource DEF Busy
    <3>3. /\ Proper(new[q]) /\ cap_is_child(cap[x], new[q]) /\ ~cap_is_child(new[q], cap[x])
          /\ \A y \in Held \ {x} :
               \/ Strangers(new[q], cap[y])
               \/ /\ cap_is_child(cap[y], new[q]) /\ ~cap_is_child(new[q], cap[y])
                  /\ cap_is_child(cap[y], cap[x]) /\ Before(y, x)
      BY <3>1, <3>2 DEF Followed, FInv, Budding, Bud
    <3>4. ASSUME NEW y \in Held', y # x
          PROVE  \/ Strangers(new[q], cap'[y])
                 \/ /\ cap_is_child(cap'[y], new[q]) /\ ~cap_is_child(new[q], cap'[y])
                    /\ cap_is_child(cap'[y], cap[x]) /\ Before(y, x)'
      <4>1. y \in Held
        BY <1>6
      <4>2. CASE y # s
        BY <1>7, <1>13, <3>3, <3>4, <4>1, <4>2
      <4>3. CASE y = s /\ Strangers(new[q], cap[s])
        BY <1>7, <1>11, <1>18, <3>1, <4>3
      <4>4. CASE y = s /\ ~Strangers(new[q], cap[s])
        <5>1. /\ cap_is_child(cap[s], new[q]) /\ ~cap_is_child(new[q], cap[s])
              /\ cap_is_child(cap[s], cap[x]) /\ Before(s, x)
          BY <3>3, <3>4, <4>1, <4>4
        <5>2. cap_is_child(u, new[q]) /\ ~cap_is_child(new[q], u)
          BY <1>9, <1>18, <3>1, <5>1
        <5>3. cap_is_child(u, cap[x])
          BY <1>9, <3>2, <5>1
        <5> QED
          BY <1>5, <1>7, <1>13, <4>4, <5>1, <5>2, <5>3
      <4> QED
        BY <4>2, <4>3, <4>4
    <3> QED
      BY <3>1, <3>2, <3>3, <3>4 DEF Bud
  <2>2. Bud(s, new[p])'
    <3>1. ASSUME NEW y \in Held', y # s
          PROVE  \/ Strangers(c, cap'[y])
                 \/ /\ cap_is_child(cap'[y], c) /\ ~cap_is_child(c, cap'[y])
                    /\ cap_is_child(cap'[y], u) /\ Before(y, s)'
      <4>1. y \in Held /\ cap'[y] = cap[y] /\ cap[y] \in Cap /\ Proper(cap[y])
        BY <1>6, <1>7, <1>8, <3>1
      <4>2. CASE Strangers(cap[s], cap[y]) \/ cap_is_child(cap[s], cap[y])
        BY <1>9, <4>1, <4>2
      <4>3. CASE cap_is_child(cap[y], cap[s]) /\ ~cap_is_child(cap[s], cap[y])
        <5>1. Before(y, s)
          BY <1>5, <1>14, <3>1, <4>1, <4>3
        <5> QED
          BY <1>9, <1>13, <4>1, <4>3, <5>1
      <4> QED
        BY <1>5, <1>8, <3>1, <4>1, <4>2, <4>3
    <3> QED
      BY <1>2, <1>7, <1>10, <3>1 DEF Bud
  <2>3. ASSUME NEW q \in Procs, NEW r \in Procs, q # r, pc'[q] \in Fresh, pc'[r] \in Fresh
        PROVE  Strangers(new'[q], new'[r])
    <3>1. CASE q = p
      BY <1>2, <1>17, <1>18, <2>3, <3>1
    <3>2. CASE r = p
      BY <1>2, <1>17, <1>18, <2>3, <3>2
    <3>3. CASE q # p /\ r # p
      BY <1>17, <2>3, <3>3 DEF Followed, FInv, Budding
    <3> QED
      BY <3>1, <3>2, <3>3
  <2> QED
    BY <1>2, <2>1, <2>2, <2>3 DEF Budding
<1>20. ASSUME NEW x \in Held', NEW y \in Held', x # y, cap_is_child(cap'[x], cap'[y])
       PROVE  \/ /\ Before(x, y)'
                 /\ \A m \in Held' : Before(x, m)' /\ Before(m, y)' => cap_is_child(cap'[x], cap'[m])
              \/ Before(y, x)' /\ cap_is_child(cap'[y], cap'[x])
  <2>1. x \in Held /\ y \in Held
    BY <1>6
  <2>2. CASE ~cap_is_child(cap[x], cap[y])
    <3>1. cap_is_child(cap[y], cap[x]) /\ Before(y, x)
      BY <1>14, <1>15, <1>20, <2>1, <2>2
    <3> QED
      BY <1>13, <1>15, <1>20, <2>1, <3>1
  <2>3. CASE Before(y, x) /\ cap_is_child(cap[y], cap[x])
    BY <1>13, <1>15, <1>20, <2>1, <2>3
  <2>4. CASE /\ Before(x, y)
             /\ \A m \in Held : Before(x, m) /\ Before(m, y) => cap_is_child(cap[x], cap[m])
    <3>1. ASSUME NEW m \in Held', Before(x, m)', Before(m, y)'
          PROVE  cap_is_child(cap'[x], cap'[m])
      <4>1. m \in Held /\ cap_is_child(cap[x], cap[m])
        BY <1>6, <1>13, <2>1, <2>4, <3>1
      <4>2. m # x
        BY <1>13, <2>1, <3>1, BeforeOrders DEF Held
      <4> QED
        BY <1>15, <2>1, <4>1, <4>2
    <3> QED
      BY <1>13, <2>1, <2>4, <3>1
  <2> QED
    BY <1>14, <1>20, <2>1, <2>2, <2>3, <2>4
<1>21. ChildrenFollow'
  BY <1>20 DEF ChildrenFollow
<1> QED
  BY <1>16, <1>19, <1>21 DEF Followed, FInv

----------------------------------------------------------------------------
(* The capabilities of the boot have nothing in common.                    *)
LEMMA BootStrangers ==
  ASSUME NEW i \in DOMAIN Boot, NEW j \in DOMAIN Boot, i # j
  PROVE  Strangers(Boot[i], Boot[j])
<1>1. PICK c, d : c = Boot[i] /\ d = Boot[j]
  OBVIOUS
<1>2. /\ c \in Cap /\ d \in Cap /\ Apart(c, d)
      /\ c.type \in Families /\ c.free = c.begin /\ c.begin < c.end
      /\ d.type \in Families /\ d.free = d.begin /\ d.begin < d.end
  BY <1>1, CapsAssumption, BootAssumption
<1>3. /\ c.begin \in Nat /\ c.end \in Nat /\ d.begin \in Nat /\ d.end \in Nat
  BY <1>2 DEF Cap, TimeCap, ChannelsCap, SupervisorCap, EndpointCap, Families, Endpoints
<1>4. SUFFICES ASSUME SameLine(c, d), d.begin < c.end, c.begin < d.end PROVE FALSE
  BY <1>1, <1>2, <1>3, Territory DEF Strangers, Clear
<1>5. c.type = d.type
  BY <1>2, <1>4, Territory DEF SameLine
<1>6. PICK n \in Nat : c.begin <= n /\ n < c.end /\ d.begin <= n /\ n < d.end
  <2>1. CASE c.begin <= d.begin
    BY <1>2, <1>3, <1>4, <2>1
  <2>2. CASE d.begin <= c.begin
    BY <1>2, <1>3, <1>4, <2>2
  <2> QED
    BY <1>3, <2>1, <2>2
<1>7. CASE c.type = "time"
  <2>1. /\ c.end = NQuantum /\ c.hartid \in HartIds /\ c.hartid = d.hartid /\ NQuantum \in Nat
    BY <1>1, <1>4, <1>7, BootAssumption, CapsAssumption DEF SameLine
  <2>2. n \in Quanta
    BY <1>6, <2>1 DEF Quanta
  <2>3. OwnsQuantum(c, c.hartid, n) /\ OwnsQuantum(d, c.hartid, n)
    BY <1>2, <1>5, <1>6, <1>7, <2>1 DEF OwnsQuantum
  <2> QED
    BY <1>2, <2>1, <2>2, <2>3 DEF Apart
<1>8. CASE c.type = "channels"
  <2>1. c.end <= NChannels /\ NChannels \in Nat
    BY <1>1, <1>8, BootAssumption, CapsAssumption
  <2>2. n \in Channels
    BY <1>3, <1>6, <2>1 DEF Channels
  <2>3. OwnsChannel(c, n) /\ OwnsChannel(d, n)
    BY <1>2, <1>5, <1>6, <1>8 DEF OwnsChannel
  <2> QED
    BY <1>2, <2>2, <2>3 DEF Apart
<1>9. CASE c.type = "supervisor"
  <2>1. c.begin .. c.end - 1 \subseteq Procs
    BY <1>1, <1>9, BootAssumption
  <2>2. n \in Procs
    BY <1>3, <1>6, <2>1
  <2>3. OwnsPid(c, n) /\ OwnsPid(d, n)
    BY <1>2, <1>5, <1>6, <1>9 DEF OwnsPid
  <2> QED
    BY <1>2, <2>2, <2>3 DEF Apart
<1> QED
  BY <1>2, <1>7, <1>8, <1>9 DEF Families

LEMMA InitFollowed == Init => Followed
<1> SUFFICES ASSUME Init PROVE Followed
  OBVIOUS
<1>1. Held \subseteq {<<0, i>> : i \in DOMAIN Boot}
  BY DEF Init, Held
<1>2. \A i \in DOMAIN Boot : cap[<<0, i>>] = Boot[i]
  BY CapsAssumption DEF Init
<1>3. \A i \in DOMAIN Boot : Boot[i] \in Cap /\ Proper(Boot[i])
  <2> TAKE i \in DOMAIN Boot
  <2>1. /\ Boot[i] \in Cap /\ Boot[i].type \in Families
        /\ Boot[i].free = Boot[i].begin /\ Boot[i].begin < Boot[i].end
    BY CapsAssumption, BootAssumption
  <2>2. Boot[i].begin \in Nat /\ Boot[i].end \in Nat
    BY <2>1 DEF Cap, TimeCap, ChannelsCap, SupervisorCap, EndpointCap, Families, Endpoints
  <2> QED
    BY <2>1, <2>2 DEF Proper
<1>4. \A x \in Held : Proper(cap[x]) /\ cap[x] \in Cap
  BY <1>1, <1>2, <1>3
<1>5. \A x, y \in Held : x # y => Strangers(cap[x], cap[y])
  BY <1>1, <1>2, BootStrangers
<1>6. Forest
  BY <1>4, <1>5 DEF Forest
<1>7. Budding
  BY DEF Init, Budding, Fresh
<1>8. ChildrenFollow
  BY <1>4, <1>5, StrangersApart DEF ChildrenFollow
<1> QED
  BY <1>6, <1>7, <1>8 DEF Followed, FInv

LEMMA FollowedStep ==
  ASSUME IInv, Ordered, Kin, Followed, NEW p \in Procs, Step(p)
  PROVE  Followed'
<1>s. Steady(p)
  BY Frame
<1>t. pc \in [Procs -> Labels]
  BY DEF IInv, Typed
<1>1. ASSUME NEW s \in Table(p), NEW t \in Table(p), NEW c \in Words, Derive(p, s, t, c)
      PROVE  Followed'
  BY <1>s, <1>1, DeriveFollowed
<1>2. ASSUME NEW s \in Table(p), Delete(p, s)
      PROVE  Followed'
  <2>1. /\ s \in live /\ Unlink(s) /\ pc[p] = "user" /\ s[1] = p
        /\ pc'[p] \notin Sources \union Fresh
    BY <1>2, <1>t DEF Delete, User, Goto, Table, Sources, Fresh
  <2> QED
    BY <1>s, <2>1, UnlinkFollowed
<1>3. CASE DeleteSource(p)
  <2>1. PICK s : s = src[p]
    OBVIOUS
  <2>2. pc[p] \in Sources /\ s \in live /\ Unlink(s)
    BY <1>3, <2>1 DEF DeleteSource, Sources, Busy, IInv, Places, Place
  <2>3. pc'[p] \notin Sources \union Fresh
    BY <1>3, <1>t DEF DeleteSource, Continue, Goto, Sources, Fresh
  <2> QED
    BY <1>s, <2>1, <2>2, <2>3, UnlinkFollowed
<1>4. CASE Insert(p)
  <2>1. pc[p] \in Copies \/ pc[p] \in Fresh
    BY <1>4 DEF Insert, AfterInsert, Copies, Fresh
  <2> QED
    BY <1>s, <1>4, <2>1, CopyFollowed, ChildFollowed
<1>5. ASSUME UNCHANGED <<cap, live, order>>, pc[p] \notin Sources, pc'[p] \notin Sources,
             pc'[p] \in Fresh => pc[p] \in Fresh /\ new'[p] = new[p] /\ src'[p] = src[p]
      PROVE  Followed'
  <2>1. Held' \subseteq Held
    BY <1>s, <1>5, HeldAfter
  <2>2. \A x, y \in Held' : Before(x, y)' <=> Before(x, y)
    BY <1>5 DEF Before
  <2>3. ASSUME NEW q \in Procs, pc'[q] \in Fresh
        PROVE  src[q] \in live'
    <3>1. pc[q] \in Fresh
      BY <1>s, <1>5, <2>3 DEF Steady, Busy
    <3> QED
      BY <1>5, <3>1, FreshSource DEF Held
  <2> QED
    BY <1>s, <1>5, <2>1, <2>2, <2>3, KeptFollowed
<1>6. CASE Hook(p) /\ HookAsserts(new[p])
  <2>1. UNCHANGED <<cap, live, order>> /\ pc[p] \notin Sources
    BY <1>6 DEF Hook, AfterHook, Sources
  <2>2. /\ pc'[p] \notin Sources
        /\ pc'[p] \in Fresh => pc[p] \in Fresh /\ new'[p] = new[p] /\ src'[p] = src[p]
    BY <1>6, <1>t DEF Hook, AfterHook, Continue, Goto, call, Fresh, Sources
  <2> QED
    BY <1>5, <2>1, <2>2
<1>7. CASE Quiet(p)
  BY <1>5, <1>7 DEF Quiet
<1> QED
  BY <1>1, <1>2, <1>3, <1>4, <1>6, <1>7, Kinds

LEMMA FollowedInvariance ==
  IInv /\ Ordered /\ Kin /\ Followed /\ [Next]_vars => Followed'
<1> SUFFICES ASSUME IInv, Ordered, Kin, Followed, [Next]_vars PROVE Followed'
  OBVIOUS
<1>1. ASSUME NEW p \in Procs, Step(p)
      PROVE  Followed'
  BY <1>1, FollowedStep
<1>2. CASE UNCHANGED vars
  <2>1. /\ Held' = Held /\ UNCHANGED <<cap, pc, src, new>>
        /\ \A x, y : Before(x, y)' <=> Before(x, y)
    BY <1>2 DEF vars, Held, Leaving, Before
  <2>2. Forest' /\ Budding'
    BY <2>1 DEF Followed, FInv, Forest, Budding, Bud
  <2>3. ChildrenFollow'
    BY <2>1 DEF Followed, ChildrenFollow
  <2> QED
    BY <2>2, <2>3 DEF Followed, FInv
<1> QED
  BY <1>1, <1>2 DEF Next

(* syscall_revoke_cap stops at the first node that is not a child: whatever*)
(* calls are interleaved, a derived node goes directly after its parent    *)
(* (cap_node_insert), copies keep their place, and so the children of a    *)
(* capability directly follow it.                                          *)
THEOREM ChildrenStayBehind == Spec => []ChildrenFollow
<1>1. Followed => ChildrenFollow
  BY DEF Followed
<1> QED
  BY InitIInv, Invariance, InitOrdered, ListsInvariance, InitFollowed, FollowedInvariance,
     <1>1, PTL DEF Spec
=============================================================================
