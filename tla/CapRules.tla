------------------------------ MODULE CapRules ------------------------------
(***************************************************************************)
(* The rules on capabilities: which capability may be derived from which,  *)
(* which is the child of which (the predicates of gen/cap.yml, generated   *)
(* into api/s3k_cap.h), and how the parent changes (src/syscall.c).  Pure  *)
(* operators on records; a field is a number of the width that cap.yml     *)
(* gives it, and every field of a user's word is checked before it counts. *)
(***************************************************************************)
EXTENDS Integers

(* Types with a range that is split among children from `free' upwards.    *)
Ranged    == {"memory", "time", "channels", "supervisor"}
Endpoints == {"receiver", "sender", "server", "client"}
Grants    == {0, 1}

NULL_CAP == [type |-> "empty", asserts |-> FALSE]
cap_mk_time(h, b, e, f) ==
  [type |-> "time", hartid |-> h, begin |-> b, end |-> e, free |-> f]
cap_mk_channels(b, e, f) ==
  [type |-> "channels", begin |-> b, end |-> e, free |-> f]
cap_mk_supervisor(b, e, f) ==
  [type |-> "supervisor", begin |-> b, end |-> e, free |-> f]
cap_mk_end(t, ch, g) == [type |-> t, channel |-> ch, grant |-> g]

(* rwx is a set of rights; c:rwx & p:rwx == c:rwx is inclusion.            *)
Rights(c, p) == c.rwx \subseteq p.rwx

(* addr & (addr + 1) and addr | (addr + 1), where Block is the number of   *)
(* pages of the NAPOT region: the largest power of two that divides addr+1.*)
Powers == {1, 2, 4, 8, 16, 32, 64, 128}
Block(addr) == CHOOSE b \in Powers : /\ (addr + 1) % b = 0
                                     /\ (addr + 1) % (2 * b) # 0
pmp_napot_begin(addr) == addr - (Block(addr) - 1)
pmp_napot_end(addr)   == addr + Block(addr)

----------------------------------------------------------------------------
(* The range of c lies in what p has given out; the channel of c does.     *)
Within(p, c)        == p.begin <= c.begin /\ c.end <= p.free
ChannelWithin(p, c) == p.begin <= c.channel /\ c.channel < p.free

cap_is_child(p, c) ==
  \/ /\ p.type = "memory" /\ c.type = "memory"
     /\ Within(p, c) /\ Rights(c, p)
  \/ /\ p.type = "memory" /\ c.type = "pmp"
     /\ p.free <= pmp_napot_begin(c.addr) /\ pmp_napot_end(c.addr) <= p.end
     /\ p.pmp = 1 /\ Rights(c, p)
  \/ /\ p.type = "time" /\ c.type = "time"
     /\ Within(p, c) /\ p.hartid = c.hartid
  \/ p.type = "channels" /\ c.type = "channels" /\ Within(p, c)
  \/ p.type = "channels" /\ c.type \in Endpoints /\ ChannelWithin(p, c)
  \/ p.type = "receiver" /\ c.type = "sender" /\ p.channel = c.channel
  \/ p.type = "server" /\ c.type = "client" /\ p.channel = c.channel
  \/ p.type = "supervisor" /\ c.type = "supervisor" /\ Within(p, c)

(* Mutant: a child may start anywhere in the parent's range.               *)
MutNextOf(p, c) ==
  /\ p.begin <= c.begin /\ c.end <= p.end
  /\ c.free = c.begin /\ c.begin < c.end

(* c starts where p is free, stays in p and has given out nothing.         *)
NextOf(p, c) ==
  /\ p.free = c.begin /\ c.end <= p.end
  /\ c.free = c.begin /\ c.begin < c.end

cap_can_derive(p, c) ==
  \/ /\ p.type = "memory" /\ c.type = "memory"
     /\ p.pmp = 0 /\ c.pmp = 0 /\ NextOf(p, c) /\ Rights(c, p)
  \/ /\ p.type = "memory" /\ c.type = "pmp"
     /\ p.free <= pmp_napot_begin(c.addr) /\ pmp_napot_end(c.addr) <= p.end
     /\ Rights(c, p)
  \/ /\ p.type = "time" /\ c.type = "time"
     /\ p.hartid = c.hartid /\ NextOf(p, c)
  \/ p.type = "channels" /\ c.type = "channels" /\ NextOf(p, c)
  \/ /\ p.type = "channels" /\ c.type \in {"receiver", "server"}
     /\ p.free = c.channel /\ c.channel < p.end /\ c.grant \in {0, 1}
  \/ /\ \/ p.type = "receiver" /\ c.type = "sender"
        \/ p.type = "server" /\ c.type = "client"
     /\ p.channel = c.channel /\ p.grant = c.grant
  \/ /\ p.type = "supervisor" /\ c.type = "supervisor"
     /\ p.free <= c.begin /\ c.end <= p.end
     /\ c.free = c.begin /\ c.begin < c.end

(* The parent after a derivation.  For a new capability that can_derive    *)
(* admits, the kassert(0) branches are never taken.                        *)
derive_update_cap(p, c) ==
  CASE p.type = "memory" /\ c.type = "pmp" -> [p EXCEPT !.pmp = 1]
    [] p.type = "channels" /\ c.type # "channels" ->
         [p EXCEPT !.free = c.channel + 1]
    [] p.type \in Ranged /\ c.type = p.type -> [p EXCEPT !.free = c.end]
    [] OTHER -> p

(* A deleted slot keeps its word, and syscall_revoke_cap reads it there.   *)
(* What matters of it is whether that call stops the hart: the branch of   *)
(* revoke_update_cap for channels calls accessors of time capabilities,    *)
(* whose kassert fails, and sched_update asserts begin < end.  If it does  *)
(* not, revoke_update_cap leaves a word that does not either.              *)
Stale(c) == [type |-> "empty",
             asserts |-> \/ c.type = "channels"
                         \/ c.type = "time" /\ c.free = c.end]

----------------------------------------------------------------------------
(* Cap has the capabilities of a system without memory capabilities:       *)
(* proc_init makes none, and they are derived from their own kind only.    *)
TimeCap       == [type : {"time"}, hartid : Nat, begin : Nat, end : Nat, free : Nat]
ChannelsCap   == [type : {"channels"}, begin : Nat, end : Nat, free : Nat]
SupervisorCap == [type : {"supervisor"}, begin : Nat, end : Nat, free : Nat]
EndpointCap   == [type : Endpoints, channel : Nat, grant : Nat]
Cap           == TimeCap \union ChannelsCap \union SupervisorCap \union EndpointCap
MemoryCap     == [type : {"memory"}, begin : Nat, end : Nat, free : Nat,
                  rwx : SUBSET {"r", "w", "x"}, pmp : {0, 1}]
PmpCap        == [type : {"pmp"}, addr : Nat, rwx : SUBSET {"r", "w", "x"}]
EmptyCap      == [type : {"empty"}, asserts : BOOLEAN]

(* What a capability gives its holder and no other.                        *)
OwnsQuantum(c, h, q) ==
  c.type = "time" /\ c.hartid = h /\ c.free <= q /\ q < c.end
OwnsChannel(c, ch) ==
  \/ c.type = "channels" /\ c.free <= ch /\ ch < c.end
  \/ c.type \in {"receiver", "server"} /\ c.channel = ch
(* The test of syscall_invoke_supervisor.                                  *)
OwnsPid(c, n) == c.type = "supervisor" /\ c.free <= n /\ n < c.end
=============================================================================
