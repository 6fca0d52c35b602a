------------------------------ MODULE CapList ------------------------------
(***************************************************************************)
(* The doubly linked list of capabilities (inc/cap_node.h), changed by     *)
(* several harts without a lock.  A node is live when its prev is not      *)
(* NULL.  One action per access to shared memory.                          *)
(*                                                                         *)
(* A hart works only on slots of processes it holds (Harts!Exclusive), so  *)
(* no two harts are given the same slot; their nodes are neighbours in the *)
(* list all the same.                                                      *)
(***************************************************************************)
EXTENDS NodeList

CONSTANTS
  Harts,
  Nodes,      \* the slots of the capability tables
  Sentinel,   \* the node at the beginning and end of the list
  Null,
  InitList,   \* process 0's capabilities after boot, in list order
  Calls       \* Calls[h]: which of the calls the processes of hart h make

ASSUME CapListAssumption ==
  /\ IsFiniteSet(Nodes)
  /\ Sentinel \notin Nodes /\ Null \notin Nodes \union {Sentinel}
  /\ InitList \in Seq(Nodes) /\ IsInjective(InitList)
  /\ Calls \in [Harts -> SUBSET {"derive", "move", "delete"}]

VARIABLES
  prev, next,  \* the links of every node
  pc, op,      \* where hart h is, and in which operation
  src, dst,    \* insert: the parent and the new node; delete: src
  pred, succ,  \* the locals prev (of delete) and next
  met          \* history: operations have met that undo each other's next

links == <<prev, next, pc, op, src, dst, pred, succ>>
vars  == <<links, met>>

Links == Nodes \union {Sentinel, Null}

(* After make_sentinel and the insertions of proc_init. *)
Init ==
  LET at(i) == IF i \in DOMAIN InitList THEN InitList[i] ELSE Sentinel
      place(n) == CHOOSE i \in DOMAIN InitList : InitList[i] = n
      live == ToSet(InitList)
  IN /\ prev = [n \in Nodes \union {Sentinel} |->
                  IF n = Sentinel THEN at(Len(InitList))
                  ELSE IF n \in live THEN at(place(n) - 1) ELSE Null]
     /\ next = [n \in Nodes \union {Sentinel} |->
                  IF n = Sentinel THEN at(1)
                  ELSE IF n \in live THEN at(place(n) + 1) ELSE Null]
     /\ pc = [h \in Harts |-> "idle"]
     /\ op = [h \in Harts |-> "none"]
     /\ src = [h \in Harts |-> Null] /\ dst = [h \in Harts |-> Null]
     /\ pred = [h \in Harts |-> Null] /\ succ = [h \in Harts |-> Null]
     /\ met = FALSE

is_deleted(n) == prev[n] = Null
Goto(h, l)    == pc' = [pc EXCEPT ![h] = l]
Held(h)       == IF pc[h] = "idle" THEN {} ELSE {src[h], dst[h]}
Free          == Nodes \ UNION {Held(h) : h \in Harts}

(* The locals of the operation are gone when it returns.                   *)
Return(h) ==
  /\ Goto(h, "idle")
  /\ op' = [op EXCEPT ![h] = "none"]
  /\ src' = [src EXCEPT ![h] = Null] /\ dst' = [dst EXCEPT ![h] = Null]
  /\ pred' = [pred EXCEPT ![h] = Null] /\ succ' = [succ EXCEPT ![h] = Null]

compare_and_set_prev(n, expected, desired) ==
  /\ prev[n] = expected
  /\ prev' = [prev EXCEPT ![n] = desired]

----------------------------------------------------------------------------
(* Mutant: the first load of next is forgotten. *)
MutStartInsert(h, o, s, d) ==
  /\ pc[h] = "idle"
  /\ ~is_deleted(s) /\ is_deleted(d)
  /\ op' = [op EXCEPT ![h] = o]
  /\ src' = [src EXCEPT ![h] = s]
  /\ dst' = [dst EXCEPT ![h] = d]
  /\ Goto(h, "point")
  /\ UNCHANGED <<prev, next, pred, succ>>

(* cap_node_insert: syscall_derive_cap inserts a child after its parent,   *)
(* cap_node_move a copy after the node that it then deletes.               *)
StartInsert(h, o, s, d) ==
  /\ pc[h] = "idle"
  /\ ~is_deleted(s) /\ is_deleted(d)
  /\ op' = [op EXCEPT ![h] = o]
  /\ src' = [src EXCEPT ![h] = s]
  /\ dst' = [dst EXCEPT ![h] = d]
  /\ Goto(h, "load_next")
  /\ UNCHANGED <<prev, next, pred, succ>>

Derive(h, s, d) == "derive" \in Calls[h] /\ StartInsert(h, "derive", s, d)
Move(h, s, d)   == "move" \in Calls[h] /\ StartInsert(h, "move", s, d)

LoadNext(h) ==
  /\ pc[h] = "load_next"
  /\ succ' = [succ EXCEPT ![h] = next[src[h]]]
  /\ Goto(h, "point")
  /\ UNCHANGED <<prev, next, op, src, dst, pred>>

(* The loop ends if the parent is gone; else the new node points ahead.    *)
Point(h) ==
  /\ pc[h] = "point"
  /\ IF is_deleted(src[h])
     THEN Return(h) /\ UNCHANGED next
     ELSE /\ Goto(h, "link")
          /\ next' = [next EXCEPT ![dst[h]] = succ[h]]
          /\ UNCHANGED <<op, src, dst, pred, succ>>
  /\ UNCHANGED prev

(* Mutants: a failed compare-and-set goes on with the old next; the new    *)
(* node is stored without comparing.                                       *)
MutLinkKeepsNext(h) ==
  /\ pc[h] = "link"
  /\ \/ compare_and_set_prev(succ[h], src[h], dst[h]) /\ Goto(h, "fix_next")
     \/ prev[succ[h]] # src[h] /\ UNCHANGED prev /\ Goto(h, "point")
  /\ UNCHANGED <<next, op, src, dst, pred, succ>>

MutLinkStores(h) ==
  /\ pc[h] = "link"
  /\ prev' = [prev EXCEPT ![succ[h]] = dst[h]]
  /\ Goto(h, "fix_next")
  /\ UNCHANGED <<next, op, src, dst, pred, succ>>

Link(h) ==
  /\ pc[h] = "link"
  /\ \/ compare_and_set_prev(succ[h], src[h], dst[h]) /\ Goto(h, "fix_next")
     \/ prev[succ[h]] # src[h] /\ UNCHANGED prev /\ Goto(h, "load_next")
  /\ UNCHANGED <<next, op, src, dst, pred, succ>>

(* Mutant: the parent is left pointing to its old successor. *)
MutFixNextSkips(h) ==
  /\ pc[h] = "fix_next"
  /\ Goto(h, "fix_prev")
  /\ UNCHANGED <<prev, next, op, src, dst, pred, succ>>

FixNext(h) ==
  /\ pc[h] = "fix_next"
  /\ next' = [next EXCEPT ![src[h]] = dst[h]]
  /\ Goto(h, "fix_prev")
  /\ UNCHANGED <<prev, op, src, dst, pred, succ>>

(* A move goes on with the deletion of its source.                         *)
FixPrev(h) ==
  /\ pc[h] = "fix_prev"
  /\ prev' = [prev EXCEPT ![dst[h]] = src[h]]
  /\ IF op[h] = "move"
     THEN Goto(h, "read_prev") /\ UNCHANGED <<op, src, dst, pred, succ>>
     ELSE Return(h)
  /\ UNCHANGED next

----------------------------------------------------------------------------
(* cap_node_delete and cap_node_delete2.                                   *)
Delete(h, s) ==
  /\ "delete" \in Calls[h]
  /\ pc[h] = "idle"
  /\ ~is_deleted(s)
  /\ op' = [op EXCEPT ![h] = "delete"]
  /\ src' = [src EXCEPT ![h] = s]
  /\ dst' = [dst EXCEPT ![h] = Null]
  /\ Goto(h, "read_prev")
  /\ UNCHANGED <<prev, next, pred, succ>>

ReadPrev(h) ==
  /\ pc[h] = "read_prev"
  /\ IF is_deleted(src[h])
     THEN Return(h)
     ELSE /\ pred' = [pred EXCEPT ![h] = prev[src[h]]]
          /\ Goto(h, "clear")
          /\ UNCHANGED <<op, src, dst, succ>>
  /\ UNCHANGED <<prev, next>>

Clear(h) ==
  /\ pc[h] = "clear"
  /\ \/ compare_and_set_prev(src[h], pred[h], Null) /\ Goto(h, "read_next")
     \/ prev[src[h]] # pred[h] /\ UNCHANGED prev /\ Goto(h, "read_prev")
  /\ UNCHANGED <<next, op, src, dst, pred, succ>>

ReadNext(h) ==
  /\ pc[h] = "read_next"
  /\ succ' = [succ EXCEPT ![h] = next[src[h]]]
  /\ Goto(h, "bypass")
  /\ UNCHANGED <<prev, next, op, src, dst, pred>>

(* Mutant: the successor's prev is stored without comparing. *)
MutBypassStores(h) ==
  /\ pc[h] = "bypass"
  /\ prev' = [prev EXCEPT ![succ[h]] = pred[h]]
  /\ Goto(h, "repair")
  /\ UNCHANGED <<next, op, src, dst, pred, succ>>

Bypass(h) ==
  /\ pc[h] = "bypass"
  /\ \/ compare_and_set_prev(succ[h], src[h], pred[h]) /\ Goto(h, "repair")
     \/ prev[succ[h]] # src[h] /\ UNCHANGED prev /\ Goto(h, "read_next")
  /\ UNCHANGED <<next, op, src, dst, pred, succ>>

Repair(h) ==
  /\ pc[h] = "repair"
  /\ next' = [next EXCEPT ![pred[h]] = succ[h]]
  /\ Return(h)
  /\ UNCHANGED prev

----------------------------------------------------------------------------
Step(h) ==
  \/ LoadNext(h) \/ Point(h) \/ Link(h) \/ FixNext(h) \/ FixPrev(h)
  \/ ReadPrev(h) \/ Clear(h) \/ ReadNext(h) \/ Bypass(h) \/ Repair(h)

(* Two harts are in the course of a deletion or a move; or a node that an  *)
(* insertion took for its successor was removed and now comes back.        *)
RemovalsMeet == \E g, h \in Harts : g # h /\ {op[g], op[h]} \subseteq {"move", "delete"}
NodeReturns  == \E g, h \in Harts : /\ pc[g] = "fix_next" /\ pc[h] \in {"point", "link"}
                                    /\ dst[g] = succ[h]

Next ==
  /\ \E h \in Harts :
       \/ Step(h)
       \/ \E s \in Free : Delete(h, s)
       \/ \E s \in Free, d \in Free : Derive(h, s, d) \/ Move(h, s, d)
  /\ met' = (met \/ RemovalsMeet' \/ NodeReturns')

Spec == Init /\ [][Next]_vars

(* Capability calls run with interrupts off, to their end. *)
FairSpec == Spec /\ \A h \in Harts : WF_links(Step(h))
----------------------------------------------------------------------------
TypeOK ==
  /\ prev \in [Nodes \union {Sentinel} -> Links]
  /\ next \in [Nodes \union {Sentinel} -> Links]
  /\ pc \in [Harts -> {"idle", "load_next", "point", "link", "fix_next", "fix_prev",
                       "read_prev", "clear", "read_next", "bypass", "repair"}]
  /\ op \in [Harts -> {"none", "derive", "move", "delete"}]
  /\ src \in [Harts -> Links] /\ dst \in [Harts -> Links]
  /\ pred \in [Harts -> Links] /\ succ \in [Harts -> Links]
  /\ \A h \in Harts :
       /\ pc[h] # "idle" => src[h] \in Nodes
       /\ pc[h] \in {"link", "fix_next", "bypass", "repair"} => succ[h] # Null
       /\ pc[h] \in {"clear", "read_next", "bypass", "repair"} => pred[h] # Null

(* A node between its two halves of an insertion is in the list before its *)
(* prev is set; one between the halves of a deletion is not, though its    *)
(* successor still points to it.                                           *)
Entering(n) == {h \in Harts : pc[h] \in {"fix_next", "fix_prev"} /\ dst[h] = n}
Leaving(n)  == {h \in Harts : pc[h] \in {"read_next", "bypass"} /\ src[h] = n}
InList(n)   == n \in Nodes /\ (~is_deleted(n) \/ Entering(n) # {})

Back(n) ==
  IF n \in {Null, Sentinel} THEN n
  ELSE IF Entering(n) # {} THEN src[CHOOSE h \in Entering(n) : TRUE]
  ELSE IF Leaving(n) # {} THEN pred[CHOOSE h \in Leaving(n) : TRUE]
  ELSE prev[n]

(* The sequences that following Back from the sentinel meets, the last node*)
(* first, until it is at the sentinel again: there is at most one.         *)
Rows == UNION {[1 .. k -> Nodes] : k \in 0 .. Cardinality(Nodes)}
Nth(w, i) == IF i = 0 THEN Sentinel ELSE w[i]
Chain(w) ==
  /\ prev[Sentinel] = Nth(w, Len(w))
  /\ \A i \in DOMAIN w : Back(w[i]) = Nth(w, i - 1)
Walks == {w \in Rows : Chain(w)}

(* What is in the list of these nodes, in their order. *)
Kept(w) ==
  LET X == {n \in ToSet(w) : InList(n)}
  IN  {l \in [1 .. Cardinality(X) -> X] :
         Range(l) = X /\ \A i, j \in DOMAIN l : i < j => Ahead(w, l[i], l[j])}
Order == IF Walks = {} THEN << >> ELSE CHOOSE l \in UNION {Kept(w) : w \in Walks} : TRUE

(* The list that the prev links describe changes as CapSeq says: however   *)
(* insertions and deletions of neighbours interleave, each takes effect in *)
(* one step, in its place.                                                 *)
S == INSTANCE CapSeq WITH list <- Order
RefinesCapSeq == S!Spec

(* No node is lost: the walk from the sentinel meets every live node.      *)
EveryLiveNodeListed == {n \in Nodes : InList(n)} = ToSet(Order)

(* is_deleted answers are stable (cap_node_insert: kassert(node->prev ==   *)
(* NULL)): the step that makes a slot live or deleted is one of the hart   *)
(* that holds the slot, and no other hart holds it.                        *)
OnlyHolderChangesLiveness ==
  [][\A n \in Nodes : (prev[n] = Null) # (prev'[n] = Null) =>
       \E h \in Harts : /\ Step(h) /\ n \in Held(h)
                        /\ \A g \in Harts \ {h} : n \notin Held(g)]_vars

(* "Node at beginning and end of capabiliy list" (proc.c): when no hart is *)
(* changing the list, next leads from the sentinel through the same nodes  *)
(* as prev ...                                                             *)
NextMatchesPrev ==
  (\A h \in Harts : pc[h] = "idle") =>
    \A n \in Nodes \union {Sentinel} : prev[n] # Null => next[prev[n]] = n

(* ... as long as no two removals have been at work together, and no node  *)
(* has come back into the list while an insertion had it for its successor.*)
(* Insertions disturb neither each other nor a removal; but a late         *)
(* prev->next = next of one removal may undo what another removal, or an   *)
(* insertion that took prev for its parent, has stored.                    *)
NextUnlessMet == ~met => NextMatchesPrev

(* The list is lock-free: harts at work on it do not block each other for  *)
(* good, though one may be overtaken for ever by new operations of others. *)
LockFree ==
  \/ <>[](\A h \in Harts : pc[h] = "idle")
  \/ []<><<\E h \in Harts : pc[h] # "idle" /\ pc'[h] = "idle">>_links

(* It is, as long as no operations have met that undo each other's next.   *)
LockFreeUnlessMet == [](~met) => LockFree

(* "Insert a child capability after the parent only if the parent is not   *)
(* deleted" (cap_node_insert): an insertion that no other hart disturbs    *)
(* any more inserts, or finds the parent deleted.                          *)
InsertionEnds ==
  \A h \in Harts :
    <>[](\A g \in Harts \ {h} : pc[g] = "idle")
      => []<>(pc[h] \notin {"load_next", "point", "link"})
============================================================================
