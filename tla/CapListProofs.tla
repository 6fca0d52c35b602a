--------------------------- MODULE CapListProofs ---------------------------
(***************************************************************************)
(* The list of capabilities, for every number of harts and slots: what the *)
(* harts hold stays theirs, the prev links always thread one sequence that *)
(* changes as CapSeq says, and next leads back along it until operations   *)
(* meet that undo each other's stores.                                     *)
(***************************************************************************)
EXTENDS CapList, NodeListProofs, FiniteSetTheorems

(* Where hart h is: inserting dst after src, looking at src before its     *)
(* deletion, and taking it out of the links.                               *)
Inserting == {"load_next", "point", "link", "fix_next", "fix_prev"}
Finding   == {"read_prev", "clear"}
Removing  == {"read_next", "bypass", "repair"}
Ends      == Nodes \union {Sentinel}

Typed ==
  /\ prev \in [Ends -> Links]
  /\ next \in [Ends -> Links]
  /\ pc \in [Harts -> {"idle"} \union Inserting \union Finding \union Removing]
  /\ op \in [Harts -> {"none", "derive", "move", "delete"}]
  /\ src \in [Harts -> Links] /\ dst \in [Harts -> Links]
  /\ pred \in [Harts -> Links] /\ succ \in [Harts -> Links]

(* What a hart may rely on, whatever the others do: only it makes its nodes*)
(* live or deleted.                                                        *)
HartOK(h) ==
  /\ pc[h] # "idle" => src[h] \in Nodes /\ dst[h] \in Nodes \union {Null} /\ dst[h] # src[h]
  /\ pc[h] \in Inserting => dst[h] \in Nodes /\ prev[dst[h]] = Null
  /\ pc[h] \in Inserting \union Finding => prev[src[h]] # Null
  /\ pc[h] \in Finding \union Removing /\ dst[h] # Null => prev[dst[h]] # Null
  /\ pc[h] \in Removing => prev[src[h]] = Null
  /\ pc[h] \in {"clear"} \union Removing => pred[h] \in Ends
  /\ pc[h] \in {"point", "link", "fix_next", "bypass", "repair"} => succ[h] \in Ends
  /\ pc[h] = "link" => next[dst[h]] # Null
  /\ pc[h] \in Finding \union Removing => op[h] \in {"move", "delete"}

Exclusive ==
  \A g, h \in Harts : g # h /\ pc[g] # "idle" /\ pc[h] # "idle" =>
    src[g] # src[h] /\ src[g] # dst[h] /\ (dst[g] # dst[h] \/ dst[g] = Null)

(* Who is in the list, or on the way in or out, has a next.                *)
Pointing ==
  \A n \in Ends : next[n] = Null =>
    prev[n] = Null /\ Entering(n) = {} /\ Leaving(n) = {}

PInv == Typed /\ (\A h \in Harts : HartOK(h)) /\ Exclusive /\ Pointing /\ prev[Sentinel] # Null

(* A step of hart h. *)
Act(h) ==
  \/ Step(h)
  \/ \E s \in Free : Delete(h, s)
  \/ \E s \in Free, d \in Free : Derive(h, s, d) \/ Move(h, s, d)

(* A step of h leaves the locals of the others alone; it makes a node live *)
(* or deleted only at the end of an insertion of it and at the beginning of*)
(* its deletion; and it works on the nodes it has, or on free ones.        *)
Calm(h) ==
  /\ \A g \in Harts \ {h} :
       /\ pc'[g] = pc[g] /\ src'[g] = src[g] /\ dst'[g] = dst[g]
       /\ pred'[g] = pred[g] /\ succ'[g] = succ[g] /\ op'[g] = op[g]
  /\ \A n \in Ends : /\ prev[n] = Null /\ prev'[n] # Null => pc[h] = "fix_prev" /\ n = dst[h]
                     /\ prev[n] # Null /\ prev'[n] = Null => pc[h] = "clear" /\ n = src[h]
                     /\ next'[n] = Null => next[n] = Null
  /\ pc'[h] # "idle" =>
       \/ pc[h] # "idle" /\ src'[h] = src[h] /\ dst'[h] = dst[h]
       \/ pc[h] = "idle" /\ src'[h] \in Free /\ dst'[h] \in Free \union {Null}
  /\ pc'[h] \in {"fix_next", "fix_prev"} => pc[h] \in {"link", "fix_next", "fix_prev"}
  /\ pc'[h] \in {"read_next", "bypass"} => pc[h] \in {"clear", "read_next", "bypass"}
  /\ pc[h] = "clear" => pred[h] # Null

LEMMA Frame ==
  ASSUME PInv, NEW h \in Harts, Act(h)
  PROVE  Typed' /\ HartOK(h)' /\ Calm(h)
<1> USE CapListAssumption DEF PInv, Typed, HartOK, Inserting, Finding, Removing, Ends, Links,
        Goto, is_deleted, compare_and_set_prev
<1>0. Null \notin Ends /\ Null \in Links /\ Ends \subseteq Links /\ Free \subseteq Nodes
  BY DEF Free
<1>1. ASSUME NEW s \in Free, NEW d \in Free, NEW o \in {"derive", "move"}, StartInsert(h, o, s, d)
      PROVE  Typed' /\ HartOK(h)' /\ Calm(h)
  <2>1. s \in Nodes /\ d \in Nodes /\ s # d
    BY <1>0, <1>1 DEF StartInsert
  <2>2. Typed'
    BY <1>0, <1>1, <2>1 DEF StartInsert
  <2>3. HartOK(h)'
    BY <1>1, <2>1 DEF StartInsert
  <2>4. Calm(h)
    BY <1>1, <2>1 DEF StartInsert, Calm
  <2> QED
    BY <2>2, <2>3, <2>4
<1>2. ASSUME NEW s \in Free, Delete(h, s)
      PROVE  Typed' /\ HartOK(h)' /\ Calm(h)
  <2>2. Typed'
    BY <1>0, <1>2 DEF Delete
  <2>3. HartOK(h)'
    BY <1>0, <1>2 DEF Delete
  <2>4. Calm(h)
    BY <1>2 DEF Delete, Calm
  <2> QED
    BY <2>2, <2>3, <2>4
<1>3. CASE LoadNext(h)
  <2>1. next[src[h]] \in Ends
    BY <1>3 DEF LoadNext, Pointing
  <2>2. Typed'
    BY <1>0, <1>3, <2>1 DEF LoadNext
  <2>3. HartOK(h)'
    BY <1>3, <2>1 DEF LoadNext
  <2>4. Calm(h)
    BY <1>3 DEF LoadNext, Calm
  <2> QED
    BY <2>2, <2>3, <2>4
<1>4. CASE Point(h)
  <2>1. ~is_deleted(src[h]) /\ dst[h] \in Nodes /\ succ[h] \in Ends
    BY <1>4 DEF Point
  <2>a. /\ pc' = [pc EXCEPT ![h] = "link"] /\ next' = [next EXCEPT ![dst[h]] = succ[h]]
        /\ UNCHANGED <<prev, op, src, dst, pred, succ>>
    BY <1>4, <2>1 DEF Point
  <2>2. Typed'
    BY <1>0, <2>a, <2>1
  <2>3. HartOK(h)'
    BY <1>0, <1>4, <2>1 DEF Point
  <2>4. Calm(h)
    BY <1>0, <1>4, <2>1 DEF Point, Calm
  <2> QED
    BY <2>2, <2>3, <2>4
<1>5. CASE Link(h) /\ prev' = prev
  <2>1. /\ UNCHANGED <<next, op, src, dst, pred, succ>> /\ pc[h] = "link"
        /\ pc' = [pc EXCEPT ![h] = "load_next"] \/ pc' = [pc EXCEPT ![h] = "fix_next"]
    BY <1>5 DEF Link
  <2>2. Typed'
    BY <1>5, <2>1
  <2>3. HartOK(h)'
    BY <1>5, <2>1
  <2>4. Calm(h)
    BY <1>5, <2>1 DEF Calm
  <2> QED
    BY <2>2, <2>3, <2>4
<1>6. CASE Link(h) /\ prev' # prev
  <2>1. /\ pc[h] = "link" /\ prev[succ[h]] = src[h] /\ prev' = [prev EXCEPT ![succ[h]] = dst[h]]
        /\ pc' = [pc EXCEPT ![h] = "fix_next"]
        /\ UNCHANGED <<next, op, src, dst, pred, succ>>
    BY <1>6 DEF Link
  <2>2. src[h] \in Nodes /\ dst[h] \in Nodes /\ succ[h] \in Ends /\ succ[h] # dst[h]
    BY <1>0, <2>1
  <2>3. Typed'
    BY <1>0, <2>1, <2>2
  <2>4. prev'[dst[h]] = Null /\ prev'[src[h]] # Null
    BY <1>0, <2>1, <2>2
  <2>5. HartOK(h)'
    BY <2>1, <2>2, <2>4
  <2>6. Calm(h)
    BY <1>0, <2>1, <2>2 DEF Calm
  <2> QED
    BY <2>3, <2>5, <2>6
<1>7. CASE FixNext(h)
  <2>1. src[h] \in Nodes /\ dst[h] \in Nodes
    BY <1>7 DEF FixNext
  <2>2. Typed'
    BY <1>0, <1>7, <2>1 DEF FixNext
  <2>3. HartOK(h)'
    BY <1>0, <1>7, <2>1 DEF FixNext
  <2>4. Calm(h)
    BY <1>0, <1>7, <2>1 DEF FixNext, Calm
  <2> QED
    BY <2>2, <2>3, <2>4
<1>8. CASE FixPrev(h)
  <2>1. /\ pc[h] = "fix_prev" /\ src[h] \in Nodes /\ dst[h] \in Nodes /\ src[h] # dst[h]
        /\ prev' = [prev EXCEPT ![dst[h]] = src[h]] /\ next' = next
    BY <1>8 DEF FixPrev
  <2>2. CASE op[h] = "move"
    <3>1. /\ pc' = [pc EXCEPT ![h] = "read_prev"] /\ UNCHANGED <<op, src, dst, pred, succ>>
      BY <1>8, <2>2 DEF FixPrev
    <3>2. Typed'
      BY <1>0, <2>1, <3>1
    <3>3. HartOK(h)'
      BY <1>0, <2>1, <2>2, <3>1
    <3>4. Calm(h)
      BY <1>0, <2>1, <3>1 DEF Calm
    <3> QED
      BY <3>2, <3>3, <3>4
  <2>3. CASE op[h] # "move"
    <3>1. Return(h)
      BY <1>8, <2>3 DEF FixPrev
    <3>2. Typed'
      BY <1>0, <2>1, <3>1 DEF Return
    <3>3. HartOK(h)'
      BY <1>0, <2>1, <3>1 DEF Return
    <3>4. Calm(h)
      BY <1>0, <2>1, <3>1 DEF Calm, Return
    <3> QED
      BY <3>2, <3>3, <3>4
  <2> QED
    BY <2>2, <2>3
<1>9. CASE ReadPrev(h)
  <2>1. /\ ~is_deleted(src[h]) /\ src[h] \in Nodes /\ pc[h] = "read_prev"
        /\ prev[src[h]] \in Links \ {Null}
    BY <1>9 DEF ReadPrev
  <2>2. Typed'
    BY <1>0, <1>9, <2>1 DEF ReadPrev
  <2>3. HartOK(h)'
    BY <1>0, <1>9, <2>1 DEF ReadPrev
  <2>4. Calm(h)
    BY <1>0, <1>9, <2>1 DEF ReadPrev, Calm
  <2> QED
    BY <2>2, <2>3, <2>4
<1>10. CASE Clear(h)
  <2>1. /\ pc[h] = "clear" /\ src[h] \in Nodes /\ pred[h] \in Ends
        /\ dst[h] \in Nodes \union {Null} /\ dst[h] # src[h]
        /\ UNCHANGED <<next, op, src, dst, pred, succ>>
    BY <1>10 DEF Clear
  <2>2. \/ prev' = [prev EXCEPT ![src[h]] = Null] /\ pc' = [pc EXCEPT ![h] = "read_next"]
        \/ prev' = prev /\ pc' = [pc EXCEPT ![h] = "read_prev"]
    BY <1>10 DEF Clear
  <2>a. prev' \in [Ends -> Links]
    BY <1>0, <2>1, <2>2
  <2>b. pc' \in [Harts -> {"idle"} \union Inserting \union Finding \union Removing]
    BY <2>2
  <2>3. Typed'
    BY <2>1, <2>a, <2>b
  <2>4. HartOK(h)'
    BY <1>0, <2>1, <2>2
  <2>5. Calm(h)
    BY <1>0, <2>1, <2>2 DEF Calm
  <2> QED
    BY <2>3, <2>4, <2>5
<1>11. CASE ReadNext(h)
  <2>1. pc[h] = "read_next" /\ h \in Leaving(src[h]) /\ src[h] \in Nodes
    BY <1>11 DEF ReadNext, Leaving
  <2>2. next[src[h]] \in Ends
    BY <2>1 DEF Pointing
  <2>3. Typed'
    BY <1>0, <1>11, <2>2 DEF ReadNext
  <2>4. HartOK(h)'
    BY <1>11, <2>2 DEF ReadNext
  <2>5. Calm(h)
    BY <1>11 DEF ReadNext, Calm
  <2> QED
    BY <2>3, <2>4, <2>5
<1>12. CASE Bypass(h)
  <2>1. /\ pc[h] = "bypass" /\ src[h] \in Nodes /\ pred[h] \in Ends /\ succ[h] \in Ends
        /\ dst[h] \in Nodes \union {Null} /\ prev[src[h]] = Null
        /\ UNCHANGED <<next, op, src, dst, pred, succ>>
    BY <1>12 DEF Bypass
  <2>2. \/ /\ prev[succ[h]] = src[h] /\ prev' = [prev EXCEPT ![succ[h]] = pred[h]]
           /\ pc' = [pc EXCEPT ![h] = "repair"]
        \/ prev' = prev /\ pc' = [pc EXCEPT ![h] = "read_next"]
    BY <1>12 DEF Bypass
  <2>a. prev' \in [Ends -> Links]
    BY <1>0, <2>1, <2>2
  <2>b. pc' \in [Harts -> {"idle"} \union Inserting \union Finding \union Removing]
    BY <2>2
  <2>3. Typed'
    BY <2>1, <2>a, <2>b
  <2>4. \A n \in Ends : prev'[n] = Null <=> prev[n] = Null
    BY <1>0, <2>1, <2>2
  <2>5. HartOK(h)'
    BY <1>0, <2>1, <2>2, <2>4
  <2>6. Calm(h)
    BY <1>0, <2>1, <2>2, <2>4 DEF Calm
  <2> QED
    BY <2>3, <2>5, <2>6
<1>13. CASE Repair(h)
  <2>1. pred[h] \in Ends /\ succ[h] \in Ends
    BY <1>13 DEF Repair
  <2>2. Typed'
    BY <1>0, <1>13, <2>1 DEF Repair, Return
  <2>3. HartOK(h)'
    BY <1>13 DEF Repair, Return
  <2>4. Calm(h)
    BY <1>0, <1>13, <2>1 DEF Repair, Return, Calm
  <2> QED
    BY <2>2, <2>3, <2>4
<1> QED
  BY <1>1, <1>2, <1>3, <1>4, <1>5, <1>6, <1>7, <1>8, <1>9, <1>10, <1>11, <1>12, <1>13
  DEF Act, Step, Derive, Move

(* Nothing else moves the nodes of a hart, nor makes them live or deleted. *)
LEMMA Others ==
  ASSUME PInv, NEW h \in Harts, Act(h)
  PROVE  PInv'
<1>1. Typed' /\ HartOK(h)' /\ Calm(h)
  BY Frame
<1>2. /\ \A g \in Harts : HartOK(g)
      /\ Exclusive /\ Pointing /\ Typed /\ prev[Sentinel] # Null
      /\ Null \notin Ends /\ Sentinel \notin Nodes /\ Sentinel \in Ends /\ Nodes \subseteq Ends
  BY CapListAssumption DEF PInv, Ends
<1>3. \A g \in Harts \ {h} :
        /\ pc'[g] = pc[g] /\ src'[g] = src[g] /\ dst'[g] = dst[g]
        /\ pred'[g] = pred[g] /\ succ'[g] = succ[g] /\ op'[g] = op[g]
  BY <1>1 DEF Calm
<1>4. \A n \in Ends : /\ prev[n] = Null /\ prev'[n] # Null => pc[h] = "fix_prev" /\ n = dst[h]
                      /\ prev[n] # Null /\ prev'[n] = Null => pc[h] = "clear" /\ n = src[h]
                      /\ next'[n] = Null => next[n] = Null
  BY <1>1 DEF Calm
<1>5. pc'[h] # "idle" =>
        \/ pc[h] # "idle" /\ src'[h] = src[h] /\ dst'[h] = dst[h]
        \/ pc[h] = "idle" /\ src'[h] \in Free /\ dst'[h] \in Free \union {Null}
  BY <1>1 DEF Calm
<1>6. ASSUME NEW g \in Harts \ {h}
      PROVE  HartOK(g)'
  <2>1. HartOK(g) /\ HartOK(h)
    BY <1>2
  <2>2. pc[g] # "idle" /\ pc[h] # "idle" =>
          src[g] # src[h] /\ src[g] # dst[h] /\ src[h] # dst[g] /\ (dst[g] # dst[h] \/ dst[g] = Null)
    BY <1>2 DEF Exclusive
  <2>3. pc[g] # "idle" =>
          /\ src[g] \in Ends /\ (prev'[src[g]] = Null <=> prev[src[g]] = Null)
          /\ dst[g] # Null => /\ dst[g] \in Ends /\ (prev'[dst[g]] = Null <=> prev[dst[g]] = Null)
                              /\ next'[dst[g]] = Null => next[dst[g]] = Null
    BY <1>2, <1>4, <2>1, <2>2 DEF HartOK
  <2> QED
    BY <1>2, <1>3, <2>1, <2>3 DEF HartOK, Inserting, Finding, Removing
<1>7. Exclusive'
  <2> SUFFICES ASSUME NEW a \in Harts, NEW b \in Harts, a # b, pc'[a] # "idle", pc'[b] # "idle"
               PROVE  /\ src'[a] # src'[b] /\ src'[a] # dst'[b]
                      /\ dst'[a] # dst'[b] \/ dst'[a] = Null
    BY DEF Exclusive
  <2>1. CASE a # h /\ b # h
    BY <1>2, <1>3, <2>1 DEF Exclusive
  <2>2. ASSUME NEW g \in Harts \ {h}, pc'[g] # "idle", pc'[h] # "idle"
        PROVE  /\ src'[g] # src'[h] /\ src'[g] # dst'[h] /\ src'[h] # dst'[g]
               /\ dst'[g] # dst'[h] \/ dst'[g] = Null
    <3>1. pc[g] # "idle" /\ src'[g] = src[g] /\ dst'[g] = dst[g]
      BY <1>3, <2>2
    <3>2. CASE pc[h] # "idle" /\ src'[h] = src[h] /\ dst'[h] = dst[h]
      BY <1>2, <3>1, <3>2 DEF Exclusive
    <3>3. CASE src'[h] \in Free /\ dst'[h] \in Free \union {Null}
      <4>1. src[g] \in Held(g) /\ dst[g] \in Held(g)
        BY <3>1 DEF Held
      <4>2. src[g] \notin Free /\ dst[g] \notin Free
        BY <4>1 DEF Free
      <4>3. src[g] \in Nodes
        BY <1>2, <3>1 DEF HartOK
      <4> QED
        BY <1>2, <3>1, <3>3, <4>2, <4>3
    <3> QED
      BY <1>5, <2>2, <3>2, <3>3
  <2> QED
    BY <2>1, <2>2
<1>8. Pointing'
  <2> SUFFICES ASSUME NEW n \in Ends, next'[n] = Null
               PROVE  prev'[n] = Null /\ Entering(n)' = {} /\ Leaving(n)' = {}
    BY DEF Pointing
  <2>1. next[n] = Null /\ prev[n] = Null /\ Entering(n) = {} /\ Leaving(n) = {}
    BY <1>2, <1>4 DEF Pointing
  <2>2. HartOK(h)
    BY <1>2
  <2>3. prev'[n] = Null
    BY <1>4, <2>1 DEF Entering
  <2>4. ASSUME NEW g \in Entering(n)'
        PROVE  FALSE
    <3>1. g \in Harts /\ pc'[g] \in {"fix_next", "fix_prev"} /\ dst'[g] = n
      BY DEF Entering
    <3>2. CASE g # h
      BY <1>3, <2>1, <3>1, <3>2 DEF Entering
    <3>3. CASE g = h
      <4>1. pc[h] \in {"link", "fix_next", "fix_prev"}
        BY <1>1, <3>1, <3>3 DEF Calm
      <4>2. dst[h] = n
        BY <1>5, <3>1, <3>3, <4>1
      <4> QED
        BY <2>1, <2>2, <4>1, <4>2 DEF Entering, HartOK
    <3> QED
      BY <3>2, <3>3
  <2>5. ASSUME NEW g \in Leaving(n)'
        PROVE  FALSE
    <3>1. g \in Harts /\ pc'[g] \in {"read_next", "bypass"} /\ src'[g] = n
      BY DEF Leaving
    <3>2. CASE g # h
      BY <1>3, <2>1, <3>1, <3>2 DEF Leaving
    <3>3. CASE g = h
      <4>1. pc[h] \in {"clear", "read_next", "bypass"}
        BY <1>1, <3>1, <3>3 DEF Calm
      <4>2. src[h] = n
        BY <1>5, <3>1, <3>3, <4>1
      <4> QED
        BY <2>1, <2>2, <4>1, <4>2 DEF Leaving, HartOK, Finding
    <3> QED
      BY <3>2, <3>3
  <2> QED
    BY <2>3, <2>4, <2>5
<1>9. prev'[Sentinel] # Null
  BY <1>2, <1>4 DEF HartOK
<1> QED
  BY <1>1, <1>6, <1>7, <1>8, <1>9 DEF PInv

(* At boot the nodes of InitList point to one another, the others nowhere. *)
LEMMA BootLinks ==
  ASSUME Init
  PROVE  /\ prev \in [Ends -> Links] /\ next \in [Ends -> Links]
         /\ prev[Sentinel] = Nth(InitList, Len(InitList)) /\ prev[Sentinel] # Null
         /\ \A i \in DOMAIN InitList : prev[InitList[i]] = Nth(InitList, i - 1)
         /\ \A i \in 0 .. Len(InitList) : Nth(InitList, i) \in Ends
         /\ \A n \in Nodes : n \notin Range(InitList) => prev[n] = Null
         /\ \A n \in Ends : next[n] = Null => prev[n] = Null
         /\ \A n \in Range(InitList) \union {Sentinel} : next[prev[n]] = n
<1> DEFINE at(i)    == IF i \in DOMAIN InitList THEN InitList[i] ELSE Sentinel
           place(n) == CHOOSE i \in DOMAIN InitList : InitList[i] = n
           live     == ToSet(InitList)
<1>1. /\ prev = [n \in Nodes \union {Sentinel} |->
                  IF n = Sentinel THEN at(Len(InitList))
                  ELSE IF n \in live THEN at(place(n) - 1) ELSE Null]
      /\ next = [n \in Nodes \union {Sentinel} |->
                  IF n = Sentinel THEN at(1)
                  ELSE IF n \in live THEN at(place(n) + 1) ELSE Null]
  BY DEF Init
<1>2. DOMAIN InitList = 1 .. Len(InitList) /\ Len(InitList) \in Nat
      /\ \A i \in 1 .. Len(InitList) : InitList[i] \in Nodes
  BY CapListAssumption, LenProperties, ElementOfSeq
<1>3. \A i : at(i) \in Ends
  BY <1>2 DEF Ends
<1>4. live = Range(InitList)
  BY DEF ToSet, Range
<1>5. \A i \in DOMAIN InitList : InitList[i] \in live /\ place(InitList[i]) = i
  BY <1>4, CapListAssumption DEF IsInjective, Range
<1>6. \A i \in 0 .. Len(InitList) : at(i) = Nth(InitList, i)
  BY <1>2 DEF Nth
<1>7. Null \notin Ends /\ Null \in Links /\ Ends \subseteq Links /\ Ends = Nodes \union {Sentinel}
      /\ Sentinel \notin Nodes
  BY CapListAssumption DEF Ends, Links
<1> HIDE DEF at, place, live
<1>8. prev \in [Ends -> Links] /\ next \in [Ends -> Links]
  BY <1>1, <1>3, <1>7
<1>9. prev[Sentinel] = at(Len(InitList)) /\ next[Sentinel] = at(1)
  BY <1>1
<1>10. \A i \in DOMAIN InitList : prev[InitList[i]] = at(i - 1)
  BY <1>1, <1>2, <1>5, <1>7
<1>11. \A n \in Nodes : n \notin live => prev[n] = Null
  BY <1>1, <1>7
<1>12. \A n \in Ends : next[n] = Null => prev[n] = Null
  BY <1>1, <1>3, <1>7
<1>13. \A i \in DOMAIN InitList : next[InitList[i]] = at(i + 1)
  BY <1>1, <1>2, <1>5, <1>7
<1>14. \A i \in 0 .. Len(InitList) : next[at(i)] = at(i + 1)
  <2>1. at(0) = Sentinel /\ \A i \in DOMAIN InitList : at(i) = InitList[i]
    BY <1>2 DEF at
  <2> QED
    BY <1>2, <1>9, <1>13, <2>1
<1>15. ASSUME NEW n \in Range(InitList) \union {Sentinel}
       PROVE  next[prev[n]] = n
  <2>1. CASE n = Sentinel
    <3>1. at(Len(InitList) + 1) = Sentinel
      BY <1>2 DEF at
    <3> QED
      BY <1>2, <1>9, <1>14, <2>1, <3>1
  <2>2. CASE n # Sentinel
    <3>1. PICK i \in DOMAIN InitList : InitList[i] = n
      BY <2>2 DEF Range
    <3>2. PICK j : j = i - 1 /\ j \in 0 .. Len(InitList) /\ j + 1 = i
      BY <1>2
    <3>3. next[at(j)] = at(j + 1) /\ prev[n] = at(j) /\ at(i) = n
      BY <1>10, <1>14, <3>1, <3>2 DEF at
    <3> QED
      BY <3>2, <3>3
  <2> QED
    BY <2>1, <2>2
<1> QED
  BY <1>2, <1>3, <1>4, <1>6, <1>7, <1>8, <1>9, <1>10, <1>11, <1>12, <1>15

LEMMA AtBoot ==
  ASSUME Init
  PROVE  PInv
<1>1. /\ prev \in [Ends -> Links] /\ next \in [Ends -> Links]
      /\ prev[Sentinel] # Null
      /\ \A n \in Ends : next[n] = Null => prev[n] = Null
  BY BootLinks
<1>2. /\ pc = [h \in Harts |-> "idle"] /\ op = [h \in Harts |-> "none"]
      /\ src = [h \in Harts |-> Null] /\ dst = [h \in Harts |-> Null]
      /\ pred = [h \in Harts |-> Null] /\ succ = [h \in Harts |-> Null]
  BY DEF Init
<1>3. Typed
  BY <1>1, <1>2 DEF Typed, Links
<1>4. \A h \in Harts : HartOK(h)
  BY <1>2 DEF HartOK, Inserting, Finding, Removing
<1>5. Exclusive /\ Pointing
  BY <1>1, <1>2 DEF Exclusive, Pointing, Entering, Leaving
<1> QED
  BY <1>1, <1>3, <1>4, <1>5 DEF PInv

LEMMA Steps == [Next]_vars => (\E h \in Harts : Act(h)) \/ UNCHANGED links
BY DEF Next, Act, vars, links

LEMMA PInvStays == PInv /\ UNCHANGED links => PInv'
<1> SUFFICES ASSUME PInv, UNCHANGED links
             PROVE  PInv'
  OBVIOUS
<1>1. /\ prev' = prev /\ next' = next /\ pc' = pc /\ op' = op /\ src' = src /\ dst' = dst
      /\ pred' = pred /\ succ' = succ
  BY DEF links
<1> QED
  BY <1>1 DEF PInv, Typed, HartOK, Exclusive, Pointing, Entering, Leaving

LEMMA PInvHolds == Spec => []PInv
<1>1. PInv /\ [Next]_vars => PInv'
  BY Others, Steps, PInvStays
<1> QED
  BY <1>1, AtBoot, PTL DEF Spec

(* The links stay among the nodes of the tables and the sentinel, and a    *)
(* hart never follows a NULL one (TypeOK).                                 *)
THEOREM ListTypes == Spec => []TypeOK
<1>1. PInv => TypeOK
  <2> SUFFICES ASSUME PInv
               PROVE  TypeOK
    OBVIOUS
  <2>1. Typed /\ (\A h \in Harts : HartOK(h)) /\ Null \notin Ends
    BY CapListAssumption DEF PInv, Ends
  <2>2. \A h \in Harts :
          /\ pc[h] # "idle" => src[h] \in Nodes
          /\ pc[h] \in {"link", "fix_next", "bypass", "repair"} => succ[h] # Null
          /\ pc[h] \in {"clear", "read_next", "bypass", "repair"} => pred[h] # Null
    BY <2>1 DEF HartOK, Removing
  <2>3. {"idle"} \union Inserting \union Finding \union Removing =
          {"idle", "load_next", "point", "link", "fix_next", "fix_prev",
                       "read_prev", "clear", "read_next", "bypass", "repair"}
    BY DEF Inserting, Finding, Removing
  <2> QED
    BY <2>1, <2>2, <2>3 DEF TypeOK, Typed, Ends
<1> QED
  BY <1>1, PInvHolds, PTL

(* A capability becomes live or deleted only in a step of the hart that    *)
(* holds its slot, which no other hart holds (OnlyHolderChangesLiveness),  *)
(* so what a call read with is_deleted stays true while it works on the    *)
(* slot (cap_node_insert, cap_node_delete).                                *)
THEOREM LivenessIsTheHolders == Spec => OnlyHolderChangesLiveness
<1> DEFINE Own(n) ==
      (prev[n] = Null) # (prev'[n] = Null) =>
        \E h \in Harts : /\ Step(h) /\ n \in Held(h)
                         /\ \A g \in Harts \ {h} : n \notin Held(g)
<1>1. ASSUME PInv, Next, NEW n \in Nodes, (prev[n] = Null) # (prev'[n] = Null)
      PROVE  \E h \in Harts : /\ Step(h) /\ n \in Held(h)
                              /\ \A g \in Harts \ {h} : n \notin Held(g)
  <2>1. PICK h \in Harts : Act(h)
    BY <1>1 DEF Next, Act
  <2>2. Calm(h)
    BY <1>1, <2>1, Frame
  <2>3. \/ pc[h] = "fix_prev" /\ n = dst[h]
        \/ pc[h] = "clear" /\ n = src[h]
    BY <1>1, <2>2 DEF Calm, Ends
  <2>4. n \in Held(h) /\ pc[h] # "idle"
    BY <2>3 DEF Held
  <2>5. Step(h)
    BY <2>1, <2>4 DEF Act, StartInsert, Derive, Move, Delete
  <2>6. ASSUME NEW g \in Harts \ {h}, n \in Held(g) PROVE FALSE
    <3>1. pc[g] # "idle" /\ n \in {src[g], dst[g]}
      BY <2>6 DEF Held
    <3>2. /\ src[g] # src[h] /\ src[g] # dst[h] /\ (dst[g] # dst[h] \/ dst[g] = Null)
          /\ src[h] # dst[g]
      BY <1>1, <2>4, <3>1 DEF PInv, Exclusive
    <3>3. n # Null
      BY CapListAssumption
    <3> QED
      BY <2>3, <3>1, <3>2, <3>3
  <2> QED
    BY <2>4, <2>5, <2>6
<1>2. PInv /\ [Next]_vars => [\A n \in Nodes : Own(n)]_vars
  BY <1>1
<1> QED
  BY <1>2, PInvHolds, PTL DEF Spec, OnlyHolderChangesLiveness

----------------------------------------------------------------------------
(* The node that w has before n; the last one has the sentinel after it.   *)
Prior(w, n) == IF n = Sentinel THEN Nth(w, Len(w)) ELSE Nth(w, Position(w, n) - 1)

(* What stands before a node, and what becomes of it when a node is put in *)
(* or taken out.                                                           *)
LEMMA Priors ==
  ASSUME NEW W, W \subseteq Nodes, NEW w, Lists(w, W)
  PROVE  /\ \A x \in W \union {Sentinel} : Prior(w, x) \in W \union {Sentinel}
         /\ \A x, y \in W \union {Sentinel} : Prior(w, x) = Prior(w, y) => x = y
         /\ \A x \in W : Prior(w, x) # x
<1>1. Sentinel \notin W
  BY CapListAssumption
<1>2. /\ Len(w) \in Nat
      /\ \A k \in 1 .. Len(w) : w[k] \in W /\ Position(w, w[k]) = k
      /\ \A x \in W : Position(w, x) \in 1 .. Len(w) /\ w[Position(w, x)] = x
  BY Positions
<1>3. PICK len \in Nat : len = Len(w)
  BY <1>2
<1>4. PICK pos : pos = [x \in W |-> Position(w, x)]
  OBVIOUS
<1>5. /\ \A k \in 1 .. len : w[k] \in W /\ pos[w[k]] = k
      /\ \A x \in W : pos[x] \in 1 .. len /\ w[pos[x]] = x
  BY <1>2, <1>3, <1>4
<1>6. PICK at : at = [x \in W \union {Sentinel} |-> IF x = Sentinel THEN len ELSE pos[x] - 1]
  OBVIOUS
<1>7. /\ \A x \in W : at[x] = pos[x] - 1 /\ at[x] \in 0 .. len - 1
      /\ at[Sentinel] = len
  BY <1>1, <1>5, <1>6
<1>8. \A x \in W \union {Sentinel} : Prior(w, x) = Nth(w, at[x])
  BY <1>1, <1>3, <1>4, <1>7 DEF Prior
<1>9. \A x, y \in W \union {Sentinel} : at[x] = at[y] => x = y
  BY <1>5, <1>7
<1>10. \A i \in 0 .. len : Nth(w, i) \in W \union {Sentinel}
  BY <1>5 DEF Nth
<1>11. \A i, j \in 0 .. len : Nth(w, i) = Nth(w, j) => i = j
  BY <1>1, <1>5 DEF Nth
<1>12. \A x \in W \union {Sentinel} : at[x] \in 0 .. len
  BY <1>7
<1>13. ASSUME NEW x \in W, Prior(w, x) = x
       PROVE  FALSE
  BY <1>1, <1>5, <1>7, <1>8, <1>13 DEF Nth
<1> QED
  BY <1>8, <1>9, <1>10, <1>11, <1>12, <1>13

LEMMA PriorInserted ==
  ASSUME NEW W, W \subseteq Nodes, NEW w, Lists(w, W), NEW s \in W, NEW t \in Nodes, t \notin W,
         NEW r, r = InsertAfter(w, s, t)
  PROVE  /\ Prior(r, t) = s
         /\ \A x \in W \union {Sentinel} :
              Prior(r, x) = IF Prior(w, x) = s THEN t ELSE Prior(w, x)
<1>1. Sentinel \notin W /\ t # Sentinel
  BY CapListAssumption
<1>2. /\ Lists(r, W \union {t})
      /\ Position(r, t) = Position(w, s) + 1
      /\ \A x \in W : Position(r, x) = IF Position(w, x) <= Position(w, s) THEN Position(w, x)
                                       ELSE Position(w, x) + 1
  BY InsertLists
<1>3. /\ Len(w) \in Nat
      /\ \A k \in 1 .. Len(w) : w[k] \in W /\ Position(w, w[k]) = k
      /\ \A x \in W : Position(w, x) \in 1 .. Len(w) /\ w[Position(w, x)] = x
  BY Positions
<1>5. PICK p : p = Position(w, s)
  OBVIOUS
<1>6. p \in 1 .. Len(w) /\ w[p] = s
  BY <1>3, <1>5
<1>7. /\ r[p + 1] = t
      /\ \A k \in 1 .. Len(w) : r[IF k <= p THEN k ELSE k + 1] = w[k]
      /\ Len(r) = Len(w) + 1
  <2>1. PICK q : q = p + 1
    OBVIOUS
  <2>2. r = InsertAt(w, q, t) /\ q \in 1 .. Len(w) + 1
    BY <1>3, <1>5, <1>6, <2>1 DEF InsertAfter
  <2>3. w \in Seq(W \union {t})
    BY <1>3, ElementsIn DEF Lists
  <2>4. /\ Len(r) = Len(w) + 1
        /\ \A k \in 1 .. Len(w) + 1 : r[k] = IF k < q THEN w[k] ELSE IF k = q THEN t ELSE w[k - 1]
    BY <2>2, <2>3, Inserted
  <2> QED
    BY <1>3, <1>6, <2>1, <2>4
<1>8. PICK n \in Nat : n = Len(w)
  BY <1>3
<1>9. Len(r) = n + 1
  BY <1>7, <1>8
<1>10. Prior(r, t) = s
  BY <1>1, <1>2, <1>5, <1>6, <1>7, <1>8 DEF Prior, Nth
<1>11. Prior(r, Sentinel) = IF Prior(w, Sentinel) = s THEN t ELSE Prior(w, Sentinel)
  <2>1. Prior(r, Sentinel) = r[n + 1] /\ Prior(w, Sentinel) = w[n] /\ n >= 1
    BY <1>6, <1>8, <1>9 DEF Prior, Nth
  <2>2. CASE p = n
    BY <1>6, <1>7, <2>1, <2>2
  <2>3. CASE p # n
    <3>1. ~(n <= p) /\ n \in 1 .. n
      BY <1>6, <1>8, <2>3
    <3>2. r[n + 1] = w[n] /\ Position(w, w[n]) = n
      BY <1>3, <1>7, <1>8, <3>1
    <3> QED
      BY <1>5, <2>1, <2>3, <3>2
  <2> QED
    BY <2>2, <2>3
<1>12. ASSUME NEW x \in W
       PROVE  Prior(r, x) = IF Prior(w, x) = s THEN t ELSE Prior(w, x)
  <2>1. PICK k : k = Position(w, x)
    OBVIOUS
  <2>2. k \in 1 .. n /\ w[k] = x /\ Prior(w, x) = Nth(w, k - 1)
    BY <1>1, <1>3, <1>8, <2>1 DEF Prior
  <2>3. Prior(r, x) = Nth(r, IF k <= p THEN k - 1 ELSE k)
    BY <1>1, <1>2, <1>5, <1>6, <1>8, <2>1, <2>2 DEF Prior
  <2>4. CASE k = 1
    BY <1>1, <1>6, <1>8, <2>2, <2>3, <2>4 DEF Nth
  <2>5. CASE k # 1
    <3>1. k - 1 \in 1 .. n /\ Position(w, w[k - 1]) = k - 1 /\ Prior(w, x) = w[k - 1]
      BY <1>3, <1>8, <2>2, <2>5 DEF Nth
    <3>2. CASE k = p + 1
      BY <1>6, <1>7, <1>8, <2>2, <2>3, <3>1, <3>2 DEF Nth
    <3>3. CASE k <= p
      <4>1. Prior(r, x) = r[k - 1] /\ r[k - 1] = w[k - 1]
        BY <1>6, <1>7, <1>8, <2>2, <2>3, <2>5, <3>1, <3>3 DEF Nth
      <4> QED
        BY <1>5, <1>6, <1>8, <2>2, <3>1, <3>3, <4>1
    <3>4. CASE k > p + 1
      <4>1. Prior(r, x) = r[k] /\ r[k] = w[k - 1]
        BY <1>6, <1>7, <1>8, <2>2, <2>3, <2>5, <3>1, <3>4 DEF Nth
      <4> QED
        BY <1>5, <1>6, <1>8, <2>2, <3>1, <3>4, <4>1
    <3> QED
      BY <1>6, <1>8, <2>2, <3>2, <3>3, <3>4
  <2> QED
    BY <2>4, <2>5
<1> QED
  BY <1>10, <1>11, <1>12

LEMMA PriorTakenOut ==
  ASSUME NEW W, W \subseteq Nodes, NEW w, Lists(w, W), NEW s \in W, NEW r, r = TakeOut(w, s)
  PROVE  \A x \in (W \ {s}) \union {Sentinel} :
           Prior(r, x) = IF Prior(w, x) = s THEN Prior(w, s) ELSE Prior(w, x)
<1>1. Sentinel \notin W
  BY CapListAssumption
<1>2. \A x \in W \ {s} : Position(r, x) = IF Position(w, x) < Position(w, s) THEN Position(w, x)
                                       ELSE Position(w, x) - 1
  BY TakeOutLists
<1>3. /\ Len(w) \in Nat
      /\ \A k \in 1 .. Len(w) : w[k] \in W /\ Position(w, w[k]) = k
      /\ \A x \in W : Position(w, x) \in 1 .. Len(w) /\ w[Position(w, x)] = x
  BY Positions
<1>4. PICK p : p = Position(w, s)
  OBVIOUS
<1>5. PICK n \in Nat : n = Len(w)
  BY <1>3
<1>6. p \in 1 .. n /\ w[p] = s
  BY <1>3, <1>4, <1>5
<1>7. /\ Len(r) = n - 1
      /\ \A k \in 1 .. n - 1 : r[k] = IF k < p THEN w[k] ELSE w[k + 1]
  BY <1>4, <1>5, <1>6, Removed DEF TakeOut, Lists
<1>8. \A k \in 1 .. n : w[k] = s <=> k = p
  BY <1>3, <1>4, <1>5, <1>6
<1>9. Prior(r, Sentinel) = IF Prior(w, Sentinel) = s THEN Prior(w, s) ELSE Prior(w, Sentinel)
  <2>1. Prior(r, Sentinel) = Nth(r, n - 1) /\ Prior(w, Sentinel) = w[n]
        /\ Prior(w, s) = Nth(w, p - 1)
    BY <1>1, <1>4, <1>5, <1>6, <1>7 DEF Prior, Nth
  <2>2. CASE p = n
    BY <1>6, <1>7, <2>1, <2>2 DEF Nth
  <2>3. CASE p # n
    BY <1>6, <1>7, <1>8, <2>1, <2>3 DEF Nth
  <2> QED
    BY <2>2, <2>3
<1>10. ASSUME NEW x \in W \ {s}
       PROVE  Prior(r, x) = IF Prior(w, x) = s THEN Prior(w, s) ELSE Prior(w, x)
  <2>1. PICK k : k = Position(w, x)
    OBVIOUS
  <2>2. k \in 1 .. n /\ w[k] = x /\ Prior(w, x) = Nth(w, k - 1) /\ k # p
        /\ Prior(w, s) = Nth(w, p - 1)
    BY <1>1, <1>3, <1>4, <1>5, <1>6, <2>1 DEF Prior
  <2>3. Prior(r, x) = Nth(r, IF k < p THEN k - 1 ELSE k - 2)
    BY <1>1, <1>2, <1>4, <1>6, <2>1, <2>2 DEF Prior
  <2>4. CASE k < p
    <3>1. Nth(r, k - 1) = Nth(w, k - 1)
      BY <1>6, <1>7, <2>2, <2>4 DEF Nth
    <3>2. Nth(w, k - 1) # s
      BY <1>1, <1>6, <1>8, <2>2, <2>4 DEF Nth
    <3> QED
      BY <2>2, <2>3, <2>4, <3>1, <3>2
  <2>5. CASE k = p + 1
    <3>1. Nth(r, k - 2) = Nth(w, p - 1)
      BY <1>6, <1>7, <2>2, <2>5 DEF Nth
    <3>2. Nth(w, k - 1) = s
      BY <1>6, <2>5 DEF Nth
    <3> QED
      BY <1>6, <2>2, <2>3, <2>5, <3>1, <3>2
  <2>6. CASE k > p + 1
    <3>1. Nth(r, k - 2) = Nth(w, k - 1)
      BY <1>6, <1>7, <2>2, <2>6 DEF Nth
    <3>2. Nth(w, k - 1) # s
      BY <1>1, <1>6, <1>8, <2>2, <2>6 DEF Nth
    <3> QED
      BY <1>6, <2>2, <2>3, <2>6, <3>1, <3>2
  <2> QED
    BY <1>6, <2>2, <2>4, <2>5, <2>6
<1> QED
  BY <1>9, <1>10

----------------------------------------------------------------------------
(* The nodes in the list, and those that prev links still lead through.    *)
Listed == {n \in Nodes : InList(n)}
Woven  == {n \in Nodes : InList(n) \/ Leaving(n) # {}}

Entered(h) == pc[h] \in {"fix_next", "fix_prev"}
Left(h)    == pc[h] \in {"read_next", "bypass"}
From(n)    == IF n = Sentinel THEN prev[n] ELSE Back(n)

(* w threads the nodes of the links, l those that are in the list.         *)
Threads(w) == Lists(w, Woven) /\ \A n \in Woven \union {Sentinel} : From(n) = Prior(w, n)
Keeps(w, l) == Lists(l, Listed) /\ \A x, y \in Listed : Ahead(l, x, y) <=> Ahead(w, x, y)
WInv == \E w, l : Threads(w) /\ Keeps(w, l)

(* What stands before a node, by who is at work on it.                     *)
Placed ==
  /\ \A h \in Harts : Entered(h) =>
       dst[h] \in Nodes /\ Entering(dst[h]) = {h} /\ Leaving(dst[h]) = {} /\ From(dst[h]) = src[h]
  /\ \A h \in Harts : Left(h) =>
       src[h] \in Nodes /\ Leaving(src[h]) = {h} /\ Entering(src[h]) = {} /\ From(src[h]) = pred[h]
  /\ \A n \in Ends : Entering(n) = {} /\ Leaving(n) = {} => From(n) = prev[n]
  /\ \A n \in Ends : prev[n] # Null => Entering(n) = {} /\ Leaving(n) = {}

LEMMA Places == PInv => Placed
<1> SUFFICES ASSUME PInv
             PROVE  Placed
  OBVIOUS
<1>1. /\ \A g \in Harts : HartOK(g)
      /\ Exclusive /\ Typed /\ prev[Sentinel] # Null
      /\ Null \notin Ends /\ Sentinel \notin Nodes /\ Sentinel \in Ends /\ Nodes \subseteq Ends
      /\ Null \notin Nodes
  BY CapListAssumption DEF PInv, Ends
<1>2. ASSUME NEW h \in Harts, Entered(h)
      PROVE  dst[h] \in Nodes /\ Entering(dst[h]) = {h} /\ Leaving(dst[h]) = {}
             /\ From(dst[h]) = src[h]
  <2>1. dst[h] \in Nodes /\ src[h] # dst[h]
    BY <1>1, <1>2 DEF HartOK, Entered, Inserting
  <2>2. Entering(dst[h]) = {h} /\ Leaving(dst[h]) = {}
    BY <1>1, <1>2, <2>1 DEF Entered, Entering, Leaving, Exclusive
  <2>3. (CHOOSE g \in Entering(dst[h]) : TRUE) = h
    BY <2>2
  <2> QED
    BY <1>1, <2>1, <2>2, <2>3 DEF From, Back
<1>3. ASSUME NEW h \in Harts, Left(h)
      PROVE  src[h] \in Nodes /\ Leaving(src[h]) = {h} /\ Entering(src[h]) = {}
             /\ From(src[h]) = pred[h]
  <2>1. src[h] \in Nodes /\ src[h] # dst[h]
    BY <1>1, <1>3 DEF HartOK, Left
  <2>2. Leaving(src[h]) = {h} /\ Entering(src[h]) = {}
    BY <1>1, <1>3, <2>1 DEF Left, Entering, Leaving, Exclusive
  <2>3. (CHOOSE g \in Leaving(src[h]) : TRUE) = h
    BY <2>2
  <2> QED
    BY <1>1, <2>1, <2>2, <2>3 DEF From, Back
<1>4. \A n \in Ends : Entering(n) = {} /\ Leaving(n) = {} => From(n) = prev[n]
  BY <1>1 DEF From, Back
<1>5. \A n \in Ends : prev[n] # Null => Entering(n) = {} /\ Leaving(n) = {}
  BY <1>1 DEF Entering, Leaving, HartOK, Inserting, Removing
<1> QED
  BY <1>2, <1>3, <1>4, <1>5 DEF Placed

(* The steps, by what they do to the list: nothing, link a node, set its   *)
(* own prev, take a node off the list, take it out of the links.           *)
Quiet(h) ==
  /\ prev' = prev /\ (Entered(h)' <=> Entered(h)) /\ (Left(h)' <=> Left(h))
  /\ Entered(h) \/ Left(h) => src'[h] = src[h] /\ dst'[h] = dst[h] /\ pred'[h] = pred[h]
Linked(h) ==
  /\ pc[h] = "link" /\ prev[succ[h]] = src[h] /\ prev' = [prev EXCEPT ![succ[h]] = dst[h]]
  /\ Entered(h)' /\ ~Left(h)' /\ src'[h] = src[h] /\ dst'[h] = dst[h]
Settled(h) ==
  /\ pc[h] = "fix_prev" /\ prev' = [prev EXCEPT ![dst[h]] = src[h]]
  /\ ~Entered(h)' /\ ~Left(h)'
Cleared(h) ==
  /\ pc[h] = "clear" /\ prev[src[h]] = pred[h] /\ prev' = [prev EXCEPT ![src[h]] = Null]
  /\ ~Entered(h)' /\ Left(h)' /\ src'[h] = src[h] /\ pred'[h] = pred[h]
Bypassed(h) ==
  /\ pc[h] = "bypass" /\ prev[succ[h]] = src[h] /\ prev' = [prev EXCEPT ![succ[h]] = pred[h]]
  /\ ~Entered(h)' /\ ~Left(h)'

LEMMA Kinds ==
  ASSUME PInv, NEW h \in Harts, Act(h)
  PROVE  Quiet(h) \/ Linked(h) \/ Settled(h) \/ Cleared(h) \/ Bypassed(h)
<1> USE DEF Goto, is_deleted, compare_and_set_prev, Entered, Left
<1>1. pc \in [Harts -> {"idle"} \union Inserting \union Finding \union Removing]
      /\ src \in [Harts -> Links] /\ dst \in [Harts -> Links] /\ pred \in [Harts -> Links]
  BY DEF PInv, Typed
<1>2. ASSUME NEW s \in Free, NEW d \in Free, NEW o \in {"derive", "move"}, StartInsert(h, o, s, d)
      PROVE  Quiet(h)
  BY <1>1, <1>2 DEF StartInsert, Quiet
<1>3. ASSUME NEW s \in Free, Delete(h, s)
      PROVE  Quiet(h)
  BY <1>1, <1>3 DEF Delete, Quiet
<1>4. CASE LoadNext(h)
  BY <1>1, <1>4 DEF LoadNext, Quiet
<1>5. CASE Point(h)
  <2>1. pc[h] = "point" /\ prev' = prev /\ pc'[h] \in {"idle", "link"}
    BY <1>1, <1>5 DEF Point, Return
  <2> QED
    BY <2>1 DEF Quiet
<1>6. CASE Link(h)
  BY <1>1, <1>6 DEF Link, Quiet, Linked
<1>7. CASE FixNext(h)
  BY <1>1, <1>7 DEF FixNext, Quiet
<1>8. CASE FixPrev(h)
  <2>1. pc[h] = "fix_prev" /\ prev' = [prev EXCEPT ![dst[h]] = src[h]]
        /\ pc'[h] \in {"idle", "read_prev"}
    BY <1>1, <1>8 DEF FixPrev, Return
  <2> QED
    BY <2>1 DEF Settled
<1>9. CASE ReadPrev(h)
  <2>1. pc[h] = "read_prev" /\ prev' = prev /\ pc'[h] \in {"idle", "clear"}
    BY <1>1, <1>9 DEF ReadPrev, Return
  <2> QED
    BY <2>1 DEF Quiet
<1>10. CASE Clear(h)
  BY <1>1, <1>10 DEF Clear, Quiet, Cleared
<1>11. CASE ReadNext(h)
  BY <1>1, <1>11 DEF ReadNext, Quiet
<1>12. CASE Bypass(h)
  BY <1>1, <1>12 DEF Bypass, Quiet, Bypassed
<1>13. CASE Repair(h)
  BY <1>1, <1>13 DEF Repair, Return, Quiet
<1> QED
  BY <1>2, <1>3, <1>4, <1>5, <1>6, <1>7, <1>8, <1>9, <1>10, <1>11, <1>12, <1>13
  DEF Act, Step, Derive, Move

(* Who is entering or leaving after a step of h.                           *)
LEMMA Movers ==
  ASSUME NEW h \in Harts, Calm(h), NEW n
  PROVE  /\ Entering(n)' = {g \in Harts \ {h} : Entered(g) /\ dst[g] = n}
                           \union {g \in {h} : Entered(h)' /\ dst'[h] = n}
         /\ Leaving(n)' = {g \in Harts \ {h} : Left(g) /\ src[g] = n}
                           \union {g \in {h} : Left(h)' /\ src'[h] = n}
<1>1. \A g \in Harts \ {h} : pc'[g] = pc[g] /\ src'[g] = src[g] /\ dst'[g] = dst[g]
  BY DEF Calm
<1>2. Entering(n)' = {g \in Harts : Entered(g)' /\ dst'[g] = n}
      /\ Leaving(n)' = {g \in Harts : Left(g)' /\ src'[g] = n}
  BY DEF Entering, Leaving, Entered, Left
<1>3. \A g \in Harts \ {h} : (Entered(g)' <=> Entered(g)) /\ (Left(g)' <=> Left(g))
  BY <1>1 DEF Entered, Left
<1> QED
  BY <1>1, <1>2, <1>3

----------------------------------------------------------------------------
(* What a step of h does to the list l.                                    *)
Change(l, m) ==
  \/ m = l
  \/ \E s \in Listed : m = TakeOut(l, s) \/ \E n \in Nodes \ Listed : m = InsertAfter(l, s, n)
NextThread(l) == \E u, m : Threads(u)' /\ Keeps(u, m)' /\ Change(l, m)

LEMMA Scope == /\ Listed \subseteq Woven /\ Woven \subseteq Nodes /\ Woven \union {Sentinel} \subseteq Ends
               /\ Listed = {n \in Nodes : prev[n] # Null \/ Entering(n) # {}}
               /\ Woven = {n \in Nodes : prev[n] # Null \/ Entering(n) # {} \/ Leaving(n) # {}}
               /\ Nodes \subseteq Ends /\ Sentinel \in Ends /\ Sentinel \notin Nodes
               /\ Null \notin Ends /\ Ends = Nodes \union {Sentinel}
BY CapListAssumption DEF Listed, Woven, InList, is_deleted, Ends

(* A step that leaves the links as they are.                               *)
Still == Woven' = Woven /\ \A n \in Ends : From(n)' = From(n)

LEMMA Same ==
  ASSUME Listed' = Listed, Still, NEW w, NEW l, Threads(w), Keeps(w, l)
  PROVE  NextThread(l)
<1>1. Threads(w)'
  BY Scope DEF Threads, Still
<1>2. Keeps(w, l)'
  BY DEF Keeps
<1>3. Change(l, l)
  BY DEF Change
<1> QED
  BY <1>1, <1>2, <1>3 DEF NextThread

LEMMA AfterQuiet ==
  ASSUME Placed, Placed', NEW h \in Harts, Calm(h), Quiet(h)
  PROVE  Still /\ Listed' = Listed
<1>1. \A n : Entering(n)' = Entering(n) /\ Leaving(n)' = Leaving(n)
  <2> SUFFICES ASSUME NEW n
               PROVE  Entering(n)' = Entering(n) /\ Leaving(n)' = Leaving(n)
    OBVIOUS
  <2>1. Entering(n) = {g \in Harts : Entered(g) /\ dst[g] = n}
        /\ Leaving(n) = {g \in Harts : Left(g) /\ src[g] = n}
    BY DEF Entering, Leaving, Entered, Left
  <2>2. (Entered(h)' /\ dst'[h] = n <=> Entered(h) /\ dst[h] = n)
        /\ (Left(h)' /\ src'[h] = n <=> Left(h) /\ src[h] = n)
    BY DEF Quiet
  <2> QED
    BY <2>1, <2>2, Movers
<1>2. prev' = prev
  BY DEF Quiet
<1>3. Listed' = Listed /\ Woven' = Woven
  BY <1>1, <1>2 DEF Listed, Woven, InList, is_deleted
<1>4. \A g \in Harts : Entered(g) => Entered(g)' /\ dst'[g] = dst[g] /\ src'[g] = src[g]
  BY DEF Calm, Quiet, Entered
<1>5. \A g \in Harts : Left(g) => Left(g)' /\ pred'[g] = pred[g] /\ src'[g] = src[g]
  BY DEF Calm, Quiet, Left
<1>6. ASSUME NEW n \in Ends
      PROVE  From(n)' = From(n)
  <2>1. CASE Entering(n) # {}
    <3>1. PICK g \in Harts : Entered(g) /\ dst[g] = n
      BY <2>1 DEF Entering, Entered
    <3>2. From(n) = src[g]
      BY <3>1 DEF Placed
    <3>3. From(dst[g])' = src'[g]
      BY <1>4, <3>1 DEF Placed
    <3> QED
      BY <1>4, <3>1, <3>2, <3>3
  <2>2. CASE Leaving(n) # {}
    <3>1. PICK g \in Harts : Left(g) /\ src[g] = n
      BY <2>2 DEF Leaving, Left
    <3>2. From(n) = pred[g]
      BY <3>1 DEF Placed
    <3>3. From(src[g])' = pred'[g]
      BY <1>5, <3>1 DEF Placed
    <3> QED
      BY <1>5, <3>1, <3>2, <3>3
  <2>3. CASE Entering(n) = {} /\ Leaving(n) = {}
    <3>1. From(n) = prev[n]
      BY <2>3 DEF Placed
    <3>2. From(n)' = prev'[n]
      BY <1>1, <2>3 DEF Placed
    <3> QED
      BY <1>2, <3>1, <3>2
  <2> QED
    BY <2>1, <2>2, <2>3
<1> QED
  BY <1>3, <1>6 DEF Still

(* A node that h does not touch.                                           *)
LEMMA Untouched ==
  ASSUME Placed, Placed', NEW h \in Harts, Calm(h), NEW n \in Ends, prev'[n] = prev[n],
         ~(Entered(h) /\ dst[h] = n), ~(Entered(h)' /\ dst'[h] = n),
         ~(Left(h) /\ src[h] = n), ~(Left(h)' /\ src'[h] = n)
  PROVE  /\ From(n)' = From(n) /\ (n \in Listed' <=> n \in Listed) /\ (n \in Woven' <=> n \in Woven)
<1>1. Entering(n)' = Entering(n) /\ Leaving(n)' = Leaving(n)
  <2>1. Entering(n) = {g \in Harts : Entered(g) /\ dst[g] = n}
        /\ Leaving(n) = {g \in Harts : Left(g) /\ src[g] = n}
    BY DEF Entering, Leaving, Left, Entered
  <2> QED
    BY <2>1, Movers
<1>2. \A g \in Harts \ {h} :
         /\ pc'[g] = pc[g] /\ dst'[g] = dst[g] /\ src'[g] = src[g] /\ pred'[g] = pred[g]
         /\ (Entered(g)' <=> Entered(g)) /\ (Left(g)' <=> Left(g))
  BY DEF Calm, Entered, Left
<1>3. CASE Entering(n) # {}
  <2>1. PICK g \in Harts : Entered(g) /\ dst[g] = n
    BY <1>3 DEF Entering, Entered
  <2>2. From(n) = src[g]
    BY <2>1 DEF Placed
  <2>3. g # h
    BY <2>1
  <2>4. From(dst[g])' = src'[g]
    BY <1>2, <2>1, <2>3 DEF Placed
  <2>5. From(n)' = From(n)
    BY <1>2, <2>1, <2>2, <2>3, <2>4
  <2> QED
    BY <1>1, <2>5 DEF Listed, Woven, InList, is_deleted
<1>4. CASE Leaving(n) # {}
  <2>1. PICK g \in Harts : Left(g) /\ src[g] = n
    BY <1>4 DEF Leaving, Left
  <2>2. From(n) = pred[g]
    BY <2>1 DEF Placed
  <2>3. g # h
    BY <2>1
  <2>4. From(src[g])' = pred'[g]
    BY <1>2, <2>1, <2>3 DEF Placed
  <2>5. From(n)' = From(n)
    BY <1>2, <2>1, <2>2, <2>3, <2>4
  <2> QED
    BY <1>1, <2>5 DEF Listed, Woven, InList, is_deleted
<1>5. CASE Entering(n) = {} /\ Leaving(n) = {}
  <2>1. From(n) = prev[n]
    BY <1>5 DEF Placed
  <2>2. From(n)' = prev'[n]
    BY <1>1, <1>5 DEF Placed
  <2> QED
    BY <1>1, <2>1, <2>2 DEF Listed, Woven, InList, is_deleted
<1> QED
  BY <1>3, <1>4, <1>5

LEMMA AfterSettled ==
  ASSUME PInv, Placed, Placed', NEW h \in Harts, Calm(h), Settled(h)
  PROVE  Still /\ Listed' = Listed
<1>1. /\ pc[h] = "fix_prev" /\ dst[h] \in Nodes /\ src[h] \in Nodes
      /\ Entering(dst[h]) = {h} /\ Leaving(dst[h]) = {} /\ From(dst[h]) = src[h]
      /\ Entered(h) /\ ~Left(h) /\ prev \in [Ends -> Links]
  BY DEF PInv, HartOK, Settled, Placed, Typed, Left, Entered
<1>2. PICK d : d = dst[h]
  OBVIOUS
<1>3. /\ ~Entered(h)' /\ ~Left(h)'
      /\ prev'[d] = src[h] /\ \A n \in Ends : n # d => prev'[n] = prev[n]
  BY <1>1, <1>2, Scope DEF Settled
<1>4. \A n \in Ends : n # d =>
        From(n)' = From(n) /\ (n \in Listed' <=> n \in Listed) /\ (n \in Woven' <=> n \in Woven)
  BY <1>1, <1>2, <1>3, Untouched
<1>5. From(d)' = From(d)
  <2>1. Entering(d)' = {} /\ Leaving(d)' = {}
    BY <1>1, <1>2, <1>3, Scope DEF Placed
  <2>2. From(d)' = prev'[d]
    BY <1>1, <1>2, <2>1, Scope DEF Placed
  <2> QED
    BY <1>1, <1>2, <1>3, <2>2
<1>6. d \in Listed /\ d \in Listed' /\ d \in Woven /\ d \in Woven'
  <2>1. Listed' = {n \in Nodes : prev'[n] # Null \/ Entering(n)' # {}}
        /\ Woven' = {n \in Nodes : prev'[n] # Null \/ Entering(n)' # {} \/ Leaving(n)' # {}}
    BY DEF Listed, Woven, InList, is_deleted
  <2> QED
    BY <1>1, <1>2, <1>3, <2>1, Scope
<1>7. Listed' \subseteq Nodes /\ Woven' \subseteq Nodes
  BY DEF Listed, Woven, InList, is_deleted
<1>8. Listed' = Listed /\ Woven' = Woven
  BY <1>4, <1>6, <1>7, Scope
<1> QED
  BY <1>4, <1>5, <1>8 DEF Still

LEMMA AfterCleared ==
  ASSUME PInv, Placed, Placed', NEW h \in Harts, Calm(h), Cleared(h)
  PROVE  Still /\ src[h] \in Listed /\ Listed' = Listed \ {src[h]}
<1>1. /\ pc[h] = "clear" /\ src[h] \in Nodes /\ prev[src[h]] # Null /\ prev[src[h]] = pred[h]
      /\ ~Entered(h) /\ ~Left(h) /\ prev \in [Ends -> Links]
  BY DEF PInv, HartOK, Cleared, Typed, Left, Entered, Finding
<1>2. PICK s : s = src[h]
  OBVIOUS
<1>3. /\ ~Entered(h)' /\ Left(h)' /\ src'[h] = s /\ pred'[h] = pred[h]
      /\ prev'[s] = Null /\ \A n \in Ends : n # s => prev'[n] = prev[n]
  BY <1>1, <1>2, Scope DEF Cleared
<1>4. \A n \in Ends : n # s =>
        From(n)' = From(n) /\ (n \in Listed' <=> n \in Listed) /\ (n \in Woven' <=> n \in Woven)
  BY <1>1, <1>2, <1>3, Untouched
<1>5. From(s)' = From(s)
  <2>1. From(s) = pred[h]
    BY <1>1, <1>2, Scope DEF Placed
  <2>2. From(src[h])' = pred'[h]
    BY <1>3 DEF Placed
  <2> QED
    BY <1>2, <1>3, <2>1, <2>2
<1>6. s \in Listed /\ s \notin Listed' /\ s \in Woven /\ s \in Woven'
  <2>1. Listed' = {n \in Nodes : prev'[n] # Null \/ Entering(n)' # {}}
        /\ Woven' = {n \in Nodes : prev'[n] # Null \/ Entering(n)' # {} \/ Leaving(n)' # {}}
    BY DEF Listed, Woven, InList, is_deleted
  <2>2. Entering(src[h])' = {} /\ Leaving(src[h])' = {h}
    BY <1>3 DEF Placed
  <2> QED
    BY <1>1, <1>2, <1>3, <2>1, <2>2, Scope
<1>7. Listed' \subseteq Nodes /\ Woven' \subseteq Nodes
  BY DEF Listed, Woven, InList, is_deleted
<1>8. Listed' = Listed \ {s} /\ Woven' = Woven
  BY <1>4, <1>6, <1>7, Scope
<1> QED
  BY <1>2, <1>4, <1>5, <1>6, <1>8 DEF Still

LEMMA OnCleared ==
  ASSUME Still, NEW s \in Listed, Listed' = Listed \ {s},
         NEW w, NEW l, Threads(w), Keeps(w, l)
  PROVE  NextThread(l)
<1>1. PICK m : m = TakeOut(l, s)
  OBVIOUS
<1>2. Threads(w)'
  BY Scope DEF Threads, Still
<1>3. Lists(m, Listed \ {s}) /\ \A x, y : x # s /\ y # s => (Ahead(m, x, y) <=> Ahead(l, x, y))
  BY <1>1, TakeOutLists, AheadTakenOut DEF Keeps
<1>4. Keeps(w, m)'
  BY <1>3 DEF Keeps
<1> QED
  BY <1>1, <1>2, <1>4 DEF NextThread, Change

(* u, which stood after s, stands after p, which stood before s.           *)
Drops(s, u, p) ==
  /\ s \in Woven \ Listed /\ Woven' = Woven \ {s} /\ Listed' = Listed
  /\ u \in Woven' \union {Sentinel} /\ From(u) = s /\ From(s) = p /\ From(u)' = p
  /\ \A n \in Ends : n # s /\ n # u => From(n)' = From(n)

LEMMA AfterBypassed ==
  ASSUME PInv, Placed, Placed', NEW h \in Harts, Calm(h), Bypassed(h)
  PROVE  Drops(src[h], succ[h], pred[h])
<1>1. /\ src[h] \in Nodes /\ prev[src[h]] = Null /\ pred[h] \in Ends /\ succ[h] \in Ends
      /\ Entering(src[h]) = {} /\ Leaving(src[h]) = {h} /\ From(src[h]) = pred[h]
      /\ ~Entered(h) /\ Left(h) /\ prev \in [Ends -> Links]
  BY DEF PInv, HartOK, Bypassed, Placed, Typed, Left, Entered, Removing
<1>2. PICK s, u, p : s = src[h] /\ u = succ[h] /\ p = pred[h]
  OBVIOUS
<1>3. /\ ~Entered(h)' /\ ~Left(h)' /\ prev[u] = s /\ u # s
      /\ prev'[s] = Null /\ prev'[u] = p /\ \A n \in Ends : n # u => prev'[n] = prev[n]
  BY <1>1, <1>2, Scope DEF Bypassed
<1>4. \A n \in Ends : n # s /\ n # u =>
        From(n)' = From(n) /\ (n \in Listed' <=> n \in Listed) /\ (n \in Woven' <=> n \in Woven)
  BY <1>1, <1>2, <1>3, Untouched
<1>5. From(u) = s /\ From(s) = p
  <2>1. Entering(u) = {} /\ Leaving(u) = {}
    BY <1>1, <1>2, <1>3, Scope DEF Placed
  <2> QED
    BY <1>1, <1>2, <1>3, <2>1 DEF Placed
<1>6. From(u)' = p
  <2>1. Entering(u)' = {} /\ Leaving(u)' = {}
    BY <1>1, <1>2, <1>3, Scope DEF Placed
  <2> QED
    BY <1>1, <1>2, <1>3, <2>1 DEF Placed
<1>7. Listed' = {n \in Nodes : prev'[n] # Null \/ Entering(n)' # {}}
      /\ Woven' = {n \in Nodes : prev'[n] # Null \/ Entering(n)' # {} \/ Leaving(n)' # {}}
  BY DEF Listed, Woven, InList, is_deleted
<1>8. s \notin Listed /\ s \notin Listed' /\ s \in Woven /\ s \notin Woven'
  <2>1. Entering(s) = {g \in Harts : Entered(g) /\ dst[g] = s}
        /\ Leaving(s) = {g \in Harts : Left(g) /\ src[g] = s}
    BY DEF Entering, Leaving, Entered, Left
  <2>2. Entering(s)' = {} /\ Leaving(s)' = {}
    BY <1>1, <1>2, <1>3, <2>1, Movers
  <2> QED
    BY <1>1, <1>2, <1>3, <1>7, <2>2, Scope
<1>9. u # Sentinel => u \in Listed /\ u \in Listed' /\ u \in Woven /\ u \in Woven'
  BY <1>1, <1>2, <1>3, <1>7, Scope
<1>10. Listed' = Listed /\ Woven' = Woven \ {s}
  <2>1. \A n \in Nodes : n # s => (n \in Listed' <=> n \in Listed) /\ (n \in Woven' <=> n \in Woven)
    BY <1>4, <1>9, Scope
  <2> QED
    BY <1>7, <1>8, <2>1, Scope
<1>11. u \in Woven' \union {Sentinel}
  BY <1>1, <1>2, <1>9, Scope
<1>12. Drops(s, u, p)
  BY <1>4, <1>5, <1>6, <1>8, <1>10, <1>11 DEF Drops
<1> QED
  BY <1>2, <1>12

LEMMA OnBypassed ==
  ASSUME NEW s, NEW u, NEW p, Drops(s, u, p), NEW w, NEW l, Threads(w), Keeps(w, l)
  PROVE  NextThread(l)
<1> USE DEF Drops
<1>1. PICK r : r = TakeOut(w, s)
  OBVIOUS
<1>2. Lists(r, Woven \ {s})
  BY <1>1, TakeOutLists DEF Threads
<1>3. \A n \in (Woven \ {s}) \union {Sentinel} :
        Prior(r, n) = IF Prior(w, n) = s THEN Prior(w, s) ELSE Prior(w, n)
  BY <1>1, Scope, PriorTakenOut DEF Threads
<1>4. \A n \in Woven \union {Sentinel} : Prior(w, n) = From(n)
  BY DEF Threads
<1>5. \A n \in Woven \union {Sentinel} : From(n) = s => n = u
  BY <1>4, Scope, Priors DEF Threads
<1>6. ASSUME NEW n \in (Woven \ {s}) \union {Sentinel}
      PROVE  From(n)' = Prior(r, n)
  <2>1. CASE n = u
    BY <1>3, <1>4, <2>1
  <2>2. CASE n # u
    <3>1. n \in Ends /\ n # s
      BY Scope
    <3> QED
      BY <1>3, <1>4, <1>5, <2>2, <3>1
  <2> QED
    BY <2>1, <2>2
<1>7. Threads(r)'
  BY <1>2, <1>6 DEF Threads
<1>8. \A x, y : x # s /\ y # s => (Ahead(r, x, y) <=> Ahead(w, x, y))
  BY <1>1, AheadTakenOut DEF Threads
<1>9. Keeps(r, l)'
  BY <1>8 DEF Keeps
<1> QED
  BY <1>7, <1>9 DEF NextThread, Change

(* d stands between s and u.                                               *)
Puts(s, d, u) ==
  /\ d \in Nodes \ Woven /\ Woven' = Woven \union {d} /\ Listed' = Listed \union {d} /\ s \in Listed
  /\ u \in Woven \union {Sentinel} /\ From(u) = s /\ From(u)' = d /\ From(d)' = s
  /\ \A n \in Ends : n # d /\ n # u => From(n)' = From(n)

LEMMA AfterLinked ==
  ASSUME PInv, Placed, Placed', NEW h \in Harts, Calm(h), Linked(h)
  PROVE  Puts(src[h], dst[h], succ[h])
<1>1. /\ src[h] \in Nodes /\ prev[src[h]] # Null /\ dst[h] \in Nodes /\ prev[dst[h]] = Null
      /\ succ[h] \in Ends /\ pc[h] = "link"
      /\ ~Entered(h) /\ ~Left(h) /\ prev \in [Ends -> Links]
  BY DEF PInv, HartOK, Linked, Typed, Left, Entered, Inserting
<1>2. PICK s, u, d : s = src[h] /\ u = succ[h] /\ d = dst[h]
  OBVIOUS
<1>3. /\ Entered(h)' /\ ~Left(h)' /\ src'[h] = s /\ dst'[h] = d /\ prev[u] = s /\ u # d
      /\ prev'[u] = d /\ \A n \in Ends : n # u => prev'[n] = prev[n]
  BY <1>1, <1>2, Scope DEF Linked
<1>4. \A n \in Ends : n # d /\ n # u =>
        From(n)' = From(n) /\ (n \in Listed' <=> n \in Listed) /\ (n \in Woven' <=> n \in Woven)
  BY <1>1, <1>2, <1>3, Untouched
<1>5. From(u) = s
  <2>1. Entering(u) = {} /\ Leaving(u) = {}
    BY <1>1, <1>2, <1>3, Scope DEF Placed
  <2> QED
    BY <1>1, <1>2, <1>3, <2>1 DEF Placed
<1>6. From(u)' = d /\ From(d)' = s
  <2>1. Entering(u)' = {} /\ Leaving(u)' = {}
    BY <1>1, <1>2, <1>3, Scope DEF Placed
  <2>2. From(dst[h])' = src'[h]
    BY <1>3 DEF Placed
  <2> QED
    BY <1>1, <1>2, <1>3, <2>1, <2>2 DEF Placed
<1>7. Listed' = {n \in Nodes : prev'[n] # Null \/ Entering(n)' # {}}
      /\ Woven' = {n \in Nodes : prev'[n] # Null \/ Entering(n)' # {} \/ Leaving(n)' # {}}
  BY DEF Listed, Woven, InList, is_deleted
<1>8. d \notin Listed /\ d \in Listed' /\ d \notin Woven /\ d \in Woven' /\ s \in Listed /\ s \in Woven
  <2>1. Entering(d) = {} /\ Leaving(d) = {}
    BY <1>1, <1>2, Scope DEF PInv, Exclusive, Entering, Leaving
  <2>2. h \in Entering(d)'
    BY <1>3 DEF Entering, Entered
  <2> QED
    BY <1>1, <1>2, <1>7, <2>1, <2>2, Scope
<1>9. u # Sentinel => u \in Listed /\ u \in Listed' /\ u \in Woven /\ u \in Woven'
  BY <1>1, <1>2, <1>3, <1>7, Scope
<1>10. Listed' = Listed \union {d} /\ Woven' = Woven \union {d}
  <2>1. \A n \in Nodes : n # d => (n \in Listed' <=> n \in Listed) /\ (n \in Woven' <=> n \in Woven)
    BY <1>4, <1>9, Scope
  <2> QED
    BY <1>1, <1>2, <1>7, <1>8, <2>1, Scope
<1>11. d \in Nodes \ Woven /\ u \in Woven \union {Sentinel}
  BY <1>1, <1>2, <1>8, <1>9, Scope
<1>12. Puts(s, d, u)
  BY <1>4, <1>5, <1>6, <1>8, <1>10, <1>11 DEF Puts
<1> QED
  BY <1>2, <1>12

LEMMA OnLinked ==
  ASSUME NEW s, NEW d, NEW u, Puts(s, d, u), NEW w, NEW l, Threads(w), Keeps(w, l)
  PROVE  NextThread(l)
<1> USE DEF Puts
<1>0. s \in Woven /\ d \notin Listed
  BY Scope
<1>1. PICK r, m : r = InsertAfter(w, s, d) /\ m = InsertAfter(l, s, d)
  OBVIOUS
<1>2. Lists(r, Woven \union {d}) /\ Lists(m, Listed \union {d})
  BY <1>0, <1>1, InsertLists DEF Threads, Keeps
<1>3. /\ Prior(r, d) = s
      /\ \A n \in Woven \union {Sentinel} : Prior(r, n) = IF Prior(w, n) = s THEN d ELSE Prior(w, n)
  BY <1>0, <1>1, Scope, PriorInserted DEF Threads
<1>4. \A n \in Woven \union {Sentinel} : Prior(w, n) = From(n)
  BY DEF Threads
<1>5. \A n \in Woven \union {Sentinel} : From(n) = s => n = u
  BY <1>4, Scope, Priors DEF Threads
<1>6. ASSUME NEW n \in (Woven \union {d}) \union {Sentinel}
      PROVE  From(n)' = Prior(r, n)
  <2>1. CASE n = u
    BY <1>3, <1>4, <2>1
  <2>2. CASE n = d
    BY <1>3, <2>2
  <2>3. CASE n # u /\ n # d
    <3>1. n \in Ends /\ n \in Woven \union {Sentinel}
      BY <2>3, Scope
    <3> QED
      BY <1>3, <1>4, <1>5, <2>3, <3>1
  <2> QED
    BY <2>1, <2>2, <2>3
<1>7. Threads(r)'
  BY <1>2, <1>6 DEF Threads
<1>8. Keeps(r, m)'
  <2>1. /\ \A x, y : x # d /\ y # d => (Ahead(r, x, y) <=> Ahead(w, x, y))
        /\ \A x : Ahead(r, x, d) <=> x = s \/ Ahead(w, x, s)
        /\ \A y : Ahead(r, d, y) <=> Ahead(w, s, y)
    BY <1>0, <1>1, AheadInserted DEF Threads
  <2>2. /\ \A x, y : x # d /\ y # d => (Ahead(m, x, y) <=> Ahead(l, x, y))
        /\ \A x : Ahead(m, x, d) <=> x = s \/ Ahead(l, x, s)
        /\ \A y : Ahead(m, d, y) <=> Ahead(l, s, y)
    BY <1>0, <1>1, AheadInserted DEF Keeps
  <2>3. ~Ahead(r, d, d) /\ ~Ahead(m, d, d)
    BY <1>2, AheadOrders
  <2>4. \A x, y \in Listed : Ahead(l, x, y) <=> Ahead(w, x, y)
    BY DEF Keeps
  <2>5. \A x, y \in Listed \union {d} : Ahead(m, x, y) <=> Ahead(r, x, y)
    BY <1>0, <2>1, <2>2, <2>3, <2>4
  <2> QED
    BY <1>2, <2>5 DEF Keeps
<1> QED
  BY <1>0, <1>1, <1>7, <1>8 DEF NextThread, Change

(* Every step of a hart is a step of the list, or leaves it as it is.      *)
LEMMA Changes ==
  ASSUME PInv, NEW h \in Harts, Act(h), NEW w, NEW l, Threads(w), Keeps(w, l)
  PROVE  NextThread(l)
<1>1. Placed
  BY Places
<1>2. PInv' => Placed'
  BY Places, PTL
<1>3. Placed' /\ Calm(h)
  BY <1>2, Frame, Others
<1>4. CASE Quiet(h) \/ Settled(h)
  BY <1>1, <1>3, <1>4, AfterQuiet, AfterSettled, Same
<1>5. CASE Cleared(h)
  BY <1>1, <1>3, <1>5, AfterCleared, OnCleared
<1>6. CASE Bypassed(h)
  BY <1>1, <1>3, <1>6, AfterBypassed, OnBypassed
<1>7. CASE Linked(h)
  BY <1>1, <1>3, <1>7, AfterLinked, OnLinked
<1> QED
  BY <1>4, <1>5, <1>6, <1>7, Kinds

----------------------------------------------------------------------------
(* A sequence that lists a finite set is as long as the set is large.      *)
LEMMA ListLength ==
  ASSUME NEW X, IsFiniteSet(X), NEW l, Lists(l, X)
  PROVE  Len(l) = Cardinality(X) /\ l \in [1 .. Cardinality(X) -> X]
<1>1. PICK n \in Nat : n = Len(l)
  BY LenProperties DEF Lists
<1>2. l \in [1 .. n -> X]
  BY <1>1, LenProperties DEF Lists
<1>3. \A a, b \in 1 .. n : l[a] = l[b] => a = b
  BY <1>2 DEF Lists, IsInjective
<1>4. \A x \in X : \E i \in 1 .. n : l[i] = x
  BY <1>2 DEF Lists, Range
<1>5. l \in Surjection(1 .. n, X) /\ l \in Injection(1 .. n, X)
  BY <1>2, <1>3, <1>4 DEF Surjection, Injection, IsInjective
<1>6. IsFiniteSet(1 .. n) /\ Cardinality(1 .. n) = n
  BY FS_Interval
<1> QED
  BY <1>1, <1>2, <1>5, <1>6, FS_Surjection

(* What is threaded is what following Back from the sentinel meets, and    *)
(* there is one such sequence only.                                        *)
LEMMA ThreadIsWalk ==
  ASSUME NEW w, Threads(w)
  PROVE  w \in Walks
<1>1. /\ Len(w) \in Nat /\ DOMAIN w = 1 .. Len(w)
      /\ \A k \in 1 .. Len(w) : w[k] \in Woven /\ Position(w, w[k]) = k
      /\ \A x \in Woven : Position(w, x) \in 1 .. Len(w) /\ w[Position(w, x)] = x
  BY Positions DEF Threads
<1>2. IsFiniteSet(Woven) /\ Cardinality(Woven) \in 0 .. Cardinality(Nodes)
  <2>1. Woven \in SUBSET Nodes
    BY Scope
  <2>2. IsFiniteSet(Woven) /\ Cardinality(Woven) <= Cardinality(Nodes)
    BY <2>1, FS_Subset, CapListAssumption
  <2> QED
    BY <2>2, FS_CardinalityType, CapListAssumption
<1>3. w \in [1 .. Cardinality(Woven) -> Nodes]
  <2>1. w \in [1 .. Cardinality(Woven) -> Woven]
    BY <1>2, ListLength DEF Threads
  <2> QED
    BY <2>1, Scope
<1>4. w \in Rows
  BY <1>2, <1>3 DEF Rows
<1>5. prev[Sentinel] = Nth(w, Len(w))
  BY DEF Threads, From, Prior
<1>6. ASSUME NEW i \in DOMAIN w
      PROVE  Back(w[i]) = Nth(w, i - 1)
  <2>1. w[i] \in Woven /\ Position(w, w[i]) = i /\ w[i] # Sentinel
    BY <1>1, Scope
  <2> QED
    BY <2>1 DEF Threads, From, Prior
<1> QED
  BY <1>4, <1>5, <1>6 DEF Walks, Chain

LEMMA OneWalk ==
  ASSUME NEW v \in Walks, NEW w \in Walks
  PROVE  v = w
<1>1. PICK m \in Nat : v \in [1 .. m -> Nodes] /\ m = Len(v)
  <2>1. PICK k \in 0 .. Cardinality(Nodes) : v \in [1 .. k -> Nodes]
    BY DEF Walks, Rows
  <2>2. k \in Nat
    BY FS_CardinalityType, CapListAssumption
  <2>3. v \in Seq(Nodes)
    BY <2>1, <2>2, SeqDef
  <2> QED
    BY <2>1, <2>2, <2>3, LenProperties
<1>2. PICK n \in Nat : w \in [1 .. n -> Nodes] /\ n = Len(w)
  <2>1. PICK k \in 0 .. Cardinality(Nodes) : w \in [1 .. k -> Nodes]
    BY DEF Walks, Rows
  <2>2. k \in Nat
    BY FS_CardinalityType, CapListAssumption
  <2>3. w \in Seq(Nodes)
    BY <2>1, <2>2, SeqDef
  <2> QED
    BY <2>1, <2>2, <2>3, LenProperties
<1>3. /\ Nth(v, m) = Nth(w, n)
      /\ \A i \in 1 .. m : Back(v[i]) = Nth(v, i - 1)
      /\ \A i \in 1 .. n : Back(w[i]) = Nth(w, i - 1)
  BY <1>1, <1>2 DEF Walks, Chain
<1>4. Sentinel \notin Nodes
  BY CapListAssumption
<1> DEFINE P(j) == j <= m /\ j <= n => Nth(v, m - j) = Nth(w, n - j)
<1>5. \A j \in Nat : P(j)
  <2> SUFFICES ASSUME NEW B, B = {j \in Nat : ~P(j)}, B # {} PROVE FALSE
    OBVIOUS
  <2> HIDE DEF P
  <2>1. PICK j \in B : \A i \in B : ~(i < j)
    <3>1. B \subseteq Nat
      OBVIOUS
    <3>2. PICK j \in B : \A i \in B : <<i, j>> \notin OpToRel(<, Nat)
      BY <3>1, NatLessThanWellFounded, WFMin
    <3> QED
      BY <3>1, <3>2 DEF OpToRel
  <2>2. j \in Nat /\ j <= m /\ j <= n /\ Nth(v, m - j) # Nth(w, n - j)
    BY <2>1 DEF P
  <2>3. j # 0
    BY <1>3, <2>2
  <2>4. PICK i \in Nat : i = j - 1
    BY <2>2, <2>3
  <2>5. P(i)
    BY <2>1, <2>2, <2>4
  <2>6. Nth(v, m - i) = Nth(w, n - i)
    BY <2>2, <2>4, <2>5 DEF P
  <2>7. PICK a, b : a = m - i /\ b = n - i /\ a \in 1 .. m /\ b \in 1 .. n
    BY <2>2, <2>4
  <2>8. v[a] = w[b]
    BY <2>6, <2>7 DEF Nth
  <2>9. Nth(v, a - 1) = Nth(w, b - 1)
    BY <1>3, <2>7, <2>8
  <2> QED
    BY <2>2, <2>4, <2>7, <2>9
<1>6. m = n
  <2>1. CASE m < n
    <3>1. PICK k : k = n - m /\ k \in 1 .. n /\ m - m = 0
      BY <2>1
    <3>2. Nth(v, 0) = Nth(w, k)
      BY <1>5, <2>1, <3>1
    <3>3. w[k] \in Nodes
      BY <1>2, <3>1
    <3>4. k # 0
      BY <3>1
    <3>5. Nth(v, 0) = Sentinel /\ Nth(w, k) = w[k]
      BY <3>4 DEF Nth
    <3> QED
      BY <1>4, <3>2, <3>3, <3>5
  <2>2. CASE n < m
    <3>1. PICK k : k = m - n /\ k \in 1 .. m /\ n - n = 0
      BY <2>2
    <3>2. Nth(v, k) = Nth(w, 0)
      BY <1>5, <2>2, <3>1
    <3>3. v[k] \in Nodes
      BY <1>1, <3>1
    <3>4. k # 0
      BY <3>1
    <3>5. Nth(w, 0) = Sentinel /\ Nth(v, k) = v[k]
      BY <3>4 DEF Nth
    <3> QED
      BY <1>4, <3>2, <3>3, <3>5
  <2> QED
    BY <2>1, <2>2
<1>7. \A k \in 1 .. m : v[k] = w[k]
  <2> SUFFICES ASSUME NEW k \in 1 .. m
               PROVE  v[k] = w[k]
    OBVIOUS
  <2>1. PICK j \in Nat : j = m - k
    OBVIOUS
  <2>2. Nth(v, m - j) = Nth(w, n - j) /\ m - j = k /\ n - j = k
    BY <1>5, <1>6, <2>1
  <2> QED
    BY <2>2 DEF Nth
<1> QED
  BY <1>1, <1>2, <1>6, <1>7

(* So Order is the list that WInv speaks of.                               *)
OrderIs == \A w, l : Threads(w) /\ Keeps(w, l) => Order = l

LEMMA Ordered == OrderIs
<1> SUFFICES ASSUME NEW w, NEW l, Threads(w), Keeps(w, l)
             PROVE  Order = l
  BY DEF OrderIs
<1>1. Walks = {w}
  BY ThreadIsWalk, OneWalk
<1>2. IsFiniteSet(Listed)
  <2>1. Listed \in SUBSET Nodes
    BY Scope
  <2> QED
    BY <2>1, FS_Subset, CapListAssumption
<1>3. {n \in ToSet(w) : InList(n)} = Listed
  <2>1. ToSet(w) = Woven
    BY DEF Threads, Lists, ToSet, Range
  <2> QED
    BY <2>1, Scope DEF Listed
<1>4. PICK c : c = Cardinality(Listed) /\ c \in Nat
  BY <1>2, FS_CardinalityType
<1>5. Kept(w) = {k \in [1 .. c -> Listed] :
                    Range(k) = Listed /\ \A i, j \in DOMAIN k : i < j => Ahead(w, k[i], k[j])}
  BY <1>3, <1>4 DEF Kept
<1>6. l \in Kept(w)
  <2>1. l \in [1 .. c -> Listed] /\ Range(l) = Listed
    BY <1>2, <1>4, ListLength DEF Keeps, Lists
  <2>2. \A i, j \in DOMAIN l : i < j => Ahead(l, l[i], l[j])
    BY DEF Ahead
  <2>3. \A i \in DOMAIN l : l[i] \in Listed
    BY <2>1
  <2> QED
    BY <1>5, <2>1, <2>2, <2>3 DEF Keeps
<1>7. ASSUME NEW k \in Kept(w)
      PROVE  k = l
  <2>1. /\ k \in [1 .. c -> Listed] /\ Range(k) = Listed
        /\ \A i, j \in 1 .. c : i < j => Ahead(w, k[i], k[j])
    BY <1>5
  <2>2. \A i, j \in 1 .. c : i < j => k[i] # k[j]
    BY <2>1, AheadOrders DEF Threads
  <2>3. \A i, j \in 1 .. c : k[i] = k[j] => i = j
    <3>1. \A i, j \in 1 .. c : i < j \/ j < i \/ i = j
      BY <1>4
    <3> QED
      BY <2>2, <3>1
  <2>4. Lists(k, Listed)
    <3>1. k \in Seq(Listed)
      BY <1>4, <2>1, SeqDef
    <3> QED
      BY <2>1, <2>3, <3>1 DEF Lists, IsInjective
  <2>5. \A x, y \in Listed : Ahead(k, x, y) => Ahead(l, x, y)
    <3>1. \A x, y \in Listed : Ahead(k, x, y) => Ahead(w, x, y)
      BY <2>1 DEF Ahead
    <3> QED
      BY <3>1 DEF Keeps
  <2> QED
    BY <2>4, <2>5, SameOrder DEF Keeps
<1>8. UNION {Kept(u) : u \in Walks} = {l}
  BY <1>1, <1>6, <1>7
<1> QED
  BY <1>1, <1>8 DEF Order

LEMMA ListAtBoot ==
  ASSUME Init
  PROVE  Threads(InitList) /\ Keeps(InitList, InitList)
<1>1. /\ prev[Sentinel] = Nth(InitList, Len(InitList))
      /\ \A i \in DOMAIN InitList : prev[InitList[i]] = Nth(InitList, i - 1)
      /\ \A i \in 0 .. Len(InitList) : Nth(InitList, i) \in Ends
      /\ \A n \in Nodes : n \notin Range(InitList) => prev[n] = Null
  BY BootLinks
<1>2. \A n : Entering(n) = {} /\ Leaving(n) = {}
  BY DEF Init, Entering, Leaving
<1>3. InitList \in Seq(Nodes) /\ DOMAIN InitList = 1 .. Len(InitList) /\ Len(InitList) \in Nat
      /\ \A i \in 1 .. Len(InitList) : InitList[i] \in Nodes
  BY CapListAssumption, LenProperties, ElementOfSeq
<1>4. \A i \in DOMAIN InitList : prev[InitList[i]] # Null
  BY <1>1, <1>3, Scope
<1>5. Woven = Range(InitList) /\ Listed = Range(InitList)
  BY <1>1, <1>2, <1>3, <1>4, Scope DEF Range
<1>6. Lists(InitList, Range(InitList))
  <2>1. \A i \in 1 .. Len(InitList) : InitList[i] \in Range(InitList)
    BY <1>3 DEF Range
  <2>2. InitList \in Seq(Range(InitList))
    BY <1>3, <2>1, ElementsIn
  <2> QED
    BY <2>2, CapListAssumption DEF Lists
<1>7. Placed
  BY AtBoot, Places
<1>8. ASSUME NEW n \in Woven \union {Sentinel}
      PROVE  From(n) = Prior(InitList, n)
  <2>1. From(n) = prev[n]
    BY <1>2, <1>7, Scope DEF Placed
  <2>2. CASE n = Sentinel
    BY <1>1, <2>1, <2>2 DEF Prior
  <2>3. CASE n # Sentinel
    <3>1. PICK i \in 1 .. Len(InitList) : InitList[i] = n
      BY <1>3, <1>5, <2>3 DEF Range
    <3>2. Position(InitList, n) = i
      BY <1>6, <3>1, Positions
    <3> QED
      BY <1>1, <1>3, <2>1, <2>3, <3>1, <3>2 DEF Prior
  <2> QED
    BY <2>2, <2>3
<1> QED
  BY <1>5, <1>6, <1>8 DEF Threads, Keeps

(* A step of the harts, and what it does to the list.                      *)
LEMMA WInvSteps ==
  ASSUME PInv, [Next]_vars, NEW w, NEW l, Threads(w), Keeps(w, l)
  PROVE  NextThread(l)
<1>1. CASE \E h \in Harts : Act(h)
  BY <1>1, Changes
<1>2. CASE UNCHANGED links
  <2>1. /\ prev' = prev /\ next' = next /\ pc' = pc /\ op' = op /\ src' = src /\ dst' = dst
        /\ pred' = pred /\ succ' = succ
    BY <1>2 DEF links
  <2>2. Listed' = Listed /\ Woven' = Woven
    BY <2>1 DEF Listed, Woven, InList, is_deleted, Entering, Leaving
  <2>3. Still
    BY <2>1, <2>2 DEF Still, From, Back, Entering, Leaving
  <2> QED
    BY <2>2, <2>3, Same
<1> QED
  BY <1>1, <1>2, Steps

LInv == PInv /\ WInv

LEMMA LInvHolds == Spec => []LInv
<1>1. Init => LInv
  BY AtBoot, ListAtBoot DEF LInv, WInv
<1>2. LInv /\ [Next]_vars => LInv'
  <2> SUFFICES ASSUME LInv, [Next]_vars
               PROVE  LInv'
    OBVIOUS
  <2>1. PICK w, l : Threads(w) /\ Keeps(w, l)
    BY DEF LInv, WInv
  <2>2. NextThread(l)
    BY <2>1, WInvSteps DEF LInv
  <2>3. WInv'
    BY <2>2 DEF NextThread, WInv
  <2>4. PInv'
    BY Others, Steps, PInvStays DEF LInv
  <2> QED
    BY <2>3, <2>4 DEF LInv
<1> QED
  BY <1>1, <1>2, PTL DEF Spec

(* However the insertions and deletions of the harts interleave, every live*)
(* capability stays on the walk along prev (EveryLiveNodeListed): no       *)
(* compare-and-set of cap_node.h ever drops a neighbour's node.            *)
THEOREM NoNodeLost == Spec => []EveryLiveNodeListed
<1>1. LInv => EveryLiveNodeListed
  <2> SUFFICES ASSUME LInv
               PROVE  EveryLiveNodeListed
    OBVIOUS
  <2>1. PICK w, l : Threads(w) /\ Keeps(w, l)
    BY DEF LInv, WInv
  <2>2. Order = l
    BY <2>1, Ordered DEF OrderIs
  <2>3. ToSet(l) = Listed
    BY <2>1 DEF Keeps, Lists, ToSet, Range
  <2> QED
    BY <2>2, <2>3 DEF EveryLiveNodeListed, Listed
<1> QED
  BY <1>1, LInvHolds, PTL

(* The lock-free list implements the sequence that changes one capability  *)
(* at a time (RefinesCapSeq): cap_node_insert takes effect in its          *)
(* successful compare-and-set of succ->prev, a child right after its       *)
(* parent, cap_node_delete in the one that clears prev.                    *)
THEOREM ListIsSequence == Spec => RefinesCapSeq
<1>1. Init => S!Init
  BY ListAtBoot, Ordered DEF S!Init, OrderIs
<1>2. LInv /\ [Next]_vars => [S!Next]_Order
  <2> SUFFICES ASSUME LInv, [Next]_vars
               PROVE  S!Next \/ Order' = Order
    OBVIOUS
  <2>1. PICK w, l : Threads(w) /\ Keeps(w, l)
    BY DEF LInv, WInv
  <2>2. PICK u, m : Threads(u)' /\ Keeps(u, m)' /\ Change(l, m)
    BY <2>1, WInvSteps DEF LInv, NextThread
  <2>3. Order = l
    BY <2>1, Ordered DEF OrderIs
  <2>4. OrderIs'
    BY Ordered, PTL
  <2>5. Order' = m
    BY <2>2, <2>4 DEF OrderIs
  <2>6. ToSet(l) = Listed
    BY <2>1 DEF Keeps, Lists, ToSet, Range
  <2>7. CASE m = l
    BY <2>3, <2>5, <2>7
  <2>8. CASE m # l
    <3>1. \E s \in ToSet(Order) :
            m = TakeOut(Order, s) \/ \E n \in Nodes \ ToSet(Order) : m = InsertAfter(Order, s, n)
      BY <2>2, <2>3, <2>6, <2>8 DEF Change
    <3>2. S!ToSet(Order) = ToSet(Order)
      BY DEF S!ToSet, ToSet
    <3>3. \A s : S!TakeOut(Order, s) = TakeOut(Order, s)
      BY DEF S!TakeOut, S!RemoveAt, S!Position, TakeOut, RemoveAt, Position
    <3>4. \A s, n : S!InsertAfter(Order, s, n) = InsertAfter(Order, s, n)
      BY DEF S!InsertAfter, S!InsertAt, S!Position, InsertAfter, InsertAt, Position
    <3> QED
      BY <2>5, <3>1, <3>2, <3>3, <3>4 DEF S!Next
  <2> QED
    BY <2>7, <2>8
<1> QED
  BY <1>1, <1>2, LInvHolds, PTL DEF Spec, RefinesCapSeq, S!Spec

----------------------------------------------------------------------------
(* What holds of next until operations meet that undo each other's: it     *)
(* leads back along the links, but for the stores that are still to come.  *)
Stops == Woven \union {Sentinel}
Agreeing ==
  \A n \in Stops : \/ next[From(n)] = n
                   \/ \E h \in Harts : pc[h] = "fix_next" /\ dst[h] = n
                   \/ \E h \in Harts : pc[h] = "repair" /\ succ[h] = n

(* The locals of hart h are those that next gives, or of a node that is    *)
(* gone; a removal that is to store prev->next is the only one to.         *)
Fresh(h) ==
  /\ pc[h] \in {"point", "link"} => next[src[h]] = succ[h] \/ succ[h] \notin Stops
  /\ pc[h] = "link" => next[dst[h]] = succ[h]
  /\ pc[h] = "repair" => /\ succ[h] \in Stops /\ From(succ[h]) = pred[h] /\ next[pred[h]] = src[h]
                         /\ \A g \in Harts : pc[g] = "fix_next" => src[g] # pred[h]

NInv == ~met => Agreeing /\ (\A h \in Harts : Fresh(h)) /\ ~RemovalsMeet /\ ~NodeReturns

(* Different nodes have different ones before them.                        *)
Paired == /\ \A x, y \in Stops : From(x) = From(y) => x = y
          /\ \A x \in Stops : From(x) \in Stops

LEMMA Pairs == LInv => Paired
<1> SUFFICES ASSUME LInv
             PROVE  Paired
  OBVIOUS
<1>1. PICK w, l : Threads(w) /\ Keeps(w, l)
  BY DEF LInv, WInv
<1> QED
  BY <1>1, Scope, Priors DEF Threads, Paired, Stops

(* The steps, by what they do to next.                                     *)
Aside(h) ==
  /\ next' = next /\ (Quiet(h) \/ Settled(h) \/ Cleared(h))
  /\ pc[h] \notin {"fix_next", "repair"} /\ pc'[h] \notin {"link", "fix_next", "repair"}
  /\ pc'[h] = "point" => succ'[h] = next[src[h]] /\ src'[h] = src[h]
Pointed(h) ==
  /\ Quiet(h) /\ pc[h] = "point" /\ pc'[h] = "link"
  /\ next' = [next EXCEPT ![dst[h]] = succ[h]]
  /\ src'[h] = src[h] /\ dst'[h] = dst[h] /\ succ'[h] = succ[h]
Forward(h) ==
  /\ Quiet(h) /\ pc[h] = "fix_next" /\ pc'[h] = "fix_prev"
  /\ next' = [next EXCEPT ![src[h]] = dst[h]]
Repaired(h) ==
  /\ Quiet(h) /\ pc[h] = "repair" /\ pc'[h] = "idle"
  /\ next' = [next EXCEPT ![pred[h]] = succ[h]]

LEMMA Turns ==
  ASSUME PInv, NEW h \in Harts, Act(h)
  PROVE  \/ Aside(h) \/ Pointed(h) \/ Forward(h) \/ Repaired(h)
         \/ Linked(h) /\ next' = next /\ pc'[h] = "fix_next"
         \/ /\ Bypassed(h) /\ next' = next /\ pc'[h] = "repair"
            /\ src'[h] = src[h] /\ pred'[h] = pred[h] /\ succ'[h] = succ[h]
<1> USE DEF Goto, is_deleted, compare_and_set_prev, Entered, Left
<1>1. /\ pc \in [Harts -> {"idle"} \union Inserting \union Finding \union Removing]
      /\ src \in [Harts -> Links] /\ dst \in [Harts -> Links] /\ pred \in [Harts -> Links]
      /\ succ \in [Harts -> Links]
  BY DEF PInv, Typed
<1>2. ASSUME NEW s \in Free, NEW d \in Free, NEW o \in {"derive", "move"}, StartInsert(h, o, s, d)
      PROVE  Aside(h)
  BY <1>1, <1>2 DEF StartInsert, Quiet, Aside
<1>3. ASSUME NEW s \in Free, Delete(h, s)
      PROVE  Aside(h)
  BY <1>1, <1>3 DEF Delete, Quiet, Aside
<1>4. CASE LoadNext(h)
  BY <1>1, <1>4 DEF LoadNext, Quiet, Aside
<1>5. CASE Point(h)
  <2>1. CASE prev[src[h]] = Null
    <3>1. pc[h] = "point" /\ prev' = prev /\ pc'[h] = "idle" /\ next' = next
      BY <1>1, <1>5, <2>1 DEF Point, Return
    <3> QED
      BY <3>1 DEF Quiet, Aside
  <2>2. CASE prev[src[h]] # Null
    BY <1>1, <1>5, <2>2 DEF Point, Quiet, Pointed
  <2> QED
    BY <2>1, <2>2
<1>6. CASE Link(h)
  BY <1>1, <1>6 DEF Link, Quiet, Linked, Aside
<1>7. CASE FixNext(h)
  BY <1>1, <1>7 DEF FixNext, Quiet, Forward
<1>8. CASE FixPrev(h)
  <2>1. pc[h] = "fix_prev" /\ prev' = [prev EXCEPT ![dst[h]] = src[h]]
        /\ pc'[h] \in {"idle", "read_prev"} /\ next' = next
    BY <1>1, <1>8 DEF FixPrev, Return
  <2> QED
    BY <2>1 DEF Settled, Aside
<1>9. CASE ReadPrev(h)
  <2>1. pc[h] = "read_prev" /\ prev' = prev /\ pc'[h] \in {"idle", "clear"} /\ next' = next
    BY <1>1, <1>9 DEF ReadPrev, Return
  <2> QED
    BY <2>1 DEF Quiet, Aside
<1>10. CASE Clear(h)
  BY <1>1, <1>10 DEF Clear, Quiet, Cleared, Aside
<1>11. CASE ReadNext(h)
  BY <1>1, <1>11 DEF ReadNext, Quiet, Aside
<1>12. CASE Bypass(h)
  BY <1>1, <1>12 DEF Bypass, Quiet, Bypassed, Aside
<1>13. CASE Repair(h)
  <2>1. pc[h] = "repair" /\ prev' = prev /\ pc'[h] = "idle"
        /\ next' = [next EXCEPT ![pred[h]] = succ[h]]
    BY <1>1, <1>13 DEF Repair, Return
  <2> QED
    BY <2>1 DEF Quiet, Repaired
<1> QED
  BY <1>2, <1>3, <1>4, <1>5, <1>6, <1>7, <1>8, <1>9, <1>10, <1>11, <1>12, <1>13
  DEF Act, Step, Derive, Move

(* Where the nodes are that a hart works on.                               *)
LEMMA Whereabouts ==
  ASSUME PInv, NEW h \in Harts
  PROVE  /\ pc[h] \in {"load_next", "point", "link"} => dst[h] \notin Stops
         /\ pc[h] \in {"fix_next", "fix_prev"} => dst[h] \in Woven
         /\ pc[h] = "repair" => src[h] \notin Stops
<1>1. HartOK(h) /\ Exclusive /\ Sentinel \notin Nodes
  BY CapListAssumption DEF PInv
<1>2. ASSUME pc[h] \in {"load_next", "point", "link"}
      PROVE  dst[h] \notin Stops
  <2>1. dst[h] \in Nodes /\ prev[dst[h]] = Null
    BY <1>1, <1>2 DEF HartOK, Inserting
  <2>2. Entering(dst[h]) = {} /\ Leaving(dst[h]) = {}
    BY <1>1, <1>2, <2>1, Scope DEF Exclusive, Entering, Leaving
  <2> QED
    BY <1>1, <2>1, <2>2, Scope DEF Stops
<1>3. ASSUME pc[h] \in {"fix_next", "fix_prev"}
      PROVE  dst[h] \in Woven
  <2>1. dst[h] \in Nodes /\ h \in Entering(dst[h])
    BY <1>1, <1>3 DEF HartOK, Inserting, Entering
  <2> QED
    BY <2>1, Scope
<1>4. ASSUME pc[h] = "repair"
      PROVE  src[h] \notin Stops
  <2>1. src[h] \in Nodes /\ prev[src[h]] = Null /\ dst[h] # src[h]
    BY <1>1, <1>4 DEF HartOK, Removing
  <2>2. Entering(src[h]) = {} /\ Leaving(src[h]) = {}
    BY <1>1, <1>4, <2>1 DEF Exclusive, Entering, Leaving
  <2> QED
    BY <1>1, <2>1, <2>2, Scope DEF Stops
<1> QED
  BY <1>2, <1>3, <1>4

LEMMA NInvSteps ==
  ASSUME LInv, LInv', NInv, NEW h \in Harts, Act(h), met' = (met \/ RemovalsMeet' \/ NodeReturns')
  PROVE  NInv'
<1> SUFFICES ASSUME ~met'
             PROVE  Agreeing' /\ (\A g \in Harts : Fresh(g)') /\ ~RemovalsMeet' /\ ~NodeReturns'
  BY DEF NInv
<1>1. /\ Agreeing /\ (\A g \in Harts : Fresh(g)) /\ ~RemovalsMeet /\ ~NodeReturns
      /\ ~RemovalsMeet' /\ ~NodeReturns'
  BY DEF NInv
<1>2. PInv /\ Calm(h) /\ Paired /\ Placed /\ Placed'
  <2>1. PInv' => Placed'
    BY Places, PTL
  <2> QED
    BY <2>1, Frame, Pairs, Places DEF LInv
<1>3. \A g \in Harts \ {h} :
        /\ pc'[g] = pc[g] /\ src'[g] = src[g] /\ dst'[g] = dst[g]
        /\ pred'[g] = pred[g] /\ succ'[g] = succ[g]
  BY <1>2 DEF Calm
<1>4. /\ \A g \in Harts : HartOK(g)
      /\ Exclusive /\ next \in [Ends -> Links]
  BY <1>2 DEF PInv, Typed
<1>5. /\ Stops \subseteq Ends /\ Woven \subseteq Stops /\ Nodes \subseteq Ends /\ Sentinel \in Stops
      /\ Null \notin Ends /\ Sentinel \notin Nodes
  BY Scope DEF Stops
<1>6. ASSUME NEW g \in Harts \ {h}, pc[g] = "repair", pc[h] \in Finding \union Removing
      PROVE  FALSE
  <2>1. op[g] \in {"move", "delete"} /\ op[h] \in {"move", "delete"}
    BY <1>4, <1>6 DEF HartOK, Removing
  <2> QED
    BY <1>1, <2>1 DEF RemovalsMeet
<1>7. CASE Aside(h)
  <2>1. Still
    BY <1>2, <1>7, AfterQuiet, AfterSettled, AfterCleared DEF Aside
  <2>2. Stops' = Stops /\ next' = next /\ \A n \in Ends : From(n)' = From(n)
    BY <1>7, <2>1 DEF Still, Stops, Aside
  <2>3. pc[h] \notin {"fix_next", "repair"} /\ pc'[h] \notin {"link", "fix_next", "repair"}
    BY <1>7 DEF Aside
  <2>4. Agreeing'
    BY <1>1, <1>3, <1>5, <2>2, <2>3 DEF Agreeing
  <2>5. ASSUME NEW g \in Harts \ {h}
        PROVE  Fresh(g)'
    <3>1. Fresh(g)
      BY <1>1
    <3> QED
      BY <1>3, <1>5, <2>2, <2>3, <3>1 DEF Fresh
  <2>6. Fresh(h)'
    BY <1>7, <2>2, <2>3 DEF Aside, Fresh
  <2> QED
    BY <1>1, <2>4, <2>5, <2>6
<1>8. CASE Pointed(h)
  <2>1. Still
    BY <1>2, <1>8, AfterQuiet DEF Pointed
  <2>2. PICK d, u : d = dst[h] /\ u = succ[h]
    OBVIOUS
  <2>3. /\ pc[h] = "point" /\ d \in Nodes /\ prev[d] = Null /\ d \notin Stops
        /\ src[h] \in Nodes /\ src[h] # d
    BY <1>2, <1>4, <1>8, <2>2, Whereabouts DEF Pointed, HartOK, Inserting
  <2>4. /\ Stops' = Stops /\ \A n \in Ends : From(n)' = From(n)
        /\ next'[d] = u /\ \A n \in Ends : n # d => next'[n] = next[n]
    BY <1>4, <1>5, <1>8, <2>1, <2>2, <2>3 DEF Still, Stops, Pointed
  <2>5. pc'[h] = "link" /\ src'[h] = src[h] /\ dst'[h] = d /\ succ'[h] = u
    BY <1>8, <2>2 DEF Pointed
  <2>6. \A n \in Stops : From(n) \in Ends /\ From(n) # d
    BY <1>2, <1>5, <2>3 DEF Paired
  <2>7. Agreeing'
    BY <1>1, <1>3, <1>5, <2>3, <2>4, <2>6 DEF Agreeing
  <2>8. ASSUME NEW g \in Harts \ {h}
        PROVE  Fresh(g)'
    <3>1. Fresh(g) /\ HartOK(g)
      BY <1>1, <1>4
    <3>2. pc[g] \in {"point", "link"} => src[g] \in Ends /\ src[g] # d
      BY <1>5, <2>3, <3>1 DEF HartOK, Inserting
    <3>3. pc[g] = "link" => dst[g] \in Ends /\ dst[g] # d
      BY <1>4, <1>5, <2>2, <2>3, <3>1 DEF HartOK, Exclusive, Inserting
    <3>4. pc[g] = "repair" => pred[g] \in Ends /\ pred[g] # d /\ succ[g] \in Ends
      BY <1>5, <2>6, <3>1 DEF Fresh
    <3> QED
      BY <1>3, <2>3, <2>4, <2>5, <3>1, <3>2, <3>3, <3>4 DEF Fresh
  <2>9. Fresh(h)'
    <3>1. next[src[h]] = u \/ u \notin Stops
      BY <1>1, <2>2, <2>3 DEF Fresh
    <3> QED
      BY <1>5, <2>3, <2>4, <2>5, <3>1 DEF Fresh
  <2> QED
    BY <1>1, <2>7, <2>8, <2>9
<1>9. CASE Forward(h)
  <2>1. Still
    BY <1>2, <1>9, AfterQuiet DEF Forward
  <2>2. PICK s, d : s = src[h] /\ d = dst[h]
    OBVIOUS
  <2>3. pc[h] = "fix_next" /\ d \in Stops /\ From(d) = s /\ s \in Ends
    BY <1>2, <1>4, <1>5, <1>9, <2>2, Whereabouts DEF Forward, HartOK, Placed, Entered
  <2>4. /\ Stops' = Stops /\ \A n \in Ends : From(n)' = From(n)
        /\ next'[s] = d /\ \A n \in Ends : n # s => next'[n] = next[n]
    BY <1>4, <1>9, <2>1, <2>2, <2>3 DEF Still, Stops, Forward
  <2>5. pc'[h] = "fix_prev"
    BY <1>9 DEF Forward
  <2>6. \A n \in Stops : From(n) \in Ends /\ (n # d => From(n) # s)
    BY <1>2, <1>5, <2>3 DEF Paired
  <2>7. Agreeing'
    <3> SUFFICES ASSUME NEW n \in Stops
                 PROVE  \/ next'[From(n)] = n
                        \/ \E g \in Harts : pc'[g] = "fix_next" /\ dst'[g] = n
                        \/ \E g \in Harts : pc'[g] = "repair" /\ succ'[g] = n
      BY <1>5, <2>4 DEF Agreeing
    <3>1. CASE n = d
      BY <2>3, <2>4, <3>1
    <3>2. CASE n # d
      BY <1>1, <1>3, <2>2, <2>3, <2>4, <2>6, <3>2 DEF Agreeing
    <3> QED
      BY <3>1, <3>2
  <2>8. ASSUME NEW g \in Harts \ {h}
        PROVE  Fresh(g)'
    <3>1. Fresh(g) /\ HartOK(g)
      BY <1>1, <1>4
    <3>2. pc[g] \in {"point", "link"} => src[g] \in Ends /\ src[g] # s
      BY <1>4, <1>5, <2>2, <2>3, <3>1 DEF HartOK, Exclusive
    <3>3. pc[g] = "link" => dst[g] \in Ends /\ dst[g] # s
      BY <1>4, <1>5, <2>2, <2>3, <3>1 DEF HartOK, Exclusive, Inserting
    <3>4. pc[g] = "repair" => pred[g] \in Ends /\ pred[g] # s /\ succ[g] \in Ends
      BY <1>5, <2>2, <2>3, <2>6, <3>1 DEF Fresh
    <3> QED
      BY <1>3, <2>3, <2>4, <2>5, <3>1, <3>2, <3>3, <3>4 DEF Fresh
  <2>9. Fresh(h)'
    BY <2>5 DEF Fresh
  <2> QED
    BY <1>1, <2>7, <2>8, <2>9
<1>10. CASE Repaired(h)
  <2>1. Still
    BY <1>2, <1>10, AfterQuiet DEF Repaired
  <2>2. PICK s, u, p : s = src[h] /\ u = succ[h] /\ p = pred[h]
    OBVIOUS
  <2>3. pc[h] = "repair" /\ s \notin Stops
    BY <1>2, <1>10, <2>2, Whereabouts DEF Repaired
  <2>4. u \in Stops /\ From(u) = p /\ next[p] = s
    BY <1>1, <2>2, <2>3 DEF Fresh
  <2>5. p \in Stops
    BY <1>2, <2>4 DEF Paired
  <2>6. /\ Stops' = Stops /\ \A n \in Ends : From(n)' = From(n)
        /\ next'[p] = u /\ \A n \in Ends : n # p => next'[n] = next[n]
    BY <1>4, <1>5, <1>10, <2>1, <2>2, <2>5 DEF Still, Stops, Repaired
  <2>7. pc'[h] = "idle"
    BY <1>10 DEF Repaired
  <2>8. \A n \in Stops : From(n) \in Ends /\ (n # u => From(n) # p)
    BY <1>2, <1>5, <2>4 DEF Paired
  <2>9. Agreeing'
    <3> SUFFICES ASSUME NEW n \in Stops
                 PROVE  \/ next'[From(n)] = n
                        \/ \E g \in Harts : pc'[g] = "fix_next" /\ dst'[g] = n
                        \/ \E g \in Harts : pc'[g] = "repair" /\ succ'[g] = n
      BY <1>5, <2>6 DEF Agreeing
    <3>1. CASE n = u
      BY <2>4, <2>6, <3>1
    <3>2. CASE n # u
      BY <1>1, <1>3, <2>2, <2>3, <2>6, <2>8, <3>2 DEF Agreeing
    <3> QED
      BY <3>1, <3>2
  <2>10. ASSUME NEW g \in Harts \ {h}
         PROVE  Fresh(g)'
    <3>1. Fresh(g) /\ HartOK(g)
      BY <1>1, <1>4
    <3>2. pc[g] \in {"point", "link"} => src[g] \in Ends
      BY <1>5, <3>1 DEF HartOK
    <3>3. pc[g] = "link" => dst[g] \in Ends /\ dst[g] # p
      BY <1>2, <1>5, <2>5, <3>1, Whereabouts DEF HartOK, Inserting
    <3>4. pc[g] # "repair"
      BY <1>6, <2>3 DEF Removing
    <3>5. pc[g] \in {"point", "link"} => next'[src[g]] = succ[g] \/ succ[g] \notin Stops
      BY <2>3, <2>4, <2>6, <3>1, <3>2 DEF Fresh
    <3> QED
      BY <1>3, <2>6, <3>1, <3>3, <3>4, <3>5 DEF Fresh
  <2>11. Fresh(h)'
    BY <2>7 DEF Fresh
  <2> QED
    BY <1>1, <2>9, <2>10, <2>11
<1>11. CASE Linked(h) /\ next' = next /\ pc'[h] = "fix_next"
  <2>1. PICK s, d, u : s = src[h] /\ d = dst[h] /\ u = succ[h]
    OBVIOUS
  <2>2. Puts(s, d, u)
    BY <1>2, <1>11, <2>1, AfterLinked
  <2>3. /\ Stops' = Stops \union {d} /\ d \notin Stops /\ u \in Stops
        /\ From(u) = s /\ From(u)' = d /\ From(d)' = s
        /\ \A n \in Ends : n # d /\ n # u => From(n)' = From(n)
    BY <1>5, <2>2 DEF Puts, Stops
  <2>4. pc[h] = "link" /\ dst'[h] = d /\ prev[u] = s /\ s \in Nodes
    BY <1>4, <1>11, <2>1 DEF Linked, HartOK
  <2>5. next[d] = u /\ next[s] = u
    BY <1>1, <2>1, <2>3, <2>4 DEF Fresh
  <2>6. Agreeing'
    <3> SUFFICES ASSUME NEW n \in Stops \union {d}
                 PROVE  \/ next[From(n)'] = n
                        \/ \E g \in Harts : pc'[g] = "fix_next" /\ dst'[g] = n
                        \/ \E g \in Harts : pc'[g] = "repair" /\ succ'[g] = n
      BY <1>11, <2>3 DEF Agreeing
    <3>1. CASE n = d
      BY <1>11, <2>4, <3>1
    <3>2. CASE n = u
      BY <2>3, <2>5, <3>2
    <3>3. CASE n # d /\ n # u
      BY <1>1, <1>3, <1>5, <2>3, <2>4, <3>3 DEF Agreeing
    <3> QED
      BY <3>1, <3>2, <3>3
  <2>7. ASSUME NEW g \in Harts \ {h}
        PROVE  Fresh(g)'
    <3>1. Fresh(g) /\ HartOK(g)
      BY <1>1, <1>4
    <3>2. pc[g] \in {"point", "link"} => succ[g] # d
      BY <1>1, <1>3, <1>11, <2>4 DEF NodeReturns
    <3>3. ASSUME pc[g] = "repair"
          PROVE  /\ succ[g] \in Stops' /\ From(succ[g])' = pred[g] /\ s # pred[g]
      <4>1. succ[g] \in Stops /\ From(succ[g]) = pred[g] /\ next[pred[g]] = src[g]
        BY <3>1, <3>3 DEF Fresh
      <4>2. prev[src[g]] = Null /\ src[g] # u
        BY <1>5, <2>4, <3>1, <3>3 DEF HartOK, Removing
      <4>3. s # pred[g] /\ succ[g] # u
        BY <2>3, <2>5, <4>1, <4>2
      <4>4. PICK x : x = succ[g] /\ x = succ'[g] /\ x \in Ends /\ x # u /\ x # d
        BY <1>3, <1>5, <2>3, <4>1, <4>3
      <4>5. From(x)' = pred[g]
        BY <2>3, <4>1, <4>4
      <4> QED
        BY <2>3, <4>1, <4>3, <4>4, <4>5
    <3> QED
      BY <1>3, <1>11, <2>1, <2>3, <2>4, <3>1, <3>2, <3>3 DEF Fresh, Linked
  <2>8. Fresh(h)'
    BY <1>11 DEF Fresh
  <2> QED
    BY <1>1, <2>6, <2>7, <2>8
<1>12. CASE /\ Bypassed(h) /\ next' = next /\ pc'[h] = "repair"
            /\ src'[h] = src[h] /\ pred'[h] = pred[h] /\ succ'[h] = succ[h]
  <2>1. PICK s, u, p : s = src[h] /\ u = succ[h] /\ p = pred[h]
    OBVIOUS
  <2>2. Drops(s, u, p)
    BY <1>2, <1>12, <2>1, AfterBypassed
  <2>3. /\ Stops' = Stops \ {s} /\ s \in Stops /\ u \in Stops'
        /\ From(u) = s /\ From(s) = p /\ From(u)' = p
        /\ \A n \in Ends : n # s /\ n # u => From(n)' = From(n)
    BY <1>5, Scope, <2>2 DEF Drops, Stops
  <2>4. pc[h] = "bypass"
    BY <1>12 DEF Bypassed
  <2>5. \A g \in Harts \ {h} : pc[g] # "repair"
    BY <1>6, <2>4 DEF Removing
  <2>6. \A g \in Harts : pc[g] = "fix_next" => dst[g] # s
    BY <1>4, <2>1, <2>4 DEF Exclusive
  <2>7. next[p] = s
    BY <1>1, <2>3, <2>4, <2>5, <2>6 DEF Agreeing
  <2>8. Agreeing'
    <3> SUFFICES ASSUME NEW n \in Stops \ {s}
                 PROVE  \/ next[From(n)'] = n
                        \/ \E g \in Harts : pc'[g] = "fix_next" /\ dst'[g] = n
                        \/ \E g \in Harts : pc'[g] = "repair" /\ succ'[g] = n
      BY <1>12, <2>3 DEF Agreeing
    <3>1. CASE n = u
      BY <1>12, <2>1, <3>1
    <3>2. CASE n # u
      BY <1>1, <1>3, <1>5, <2>3, <2>4, <3>2 DEF Agreeing
    <3> QED
      BY <3>1, <3>2
  <2>9. \A g \in Harts : pc'[g] = "fix_next" => src'[g] # p
    <3> SUFFICES ASSUME NEW g \in Harts \ {h}, pc[g] = "fix_next", src[g] = p
                 PROVE  FALSE
      BY <1>3, <1>12
    <3>1. dst[g] \in Stops /\ From(dst[g]) = p
      BY <1>2, <1>5, Whereabouts DEF Placed, Entered
    <3> QED
      BY <1>2, <2>3, <2>6, <3>1 DEF Paired
  <2>10. ASSUME NEW g \in Harts \ {h}
         PROVE  Fresh(g)'
    <3>1. Fresh(g)
      BY <1>1
    <3> QED
      BY <1>3, <1>12, <2>3, <2>5, <3>1 DEF Fresh
  <2>11. Fresh(h)'
    BY <1>12, <2>1, <2>3, <2>7, <2>9 DEF Fresh
  <2> QED
    BY <1>1, <2>8, <2>10, <2>11
<1> QED
  BY <1>2, <1>7, <1>8, <1>9, <1>10, <1>11, <1>12, Turns

(* No operation is at work on a next, and next leads back along prev       *)
(* (NextUnlessMet), until removals meet, or an insertion meets again the   *)
(* node that it took for its successor: cap_node_insert and a single       *)
(* cap_node_delete leave both directions of the list the same.             *)
THEOREM NextAgrees == Spec => []NextUnlessMet
<1>1. Init => NInv
  <2> SUFFICES ASSUME Init
               PROVE  NInv
    OBVIOUS
  <2>1. /\ \A h \in Harts : pc[h] = "idle" /\ op[h] = "none"
        /\ \A n : Entering(n) = {} /\ Leaving(n) = {}
    BY DEF Init, Entering, Leaving
  <2>2. Placed
    BY AtBoot, Places
  <2>3. ASSUME NEW n \in Stops
        PROVE  next[From(n)] = n
    <3>1. From(n) = prev[n]
      BY <2>1, <2>2, Scope DEF Stops, Placed
    <3>2. n \in Range(InitList) \union {Sentinel}
      BY <2>1, Scope, BootLinks DEF Stops
    <3> QED
      BY <3>1, <3>2, BootLinks
  <2> QED
    BY <2>1, <2>3 DEF NInv, Agreeing, Fresh, RemovalsMeet, NodeReturns
<1>2. LInv /\ LInv' /\ NInv /\ [Next]_vars => NInv'
  <2> SUFFICES ASSUME LInv, LInv', NInv, [Next]_vars
               PROVE  NInv'
    OBVIOUS
  <2>1. CASE Next
    BY <2>1, NInvSteps DEF Next, Act
  <2>2. CASE UNCHANGED vars
    <3>1. /\ prev' = prev /\ next' = next /\ pc' = pc /\ op' = op /\ src' = src /\ dst' = dst
          /\ pred' = pred /\ succ' = succ /\ met' = met
      BY <2>2 DEF vars, links
    <3>2. Stops' = Stops /\ \A n : From(n)' = From(n)
      BY <3>1 DEF Stops, Woven, InList, is_deleted, Entering, Leaving, From, Back
    <3> QED
      BY <3>1, <3>2 DEF NInv, Agreeing, Fresh, RemovalsMeet, NodeReturns
  <2> QED
    BY <2>1, <2>2
<1>3. LInv /\ NInv => NextUnlessMet
  <2> SUFFICES ASSUME LInv, NInv, ~met, \A h \in Harts : pc[h] = "idle",
                      NEW n \in Nodes \union {Sentinel}, prev[n] # Null
               PROVE  next[prev[n]] = n
    BY DEF NextUnlessMet, NextMatchesPrev
  <2>1. Placed
    BY Places DEF LInv
  <2>2. n \in Ends /\ n \in Stops
    BY Scope DEF Stops
  <2>3. From(n) = prev[n]
    BY <2>1, <2>2 DEF Placed
  <2> QED
    BY <2>2, <2>3 DEF NInv, Agreeing
<1> QED
  BY <1>1, <1>2, <1>3, LInvHolds, PTL DEF Spec
============================================================================
