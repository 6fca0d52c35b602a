-------------------------- MODULE TicketLockProofs --------------------------
(***************************************************************************)
(* The ticket lock excludes, for every number of harts and every width of  *)
(* its counters.  MutualExclusion alone is not inductive: a hart may enter *)
(* after a wrap-around unless no ticket is out twice, which holds because  *)
(* as many tickets are out as harts are engaged (TicketsOut), fewer than   *)
(* there are.                                                              *)
(***************************************************************************)
EXTENDS TicketLock, Sequences, FiniteSetTheorems, TLAPS

IInv == TypeOK /\ TicketsOut

(* A step of b adds one to its distance from a, until the counters meet.   *)
LEMMA DistanceInc ==
  ASSUME NEW a \in 0 .. Tickets - 1, NEW b \in 0 .. Tickets - 1
  PROVE  /\ Distance(a, b) \in 0 .. Tickets - 1
         /\ Inc(b) \in 0 .. Tickets - 1
         /\ Distance(a, b) < Tickets - 1 => Distance(a, Inc(b)) = Distance(a, b) + 1
         /\ Distance(a, b) > 0 => Distance(Inc(a), b) = Distance(a, b) - 1
         /\ Distance(a, b) = 0 <=> a = b
BY TicketsAssumption, FS_CardinalityType DEF Distance, Inc

LEMMA DistanceInjective ==
  ASSUME NEW a \in 0 .. Tickets - 1, NEW b \in 0 .. Tickets - 1, NEW c \in 0 .. Tickets - 1,
         Distance(a, b) = Distance(a, c)
  PROVE  b = c
BY TicketsAssumption DEF Distance

LEMMA EngagedFinite == IsFiniteSet(Engaged)
BY TicketsAssumption, FS_Subset DEF Engaged

(* If a hart is outside, at least two tickets are not out.                 *)
LEMMA TicketLeft ==
  ASSUME TicketsOut, NEW h \in Harts, pc[h] = "outside"
  PROVE  Distance(now_serving, next_ticket) < Tickets - 1
<1>1. Engaged \in SUBSET (Harts \ {h})
  BY DEF Engaged
<1>2. IsFiniteSet(Harts \ {h}) /\ Cardinality(Harts \ {h}) = Cardinality(Harts) - 1
  BY TicketsAssumption, FS_RemoveElement
<1>3. Cardinality(Engaged) <= Cardinality(Harts) - 1
  BY <1>1, <1>2, FS_Subset
<1>4. Cardinality(Harts) \in Nat /\ Cardinality(Engaged) \in Nat
  BY TicketsAssumption, EngagedFinite, FS_CardinalityType
<1> QED
  BY <1>3, <1>4, TicketsAssumption DEF TicketsOut

LEMMA InitIInv == Init => IInv
<1> SUFFICES ASSUME Init PROVE IInv
  OBVIOUS
<1>1. 0 \in 0 .. Tickets - 1
  BY TicketsAssumption, FS_CardinalityType
<1>2. Engaged = {}
  BY DEF Init, Engaged
<1>3. TypeOK
  BY <1>1 DEF Init, TypeOK
<1>4. TicketsOut
  BY <1>2, FS_EmptySet DEF Init, TicketsOut, Distance
<1> QED
  BY <1>3, <1>4 DEF IInv

LEMMA NextIInv == IInv /\ [Next]_vars => IInv'
<1> SUFFICES ASSUME IInv, [Next]_vars PROVE IInv'
  OBVIOUS
<1>0. CASE UNCHANGED vars
  BY <1>0 DEF IInv, TypeOK, TicketsOut, Engaged, Distance, vars
<1> SUFFICES ASSUME NEW h \in Harts, Step(h) PROVE IInv'
  BY <1>0 DEF Next
<1> USE DEF IInv
<1>4. /\ Distance(now_serving, next_ticket) \in Nat
      /\ \A g \in Harts : ticket[g] \in 0 .. Tickets - 1 /\ Distance(now_serving, ticket[g]) \in Nat
  BY DistanceInc DEF TypeOK
<1>1. CASE TakeTicket(h)
  <2> USE DEF TakeTicket
  <2>1. TypeOK'
    BY <1>1, DistanceInc DEF TypeOK
  <2>2. Engaged' = Engaged \union {h} /\ h \notin Engaged
    BY <1>1 DEF Engaged, TypeOK
  <2>3. Distance(now_serving, next_ticket)' = Distance(now_serving, next_ticket) + 1
    BY <1>1, TicketLeft, DistanceInc DEF TypeOK, Distance
  <2>4. Cardinality(Engaged') = Distance(now_serving, next_ticket)'
    BY <2>2, <2>3, EngagedFinite, FS_AddElement DEF TicketsOut
  <2>5. ASSUME NEW g \in Engaged
        PROVE  ticket'[g] = ticket[g] /\ ticket[g] # next_ticket
    <3>1. Distance(now_serving, ticket[g]) < Distance(now_serving, next_ticket)
      BY DEF TicketsOut
    <3>2. ticket[g] # next_ticket
      BY <1>4, <3>1
    <3> QED
      BY <1>1, <2>2, <3>2 DEF TypeOK, Engaged
  <2>6. ticket'[h] = next_ticket /\ pc'[h] = "spinning"
    BY <1>1 DEF TypeOK
  <2>7. \A g \in Engaged' :
          Distance(now_serving, ticket[g])' < Distance(now_serving, next_ticket)'
    <3> SUFFICES ASSUME NEW g \in Engaged'
                 PROVE  Distance(now_serving, ticket'[g]) < Distance(now_serving, next_ticket) + 1
      BY <1>1, <2>3 DEF Distance
    <3>1. CASE g = h
      BY <1>4, <2>6, <3>1
    <3>2. CASE g \in Engaged
      BY <1>4, <2>5, <3>2 DEF TicketsOut, Engaged
    <3> QED
      BY <2>2, <3>1, <3>2
  <2>8. \A f, g \in Engaged' : ticket'[f] = ticket'[g] => f = g
    BY <2>2, <2>5, <2>6 DEF TypeOK, TicketsOut, Engaged
  <2>9. \A g \in Harts : pc'[g] = "inside" => ticket'[g] = now_serving'
    BY <1>1 DEF TypeOK, TicketsOut
  <2> QED
    BY <2>1, <2>4, <2>7, <2>8, <2>9 DEF TicketsOut
<1>2. CASE Enter(h)
  <2> USE DEF Enter
  <2>1. Engaged' = Engaged
    BY <1>2 DEF Engaged, TypeOK
  <2> QED
    BY <1>2, <2>1 DEF TypeOK, TicketsOut, Distance
<1>3. CASE lock_release(h)
  <2> USE DEF lock_release
  <2>1. TypeOK'
    BY <1>3, DistanceInc DEF TypeOK
  <2>2. Engaged' = Engaged \ {h} /\ h \in Engaged /\ ticket[h] = now_serving
    BY <1>3 DEF Engaged, TypeOK, TicketsOut
  <2>3. Distance(now_serving, next_ticket) > 0
    BY <2>2, DistanceInc DEF TypeOK, TicketsOut
  <2>4. Distance(now_serving, next_ticket)' = Distance(now_serving, next_ticket) - 1
    BY <1>3, <2>3, DistanceInc DEF TypeOK, Distance
  <2>5. Cardinality(Engaged') = Distance(now_serving, next_ticket)'
    BY <2>2, <2>4, EngagedFinite, FS_RemoveElement DEF TicketsOut
  <2>6. ASSUME NEW g \in Engaged'
        PROVE  /\ ticket'[g] = ticket[g]
               /\ Distance(now_serving, ticket[g])' = Distance(now_serving, ticket[g]) - 1
    <3>1. ticket[g] # now_serving /\ ticket[g] \in 0 .. Tickets - 1
      BY <2>2 DEF TypeOK, TicketsOut, Engaged
    <3>2. Distance(now_serving, ticket[g]) > 0
      BY <1>4, <3>1, DistanceInc DEF TypeOK, Engaged
    <3> QED
      BY <1>3, <3>1, <3>2, DistanceInc DEF TypeOK, Distance
  <2>7. \A g \in Engaged' :
          Distance(now_serving, ticket[g])' < Distance(now_serving, next_ticket)'
    BY <1>4, <2>2, <2>4, <2>6 DEF TicketsOut, Engaged
  <2>8. \A f, g \in Engaged' : ticket'[f] = ticket'[g] => f = g
    BY <2>2, <2>6 DEF TicketsOut
  <2>9. \A g \in Harts : pc'[g] # "inside"
    BY <1>3, <2>2 DEF TypeOK, TicketsOut, Engaged
  <2> QED
    BY <2>1, <2>5, <2>7, <2>8, <2>9 DEF TicketsOut
<1> QED
  BY <1>1, <1>2, <1>3 DEF Step

LEMMA Invariance == Spec => []IInv
BY InitIInv, NextIInv, PTL DEF Spec

(* The counters of lock_t stay below the number of tickets: lock_acquire   *)
(* and lock_release wrap them around.                                      *)
THEOREM LockTypes == Spec => []TypeOK
BY Invariance, PTL DEF IInv

(* The accounting of tickets that lock_acquire and lock_release keep.      *)
THEOREM TicketsAccounted == Spec => []TicketsOut
BY Invariance, PTL DEF IInv

(* The lock of sched_update and puts excludes, however often its counters  *)
(* have wrapped around.                                                    *)
THEOREM LockExcludes == Spec => []MutualExclusion
<1>1. IInv => MutualExclusion
  BY DEF IInv, TicketsOut, MutualExclusion, Engaged
<1> QED
  BY Invariance, <1>1, PTL

-----------------------------------------------------------------------------
(* Every place in line is that of exactly one engaged hart: the engaged    *)
(* harts have different places, and there are as many of them as places.   *)
LinePlaces ==
  /\ \A i \in 1 .. Distance(now_serving, next_ticket) :
       /\ line[i] \in Engaged
       /\ Distance(now_serving, ticket[line[i]]) = i - 1
  /\ \A h \in Engaged : line[Distance(now_serving, ticket[h]) + 1] = h

LEMMA LineOf == IInv => LinePlaces
<1> SUFFICES ASSUME IInv PROVE LinePlaces
  OBVIOUS
<1> DEFINE D == Distance(now_serving, next_ticket)
           place == [h \in Engaged |-> Distance(now_serving, ticket[h]) + 1]
<1>1. /\ D \in Nat
      /\ \A h \in Engaged : /\ ticket[h] \in 0 .. Tickets - 1
                            /\ Distance(now_serving, ticket[h]) \in Nat
                            /\ Distance(now_serving, ticket[h]) < D
  BY DistanceInc DEF IInv, TypeOK, TicketsOut, Engaged
<1>2. \A g, h \in Engaged :
        Distance(now_serving, ticket[g]) = Distance(now_serving, ticket[h]) => g = h
  BY <1>1, DistanceInjective DEF IInv, TypeOK, TicketsOut
<1>3. place \in Injection(Engaged, 1 .. D)
  BY <1>1, <1>2 DEF Injection, IsInjective
<1>4. IsFiniteSet(1 .. D) /\ Cardinality(1 .. D) = D
  BY <1>1, FS_Interval
<1>5. place \in Surjection(Engaged, 1 .. D)
  BY <1>3, <1>4, FS_Injection DEF IInv, TicketsOut
<1>6. \A i \in 1 .. D : \E h \in Engaged : Distance(now_serving, ticket[h]) = i - 1
  <2> SUFFICES ASSUME NEW i \in 1 .. D
               PROVE  \E h \in Engaged : Distance(now_serving, ticket[h]) = i - 1
    OBVIOUS
  <2>1. PICK h \in Engaged : place[h] = i
    BY <1>5 DEF Surjection
  <2>2. Distance(now_serving, ticket[h]) + 1 = i /\ Distance(now_serving, ticket[h]) \in Nat
    BY <1>1, <2>1
  <2> QED
    BY <2>2
<1>7. ASSUME NEW i \in 1 .. D
      PROVE  line[i] \in Engaged /\ Distance(now_serving, ticket[line[i]]) = i - 1
  BY <1>6 DEF line
<1>8. ASSUME NEW h \in Engaged
      PROVE  line[Distance(now_serving, ticket[h]) + 1] = h
  <2> DEFINE i == Distance(now_serving, ticket[h]) + 1
  <2>1. i \in 1 .. D /\ i - 1 = Distance(now_serving, ticket[h])
    BY <1>1
  <2> QED
    BY <1>2, <1>7, <2>1
<1> QED
  BY <1>7, <1>8 DEF LinePlaces

LEMMA LineIsSeq ==
  ASSUME IInv
  PROVE  /\ Distance(now_serving, next_ticket) \in Nat
         /\ line \in Seq(Harts)
         /\ Len(line) = Distance(now_serving, next_ticket)
<1>1. Distance(now_serving, next_ticket) \in Nat
  BY DistanceInc DEF IInv, TypeOK
<1>2. \A i \in 1 .. Distance(now_serving, next_ticket) : line[i] \in Harts
  BY LineOf DEF LinePlaces, Engaged
<1> QED
  BY <1>1, <1>2 DEF line

(* The lock implements a queue: harts enter in the order of their          *)
(* fetch_and_adds, one at a time (FifoLock).                               *)
THEOREM LockIsFifo == Spec => ServedInOrder
<1> DEFINE D == Distance(now_serving, next_ticket)
           inside == \E h \in Harts : pc[h] = "inside"
<1>1. Init => F!Init
  <2> SUFFICES ASSUME Init PROVE F!Init
    OBVIOUS
  <2>1. line = <<>>
    BY DEF Init, line, Distance
  <2> QED
    BY <2>1 DEF Init, F!Init
<1>2. IInv /\ IInv' /\ [Next]_vars => [F!Next]_<<line, inside>>
  <2> SUFFICES ASSUME IInv, IInv', [Next]_vars PROVE [F!Next]_<<line, inside>>
    OBVIOUS
  <2>a. LinePlaces /\ LinePlaces'
    BY LineOf, PTL
  <2>b. /\ D \in Nat /\ D' \in Nat
        /\ line \in Seq(Harts) /\ Len(line) = D
        /\ line' \in Seq(Harts) /\ Len(line') = D'
    <3>1. IInv => D \in Nat /\ line \in Seq(Harts) /\ Len(line) = D
      BY LineIsSeq
    <3>2. IInv' => (D \in Nat /\ line \in Seq(Harts) /\ Len(line) = D)'
      BY LineIsSeq, PTL
    <3> QED
      BY <3>1, <3>2
  <2>0. CASE UNCHANGED vars
    BY <2>0 DEF vars, line, Engaged, Distance
  <2> SUFFICES ASSUME NEW h \in Harts, Step(h) PROVE F!Next \/ UNCHANGED <<line, inside>>
    BY <2>0 DEF Next
  <2>1. CASE TakeTicket(h)
    <3>1. Engaged' = Engaged \union {h} /\ h \notin Engaged
      BY <2>1 DEF TakeTicket, Engaged, IInv, TypeOK
    <3>2. D' = D + 1
      BY <2>1, TicketLeft, DistanceInc DEF TakeTicket, IInv, TypeOK, Distance
    <3>3. ASSUME NEW i \in 1 .. D PROVE line'[i] = line[i]
      <4>1. line[i] \in Engaged' /\ ticket'[line[i]] = ticket[line[i]]
        BY <2>1, <2>a, <3>1 DEF LinePlaces, TakeTicket, Engaged, IInv, TypeOK
      <4>2. Distance(now_serving', ticket'[line[i]]) = i - 1
        BY <2>1, <2>a, <4>1 DEF LinePlaces, TakeTicket
      <4>3. line'[(i - 1) + 1] = line[i]
        BY <2>a, <4>1, <4>2 DEF LinePlaces
      <4> QED
        BY <2>b, <4>3
    <3>4. line'[D + 1] = h
      <4>1. Distance(now_serving, ticket[h])' = D
        BY <2>1 DEF TakeTicket, IInv, TypeOK, Distance
      <4> QED
        BY <2>a, <3>1, <4>1 DEF LinePlaces
    <3>5. line' = Append(line, h)
      BY <2>b, <3>2, <3>3, <3>4
    <3>6. \A i \in DOMAIN line : line[i] # h
      BY <2>a, <2>b, <3>1 DEF LinePlaces
    <3>7. UNCHANGED inside
      BY <2>1 DEF TakeTicket, IInv, TypeOK
    <3> QED
      BY <3>5, <3>6, <3>7 DEF F!Next, F!Ask
  <2>2. CASE Enter(h)
    <3>1. UNCHANGED line
      BY <2>2 DEF Enter, IInv, TypeOK, line, Engaged, Distance
    <3>2. ~inside /\ inside'
      BY <2>2 DEF Enter, IInv, TypeOK, TicketsOut, Engaged
    <3>3. line # <<>>
      <4>1. h \in Engaged
        BY <2>2 DEF Enter, Engaged
      <4>2. D > 0
        BY <4>1, DistanceInc DEF IInv, TypeOK, TicketsOut, Engaged
      <4> QED
        BY <2>b, <4>2
    <3> QED
      BY <3>1, <3>2, <3>3 DEF F!Next, F!Get
  <2>3. CASE lock_release(h)
    <3>1. Engaged' = Engaged \ {h} /\ h \in Engaged /\ ticket[h] = now_serving
      BY <2>3 DEF lock_release, Engaged, IInv, TypeOK, TicketsOut
    <3>2. D > 0
      BY <3>1, DistanceInc DEF IInv, TypeOK, TicketsOut
    <3>3. D' = D - 1
      BY <2>3, <3>2, DistanceInc DEF lock_release, IInv, TypeOK, Distance
    <3>4. ASSUME NEW i \in 1 .. D - 1 PROVE line'[i] = line[i + 1]
      <4> DEFINE g == line[i + 1]
      <4>1. i + 1 \in 1 .. D
        BY <2>b
      <4>2. g \in Engaged /\ Distance(now_serving, ticket[g]) = i
        BY <2>a, <2>b, <4>1 DEF LinePlaces
      <4>3. g # h
        <5>1. Distance(now_serving, now_serving) = 0
          BY DistanceInc DEF IInv, TypeOK
        <5> QED
          BY <3>1, <4>2, <5>1
      <4>4. g \in Engaged' /\ ticket'[g] = ticket[g] /\ ticket[g] \in 0 .. Tickets - 1
        BY <2>3, <3>1, <4>2, <4>3 DEF lock_release, Engaged, IInv, TypeOK
      <4>5. Distance(Inc(now_serving), ticket[g]) = Distance(now_serving, ticket[g]) - 1
        <5>1. now_serving \in 0 .. Tickets - 1 /\ Distance(now_serving, ticket[g]) > 0
          BY <4>2 DEF IInv, TypeOK
        <5> QED
          BY <4>4, <5>1, DistanceInc
      <4>6. Distance(now_serving', ticket'[g]) = i - 1
        BY <2>3, <4>2, <4>4, <4>5 DEF lock_release
      <4>7. line'[(i - 1) + 1] = g
        BY <2>a, <4>4, <4>6 DEF LinePlaces
      <4> QED
        BY <2>b, <4>7
    <3>5. line' = Tail(line)
      BY <2>b, <3>2, <3>3, <3>4
    <3>6. inside /\ inside' = FALSE
      BY <2>3 DEF lock_release, IInv, TypeOK, TicketsOut, Engaged
    <3> QED
      BY <3>5, <3>6 DEF F!Next, F!GiveBack
  <2> QED
    BY <2>1, <2>2, <2>3 DEF Step
<1> QED
  BY <1>1, <1>2, Invariance, PTL DEF Spec, ServedInOrder, F!Spec
=============================================================================
