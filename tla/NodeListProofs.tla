--------------------------- MODULE NodeListProofs ---------------------------
(***************************************************************************)
(* What putting a node into the list and taking one out do to the places   *)
(* of the others.                                                          *)
(***************************************************************************)
EXTENDS NodeList, TLAPS, SequenceTheorems, WellFoundedInduction

(* A sequence is one over any set that has its elements.                   *)
LEMMA ElementsIn ==
  ASSUME NEW S, NEW T, NEW l \in Seq(S), \A k \in 1 .. Len(l) : l[k] \in T
  PROVE  l \in Seq(T)
<1>1. Len(l) \in Nat /\ l \in [1 .. Len(l) -> S]
  BY LenProperties
<1>2. l \in [1 .. Len(l) -> T]
  BY <1>1
<1> QED
  BY <1>1, <1>2, SeqDef

(* A sequence with an element put in, or taken out, element by element.    *)
LEMMA Joined ==
  ASSUME NEW S, NEW x \in Seq(S), NEW y \in Seq(S)
  PROVE  /\ x \o y \in Seq(S) /\ Len(x \o y) = Len(x) + Len(y)
         /\ \A k \in 1 .. Len(x) + Len(y) :
              (x \o y)[k] = IF k <= Len(x) THEN x[k] ELSE y[k - Len(x)]
BY ConcatProperties

LEMMA Inserted ==
  ASSUME NEW S, NEW l \in Seq(S), NEW i \in 1 .. Len(l) + 1, NEW e \in S
  PROVE  /\ InsertAt(l, i, e) \in Seq(S)
         /\ Len(InsertAt(l, i, e)) = Len(l) + 1
         /\ \A k \in 1 .. Len(l) + 1 :
              InsertAt(l, i, e)[k] = IF k < i THEN l[k] ELSE IF k = i THEN e ELSE l[k - 1]
<1>0. Len(l) \in Nat /\ i \in Nat /\ \A k \in 1 .. Len(l) : l[k] \in S
  BY LenProperties, ElementOfSeq
<1>1. PICK a : a = SubSeq(l, 1, i - 1)
  OBVIOUS
<1>2. PICK b : b = SubSeq(l, i, Len(l))
  OBVIOUS
<1>3. PICK d : d = a \o <<e>>
  OBVIOUS
<1>4. PICK r : r = d \o b
  OBVIOUS
<1>5. InsertAt(l, i, e) = r
  BY <1>1, <1>2, <1>3, <1>4 DEF InsertAt
<1>6. /\ a \in Seq(S) /\ Len(a) = i - 1
      /\ \A k \in 1 .. i - 1 : a[k] = l[k]
  BY <1>0, <1>1, SubSeqProperties
<1>7. /\ b \in Seq(S) /\ Len(b) = Len(l) - i + 1
      /\ \A k \in 1 .. Len(l) - i + 1 : b[k] = l[i + k - 1]
  BY <1>0, <1>2, SubSeqProperties
<1>8. <<e>> \in Seq(S) /\ Len(<<e>>) = 1 /\ <<e>>[1] = e
  OBVIOUS
<1>9. /\ d \in Seq(S) /\ Len(d) = Len(a) + Len(<<e>>)
      /\ \A k \in 1 .. Len(a) + Len(<<e>>) :
           d[k] = IF k <= Len(a) THEN a[k] ELSE <<e>>[k - Len(a)]
  BY <1>3, <1>6, <1>8, Joined
<1>10. /\ r \in Seq(S) /\ Len(r) = Len(d) + Len(b)
       /\ \A k \in 1 .. Len(d) + Len(b) : r[k] = IF k <= Len(d) THEN d[k] ELSE b[k - Len(d)]
  <2>1. d \in Seq(S) /\ b \in Seq(S)
    BY <1>7, <1>9
  <2> QED
    BY <1>4, <2>1, Joined, Zenon
<1>11. Len(d) = i /\ d[i] = e /\ \A k \in 1 .. i - 1 : d[k] = a[k]
  BY <1>0, <1>6, <1>8, <1>9
<1>12. Len(r) = Len(l) + 1
  BY <1>0, <1>7, <1>10, <1>11
<1>13. ASSUME NEW k \in 1 .. Len(l) + 1
       PROVE  r[k] = IF k < i THEN l[k] ELSE IF k = i THEN e ELSE l[k - 1]
  <2>0. r[k] = IF k <= i THEN d[k] ELSE b[k - i]
    BY <1>10, <1>11, <1>12
  <2>1. CASE k < i
    BY <1>0, <1>6, <1>11, <2>0, <2>1
  <2>2. CASE k = i
    BY <1>0, <1>11, <2>0, <2>2
  <2>3. CASE k > i
    <3>1. k - i \in 1 .. Len(l) - i + 1 /\ i + (k - i) - 1 = k - 1
      BY <1>0, <2>3
    <3>2. b[k - i] = l[k - 1]
      BY <1>7, <3>1
    <3> QED
      BY <1>0, <2>0, <2>3, <3>2
  <2> QED
    BY <1>0, <2>1, <2>2, <2>3
<1> QED
  BY <1>5, <1>10, <1>12, <1>13

LEMMA Removed ==
  ASSUME NEW S, NEW l \in Seq(S), NEW i \in 1 .. Len(l)
  PROVE  /\ RemoveAt(l, i) \in Seq(S)
         /\ Len(RemoveAt(l, i)) = Len(l) - 1
         /\ \A k \in 1 .. Len(l) - 1 :
              RemoveAt(l, i)[k] = IF k < i THEN l[k] ELSE l[k + 1]
<1>0. Len(l) \in Nat /\ i \in Nat /\ \A k \in 1 .. Len(l) : l[k] \in S
  BY LenProperties, ElementOfSeq
<1>1. PICK a : a = SubSeq(l, 1, i - 1)
  OBVIOUS
<1>2. PICK b : b = SubSeq(l, i + 1, Len(l))
  OBVIOUS
<1>3. PICK r : r = a \o b
  OBVIOUS
<1>4. RemoveAt(l, i) = r
  BY <1>1, <1>2, <1>3 DEF RemoveAt
<1>5. /\ a \in Seq(S) /\ Len(a) = i - 1
      /\ \A k \in 1 .. i - 1 : a[k] = l[k]
  BY <1>0, <1>1, SubSeqProperties
<1>6. /\ b \in Seq(S) /\ Len(b) = Len(l) - i
      /\ \A k \in 1 .. Len(l) - i : b[k] = l[i + k]
  BY <1>0, <1>2, SubSeqProperties
<1>7. /\ r \in Seq(S) /\ Len(r) = Len(a) + Len(b)
      /\ \A k \in 1 .. Len(a) + Len(b) : r[k] = IF k <= Len(a) THEN a[k] ELSE b[k - Len(a)]
  <2>1. a \in Seq(S) /\ b \in Seq(S)
    BY <1>5, <1>6
  <2> QED
    BY <1>3, <2>1, Joined, Zenon
<1>8. Len(r) = Len(l) - 1
  BY <1>0, <1>5, <1>6, <1>7
<1>9. ASSUME NEW k \in 1 .. Len(l) - 1
      PROVE  r[k] = IF k < i THEN l[k] ELSE l[k + 1]
  <2>0. r[k] = IF k <= i - 1 THEN a[k] ELSE b[k - (i - 1)]
    BY <1>5, <1>7, <1>8
  <2>1. CASE k < i
    BY <1>0, <1>5, <2>0, <2>1
  <2>2. CASE k >= i
    <3>1. k - (i - 1) \in 1 .. Len(l) - i /\ i + (k - (i - 1)) = k + 1
      BY <1>0, <2>2
    <3>2. b[k - (i - 1)] = l[k + 1]
      BY <1>6, <3>1
    <3> QED
      BY <1>0, <2>0, <2>2, <3>2
  <2> QED
    BY <1>0, <2>1, <2>2
<1> QED
  BY <1>4, <1>7, <1>8, <1>9

----------------------------------------------------------------------------
LEMMA Positions ==
  ASSUME NEW l, NEW X, Lists(l, X)
  PROVE  /\ DOMAIN l = 1 .. Len(l) /\ Len(l) \in Nat
         /\ \A k \in 1 .. Len(l) : l[k] \in X /\ Position(l, l[k]) = k
         /\ \A x \in X : Position(l, x) \in 1 .. Len(l) /\ l[Position(l, x)] = x
<1>1. DOMAIN l = 1 .. Len(l) /\ Len(l) \in Nat
  BY LenProperties DEF Lists
<1>2. \A x \in X : \E k \in DOMAIN l : l[k] = x
  BY DEF Lists, Range
<1>3. \A x \in X : Position(l, x) \in DOMAIN l /\ l[Position(l, x)] = x
  BY <1>2 DEF Position
<1>4. \A k \in DOMAIN l : l[k] \in X
  BY DEF Lists, Range
<1>5. \A k \in DOMAIN l : Position(l, l[k]) = k
  BY <1>3, <1>4 DEF Lists, IsInjective
<1> QED
  BY <1>1, <1>3, <1>4, <1>5

LEMMA AheadIs ==
  ASSUME NEW l, NEW X, Lists(l, X), NEW x \in X, NEW y \in X
  PROVE  Ahead(l, x, y) <=> Position(l, x) < Position(l, y)
BY Positions DEF Ahead

(* A sequence whose elements are at the positions of f lists them.         *)
LEMMA ListsBy ==
  ASSUME NEW S, NEW r \in Seq(S), NEW X, NEW f,
         \A k \in 1 .. Len(r) : r[k] \in X /\ f[r[k]] = k,
         \A x \in X : f[x] \in 1 .. Len(r) /\ r[f[x]] = x
  PROVE  Lists(r, X) /\ \A x \in X : Position(r, x) = f[x]
<1>1. DOMAIN r = 1 .. Len(r)
  BY LenProperties
<1>2. IsInjective(r)
  BY <1>1 DEF IsInjective
<1>3. Range(r) = X
  BY <1>1 DEF Range
<1>4. r \in Seq(X)
  BY ElementsIn
<1> QED
  BY <1>1, <1>2, <1>3, <1>4, Positions DEF Lists

LEMMA InsertLists ==
  ASSUME NEW l, NEW X, Lists(l, X), NEW s \in X, NEW t, t \notin X
  PROVE  /\ Lists(InsertAfter(l, s, t), X \union {t})
         /\ Position(InsertAfter(l, s, t), t) = Position(l, s) + 1
         /\ \A x \in X : Position(InsertAfter(l, s, t), x) =
                           IF Position(l, x) <= Position(l, s) THEN Position(l, x)
                           ELSE Position(l, x) + 1
<1>0. PICK Y : Y = X \union {t}
  OBVIOUS
<1>1. PICK p : p = Position(l, s)
  OBVIOUS
<1>2. PICK n : n = Len(l)
  OBVIOUS
<1>3. PICK r : r = InsertAfter(l, s, t)
  OBVIOUS
<1>4. /\ n \in Nat /\ p \in 1 .. n
      /\ \A k \in 1 .. n : l[k] \in X /\ Position(l, l[k]) = k
      /\ \A x \in X : Position(l, x) \in 1 .. n /\ l[Position(l, x)] = x
  BY <1>1, <1>2, Positions
<1>5. /\ r \in Seq(Y) /\ Len(r) = n + 1
      /\ \A k \in 1 .. n + 1 : r[k] = IF k < p + 1 THEN l[k]
                                      ELSE IF k = p + 1 THEN t ELSE l[k - 1]
  <2>1. PICK i : i = p + 1
    OBVIOUS
  <2>2. i \in 1 .. Len(l) + 1 /\ l \in Seq(Y) /\ t \in Y
    <3>1. l \in Seq(X)
      BY DEF Lists
    <3>2. \A k \in 1 .. Len(l) : l[k] \in Y
      BY <1>0, <1>2, <1>4
    <3> QED
      BY <1>0, <1>2, <1>4, <2>1, <3>1, <3>2, ElementsIn
  <2>3. r = InsertAt(l, i, t)
    BY <1>1, <1>3, <2>1 DEF InsertAfter
  <2>4. /\ InsertAt(l, i, t) \in Seq(Y) /\ Len(InsertAt(l, i, t)) = Len(l) + 1
        /\ \A k \in 1 .. Len(l) + 1 : InsertAt(l, i, t)[k] = IF k < i THEN l[k]
                                             ELSE IF k = i THEN t ELSE l[k - 1]
    BY <2>2, Inserted
  <2> QED
    BY <1>2, <2>1, <2>3, <2>4
<1> DEFINE f == [x \in X \union {t} |->
                   IF x = t THEN p + 1
                   ELSE IF Position(l, x) <= p THEN Position(l, x) ELSE Position(l, x) + 1]
<1>6. ASSUME NEW k \in 1 .. Len(r)
      PROVE  r[k] \in X \union {t} /\ f[r[k]] = k
  <2>0. k \in 1 .. n + 1
    BY <1>5
  <2>1. CASE k < p + 1
    <3>1. k \in 1 .. n /\ k <= p
      BY <1>4, <2>0, <2>1
    <3>2. r[k] = l[k]
      BY <1>5, <2>0, <2>1
    <3>3. l[k] \in X /\ Position(l, l[k]) = k
      BY <1>4, <3>1
    <3> QED
      BY <3>1, <3>2, <3>3
  <2>2. CASE k = p + 1
    BY <1>4, <1>5, <2>0, <2>2
  <2>3. CASE k > p + 1
    <3>1. k - 1 \in 1 .. n /\ ~(k - 1 <= p) /\ k - 1 + 1 = k
      BY <1>4, <2>0, <2>3
    <3>2. r[k] = l[k - 1]
      BY <1>4, <1>5, <2>0, <2>3
    <3> QED
      BY <1>4, <3>1, <3>2
  <2> QED
    BY <1>4, <2>0, <2>1, <2>2, <2>3
<1>7. ASSUME NEW x \in X \union {t}
      PROVE  f[x] \in 1 .. Len(r) /\ r[f[x]] = x
  <2>1. CASE x = t
    BY <1>4, <1>5, <2>1
  <2>2. CASE x \in X
    <3> DEFINE k == Position(l, x)
    <3>0. k \in 1 .. n /\ l[k] = x /\ x # t
      BY <1>4, <2>2
    <3>1. CASE k <= p
      <4>1. f[x] = k /\ k < p + 1 /\ k \in 1 .. n + 1
        BY <1>4, <3>0, <3>1
      <4> QED
        BY <1>5, <3>0, <4>1
    <3>2. CASE ~(k <= p)
      <4>1. /\ f[x] = k + 1 /\ ~(k + 1 < p + 1) /\ k + 1 # p + 1
            /\ k + 1 \in 1 .. n + 1 /\ k + 1 - 1 = k
        BY <1>4, <3>0, <3>2
      <4> QED
        BY <1>5, <3>0, <4>1
    <3> QED
      BY <3>1, <3>2
  <2> QED
    BY <2>1, <2>2
<1>8. Lists(r, X \union {t}) /\ \A x \in X \union {t} : Position(r, x) = f[x]
  <2>2. PICK g : g = f
    OBVIOUS
  <2> HIDE DEF f
  <2>3. /\ r \in Seq(Y)
        /\ \A k \in 1 .. Len(r) : r[k] \in Y /\ g[r[k]] = k
        /\ \A x \in Y : g[x] \in 1 .. Len(r) /\ r[g[x]] = x
    BY <1>5, <1>6, <1>7, <1>0, <2>2
  <2>4. Lists(r, Y) /\ \A x \in Y : Position(r, x) = g[x]
    BY <2>3, ListsBy
  <2> QED
    BY <1>0, <2>2, <2>4
<1> QED
  BY <1>1, <1>3, <1>8

LEMMA TakeOutLists ==
  ASSUME NEW l, NEW X, Lists(l, X), NEW s \in X
  PROVE  /\ Lists(TakeOut(l, s), X \ {s})
         /\ \A x \in X \ {s} : Position(TakeOut(l, s), x) =
                           IF Position(l, x) < Position(l, s) THEN Position(l, x)
                           ELSE Position(l, x) - 1
<1>1. PICK p : p = Position(l, s)
  OBVIOUS
<1>2. PICK n : n = Len(l)
  OBVIOUS
<1>3. PICK r : r = TakeOut(l, s)
  OBVIOUS
<1>4. /\ n \in Nat /\ p \in 1 .. n /\ l[p] = s
      /\ \A k \in 1 .. n : l[k] \in X /\ Position(l, l[k]) = k
      /\ \A x \in X : Position(l, x) \in 1 .. n /\ l[Position(l, x)] = x
  BY <1>1, <1>2, Positions
<1>5. /\ r \in Seq(X) /\ Len(r) = n - 1
      /\ \A k \in 1 .. n - 1 : r[k] = IF k < p THEN l[k] ELSE l[k + 1]
  <2>1. p \in 1 .. Len(l) /\ l \in Seq(X) /\ r = RemoveAt(l, p)
    BY <1>1, <1>2, <1>3, <1>4 DEF Lists, TakeOut
  <2> QED
    BY <1>2, <2>1, Removed
<1> DEFINE f == [x \in X \ {s} |-> IF Position(l, x) < p THEN Position(l, x)
                                   ELSE Position(l, x) - 1]
<1>6. ASSUME NEW k \in 1 .. Len(r)
      PROVE  r[k] \in X \ {s} /\ f[r[k]] = k
  <2>0. k \in 1 .. n - 1
    BY <1>5
  <2>1. CASE k < p
    <3>1. k \in 1 .. n /\ k # p /\ r[k] = l[k]
      BY <1>4, <1>5, <2>0, <2>1
    <3>2. r[k] \in X /\ r[k] # s /\ Position(l, r[k]) = k
      BY <1>1, <1>4, <3>1
    <3> QED
      BY <2>1, <3>2
  <2>2. CASE k >= p
    <3>1. k + 1 \in 1 .. n /\ ~(k + 1 < p) /\ k + 1 - 1 = k /\ k + 1 # p /\ r[k] = l[k + 1]
      BY <1>4, <1>5, <2>0, <2>2
    <3>2. r[k] \in X /\ r[k] # s /\ Position(l, r[k]) = k + 1
      BY <1>1, <1>4, <3>1
    <3> QED
      BY <3>1, <3>2
  <2> QED
    BY <1>4, <2>0, <2>1, <2>2
<1>7. ASSUME NEW x \in X \ {s}
      PROVE  f[x] \in 1 .. Len(r) /\ r[f[x]] = x
  <2> DEFINE k == Position(l, x)
  <2>0. k \in 1 .. n /\ l[k] = x /\ k # p
    BY <1>4
  <2>1. CASE k < p
    <3>1. f[x] = k /\ k \in 1 .. n - 1
      BY <1>4, <2>0, <2>1
    <3> QED
      BY <1>5, <2>0, <2>1, <3>1
  <2>2. CASE ~(k < p)
    <3>1. f[x] = k - 1 /\ k - 1 \in 1 .. n - 1 /\ ~(k - 1 < p) /\ k - 1 + 1 = k
      BY <1>4, <2>0, <2>2
    <3> QED
      BY <1>5, <2>0, <3>1
  <2> QED
    BY <2>1, <2>2
<1>8. Lists(r, X \ {s}) /\ \A x \in X \ {s} : Position(r, x) = f[x]
  <2>1. PICK Y : Y = X \ {s}
    OBVIOUS
  <2>2. PICK g : g = f
    OBVIOUS
  <2> HIDE DEF f
  <2>3. /\ r \in Seq(Y)
        /\ \A k \in 1 .. Len(r) : r[k] \in Y /\ g[r[k]] = k
        /\ \A x \in Y : g[x] \in 1 .. Len(r) /\ r[g[x]] = x
    <3>1. r \in Seq(X) /\ \A k \in 1 .. Len(r) : r[k] \in Y
      BY <1>5, <1>6, <2>1
    <3>2. r \in Seq(Y)
      BY <3>1, ElementsIn
    <3> QED
      BY <1>6, <1>7, <2>1, <2>2, <3>2
  <2>4. Lists(r, Y) /\ \A x \in Y : Position(r, x) = g[x]
    BY <2>3, ListsBy
  <2> QED
    BY <2>1, <2>2, <2>4
<1> QED
  BY <1>1, <1>3, <1>8

(* Ahead orders the members of a list.                                     *)
LEMMA AheadOrders ==
  ASSUME NEW l, NEW X, Lists(l, X)
  PROVE  /\ \A x, y : Ahead(l, x, y) => x \in X /\ y \in X
         /\ \A x : ~Ahead(l, x, x)
         /\ \A x, y : Ahead(l, x, y) => ~Ahead(l, y, x)
         /\ \A x, y, z : Ahead(l, x, y) /\ Ahead(l, y, z) => Ahead(l, x, z)
<1>1. /\ DOMAIN l = 1 .. Len(l) /\ Len(l) \in Nat
      /\ \A k \in 1 .. Len(l) : l[k] \in X /\ Position(l, l[k]) = k
      /\ \A x \in X : Position(l, x) \in 1 .. Len(l) /\ l[Position(l, x)] = x
  BY Positions
<1>2. \A x, y : Ahead(l, x, y) => x \in X /\ y \in X
  BY <1>1 DEF Ahead
<1>3. \A x, y \in X : Ahead(l, x, y) <=> Position(l, x) < Position(l, y)
  BY AheadIs
<1>4. \A x \in X : Position(l, x) \in Nat
  BY <1>1
<1> HIDE DEF Ahead
<1>5. \A x : ~Ahead(l, x, x)
  BY <1>2, <1>3, <1>4
<1>6. \A x, y : Ahead(l, x, y) => ~Ahead(l, y, x)
  BY <1>2, <1>3, <1>4
<1>7. \A x, y, z : Ahead(l, x, y) /\ Ahead(l, y, z) => Ahead(l, x, z)
  BY <1>2, <1>3, <1>4
<1> QED
  BY <1>2, <1>5, <1>6, <1>7

LEMMA AheadInserted ==
  ASSUME NEW l, NEW X, Lists(l, X), NEW s \in X, NEW t, t \notin X,
         NEW r, r = InsertAfter(l, s, t)
  PROVE  /\ \A x, y : x # t /\ y # t => (Ahead(r, x, y) <=> Ahead(l, x, y))
         /\ \A x : Ahead(r, x, t) <=> x = s \/ Ahead(l, x, s)
         /\ \A y : Ahead(r, t, y) <=> Ahead(l, s, y)
<1>1. PICK Y : Y = X \union {t}
  OBVIOUS
<1>2. /\ Lists(r, Y)
      /\ Position(r, t) = Position(l, s) + 1
      /\ \A x \in X : Position(r, x) = IF Position(l, x) <= Position(l, s) THEN Position(l, x)
                                       ELSE Position(l, x) + 1
  BY <1>1, InsertLists
<1>3. /\ \A x, y : Ahead(l, x, y) => x \in X /\ y \in X
      /\ \A x, y : Ahead(r, x, y) => x \in Y /\ y \in Y
  BY <1>2, AheadOrders
<1>4. /\ \A x, y \in X : Ahead(l, x, y) <=> Position(l, x) < Position(l, y)
      /\ \A x, y \in Y : Ahead(r, x, y) <=> Position(r, x) < Position(r, y)
  BY <1>2, AheadIs
<1>5. /\ \A x \in X : Position(l, x) \in Nat
      /\ \A x, y \in X : Position(l, x) = Position(l, y) => x = y
  BY Positions
<1>6. ASSUME NEW x \in X, NEW y \in X
      PROVE  Position(r, x) < Position(r, y) <=> Position(l, x) < Position(l, y)
  BY <1>2, <1>5
<1>7. ASSUME NEW x \in X
      PROVE  /\ Position(r, x) < Position(r, t) <=> x = s \/ Position(l, x) < Position(l, s)
             /\ Position(r, t) < Position(r, x) <=> Position(l, s) < Position(l, x)
  BY <1>2, <1>5
<1>8. ~Ahead(r, t, t)
  BY <1>2, AheadOrders
<1>9. \A x, y : x # t /\ y # t => (Ahead(r, x, y) <=> Ahead(l, x, y))
  BY <1>1, <1>3, <1>4, <1>6
<1>10. \A x : Ahead(r, x, t) <=> x = s \/ Ahead(l, x, s)
  BY <1>1, <1>3, <1>4, <1>7, <1>8
<1>11. \A y : Ahead(r, t, y) <=> Ahead(l, s, y)
  BY <1>1, <1>3, <1>4, <1>7, <1>8
<1> QED
  BY <1>9, <1>10, <1>11

LEMMA AheadTakenOut ==
  ASSUME NEW l, NEW X, Lists(l, X), NEW s \in X, NEW r, r = TakeOut(l, s)
  PROVE  \A x, y : x # s /\ y # s => (Ahead(r, x, y) <=> Ahead(l, x, y))
<1>1. PICK Y : Y = X \ {s}
  OBVIOUS
<1>2. /\ Lists(r, Y)
      /\ \A x \in Y : Position(r, x) = IF Position(l, x) < Position(l, s) THEN Position(l, x)
                                       ELSE Position(l, x) - 1
  BY <1>1, TakeOutLists
<1>3. /\ \A x, y : Ahead(l, x, y) => x \in X /\ y \in X
      /\ \A x, y : Ahead(r, x, y) => x \in Y /\ y \in Y
  BY <1>2, AheadOrders
<1>4. /\ \A x, y \in X : Ahead(l, x, y) <=> Position(l, x) < Position(l, y)
      /\ \A x, y \in Y : Ahead(r, x, y) <=> Position(r, x) < Position(r, y)
  BY <1>2, AheadIs
<1>5. /\ \A x \in X : Position(l, x) \in Nat
      /\ \A x, y \in X : Position(l, x) = Position(l, y) => x = y
  BY Positions
<1>6. ASSUME NEW x \in Y, NEW y \in Y
      PROVE  Position(r, x) < Position(r, y) <=> Position(l, x) < Position(l, y)
  BY <1>1, <1>2, <1>5
<1> QED
  BY <1>1, <1>3, <1>4, <1>6

(* A list is determined by its members and their order.                    *)
LEMMA SameOrder ==
  ASSUME NEW l, NEW m, NEW X, Lists(l, X), Lists(m, X),
         \A x, y \in X : Ahead(l, x, y) => Ahead(m, x, y)
  PROVE  l = m
<1> DEFINE P(k) == k \in 1 .. Len(l) => k \in 1 .. Len(m) /\ l[k] = m[k]
<1>1. /\ DOMAIN l = 1 .. Len(l) /\ Len(l) \in Nat
      /\ \A k \in 1 .. Len(l) : l[k] \in X /\ Position(l, l[k]) = k
      /\ \A x \in X : Position(l, x) \in 1 .. Len(l) /\ l[Position(l, x)] = x
  BY Positions
<1>2. /\ DOMAIN m = 1 .. Len(m) /\ Len(m) \in Nat
      /\ \A k \in 1 .. Len(m) : m[k] \in X /\ Position(m, m[k]) = k
      /\ \A x \in X : Position(m, x) \in 1 .. Len(m) /\ m[Position(m, x)] = x
  BY Positions
<1>3. \A x, y \in X : Position(l, x) < Position(l, y) <=> Position(m, x) < Position(m, y)
  <2>1. \A x, y \in X : /\ Ahead(l, x, y) <=> Position(l, x) < Position(l, y)
                        /\ Ahead(m, x, y) <=> Position(m, x) < Position(m, y)
    BY AheadIs
  <2>2. \A x, y \in X : Position(l, x) < Position(l, y) => Position(m, x) < Position(m, y)
    BY <2>1
  <2>3. \A x, y \in X : \/ Position(l, x) < Position(l, y) \/ Position(l, y) < Position(l, x)
                        \/ x = y
    BY <1>1
  <2> QED
    BY <1>2, <2>2, <2>3
<1>4. \A k \in Nat : P(k)
  <2> SUFFICES ASSUME NEW B, B = {k \in Nat : ~P(k)}, B # {} PROVE FALSE
    OBVIOUS
  <2> HIDE DEF P
  <2>1. PICK k \in B : \A j \in B : ~(j < k)
    <3>1. B \subseteq Nat
      OBVIOUS
    <3>2. PICK k \in B : \A j \in B : <<j, k>> \notin OpToRel(<, Nat)
      BY <3>1, NatLessThanWellFounded, WFMin
    <3> QED
      BY <3>1, <3>2 DEF OpToRel
  <2>2. /\ k \in 1 .. Len(l) /\ ~(k \in 1 .. Len(m) /\ l[k] = m[k])
        /\ \A j \in 1 .. k - 1 : j \in 1 .. Len(m) /\ l[j] = m[j]
    BY <1>1, <2>1 DEF P
  <2>3. PICK x, i : x = l[k] /\ x \in X /\ i = Position(m, x) /\ i \in 1 .. Len(m) /\ m[i] = x
    BY <1>1, <1>2, <2>2
  <2>4. ~(i < k)
    <3> SUFFICES ASSUME i < k PROVE FALSE
      OBVIOUS
    <3>1. l[i] = x /\ i \in 1 .. Len(l)
      BY <1>1, <1>2, <2>2, <2>3
    <3> QED
      BY <1>1, <1>2, <2>2, <2>3, <3>1
  <2>5. i # k
    BY <2>2, <2>3
  <2>6. k \in 1 .. Len(m) /\ k < i
    BY <1>1, <1>2, <2>2, <2>3, <2>4, <2>5
  <2>7. PICK y : y = m[k] /\ y \in X /\ Position(m, y) = k
    BY <1>2, <2>6
  <2>8. Position(l, y) < k
    BY <1>1, <1>3, <2>2, <2>3, <2>6, <2>7
  <2>9. PICK j : j = Position(l, y) /\ j \in 1 .. Len(l) /\ l[j] = y /\ j < k
    BY <1>1, <2>7, <2>8
  <2>10. m[j] = y /\ j \in 1 .. Len(m)
    BY <1>1, <2>2, <2>9
  <2> QED
    BY <1>2, <2>7, <2>9, <2>10
<1>5. Len(m) <= Len(l)
  <2> SUFFICES ASSUME Len(l) < Len(m) PROVE FALSE
    BY <1>1, <1>2
  <2>1. PICK k : k = Len(l) + 1 /\ k \in 1 .. Len(m)
    BY <1>1, <1>2
  <2>2. PICK i : i = Position(l, m[k]) /\ i \in 1 .. Len(l) /\ l[i] = m[k]
    BY <1>1, <1>2, <2>1
  <2>3. i \in 1 .. Len(m) /\ m[i] = m[k] /\ i # k
    BY <1>1, <1>4, <2>1, <2>2
  <2> QED
    BY <1>2, <2>1, <2>3
<1>6. \A k \in 1 .. Len(l) : k \in 1 .. Len(m) /\ l[k] = m[k]
  BY <1>1, <1>4
<1>7. Len(m) = Len(l)
  <2>0. Len(l) \in Nat /\ Len(m) \in Nat
    BY <1>1, <1>2
  <2>1. CASE Len(l) = 0
    BY <1>5, <2>0, <2>1
  <2>2. CASE Len(l) # 0
    <3>1. PICK k : k = Len(l) /\ k \in 1 .. Len(l)
      BY <1>1, <2>2
    <3>2. k \in 1 .. Len(m)
      BY <1>6, <3>1
    <3>3. Len(l) <= Len(m)
      BY <2>0, <3>1, <3>2
    <3> QED
      BY <1>5, <2>0, <3>3
  <2> QED
    BY <2>1, <2>2
<1>8. l \in Seq(X) /\ m \in Seq(X)
  BY DEF Lists
<1> QED
  BY <1>6, <1>7, <1>8, SeqEqual
=============================================================================
