-------------------------- MODULE ModelQueueProofs --------------------------
(***************************************************************************)
(* Theorems about ModelQueue, for every set of calls, every budget, window *)
(* and number of permits.                                                  *)
(***************************************************************************)
EXTENDS ModelQueue, FiniteSetTheorems, SequenceTheorems, TLAPS

-----------------------------------------------------------------------------
(* Queues: sequences without repetition *)

Queue(S) == {q \in Seq(S) : IsInjective(q)}

\* What is before what in r was so in q.
KeepsOrder(r, q) ==
    \A i, j \in 1..Len(r) : i < j =>
        \E k, l \in 1..Len(q) : k < l /\ r[i] = q[k] /\ r[j] = q[l]

LEMMA AppendQueue ==
    ASSUME NEW S, NEW q \in Queue(S), NEW e \in S, e \notin ToSet(q)
    PROVE  /\ Append(q, e) \in Queue(S)
           /\ ToSet(Append(q, e)) = ToSet(q) \cup {e}
           /\ Len(Append(q, e)) = Len(q) + 1
           /\ \A i \in 1..Len(q) : Append(q, e)[i] = q[i]
           /\ Append(q, e)[Len(q) + 1] = e
<1> DEFINE r == Append(q, e)
<1>1. q \in Seq(S) /\ Len(q) \in Nat /\ DOMAIN q = 1..Len(q)
  BY DEF Queue
<1>2. /\ r \in Seq(S) /\ Len(r) = Len(q) + 1 /\ DOMAIN r = 1..(Len(q) + 1)
      /\ \A i \in 1..Len(q) : r[i] = q[i]
      /\ r[Len(q) + 1] = e
  BY <1>1
<1>3. \A i \in 1..Len(q) : q[i] # e
  BY <1>1 DEF ToSet
<1>4. IsInjective(r)
  BY <1>1, <1>2, <1>3 DEF Queue, IsInjective
<1>5. ToSet(r) = ToSet(q) \cup {e}
  BY <1>1, <1>2 DEF ToSet
<1>6. QED
  BY <1>2, <1>4, <1>5 DEF Queue

\* The queue without its element at position i.
LEMMA RemoveAtQueue ==
    ASSUME NEW S, NEW q \in Queue(S), NEW i \in 1..Len(q)
    PROVE  /\ RemoveAt(q, i) \in Queue(S)
           /\ ToSet(RemoveAt(q, i)) = ToSet(q) \ {q[i]}
           /\ KeepsOrder(RemoveAt(q, i), q)
<1> DEFINE r == RemoveAt(q, i)
           a == SubSeq(q, 1, i - 1)
           b == SubSeq(q, i + 1, Len(q))
<1>1. q \in Seq(S) /\ Len(q) \in Nat /\ DOMAIN q = 1..Len(q) /\ IsInjective(q)
  BY DEF Queue
<1>2. a \in Seq(S) /\ Len(a) = i - 1 /\ \A j \in 1..(i - 1) : a[j] = q[j]
  <2>1. \A j \in 1..(i - 1) : q[j] \in S
    BY <1>1
  <2>2. i - 1 \in Int /\ 1 \in Int
    OBVIOUS
  <2>3. QED
    BY <2>1, <2>2, SubSeqProperties
<1>3. b \in Seq(S) /\ Len(b) = Len(q) - i /\ \A j \in 1..(Len(q) - i) : b[j] = q[i + j]
  <2>1. \A j \in (i + 1)..Len(q) : q[j] \in S
    BY <1>1
  <2>2. i + 1 \in Int /\ Len(q) \in Int
    BY <1>1
  <2>3. /\ SubSeq(q, i + 1, Len(q)) \in Seq(S)
        /\ Len(SubSeq(q, i + 1, Len(q))) = IF i + 1 <= Len(q) THEN Len(q) - (i + 1) + 1 ELSE 0
        /\ \A j \in 1..(Len(q) - (i + 1) + 1) : SubSeq(q, i + 1, Len(q))[j] = q[i + 1 + j - 1]
    BY <2>1, <2>2, SubSeqProperties
  <2>4. /\ Len(q) - (i + 1) + 1 = Len(q) - i
        /\ (IF i + 1 <= Len(q) THEN Len(q) - (i + 1) + 1 ELSE 0) = Len(q) - i
        /\ \A j \in 1..(Len(q) - i) : i + 1 + j - 1 = i + j
    <3> DEFINE n == Len(q)
    <3>1. n \in Nat /\ i \in 1..n
      BY <1>1
    <3> HIDE DEF n
    <3>2. n - (i + 1) + 1 = n - i /\ (i + 1 <= n \/ n = i)
      BY <3>1
    <3>3. (IF i + 1 <= n THEN n - (i + 1) + 1 ELSE 0) = n - i
      BY <3>1, <3>2
    <3>4. \A j \in 1..(n - i) : i + 1 + j - 1 = i + j
      BY <3>1
    <3>5. QED
      BY <3>2, <3>3, <3>4 DEF n
  <2> HIDE DEF b
  <2>5. b = SubSeq(q, i + 1, Len(q))
    BY DEF b
  <2>6. QED
    BY <2>3, <2>4, <2>5
<1>4. /\ r \in Seq(S) /\ Len(r) = Len(q) - 1 /\ DOMAIN r = 1..(Len(q) - 1)
      /\ \A j \in 1..(Len(q) - 1) : r[j] = IF j < i THEN q[j] ELSE q[j + 1]
  <2> HIDE DEF a, b
  <2>1. r = a \o b
    BY DEF RemoveAt, a, b
  <2>2. /\ a \o b \in Seq(S) /\ Len(a \o b) = Len(a) + Len(b)
        /\ \A j \in 1..(Len(a) + Len(b)) :
              (a \o b)[j] = IF j <= Len(a) THEN a[j] ELSE b[j - Len(a)]
    BY <1>2, <1>3, ConcatProperties
  <2> HIDE DEF r
  <2>3. Len(r) = Len(q) - 1
    BY <1>1, <1>2, <1>3, <2>1, <2>2
  <2>4. r \in Seq(S) /\ DOMAIN r = 1..(Len(q) - 1)
    BY <2>1, <2>2, <2>3
  <2>5. ASSUME NEW j \in 1..(Len(q) - 1)
        PROVE  r[j] = IF j < i THEN q[j] ELSE q[j + 1]
    <3>1. j \in 1..(Len(a) + Len(b))
      BY <1>1, <1>2, <1>3
    <3>2. r[j] = IF j <= Len(a) THEN a[j] ELSE b[j - Len(a)]
      BY <2>1, <2>2, <3>1
    <3>3. CASE j < i
      <4>1. j \in 1..(i - 1) /\ j <= Len(a)
        BY <1>1, <1>2, <3>3
      <4>2. QED
        BY <1>2, <3>2, <3>3, <4>1
    <3>4. CASE ~(j < i)
      <4>1. /\ ~(j <= Len(a))
            /\ j - Len(a) = j - i + 1
            /\ j - i + 1 \in 1..(Len(q) - i)
            /\ i + (j - i + 1) = j + 1
        BY <1>1, <1>2, <3>4
      <4>2. b[j - Len(a)] = q[i + (j - i + 1)]
        BY <1>3, <4>1
      <4>3. QED
        BY <3>2, <3>4, <4>1, <4>2
    <3>5. QED
      BY <3>3, <3>4
  <2>6. QED
    BY <2>3, <2>4, <2>5
<1> DEFINE At(j) == IF j < i THEN j ELSE j + 1
<1> HIDE DEF r, a, b
<1>5. \A j \in 1..Len(r) : At(j) \in 1..Len(q) /\ At(j) # i /\ r[j] = q[At(j)]
  BY <1>1, <1>4
<1>6. \A j, k \in 1..Len(r) : j < k => At(j) < At(k)
  BY <1>1, <1>4
<1> HIDE DEF At
<1>7. IsInjective(r)
  <2> SUFFICES ASSUME NEW j \in 1..Len(r), NEW k \in 1..Len(r), r[j] = r[k]
               PROVE  j = k
    BY <1>4 DEF IsInjective
  <2>1. q[At(j)] = q[At(k)] /\ At(j) \in 1..Len(q) /\ At(k) \in 1..Len(q)
    BY <1>5
  <2>2. At(j) = At(k)
    BY <1>1, <2>1 DEF IsInjective
  <2>3. j \in Int /\ k \in Int
    BY <1>1, <1>4
  <2>4. QED
    BY <2>2, <2>3 DEF At
<1>8. \A k \in 1..Len(q) : k # i => \E j \in 1..Len(r) : At(j) = k
  <2> USE DEF At
  <2> SUFFICES ASSUME NEW k \in 1..Len(q), k # i
               PROVE  \E j \in 1..Len(r) : At(j) = k
    OBVIOUS
  <2>1. CASE k < i
    BY <1>1, <1>4, <2>1
  <2>2. CASE k > i
    <3>1. k - 1 \in 1..Len(r) /\ At(k - 1) = k
      BY <1>1, <1>4, <2>2
    <3>2. QED
      BY <3>1
  <2>3. QED
    BY <1>1, <2>1, <2>2
<1>9. ToSet(r) = ToSet(q) \ {q[i]}
  <2>1. ASSUME NEW j \in 1..Len(r)
        PROVE  r[j] \in ToSet(q) \ {q[i]}
    BY <1>1, <1>5, <2>1 DEF ToSet, IsInjective
  <2>2. ASSUME NEW k \in 1..Len(q), q[k] # q[i]
        PROVE  \E j \in 1..Len(r) : r[j] = q[k]
    BY <1>5, <1>8, <2>2
  <2>3. DOMAIN r = 1..Len(r)
    BY <1>4
  <2>4. ToSet(q) = {q[k] : k \in 1..Len(q)} /\ ToSet(r) = {r[j] : j \in 1..Len(r)}
    BY <1>1, <2>3 DEF ToSet
  <2>5. ToSet(r) \subseteq ToSet(q) \ {q[i]}
    BY <2>1, <2>4
  <2>6. ASSUME NEW x \in ToSet(q), x # q[i]
        PROVE  x \in ToSet(r)
    <3>1. PICK k \in 1..Len(q) : x = q[k]
      BY <2>4
    <3>2. QED
      BY <2>2, <2>4, <2>6, <3>1
  <2>7. QED
    BY <2>5, <2>6
<1>10. KeepsOrder(r, q)
  BY <1>4, <1>5, <1>6 DEF KeepsOrder
<1>11. QED
  BY <1>4, <1>7, <1>9, <1>10 DEF r, Queue

LEMMA TailQueue ==
    ASSUME NEW S, NEW q \in Queue(S), q # <<>>
    PROVE  /\ Head(q) \in ToSet(q) /\ Head(q) = q[1]
           /\ Tail(q) \in Queue(S)
           /\ ToSet(Tail(q)) = ToSet(q) \ {Head(q)}
           /\ KeepsOrder(Tail(q), q)
<1>1. q \in Seq(S) /\ Len(q) \in Nat \ {0} /\ DOMAIN q = 1..Len(q)
  BY EmptySeq DEF Queue
<1>2. 1 \in 1..Len(q) /\ Head(q) = q[1]
  BY <1>1
<1>3. Tail(q) = RemoveAt(q, 1)
  <2>1. SubSeq(q, 1, 1 - 1) = <<>>
    BY SubSeqEmpty
  <2>2. SubSeq(q, 1 + 1, Len(q)) = Tail(q)
    BY <1>1, TailIsSubSeq
  <2>3. Tail(q) \in Seq(S)
    BY <1>1
  <2>4. <<>> \o Tail(q) = Tail(q)
    BY <2>3, ConcatEmptySeq
  <2>5. QED
    BY <2>1, <2>2, <2>4 DEF RemoveAt
<1>4. Head(q) \in ToSet(q)
  BY <1>1, <1>2 DEF ToSet
<1>5. /\ RemoveAt(q, 1) \in Queue(S)
      /\ ToSet(RemoveAt(q, 1)) = ToSet(q) \ {q[1]}
      /\ KeepsOrder(RemoveAt(q, 1), q)
  BY <1>2, RemoveAtQueue
<1>6. QED
  BY <1>2, <1>3, <1>4, <1>5

LEMMA RemoveFirstQueue ==
    ASSUME NEW S, NEW q \in Queue(S), NEW e
    PROVE  /\ RemoveFirst(q, e) \in Queue(S)
           /\ ToSet(RemoveFirst(q, e)) = ToSet(q) \ {e}
           /\ KeepsOrder(RemoveFirst(q, e), q)
<1>1. q \in Seq(S) /\ Len(q) \in Nat /\ DOMAIN q = 1..Len(q) /\ IsInjective(q)
  BY DEF Queue
<1>2. CASE \E i \in 1..Len(q) : q[i] = e
  <2>1. PICK i \in 1..Len(q) : q[i] = e
    BY <1>2
  <2> DEFINE I == {j \in 1..Len(q) : q[j] = e}
  <2>2. I = {i}
    BY <1>1, <2>1 DEF IsInjective
  <2>3. Min(I) = i
    BY <1>1, <2>1, <2>2 DEF Min
  <2>4. SelectInSeq(q, LAMBDA v : v = e) = i
    BY <2>2, <2>3 DEF SelectInSeq
  <2>5. RemoveFirst(q, e) = RemoveAt(q, i)
    BY <1>2, <2>4 DEF RemoveFirst
  <2>6. QED
    BY <2>1, <2>5, RemoveAtQueue
<1>3. CASE ~\E i \in 1..Len(q) : q[i] = e
  <2>1. RemoveFirst(q, e) = q
    BY <1>3 DEF RemoveFirst
  <2>2. e \notin ToSet(q)
    BY <1>1, <1>3 DEF ToSet
  <2>3. KeepsOrder(q, q)
    BY DEF KeepsOrder
  <2>4. QED
    BY <2>1, <2>2, <2>3
<1>4. QED
  BY <1>2, <1>3

-----------------------------------------------------------------------------
(* Sums: SumFunction is defined by recursion over the sets of indices, each  *)
(* with some element taken away first; that it can be computed in any order  *)
(* is because it counts something.                                           *)

\* As many pairs as the values of w on s add up to.
Units(w, s) == UNION {{x} \X (1..w[x]) : x \in s}

LEMMA UnitsOfOne ==
    ASSUME NEW w, NEW x, w[x] \in Nat
    PROVE  IsFiniteSet({x} \X (1..w[x])) /\ Cardinality({x} \X (1..w[x])) = w[x]
<1> DEFINE n == w[x]
<1> HIDE DEF n
<1>1. IsFiniteSet(1..n) /\ Cardinality(1..n) = n
  BY FS_Interval, SMTT(30) DEF n
<1>2. IsFiniteSet({x}) /\ Cardinality({x}) = 1
  BY FS_Singleton
<1>3. IsFiniteSet({x} \X (1..n)) /\ Cardinality({x} \X (1..n)) = 1 * n
  BY <1>1, <1>2, FS_Product, ZenonT(30)
<1>4. QED
  BY <1>3 DEF n

LEMMA UnitsFinite ==
    ASSUME NEW s, IsFiniteSet(s), NEW w, \A x \in s : w[x] \in Nat
    PROVE  IsFiniteSet(Units(w, s)) /\ Cardinality(Units(w, s)) \in Nat
<1> DEFINE U == {{x} \X (1..w[x]) : x \in s}
<1>1. IsFiniteSet(U)
  <2> DEFINE f == [x \in s |-> {x} \X (1..w[x])]
  <2>1. f \in Surjection(s, U)
    BY DEF Surjection
  <2>2. QED
    BY <2>1, FS_Surjection
<1>2. \A T \in U : IsFiniteSet(T)
  BY UnitsOfOne
<1>3. IsFiniteSet(UNION U)
  <2> HIDE DEF U
  <2> QED
    BY <1>1, <1>2, FS_UNION
<1>4. QED
  BY <1>3, FS_CardinalityType DEF Units

LEMMA UnitsAdd ==
    ASSUME NEW s, IsFiniteSet(s), NEW w, \A y \in s : w[y] \in Nat, NEW x \in s
    PROVE  Cardinality(Units(w, s)) = w[x] + Cardinality(Units(w, s \ {x}))
<1> DEFINE a == {x} \X (1..w[x])
           b == Units(w, s \ {x})
<1>1. IsFiniteSet(a) /\ Cardinality(a) = w[x]
  BY UnitsOfOne
<1>2. IsFiniteSet(b) /\ Cardinality(b) \in Nat
  <2>1. IsFiniteSet(s \ {x})
    BY FS_RemoveElement
  <2>2. QED
    BY <2>1, UnitsFinite
<1>3. Units(w, s) = a \cup b
  BY DEF Units
<1>4. a \cap b = {}
  BY DEF Units
<1> HIDE DEF a, b
<1>5. Cardinality(a \cup b) = Cardinality(a) + Cardinality(b) - Cardinality(a \cap b)
  BY <1>1, <1>2, FS_Union
<1>6. Cardinality(a \cap b) = 0
  BY <1>4, FS_EmptySet
<1>7. QED
  BY <1>1, <1>2, <1>3, <1>5, <1>6 DEF b

\* What a sum is: the recursion of the library has one solution, and it counts
\* units.
LEMMA SumIsCount ==
    ASSUME NEW w, IsFiniteSet(DOMAIN w), \A x \in DOMAIN w : w[x] \in Nat
    PROVE  SumFunction(w) = Cardinality(Units(w, DOMAIN w))
<1> DEFINE D == DOMAIN w
           Step(g) == [s \in SUBSET D |-> IF s = {} THEN 0
                                          ELSE w[CHOOSE x \in s : TRUE] + g[s \ {CHOOSE x \in s : TRUE}]]
           iter == CHOOSE g : g = Step(g)
           count == [s \in SUBSET D |-> Cardinality(Units(w, s))]
<1>1. \A s \in SUBSET D : IsFiniteSet(s)
  BY FS_Subset
<1>2. count = Step(count)
  <2>1. ASSUME NEW s \in SUBSET D
        PROVE  count[s] = Step(count)[s]
    <3>1. CASE s = {}
      <4>1. Units(w, {}) = {}
        BY DEF Units
      <4>2. QED
        BY <3>1, <4>1, FS_EmptySet
    <3>2. CASE s # {}
      <4> DEFINE x == CHOOSE y \in s : TRUE
      <4>1. x \in s
        BY <3>2
      <4>2. \A y \in s : w[y] \in Nat
        OBVIOUS
      <4> HIDE DEF x
      <4>3. Cardinality(Units(w, s)) = w[x] + Cardinality(Units(w, s \ {x}))
        BY <1>1, <4>1, <4>2, UnitsAdd
      <4>4. s \ {x} \in SUBSET D
        OBVIOUS
      <4>5. count[s] = w[x] + count[s \ {x}]
        BY <4>3, <4>4
      <4>6. QED
        BY <3>2, <4>5 DEF x
    <3>3. QED
      BY <3>1, <3>2
  <2>2. QED
    BY <2>1
<1>3. iter = Step(iter)
  BY <1>2
<1>4. SumFunction(w) = iter[D]
  BY DEF SumFunction, SumFunctionOnSet, FoldFunctionOnSet, MapThenFoldSet
<1> HIDE DEF iter
<1>5. \A s \in SUBSET D : iter[s] = count[s]
  <2> DEFINE Bad == {s \in SUBSET D : iter[s] # count[s]}
  <2> SUFFICES ASSUME Bad # {}
               PROVE  FALSE
    OBVIOUS
  <2>1. Bad \subseteq FiniteSubsetsOf(D)
    BY <1>1 DEF FiniteSubsetsOf
  <2>2. \E s \in Bad : \A r \in Bad : ~(<<r, s>> \in StrictSubsetOrdering(D))
    <3>1. IsWellFoundedOn(StrictSubsetOrdering(D), FiniteSubsetsOf(D))
      BY FS_StrictSubsetOrderingWellFounded
    <3> HIDE DEF Bad
    <3>2. QED
      BY <2>1, <3>1, WFMin
  <2>3. PICK s \in Bad : \A r \in Bad : ~(<<r, s>> \in StrictSubsetOrdering(D))
    BY <2>2
  <2> DEFINE x == CHOOSE y \in s : TRUE
  <2>4. s # {}
    <3>1. ASSUME s = {}
          PROVE  iter[s] = count[s]
      <4>1. Step(iter)[s] = 0 /\ Step(count)[s] = 0
        BY <3>1
      <4>2. QED
        BY <1>2, <1>3, <4>1
    <3>2. QED
      BY <3>1
  <2>5. x \in s
    BY <2>4
  <2>6. iter[s] = w[x] + iter[s \ {x}] /\ count[s] = w[x] + count[s \ {x}]
    <3>1. Step(iter)[s] = w[x] + iter[s \ {x}] /\ Step(count)[s] = w[x] + count[s \ {x}]
      BY <2>4
    <3>2. QED
      BY <1>2, <1>3, <3>1
  <2> HIDE DEF x
  <2>7. s \ {x} \in SUBSET D /\ <<s \ {x}, s>> \in StrictSubsetOrdering(D)
    BY <2>5 DEF StrictSubsetOrdering
  <2>8. iter[s \ {x}] = count[s \ {x}]
    BY <2>3, <2>7
  <2>9. QED
    BY <2>6, <2>8
<1>6. QED
  BY <1>4, <1>5

LEMMA SumOfNone ==
    ASSUME NEW w, DOMAIN w = {}
    PROVE  SumFunction(w) = 0
<1>1. Units(w, {}) = {}
  BY DEF Units
<1>2. QED
  BY <1>1, SumIsCount, FS_EmptySet

\* A smaller function has a smaller sum, also if it is shifted on a longer one.
LEMMA SumOfSmaller ==
    ASSUME NEW n \in Nat, NEW m \in Nat, NEW g \in Nat, m + g <= n,
           NEW v \in [1..m -> Nat], NEW w \in [1..n -> Nat],
           \A i \in 1..m : v[i] <= w[i + g]
    PROVE  SumFunction(v) <= SumFunction(w) /\ SumFunction(v) \in Nat /\ SumFunction(w) \in Nat
<1> DEFINE V == Units(v, 1..m)
           W == Units(w, 1..n)
           f == [p \in V |-> <<p[1] + g, p[2]>>]
<1>1. IsFiniteSet(1..m) /\ IsFiniteSet(1..n)
  BY FS_Interval
<1>2. SumFunction(v) = Cardinality(V) /\ SumFunction(w) = Cardinality(W)
  BY <1>1, SumIsCount
<1>3. IsFiniteSet(V) /\ IsFiniteSet(W) /\ Cardinality(V) \in Nat /\ Cardinality(W) \in Nat
  BY <1>1, UnitsFinite
<1>4. \A p \in V : p = <<p[1], p[2]>> /\ p[1] \in 1..m /\ p[2] \in 1..v[p[1]]
  BY DEF Units
<1>5. \A i \in 1..n : \A k \in 1..w[i] : <<i, k>> \in W
  BY SMTT(30) DEF Units
<1> HIDE DEF V, W
<1>6. f \in Injection(V, W)
  <2>1. ASSUME NEW p \in V
        PROVE  f[p] \in W
    <3>1. p[1] + g \in 1..n /\ p[1] \in 1..m /\ v[p[1]] \in Nat /\ w[p[1] + g] \in Nat
      BY <1>4
    <3>2. p[2] \in 1..w[p[1] + g]
      BY <1>4, <3>1
    <3>3. QED
      BY <1>5, <3>1, <3>2
  <2>2. ASSUME NEW p \in V, NEW q \in V, f[p] = f[q]
        PROVE  p = q
    <3>1. p[1] + g = q[1] + g /\ p[2] = q[2]
      BY <2>2
    <3>2. p[1] = q[1]
      BY <1>4, <3>1
    <3>3. QED
      BY <1>4, <3>1, <3>2
  <2>3. f \in [V -> W]
    BY <2>1
  <2> HIDE DEF f
  <2>4. QED
    BY <2>2, <2>3 DEF Injection, IsInjective
<1> HIDE DEF f
<1>7. Cardinality(V) <= Cardinality(W)
  BY <1>3, <1>6, FS_Injection
<1>8. QED
  BY <1>2, <1>3, <1>7

LEMMA SumOfLonger ==
    ASSUME NEW n \in Nat, NEW v \in [1..n -> Nat], NEW w \in [1..(n + 1) -> Nat],
           \A i \in 1..n : w[i] = v[i]
    PROVE  SumFunction(w) = SumFunction(v) + w[n + 1]
<1>1. IsFiniteSet(1..n) /\ IsFiniteSet(1..(n + 1)) /\ n + 1 \in 1..(n + 1)
  BY FS_Interval
<1>2. (1..(n + 1)) \ {n + 1} = 1..n
  OBVIOUS
<1>3. SumFunction(v) = Cardinality(Units(v, 1..n))
  BY <1>1, SumIsCount
<1>4. SumFunction(w) = Cardinality(Units(w, 1..(n + 1)))
  BY <1>1, SumIsCount
<1>5. Cardinality(Units(w, 1..(n + 1))) = w[n + 1] + Cardinality(Units(w, 1..n))
  <2>1. \A y \in 1..(n + 1) : w[y] \in Nat
    OBVIOUS
  <2>2. QED
    BY <1>1, <1>2, <2>1, UnitsAdd
<1>6. Units(w, 1..n) = Units(v, 1..n)
  BY DEF Units
<1>7. Cardinality(Units(v, 1..n)) \in Nat /\ w[n + 1] \in Nat
  BY <1>1, UnitsFinite
<1>8. QED
  BY <1>3, <1>4, <1>5, <1>6, <1>7
-----------------------------------------------------------------------------
(* The budget *)

LEMMA NothingUsed == spent = <<>> => Used = 0
<1>1. ASSUME spent = <<>>
      PROVE  DOMAIN [i \in DOMAIN spent |-> spent[i].tokens] = {}
  BY <1>1
<1>2. QED
  BY <1>1, SumOfNone DEF Used

LEMMA NeedType ==
    ASSUME NEW c \in Calls
    PROVE  Need(c) \in Nat /\ Need(c) <= Budget
<1> DEFINE S == {Estimate[c], Budget}
<1>1. Estimate[c] \in Nat /\ Budget \in Nat
  BY QueueAssumption
<1>2. \E x \in S : \A y \in S : x <= y
  BY <1>1
<1>3. Min(S) \in S /\ \A y \in S : Min(S) <= y
  BY <1>2 DEF Min
<1>4. QED
  BY <1>1, <1>3 DEF Need

\* An empty window has room for anybody.
LEMMA NoRoomNoEmptyWindow ==
    ASSUME NEW c \in Calls, ~Room(c)
    PROVE  spent # <<>>
<1>1. ASSUME spent = <<>>
      PROVE  Room(c)
  BY <1>1, NothingUsed, NeedType DEF Room
<1>2. QED
  BY <1>1

-----------------------------------------------------------------------------
(* The inductive invariant *)

Holders == {c \in Calls : call[c].pc \in {"reserving", "inside"}}

Permits == free + Cardinality(Holders) = MaxConcurrent

Inv == TypeOK /\ Permits

\* Only c moves.
OnlyMoves(c) ==
    /\ call' \in [Calls -> CallState]
    /\ \A d \in Calls \ {c} : call'[d] = call[d]

\* What a permit given or taken does to the count.
LEMMA PermitTaken ==
    ASSUME Inv, NEW c \in Calls, OnlyMoves(c), c \notin Holders,
           call'[c].pc \in {"reserving", "inside"}, free > 0, free' = free - 1
    PROVE  Permits' /\ free' \in 0..MaxConcurrent
<1>1. Holders' = Holders \cup {c}
  BY DEF Holders, OnlyMoves
<1>2. IsFiniteSet(Holders) /\ Cardinality(Holders) \in Nat
  BY QueueAssumption, FS_Subset, FS_CardinalityType DEF Holders
<1>3. Cardinality(Holders \cup {c}) = Cardinality(Holders) + 1
  BY <1>2, FS_AddElement
<1>4. free \in 0..MaxConcurrent /\ MaxConcurrent \in Nat
  BY QueueAssumption DEF Inv, TypeOK
<1>5. QED
  BY <1>1, <1>2, <1>3, <1>4 DEF Inv, Permits

LEMMA PermitGiven ==
    ASSUME Inv, NEW c \in Calls, OnlyMoves(c), c \in Holders,
           call'[c].pc \notin {"reserving", "inside"}, free' = free + 1
    PROVE  Permits' /\ free' \in 0..MaxConcurrent
<1>1. Holders' = Holders \ {c}
  BY DEF Holders, OnlyMoves
<1>2. IsFiniteSet(Holders) /\ Cardinality(Holders) \in Nat
  BY QueueAssumption, FS_Subset, FS_CardinalityType DEF Holders
<1>3. Cardinality(Holders \ {c}) = Cardinality(Holders) - 1
  BY <1>2, FS_RemoveElement
<1>4. Cardinality(Holders \ {c}) \in Nat
  BY <1>2, FS_Subset, FS_CardinalityType
<1>5. free \in 0..MaxConcurrent /\ MaxConcurrent \in Nat
  BY QueueAssumption DEF Inv, TypeOK
<1>6. QED
  BY <1>1, <1>2, <1>3, <1>4, <1>5 DEF Inv, Permits

LEMMA PermitKept ==
    ASSUME Inv, NEW c \in Calls, OnlyMoves(c), free' = free,
           c \in Holders <=> call'[c].pc \in {"reserving", "inside"}
    PROVE  Permits' /\ free' \in 0..MaxConcurrent
<1>1. Holders' = Holders
  BY DEF Holders, OnlyMoves
<1>2. QED
  BY <1>1 DEF Inv, Permits, TypeOK

LEMMA OverType ==
    ASSUME NEW how \in Ended \cup Busy
    PROVE  Over(how) \in CallState /\ Over(how).pc = how
BY DEF Over, CallState

\* The queues and who waits in them, in the form the lemmas above use.
LEMMA Waiters ==
    ASSUME TypeOK
    PROVE  /\ slotQueue \in Queue(Calls) /\ lockQueue \in Queue(Calls)
           /\ \A c \in Calls : c \in ToSet(slotQueue) <=> call[c].pc = "waiting"
           /\ \A c \in Calls : c \in ToSet(lockQueue) <=> call[c].pc = "reserving"
BY DEF TypeOK, Queue

LEMMA AwakeWaits ==
    ASSUME TypeOK, NEW c \in Calls, Awake(c)
    PROVE  /\ call[c].pc = "reserving"
           /\ lockQueue # <<>> /\ Head(lockQueue) = c
BY Waiters, TailQueue DEF Awake

LEMMA WaitType ==
    ASSUME TypeOK, spent # <<>>
    PROVE  Wait \in Nat /\ Wait > 0
<1>1. spent \in Seq(Entry) /\ Window \in Nat
  BY QueueAssumption DEF TypeOK
<1>2. Head(spent) \in Entry
  BY <1>1, HeadTailProperties
<1>3. QED
  BY <1>1, <1>2, SMTT(30) DEF Wait, Entry

LEMMA BudgetTypes ==
    ASSUME TypeOK, NEW c \in Calls
    PROVE  /\ Disowned(c) \in Seq(Entry)
           /\ \A t \in RealTokens : Corrected(c, t) \in Seq(Entry)
<1>1. spent \in Seq(Entry) /\ Len(spent) \in Nat /\ DOMAIN spent = 1..Len(spent)
  BY DEF TypeOK
<1>2. \A i \in 1..Len(spent) : spent[i] \in Entry
  BY <1>1
<1>3. Disowned(c) \in [1..Len(spent) -> Entry]
  BY <1>1, <1>2 DEF Disowned, Entry
<1>4. \A t \in RealTokens : Corrected(c, t) \in [1..Len(spent) -> Entry]
  BY <1>1, <1>2, QueueAssumption DEF Corrected, Entry
<1>5. QED
  BY <1>1, <1>3, <1>4, SeqDef

\* What a tick does to a waiting call, field by field.
LEMMA NearerFields ==
    ASSUME NEW k \in CallState
    PROVE  /\ Nearer(k) \in CallState /\ Nearer(k).pc = k.pc
           /\ k.pc \in {"waiting", "reserving"} =>
                /\ Nearer(k).left = IF k.left < 0 THEN k.left ELSE k.left - 1
                /\ Nearer(k).wake = IF k.wake = 0 THEN 0 ELSE k.wake - 1
<1> DEFINE l == IF k.left < 0 THEN k.left ELSE k.left - 1
           w == IF k.wake = 0 THEN k.wake ELSE k.wake - 1
           n == [k EXCEPT !.left = l, !.wake = w]
<1>1. k.left \in Int /\ k.wake \in Nat
  BY DEF CallState
<1>2. l \in Int /\ w \in Nat /\ w = IF k.wake = 0 THEN 0 ELSE k.wake - 1
  BY <1>1
<1> HIDE DEF l, w
<1>3. n \in CallState /\ n.pc = k.pc /\ n.left = l /\ n.wake = w
  BY <1>2 DEF CallState
<1>4. CASE k.pc \in {"waiting", "reserving"}
  <2>1. Nearer(k) = n
    BY <1>4 DEF Nearer, l, w
  <2>2. QED
    BY <1>2, <1>3, <2>1 DEF l
<1>5. CASE k.pc \notin {"waiting", "reserving"}
  BY <1>5 DEF Nearer
<1>6. QED
  BY <1>4, <1>5

LEMMA OlderType ==
    ASSUME NEW e \in Entry, InWindow(Older(e))
    PROVE  Older(e) \in Entry
<1>1. e.age \in 0..(Window - 1) /\ Window \in Nat
  BY QueueAssumption DEF Entry
<1>2. Older(e).age = e.age + 1
  BY DEF Older, Entry
<1>3. e.age + 1 \in 0..(Window - 1)
  BY <1>1, <1>2 DEF InWindow
<1>4. QED
  BY <1>3 DEF Older, Entry

LEMMA Typed ==
    ASSUME free' \in 0..MaxConcurrent, call' \in [Calls -> CallState], spent' \in Seq(Entry),
           slotQueue' \in Queue(Calls), lockQueue' \in Queue(Calls),
           \A d \in Calls : d \in ToSet(slotQueue') <=> call'[d].pc = "waiting",
           \A d \in Calls : d \in ToSet(lockQueue') <=> call'[d].pc = "reserving"
    PROVE  TypeOK'
<1>1. ToSet(slotQueue') \subseteq Calls /\ ToSet(lockQueue') \subseteq Calls
  BY DEF Queue, ToSet
<1>2. QED
  BY <1>1 DEF TypeOK, Queue

-----------------------------------------------------------------------------
(* Every step keeps the invariant *)

LEMMA InitInv == Init => Inv
<1> SUFFICES ASSUME Init
             PROVE  Inv
  OBVIOUS
<1>1. call \in [Calls -> CallState] /\ \A c \in Calls : call[c].pc = "idle"
  BY DEF Init, Over, CallState, Ended
<1>2. ToSet(<<>>) = {} /\ IsInjective(<<>>)
  BY DEF ToSet, IsInjective
<1>3. TypeOK
  BY <1>1, <1>2, QueueAssumption DEF Init, TypeOK
<1>4. Holders = {}
  BY <1>1 DEF Holders
<1>5. Permits
  BY <1>4, FS_EmptySet, QueueAssumption DEF Init, Permits
<1>6. QED
  BY <1>3, <1>5 DEF Inv

LEMMA EnterInv ==
    ASSUME Inv, NEW c \in Calls, Enter(c)
    PROVE  Inv'
<1>1. /\ OnlyMoves(c)
      /\ call'[c].pc = "waiting" /\ call[c].pc \in Ended
  <2>1. [pc |-> "waiting", left |-> Limit[c], wake |-> 0] \in CallState
    BY QueueAssumption DEF CallState, Busy
  <2>2. QED
    BY <2>1 DEF Inv, TypeOK, Enter, OnlyMoves
<1>2. c \notin ToSet(slotQueue)
  BY <1>1, Waiters DEF Inv, Ended
<1>3. /\ slotQueue' \in Queue(Calls)
      /\ \A d \in Calls : d \in ToSet(slotQueue') <=> call'[d].pc = "waiting"
  BY <1>1, <1>2, Waiters, AppendQueue DEF Inv, Enter, OnlyMoves
<1>4. /\ lockQueue' \in Queue(Calls)
      /\ \A d \in Calls : d \in ToSet(lockQueue') <=> call'[d].pc = "reserving"
  BY <1>1, Waiters DEF Inv, Enter, OnlyMoves, Ended
<1>5. Permits' /\ free' \in 0..MaxConcurrent
  BY <1>1, PermitKept DEF Enter, Holders, Ended
<1>6. spent' \in Seq(Entry)
  BY DEF Inv, TypeOK, Enter
<1>7. QED
  BY <1>1, <1>3, <1>4, <1>5, <1>6, Typed DEF Inv, OnlyMoves

LEMMA AcquireInv ==
    ASSUME Inv, NEW c \in Calls, Acquire(c)
    PROVE  Inv'
<1>1. c \in ToSet(slotQueue) /\ call[c].pc = "waiting"
  BY Waiters, TailQueue DEF Inv, Acquire
<1>2. /\ OnlyMoves(c)
      /\ call'[c].pc = "reserving"
  BY ZenonT(30) DEF Inv, TypeOK, Acquire, OnlyMoves, CallState, Busy
<1>3. /\ slotQueue' \in Queue(Calls)
      /\ \A d \in Calls : d \in ToSet(slotQueue') <=> call'[d].pc = "waiting"
  BY <1>1, <1>2, Waiters, TailQueue DEF Inv, Acquire, OnlyMoves
<1>4. c \notin ToSet(lockQueue)
  BY <1>1, Waiters DEF Inv
<1>5. /\ lockQueue' \in Queue(Calls)
      /\ \A d \in Calls : d \in ToSet(lockQueue') <=> call'[d].pc = "reserving"
  BY <1>2, <1>4, Waiters, AppendQueue DEF Inv, Acquire, OnlyMoves
<1>6. Permits' /\ free' \in 0..MaxConcurrent
  BY <1>1, <1>2, PermitTaken DEF Acquire, Holders
<1>7. spent' \in Seq(Entry)
  BY DEF Inv, TypeOK, Acquire
<1>8. QED
  BY <1>2, <1>3, <1>5, <1>6, <1>7, Typed DEF Inv, OnlyMoves

LEMMA SlotTimeoutInv ==
    ASSUME Inv, NEW c \in Calls, SlotTimeout(c)
    PROVE  Inv'
<1>1. /\ OnlyMoves(c)
      /\ call'[c].pc = "refused" /\ call[c].pc = "waiting"
  BY OverType DEF Inv, TypeOK, SlotTimeout, OnlyMoves, Ended
<1>2. /\ slotQueue' \in Queue(Calls)
      /\ \A d \in Calls : d \in ToSet(slotQueue') <=> call'[d].pc = "waiting"
  BY <1>1, Waiters, RemoveFirstQueue DEF Inv, SlotTimeout, OnlyMoves
<1>3. /\ lockQueue' \in Queue(Calls)
      /\ \A d \in Calls : d \in ToSet(lockQueue') <=> call'[d].pc = "reserving"
  BY <1>1, Waiters DEF Inv, SlotTimeout, OnlyMoves
<1>4. Permits' /\ free' \in 0..MaxConcurrent
  BY <1>1, PermitKept DEF SlotTimeout, Holders
<1>5. spent' \in Seq(Entry)
  BY DEF Inv, TypeOK, SlotTimeout
<1>6. QED
  BY <1>1, <1>2, <1>3, <1>4, <1>5, Typed DEF Inv, OnlyMoves

LEMMA ReserveInv ==
    ASSUME Inv, NEW c \in Calls, Reserve(c)
    PROVE  Inv'
<1>1. call[c].pc = "reserving" /\ lockQueue # <<>> /\ Head(lockQueue) = c
  BY AwakeWaits DEF Inv, Reserve
<1>2. /\ OnlyMoves(c)
      /\ call'[c].pc = "inside"
  BY OverType DEF Inv, TypeOK, Reserve, OnlyMoves, Busy
<1>3. /\ slotQueue' \in Queue(Calls)
      /\ \A d \in Calls : d \in ToSet(slotQueue') <=> call'[d].pc = "waiting"
  BY <1>1, <1>2, Waiters DEF Inv, Reserve, OnlyMoves
<1>4. /\ lockQueue' \in Queue(Calls)
      /\ \A d \in Calls : d \in ToSet(lockQueue') <=> call'[d].pc = "reserving"
  BY <1>1, <1>2, Waiters, TailQueue DEF Inv, Reserve, OnlyMoves
<1>5. Permits' /\ free' \in 0..MaxConcurrent
  BY <1>1, <1>2, PermitKept DEF Reserve, Holders
<1>6. spent' \in Seq(Entry)
  <2>1. [age |-> 0, tokens |-> Need(c), reserved |-> Need(c), of |-> c] \in Entry
    BY NeedType, QueueAssumption DEF Entry
  <2>2. QED
    BY <2>1 DEF Inv, TypeOK, Reserve
<1>7. QED
  BY <1>2, <1>3, <1>4, <1>5, <1>6, Typed DEF Inv, OnlyMoves

LEMMA SleepInv ==
    ASSUME Inv, NEW c \in Calls, Sleep(c)
    PROVE  Inv'
<1>1. Wait \in Nat
  BY NoRoomNoEmptyWindow, WaitType DEF Inv, Sleep
<1>2. /\ OnlyMoves(c)
      /\ \A d \in Calls : call'[d].pc = call[d].pc
  BY <1>1 DEF Inv, TypeOK, Sleep, OnlyMoves, CallState
<1>3. QED
  <2>1. /\ slotQueue' \in Queue(Calls) /\ lockQueue' \in Queue(Calls)
        /\ \A d \in Calls : d \in ToSet(slotQueue') <=> call'[d].pc = "waiting"
        /\ \A d \in Calls : d \in ToSet(lockQueue') <=> call'[d].pc = "reserving"
    BY <1>2, Waiters DEF Inv, Sleep
  <2>2. Permits' /\ free' \in 0..MaxConcurrent
    BY <1>2, PermitKept DEF Sleep, Holders
  <2>3. spent' \in Seq(Entry)
    BY DEF Inv, TypeOK, Sleep
  <2>4. QED
    BY <1>2, <2>1, <2>2, <2>3, Typed DEF Inv, OnlyMoves

LEMMA RefuseInv ==
    ASSUME Inv, NEW c \in Calls, Refuse(c)
    PROVE  Inv'
<1>1. call[c].pc = "reserving" /\ lockQueue # <<>> /\ Head(lockQueue) = c
  BY AwakeWaits DEF Inv, Refuse
<1>2. /\ OnlyMoves(c)
      /\ call'[c].pc = "refused"
  BY OverType DEF Inv, TypeOK, Refuse, OnlyMoves, Ended
<1>3. /\ slotQueue' \in Queue(Calls)
      /\ \A d \in Calls : d \in ToSet(slotQueue') <=> call'[d].pc = "waiting"
  BY <1>1, <1>2, Waiters DEF Inv, Refuse, OnlyMoves
<1>4. /\ lockQueue' \in Queue(Calls)
      /\ \A d \in Calls : d \in ToSet(lockQueue') <=> call'[d].pc = "reserving"
  BY <1>1, <1>2, Waiters, TailQueue DEF Inv, Refuse, OnlyMoves
<1>5. Permits' /\ free' \in 0..MaxConcurrent
  BY <1>1, <1>2, PermitGiven DEF Refuse, Holders
<1>6. spent' \in Seq(Entry)
  BY DEF Inv, TypeOK, Refuse
<1>7. QED
  BY <1>2, <1>3, <1>4, <1>5, <1>6, Typed DEF Inv, OnlyMoves

LEMMA FinishInv ==
    ASSUME Inv, NEW c \in Calls, Finish(c)
    PROVE  Inv'
<1>1. /\ OnlyMoves(c)
      /\ call'[c].pc = "done" /\ call[c].pc = "inside"
  BY OverType DEF Inv, TypeOK, Finish, OnlyMoves, Ended
<1>2. /\ slotQueue' \in Queue(Calls) /\ lockQueue' \in Queue(Calls)
      /\ \A d \in Calls : d \in ToSet(slotQueue') <=> call'[d].pc = "waiting"
      /\ \A d \in Calls : d \in ToSet(lockQueue') <=> call'[d].pc = "reserving"
  BY <1>1, Waiters DEF Inv, Finish, OnlyMoves
<1>3. Permits' /\ free' \in 0..MaxConcurrent
  BY <1>1, PermitGiven DEF Finish, Holders
<1>4. spent' \in Seq(Entry)
  BY BudgetTypes DEF Inv, Finish
<1>5. QED
  BY <1>1, <1>2, <1>3, <1>4, Typed DEF Inv, OnlyMoves

LEMMA CancelInv ==
    ASSUME Inv, NEW c \in Calls, Cancel(c)
    PROVE  Inv'
<1>1. /\ OnlyMoves(c)
      /\ call'[c].pc = "cancelled" /\ call[c].pc \in Busy
  BY OverType DEF Inv, TypeOK, Cancel, OnlyMoves, Ended
<1>2. /\ slotQueue' \in Queue(Calls)
      /\ \A d \in Calls : d \in ToSet(slotQueue') <=> call'[d].pc = "waiting"
  BY <1>1, Waiters, RemoveFirstQueue DEF Inv, Cancel, OnlyMoves
<1>3. /\ lockQueue' \in Queue(Calls)
      /\ \A d \in Calls : d \in ToSet(lockQueue') <=> call'[d].pc = "reserving"
  BY <1>1, Waiters, RemoveFirstQueue DEF Inv, Cancel, OnlyMoves
<1>4. Permits' /\ free' \in 0..MaxConcurrent
  <2>1. CASE c \in Holders
    BY <1>1, <2>1, PermitGiven DEF Cancel, FreeAfter, Holders
  <2>2. CASE c \notin Holders
    BY <1>1, <2>2, PermitKept DEF Cancel, FreeAfter, Holders
  <2>3. QED
    BY <2>1, <2>2
<1>5. spent' \in Seq(Entry)
  BY BudgetTypes DEF Inv, Cancel
<1>6. QED
  BY <1>1, <1>2, <1>3, <1>4, <1>5, Typed DEF Inv, OnlyMoves

LEMMA TickInv ==
    ASSUME Inv, Tick
    PROVE  Inv'
<1>1. /\ call' \in [Calls -> CallState]
      /\ \A d \in Calls : call'[d].pc = call[d].pc
  <2>1. \A d \in Calls : Nearer(call[d]) \in CallState /\ Nearer(call[d]).pc = call[d].pc
    BY NearerFields DEF Inv, TypeOK
  <2>2. QED
    BY <2>1 DEF Tick
<1>2. /\ slotQueue' \in Queue(Calls) /\ lockQueue' \in Queue(Calls)
      /\ \A d \in Calls : d \in ToSet(slotQueue') <=> call'[d].pc = "waiting"
      /\ \A d \in Calls : d \in ToSet(lockQueue') <=> call'[d].pc = "reserving"
  BY <1>1, Waiters DEF Inv, Tick
<1>3. Permits' /\ free' \in 0..MaxConcurrent
  <2>1. Holders' = Holders
    BY <1>1 DEF Holders
  <2>2. QED
    BY <2>1 DEF Tick, Inv, Permits, TypeOK
<1>4. spent' \in Seq(Entry)
  <2>1. PICK gone \in 0..Len(spent) :
            /\ \A i \in DOMAIN spent : i > gone <=> InWindow(Older(spent[i]))
            /\ spent' = Remaining(gone)
    BY DEF Tick
  <2>2. spent \in Seq(Entry) /\ Len(spent) \in Nat /\ DOMAIN spent = 1..Len(spent)
    BY DEF Inv, TypeOK
  <2>3. ASSUME NEW i \in 1..(Len(spent) - gone)
        PROVE  Older(spent[i + gone]) \in Entry
    <3>1. i + gone \in 1..Len(spent) /\ i + gone > gone
      BY <2>2
    <3>2. spent[i + gone] \in Entry /\ InWindow(Older(spent[i + gone]))
      BY <2>1, <2>2, <3>1
    <3>3. QED
      BY <3>2, OlderType
  <2>4. Len(spent) - gone \in Nat
    BY <2>2
  <2>5. Remaining(gone) \in [1..(Len(spent) - gone) -> Entry]
    BY <2>3 DEF Remaining
  <2>6. QED
    BY <2>1, <2>4, <2>5, SeqDef
<1>5. QED
  BY <1>1, <1>2, <1>3, <1>4, Typed DEF Inv

LEMMA StutterInv ==
    ASSUME Inv, UNCHANGED vars
    PROVE  Inv'
BY DEF Inv, TypeOK, Permits, Holders, vars

LEMMA NextInv ==
    ASSUME Inv, Next
    PROVE  Inv'
<1>1. CASE Tick
  BY <1>1, TickInv
<1>2. ASSUME NEW c \in Calls, CallStep(c)
      PROVE  Inv'
  BY <1>2, EnterInv, AcquireInv, SlotTimeoutInv, ReserveInv, SleepInv, RefuseInv,
     FinishInv, CancelInv DEF CallStep
<1>3. QED
  BY <1>1, <1>2 DEF Next

LEMMA Invariance == Spec => []Inv
<1>1. Inv /\ [Next]_vars => Inv'
  BY NextInv, StutterInv
<1>2. QED
  BY InitInv, <1>1, PTL DEF Spec

\* Every variable keeps its type, and each queue holds exactly the calls that
\* wait in it, each once.
THEOREM Typing == Spec => []TypeOK
BY Invariance, PTL DEF Inv

\* Nobody reads the oldest entry of an empty budget.
THEOREM AlwaysSomethingToWaitFor == Spec => []SomethingToWaitFor
<1>1. Inv => SomethingToWaitFor
  BY NoRoomNoEmptyWindow DEF SomethingToWaitFor
<1>2. QED
  BY Invariance, <1>1, PTL

-----------------------------------------------------------------------------
(* Nobody waits past the deadline when all wait equally long *)

AllWaitAlike == \A c, d \in Calls : Limit[c] = Limit[d]

Waits(c) == call[c].pc \in {"waiting", "reserving"}

\* A sleeper wakes by its deadline; nobody has longer to wait than its limit.
Punctual ==
    \A c \in Calls : Waits(c) =>
        /\ 0 <= call[c].left /\ call[c].left <= Limit[c]
        /\ call[c].wake <= call[c].left

\* Whoever is served earlier has the earlier deadline.
Sorted(q) ==
    \A i, j \in 1..Len(q) : i < j => call[q[i]].left <= call[q[j]].left

LockBeforeSlot ==
    \A c, d \in Calls : call[c].pc = "reserving" /\ call[d].pc = "waiting"
                        => call[c].left <= call[d].left

InOrder == Sorted(slotQueue) /\ Sorted(lockQueue) /\ LockBeforeSlot

TimeInv == Punctual /\ InOrder

\* The members of the queues are calls, and wait.
LEMMA Members ==
    ASSUME TypeOK
    PROVE  /\ \A i \in 1..Len(slotQueue) : slotQueue[i] \in Calls /\ call[slotQueue[i]].pc = "waiting"
           /\ \A i \in 1..Len(lockQueue) : lockQueue[i] \in Calls /\ call[lockQueue[i]].pc = "reserving"
           /\ \A c \in Calls : call[c].pc = "waiting" => \E i \in 1..Len(slotQueue) : slotQueue[i] = c
           /\ \A c \in Calls : call[c].pc = "reserving" => \E i \in 1..Len(lockQueue) : lockQueue[i] = c
           /\ Len(slotQueue) \in Nat /\ Len(lockQueue) \in Nat
<1>1. /\ Len(slotQueue) \in Nat /\ DOMAIN slotQueue = 1..Len(slotQueue)
      /\ Len(lockQueue) \in Nat /\ DOMAIN lockQueue = 1..Len(lockQueue)
  BY DEF TypeOK
<1>2. /\ \A i \in 1..Len(slotQueue) : slotQueue[i] \in ToSet(slotQueue)
      /\ \A i \in 1..Len(lockQueue) : lockQueue[i] \in ToSet(lockQueue)
      /\ \A c \in ToSet(slotQueue) : \E i \in 1..Len(slotQueue) : slotQueue[i] = c
      /\ \A c \in ToSet(lockQueue) : \E i \in 1..Len(lockQueue) : lockQueue[i] = c
  BY <1>1 DEF ToSet
<1>3. QED
  BY <1>1, <1>2 DEF TypeOK

LEMMA MembersNext ==
    ASSUME TypeOK'
    PROVE  /\ \A i \in 1..Len(slotQueue') : slotQueue'[i] \in Calls /\ call'[slotQueue'[i]].pc = "waiting"
           /\ \A i \in 1..Len(lockQueue') : lockQueue'[i] \in Calls /\ call'[lockQueue'[i]].pc = "reserving"
<1>1. DOMAIN slotQueue' = 1..Len(slotQueue') /\ DOMAIN lockQueue' = 1..Len(lockQueue')
  BY DEF TypeOK
<1>2. /\ \A i \in 1..Len(slotQueue') : slotQueue'[i] \in ToSet(slotQueue')
      /\ \A i \in 1..Len(lockQueue') : lockQueue'[i] \in ToSet(lockQueue')
  BY <1>1 DEF ToSet
<1>3. QED
  BY <1>2 DEF TypeOK

\* A call leaves the queue it is in, for the provider or for good.
LEMMA LeavingKeepsTime ==
    ASSUME Inv, Inv', TimeInv, NEW c \in Calls, OnlyMoves(c), ~Waits(c)',
           KeepsOrder(slotQueue', slotQueue), KeepsOrder(lockQueue', lockQueue)
    PROVE  TimeInv'
<1>1. \A d \in Calls : Waits(d)' => d # c /\ call'[d] = call[d]
  BY DEF OnlyMoves
<1>2. Punctual'
  BY <1>1 DEF Punctual, TimeInv, Waits
<1>3. LockBeforeSlot'
  BY <1>1 DEF LockBeforeSlot, InOrder, TimeInv, Waits
<1>4. Sorted(slotQueue)'
  <2> SUFFICES ASSUME NEW i \in 1..Len(slotQueue'), NEW j \in 1..Len(slotQueue'), i < j
               PROVE  call'[slotQueue'[i]].left <= call'[slotQueue'[j]].left
    BY DEF Sorted
  <2>1. PICK k \in 1..Len(slotQueue), l \in 1..Len(slotQueue) :
            k < l /\ slotQueue'[i] = slotQueue[k] /\ slotQueue'[j] = slotQueue[l]
    BY DEF KeepsOrder
  <2>2. call'[slotQueue'[i]] = call[slotQueue[k]] /\ call'[slotQueue'[j]] = call[slotQueue[l]]
    <3>1. \A n \in 1..Len(slotQueue') : slotQueue'[n] \in Calls /\ call'[slotQueue'[n]].pc = "waiting"
      BY MembersNext DEF Inv
    <3>2. QED
      BY <1>1, <2>1, <3>1 DEF Waits
  <2>3. QED
    BY <2>1, <2>2 DEF TimeInv, InOrder, Sorted
<1>5. Sorted(lockQueue)'
  <2> SUFFICES ASSUME NEW i \in 1..Len(lockQueue'), NEW j \in 1..Len(lockQueue'), i < j
               PROVE  call'[lockQueue'[i]].left <= call'[lockQueue'[j]].left
    BY DEF Sorted
  <2>1. PICK k \in 1..Len(lockQueue), l \in 1..Len(lockQueue) :
            k < l /\ lockQueue'[i] = lockQueue[k] /\ lockQueue'[j] = lockQueue[l]
    BY DEF KeepsOrder
  <2>2. call'[lockQueue'[i]] = call[lockQueue[k]] /\ call'[lockQueue'[j]] = call[lockQueue[l]]
    <3>1. \A n \in 1..Len(lockQueue') : lockQueue'[n] \in Calls /\ call'[lockQueue'[n]].pc = "reserving"
      BY MembersNext DEF Inv
    <3>2. QED
      BY <1>1, <2>1, <3>1 DEF Waits
  <2>3. QED
    BY <2>1, <2>2 DEF TimeInv, InOrder, Sorted
<1>6. QED
  BY <1>2, <1>3, <1>4, <1>5 DEF TimeInv, InOrder

LEMMA SameOrder == ASSUME NEW q PROVE KeepsOrder(q, q)
BY DEF KeepsOrder

LEMMA EnterKeepsTime ==
    ASSUME AllWaitAlike, Inv, TimeInv, NEW c \in Calls, Enter(c)
    PROVE  TimeInv'
<1>1. /\ call' = [call EXCEPT ![c] = [pc |-> "waiting", left |-> Limit[c], wake |-> 0]]
      /\ call'[c].pc = "waiting" /\ call'[c].left = Limit[c] /\ call'[c].wake = 0
      /\ \A d \in Calls \ {c} : call'[d] = call[d]
      /\ ~Waits(c)
  BY DEF Inv, TypeOK, Enter, Waits, Ended
<1>2. Limit[c] \in Nat
  BY QueueAssumption
<1>3. Punctual'
  BY <1>1, <1>2 DEF TimeInv, Punctual, Waits
<1>4. \A d \in Calls : Waits(d) => call[d].left <= Limit[c]
  BY DEF TimeInv, Punctual, AllWaitAlike
<1>5. LockBeforeSlot'
  BY <1>1, <1>4 DEF TimeInv, InOrder, LockBeforeSlot, Waits
<1>6. Sorted(lockQueue)'
  <2>1. \A i \in 1..Len(lockQueue) : call'[lockQueue[i]] = call[lockQueue[i]]
    BY <1>1, Members DEF Inv, Waits
  <2>2. QED
    BY <2>1 DEF Enter, TimeInv, InOrder, Sorted
<1>7. Sorted(slotQueue)'
  <2>1. c \notin ToSet(slotQueue) /\ slotQueue \in Queue(Calls)
    BY <1>1, Waiters DEF Inv, Waits
  <2>2. /\ Len(slotQueue') = Len(slotQueue) + 1
        /\ \A i \in 1..Len(slotQueue) : slotQueue'[i] = slotQueue[i]
        /\ slotQueue'[Len(slotQueue) + 1] = c
    BY <2>1, AppendQueue DEF Enter
  <2>3. \A i \in 1..Len(slotQueue) : /\ call'[slotQueue[i]] = call[slotQueue[i]]
                                     /\ call[slotQueue[i]].left <= Limit[c]
    BY <1>1, <1>4, Members DEF Inv, Waits
  <2>4. Len(slotQueue) \in Nat
    BY Members DEF Inv
  <2> SUFFICES ASSUME NEW i \in 1..Len(slotQueue'), NEW j \in 1..Len(slotQueue'), i < j
               PROVE  call'[slotQueue'[i]].left <= call'[slotQueue'[j]].left
    BY DEF Sorted
  <2>5. i \in 1..Len(slotQueue) /\ (j \in 1..Len(slotQueue) \/ j = Len(slotQueue) + 1)
    BY <2>2, <2>4
  <2>6. CASE j \in 1..Len(slotQueue)
    BY <2>2, <2>3, <2>5, <2>6 DEF TimeInv, InOrder, Sorted
  <2>7. CASE j = Len(slotQueue) + 1
    BY <1>1, <2>2, <2>3, <2>5, <2>7
  <2>8. QED
    BY <2>5, <2>6, <2>7
<1>8. QED
  BY <1>3, <1>5, <1>6, <1>7 DEF TimeInv, InOrder

\* The first in the queue for permits has the earliest deadline there.
LEMMA FirstIsEarliest ==
    ASSUME TypeOK, InOrder, NEW d \in Calls
    PROVE  /\ slotQueue # <<>> /\ call[d].pc = "waiting" =>
                call[Head(slotQueue)].left <= call[d].left
           /\ lockQueue # <<>> /\ call[d].pc = "reserving" =>
                call[Head(lockQueue)].left <= call[d].left
<1>1. \A e \in Calls : call[e].left \in Int
  BY DEF TypeOK, CallState
<1>2. ASSUME slotQueue # <<>>, call[d].pc = "waiting"
      PROVE  call[Head(slotQueue)].left <= call[d].left
  <2>1. PICK j \in 1..Len(slotQueue) : slotQueue[j] = d
    BY <1>2, Members
  <2>2. Head(slotQueue) = slotQueue[1] /\ 1 \in 1..Len(slotQueue)
    BY <1>2, <2>1, Waiters, TailQueue, Members
  <2>3. CASE j = 1
    BY <1>1, <2>1, <2>2, <2>3
  <2>4. CASE j # 1
    BY <2>1, <2>2, <2>4, Members DEF InOrder, Sorted
  <2>5. QED
    BY <2>3, <2>4
<1>3. ASSUME lockQueue # <<>>, call[d].pc = "reserving"
      PROVE  call[Head(lockQueue)].left <= call[d].left
  <2>1. PICK j \in 1..Len(lockQueue) : lockQueue[j] = d
    BY <1>3, Members
  <2>2. Head(lockQueue) = lockQueue[1] /\ 1 \in 1..Len(lockQueue)
    BY <1>3, <2>1, Waiters, TailQueue, Members
  <2>3. CASE j = 1
    BY <1>1, <2>1, <2>2, <2>3
  <2>4. CASE j # 1
    BY <2>1, <2>2, <2>4, Members DEF InOrder, Sorted
  <2>5. QED
    BY <2>3, <2>4
<1>4. QED
  BY <1>2, <1>3

LEMMA AcquireKeepsTime ==
    ASSUME Inv, Inv', TimeInv, NEW c \in Calls, Acquire(c)
    PROVE  TimeInv'
<1>1. c \in ToSet(slotQueue) /\ call[c].pc = "waiting" /\ Head(slotQueue) = c
  BY Waiters, TailQueue DEF Inv, Acquire
<1>2. /\ \A d \in Calls : call'[d].left = call[d].left /\ call'[d].wake = call[d].wake
      /\ \A d \in Calls \ {c} : call'[d] = call[d]
      /\ call'[c].pc = "reserving"
      /\ \A d \in Calls : Waits(d)' <=> Waits(d)
  <2>1. call \in [Calls -> CallState] /\ call' = [call EXCEPT ![c].pc = "reserving"]
    BY DEF Inv, TypeOK, Acquire
  <2>2. \A d \in Calls \ {c} : call'[d] = call[d]
    BY <2>1
  <2>3. /\ call'[c].pc = "reserving" /\ call'[c].left = call[c].left
        /\ call'[c].wake = call[c].wake
    BY <2>1 DEF CallState
  <2>4. Waits(c) /\ Waits(c)'
    BY <1>1, <2>3 DEF Waits
  <2>5. ASSUME NEW d \in Calls \ {c}
        PROVE  Waits(d)' <=> Waits(d)
    BY <2>2 DEF Waits
  <2>6. QED
    BY <2>2, <2>3, <2>4, <2>5
<1>3. Punctual'
  BY <1>2 DEF TimeInv, Punctual
<1>4. LockBeforeSlot'
  BY <1>1, <1>2, FirstIsEarliest DEF Inv, TimeInv, InOrder, LockBeforeSlot, Acquire
<1>5. Sorted(slotQueue)'
  <2>1. KeepsOrder(slotQueue', slotQueue)
    BY Waiters, TailQueue DEF Inv, Acquire
  <2>2. \A i \in 1..Len(slotQueue') : call'[slotQueue'[i]].left = call[slotQueue'[i]].left
    <3>1. \A n \in 1..Len(slotQueue') : slotQueue'[n] \in Calls
      BY MembersNext DEF Inv
    <3>2. QED
      BY <1>2, <3>1
  <2> SUFFICES ASSUME NEW i \in 1..Len(slotQueue'), NEW j \in 1..Len(slotQueue'), i < j
               PROVE  call'[slotQueue'[i]].left <= call'[slotQueue'[j]].left
    BY DEF Sorted
  <2>3. PICK k \in 1..Len(slotQueue), l \in 1..Len(slotQueue) :
            k < l /\ slotQueue'[i] = slotQueue[k] /\ slotQueue'[j] = slotQueue[l]
    BY <2>1 DEF KeepsOrder
  <2>4. QED
    BY <2>2, <2>3 DEF TimeInv, InOrder, Sorted
<1>6. Sorted(lockQueue)'
  <2>1. c \notin ToSet(lockQueue) /\ lockQueue \in Queue(Calls)
    BY <1>1, Waiters DEF Inv
  <2>2. /\ Len(lockQueue') = Len(lockQueue) + 1
        /\ \A i \in 1..Len(lockQueue) : lockQueue'[i] = lockQueue[i]
        /\ lockQueue'[Len(lockQueue) + 1] = c
    BY <2>1, AppendQueue DEF Acquire
  <2>3. \A i \in 1..Len(lockQueue) : /\ call'[lockQueue[i]].left = call[lockQueue[i]].left
                                     /\ call[lockQueue[i]].left <= call[c].left
    BY <1>1, <1>2, Members DEF Inv, TimeInv, InOrder, LockBeforeSlot
  <2>4. Len(lockQueue) \in Nat
    BY Members DEF Inv
  <2> SUFFICES ASSUME NEW i \in 1..Len(lockQueue'), NEW j \in 1..Len(lockQueue'), i < j
               PROVE  call'[lockQueue'[i]].left <= call'[lockQueue'[j]].left
    BY DEF Sorted
  <2>5. i \in 1..Len(lockQueue) /\ (j \in 1..Len(lockQueue) \/ j = Len(lockQueue) + 1)
    BY <2>2, <2>4
  <2>6. CASE j \in 1..Len(lockQueue)
    BY <2>2, <2>3, <2>5, <2>6 DEF TimeInv, InOrder, Sorted
  <2>7. CASE j = Len(lockQueue) + 1
    BY <1>2, <2>2, <2>3, <2>5, <2>7
  <2>8. QED
    BY <2>5, <2>6, <2>7
<1>7. QED
  BY <1>3, <1>4, <1>5, <1>6 DEF TimeInv, InOrder

LEMMA SleepKeepsTime ==
    ASSUME Inv, TimeInv, NEW c \in Calls, Sleep(c)
    PROVE  TimeInv'
<1>1. Wait \in Nat
  BY NoRoomNoEmptyWindow, WaitType DEF Inv, Sleep
<1>2. /\ \A d \in Calls : call'[d].left = call[d].left /\ call'[d].pc = call[d].pc
      /\ \A d \in Calls \ {c} : call'[d] = call[d]
      /\ call'[c].wake = Wait /\ Wait <= call[c].left
  BY <1>1 DEF Inv, TypeOK, Sleep, TooLate, CallState
<1>3. Punctual'
  BY <1>2 DEF TimeInv, Punctual, Waits
<1>4. LockBeforeSlot'
  BY <1>2 DEF TimeInv, InOrder, LockBeforeSlot
<1>5. Sorted(slotQueue)' /\ Sorted(lockQueue)'
  <2>1. /\ \A i \in 1..Len(slotQueue) : call'[slotQueue[i]].left = call[slotQueue[i]].left
        /\ \A i \in 1..Len(lockQueue) : call'[lockQueue[i]].left = call[lockQueue[i]].left
    BY <1>2, Members DEF Inv
  <2>2. QED
    BY <2>1 DEF TimeInv, InOrder, Sorted, Sleep
<1>6. QED
  BY <1>3, <1>4, <1>5 DEF TimeInv, InOrder

\* Time passes only when no deadline is due: a call waiting for a permit would
\* give up, and the call that holds the lock is asleep, with the earliest
\* deadline of all who wait for the lock.
LEMMA TickKeepsTime ==
    ASSUME Inv, TimeInv, Tick
    PROVE  TimeInv'
<1>1. \A d \in Calls : call[d] \in CallState
  BY DEF Inv, TypeOK
<1>2. \A d \in Calls : Waits(d) => call[d].left >= 1
  <2> SUFFICES ASSUME NEW d \in Calls, Waits(d)
               PROVE  call[d].left >= 1
    OBVIOUS
  <2>1. call[d].left \in Int /\ call[d].left >= 0
    BY <1>1 DEF TimeInv, Punctual, CallState
  <2>2. CASE call[d].pc = "waiting"
    BY <2>1, <2>2 DEF Tick, Ready
  <2>3. CASE call[d].pc = "reserving"
    <3>1. lockQueue # <<>>
      BY <2>3, Waiters DEF Inv, ToSet
    <3> DEFINE h == Head(lockQueue)
    <3>2. h \in Calls /\ call[h].pc = "reserving"
      BY <3>1, Waiters, TailQueue DEF Inv, Queue
    <3>3. ~Awake(h)
      BY <3>2 DEF Tick, Ready
    <3>4. call[h].wake # 0
      BY <3>1, <3>3 DEF Awake
    <3>5. call[h].wake >= 1 /\ call[h].wake <= call[h].left
      BY <1>1, <3>2, <3>4 DEF CallState, TimeInv, Punctual, Waits
    <3>6. call[h].left <= call[d].left
      BY <2>3, <3>1, FirstIsEarliest DEF Inv, TimeInv
    <3>7. call[h].left \in Int /\ call[h].wake \in Int
      BY <1>1, <3>2 DEF CallState
    <3>8. QED
      BY <2>1, <3>5, <3>6, <3>7
  <2>4. QED
    BY <2>2, <2>3 DEF Waits
<1>3. \A d \in Calls : /\ call'[d].pc = call[d].pc
                       /\ Waits(d) => /\ call'[d].left = call[d].left - 1
                                      /\ call'[d].wake = IF call[d].wake = 0 THEN 0 ELSE call[d].wake - 1
  <2> SUFFICES ASSUME NEW d \in Calls
               PROVE  /\ call'[d].pc = call[d].pc
                      /\ Waits(d) => /\ call'[d].left = call[d].left - 1
                                     /\ call'[d].wake = IF call[d].wake = 0 THEN 0 ELSE call[d].wake - 1
    OBVIOUS
  <2>1. call'[d] = Nearer(call[d])
    BY DEF Tick
  <2>2. call[d].left \in Int /\ (Waits(d) => call[d].left >= 1)
    BY <1>1, <1>2 DEF CallState
  <2>3. QED
    BY <1>1, <2>1, <2>2, NearerFields DEF Waits
<1>4. \A d \in Calls : call[d].left \in Int /\ call[d].wake \in Nat /\ Limit[d] \in Nat
  BY <1>1, QueueAssumption DEF CallState
<1>5. Punctual'
  <2> SUFFICES ASSUME NEW d \in Calls, Waits(d)'
               PROVE  /\ 0 <= call'[d].left /\ call'[d].left <= Limit[d]
                      /\ call'[d].wake <= call'[d].left
    BY DEF Punctual
  <2>1. Waits(d)
    BY <1>3 DEF Waits
  <2>2. call[d].left >= 1 /\ call[d].left <= Limit[d] /\ call[d].wake <= call[d].left
    BY <1>2, <2>1 DEF TimeInv, Punctual
  <2>3. QED
    BY <1>3, <1>4, <2>1, <2>2
<1>6. LockBeforeSlot'
  BY <1>3, <1>4 DEF TimeInv, InOrder, LockBeforeSlot, Waits
<1>7. Sorted(slotQueue)' /\ Sorted(lockQueue)'
  <2>1. /\ \A i \in 1..Len(slotQueue) : /\ call'[slotQueue[i]].left = call[slotQueue[i]].left - 1
                                         /\ call[slotQueue[i]].left \in Int
        /\ \A i \in 1..Len(lockQueue) : /\ call'[lockQueue[i]].left = call[lockQueue[i]].left - 1
                                         /\ call[lockQueue[i]].left \in Int
    BY <1>3, <1>4, Members DEF Inv, Waits
  <2>2. slotQueue' = slotQueue /\ lockQueue' = lockQueue
    BY DEF Tick
  <2>3. Sorted(slotQueue)'
    BY <2>1, <2>2, SMTT(30) DEF TimeInv, InOrder, Sorted
  <2>4. Sorted(lockQueue)'
    BY <2>1, <2>2 DEF TimeInv, InOrder, Sorted
  <2>5. QED
    BY <2>3, <2>4
<1>8. QED
  BY <1>5, <1>6, <1>7 DEF TimeInv, InOrder

LEMMA NextKeepsTime ==
    ASSUME AllWaitAlike, Inv, Inv', TimeInv, Next
    PROVE  TimeInv'
<1>1. CASE Tick
  BY <1>1, TickKeepsTime
<1>2. ASSUME NEW c \in Calls, CallStep(c)
      PROVE  TimeInv'
  <2>1. CASE Enter(c)
    BY <2>1, EnterKeepsTime
  <2>2. CASE Acquire(c)
    BY <2>2, AcquireKeepsTime
  <2>3. CASE SlotTimeout(c)
    <3>1. OnlyMoves(c) /\ ~Waits(c)'
      BY <2>3, OverType DEF Inv, TypeOK, SlotTimeout, OnlyMoves, Waits, Ended
    <3>2. KeepsOrder(slotQueue', slotQueue) /\ KeepsOrder(lockQueue', lockQueue)
      BY <2>3, Waiters, RemoveFirstQueue, SameOrder DEF Inv, SlotTimeout
    <3>3. QED
      BY <3>1, <3>2, LeavingKeepsTime
  <2>4. CASE Reserve(c)
    <3>1. OnlyMoves(c) /\ ~Waits(c)'
      BY <2>4, OverType DEF Inv, TypeOK, Reserve, OnlyMoves, Waits, Busy
    <3>2. KeepsOrder(slotQueue', slotQueue) /\ KeepsOrder(lockQueue', lockQueue)
      BY <2>4, Waiters, TailQueue, SameOrder DEF Inv, Reserve, Awake
    <3>3. QED
      BY <3>1, <3>2, LeavingKeepsTime
  <2>5. CASE Sleep(c)
    BY <2>5, SleepKeepsTime
  <2>6. CASE Refuse(c)
    <3>1. OnlyMoves(c) /\ ~Waits(c)'
      BY <2>6, OverType DEF Inv, TypeOK, Refuse, OnlyMoves, Waits, Ended
    <3>2. KeepsOrder(slotQueue', slotQueue) /\ KeepsOrder(lockQueue', lockQueue)
      BY <2>6, Waiters, TailQueue, SameOrder DEF Inv, Refuse, Awake
    <3>3. QED
      BY <3>1, <3>2, LeavingKeepsTime
  <2>7. CASE Finish(c)
    <3>1. OnlyMoves(c) /\ ~Waits(c)'
      BY <2>7, OverType DEF Inv, TypeOK, Finish, OnlyMoves, Waits, Ended
    <3>2. KeepsOrder(slotQueue', slotQueue) /\ KeepsOrder(lockQueue', lockQueue)
      BY <2>7, SameOrder DEF Finish
    <3>3. QED
      BY <3>1, <3>2, LeavingKeepsTime
  <2>8. CASE Cancel(c)
    <3>1. OnlyMoves(c) /\ ~Waits(c)'
      BY <2>8, OverType DEF Inv, TypeOK, Cancel, OnlyMoves, Waits, Ended
    <3>2. KeepsOrder(slotQueue', slotQueue) /\ KeepsOrder(lockQueue', lockQueue)
      BY <2>8, Waiters, RemoveFirstQueue DEF Inv, Cancel
    <3>3. QED
      BY <3>1, <3>2, LeavingKeepsTime
  <2>9. QED
    BY <1>2, <2>1, <2>2, <2>3, <2>4, <2>5, <2>6, <2>7, <2>8 DEF CallStep
<1>3. QED
  BY <1>1, <1>2 DEF Next

\* Where all calls to a model have the same limit, as in the shipped
\* configuration, none waits past it: both queues are served in the order of
\* the deadlines, and whoever holds the lock sleeps no longer than its own.
THEOREM NobodyWaitsTooLong ==
    ASSUME AllWaitAlike
    PROVE  Spec => []InTime
<1>1. Init => TimeInv
  BY DEF Init, Over, TimeInv, Punctual, InOrder, Sorted, LockBeforeSlot, Waits
<1>2. Inv /\ Inv' /\ TimeInv /\ [Next]_vars => TimeInv'
  <2>1. ASSUME TimeInv, UNCHANGED vars
        PROVE  TimeInv'
    BY <2>1 DEF TimeInv, Punctual, InOrder, Sorted, LockBeforeSlot, Waits, vars
  <2>2. QED
    BY <2>1, NextKeepsTime
<1>3. Inv /\ TimeInv => InTime
  BY DEF TimeInv, Punctual, InTime, Waits, Inv, TypeOK, CallState
<1>4. QED
  BY Invariance, <1>1, <1>2, <1>3, PTL DEF Spec

-----------------------------------------------------------------------------
(* The window never holds more than the budget *)

Tokens(s) == [i \in DOMAIN s |-> s[i].tokens]
Capped(s) == [i \in DOMAIN s |-> Min({s[i].tokens, s[i].reserved})]

\* Until its call has ended an entry is what was estimated.
AsEstimated == \A i \in DOMAIN spent : spent[i].of # NoCall => spent[i].tokens = spent[i].reserved

BudgetInv == WithinBudget /\ AsEstimated

LEMMA MinOfTwo ==
    ASSUME NEW a \in Nat, NEW b \in Nat
    PROVE  Min({a, b}) \in Nat /\ Min({a, b}) = IF a <= b THEN a ELSE b
<1> DEFINE S == {a, b}
<1>1. \E x \in S : \A y \in S : x <= y
  OBVIOUS
<1>2. Min(S) \in S /\ \A y \in S : Min(S) <= y
  BY <1>1 DEF Min
<1>3. QED
  BY <1>2

LEMMA CappedType ==
    ASSUME NEW s \in Seq(Entry)
    PROVE  /\ Len(s) \in Nat /\ DOMAIN s = 1..Len(s)
           /\ \A i \in 1..Len(s) : s[i] \in Entry /\ s[i].tokens \in Nat /\ s[i].reserved \in Nat
           /\ Tokens(s) \in [1..Len(s) -> Nat]
           /\ Capped(s) \in [1..Len(s) -> Nat]
           /\ \A i \in 1..Len(s) : Capped(s)[i] <= Tokens(s)[i]
<1>1. /\ Len(s) \in Nat /\ DOMAIN s = 1..Len(s)
      /\ \A i \in 1..Len(s) : s[i] \in Entry /\ s[i].tokens \in Nat /\ s[i].reserved \in Nat
  <2>1. Len(s) \in Nat /\ DOMAIN s = 1..Len(s) /\ \A i \in 1..Len(s) : s[i] \in Entry
    OBVIOUS
  <2>2. \A e \in Entry : e.tokens \in Nat /\ e.reserved \in Nat
    BY DEF Entry
  <2>3. QED
    BY <2>1, <2>2
<1>2. \A i \in 1..Len(s) : /\ Min({s[i].tokens, s[i].reserved}) \in Nat
                           /\ Min({s[i].tokens, s[i].reserved}) <= s[i].tokens
  BY <1>1, MinOfTwo
<1>3. QED
  BY <1>1, <1>2 DEF Tokens, Capped

\* The sum that WithinBudget bounds, of a window whose entries are among those
\* of another and count for no more there.
LEMMA CappedSmaller ==
    ASSUME NEW r \in Seq(Entry), NEW s \in Seq(Entry), NEW g \in Nat, Len(r) + g <= Len(s),
           \A i \in 1..Len(r) : Capped(r)[i] <= Capped(s)[i + g]
    PROVE  SumFunction(Capped(r)) <= SumFunction(Capped(s)) /\ SumFunction(Capped(r)) \in Int
           /\ SumFunction(Capped(s)) \in Int
<1>1. /\ Len(r) \in Nat /\ Len(s) \in Nat
      /\ Capped(r) \in [1..Len(r) -> Nat] /\ Capped(s) \in [1..Len(s) -> Nat]
  BY CappedType
<1> DEFINE m == Len(r)
           n == Len(s)
<1>2. /\ m \in Nat /\ n \in Nat /\ m + g <= n
      /\ Capped(r) \in [1..m -> Nat] /\ Capped(s) \in [1..n -> Nat]
      /\ \A i \in 1..m : Capped(r)[i] <= Capped(s)[i + g]
  BY <1>1
<1> HIDE DEF m, n
<1>3. /\ SumFunction(Capped(r)) <= SumFunction(Capped(s))
      /\ SumFunction(Capped(r)) \in Nat /\ SumFunction(Capped(s)) \in Nat
  BY <1>2, SumOfSmaller
<1>4. QED
  BY <1>3

LEMMA ReserveBudget ==
    ASSUME Inv, BudgetInv, NEW c \in Calls, Reserve(c)
    PROVE  BudgetInv'
<1> DEFINE n == Need(c)
           e == [age |-> 0, tokens |-> n, reserved |-> n, of |-> c]
           r == Append(spent, e)
           k == Len(spent)
<1>1. spent \in Seq(Entry) /\ spent' = r /\ Used + n <= Budget
  BY DEF Inv, TypeOK, Reserve, Room
<1>2. n \in Nat /\ e \in Entry
  BY NeedType, QueueAssumption DEF Entry
<1>3. /\ k \in Nat /\ DOMAIN spent = 1..k
      /\ r \in Seq(Entry) /\ Len(r) = k + 1 /\ DOMAIN r = 1..(k + 1)
      /\ \A i \in 1..k : r[i] = spent[i]
      /\ r[k + 1] = e
  <2> HIDE DEF e
  <2>1. QED
    BY <1>1, <1>2
<1>4. Min({n, n}) = n
  BY <1>2, MinOfTwo
<1> HIDE DEF n
<1>5. e.tokens = n /\ e.reserved = n /\ e.of = c
  OBVIOUS
<1> HIDE DEF e, r, k
<1>6. Capped(r)[k + 1] = n
  BY <1>3, <1>4, <1>5 DEF Capped
<1>7. \A i \in 1..k : Capped(r)[i] = Capped(spent)[i]
  BY <1>3 DEF Capped
<1>8. SumFunction(Capped(r)) = SumFunction(Capped(spent)) + n
  <2>1. Capped(spent) \in [1..k -> Nat]
    BY <1>1, CappedType DEF k
  <2>2. Capped(r) \in [1..(k + 1) -> Nat]
    BY <1>3, CappedType
  <2>3. QED
    BY <1>3, <1>6, <1>7, <2>1, <2>2, SumOfLonger
<1>9. SumFunction(Capped(spent)) <= Used /\ SumFunction(Capped(spent)) \in Nat /\ Used \in Nat
  <2>1. /\ Tokens(spent) \in [1..k -> Nat] /\ Capped(spent) \in [1..k -> Nat]
        /\ \A i \in 1..k : Capped(spent)[i] <= Tokens(spent)[i + 0]
    BY <1>1, CappedType DEF k
  <2>2. Used = SumFunction(Tokens(spent))
    BY DEF Used, Tokens
  <2>3. k + 0 <= k
    BY <1>3
  <2>4. QED
    BY <1>3, <2>1, <2>2, <2>3, SumOfSmaller
<1>10. SumFunction(Capped(r)) <= Budget
  BY <1>1, <1>2, <1>8, <1>9, QueueAssumption DEF n
<1>11. WithinBudget'
  BY <1>1, <1>10 DEF WithinBudget, Capped
<1>12. AsEstimated'
  <2>1. \A i \in DOMAIN r : r[i].of # NoCall => r[i].tokens = r[i].reserved
    <3>1. \A i \in 1..k : r[i].of # NoCall => r[i].tokens = r[i].reserved
      BY <1>3 DEF BudgetInv, AsEstimated
    <3>2. \A i \in 1..(k + 1) : i = k + 1 \/ i \in 1..k
      BY <1>3
    <3>3. QED
      BY <1>3, <1>5, <3>1, <3>2
  <2>2. QED
    BY <1>1, <2>1 DEF AsEstimated
<1>13. QED
  BY <1>11, <1>12 DEF BudgetInv

\* A reply puts the real number in the place of the estimate, which was counted
\* in full.
LEMMA EndedBudget ==
    ASSUME Inv, BudgetInv, NEW c \in Calls,
           spent' \in {Disowned(c)} \cup {Corrected(c, t) : t \in RealTokens}
    PROVE  BudgetInv'
<1> DEFINE r == spent'
           k == Len(spent)
<1>1. spent \in Seq(Entry) /\ r \in Seq(Entry)
  BY BudgetTypes DEF Inv, TypeOK
<1>2. /\ k \in Nat /\ DOMAIN spent = 1..k
      /\ \A i \in 1..k : spent[i] \in Entry /\ spent[i].tokens \in Nat /\ spent[i].reserved \in Nat
  BY <1>1, CappedType
<1>3. DOMAIN r = 1..k /\ Len(r) = k
  <2>1. DOMAIN r = 1..k
    BY <1>2 DEF Disowned, Corrected
  <2>2. QED
    BY <1>1, <1>2, <2>1
<1>4. ASSUME NEW i \in 1..k
      PROVE  /\ Min({r[i].tokens, r[i].reserved}) <= Min({spent[i].tokens, spent[i].reserved})
             /\ r[i].of # NoCall => r[i].tokens = r[i].reserved
  <2> DEFINE e == spent[i]
  <2>1. e \in Entry /\ e.tokens \in Nat /\ e.reserved \in Nat
    BY <1>2
  <2>2. e.of # NoCall => e.tokens = e.reserved
    BY <1>2 DEF BudgetInv, AsEstimated
  <2>3. CASE e.of # c
    <3>1. r[i] = e
      BY <1>2, <2>3 DEF Disowned, Corrected
    <3>2. QED
      BY <2>1, <2>2, <3>1, MinOfTwo
  <2>4. CASE e.of = c
    <3>1. r[i] \in {[e EXCEPT !.of = NoCall]} \cup {[e EXCEPT !.tokens = t, !.of = NoCall] : t \in RealTokens}
      BY <1>2, <2>4 DEF Disowned, Corrected
    <3> HIDE DEF r, e
    <3>2. r[i].reserved = e.reserved /\ r[i].of = NoCall /\ r[i].tokens \in Nat
      BY <2>1, <3>1, QueueAssumption, ZenonT(30) DEF Entry
    <3>3. e.tokens = e.reserved
      BY <2>2, <2>4, QueueAssumption
    <3>4. Min({e.tokens, e.reserved}) = e.reserved
      BY <2>1, <3>3, MinOfTwo
    <3>5. Min({r[i].tokens, r[i].reserved}) <= e.reserved
      BY <2>1, <3>2, MinOfTwo
    <3>6. QED
      BY <3>2, <3>4, <3>5 DEF e
  <2>5. QED
    BY <2>3, <2>4
<1> HIDE DEF k
<1>5. \A i \in 1..Len(r) : Capped(r)[i] <= Capped(spent)[i + 0]
  BY <1>2, <1>3, <1>4 DEF Capped
<1>6. SumFunction(Capped(r)) <= SumFunction(Capped(spent)) /\ SumFunction(Capped(r)) \in Int
      /\ SumFunction(Capped(spent)) \in Int
  <2>1. Len(r) + 0 <= Len(spent)
    BY <1>2, <1>3 DEF k
  <2> HIDE DEF r
  <2>2. QED
    BY <1>1, <1>5, <2>1, CappedSmaller
<1>7. SumFunction(Capped(spent)) <= Budget
  BY DEF BudgetInv, WithinBudget, Capped
<1>8. WithinBudget'
  <2>1. SumFunction(Capped(r)) <= Budget
    BY <1>6, <1>7, QueueAssumption
  <2>2. QED
    BY <2>1 DEF WithinBudget, Capped
<1>9. AsEstimated'
  BY <1>3, <1>4 DEF AsEstimated
<1>10. QED
  BY <1>8, <1>9 DEF BudgetInv

\* The entries that leave the window are its first.
LEMMA TickBudget ==
    ASSUME Inv, BudgetInv, Tick
    PROVE  BudgetInv'
<1>1. PICK gone \in 0..Len(spent) : spent' = Remaining(gone)
  BY DEF Tick
<1> DEFINE r == spent'
           k == Len(spent)
<1>2. spent \in Seq(Entry) /\ r \in Seq(Entry)
  BY TickInv DEF Inv, TypeOK
<1>3. /\ k \in Nat /\ DOMAIN spent = 1..k /\ gone \in 0..k
      /\ \A i \in 1..k : spent[i] \in Entry
  BY <1>2, CappedType
<1>4. DOMAIN r = 1..(k - gone) /\ Len(r) = k - gone
  <2>1. DOMAIN r = 1..(k - gone)
    BY <1>1 DEF Remaining
  <2>2. k - gone \in Nat
    BY <1>3
  <2>3. QED
    BY <1>2, <2>1, <2>2
<1>5. ASSUME NEW i \in 1..(k - gone)
      PROVE  /\ i + gone \in 1..k
             /\ r[i].tokens = spent[i + gone].tokens /\ r[i].reserved = spent[i + gone].reserved
             /\ r[i].of = spent[i + gone].of
  <2>1. i + gone \in 1..k
    BY <1>3
  <2>2. r[i] = Older(spent[i + gone])
    BY <1>1 DEF Remaining
  <2>3. QED
    BY <1>3, <2>1, <2>2 DEF Older, Entry
<1> HIDE DEF r, k
<1>6. \A i \in 1..Len(r) : Capped(r)[i] <= Capped(spent)[i + gone]
  <2>1. \A i \in 1..(k - gone) : Capped(r)[i] = Capped(spent)[i + gone]
    BY <1>3, <1>4, <1>5 DEF Capped
  <2>2. \A i \in 1..(k - gone) : Capped(r)[i] \in Nat
    BY <1>2, <1>4, CappedType
  <2>3. QED
    BY <1>4, <2>1, <2>2
<1>7. SumFunction(Capped(r)) <= SumFunction(Capped(spent)) /\ SumFunction(Capped(r)) \in Int
      /\ SumFunction(Capped(spent)) \in Int
  <2>1. Len(r) + gone <= Len(spent) /\ gone \in Nat
    BY <1>3, <1>4 DEF k
  <2>2. QED
    BY <1>2, <1>6, <2>1, CappedSmaller
<1>8. SumFunction(Capped(spent)) <= Budget
  BY DEF BudgetInv, WithinBudget, Capped
<1>9. WithinBudget'
  <2>1. SumFunction(Capped(r)) <= Budget
    BY <1>7, <1>8, QueueAssumption
  <2>2. QED
    BY <2>1 DEF WithinBudget, Capped, r
<1>10. AsEstimated'
  <2>1. \A i \in DOMAIN r : r[i].of # NoCall => r[i].tokens = r[i].reserved
    BY <1>3, <1>4, <1>5 DEF BudgetInv, AsEstimated
  <2>2. QED
    BY <2>1 DEF AsEstimated, r
<1>11. QED
  BY <1>9, <1>10 DEF BudgetInv

\* Only a request that found room adds to the window, and nothing that happens
\* while other calls wait, sleep, are corrected or cancelled adds to what it
\* found: the sum of the entries, none counted for more than its estimate, stays
\* within the budget.
THEOREM BudgetIsKept == Spec => []WithinBudget
<1>1. Init => BudgetInv
  <2> SUFFICES ASSUME Init
               PROVE  BudgetInv
    OBVIOUS
  <2>1. DOMAIN spent = {}
    BY DEF Init
  <2>2. SumFunction(Capped(spent)) = 0
    BY <2>1, SumOfNone DEF Capped
  <2>3. QED
    BY <2>1, <2>2, QueueAssumption DEF BudgetInv, WithinBudget, AsEstimated, Capped
<1>2. Inv /\ BudgetInv /\ [Next]_vars => BudgetInv'
  <2> SUFFICES ASSUME Inv, BudgetInv, [Next]_vars
               PROVE  BudgetInv'
    OBVIOUS
  <2>1. CASE spent' = spent
    BY <2>1 DEF BudgetInv, WithinBudget, AsEstimated
  <2>2. CASE Tick
    BY <2>2, TickBudget
  <2>3. ASSUME NEW c \in Calls, CallStep(c), spent' # spent
        PROVE  BudgetInv'
    <3>1. CASE Reserve(c)
      BY <3>1, ReserveBudget
    <3>2. CASE Finish(c)
      BY <3>2, EndedBudget DEF Finish
    <3>3. CASE Cancel(c)
      BY <3>3, EndedBudget DEF Cancel
    <3>4. QED
      BY <2>3, <3>1, <3>2, <3>3 DEF CallStep, Enter, Acquire, SlotTimeout, Sleep, Refuse
  <2>4. QED
    BY <2>1, <2>2, <2>3 DEF Next, vars
<1>3. BudgetInv => WithinBudget
  BY DEF BudgetInv
<1>4. QED
  BY Invariance, <1>1, <1>2, <1>3, PTL DEF Spec

-----------------------------------------------------------------------------
(* The queue is what LlmFailover takes it for *)

\* The mapped variables.
breakers == [m \in {Model} |-> Closed]
permits  == [m \in {Model} |-> free]
calls    == [c \in Calls |-> AsFailover(call[c])]
health   == [m \in {Model} |-> TRUE]

LEMMA MovesMapped ==
    ASSUME NEW c \in Calls, OnlyMoves(c)
    PROVE  calls' = [calls EXCEPT ![c] = AsFailover(call'[c])]
BY DEF calls, OnlyMoves

LEMMA PermitsMapped ==
    /\ free' = free - 1 => permits' = [permits EXCEPT ![Model] = @ - 1]
    /\ free' = free + 1 => permits' = [permits EXCEPT ![Model] = @ + 1]
    /\ free' = free => permits' = permits
BY DEF permits

LEMMA MappedFields ==
    ASSUME NEW c \in Calls
    PROVE  /\ calls[c] = AsFailover(call[c])
           /\ calls[c].pc = FailoverPc(call[c].pc)
           /\ call[c].pc \in Busy => calls[c].at = 1
           /\ permits[Model] = free /\ breakers[Model] = Closed /\ health[Model] = TRUE
           /\ breakers' = breakers /\ health' = health
BY DEF calls, AsFailover, permits, breakers, health

\* A closed breaker without failures stays as it is.
LEMMA ClosedStays ==
    [Closed EXCEPT !.probing = FALSE] = Closed /\ [Closed EXCEPT !.failures = 0, !.probing = FALSE] = Closed
<1>1. Closed \in [failures : {0}, cooling : {FALSE}, probing : {FALSE}]
  BY DEF Closed
<1>2. /\ Closed.failures = 0 /\ Closed.probing = FALSE
      /\ Closed = [f \in {"failures", "cooling", "probing"} |-> Closed[f]]
  BY <1>1
<1>3. QED
  BY <1>2

\* The step of a call from one wait to the next, mapped.
LEMMA Goes ==
    ASSUME NEW pc, NEW k, k.pc \in Busy, NEW n, n.pc = pc, pc \in Busy
    PROVE  AsFailover(n) = [AsFailover(k) EXCEPT !.pc = pc]
<1>1. FailoverPc(pc) = pc
  BY DEF FailoverPc, Busy
<1>2. AsFailover(n) = [pc |-> pc, at |-> 1, trial |-> FALSE]
  BY <1>1 DEF AsFailover
<1>3. AsFailover(k) = [pc |-> FailoverPc(k.pc), at |-> 1, trial |-> FALSE]
  BY DEF AsFailover
<1>4. ASSUME NEW t, NEW x
      PROVE  [pc |-> pc, at |-> 1, trial |-> t] = [[pc |-> x, at |-> 1, trial |-> t] EXCEPT !.pc = pc]
  OBVIOUS
<1>5. [pc |-> pc, at |-> 1, trial |-> FALSE] =
        [[pc |-> FailoverPc(k.pc), at |-> 1, trial |-> FALSE] EXCEPT !.pc = pc]
  BY <1>4
<1>6. QED
  BY <1>2, <1>3, <1>5, Zenon

LEMMA FailoverStart ==
    ASSUME Inv, NEW c \in Calls, Enter(c)
    PROVE  Failover!Start(c)
<1>1. OnlyMoves(c) /\ call[c].pc \in Ended
      /\ AsFailover(call'[c]) = [pc |-> "waiting", at |-> 1, trial |-> FALSE]
  <2>1. [pc |-> "waiting", left |-> Limit[c], wake |-> 0] \in CallState
    BY QueueAssumption DEF CallState, Busy
  <2>2. OnlyMoves(c) /\ call[c].pc \in Ended /\ call'[c].pc = "waiting"
    BY <2>1 DEF Inv, TypeOK, Enter, OnlyMoves
  <2>3. QED
    BY <2>2 DEF AsFailover, FailoverPc, Busy
<1>2. calls' = [calls EXCEPT ![c] = [pc |-> "waiting", at |-> 1, trial |-> FALSE]]
  BY <1>1, MovesMapped
<1>3. calls[c].pc \in Failover!Ended
  BY <1>1, MappedFields DEF FailoverPc, Ended, Failover!Ended
<1>4. permits' = permits
  BY PermitsMapped DEF Enter
<1>5. Failover!Allows(Closed) /\ Failover!State(Closed) = "closed" /\ Failover!Admitted(Closed) = Closed
  BY DEF Closed, Failover!Allows, Failover!State, Failover!Admitted
<1>6. [breakers EXCEPT ![Model] = Closed] = breakers
  BY DEF breakers
<1>7. Failover!Seek(c, 1, breakers)
  <2>1. /\ Len([d \in Calls |-> <<Model>>][c]) = 1
        /\ [d \in Calls |-> <<Model>>][c][1] = Model
    OBVIOUS
  <2>2. breakers[Model] = Closed /\ breakers' = breakers
    BY MappedFields
  <2>3. \A k \in 1..(1 - 1) : FALSE
    OBVIOUS
  <2>4. (Failover!State(Closed) = "half_open") = FALSE
    BY <1>5
  <2>5. calls' = [calls EXCEPT ![c] = [pc |-> "waiting", at |-> 1,
                      trial |-> Failover!State(breakers[Model]) = "half_open"]]
    BY <1>2, <2>2, <2>4
  <2>6. /\ breakers' = [breakers EXCEPT ![Model] = Failover!Admitted(breakers[Model])]
        /\ Failover!Allows(breakers[Model])
    BY <1>5, <1>6, <2>2
  <2>7. 1 \in 1..Len([d \in Calls |-> <<Model>>][c])
    BY <2>1
  <2>8. QED
    BY <2>1, <2>3, <2>5, <2>6, <2>7 DEF Failover!Seek, calls, breakers
<1>8. QED
  BY <1>3, <1>4, <1>7, MappedFields DEF Failover!Start, calls, breakers, permits, health

LEMMA FailoverAcquire ==
    ASSUME Inv, NEW c \in Calls, Acquire(c)
    PROVE  Failover!Acquire(c)
<1>1. call[c].pc = "waiting" /\ free > 0 /\ permits' = [permits EXCEPT ![Model] = @ - 1]
  BY Waiters, TailQueue, PermitsMapped DEF Inv, Acquire
<1>2. OnlyMoves(c) /\ call'[c].pc = "reserving"
  BY DEF Inv, TypeOK, Acquire, OnlyMoves, CallState, Busy
<1>3. AsFailover(call'[c]) = [AsFailover(call[c]) EXCEPT !.pc = "reserving"]
  BY <1>1, <1>2, Goes DEF FailoverPc, Busy
<1>4. calls' = [calls EXCEPT ![c].pc = "reserving"]
  BY <1>2, <1>3, MovesMapped, MappedFields DEF calls
<1>5. calls[c].pc = "waiting" /\ calls[c].at = 1
  BY <1>1, MappedFields DEF FailoverPc, Busy
<1>6. [d \in Calls |-> <<Model>>][c][1] = Model
  OBVIOUS
<1>7. QED
  BY <1>1, <1>4, <1>5, <1>6, MappedFields
  DEF Failover!Acquire, Failover!ModelOf, Failover!Goto, calls, breakers, permits, health

LEMMA FailoverSend ==
    ASSUME Inv, NEW c \in Calls, Reserve(c)
    PROVE  Failover!Send(c)
<1>1. call[c].pc = "reserving" /\ permits' = permits
  BY AwakeWaits, PermitsMapped DEF Inv, Reserve
<1>2. OnlyMoves(c) /\ call'[c].pc = "inside"
  BY OverType DEF Inv, TypeOK, Reserve, OnlyMoves, Busy
<1>3. AsFailover(call'[c]) = [AsFailover(call[c]) EXCEPT !.pc = "inside"]
  BY <1>1, <1>2, Goes DEF FailoverPc, Busy
<1>4. calls' = [calls EXCEPT ![c].pc = "inside"]
  BY <1>2, <1>3, MovesMapped, MappedFields DEF calls
<1>5. calls[c].pc = "reserving"
  BY <1>1, MappedFields DEF FailoverPc
<1>6. QED
  BY <1>1, <1>4, <1>5, MappedFields
  DEF Failover!Send, Failover!Goto, calls, breakers, permits, health

\* With one target, a call that times out in the queue has nowhere else to go.
LEMMA FailoverTimeout ==
    ASSUME NEW c \in Calls, OnlyMoves(c), call'[c].pc = "refused",
           call[c].pc \in {"waiting", "reserving"},
           permits' = IF call[c].pc = "reserving" THEN [permits EXCEPT ![Model] = @ + 1] ELSE permits
    PROVE  Failover!QueueTimeout(c)
<1>1. AsFailover(call'[c]) = Failover!Over("unavailable")
  BY DEF AsFailover, FailoverPc, Busy, Failover!Over
<1>2. calls' = [calls EXCEPT ![c] = Failover!Over("unavailable")]
  BY <1>1, MovesMapped
<1>3. calls[c].pc = call[c].pc /\ calls[c].at = 1
  BY MappedFields DEF FailoverPc, Busy
<1>4. /\ [d \in Calls |-> <<Model>>][c][1] = Model
      /\ Len([d \in Calls |-> <<Model>>][c]) = 1
  OBVIOUS
<1>5. permits' = Failover!FreeAfter(c)
  BY <1>3, <1>4 DEF Failover!FreeAfter, Failover!Holding, Failover!ModelOf, calls, permits
<1>6. Failover!Release(Closed) = Closed
  BY ClosedStays DEF Failover!Release
<1>7. [breakers EXCEPT ![Model] = Failover!Release(@)] = breakers
  BY <1>6 DEF breakers
<1>8. Failover!Seek(c, 2, breakers)
  <2>1. 2..1 = {}
    OBVIOUS
  <2>2. (IF 2 > 1 /\ c \in {} THEN "raised" ELSE "unavailable") = "unavailable"
    OBVIOUS
  <2>3. QED
    BY <1>2, <1>4, <2>1, <2>2, MappedFields DEF Failover!Seek, calls, breakers
<1>9. Failover!Settle(c, Failover!Release) = breakers
  BY <1>3, <1>4, <1>7 DEF Failover!Settle, Failover!ModelOf, calls, breakers
<1>10. calls[c].at + 1 = 2 /\ calls[c].pc \in {"waiting", "reserving"}
  BY <1>3
<1>11. QED
  BY <1>5, <1>8, <1>9, <1>10, MappedFields
  DEF Failover!QueueTimeout, calls, breakers, permits, health

LEMMA FailoverAnswers ==
    ASSUME Inv, NEW c \in Calls, Finish(c)
    PROVE  Failover!Answers(c)
<1>1. call[c].pc = "inside" /\ permits' = [permits EXCEPT ![Model] = @ + 1]
  BY PermitsMapped DEF Finish
<1>2. OnlyMoves(c) /\ call'[c].pc = "done"
  BY OverType DEF Inv, TypeOK, Finish, OnlyMoves, Ended
<1>3. AsFailover(call'[c]) = Failover!Over("answered")
  BY <1>2 DEF AsFailover, FailoverPc, Busy, Failover!Over
<1>4. calls' = [calls EXCEPT ![c] = Failover!Over("answered")]
  BY <1>2, <1>3, MovesMapped
<1>5. calls[c].pc = "inside" /\ calls[c].at = 1
  BY <1>1, MappedFields DEF FailoverPc, Busy
<1>6. [d \in Calls |-> <<Model>>][c][1] = Model
  OBVIOUS
<1>7. permits' = Failover!FreeAfter(c)
  BY <1>1, <1>5, <1>6 DEF Failover!FreeAfter, Failover!Holding, Failover!ModelOf, calls, permits
<1>8. Failover!Success(Closed) = Closed
  BY ClosedStays DEF Failover!Success
<1>9. [breakers EXCEPT ![Model] = Failover!Success(@)] = breakers
  BY <1>8 DEF breakers
<1>10. QED
  BY <1>4, <1>5, <1>6, <1>7, <1>9, MappedFields
  DEF Failover!Answers, Failover!Settle, Failover!ModelOf, calls, breakers, permits, health

LEMMA FailoverCancel ==
    ASSUME Inv, NEW c \in Calls, Cancel(c)
    PROVE  Failover!Cancel(c)
<1>1. OnlyMoves(c) /\ call'[c].pc = "cancelled" /\ call[c].pc \in Busy /\ c \in UnderCeiling
  BY OverType DEF Inv, TypeOK, Cancel, OnlyMoves, Ended
<1>2. AsFailover(call'[c]) = Failover!Over("cancelled")
  BY <1>1 DEF AsFailover, FailoverPc, Busy, Failover!Over
<1>3. calls' = [calls EXCEPT ![c] = Failover!Over("cancelled")]
  BY <1>1, <1>2, MovesMapped
<1>4. calls[c].pc = call[c].pc /\ calls[c].at = 1
  BY <1>1, MappedFields DEF FailoverPc, Busy
<1>5. [d \in Calls |-> <<Model>>][c][1] = Model
  OBVIOUS
<1>6. permits' = Failover!FreeAfter(c)
  BY <1>1, <1>4, <1>5, PermitsMapped
  DEF Cancel, FreeAfter, Busy, Failover!FreeAfter, Failover!Holding, Failover!ModelOf, calls, permits
<1>7. QED
  BY <1>1, <1>3, <1>4, <1>6, MappedFields
  DEF Failover!Cancel, Failover!Busy, Busy, calls, breakers, permits, health

\* A sleep and the clock are steps of the queue alone.
LEMMA FailoverStutters ==
    ASSUME Inv, Tick \/ (\E c \in Calls : Sleep(c)) \/ UNCHANGED vars
    PROVE  UNCHANGED <<breakers, permits, calls, health>>
<1>1. \A d \in Calls : call'[d].pc = call[d].pc
  <2>1. CASE Tick
    BY <2>1, NearerFields DEF Tick, Inv, TypeOK
  <2>2. CASE \E c \in Calls : Sleep(c)
    BY <2>2 DEF Sleep, Inv, TypeOK, CallState
  <2>3. CASE UNCHANGED vars
    BY <2>3 DEF vars
  <2>4. QED
    BY <2>1, <2>2, <2>3
<1>2. calls' = calls
  BY <1>1 DEF calls, AsFailover
<1>3. free' = free
  BY DEF Tick, Sleep, vars
<1>4. QED
  BY <1>2, <1>3, PermitsMapped DEF breakers, health

\* Whatever is said of LlmFailover with its nondeterministic wait for budget
\* holds with the queue in the code: each step of it is one of LlmFailover's,
\* or none.
THEOREM QueueServesFailover == Spec => QueuesAsFailoverSays
<1>1. Init => Failover!Init
  <2> SUFFICES ASSUME Init
               PROVE  Failover!Init
    OBVIOUS
  <2>1. \A c \in Calls : AsFailover(call[c]) = Failover!Over("idle")
    BY DEF Init, Over, AsFailover, FailoverPc, Busy, Failover!Over
  <2>2. QED
    BY <2>1 DEF Init, Failover!Init, Closed
<1>2. Inv /\ [Next]_vars => [Failover!Next]_(Failover!vars)
  <2> SUFFICES ASSUME Inv, [Next]_vars
               PROVE  [Failover!Next]_(Failover!vars)
    OBVIOUS
  <2>1. CASE Tick \/ (\E c \in Calls : Sleep(c)) \/ UNCHANGED vars
    BY <2>1, FailoverStutters DEF Failover!vars, breakers, permits, calls, health
  <2>2. ASSUME NEW c \in Calls, CallStep(c), ~Sleep(c)
        PROVE  Failover!CallStep(c)
    <3>1. CASE Enter(c)
      BY <3>1, FailoverStart DEF Failover!CallStep
    <3>2. CASE Acquire(c)
      BY <3>2, FailoverAcquire DEF Failover!CallStep
    <3>3. CASE SlotTimeout(c)
      <4>1. OnlyMoves(c) /\ call'[c].pc = "refused" /\ call[c].pc = "waiting"
        BY <3>3, OverType DEF Inv, TypeOK, SlotTimeout, OnlyMoves, Ended
      <4>2. permits' = permits
        BY <3>3, PermitsMapped DEF SlotTimeout
      <4>3. QED
        BY <4>1, <4>2, FailoverTimeout DEF Failover!CallStep
    <3>4. CASE Reserve(c)
      BY <3>4, FailoverSend DEF Failover!CallStep
    <3>5. CASE Refuse(c)
      <4>1. OnlyMoves(c) /\ call'[c].pc = "refused" /\ call[c].pc = "reserving"
        BY <3>5, AwakeWaits, OverType DEF Inv, TypeOK, Refuse, OnlyMoves, Ended
      <4>2. permits' = [permits EXCEPT ![Model] = @ + 1]
        BY <3>5, PermitsMapped DEF Refuse
      <4>3. QED
        BY <4>1, <4>2, FailoverTimeout DEF Failover!CallStep
    <3>6. CASE Finish(c)
      BY <3>6, FailoverAnswers DEF Failover!CallStep
    <3>7. CASE Cancel(c)
      BY <3>7, FailoverCancel DEF Failover!CallStep
    <3>8. QED
      BY <2>2, <3>1, <3>2, <3>3, <3>4, <3>5, <3>6, <3>7 DEF CallStep
  <2>3. QED
    BY <2>1, <2>2 DEF Next, Failover!Next
<1>3. QED
  BY Invariance, <1>1, <1>2, PTL DEF Spec, QueuesAsFailoverSays, Failover!Spec
=============================================================================
