------------------------- MODULE NamespaceMgrProofs -------------------------
(***************************************************************************)
(* Proofs about NamespaceMgr, for any components, names and requests and   *)
(* every width of the count.                                               *)
(*                                                                         *)
(* The two indexes are compared by how often a name is in each.  OwnInv    *)
(* says that the chain of a name has entries of one component only, and as *)
(* many as the queue of that component has of the name.                    *)
(***************************************************************************)
EXTENDS NamespaceMgr, SequenceTheorems, FiniteSetTheorems, FunctionTheorems,
        WellFoundedInduction, TLAPS

\* Every entry of a name belongs to the component that is found for it, whose
\* queue has the name as often; the other queues do not have it.
Own(n) ==
    /\ \A i \in 1..Len(atoms[n]) : atoms[n][i] = GetAtomByName(n)
    /\ Found(n) => GetAtomByName(n) \in Comps
    /\ \A c \in Comps :
         Times(ParamspaceQueue[c], n)
           = IF c = GetAtomByName(n) THEN Len(atoms[n]) ELSE 0

OwnInv == ~misused => \A n \in Names : Own(n)

IInv == TypeOK /\ OwnInv /\ CountExact

-----------------------------------------------------------------------------
(***************************************************************************)
(* Counting.                                                               *)
(***************************************************************************)
LEMMA SameSize ==
  ASSUME NEW S, NEW T, IsFiniteSet(S), NEW f \in [S -> T],
         \A x, y \in S : f[x] = f[y] => x = y,
         \A t \in T : \E x \in S : f[x] = t
  PROVE  IsFiniteSet(T) /\ Cardinality(T) = Cardinality(S)
<1>1. f \in Injection(S, T)
  BY Fun_IsInj
<1>2. f \in Surjection(S, T)
  BY Fun_IsSurj
<1>3. f \in Bijection(S, T)
  BY <1>1, <1>2 DEF Bijection
<1>4. ExistsBijection(S, T)
  BY <1>3 DEF ExistsBijection
<1>5. QED
  BY <1>4, FS_Bijection

LEMMA DisjointSizes ==
  ASSUME NEW S, NEW T, IsFiniteSet(S), IsFiniteSet(T), S \cap T = {}
  PROVE  /\ IsFiniteSet(S \cup T)
         /\ Cardinality(S \cup T) = Cardinality(S) + Cardinality(T)
<1>1. Cardinality(S \cap T) = 0
  BY FS_EmptySet
<1>2. Cardinality(S) \in Nat /\ Cardinality(T) \in Nat
  BY FS_CardinalityType
<1>3. /\ IsFiniteSet(S \cup T)
      /\ Cardinality(S \cup T) = Cardinality(S) + Cardinality(T) - Cardinality(S \cap T)
  BY FS_Union
<1>4. QED
  BY <1>1, <1>2, <1>3

LEMMA Places ==
  ASSUME NEW N \in Nat, NEW S \in SUBSET (1..N)
  PROVE  IsFiniteSet(S) /\ Cardinality(S) \in Nat /\ Cardinality(S) <= N
         /\ (Cardinality(S) = 0 <=> S = {})
         /\ (Cardinality(S) = N <=> S = 1..N)
<1>1. IsFiniteSet(1..N) /\ Cardinality(1..N) = N
  BY FS_Interval
<1>2. IsFiniteSet(S) /\ Cardinality(S) <= N /\ (Cardinality(S) = N => S = 1..N)
  BY <1>1, FS_Subset
<1>3. QED
  BY <1>1, <1>2, FS_EmptySet, FS_CardinalityType

\* The places of n in a sequence.
At(q, n) == {i \in 1..Len(q) : q[i] = n}

LEMMA TimesFacts ==
  ASSUME NEW S, NEW q \in Seq(S), NEW n
  PROVE  /\ Len(q) \in Nat /\ DOMAIN q = 1..Len(q)
         /\ Times(q, n) = Cardinality(At(q, n)) /\ IsFiniteSet(At(q, n))
         /\ Times(q, n) \in Nat /\ Times(q, n) <= Len(q)
         /\ Times(q, n) = 0 <=> \A i \in 1..Len(q) : q[i] # n
         /\ Times(q, n) = Len(q) <=> \A i \in 1..Len(q) : q[i] = n
         /\ n \in Range(q) <=> Times(q, n) # 0
<1>1. Len(q) \in Nat /\ DOMAIN q = 1..Len(q)
  BY LenProperties
<1>2. At(q, n) \in SUBSET (1..Len(q))
  BY DEF At
<1>3. Times(q, n) = Cardinality(At(q, n))
  BY <1>1 DEF Times, At
<1>4. /\ IsFiniteSet(At(q, n)) /\ Times(q, n) \in Nat /\ Times(q, n) <= Len(q)
      /\ Times(q, n) = 0 <=> At(q, n) = {}
      /\ Times(q, n) = Len(q) <=> At(q, n) = 1..Len(q)
  BY <1>1, <1>2, <1>3, Places
<1>5. n \in Range(q) <=> At(q, n) # {}
  BY <1>1 DEF Range, At
<1>6. At(q, n) = {} <=> \A i \in 1..Len(q) : q[i] # n
  BY DEF At
<1>7. At(q, n) = 1..Len(q) <=> \A i \in 1..Len(q) : q[i] = n
  BY DEF At
<1>8. QED
  BY <1>1, <1>3, <1>4, <1>5, <1>6, <1>7

LEMMA TimesConcat ==
  ASSUME NEW S, NEW q \in Seq(S), NEW r \in Seq(S), NEW n
  PROVE  Times(q \o r, n) = Times(q, n) + Times(r, n)
<1> DEFINE s == q \o r
           B == {i \in (Len(q) + 1)..(Len(q) + Len(r)) : r[i - Len(q)] = n}
           f == [i \in At(r, n) |-> Len(q) + i]
<1>1. /\ s \in Seq(S) /\ Len(q) \in Nat /\ Len(r) \in Nat /\ Len(s) = Len(q) + Len(r)
      /\ \A i \in 1..(Len(q) + Len(r)) : s[i] = IF i <= Len(q) THEN q[i] ELSE r[i - Len(q)]
  BY ConcatProperties, LenProperties
<1> HIDE DEF s
<1>2. At(s, n) = At(q, n) \cup B /\ At(q, n) \cap B = {}
  BY <1>1 DEF At
<1>3. IsFiniteSet(At(r, n))
  BY TimesFacts
<1>4. f \in [At(r, n) -> B]
  BY <1>1 DEF At
<1>5. \A x, y \in At(r, n) : f[x] = f[y] => x = y
  BY <1>1 DEF At
<1>6. ASSUME NEW t \in B PROVE \E x \in At(r, n) : f[x] = t
  <2>1. t - Len(q) \in At(r, n)
    BY <1>1 DEF At
  <2>2. f[t - Len(q)] = t
    BY <1>1, <2>1
  <2>3. QED
    BY <2>1, <2>2
<1> HIDE DEF B, f
<1>7. IsFiniteSet(B) /\ Cardinality(B) = Cardinality(At(r, n))
  BY <1>3, <1>4, <1>5, <1>6, SameSize
<1>8. Cardinality(At(s, n)) = Cardinality(At(q, n)) + Cardinality(B)
  BY <1>2, <1>7, DisjointSizes, TimesFacts
<1>9. QED
  BY <1>1, <1>7, <1>8, TimesFacts DEF s

LEMMA TimesOne ==
  ASSUME NEW m, NEW n
  PROVE  Times(<<m>>, n) = IF m = n THEN 1 ELSE 0
<1> DEFINE q == <<m>>
<1>1. q \in Seq({m}) /\ Len(q) = 1 /\ \A i \in 1..Len(q) : q[i] = m
  OBVIOUS
<1> HIDE DEF q
<1>2. m = n => Times(q, n) = Len(q)
  BY <1>1, TimesFacts
<1>3. m # n => Times(q, n) = 0
  BY <1>1, TimesFacts
<1>4. QED
  BY <1>1, <1>2, <1>3 DEF q

LEMMA TimesNone ==
  ASSUME NEW n
  PROVE  Times(<<>>, n) = 0
<1> DEFINE q == <<>>
<1>1. q \in Seq({n}) /\ Len(q) = 0
  BY EmptySeq
<1> HIDE DEF q
<1>2. Times(q, n) \in Nat /\ Times(q, n) <= Len(q)
  BY <1>1, TimesFacts
<1>3. QED
  BY <1>1, <1>2 DEF q

LEMMA Without ==
  ASSUME NEW S, NEW q \in Seq(S), NEW p \in 1..Len(q)
  PROVE  /\ RemoveAt(q, p) \in Seq(S)
         /\ Len(RemoveAt(q, p)) = Len(q) - 1
         /\ \A n : Times(RemoveAt(q, p), n) = IF n = q[p] THEN Times(q, n) - 1
                                              ELSE Times(q, n)
<1>1. /\ Len(q) \in Nat /\ q \in Seq(S)
      /\ \A j \in 1..Len(q) : q[j] \in S
  BY LenProperties
<1> DEFINE a == SubSeq(q, 1, p - 1)
           b == SubSeq(q, p + 1, Len(q))
<1>2. /\ a \in Seq(S) /\ Len(a) = p - 1 /\ b \in Seq(S) /\ Len(b) = Len(q) - p
  BY <1>1, SubSeqProperties
<1>3. <<q[p]>> \in Seq(S)
  BY <1>1
<1>4. SubSeq(q, p, Len(q)) = <<q[p]>> \o b
  BY <1>1, SubSeqRecursiveFirst
<1>5. q = a \o SubSeq(q, p, Len(q))
  <2>1. /\ 1 \in 1..(Len(q) + 1) /\ p - 1 \in (1 - 1)..Len(q)
        /\ Len(q) \in (p - 1)..Len(q) /\ p - 1 + 1 = p
    BY <1>1
  <2>2. SubSeq(q, 1, p - 1) \o SubSeq(q, p - 1 + 1, Len(q)) = SubSeq(q, 1, Len(q))
    BY <1>1, <2>1, ConcatAdjacentSubSeq
  <2>3. QED
    BY <2>1, <2>2, SubSeqFull
<1>6. RemoveAt(q, p) = a \o b
  BY DEF RemoveAt
<1> HIDE DEF a, b
<1>7. ASSUME NEW n
      PROVE  Times(a \o b, n) = IF n = q[p] THEN Times(q, n) - 1 ELSE Times(q, n)
  <2>1. Times(a \o b, n) = Times(a, n) + Times(b, n)
    BY <1>2, TimesConcat
  <2>2. Times(<<q[p]>> \o b, n) = Times(<<q[p]>>, n) + Times(b, n)
    BY <1>2, <1>3, TimesConcat
  <2>3. <<q[p]>> \o b \in Seq(S)
    BY <1>2, <1>3, ConcatProperties
  <2>4. Times(q, n) = Times(a, n) + Times(<<q[p]>> \o b, n)
    <3> DEFINE s == <<q[p]>> \o b
    <3>1. q = a \o s /\ s \in Seq(S)
      BY <1>4, <1>5, <2>3
    <3> HIDE DEF s
    <3>2. Times(a \o s, n) = Times(a, n) + Times(s, n)
      BY <1>2, <3>1, TimesConcat
    <3>3. QED
      BY <3>1, <3>2 DEF s
  <2>5. Times(a, n) \in Nat /\ Times(b, n) \in Nat
    BY <1>2, TimesFacts
  <2>6. Times(<<q[p]>>, n) = IF q[p] = n THEN 1 ELSE 0
    BY TimesOne
  <2>7. QED
    BY <2>1, <2>2, <2>4, <2>5, <2>6
<1>8. a \o b \in Seq(S) /\ Len(a \o b) = Len(q) - 1
  <2>1. a \o b \in Seq(S) /\ Len(a \o b) = Len(a) + Len(b)
    BY <1>2, ConcatProperties
  <2>2. QED
    BY <1>1, <1>2, <2>1
<1>9. QED
  BY <1>6, <1>7, <1>8

LEMMA LeastExists ==
  ASSUME NEW N \in SUBSET Nat, N # {}
  PROVE  \E i \in N : \A j \in N : i <= j
<1>1. PICK i \in N : \A j \in N : ~(<<j, i>> \in OpToRel(<, Nat))
  BY NatLessThanWellFounded, WFMin
<1>2. \A j \in N : ~(j < i)
  BY <1>1 DEF OpToRel
<1>3. QED
  BY <1>2

\* CcspNsCompUnregisterNamespace takes exactly one entry off the queue, one of
\* the name if there is any.
LEMMA DequeuedFacts ==
  ASSUME NEW q \in Seq(Names), q # <<>>, NEW n \in Names
  PROVE  /\ Dequeued(q, n) \in Seq(Names) /\ Len(Dequeued(q, n)) = Len(q) - 1
         /\ n \in Range(q) =>
              \A m : Times(Dequeued(q, n), m) = IF m = n THEN Times(q, m) - 1
                                                ELSE Times(q, m)
<1>1. /\ Len(q) \in Nat \ {0} /\ DOMAIN q = 1..Len(q)
      /\ \A i \in 1..Len(q) : q[i] \in Names
  BY EmptySeq, LenProperties
<1>2. ASSUME n \in Range(q)
      PROVE  /\ Dequeued(q, n) \in Seq(Names) /\ Len(Dequeued(q, n)) = Len(q) - 1
             /\ \A m : Times(Dequeued(q, n), m) = IF m = n THEN Times(q, m) - 1
                                                  ELSE Times(q, m)
  <2> DEFINE First(i) == q[i] = n /\ \A j \in 1..(i - 1) : q[j] # n
             p == CHOOSE i \in DOMAIN q : First(i)
  <2>1. At(q, n) # {} /\ At(q, n) \in SUBSET Nat
    BY <1>1, <1>2 DEF At, Range
  <2>2. PICK i \in At(q, n) : \A j \in At(q, n) : i <= j
    BY <2>1, LeastExists
  <2>3. i \in 1..Len(q) /\ q[i] = n
    BY <2>2 DEF At
  <2>4. ASSUME NEW j \in 1..(i - 1) PROVE q[j] # n
    BY <1>1, <2>2, <2>3 DEF At
  <2>5. \E x \in DOMAIN q : First(x)
    BY <1>1, <2>3, <2>4
  <2>6. p \in 1..Len(q) /\ q[p] = n
    BY <1>1, <2>5
  <2>7. Dequeued(q, n) = RemoveAt(q, p)
    BY <1>2 DEF Dequeued
  <2> HIDE DEF p
  <2>8. QED
    BY <2>6, <2>7, Without
<1>3. ASSUME n \notin Range(q)
      PROVE  Dequeued(q, n) \in Seq(Names) /\ Len(Dequeued(q, n)) = Len(q) - 1
  <2> DEFINE r == SubSeq(q, 1, Len(q) - 1)
             k == Len(q) - 1
  <2>1. k \in Nat /\ \A i \in 1..k : q[i] \in Names
    BY <1>1
  <2>2. r \in Seq(Names) /\ Len(r) = IF 1 <= k THEN k - 1 + 1 ELSE 0
    <3>1. r = SubSeq(q, 1, k)
      OBVIOUS
    <3> HIDE DEF k, r
    <3>2. QED
      BY <2>1, <3>1, SubSeqProperties
  <2>3. Dequeued(q, n) = r
    BY <1>3 DEF Dequeued
  <2> HIDE DEF r
  <2>4. QED
    BY <2>1, <2>2, <2>3
<1>4. QED
  BY <1>2, <1>3

\* ppSpaceCopy has names of the request only, and none that is registered.
LEMMA FreshFacts ==
  ASSUME NEW r \in Seq(Names)
  PROVE  /\ Fresh(r) \in Seq(Names)
         /\ \A i \in 1..Len(Fresh(r)) : ~Found(Fresh(r)[i])
<1> DEFINE F == Free(r)
           N == Cardinality(F)
           Upto(i) == {j \in F : j <= i}
           rank == [i \in F |-> Cardinality(Upto(i))]
           pick(k) == CHOOSE i \in F : Cardinality(Upto(i)) = k
<1>1. /\ Len(r) \in Nat /\ DOMAIN r = 1..Len(r) /\ F \in SUBSET (1..Len(r))
      /\ \A i \in 1..Len(r) : r[i] \in Names
      /\ \A i \in F : i \in Nat /\ ~Found(r[i]) /\ r[i] \in Names
  BY LenProperties DEF Free
<1> HIDE DEF F
<1>2. IsFiniteSet(F) /\ N \in Nat
  BY <1>1, Places
<1>3. ASSUME NEW i \in F PROVE Cardinality(Upto(i)) \in 1..N /\ IsFiniteSet(Upto(i))
  <2>1. Upto(i) \in SUBSET F /\ Upto(i) # {}
    BY <1>1
  <2> HIDE DEF Upto
  <2>2. IsFiniteSet(Upto(i)) /\ Cardinality(Upto(i)) <= N
    BY <1>2, <2>1, FS_Subset
  <2>3. Cardinality(Upto(i)) \in Nat /\ Cardinality(Upto(i)) # 0
    BY <2>1, <2>2, FS_EmptySet, FS_CardinalityType
  <2>4. QED
    BY <1>2, <2>2, <2>3
<1>4. ASSUME NEW i \in F, NEW j \in F, i < j
      PROVE  Cardinality(Upto(i)) # Cardinality(Upto(j))
  <2>1. Upto(i) \in SUBSET Upto(j) /\ j \in Upto(j) /\ j \notin Upto(i)
    <3>1. \A x \in F : x \in Nat
      BY <1>1
    <3>2. \A x \in F : x <= i => x <= j
      BY <1>4, <3>1
    <3>3. j <= j /\ ~(j <= i)
      BY <1>4, <3>1
    <3>4. QED
      BY <3>2, <3>3
  <2>2. IsFiniteSet(Upto(j))
    BY <1>3
  <2> HIDE DEF Upto
  <2>3. QED
    BY <2>1, <2>2, FS_Subset
<1>5. rank \in Injection(F, 1..N)
  <2>1. rank \in [F -> 1..N]
    BY <1>3
  <2>2. ASSUME NEW i \in F, NEW j \in F, rank[i] = rank[j] PROVE i = j
    <3>1. ~(i < j) /\ ~(j < i)
      BY <1>4, <2>2
    <3>2. QED
      BY <1>1, <3>1
  <2> HIDE DEF rank
  <2>3. QED
    BY <2>1, <2>2, Fun_IsInj
<1>6. rank \in Surjection(F, 1..N)
  <2>1. IsFiniteSet(1..N) /\ Cardinality(1..N) = N
    BY <1>2, FS_Interval
  <2>2. QED
    BY <1>5, <2>1, FS_Injection
<1>7. ASSUME NEW k \in 1..N PROVE pick(k) \in F
  <2>1. PICK i \in F : rank[i] = k
    <3> HIDE DEF rank
    <3>1. \A t \in 1..N : \E i \in F : rank[i] = t
      BY <1>6 DEF Surjection
    <3>2. QED
      BY <3>1
  <2>2. Cardinality(Upto(i)) = k
    BY <2>1
  <2>3. QED
    BY <2>2
<1> HIDE DEF Upto, rank
<1>8. Fresh(r) = [k \in 1..N |-> r[pick(k)]]
  BY DEF Fresh, F, Upto
<1>9. \A k \in 1..N : r[pick(k)] \in Names /\ ~Found(r[pick(k)])
  BY <1>1, <1>7
<1> HIDE DEF pick
<1>10. Fresh(r) \in Seq(Names) /\ Len(Fresh(r)) = N
  BY <1>2, <1>8, <1>9
<1>11. QED
  BY <1>8, <1>9, <1>10

-----------------------------------------------------------------------------
(***************************************************************************)
(* The count.                                                              *)
(***************************************************************************)
LEMMA ModUnique ==
  ASSUME NEW w \in Nat \ {0}, NEW k \in Int, NEW x \in 0..(w - 1)
  PROVE  (w * k + x) % w = x
<1> DEFINE y == w * k + x
           m == (y \div w) - k
<1>1. y \in Int
  OBVIOUS
<1>2. y = w * (y \div w) + (y % w) /\ y \div w \in Int /\ y % w \in 0..(w - 1)
  <2> HIDE DEF y
  <2>1. QED
    BY <1>1
<1>3. m \in Int /\ w * m = x - (y % w)
  <2>1. w * m = w * (y \div w) - w * k
    BY <1>2
  <2>2. QED
    BY <1>1, <1>2, <2>1
<1>4. w * m < w /\ w * m > -w
  <2> HIDE DEF m, y
  <2>1. QED
    BY <1>2, <1>3
<1>5. m = 0
  <2> HIDE DEF m
  <2>1. m >= 1 => w * m >= w
    BY <1>3
  <2>2. m <= -1 => w * m <= -w
    BY <1>3
  <2>3. w * m \in Int
    BY <1>3
  <2>4. QED
    BY <1>3, <1>4, <2>1, <2>2, <2>3
<1>6. w * m = 0
  BY <1>5
<1>7. x = y % w
  <2> HIDE DEF m, y
  <2>1. QED
    BY <1>2, <1>3, <1>6
<1>8. QED
  BY <1>7

LEMMA ModAdd ==
  ASSUME NEW w \in Nat \ {0}, NEW a \in Int, NEW b \in Int
  PROVE  ((a % w) + b) % w = (a + b) % w /\ a % w \in 0..(w - 1)
<1> DEFINE u == a % w
           q == a \div w
           v == u + b
           x == v % w
           p == v \div w
<1>1. a = w * q + u /\ q \in Int /\ u \in 0..(w - 1)
  OBVIOUS
<1> HIDE DEF u, q
<1>2. v = w * p + x /\ p \in Int /\ x \in 0..(w - 1)
  <2>1. v \in Int
    BY <1>1
  <2> HIDE DEF v
  <2>2. QED
    BY <2>1
<1>3. a + b = w * (q + p) + x
  <2>1. w * (q + p) = w * q + w * p
    BY <1>1, <1>2
  <2>2. v = u + b
    OBVIOUS
  <2> HIDE DEF p, x, v
  <2>3. w * q \in Int /\ w * p \in Int
    BY <1>1, <1>2
  <2>4. QED
    BY <1>1, <1>2, <2>1, <2>2, <2>3
<1>4. (a + b) % w = x
  <2> HIDE DEF p, x, v
  <2>1. q + p \in Int
    BY <1>1, <1>2
  <2>2. QED
    BY <1>2, <1>3, <2>1, ModUnique
<1>5. QED
  BY <1>1, <1>4 DEF u

LEMMA QueuedChange ==
  ASSUME TypeOK, NEW c \in Comps, NEW q \in Seq(Names), Len(q) <= MaxDepth,
         ParamspaceQueue' = [ParamspaceQueue EXCEPT ![c] = q]
  PROVE  /\ Cardinality(Queued) \in Nat
         /\ Cardinality(Queued') = Cardinality(Queued) + (Len(q) - Len(ParamspaceQueue[c]))
<1> DEFINE R == {e \in Queued : e[1] # c}
           Mine(k) == {c} \X (1..k)
<1>1. /\ MaxDepth \in Nat /\ Len(q) \in Nat
      /\ Len(ParamspaceQueue[c]) \in Nat /\ Len(ParamspaceQueue[c]) <= MaxDepth
  BY LenProperties, NamespaceConstants DEF TypeOK
<1>2. Queued = R \cup Mine(Len(ParamspaceQueue[c]))
  BY <1>1 DEF Queued
<1>3. Queued' = R \cup Mine(Len(q))
  BY <1>1 DEF Queued, TypeOK
<1>4. IsFiniteSet(Queued)
  <2>1. IsFiniteSet(Comps) /\ IsFiniteSet(1..MaxDepth)
    BY <1>1, NamespaceConstants, FS_Interval
  <2>2. IsFiniteSet(Comps \X (1..MaxDepth))
    BY <2>1, FS_Product
  <2>3. Queued \in SUBSET (Comps \X (1..MaxDepth))
    BY DEF Queued
  <2>4. QED
    BY <2>2, <2>3, FS_Subset
<1>5. ASSUME NEW k \in Nat
      PROVE  /\ IsFiniteSet(Mine(k)) /\ Cardinality(Mine(k)) = k
             /\ R \cap Mine(k) = {}
  <2> DEFINE f == [i \in 1..k |-> <<c, i>>]
  <2>1. f \in [1..k -> Mine(k)]
    OBVIOUS
  <2>2. \A x, y \in 1..k : f[x] = f[y] => x = y
    OBVIOUS
  <2>3. \A t \in Mine(k) : \E x \in 1..k : f[x] = t
    OBVIOUS
  <2>4. R \cap Mine(k) = {}
    OBVIOUS
  <2>5. IsFiniteSet(1..k) /\ Cardinality(1..k) = k
    BY FS_Interval
  <2> HIDE DEF f, Mine
  <2>6. QED
    BY <2>1, <2>2, <2>3, <2>4, <2>5, SameSize
<1>6. IsFiniteSet(R) /\ Cardinality(R) \in Nat /\ Cardinality(Queued) \in Nat
  <2>1. R \in SUBSET Queued
    OBVIOUS
  <2> HIDE DEF R
  <2>2. QED
    BY <1>4, <2>1, FS_Subset, FS_CardinalityType
<1> HIDE DEF R, Mine
<1>7. ASSUME NEW k \in Nat PROVE Cardinality(R \cup Mine(k)) = Cardinality(R) + k
  <2>1. IsFiniteSet(Mine(k)) /\ Cardinality(Mine(k)) = k /\ R \cap Mine(k) = {}
    BY <1>5
  <2>2. Cardinality(R \cup Mine(k)) = Cardinality(R) + Cardinality(Mine(k))
    BY <1>6, <2>1, DisjointSizes
  <2>3. QED
    BY <2>1, <2>2
<1>8. Cardinality(Queued) = Cardinality(R) + Len(ParamspaceQueue[c])
  BY <1>1, <1>2, <1>7
<1>9. Cardinality(Queued') = Cardinality(R) + Len(q)
  BY <1>1, <1>3, <1>7
<1>10. QED
  BY <1>1, <1>6, <1>8, <1>9

\* The count follows a queue that changes by d names.
LEMMA CountFollows ==
  ASSUME TypeOK, CountExact, NEW c \in Comps, NEW q \in Seq(Names), Len(q) <= MaxDepth,
         ParamspaceQueue' = [ParamspaceQueue EXCEPT ![c] = q],
         uTotalNamespace' = (uTotalNamespace + (Len(q) - Len(ParamspaceQueue[c]))) % Width,
         UNCHANGED cleaned
  PROVE  CountExact' /\ uTotalNamespace' \in 0..(Width - 1)
<1> DEFINE d == Len(q) - Len(ParamspaceQueue[c])
           E == Cardinality(Queued)
<1>1. Width \in Nat \ {0} /\ d \in Int /\ uTotalNamespace \in Int
  BY LenProperties, NamespaceConstants DEF TypeOK
<1>2. E \in Nat /\ Cardinality(Queued') = E + d
  BY QueuedChange
<1>3. uTotalNamespace' = (uTotalNamespace + d) % Width
  OBVIOUS
<1> HIDE DEF d, E
<1>4. uTotalNamespace' \in 0..(Width - 1)
  <2>1. uTotalNamespace + d \in Int
    BY <1>1
  <2>2. QED
    BY <1>1, <1>3, <2>1, ModAdd
<1>5. ASSUME ~cleaned PROVE uTotalNamespace' = (E + d) % Width
  <2>1. uTotalNamespace = E % Width
    BY <1>5 DEF CountExact, E
  <2>2. E \in Int
    BY <1>2
  <2>3. ((E % Width) + d) % Width = (E + d) % Width
    BY <1>1, <2>2, ModAdd
  <2>4. QED
    BY <1>3, <2>1, <2>3
<1>6. QED
  BY <1>2, <1>4, <1>5 DEF CountExact

-----------------------------------------------------------------------------
(***************************************************************************)
(* The chains of the hash table.                                           *)
(***************************************************************************)
Chains == Seq(Comps \cup {Freed})

LEMMA ChainFacts ==
  ASSUME NEW T \in [Names -> Chains], NEW n \in Names
  PROVE  /\ T[n] \in Chains /\ Len(T[n]) \in Nat /\ DOMAIN T[n] = 1..Len(T[n])
         /\ T[n] = <<>> <=> Len(T[n]) = 0
         /\ T[n] # <<>> => Head(T[n]) = T[n][1]
         /\ \A i \in 1..Len(T[n]) : T[n][i] \in Comps \cup {Freed}
<1>1. T[n] \in Chains
  OBVIOUS
<1>2. QED
  BY <1>1, LenProperties, EmptySeq DEF Chains

LEMMA AddedChain ==
  ASSUME atoms \in [Names -> Chains], NEW c \in Comps, NEW r \in Seq(Names), NEW n \in Names
  PROVE  /\ Added(r, c)[n] \in Chains
         /\ Times(r, n) = 0 => Added(r, c)[n] = atoms[n]
         /\ ~Found(n) => /\ Len(Added(r, c)[n]) = Times(r, n)
                         /\ \A i \in 1..Times(r, n) : Added(r, c)[n][i] = c
<1> DEFINE k == Times(r, n)
           new == [i \in 1..k |-> c]
<1>1. k \in Nat
  BY TimesFacts
<1> HIDE DEF k
<1>2. new \in Chains /\ Len(new) = k /\ \A i \in 1..k : new[i] = c
  BY <1>1 DEF Chains
<1>3. k = 0 => new = <<>>
  BY <1>2, EmptySeq DEF Chains
<1>4. Added(r, c)[n] = new \o atoms[n] /\ atoms[n] \in Chains
  BY DEF Added, k
<1> HIDE DEF new
<1>5. new \o atoms[n] \in Chains
  BY <1>2, <1>4, ConcatProperties DEF Chains
<1>6. k = 0 => new \o atoms[n] = atoms[n]
  BY <1>3, <1>4, ConcatEmptySeq DEF Chains
<1>7. ~Found(n) => new \o atoms[n] = new
  BY <1>2, ConcatEmptySeq DEF Chains, Found
<1>8. QED
  BY <1>2, <1>4, <1>5, <1>6, <1>7 DEF k

LEMMA DeletedChain ==
  ASSUME NEW T \in [Names -> Chains], NEW q \in Seq(Names), NEW n \in Names
  PROVE  /\ DelAtomByName(T, q)[n] \in Chains
         /\ Times(q, n) = 0 => DelAtomByName(T, q)[n] = T[n]
         /\ Times(q, n) = Len(T[n]) => DelAtomByName(T, q)[n] = <<>>
         /\ Times(q, n) <= Len(T[n]) =>
              /\ Len(DelAtomByName(T, q)[n]) = Len(T[n]) - Times(q, n)
              /\ \A i \in 1..(Len(T[n]) - Times(q, n)) :
                   DelAtomByName(T, q)[n][i] = T[n][Times(q, n) + i]
<1> DEFINE k == Times(q, n)
           l == Len(T[n])
           ch == T[n]
           del == SubSeq(ch, k + 1, l)
<1>1. k \in Nat
  BY TimesFacts
<1>2. l \in Nat /\ ch \in Chains /\ \A i \in 1..l : ch[i] \in Comps \cup {Freed}
  BY ChainFacts
<1>3. DelAtomByName(T, q)[n] = del
  BY DEF DelAtomByName
<1>4. k = 0 => del = ch
  <2>1. k = 0 => k + 1 = 1
    OBVIOUS
  <2>2. SubSeq(ch, 1, Len(ch)) = ch
    <3> HIDE DEF ch
    <3>1. QED
      BY <1>2, SubSeqFull DEF Chains
  <2>3. QED
    BY <2>1, <2>2
<1> HIDE DEF k, l, ch
<1>5. k + 1 \in Int /\ l \in Int /\ \A i \in (k + 1)..l : ch[i] \in Comps \cup {Freed}
  BY <1>1, <1>2
<1>6. /\ del \in Chains
      /\ Len(del) = IF k + 1 <= l THEN l - (k + 1) + 1 ELSE 0
      /\ \A i \in 1..(l - (k + 1) + 1) : del[i] = ch[(k + 1) + i - 1]
  BY <1>5, SubSeqProperties DEF Chains
<1>7. k = l => del = <<>>
  BY <1>1, <1>2, SubSeqEmpty
<1> HIDE DEF del
<1>8. ASSUME k <= l
      PROVE  Len(del) = l - k /\ \A i \in 1..(l - k) : del[i] = ch[k + i]
  <2>1. Len(del) = l - k /\ l - (k + 1) + 1 = l - k
    BY <1>1, <1>2, <1>6, <1>8
  <2>2. ASSUME NEW i \in 1..(l - k) PROVE (k + 1) + i - 1 = k + i
    BY <1>1, <1>2
  <2>3. QED
    BY <1>6, <2>1, <2>2
<1>9. QED
  BY <1>3, <1>4, <1>6, <1>7, <1>8 DEF k, l, ch

LEMMA TypeFacts ==
  ASSUME TypeOK
  PROVE  /\ atoms \in [Names -> Chains] /\ ParamspaceQueue \in [Comps -> Seq(Names)]
         /\ \A c \in Comps : /\ ParamspaceQueue[c] \in Seq(Names)
                             /\ Len(ParamspaceQueue[c]) \in Nat
                             /\ Len(ParamspaceQueue[c]) <= MaxDepth
                             /\ c \notin ComponentQueue => ParamspaceQueue[c] = <<>>
         /\ uTotalNamespace \in Int /\ None \notin Comps /\ Freed \notin Comps
  BY LenProperties, NamespaceConstants DEF TypeOK, Chains

\* After a step, the component found for a name is that of every entry.
LEMMA FoundFor ==
  ASSUME atoms' \in [Names -> Chains], NEW n \in Names, atoms'[n] # <<>>, NEW c,
         \A i \in 1..Len(atoms'[n]) : atoms'[n][i] = c
  PROVE  GetAtomByName(n)' = c
<1>1. Len(atoms'[n]) \in Nat /\ Len(atoms'[n]) # 0 /\ Head(atoms'[n]) = atoms'[n][1]
  BY ChainFacts
<1>2. QED
  BY <1>1 DEF GetAtomByName, Found

LEMMA OwnMade ==
  ASSUME atoms' \in [Names -> Chains], NEW n \in Names, NEW c \in Comps,
         \A i \in 1..Len(atoms'[n]) : atoms'[n][i] = c,
         \A d \in Comps : Times(ParamspaceQueue'[d], n) = IF d = c THEN Len(atoms'[n]) ELSE 0
  PROVE  Own(n)'
<1>1. CASE atoms'[n] # <<>>
  <2>1. GetAtomByName(n)' = c
    BY <1>1, FoundFor
  <2>2. QED
    BY <2>1 DEF Own
<1>2. CASE atoms'[n] = <<>>
  <2>1. Len(atoms'[n]) = 0
    BY <1>2, ChainFacts
  <2>2. \A d \in Comps : Times(ParamspaceQueue'[d], n) = 0
    BY <2>1
  <2>3. QED
    BY <1>2, <2>1, <2>2 DEF Own, Found
<1>3. QED
  BY <1>1, <1>2

LEMMA OwnNone ==
  ASSUME NEW n \in Names, atoms'[n] = <<>>,
         \A d \in Comps : Times(ParamspaceQueue'[d], n) = 0
  PROVE  Own(n)'
<1>1. Len(atoms'[n]) = 0 /\ ~Found(n)'
  BY EmptySeq DEF Found
<1>2. QED
  BY <1>1 DEF Own, Found

LEMMA OwnKept ==
  ASSUME NEW n \in Names, Own(n), atoms'[n] = atoms[n],
         \A d \in Comps : Times(ParamspaceQueue'[d], n) = Times(ParamspaceQueue[d], n)
  PROVE  Own(n)'
<1>1. GetAtomByName(n)' = GetAtomByName(n) /\ Found(n)' = Found(n)
  BY DEF GetAtomByName, Found
<1>2. QED
  BY <1>1 DEF Own

\* Nobody's queue has a name that is not found.
LEMMA NotFound ==
  ASSUME TypeOK, NEW n \in Names, Own(n), ~Found(n), NEW c \in Comps
  PROVE  Times(ParamspaceQueue[c], n) = 0
<1>1. GetAtomByName(n) = None
  BY DEF GetAtomByName
<1>2. QED
  BY <1>1, TypeFacts DEF Own

-----------------------------------------------------------------------------
(***************************************************************************)
(* What each operation does to the two indexes.                            *)
(***************************************************************************)
LEMMA AddEffect ==
  ASSUME TypeOK, NEW c \in Comps, NEW r \in Seq(Names),
         \A i \in 1..Len(r) : ~Found(r[i]), Add(c, r)
  PROVE  /\ atoms' \in [Names -> Chains]
         /\ \A n \in Names :
              /\ Times(r, n) = 0 => atoms'[n] = atoms[n]
              /\ Times(r, n) # 0 =>
                   /\ ~Found(n) /\ Len(atoms'[n]) = Times(r, n) /\ atoms'[n] # <<>>
                   /\ \A i \in 1..Len(atoms'[n]) : atoms'[n][i] = c
<1>1. atoms \in [Names -> Chains]
  BY TypeFacts
<1>2. atoms' = Added(r, c)
  BY DEF Add
<1>3. \A m \in Names : Added(r, c)[m] \in Chains
  BY <1>1, AddedChain
<1>4. atoms' \in [Names -> Chains]
  BY <1>2, <1>3 DEF Added
<1>5. ASSUME NEW n \in Names, Times(r, n) # 0
      PROVE  /\ ~Found(n) /\ Len(atoms'[n]) = Times(r, n) /\ atoms'[n] # <<>>
             /\ \A i \in 1..Len(atoms'[n]) : atoms'[n][i] = c
  <2>1. \E i \in 1..Len(r) : r[i] = n
    BY <1>5, TimesFacts
  <2>2. ~Found(n)
    BY <2>1
  <2>3. /\ Len(atoms'[n]) = Times(r, n)
        /\ \A i \in 1..Times(r, n) : atoms'[n][i] = c
    BY <1>1, <1>2, <2>2, AddedChain
  <2>4. atoms'[n] # <<>>
    BY <1>4, <1>5, <2>3, ChainFacts
  <2>5. QED
    BY <2>2, <2>3, <2>4
<1>6. QED
  BY <1>1, <1>2, <1>4, <1>5, AddedChain

LEMMA AddStep ==
  ASSUME IInv, NEW c \in Comps, NEW r \in Seq(Names),
         \A i \in 1..Len(r) : ~Found(r[i]), Add(c, r), hasTable' = TRUE,
         UNCHANGED <<misused, cleaned>>
  PROVE  IInv'
<1> DEFINE q == ParamspaceQueue[c] \o r
<1>1. TypeOK /\ CountExact
  BY DEF IInv
<1>2. /\ ParamspaceQueue \in [Comps -> Seq(Names)] /\ ParamspaceQueue[c] \in Seq(Names)
      /\ Len(ParamspaceQueue[c]) \in Nat /\ Len(r) \in Nat /\ uTotalNamespace \in Int
  BY <1>1, TypeFacts, LenProperties
<1>3. q \in Seq(Names) /\ Len(q) = Len(ParamspaceQueue[c]) + Len(r) /\ Len(q) <= MaxDepth
  BY <1>2, ConcatProperties DEF Add
<1>4. ParamspaceQueue' = [ParamspaceQueue EXCEPT ![c] = q]
  BY DEF Add
<1>5. uTotalNamespace' = (uTotalNamespace + (Len(q) - Len(ParamspaceQueue[c]))) % Width
  <2>1. Len(q) - Len(ParamspaceQueue[c]) = Len(r)
    BY <1>2, <1>3
  <2>2. QED
    BY <2>1 DEF Add
<1>6. \A d \in Comps, n \in Names :
         Times(ParamspaceQueue'[d], n) = IF d = c THEN Times(ParamspaceQueue[c], n) + Times(r, n)
                                         ELSE Times(ParamspaceQueue[d], n)
  <2>1. \A n \in Names : Times(q, n) = Times(ParamspaceQueue[c], n) + Times(r, n)
    BY <1>2, TimesConcat
  <2> HIDE DEF q
  <2>2. QED
    BY <1>2, <1>4, <2>1
<1> HIDE DEF q
<1>7. CountExact' /\ uTotalNamespace' \in 0..(Width - 1)
  BY <1>1, <1>3, <1>4, <1>5, CountFollows
<1>8. atoms' \in [Names -> Chains]
  BY <1>1, AddEffect
<1>9. TypeOK'
  <2>1. atoms' \in [Names -> Chains]
    BY <1>8
  <2>2. ParamspaceQueue' \in [Comps -> Seq(Names)]
    BY <1>2, <1>3, <1>4
  <2>3. \A d \in Comps : /\ Len(ParamspaceQueue'[d]) <= MaxDepth
                         /\ d \notin ComponentQueue' => ParamspaceQueue'[d] = <<>>
    BY <1>1, <1>2, <1>3, <1>4, TypeFacts DEF Add
  <2>4. QED
    BY <1>1, <1>7, <2>1, <2>2, <2>3 DEF TypeOK, Add, Chains
<1>10. ASSUME ~misused', NEW n \in Names PROVE Own(n)'
  <2>1. Own(n)
    BY <1>10 DEF IInv, OwnInv
  <2>2. Times(r, n) \in Nat /\ \A d \in Comps : Times(ParamspaceQueue[d], n) \in Nat
    BY <1>1, TimesFacts, TypeFacts
  <2>3. CASE Times(r, n) = 0
    <3>1. atoms'[n] = atoms[n]
      BY <1>1, <2>3, AddEffect
    <3>2. \A d \in Comps : Times(ParamspaceQueue'[d], n) = Times(ParamspaceQueue[d], n)
      BY <1>6, <2>2, <2>3
    <3>3. QED
      BY <2>1, <3>1, <3>2, OwnKept
  <2>4. CASE Times(r, n) # 0
    <3>1. /\ atoms' \in [Names -> Chains]
          /\ ~Found(n) /\ Len(atoms'[n]) = Times(r, n) /\ atoms'[n] # <<>>
          /\ \A i \in 1..Len(atoms'[n]) : atoms'[n][i] = c
      BY <1>1, <2>4, AddEffect
    <3>2. \A d \in Comps : Times(ParamspaceQueue[d], n) = 0
      BY <1>1, <2>1, <3>1, NotFound
    <3>3. \A d \in Comps : Times(ParamspaceQueue'[d], n) = IF d = c THEN Len(atoms'[n]) ELSE 0
      BY <1>6, <2>2, <3>1, <3>2
    <3>4. QED
      BY <3>1, <3>3, OwnMade
  <2>5. QED
    BY <2>3, <2>4
<1>11. QED
  BY <1>7, <1>9, <1>10 DEF IInv, OwnInv

LEMMA RegistersStep ==
  ASSUME IInv, NEW c \in Comps, NEW request \in Requests, Registers(c, request)
  PROVE  /\ request \in Seq(Names) /\ \A i \in 1..Len(request) : ~Found(request[i])
         /\ IInv'
<1>1. request \in Seq(Names) /\ DOMAIN request = 1..Len(request)
  BY NamespaceConstants, LenProperties
<1>2. \A i \in 1..Len(request) : ~Found(request[i])
  BY <1>1 DEF Registers, Stops
<1>3. hasTable' = TRUE
  BY DEF Registers, IInv, TypeOK
<1>4. QED
  BY <1>1, <1>2, <1>3, AddStep DEF Registers

LEMMA BuildStep ==
  ASSUME IInv, NEW c \in Comps, NEW request \in Requests, BuildNamespaces(c, request)
  PROVE  IInv'
<1>1. request \in Seq(Names)
  BY NamespaceConstants
<1>2. /\ Fresh(request) \in Seq(Names)
      /\ \A i \in 1..Len(Fresh(request)) : ~Found(Fresh(request)[i])
  BY <1>1, FreshFacts
<1>3. QED
  BY <1>2, AddStep DEF BuildNamespaces

\* A component that unregisters a name it has is the owner of the name.
LEMMA UnregisterEffect ==
  ASSUME IInv, NEW c \in Comps, NEW m \in Names, UnregisterNamespace(c, m)
  PROVE  /\ atoms' \in [Names -> Chains]
         /\ \A n \in Names : n # m => atoms'[n] = atoms[n]
         /\ ~misused' =>
              /\ GetAtomByName(m) = c
              /\ Len(atoms'[m]) = Len(atoms[m]) - 1
              /\ \A i \in 1..Len(atoms'[m]) : atoms'[m][i] = c
<1>1. TypeOK /\ atoms \in [Names -> Chains] /\ <<m>> \in Seq(Names)
  BY TypeFacts DEF IInv
<1>2. atoms' = DelAtomByName(atoms, <<m>>)
  BY DEF UnregisterNamespace
<1>3. atoms' \in [Names -> Chains]
  <2>1. \A n \in Names : DelAtomByName(atoms, <<m>>)[n] \in Chains
    BY <1>1, DeletedChain
  <2>2. QED
    BY <1>2, <2>1 DEF DelAtomByName
<1>4. ASSUME NEW n \in Names, n # m PROVE atoms'[n] = atoms[n]
  <2>1. Times(<<m>>, n) = 0
    BY <1>4, TimesOne
  <2>2. QED
    BY <1>1, <1>2, <2>1, DeletedChain
<1>5. ASSUME ~misused'
      PROVE  /\ GetAtomByName(m) = c
             /\ Len(atoms'[m]) = Len(atoms[m]) - 1
             /\ \A i \in 1..Len(atoms'[m]) : atoms'[m][i] = c
  <2>1. Own(m) /\ m \in Range(ParamspaceQueue[c])
    BY <1>5 DEF IInv, OwnInv, UnregisterNamespace
  <2>2. Times(ParamspaceQueue[c], m) # 0
    BY <1>1, <2>1, TimesFacts, TypeFacts
  <2>3. GetAtomByName(m) = c /\ \A i \in 1..Len(atoms[m]) : atoms[m][i] = c
    BY <2>1, <2>2 DEF Own
  <2>4. Times(<<m>>, m) = 1
    BY TimesOne
  <2>5. Len(atoms[m]) \in Nat /\ Len(atoms[m]) # 0
    BY <1>1, ChainFacts DEF UnregisterNamespace, Found
  <2>6. /\ Len(atoms'[m]) = Len(atoms[m]) - 1
        /\ \A i \in 1..(Len(atoms[m]) - 1) : atoms'[m][i] = atoms[m][1 + i]
    <3>1. Times(<<m>>, m) <= Len(atoms[m])
      BY <2>4, <2>5
    <3>2. /\ Len(atoms'[m]) = Len(atoms[m]) - Times(<<m>>, m)
          /\ \A i \in 1..(Len(atoms[m]) - Times(<<m>>, m)) :
               atoms'[m][i] = atoms[m][Times(<<m>>, m) + i]
      BY <1>1, <1>2, <3>1, DeletedChain
    <3>3. QED
      BY <2>4, <3>2
  <2>7. \A i \in 1..Len(atoms'[m]) : 1 + i \in 1..Len(atoms[m])
    BY <2>5, <2>6
  <2>8. QED
    BY <2>3, <2>6, <2>7
<1>6. QED
  BY <1>3, <1>4, <1>5

LEMMA UnregisterStep ==
  ASSUME IInv, NEW c \in Comps, NEW m \in Names, UnregisterNamespace(c, m)
  PROVE  IInv'
<1> DEFINE q == Dequeued(ParamspaceQueue[c], m)
<1>1. TypeOK /\ CountExact
  BY DEF IInv
<1>2. /\ ParamspaceQueue \in [Comps -> Seq(Names)] /\ ParamspaceQueue[c] \in Seq(Names)
      /\ Len(ParamspaceQueue[c]) \in Nat /\ Len(ParamspaceQueue[c]) <= MaxDepth
      /\ uTotalNamespace \in Int
  BY <1>1, TypeFacts
<1>3. /\ q \in Seq(Names) /\ Len(q) = Len(ParamspaceQueue[c]) - 1
      /\ m \in Range(ParamspaceQueue[c]) =>
           \A n : Times(q, n) = IF n = m THEN Times(ParamspaceQueue[c], n) - 1
                                ELSE Times(ParamspaceQueue[c], n)
  BY <1>2, DequeuedFacts DEF UnregisterNamespace
<1>4. ParamspaceQueue' = [ParamspaceQueue EXCEPT ![c] = q]
  BY DEF UnregisterNamespace
<1> HIDE DEF q
<1>5. Len(q) <= MaxDepth
  BY <1>2, <1>3, NamespaceConstants
<1>6. uTotalNamespace' = (uTotalNamespace + (Len(q) - Len(ParamspaceQueue[c]))) % Width
  <2>1. uTotalNamespace + (Len(q) - Len(ParamspaceQueue[c])) = uTotalNamespace - 1
    BY <1>2, <1>3
  <2>2. uTotalNamespace' = (uTotalNamespace - 1) % Width
    BY DEF UnregisterNamespace
  <2>3. QED
    BY <2>1, <2>2
<1>7. CountExact' /\ uTotalNamespace' \in 0..(Width - 1)
  BY <1>1, <1>3, <1>4, <1>5, <1>6, CountFollows DEF UnregisterNamespace
<1>8. TypeOK'
  <2>1. atoms' \in [Names -> Chains]
    BY UnregisterEffect
  <2>2. ParamspaceQueue' \in [Comps -> Seq(Names)]
    BY <1>2, <1>3, <1>4
  <2>3. \A d \in Comps : /\ Len(ParamspaceQueue'[d]) <= MaxDepth
                         /\ d \notin ComponentQueue' => ParamspaceQueue'[d] = <<>>
    BY <1>1, <1>2, <1>4, <1>5, TypeFacts DEF UnregisterNamespace
  <2>4. misused' \in BOOLEAN /\ status' = "success"
        /\ UNCHANGED <<ComponentQueue, hasTable, cleaned>> /\ hasTable
    BY DEF UnregisterNamespace
  <2>5. QED
    BY <1>1, <1>7, <2>1, <2>2, <2>3, <2>4 DEF TypeOK, Chains
<1>9. ASSUME ~misused', NEW n \in Names PROVE Own(n)'
  <2>1. Own(n) /\ Own(m) /\ m \in Range(ParamspaceQueue[c])
    BY <1>9 DEF IInv, OwnInv, UnregisterNamespace
  <2>2. CASE n # m
    <3>1. atoms'[n] = atoms[n]
      BY <2>2, UnregisterEffect
    <3>2. \A d \in Comps : Times(ParamspaceQueue'[d], n) = Times(ParamspaceQueue[d], n)
      BY <1>2, <1>3, <1>4, <2>1, <2>2
    <3>3. QED
      BY <2>1, <3>1, <3>2, OwnKept
  <2>3. CASE n = m
    <3>1. /\ atoms' \in [Names -> Chains] /\ GetAtomByName(m) = c
          /\ Len(atoms'[m]) = Len(atoms[m]) - 1
          /\ \A i \in 1..Len(atoms'[m]) : atoms'[m][i] = c
      BY <1>9, UnregisterEffect
    <3>2. \A d \in Comps : Times(ParamspaceQueue[d], m) = IF d = c THEN Len(atoms[m]) ELSE 0
      BY <2>1, <3>1 DEF Own
    <3>3. Times(ParamspaceQueue'[c], m) = Len(atoms'[m])
      BY <1>2, <1>3, <1>4, <2>1, <3>1, <3>2
    <3>4. \A d \in Comps : d # c => Times(ParamspaceQueue'[d], m) = 0
      BY <1>2, <1>4, <3>2
    <3>5. Own(m)'
      BY <3>1, <3>3, <3>4, OwnMade
    <3>6. QED
      BY <2>3, <3>5
  <2>4. QED
    BY <2>2, <2>3
<1>10. QED
  BY <1>7, <1>8, <1>9 DEF IInv, OwnInv

\* A component that leaves takes exactly the chains it owns with it.
LEMMA LeaveEffect ==
  ASSUME IInv, NEW c \in Comps, UnregisterComponent(c)
  PROVE  /\ atoms' \in [Names -> Chains]
         /\ ~misused =>
              \A n \in Names : atoms'[n] = IF GetAtomByName(n) = c THEN <<>> ELSE atoms[n]
<1> DEFINE q == ParamspaceQueue[c]
           T == DelAtomByName(atoms, q)
<1>1. TypeOK /\ atoms \in [Names -> Chains] /\ q \in Seq(Names)
  BY TypeFacts DEF IInv
<1>2. atoms' = Dangle(T, c)
  BY DEF UnregisterComponent
<1>3. T \in [Names -> Chains]
  <2>1. \A n \in Names : T[n] \in Chains
    <3> HIDE DEF q
    <3>1. QED
      BY <1>1, DeletedChain
  <2>2. QED
    BY <2>1 DEF DelAtomByName
<1> HIDE DEF T
<1>4. \A n \in Names : /\ DOMAIN T[n] = 1..Len(T[n]) /\ Len(T[n]) \in Nat
                       /\ \A i \in 1..Len(T[n]) : T[n][i] \in Comps \cup {Freed}
                       /\ T[n] \in Chains
  BY <1>3, ChainFacts
<1>5. atoms' \in [Names -> Chains]
  <2>1. ASSUME NEW n \in Names
        PROVE  [i \in DOMAIN T[n] |-> IF T[n][i] = c THEN Freed ELSE T[n][i]] \in Chains
    BY <1>4 DEF Chains
  <2>2. QED
    BY <1>2, <2>1 DEF Dangle
<1>6. ASSUME ~misused, NEW n \in Names
      PROVE  atoms'[n] = IF GetAtomByName(n) = c THEN <<>> ELSE atoms[n]
  <2>1. Own(n)
    BY <1>6 DEF IInv, OwnInv
  <2>2. atoms'[n] = [i \in DOMAIN T[n] |-> IF T[n][i] = c THEN Freed ELSE T[n][i]]
    BY <1>2 DEF Dangle
  <2>3. CASE GetAtomByName(n) = c
    <3>1. Times(q, n) = Len(atoms[n])
      BY <2>1, <2>3 DEF Own
    <3>2. T[n] = <<>>
      BY <1>1, <3>1, DeletedChain DEF T
    <3>3. atoms'[n] = <<>>
      BY <2>2, <3>2
    <3>4. QED
      BY <2>3, <3>3
  <2>4. CASE GetAtomByName(n) # c
    <3>1. Times(q, n) = 0
      BY <2>1, <2>4 DEF Own
    <3>2. T[n] = atoms[n]
      BY <1>1, <3>1, DeletedChain DEF T
    <3>3. \A i \in 1..Len(T[n]) : T[n][i] # c
      BY <2>1, <2>4, <3>2 DEF Own
    <3>4. atoms'[n] = [i \in DOMAIN T[n] |-> T[n][i]]
      BY <1>4, <2>2, <3>3
    <3>5. T[n] = [i \in DOMAIN T[n] |-> T[n][i]]
      BY <1>4, LenProperties DEF Chains
    <3>6. QED
      BY <2>4, <3>2, <3>4, <3>5
  <2>5. QED
    BY <2>3, <2>4
<1>7. QED
  BY <1>5, <1>6

LEMMA LeaveStep ==
  ASSUME IInv, NEW c \in Comps, UnregisterComponent(c)
  PROVE  IInv'
<1>1. TypeOK /\ CountExact
  BY DEF IInv
<1>2. /\ ParamspaceQueue \in [Comps -> Seq(Names)]
      /\ Len(ParamspaceQueue[c]) \in Nat /\ uTotalNamespace \in Int /\ MaxDepth \in Nat
      /\ <<>> \in Seq(Names) /\ Len(<<>>) = 0
  BY <1>1, TypeFacts, NamespaceConstants, EmptySeq
<1>3. ParamspaceQueue' = [ParamspaceQueue EXCEPT ![c] = <<>>]
  BY DEF UnregisterComponent
<1>4. uTotalNamespace' = (uTotalNamespace + (Len(<<>>) - Len(ParamspaceQueue[c]))) % Width
  <2>1. uTotalNamespace + (Len(<<>>) - Len(ParamspaceQueue[c]))
          = uTotalNamespace - Len(ParamspaceQueue[c])
    BY <1>2
  <2>2. uTotalNamespace' = (uTotalNamespace - Len(ParamspaceQueue[c])) % Width
    BY DEF UnregisterComponent
  <2>3. QED
    BY <2>1, <2>2
<1>5. CountExact' /\ uTotalNamespace' \in 0..(Width - 1)
  <2>1. Len(<<>>) <= MaxDepth /\ UNCHANGED cleaned
    BY <1>2 DEF UnregisterComponent
  <2>2. QED
    BY <1>1, <1>2, <1>3, <1>4, <2>1, CountFollows
<1>6. TypeOK'
  <2>1. atoms' \in [Names -> Chains]
    BY LeaveEffect
  <2>2. ParamspaceQueue' \in [Comps -> Seq(Names)]
    BY <1>2, <1>3
  <2>3. \A d \in Comps : /\ Len(ParamspaceQueue'[d]) <= MaxDepth
                         /\ d \notin ComponentQueue' => ParamspaceQueue'[d] = <<>>
    BY <1>1, <1>2, <1>3, TypeFacts DEF UnregisterComponent
  <2>4. status' = "success" /\ UNCHANGED <<misused, hasTable, cleaned>> /\ hasTable
        /\ ComponentQueue' = ComponentQueue \ {c}
    BY DEF UnregisterComponent
  <2>5. QED
    BY <1>1, <1>5, <2>1, <2>2, <2>3, <2>4 DEF TypeOK, Chains
<1>7. ASSUME ~misused', NEW n \in Names PROVE Own(n)'
  <2>1. Own(n) /\ ~misused
    BY <1>7 DEF IInv, OwnInv, UnregisterComponent
  <2>2. Times(<<>>, n) = 0
    BY TimesNone
  <2>3. \A d \in Comps : Times(ParamspaceQueue'[d], n)
                           = IF d = c THEN 0 ELSE Times(ParamspaceQueue[d], n)
    BY <1>2, <1>3, <2>2
  <2>4. CASE GetAtomByName(n) = c
    <3>1. atoms'[n] = <<>>
      BY <2>1, <2>4, LeaveEffect
    <3>2. \A d \in Comps : Times(ParamspaceQueue'[d], n) = 0
      BY <2>1, <2>3, <2>4 DEF Own
    <3>3. QED
      BY <3>1, <3>2, OwnNone
  <2>5. CASE GetAtomByName(n) # c
    <3>1. atoms'[n] = atoms[n]
      BY <2>1, <2>5, LeaveEffect
    <3>2. \A d \in Comps : Times(ParamspaceQueue'[d], n) = Times(ParamspaceQueue[d], n)
      BY <2>1, <2>3, <2>5 DEF Own
    <3>3. QED
      BY <2>1, <3>1, <3>2, OwnKept
  <2>6. QED
    BY <2>4, <2>5
<1>8. QED
  BY <1>5, <1>6, <1>7 DEF IInv, OwnInv

LEMMA CleanStep ==
  ASSUME IInv, CleanAll
  PROVE  IInv'
<1>1. <<>> \in Seq(Names) /\ <<>> \in Chains /\ Len(<<>>) = 0 /\ MaxDepth \in Nat
  BY EmptySeq, NamespaceConstants DEF Chains
<1>2. TypeOK'
  <2>1. ParamspaceQueue' \in [Comps -> Seq(Names)] /\ atoms' \in [Names -> Chains]
    BY <1>1 DEF CleanAll
  <2>2. \A c \in Comps : ParamspaceQueue'[c] = <<>>
    BY DEF CleanAll
  <2>3. \A n \in Names : ~Found(n)'
    BY DEF CleanAll, Found
  <2>4. ComponentQueue' = {} /\ hasTable' = FALSE /\ cleaned' = TRUE
        /\ status' = "success" /\ UNCHANGED <<uTotalNamespace, misused>>
    BY DEF CleanAll
  <2>5. \A c \in Comps : Len(ParamspaceQueue'[c]) <= MaxDepth
    BY <1>1, <2>2
  <2>6. QED
    BY <2>1, <2>2, <2>3, <2>4, <2>5 DEF IInv, TypeOK, Chains
<1>3. \A n \in Names : Own(n)'
  BY TimesNone, OwnNone DEF CleanAll
<1>4. CountExact'
  BY DEF CountExact, CleanAll
<1>5. QED
  BY <1>2, <1>3, <1>4 DEF IInv, OwnInv

\* Operations that only answer.
LEMMA AnswerStep ==
  ASSUME IInv, status' \in {"success", "invalid", "overlap", "mismatch", "unknown"},
         UNCHANGED <<ComponentQueue, ParamspaceQueue, hasTable, atoms, uTotalNamespace,
                     misused, cleaned>>
  PROVE  IInv'
<1>1. TypeOK'
  BY DEF IInv, TypeOK, Found
<1>2. OwnInv'
  BY DEF IInv, OwnInv, Own, GetAtomByName, Found
<1>3. CountExact'
  BY DEF IInv, CountExact, Queued
<1>4. QED
  BY <1>1, <1>2, <1>3 DEF IInv

LEMMA InitIInv == Init => IInv
<1> SUFFICES ASSUME Init PROVE IInv
  OBVIOUS
<1>1. <<>> \in Seq(Names) /\ <<>> \in Chains /\ Len(<<>>) = 0
  BY EmptySeq DEF Chains
<1>2. MaxDepth \in Nat /\ Width \in Nat \ {0}
  BY NamespaceConstants
<1>3. TypeOK
  <2>1. ParamspaceQueue \in [Comps -> Seq(Names)] /\ atoms \in [Names -> Chains]
    BY <1>1 DEF Init
  <2>2. \A c \in Comps : ParamspaceQueue[c] = <<>>
    BY DEF Init
  <2>3. \A n \in Names : ~Found(n)
    BY DEF Init, Found
  <2>4. ComponentQueue = {} /\ hasTable = TRUE /\ uTotalNamespace = 0
        /\ status = "success" /\ misused = FALSE /\ cleaned = FALSE
    BY DEF Init
  <2>5. \A c \in Comps : Len(ParamspaceQueue[c]) <= MaxDepth
    BY <1>1, <1>2, <2>2
  <2>6. uTotalNamespace \in 0..(Width - 1)
    BY <1>2, <2>4
  <2>7. QED
    BY <2>1, <2>2, <2>3, <2>4, <2>5, <2>6 DEF TypeOK, Chains
<1>4. ASSUME NEW n \in Names PROVE Own(n)
  <2>1. atoms[n] = <<>> /\ ~Found(n) /\ Len(atoms[n]) = 0
    BY <1>1 DEF Init, Found
  <2>2. \A c \in Comps : Times(ParamspaceQueue[c], n) = 0
    BY TimesNone DEF Init
  <2>3. QED
    BY <2>1, <2>2 DEF Own
<1>5. CountExact
  <2>1. Queued = {}
    BY <1>1, <1>2 DEF Init, Queued
  <2>2. Cardinality(Queued) = 0
    BY <2>1, FS_EmptySet
  <2>3. uTotalNamespace = 0 /\ 0 % Width = 0
    BY <1>2 DEF Init
  <2>4. QED
    BY <2>2, <2>3 DEF CountExact
<1>6. QED
  BY <1>3, <1>4, <1>5 DEF IInv, OwnInv

LEMMA StepIInv ==
  ASSUME IInv, [Next]_vars
  PROVE  IInv'
<1>1. ASSUME NEW c \in Comps, NEW request \in Requests, RegisterEnds(c, request)
      PROVE  IInv'
  <2>1. Refusals(c, request) \subseteq {"success", "invalid", "overlap"}
    BY DEF Refusals
  <2>2. QED
    BY <1>1, <2>1, AnswerStep DEF RegisterEnds
<1>2. ASSUME NEW c \in Comps, NEW n \in Names, UnregisterMismatch(c, n)
      PROVE  IInv'
  BY <1>2, AnswerStep DEF UnregisterMismatch
<1>3. ASSUME NEW c \in Comps, UnknownComponent(c)
      PROVE  IInv'
  BY <1>3, AnswerStep DEF UnknownComponent
<1>4. ASSUME UNCHANGED vars
      PROVE  IInv'
  BY <1>4, AnswerStep DEF vars, IInv, TypeOK
<1>5. QED
  BY <1>1, <1>2, <1>3, <1>4, RegistersStep, BuildStep, UnregisterStep, LeaveStep, CleanStep
     DEF Next

\* IInv is inductive: no sequence of registrations, unregistrations and clean-ups
\* leads out of it.
THEOREM Inductive == Spec => []IInv
  BY InitIInv, StepIInv, PTL DEF Spec

-----------------------------------------------------------------------------
(***************************************************************************)
(* The theorems.                                                           *)
(***************************************************************************)
\* Type correctness: no queue exceeds its bound, the count keeps its width,
\* and without a hash table nothing is found.
THEOREM TypeCorrect == Spec => []TypeOK
<1>1. IInv => TypeOK
  BY DEF IInv
<1>2. QED
  BY <1>1, Inductive, PTL

\* As long as components unregister only what they have, hash table and queues
\* agree on every name, however often it was registered, nothing leads to a
\* freed component, and both levels of DiscoverNamespace find the same
\* components.
THEOREM IndexesAgree == Spec => []IndexMatchesQueues
<1>1. ASSUME IInv PROVE IndexMatchesQueues
  <2> SUFFICES ASSUME ~misused
               PROVE  /\ \A n \in Names :
                           /\ \A i \in DOMAIN atoms[n] : atoms[n][i] # Freed
                           /\ \A c \in Comps : Times(atoms[n], c) = Times(ParamspaceQueue[c], n)
                      /\ \A o \in Objs, p \in {"", SubsysPrefix} :
                           DiscoverObj(o, p) = UNION {DiscoverParam(n, p) : n \in Under[o]}
    BY DEF IndexMatchesQueues
  <2>1. TypeOK /\ \A n \in Names : Own(n)
    BY <1>1 DEF IInv, OwnInv
  <2>2. /\ atoms \in [Names -> Chains] /\ None \notin Comps /\ Freed \notin Comps
        /\ \A c \in Comps : ParamspaceQueue[c] \in Seq(Names)
        /\ \A c \in Comps : c \notin ComponentQueue => ParamspaceQueue[c] = <<>>
    BY <2>1, TypeFacts
  <2>3. ASSUME NEW n \in Names
        PROVE  /\ \A i \in DOMAIN atoms[n] : atoms[n][i] # Freed
               /\ \A c \in Comps : Times(atoms[n], c) = Times(ParamspaceQueue[c], n)
    <3>1. /\ atoms[n] \in Chains /\ Len(atoms[n]) \in Nat /\ DOMAIN atoms[n] = 1..Len(atoms[n])
          /\ Found(n) <=> Len(atoms[n]) # 0
      BY <2>2, ChainFacts DEF Found
    <3>2. Own(n)
      BY <2>1
    <3>3. \A i \in DOMAIN atoms[n] : atoms[n][i] \in Comps
      BY <3>1, <3>2 DEF Own
    <3>4. ASSUME NEW c \in Comps
          PROVE  Times(atoms[n], c) = IF c = GetAtomByName(n) THEN Len(atoms[n]) ELSE 0
      <4>1. /\ Times(atoms[n], c) = 0 <=> \A i \in 1..Len(atoms[n]) : atoms[n][i] # c
            /\ Times(atoms[n], c) = Len(atoms[n]) <=> \A i \in 1..Len(atoms[n]) : atoms[n][i] = c
        BY <3>1, TimesFacts DEF Chains
      <4>2. \A i \in 1..Len(atoms[n]) : atoms[n][i] = GetAtomByName(n)
        BY <3>2 DEF Own
      <4>3. QED
        BY <4>1, <4>2
    <3>5. QED
      BY <2>2, <3>2, <3>3, <3>4 DEF Own
  <2>4. ASSUME NEW c \in Comps, NEW n \in Names
        PROVE  n \in Range(ParamspaceQueue[c]) <=> GetAtomByName(n) = c
    <3>1. n \in Range(ParamspaceQueue[c]) <=> Times(ParamspaceQueue[c], n) # 0
      BY <2>2, TimesFacts
    <3>2. GetAtomByName(n) = c => Len(atoms[n]) # 0
      BY <2>2, ChainFacts DEF GetAtomByName, Found
    <3>3. QED
      BY <2>1, <3>1, <3>2 DEF Own
  <2>5. \A n \in Names : GetAtomByName(n) \in Comps \cup {None}
    BY <2>1 DEF Own, GetAtomByName
  <2>6. \A c \in Comps, n \in Names : GetAtomByName(n) = c => c \in ComponentQueue
    <3>1. Range(<<>>) = {}
      BY DEF Range
    <3>2. QED
      BY <2>2, <2>4, <3>1
  <2>7. ASSUME NEW o \in Objs, NEW p \in {"", SubsysPrefix}
        PROVE  DiscoverObj(o, p) = UNION {DiscoverParam(n, p) : n \in Under[o]}
    <3>1. \A c \in Comps : ParamPrefixMatches(c, p) <=> ObjPrefixMatches(c, p)
      BY DEF ParamPrefixMatches, ObjPrefixMatches
    <3>2. Under[o] \subseteq Names /\ ComponentQueue \subseteq Comps
      BY <2>1, NamespaceConstants DEF TypeOK
    <3>3. ASSUME NEW c \in DiscoverObj(o, p)
          PROVE  \E n \in Under[o] : c \in DiscoverParam(n, p)
      <4>1. c \in ComponentQueue /\ IsObjectSupported(c, o) /\ ObjPrefixMatches(c, p)
        BY DEF DiscoverObj
      <4>2. PICK n \in Under[o] : n \in Range(ParamspaceQueue[c])
        BY <4>1 DEF IsObjectSupported
      <4>3. GetAtomByName(n) = c /\ c # None /\ c \in Comps
        BY <2>2, <2>4, <3>2, <4>1, <4>2
      <4>4. QED
        BY <3>1, <4>1, <4>2, <4>3 DEF DiscoverParam
    <3>4. ASSUME NEW n \in Under[o], NEW c \in DiscoverParam(n, p)
          PROVE  c \in DiscoverObj(o, p)
      <4>1. c = GetAtomByName(n) /\ c # None /\ ParamPrefixMatches(c, p)
        BY DEF DiscoverParam
      <4>2. c \in Comps /\ n \in Names /\ c \in ComponentQueue
        BY <2>5, <2>6, <3>2, <4>1
      <4>3. n \in Range(ParamspaceQueue[c])
        BY <2>4, <4>1, <4>2
      <4>4. QED
        BY <3>1, <4>1, <4>2, <4>3 DEF DiscoverObj, IsObjectSupported
    <3>5. QED
      BY <3>3, <3>4
  <2>8. QED
    BY <2>3, <2>7
<1>2. QED
  BY <1>1, Inductive, PTL

\* uTotalNamespace is the number of names in the queues modulo its width, even
\* after a component has unregistered a name it does not have, until CleanAll.
THEOREM CountStaysExact == Spec => []CountExact
<1>1. IInv => CountExact
  BY DEF IInv
<1>2. QED
  BY <1>1, Inductive, PTL

-----------------------------------------------------------------------------
(***************************************************************************)
(* The refinement of NameDirectory.                                        *)
(***************************************************************************)
LEMMA OwnerFacts ==
  /\ Owner \in [Names -> {GetAtomByName(n) : n \in Names}]
  /\ Owner = [n \in Names |-> GetAtomByName(n)]
  /\ Owner' = [n \in Names |-> GetAtomByName(n)']
  /\ \A n \in Names : Owner[n] = GetAtomByName(n)
  BY DEF Owner

LEMMA AddClaims ==
  ASSUME TypeOK, NEW c \in Comps, NEW r \in Seq(Names),
         \A i \in 1..Len(r) : ~Found(r[i]), Add(c, r)
  PROVE  Dir!Next
<1> DEFINE S == {n \in Names : Times(r, n) # 0}
<1>1. ASSUME NEW n \in Names, n \in S
      PROVE  GetAtomByName(n) = None /\ GetAtomByName(n)' = c
  <2>1. /\ atoms' \in [Names -> Chains] /\ ~Found(n) /\ atoms'[n] # <<>>
        /\ \A i \in 1..Len(atoms'[n]) : atoms'[n][i] = c
    BY <1>1, AddEffect
  <2>2. QED
    BY <2>1, FoundFor DEF GetAtomByName
<1>2. ASSUME NEW n \in Names, n \notin S
      PROVE  GetAtomByName(n)' = GetAtomByName(n)
  BY <1>2, AddEffect DEF GetAtomByName, Found
<1>3. S \in SUBSET Names
  OBVIOUS
<1> HIDE DEF S
<1>4. Owner' = [n \in Names |-> IF n \in S THEN c ELSE Owner[n]]
  BY <1>1, <1>2, OwnerFacts
<1>5. \A n \in S : Owner[n] = None
  BY <1>1, <1>3, OwnerFacts
<1>6. Dir!Claim(c, S)
  BY <1>4, <1>5 DEF Dir!Claim
<1>7. QED
  BY <1>3, <1>6 DEF Dir!Next

LEMMA UnregisterGivesUp ==
  ASSUME IInv, NEW c \in Comps, NEW m \in Names, UnregisterNamespace(c, m), ~misused'
  PROVE  Dir!Next \/ UNCHANGED Owner
<1>1. /\ atoms \in [Names -> Chains] /\ atoms' \in [Names -> Chains]
      /\ GetAtomByName(m) = c
      /\ \A i \in 1..Len(atoms'[m]) : atoms'[m][i] = c
      /\ \A n \in Names : n # m => atoms'[n] = atoms[n]
  BY UnregisterEffect, TypeFacts DEF IInv
<1>2. \A n \in Names : n # m => GetAtomByName(n)' = GetAtomByName(n)
  BY <1>1 DEF GetAtomByName, Found
<1>3. CASE atoms'[m] # <<>>
  <2>1. GetAtomByName(m)' = GetAtomByName(m)
    BY <1>1, <1>3, FoundFor
  <2>2. QED
    BY <1>2, <2>1, OwnerFacts
<1>4. CASE atoms'[m] = <<>>
  <2>1. GetAtomByName(m)' = None
    BY <1>4 DEF GetAtomByName, Found
  <2>2. Owner' = [n \in Names |-> IF n \in {m} THEN None ELSE Owner[n]]
    BY <1>2, <2>1, OwnerFacts
  <2>3. \A n \in {m} : Owner[n] = c
    BY <1>1, OwnerFacts
  <2>4. {m} \in SUBSET Names /\ Dir!GiveUp(c, {m})
    BY <2>2, <2>3 DEF Dir!GiveUp
  <2>5. QED
    BY <2>4 DEF Dir!Next
<1>5. QED
  BY <1>3, <1>4

LEMMA LeaveGivesUp ==
  ASSUME IInv, NEW c \in Comps, UnregisterComponent(c), ~misused'
  PROVE  Dir!Next
<1> DEFINE S == {n \in Names : GetAtomByName(n) = c}
<1>1. \A n \in Names : atoms'[n] = IF GetAtomByName(n) = c THEN <<>> ELSE atoms[n]
  BY LeaveEffect DEF UnregisterComponent
<1>2. \A n \in Names : n \in S => GetAtomByName(n)' = None
  BY <1>1 DEF GetAtomByName, Found
<1>3. \A n \in Names : n \notin S => GetAtomByName(n)' = GetAtomByName(n)
  BY <1>1 DEF GetAtomByName, Found
<1>4. S \in SUBSET Names /\ \A n \in S : Owner[n] = c
  BY OwnerFacts
<1> HIDE DEF S
<1>5. Owner' = [n \in Names |-> IF n \in S THEN None ELSE Owner[n]]
  BY <1>2, <1>3, OwnerFacts
<1>6. Dir!GiveUp(c, S)
  BY <1>4, <1>5 DEF Dir!GiveUp
<1>7. QED
  BY <1>4, <1>6 DEF Dir!Next

LEMMA StepRefines ==
  ASSUME IInv, [Next]_vars
  PROVE  [misused' \/ Dir!Next]_Owner
<1>1. ASSUME NEW c \in Comps, NEW request \in Requests, Registers(c, request)
      PROVE  Dir!Next
  BY <1>1, RegistersStep, AddClaims DEF IInv, Registers
<1>2. ASSUME NEW c \in Comps, NEW request \in Requests, BuildNamespaces(c, request)
      PROVE  Dir!Next
  <2>1. request \in Seq(Names)
    BY NamespaceConstants
  <2>2. QED
    BY <1>2, <2>1, FreshFacts, AddClaims DEF IInv, BuildNamespaces
<1>3. ASSUME CleanAll PROVE Dir!Next
  <2>1. \A n \in Names : GetAtomByName(n)' = None
    BY <1>3 DEF CleanAll, GetAtomByName, Found
  <2>2. QED
    BY <2>1, OwnerFacts DEF Dir!Next, Dir!Clear
<1>4. ASSUME UNCHANGED atoms PROVE UNCHANGED Owner
  <2>1. \A n \in Names : GetAtomByName(n)' = GetAtomByName(n)
    BY <1>4 DEF GetAtomByName, Found
  <2>2. QED
    BY <2>1, OwnerFacts
<1>5. ASSUME NEW c \in Comps, NEW n \in Names, UnregisterNamespace(c, n)
      PROVE  misused' \/ Dir!Next \/ UNCHANGED Owner
  BY <1>5, UnregisterGivesUp
<1>6. ASSUME NEW c \in Comps, UnregisterComponent(c)
      PROVE  misused' \/ Dir!Next
  BY <1>6, LeaveGivesUp
<1>7. QED
  BY <1>1, <1>2, <1>3, <1>4, <1>5, <1>6
     DEF Next, vars, RegisterEnds, UnregisterMismatch, UnknownComponent

\* The manager implements NameDirectory: names are claimed only while nobody has
\* them and given up only by the component that has them, as long as no component
\* unregisters a name it does not have.
THEOREM DirectoryRefined == Spec => DirectoryKept
<1>1. Init => Dir!Init
  <2>1. Init => \A n \in Names : GetAtomByName(n) = None
    BY DEF Init, GetAtomByName, Found
  <2>2. QED
    BY <2>1, OwnerFacts DEF Dir!Init
<1>2. QED
  BY <1>1, StepRefines, Inductive, PTL DEF Spec, DirectoryKept
=============================================================================
