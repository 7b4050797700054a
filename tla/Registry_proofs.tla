--------------------------- MODULE Registry_proofs ---------------------------
(***************************************************************************)
(* Theorems about Registry: the types of the registry's three dicts, their *)
(* agreement, and the last good guard that stays.                          *)
(***************************************************************************)
EXTENDS Registry, FiniteSetTheorems, SequenceTheorems, WellFoundedInduction, TLAPS

(* Induction, as a fact about sets of numbers: a non-empty one has a least *)
(* element, because the intervals 1 .. n are well-founded by inclusion.    *)
LEMMA LeastNumber ==
    ASSUME NEW T \in SUBSET Nat, T # {}
    PROVE  \E m \in T : \A n \in T : m <= n
  <1> DEFINE Up(n) == 1 .. n
             F == {Up(n) : n \in T}
             R == StrictSubsetOrdering(Nat)
             D == FiniteSubsetsOf(Nat)
  <1>1. IsWellFoundedOn(R, D)
    BY FS_StrictSubsetOrderingWellFounded
  <1>2. \A n \in T : Up(n) \in SUBSET Nat /\ IsFiniteSet(Up(n))
    BY FS_Interval
  <1>3. F \subseteq D /\ F # {}
    BY <1>2 DEF FiniteSubsetsOf
  <1> HIDE DEF R, D, F
  <1>4. PICK x \in F : \A y \in F : ~ (<<y, x>> \in R)
    BY <1>1, <1>3, WFMin
  <1>5. PICK m \in T : x = Up(m)
    BY <1>4 DEF F
  <1>6. \A n \in T : m <= n
    <2> SUFFICES ASSUME NEW n \in T, n < m PROVE FALSE
      OBVIOUS
    <2>1. m \in Up(m) /\ m \notin Up(n)
      OBVIOUS
    <2>2. Up(n) \subseteq Up(m) /\ Up(n) # Up(m)
      BY <2>1
    <2>3. Up(n) \in F
      BY DEF F
    <2>4. <<Up(n), Up(m)>> \in R
      BY <2>2, <1>2 DEF R, StrictSubsetOrdering
    <2> QED
      BY <2>3, <2>4, <1>4, <1>5
  <1> QED
    BY <1>6

-----------------------------------------------------------------------------
(* An entry taken out of a sequence: those after it move up. *)
LEMMA EntryRemoved ==
    ASSUME NEW S, NEW s \in Seq(S), NEW i \in 1 .. Len(s)
    PROVE  /\ RemoveAt(s, i) \in Seq(S)
           /\ Len(RemoveAt(s, i)) = Len(s) - 1
           /\ \A j \in 1 .. Len(s) - 1 :
                 RemoveAt(s, i)[j] = IF j < i THEN s[j] ELSE s[j + 1]
  <1>1. Len(s) \in Nat /\ \A j \in 1 .. Len(s) : s[j] \in S
    OBVIOUS
  <1> DEFINE front == SubSeq(s, 1, i - 1)
             back == SubSeq(s, i + 1, Len(s))
  <1>2. /\ front \in Seq(S) /\ Len(front) = i - 1
        /\ \A j \in 1 .. i - 1 : front[j] = s[j]
    BY <1>1, SubSeqProperties
  <1>3. /\ back \in Seq(S) /\ Len(back) = Len(s) - i
        /\ \A j \in 1 .. Len(s) - i : back[j] = s[i + j]
    BY <1>1, SubSeqProperties
  <1>4. RemoveAt(s, i) = front \o back
    BY DEF RemoveAt
  <1> HIDE DEF front, back
  <1>5. /\ front \o back \in Seq(S)
        /\ Len(front \o back) = Len(front) + Len(back)
        /\ \A j \in 1 .. Len(front) + Len(back) : (front \o back)[j] =
               IF j <= Len(front) THEN front[j] ELSE back[j - Len(front)]
    BY <1>2, <1>3, ConcatProperties
  <1>6. Len(front) + Len(back) = Len(s) - 1
    BY <1>1, <1>2, <1>3
  <1>7. ASSUME NEW j \in 1 .. Len(s) - 1
        PROVE  (front \o back)[j] = IF j < i THEN s[j] ELSE s[j + 1]
    <2>1. CASE j < i
      BY <1>1, <1>2, <1>5, <1>6, <2>1
    <2>2. CASE ~(j < i)
      <3>1. (front \o back)[j] = back[j - (i - 1)]
        BY <1>1, <1>2, <1>5, <1>6, <2>2
      <3>2. j - (i - 1) \in 1 .. Len(s) - i /\ i + (j - (i - 1)) = j + 1
        BY <1>1, <2>2
      <3> QED
        BY <1>3, <2>2, <3>1, <3>2
    <2> QED
      BY <2>1, <2>2
  <1> QED
    BY <1>4, <1>5, <1>6, <1>7

-----------------------------------------------------------------------------
(* What a dict is: no key occurs twice. *)
Distinct(d) == \A i, j \in DOMAIN d : d[i].key = d[j].key => i = j

LEMMA Counted ==
    ASSUME NEW K, NEW V, NEW d \in Dict(K, V), Distinct(d)
    PROVE  Cardinality(KeysOf(d)) = Len(d)
  <1>1. Len(d) \in Nat /\ DOMAIN d = 1 .. Len(d)
    BY DEF Dict
  <1> DEFINE f == [i \in 1 .. Len(d) |-> d[i].key]
  <1>2. f \in Bijection(1 .. Len(d), KeysOf(d))
    <2>1. f \in [1 .. Len(d) -> KeysOf(d)]
      BY <1>1 DEF KeysOf
    <2>2. \A i, j \in 1 .. Len(d) : f[i] = f[j] => i = j
      BY <1>1 DEF Distinct
    <2>3. \A k \in KeysOf(d) : \E i \in 1 .. Len(d) : f[i] = k
      BY <1>1 DEF KeysOf
    <2> HIDE DEF f
    <2>4. DOMAIN f = 1 .. Len(d)
      BY <2>1
    <2>5. f \in Injection(1 .. Len(d), KeysOf(d))
      BY <2>1, <2>2, <2>4 DEF Injection, IsInjective
    <2>6. f \in Surjection(1 .. Len(d), KeysOf(d))
      BY <2>1, <2>3 DEF Surjection
    <2> QED
      BY <2>5, <2>6 DEF Bijection
  <1> QED
    BY <1>1, <1>2, FS_CountingElements DEF ExistsBijection

LEMMA Entries ==
    ASSUME NEW K, NEW V, NEW d \in Dict(K, V)
    PROVE  /\ Len(d) \in Nat /\ DOMAIN d = 1 .. Len(d)
           /\ \A i \in DOMAIN d : /\ d[i] \in [key : K, val : V]
                                  /\ d[i].key \in K /\ d[i].val \in V
                                  /\ d[i].key \in KeysOf(d)
           /\ KeysOf(d) \subseteq K
  <1> DEFINE E == [key : K, val : V]
  <1>1. d \in Seq(E)
    BY DEF Dict
  <1>2. \A e \in E : e.key \in K /\ e.val \in V
    OBVIOUS
  <1> HIDE DEF E
  <1>3. Len(d) \in Nat /\ DOMAIN d = 1 .. Len(d) /\ \A i \in DOMAIN d : d[i] \in E
    BY <1>1
  <1> QED
    BY <1>2, <1>3 DEF KeysOf, E

LEMMA PlaceOf ==
    ASSUME NEW K, NEW V, NEW d \in Dict(K, V), NEW k \in KeysOf(d)
    PROVE  /\ Place(d, k) \in DOMAIN d /\ d[Place(d, k)].key = k
           /\ At(d, k) \in V
           /\ Distinct(d) => \A i \in DOMAIN d : d[i].key = k => i = Place(d, k)
  <1>1. \E i \in DOMAIN d : d[i].key = k
    BY DEF KeysOf
  <1>2. Place(d, k) \in DOMAIN d /\ d[Place(d, k)].key = k
    BY <1>1 DEF Place
  <1>3. At(d, k) \in V
    BY <1>2, Entries DEF At
  <1> QED
    BY <1>2, <1>3 DEF Distinct

(* A key is put: in its place if it has one, at the end otherwise. *)
LEMMA PutInPlace ==
    ASSUME NEW K, NEW V, NEW d \in Dict(K, V), NEW k \in KeysOf(d), NEW v \in V
    PROVE  /\ Put(d, k, v) \in Dict(K, V) /\ Len(Put(d, k, v)) = Len(d)
           /\ \A i \in 1 .. Len(d) : Put(d, k, v)[i] =
                 IF d[i].key = k THEN [key |-> k, val |-> v] ELSE d[i]
  <1> DEFINE E == [key : K, val : V]
             e == [key |-> k, val |-> v]
             p == [i \in 1 .. Len(d) |-> IF d[i].key = k THEN e ELSE d[i]]
  <1>1. /\ Len(d) \in Nat /\ DOMAIN d = 1 .. Len(d)
        /\ \A i \in DOMAIN d : d[i] \in E
        /\ k \in K
    BY Entries
  <1>2. e \in E
    BY <1>1
  <1>3. Put(d, k, v) = p
    BY <1>1 DEF Put
  <1> HIDE DEF E, e
  <1>4. p \in [1 .. Len(d) -> E]
    BY <1>1, <1>2
  <1>5. p \in Seq(E) /\ Len(p) = Len(d)
    BY <1>1, <1>4, SeqDef
  <1> QED
    BY <1>3, <1>5 DEF Dict, E, e

LEMMA PutAtEnd ==
    ASSUME NEW K, NEW V, NEW d \in Dict(K, V), NEW k \in K, NEW v \in V,
           k \notin KeysOf(d)
    PROVE  /\ Put(d, k, v) \in Dict(K, V) /\ Len(Put(d, k, v)) = Len(d) + 1
           /\ Put(d, k, v)[Len(d) + 1] = [key |-> k, val |-> v]
           /\ \A i \in 1 .. Len(d) : Put(d, k, v)[i] = d[i]
  <1> DEFINE E == [key : K, val : V]
             e == [key |-> k, val |-> v]
  <1>1. d \in Seq(E) /\ e \in E
    BY DEF Dict
  <1>2. Put(d, k, v) = Append(d, e)
    BY DEF Put
  <1> HIDE DEF E, e
  <1>3. /\ Append(d, e) \in Seq(E) /\ Len(Append(d, e)) = Len(d) + 1
        /\ Append(d, e)[Len(d) + 1] = e
        /\ \A i \in 1 .. Len(d) : Append(d, e)[i] = d[i]
    BY <1>1, AppendProperties
  <1> QED
    BY <1>2, <1>3 DEF Dict, E, e

(* Either way the dict stays one, and has the key as well. *)
LEMMA PutKeeps ==
    ASSUME NEW K, NEW V, NEW d \in Dict(K, V), Distinct(d), NEW k \in K, NEW v \in V
    PROVE  /\ Put(d, k, v) \in Dict(K, V) /\ Distinct(Put(d, k, v))
           /\ KeysOf(Put(d, k, v)) = KeysOf(d) \cup {k}
  <1> DEFINE q == Put(d, k, v)
  <1>1. /\ Len(d) \in Nat /\ DOMAIN d = 1 .. Len(d)
    BY Entries
  <1>2. CASE k \in KeysOf(d)
    <2>1. /\ q \in Dict(K, V) /\ Len(q) = Len(d)
          /\ \A i \in 1 .. Len(d) : q[i] =
                IF d[i].key = k THEN [key |-> k, val |-> v] ELSE d[i]
      BY <1>2, PutInPlace
    <2>2. DOMAIN q = 1 .. Len(d) /\ \A i \in 1 .. Len(d) : q[i].key = d[i].key
      BY <2>1, Entries
    <2> HIDE DEF q
    <2>3. Distinct(q) /\ KeysOf(q) = KeysOf(d)
      BY <1>1, <2>2 DEF Distinct, KeysOf
    <2> QED
      BY <1>2, <2>1, <2>3 DEF q
  <1>3. CASE k \notin KeysOf(d)
    <2>1. /\ q \in Dict(K, V) /\ Len(q) = Len(d) + 1
          /\ q[Len(d) + 1] = [key |-> k, val |-> v]
          /\ \A i \in 1 .. Len(d) : q[i] = d[i]
      BY <1>3, PutAtEnd
    <2>2. DOMAIN q = 1 .. Len(d) + 1 /\ q[Len(d) + 1].key = k
      BY <2>1, Entries
    <2>3. \A i \in 1 .. Len(d) : d[i].key # k
      BY <1>1, <1>3 DEF KeysOf
    <2> HIDE DEF q
    <2>4. Distinct(q)
      BY <1>1, <2>1, <2>2, <2>3 DEF Distinct
    <2>5. KeysOf(q) = KeysOf(d) \cup {k}
      <3>1. 1 .. Len(d) + 1 = (1 .. Len(d)) \cup {Len(d) + 1}
        BY <1>1
      <3> QED
        BY <1>1, <2>1, <2>2, <3>1 DEF KeysOf
    <2> QED
      BY <2>1, <2>4, <2>5 DEF q
  <1> QED
    BY <1>2, <1>3

(* A key is popped: the entries after it move up. *)
LEMMA PopShape ==
    ASSUME NEW K, NEW V, NEW d \in Dict(K, V), NEW k \in KeysOf(d)
    PROVE  /\ Pop(d, k) \in Dict(K, V) /\ Len(Pop(d, k)) = Len(d) - 1
           /\ \A i \in 1 .. Len(d) - 1 :
                 Pop(d, k)[i] = IF i < Place(d, k) THEN d[i] ELSE d[i + 1]
  <1> DEFINE E == [key : K, val : V]
  <1>1. Place(d, k) \in 1 .. Len(d) /\ d \in Seq(E)
    BY PlaceOf, Entries DEF Dict
  <1>2. Pop(d, k) = RemoveAt(d, Place(d, k))
    BY DEF Pop
  <1> HIDE DEF E
  <1> QED
    BY <1>1, <1>2, EntryRemoved DEF Dict, E

LEMMA PopKeeps ==
    ASSUME NEW K, NEW V, NEW d \in Dict(K, V), Distinct(d), NEW k
    PROVE  /\ Pop(d, k) \in Dict(K, V) /\ Distinct(Pop(d, k))
           /\ KeysOf(Pop(d, k)) = KeysOf(d) \ {k}
  <1>1. CASE k \notin KeysOf(d)
    BY <1>1 DEF Pop
  <1>2. CASE k \in KeysOf(d)
    <2> DEFINE q == Pop(d, k)
               n == Place(d, k)
    <2>1. /\ Len(d) \in Nat /\ DOMAIN d = 1 .. Len(d)
          /\ n \in 1 .. Len(d) /\ d[n].key = k
          /\ \A i \in 1 .. Len(d) : d[i].key = k => i = n
      BY <1>2, Entries, PlaceOf
    <2>2. /\ q \in Dict(K, V) /\ Len(q) = Len(d) - 1
          /\ \A i \in 1 .. Len(d) - 1 : q[i] = IF i < n THEN d[i] ELSE d[i + 1]
      BY <1>2, PopShape
    <2>3. DOMAIN q = 1 .. Len(d) - 1
      BY <2>2, Entries
    <2> HIDE DEF q, n
    <2> DEFINE from(i) == IF i < n THEN i ELSE i + 1
    <2>7. \A i \in 1 .. Len(d) - 1 : /\ from(i) \in 1 .. Len(d) /\ from(i) # n
                                     /\ q[i] = d[from(i)]
      BY <2>1, <2>2
    <2>8. \A i, j \in 1 .. Len(d) - 1 : from(i) = from(j) => i = j
      BY <2>1
    <2> HIDE DEF from
    <2>4. Distinct(q)
      BY <2>1, <2>3, <2>7, <2>8 DEF Distinct
    <2>5. KeysOf(q) \subseteq KeysOf(d) \ {k}
      BY <2>1, <2>3, <2>7 DEF KeysOf
    <2>6. ASSUME NEW j \in KeysOf(d) \ {k} PROVE j \in KeysOf(q)
      <3>1. PICK i \in 1 .. Len(d) : d[i].key = j /\ i # n
        BY <2>1 DEF KeysOf
      <3>2. CASE i < n
        BY <2>1, <2>2, <2>3, <3>1, <3>2 DEF KeysOf
      <3>3. CASE i > n
        <4>1. i - 1 \in 1 .. Len(d) - 1 /\ ~(i - 1 < n) /\ (i - 1) + 1 = i
          BY <2>1, <3>3
        <4>2. q[i - 1].key = j
          BY <2>2, <3>1, <4>1
        <4> QED
          BY <2>3, <4>1, <4>2 DEF KeysOf
      <3> QED
        BY <2>1, <3>1, <3>2, <3>3
    <2> QED
      BY <2>2, <2>4, <2>5, <2>6 DEF q
  <1> QED
    BY <1>1, <1>2

(* The first key of a value, where the value occurs. *)
LEMMA FirstOf ==
    ASSUME NEW K, NEW V, NEW d \in Dict(K, V), Distinct(d), NEW v,
           KeysWith(d, v) # {}
    PROVE  FirstWith(d, v) \in KeysOf(d) /\ At(d, FirstWith(d, v)) = v
  <1> DEFINE T == {i \in DOMAIN d : d[i].val = v}
  <1>1. Len(d) \in Nat /\ DOMAIN d = 1 .. Len(d)
    BY Entries
  <1>2. T \in SUBSET Nat /\ T # {}
    BY <1>1 DEF KeysWith
  <1>3. PICK m \in T : \A n \in T : m <= n
    <2> HIDE DEF T
    <2> QED
      BY <1>2, LeastNumber
  <1>4. /\ m \in DOMAIN d /\ d[m].val = v
        /\ \A j \in 1 .. m - 1 : d[j].val # v
    BY <1>1, <1>3
  <1>5. PICK i \in DOMAIN d : FirstWith(d, v) = d[i].key /\ d[i].val = v
    BY <1>4 DEF FirstWith
  <1>6. d[i].key \in KeysOf(d) /\ i = Place(d, d[i].key)
    BY <1>5, Entries, PlaceOf
  <1> QED
    BY <1>5, <1>6 DEF At

-----------------------------------------------------------------------------
(* The three dicts together. *)
Agree(g, f) ==
    /\ Len(g) = Len(f)
    /\ \A i \in DOMAIN g : g[i].key = f[i].key /\ g[i].val.name = g[i].key

DictsOK(g, f, m) ==
    /\ g \in Dict(Names, Configs) /\ Distinct(g)
    /\ f \in Dict(Names, Paths) /\ Distinct(f)
    /\ m \in Dict(Paths, 0 .. writes) /\ Distinct(m)
    /\ Agree(g, f)

LEMMA AgreeKeys ==
    ASSUME NEW g \in Dict(Names, Configs), NEW f \in Dict(Names, Paths), Agree(g, f)
    PROVE  KeysOf(g) = KeysOf(f) /\ DOMAIN g = DOMAIN f
  <1>1. DOMAIN g = 1 .. Len(g) /\ DOMAIN f = 1 .. Len(f)
    BY Entries
  <1> QED
    BY <1>1 DEF Agree, KeysOf

(* A guard and its file are put under the same name... *)
LEMMA AgreePut ==
    ASSUME NEW g \in Dict(Names, Configs), NEW f \in Dict(Names, Paths), Agree(g, f),
           NEW c \in Configs, NEW p \in Paths
    PROVE  Agree(Put(g, c.name, c), Put(f, c.name, p))
  <1> DEFINE k == c.name
             q == Put(g, k, c)
             r == Put(f, k, p)
  <1>1. k \in Names
    BY DEF Names
  <1>2. /\ KeysOf(g) = KeysOf(f) /\ Len(g) = Len(f) /\ Len(g) \in Nat
        /\ \A i \in 1 .. Len(g) : g[i].key = f[i].key /\ g[i].val.name = g[i].key
    BY AgreeKeys, Entries DEF Agree
  <1>3. CASE k \in KeysOf(g)
    <2>1. /\ q \in Dict(Names, Configs) /\ Len(q) = Len(g)
          /\ \A i \in 1 .. Len(g) : q[i] =
                IF g[i].key = k THEN [key |-> k, val |-> c] ELSE g[i]
      BY <1>3, PutInPlace
    <2>2. /\ r \in Dict(Names, Paths) /\ Len(r) = Len(f)
          /\ \A i \in 1 .. Len(f) : r[i] =
                IF f[i].key = k THEN [key |-> k, val |-> p] ELSE f[i]
      BY <1>2, <1>3, PutInPlace
    <2>3. DOMAIN q = 1 .. Len(g)
      BY <2>1, Entries
    <2>4. ASSUME NEW i \in 1 .. Len(g)
          PROVE  q[i].key = r[i].key /\ q[i].val.name = q[i].key
      <3> HIDE DEF q, r
      <3>1. CASE g[i].key = k
        BY <1>2, <2>1, <2>2, <3>1
      <3>2. CASE g[i].key # k
        <4>1. q[i] = g[i] /\ r[i] = f[i]
          BY <1>2, <2>1, <2>2, <3>2
        <4> QED
          BY <1>2, <4>1
      <3> QED
        BY <3>1, <3>2
    <2> HIDE DEF q, r
    <2> QED
      BY <1>2, <2>1, <2>2, <2>3, <2>4 DEF Agree, q, r
  <1>4. CASE k \notin KeysOf(g)
    <2>1. /\ q \in Dict(Names, Configs) /\ Len(q) = Len(g) + 1
          /\ q[Len(g) + 1] = [key |-> k, val |-> c]
          /\ \A i \in 1 .. Len(g) : q[i] = g[i]
      BY <1>1, <1>4, PutAtEnd
    <2>2. /\ r \in Dict(Names, Paths) /\ Len(r) = Len(f) + 1
          /\ r[Len(f) + 1] = [key |-> k, val |-> p]
          /\ \A i \in 1 .. Len(f) : r[i] = f[i]
      BY <1>1, <1>2, <1>4, PutAtEnd
    <2>3. DOMAIN q = 1 .. Len(g) + 1
      BY <2>1, Entries
    <2>4. ASSUME NEW i \in 1 .. Len(g) + 1
          PROVE  q[i].key = r[i].key /\ q[i].val.name = q[i].key
      <3> HIDE DEF q, r
      <3>1. CASE i = Len(g) + 1
        BY <1>2, <2>1, <2>2, <3>1
      <3>2. CASE i # Len(g) + 1
        <4>1. i \in 1 .. Len(g)
          BY <1>2, <3>2
        <4>2. q[i] = g[i] /\ r[i] = f[i]
          BY <1>2, <2>1, <2>2, <4>1
        <4> QED
          BY <1>2, <4>1, <4>2
      <3> QED
        BY <3>1, <3>2
    <2> HIDE DEF q, r
    <2> QED
      BY <1>2, <2>1, <2>2, <2>3, <2>4 DEF Agree, q, r
  <1> QED
    BY <1>3, <1>4

(* ... and popped together. *)
LEMMA AgreePop ==
    ASSUME NEW g \in Dict(Names, Configs), NEW f \in Dict(Names, Paths), Agree(g, f),
           Distinct(g), Distinct(f), NEW k \in KeysOf(f)
    PROVE  Agree(Pop(g, k), Pop(f, k))
  <1> DEFINE q == Pop(g, k)
             r == Pop(f, k)
             n == Place(f, k)
  <1>1. /\ KeysOf(g) = KeysOf(f) /\ Len(g) = Len(f) /\ Len(g) \in Nat
        /\ DOMAIN g = 1 .. Len(g)
        /\ \A i \in 1 .. Len(g) : g[i].key = f[i].key /\ g[i].val.name = g[i].key
    BY AgreeKeys, Entries DEF Agree
  <1>2. n \in 1 .. Len(g) /\ f[n].key = k
    BY <1>1, PlaceOf, Entries
  <1>3. n = Place(g, k)
    BY <1>1, <1>2, PlaceOf
  <1>4. /\ q \in Dict(Names, Configs) /\ Len(q) = Len(g) - 1
        /\ \A i \in 1 .. Len(g) - 1 : q[i] = IF i < n THEN g[i] ELSE g[i + 1]
    <2>1. k \in KeysOf(g)
      BY <1>1
    <2>2. /\ q \in Dict(Names, Configs) /\ Len(q) = Len(g) - 1
          /\ \A i \in 1 .. Len(g) - 1 :
                q[i] = IF i < Place(g, k) THEN g[i] ELSE g[i + 1]
      BY <2>1, PopShape
    <2> HIDE DEF q
    <2> QED
      BY <1>3, <2>2
  <1>5. /\ r \in Dict(Names, Paths) /\ Len(r) = Len(g) - 1
        /\ \A i \in 1 .. Len(g) - 1 : r[i] = IF i < n THEN f[i] ELSE f[i + 1]
    <2>1. /\ r \in Dict(Names, Paths) /\ Len(r) = Len(f) - 1
          /\ \A i \in 1 .. Len(f) - 1 : r[i] = IF i < n THEN f[i] ELSE f[i + 1]
      BY PopShape
    <2> HIDE DEF r, n
    <2> QED
      BY <1>1, <2>1
  <1>6. DOMAIN q = 1 .. Len(g) - 1
    BY <1>4, Entries
  <1> HIDE DEF q, r, n
  <1>7. ASSUME NEW i \in 1 .. Len(g) - 1
        PROVE  q[i].key = r[i].key /\ q[i].val.name = q[i].key
    <2>1. i \in 1 .. Len(g) /\ i + 1 \in 1 .. Len(g)
      BY <1>1
    <2>2. CASE i < n
      <3>1. q[i] = g[i] /\ r[i] = f[i]
        BY <1>4, <1>5, <2>2
      <3> QED
        BY <1>1, <2>1, <3>1
    <2>3. CASE ~(i < n)
      <3>1. q[i] = g[i + 1] /\ r[i] = f[i + 1]
        BY <1>4, <1>5, <2>3
      <3> QED
        BY <1>1, <2>1, <3>1
    <2> QED
      BY <2>2, <2>3
  <1> QED
    BY <1>4, <1>5, <1>6, <1>7 DEF Agree, q, r

-----------------------------------------------------------------------------
(* The recursive function AfterFiles exists, by induction on the number of *)
(* files it is defined for...                                              *)
LEMMA AfterFilesDef ==
    \A i \in 0 .. Len(PathOrder) : AfterFiles[i] =
        IF i = 0 THEN EmptyRegistry ELSE AfterFile(AfterFiles[i - 1], PathOrder[i])
  <1> DEFINE N == Len(PathOrder)
             Next1(g, i) == IF i = 0 THEN EmptyRegistry
                            ELSE AfterFile(g[i - 1], PathOrder[i])
             Step(r, i) == AfterFile(r, PathOrder[i])
             IsRun(g, k) == g = [i \in 0 .. k |-> IF i = 0 THEN EmptyRegistry
                                                  ELSE Step(g[i - 1], i)]
  <1>1. N \in Nat
    BY RegistryAssumption DEF RegistryAssumption
  <1> DEFINE T == {k \in 0 .. N : ~ \E g : IsRun(g, k)}
  <1> HIDE DEF Step
  <1>2. T = {}
    <2> SUFFICES ASSUME T # {} PROVE FALSE
      OBVIOUS
    <2>1. T \in SUBSET Nat
      BY <1>1
    <2>2. PICK m \in T : \A n \in T : m <= n
      <3> HIDE DEF T
      <3> QED
        BY <2>1, LeastNumber
    <2>3. CASE m = 0
      <3> DEFINE g == [i \in 0 .. 0 |-> EmptyRegistry]
      <3>1. IsRun(g, 0)
        OBVIOUS
      <3> QED
        BY <2>2, <2>3, <3>1
    <2>4. CASE m # 0
      <3>1. m - 1 \in 0 .. N /\ m - 1 \notin T /\ m \in 0 .. N
        BY <1>1, <2>2, <2>4
      <3>2. PICK g : IsRun(g, m - 1)
        BY <3>1
      <3> DEFINE h == [i \in 0 .. m |-> IF i = 0 THEN EmptyRegistry
                                        ELSE Step(g[i - 1], i)]
      <3>3. \A i \in 0 .. m - 1 : h[i] = g[i]
        <4>1. \A i \in 0 .. m - 1 : g[i] = IF i = 0 THEN EmptyRegistry
                                            ELSE Step(g[i - 1], i)
          BY <3>2
        <4> QED
          BY <3>1, <4>1
      <3>4. ASSUME NEW i \in 0 .. m, i # 0
            PROVE  h[i] = Step(h[i - 1], i)
        <4>1. i - 1 \in 0 .. m - 1
          BY <3>1, <3>4
        <4> QED
          BY <3>3, <3>4, <4>1
      <3>5. h[0] = EmptyRegistry
        BY <3>1
      <3>6. h = [i \in 0 .. m |-> IF i = 0 THEN EmptyRegistry ELSE Step(h[i - 1], i)]
        <4>1. DOMAIN h = 0 .. m /\ h = [i \in 0 .. m |-> h[i]]
          OBVIOUS
        <4> HIDE DEF h
        <4> QED
          BY <3>4, <3>5, <4>1
      <3> HIDE DEF h
      <3>7. \E q : IsRun(q, m)
        BY <3>6
      <3> QED
        BY <2>2, <3>7
    <2> QED
      BY <2>3, <2>4
  <1>3. \E g : IsRun(g, N)
    BY <1>1, <1>2
  <1>4. AfterFiles = CHOOSE g : IsRun(g, N)
    BY DEF AfterFiles, Step
  <1>5. IsRun(AfterFiles, N)
    BY <1>3, <1>4
  <1> QED
    BY <1>5 DEF Step

(* ... and so what it computes is well formed, again by induction. *)
LEMMA StartupOK ==
    ASSUME writes = 0,
           file \in [Paths -> {Missing} \cup
                        [content : Configs \cup {Invalid}, mtime : {0}]]
    PROVE  DictsOK(Startup.guards, Startup.guardFiles, Startup.fileMtime)
  <1> DEFINE N == Len(PathOrder)
             OK(r) == DictsOK(r.guards, r.guardFiles, r.fileMtime)
             T == {i \in 0 .. N : ~ OK(AfterFiles[i])}
  <1>1. N \in Nat /\ \A i \in 1 .. N : PathOrder[i] \in Paths
    BY RegistryAssumption DEF RegistryAssumption
  <1>2. OK(EmptyRegistry)
    BY DEF EmptyRegistry, DictsOK, Dict, Distinct, Agree
  <1>3. ASSUME NEW r, OK(r), NEW p \in Paths
        PROVE  OK(AfterFile(r, p))
    <2>1. CASE ~Loadable(p)
      BY <1>3, <2>1 DEF AfterFile
    <2>2. CASE Loadable(p)
      <3> DEFINE c == file[p].content
                 t == file[p].mtime
                 q == [guards |-> Put(r.guards, c.name, c),
                       guardFiles |-> Put(r.guardFiles, c.name, p),
                       fileMtime |-> Put(r.fileMtime, p, t)]
      <3>1. AfterFile(r, p) = q
        BY <2>2 DEF AfterFile
      <3>2. file[p] \in [content : Configs \cup {Invalid}, mtime : {0}]
        BY <2>2 DEF Loadable, Exists
      <3>3. c \in Configs /\ t \in 0 .. writes
        BY <2>2, <3>2 DEF Loadable
      <3>4. c.name \in Names
        BY <3>3 DEF Names
      <3> HIDE DEF c, t
      <3>5. /\ r.guards \in Dict(Names, Configs) /\ Distinct(r.guards)
            /\ r.guardFiles \in Dict(Names, Paths) /\ Distinct(r.guardFiles)
            /\ r.fileMtime \in Dict(Paths, 0 .. writes) /\ Distinct(r.fileMtime)
            /\ Agree(r.guards, r.guardFiles)
        BY <1>3 DEF DictsOK
      <3>6. /\ q.guards = Put(r.guards, c.name, c)
            /\ q.guardFiles = Put(r.guardFiles, c.name, p)
            /\ q.fileMtime = Put(r.fileMtime, p, t)
        OBVIOUS
      <3>7. q.guards \in Dict(Names, Configs) /\ Distinct(q.guards)
        BY <3>3, <3>4, <3>5, <3>6, PutKeeps
      <3>8. q.guardFiles \in Dict(Names, Paths) /\ Distinct(q.guardFiles)
        BY <3>4, <3>5, <3>6, PutKeeps
      <3>9. q.fileMtime \in Dict(Paths, 0 .. writes) /\ Distinct(q.fileMtime)
        BY <3>3, <3>5, <3>6, PutKeeps
      <3>10. Agree(q.guards, q.guardFiles)
        BY <3>3, <3>5, <3>6, AgreePut
      <3> HIDE DEF q
      <3> QED
        BY <3>1, <3>7, <3>8, <3>9, <3>10 DEF DictsOK
    <2> QED
      BY <2>1, <2>2
  <1> HIDE DEF OK
  <1>4. T = {}
    <2> SUFFICES ASSUME T # {} PROVE FALSE
      OBVIOUS
    <2>1. T \in SUBSET Nat
      BY <1>1
    <2>2. PICK m \in T : \A n \in T : m <= n
      <3> HIDE DEF T
      <3> QED
        BY <2>1, LeastNumber
    <2>3. CASE m = 0
      BY <1>2, <2>2, <2>3, AfterFilesDef
    <2>4. CASE m # 0
      <3>1. m - 1 \in 0 .. N /\ m \in 1 .. N
        BY <1>1, <2>2, <2>4
      <3>2. m - 1 \notin T
        BY <1>1, <2>2, <2>4
      <3>3. OK(AfterFiles[m - 1])
        BY <3>1, <3>2
      <3>4. AfterFiles[m] = AfterFile(AfterFiles[m - 1], PathOrder[m])
        BY <1>1, <2>4, <3>1, AfterFilesDef
      <3>5. OK(AfterFiles[m])
        BY <1>1, <1>3, <3>1, <3>3, <3>4
      <3> QED
        BY <2>2, <3>5
    <2> QED
      BY <2>3, <2>4
  <1>5. OK(AfterFiles[N])
    BY <1>1, <1>4
  <1> QED
    BY <1>5 DEF OK, Startup

-----------------------------------------------------------------------------
(* The inductive invariant.  TypeOK is not inductive: a loader that is     *)
(* about to register must have a configuration and a path, the watcher's   *)
(* snapshot must not be empty while it examines one of its entries, and    *)
(* two dicts with as many keys as entries say too little of their order.   *)
Content == {Missing} \cup [content : Configs \cup {Invalid}, mtime : 0 .. writes]

FilesOK ==
    /\ writes \in Nat
    /\ file \in [Paths -> Content]
    /\ torn \subseteq Paths

Holding == {"truncate", "write", "register"}

Reading == {"stat", "drop", "truncate", "write", "read", "register"}

ThreadsOK ==
    /\ todo \in Dict(Paths, 0 .. writes)
    /\ pc \in [Loaders -> {"idle", "walk"} \cup Reading]
    /\ path \in [Loaders -> Paths \cup {Missing}]
    /\ config \in [Loaders -> Configs \cup {Missing}]
    /\ \A l \in Loaders : /\ pc[l] \in Reading => path[l] \in Paths
                          /\ pc[l] \in Holding => config[l] \in Configs
    /\ pc[Watcher] \in {"stat", "drop", "read", "register"} => todo # <<>>
    /\ pc[Watcher] \notin {"idle", "truncate", "write"}

(* The watcher forgets a file that is gone, or that has changed since it   *)
(* found it gone.                                                          *)
DropsGone ==
    pc[Watcher] = "drop" => \/ file[path[Watcher]] = Missing
                            \/ path[Watcher] \in torn

RegistryOK == DictsOK(guards, guardFiles, fileMtime)

IInv == FilesOK /\ ThreadsOK /\ DropsGone /\ RegistryOK

LEMMA InitIInv == Init => IInv
  <1> SUFFICES ASSUME Init PROVE IInv
    OBVIOUS
  <1>1. FilesOK
    BY DEF Init, FilesOK, Content
  <1>2. ThreadsOK
    <2>1. todo \in Dict(Paths, 0 .. writes)
      BY DEF Init, Dict
    <2> QED
      BY <2>1 DEF Init, ThreadsOK, Loaders, Reading, Holding
  <1>3. DropsGone
    BY DEF Init, DropsGone, Loaders
  <1>4. RegistryOK
    BY StartupOK DEF Init, RegistryOK
  <1> QED
    BY <1>1, <1>2, <1>3, <1>4 DEF IInv

(* The loader whose step it is leaves no trace in the others. *)
LEMMA FinishKeeps ==
    ASSUME IInv, NEW l \in Loaders, NEW rest,
           l = Watcher => rest \in Dict(Paths, 0 .. writes),
           Finish(l, rest), UNCHANGED files
    PROVE  FilesOK' /\ ThreadsOK' /\ DropsGone'
  <1>1. FilesOK'
    BY DEF IInv, FilesOK, Content, files
  <1>2. todo' \in Dict(Paths, 0 .. writes')
    BY DEF IInv, ThreadsOK, Finish, files
  <1>3. ThreadsOK'
    BY <1>2 DEF IInv, ThreadsOK, Finish, Loaders, Reading, Holding
  <1>4. DropsGone'
    BY DEF IInv, ThreadsOK, DropsGone, Finish, files, Loaders
  <1> QED
    BY <1>1, <1>3, <1>4

(* The rest of a snapshot that is not empty is one. *)
LEMMA RestOfTodo ==
    ASSUME IInv, todo # <<>>
    PROVE  /\ Head(todo).key \in Paths
           /\ Tail(todo) \in Dict(Paths, 0 .. writes)
  <1> DEFINE E == [key : Paths, val : 0 .. writes]
  <1>1. todo \in Seq(E)
    BY DEF IInv, ThreadsOK, Dict
  <1> HIDE DEF E
  <1>2. Head(todo) \in E /\ Tail(todo) \in Seq(E)
    BY <1>1, HeadTailProperties
  <1> QED
    BY <1>2 DEF Dict, E

(* A change of a file: later writes have later times. *)
LEMMA ChangeKeeps ==
    ASSUME IInv, NEW p \in Paths, NEW f,
           f \in {Missing} \cup [content : Configs \cup {Invalid}, mtime : {writes + 1}],
           Change(p, f), UNCHANGED <<registry, todo>>,
           path'[Watcher] = path[Watcher], pc'[Watcher] = pc[Watcher]
    PROVE  /\ FilesOK' /\ DropsGone' /\ RegistryOK'
           /\ todo' \in Dict(Paths, 0 .. writes')
  <1>1. /\ writes \in Nat /\ writes' = writes + 1
        /\ 0 .. writes \subseteq 0 .. writes'
    BY DEF IInv, FilesOK, Change
  <1>2. \A d : d \in Dict(Paths, 0 .. writes) => d \in Dict(Paths, 0 .. writes')
    <2>1. [key : Paths, val : 0 .. writes] \subseteq [key : Paths, val : 0 .. writes']
      BY <1>1
    <2> QED
      BY <2>1, SeqMonotonic DEF Dict
  <1>3. FilesOK'
    <2>1. Content \subseteq Content' /\ f \in Content'
      BY <1>1 DEF Content
    <2>2. file' \in [Paths -> Content']
      BY <2>1 DEF IInv, FilesOK, Change
    <2>3. torn' \subseteq Paths
      BY DEF IInv, FilesOK, Change
    <2> QED
      BY <1>1, <2>2, <2>3 DEF FilesOK
  <1>4. DropsGone'
    <2> SUFFICES ASSUME pc[Watcher] = "drop"
                 PROVE  file'[path[Watcher]] = Missing \/ path[Watcher] \in torn'
      BY DEF DropsGone
    <2>1. Watcher \in Loaders
      BY DEF Loaders
    <2>2. CASE path[Watcher] = p
      BY <2>1, <2>2 DEF Change
    <2>3. CASE path[Watcher] # p
      BY <2>3 DEF Change, IInv, FilesOK, DropsGone
    <2> QED
      BY <2>2, <2>3
  <1>5. RegistryOK'
    BY <1>2 DEF IInv, RegistryOK, DictsOK, registry
  <1>6. todo' \in Dict(Paths, 0 .. writes')
    BY <1>2 DEF IInv, ThreadsOK
  <1> QED
    BY <1>3, <1>4, <1>5, <1>6

-----------------------------------------------------------------------------
(* One lemma per action. *)
LEMMA WatcherIsNoAdmin ==
    /\ Watcher \in Loaders
    /\ \A a \in Admins : a \in Loaders /\ a # Watcher
  BY RegistryAssumption DEF RegistryAssumption, Loaders

LEMMA ReadFailsKeeps ==
    ASSUME IInv, NEW l \in Loaders, ReadFails(l)
    PROVE  IInv'
  <1>1. l = Watcher => Tail(todo) \in Dict(Paths, 0 .. writes)
    BY RestOfTodo DEF IInv, ThreadsOK, ReadFails
  <1>2. FilesOK' /\ ThreadsOK' /\ DropsGone'
    BY <1>1, FinishKeeps DEF ReadFails
  <1>3. RegistryOK'
    BY DEF IInv, RegistryOK, DictsOK, ReadFails, files, registry
  <1> QED
    BY <1>2, <1>3 DEF IInv

LEMMA ReadKeeps ==
    ASSUME IInv, NEW l \in Loaders, Read(l)
    PROVE  IInv'
  <1>1. path[l] \in Paths /\ pc[l] = "read"
    BY DEF IInv, ThreadsOK, Read, Reading
  <1>2. file[path[l]].content \in Configs
    <2>1. file[path[l]] \in [content : Configs \cup {Invalid}, mtime : 0 .. writes]
      BY <1>1 DEF IInv, FilesOK, Content, Read, Loadable, Exists
    <2> QED
      BY <2>1 DEF Read, Loadable
  <1>3. FilesOK' /\ RegistryOK'
    BY DEF IInv, FilesOK, Content, RegistryOK, DictsOK, Read, files, registry
  <1>4. ThreadsOK'
    <2>1. todo' \in Dict(Paths, 0 .. writes')
      BY DEF IInv, ThreadsOK, Read, files
    <2> QED
      BY <1>1, <1>2, <2>1 DEF IInv, ThreadsOK, Read, Reading, Holding
  <1>5. DropsGone'
    BY DEF IInv, ThreadsOK, DropsGone, Read, files
  <1> QED
    BY <1>3, <1>4, <1>5 DEF IInv

(* What registering a configuration does to the dicts. *)
LEMMA InstallKeeps ==
    ASSUME IInv, NEW l \in Loaders, pc[l] = "register", Install(l)
    PROVE  /\ path[l] \in Paths
           /\ guards' \in Dict(Names, Configs) /\ Distinct(guards')
           /\ guardFiles' \in Dict(Names, Paths) /\ Distinct(guardFiles')
           /\ Agree(guards', guardFiles')
           /\ KeysOf(guards) \subseteq KeysOf(guards')
  <1>1. path[l] \in Paths /\ config[l] \in Configs
    BY DEF IInv, ThreadsOK, Reading, Holding
  <1>2. config[l].name \in Names
    BY <1>1 DEF Names
  <1>3. /\ guards \in Dict(Names, Configs) /\ Distinct(guards)
        /\ guardFiles \in Dict(Names, Paths) /\ Distinct(guardFiles)
        /\ Agree(guards, guardFiles)
    BY DEF IInv, RegistryOK, DictsOK
  <1>4. /\ guards' = Put(guards, config[l].name, config[l])
        /\ guardFiles' = Put(guardFiles, config[l].name, path[l])
    BY DEF Install
  <1>5. /\ guards' \in Dict(Names, Configs) /\ Distinct(guards')
        /\ KeysOf(guards) \subseteq KeysOf(guards')
    BY <1>1, <1>2, <1>3, <1>4, PutKeeps
  <1>6. guardFiles' \in Dict(Names, Paths) /\ Distinct(guardFiles')
    BY <1>1, <1>2, <1>3, <1>4, PutKeeps
  <1>7. Agree(guards', guardFiles')
    BY <1>1, <1>3, <1>4, AgreePut
  <1> QED
    BY <1>1, <1>5, <1>6, <1>7

LEMMA RegisterKeeps ==
    ASSUME IInv, NEW l \in Loaders, Register(l)
    PROVE  IInv' /\ KeysOf(guards) \subseteq KeysOf(guards')
  <1>1. l = Watcher => Tail(todo) \in Dict(Paths, 0 .. writes)
    BY RestOfTodo DEF IInv, ThreadsOK, Register
  <1>2. FilesOK' /\ ThreadsOK' /\ DropsGone'
    BY <1>1, FinishKeeps DEF Register
  <1>3. /\ path[l] \in Paths
        /\ guards' \in Dict(Names, Configs) /\ Distinct(guards')
        /\ guardFiles' \in Dict(Names, Paths) /\ Distinct(guardFiles')
        /\ Agree(guards', guardFiles')
        /\ KeysOf(guards) \subseteq KeysOf(guards')
    BY InstallKeeps DEF Register
  <1>4. file[path[l]].mtime \in 0 .. writes
    <2>1. file[path[l]] \in [content : Configs \cup {Invalid}, mtime : 0 .. writes]
      BY <1>3 DEF IInv, FilesOK, Content, Register, Exists
    <2> QED
      BY <2>1
  <1>5. fileMtime' \in Dict(Paths, 0 .. writes) /\ Distinct(fileMtime')
    <2>1. fileMtime \in Dict(Paths, 0 .. writes) /\ Distinct(fileMtime)
      BY DEF IInv, RegistryOK, DictsOK
    <2> QED
      BY <1>3, <1>4, <2>1, PutKeeps DEF Register
  <1>6. writes' = writes
    BY DEF Register, files
  <1>7. RegistryOK'
    BY <1>3, <1>5, <1>6 DEF RegistryOK, DictsOK
  <1> QED
    BY <1>2, <1>3, <1>7 DEF IInv

LEMMA RegisterRaisesKeeps ==
    ASSUME IInv, NEW l \in Loaders, RegisterRaises(l)
    PROVE  IInv' /\ KeysOf(guards) \subseteq KeysOf(guards')
  <1>1. <<>> \in Dict(Paths, 0 .. writes)
    BY DEF Dict
  <1>2. FilesOK' /\ ThreadsOK' /\ DropsGone'
    BY <1>1, FinishKeeps DEF RegisterRaises
  <1>3. /\ guards' \in Dict(Names, Configs) /\ Distinct(guards')
        /\ guardFiles' \in Dict(Names, Paths) /\ Distinct(guardFiles')
        /\ Agree(guards', guardFiles')
        /\ KeysOf(guards) \subseteq KeysOf(guards')
    BY InstallKeeps DEF RegisterRaises
  <1>4. RegistryOK'
    BY <1>3 DEF IInv, RegistryOK, DictsOK, RegisterRaises, files
  <1> QED
    BY <1>2, <1>3, <1>4 DEF IInv

LEMMA WatchSnapshotKeeps ==
    ASSUME IInv, WatchSnapshot
    PROVE  IInv'
  <1>1. FilesOK' /\ RegistryOK' /\ DropsGone'
    BY DEF IInv, FilesOK, Content, RegistryOK, DictsOK, DropsGone, WatchSnapshot,
           files, registry
  <1>2. todo' \in Dict(Paths, 0 .. writes')
    BY DEF IInv, RegistryOK, DictsOK, WatchSnapshot, files
  <1>3. ThreadsOK'
    BY <1>2 DEF IInv, ThreadsOK, WatchSnapshot
  <1> QED
    BY <1>1, <1>3 DEF IInv

LEMMA WatchExistsKeeps ==
    ASSUME IInv, WatchExists
    PROVE  IInv'
  <1> DEFINE p == Head(todo).key
  <1>1. p \in Paths
    BY RestOfTodo DEF WatchExists
  <1>2. /\ path' = [path EXCEPT ![Watcher] = p]
        /\ pc' = [pc EXCEPT ![Watcher] = IF Exists(p) THEN "stat" ELSE "drop"]
        /\ todo # <<>> /\ todo' = todo
    BY DEF WatchExists
  <1> HIDE DEF p
  <1>3. FilesOK' /\ RegistryOK'
    BY DEF IInv, FilesOK, Content, RegistryOK, DictsOK, WatchExists, files, registry
  <1>4. ThreadsOK'
    <2>1. todo' \in Dict(Paths, 0 .. writes')
      BY DEF IInv, ThreadsOK, WatchExists, files
    <2> QED
      BY <1>1, <1>2, <2>1, WatcherIsNoAdmin
      DEF IInv, ThreadsOK, Reading, Holding, WatchExists
  <1>5. DropsGone'
    BY <1>2, WatcherIsNoAdmin DEF IInv, ThreadsOK, DropsGone, WatchExists, files, Exists
  <1> QED
    BY <1>3, <1>4, <1>5 DEF IInv

LEMMA WatchStatRaisesKeeps ==
    ASSUME IInv, WatchStatRaises
    PROVE  IInv'
  <1>1. <<>> \in Dict(Paths, 0 .. writes)
    BY DEF Dict
  <1>2. FilesOK' /\ ThreadsOK' /\ DropsGone'
    BY <1>1, FinishKeeps, WatcherIsNoAdmin DEF WatchStatRaises
  <1>3. RegistryOK'
    BY DEF IInv, RegistryOK, DictsOK, WatchStatRaises, files, registry
  <1> QED
    BY <1>2, <1>3 DEF IInv

LEMMA WatchChangedKeeps ==
    ASSUME IInv, WatchChanged
    PROVE  IInv'
  <1>1. FilesOK' /\ RegistryOK'
    BY DEF IInv, FilesOK, Content, RegistryOK, DictsOK, WatchChanged, files, registry
  <1>2. DropsGone'
    BY WatcherIsNoAdmin DEF IInv, ThreadsOK, DropsGone, WatchChanged
  <1>3. ThreadsOK'
    <2>1. todo' \in Dict(Paths, 0 .. writes')
      BY DEF IInv, ThreadsOK, WatchChanged, files
    <2> QED
      BY <2>1, WatcherIsNoAdmin DEF IInv, ThreadsOK, Reading, Holding, WatchChanged
  <1> QED
    BY <1>1, <1>2, <1>3 DEF IInv

LEMMA WatchUnchangedKeeps ==
    ASSUME IInv, WatchUnchanged
    PROVE  IInv'
  <1>1. Tail(todo) \in Dict(Paths, 0 .. writes)
    BY RestOfTodo DEF IInv, ThreadsOK, WatchUnchanged
  <1>2. FilesOK' /\ ThreadsOK' /\ DropsGone'
    BY <1>1, FinishKeeps, WatcherIsNoAdmin DEF WatchUnchanged
  <1>3. RegistryOK'
    BY DEF IInv, RegistryOK, DictsOK, WatchUnchanged, files, registry
  <1> QED
    BY <1>2, <1>3 DEF IInv

LEMMA WatchDropKeeps ==
    ASSUME IInv, WatchDrop
    PROVE  /\ IInv'
           /\ \A n \in KeysOf(guards) \ KeysOf(guards') :
                 LET p == At(guardFiles, n) IN file[p] = Missing \/ p \in torn
  <1> DEFINE p == path[Watcher]
             n == FirstWith(guardFiles, p)
  <1>1. Tail(todo) \in Dict(Paths, 0 .. writes)
    BY RestOfTodo DEF IInv, ThreadsOK, WatchDrop
  <1>2. FilesOK' /\ ThreadsOK' /\ DropsGone'
    BY <1>1, FinishKeeps, WatcherIsNoAdmin DEF WatchDrop
  <1>3. /\ guards \in Dict(Names, Configs) /\ Distinct(guards)
        /\ guardFiles \in Dict(Names, Paths) /\ Distinct(guardFiles)
        /\ fileMtime \in Dict(Paths, 0 .. writes) /\ Distinct(fileMtime)
        /\ Agree(guards, guardFiles)
    BY DEF IInv, RegistryOK, DictsOK
  <1>4. /\ IF KeysWith(guardFiles, p) = {} THEN UNCHANGED <<guards, guardFiles>>
                                          ELSE Forget(n)
        /\ fileMtime' = Pop(fileMtime, p) /\ writes' = writes
        /\ file[p] = Missing \/ p \in torn
    BY DEF WatchDrop, files, IInv, DropsGone
  <1> HIDE DEF p
  <1>5. fileMtime' \in Dict(Paths, 0 .. writes) /\ Distinct(fileMtime')
    BY <1>3, <1>4, PopKeeps
  <1>6. CASE KeysWith(guardFiles, p) = {}
    <2>1. guards' = guards /\ guardFiles' = guardFiles
      BY <1>4, <1>6
    <2>2. RegistryOK'
      BY <1>3, <1>4, <1>5, <2>1 DEF RegistryOK, DictsOK
    <2> QED
      BY <1>2, <2>1, <2>2 DEF IInv
  <1>7. CASE KeysWith(guardFiles, p) # {}
    <2>1. n \in KeysOf(guardFiles) /\ At(guardFiles, n) = p
      BY <1>3, <1>7, FirstOf
    <2>2. guards' = Pop(guards, n) /\ guardFiles' = Pop(guardFiles, n)
      BY <1>4, <1>7 DEF Forget
    <2> HIDE DEF n
    <2>3. /\ guards' \in Dict(Names, Configs) /\ Distinct(guards')
          /\ KeysOf(guards') = KeysOf(guards) \ {n}
      BY <1>3, <2>2, PopKeeps
    <2>4. guardFiles' \in Dict(Names, Paths) /\ Distinct(guardFiles')
      BY <1>3, <2>2, PopKeeps
    <2>5. Agree(guards', guardFiles')
      BY <1>3, <2>1, <2>2, AgreePop
    <2>6. RegistryOK'
      BY <1>4, <1>5, <2>3, <2>4, <2>5 DEF RegistryOK, DictsOK
    <2>7. \A j \in KeysOf(guards) \ KeysOf(guards') : j = n
      BY <2>3
    <2> QED
      BY <1>2, <1>4, <2>1, <2>6, <2>7 DEF IInv
  <1> QED
    BY <1>6, <1>7

LEMMA PutConfigKeeps ==
    ASSUME IInv, NEW a \in Admins, NEW n \in KeysOf(guardFiles), NEW c \in Puts[n],
           PutConfig(a, n, c)
    PROVE  IInv'
  <1>1. At(guardFiles, n) \in Paths /\ n \in Names
    BY PlaceOf, Entries DEF IInv, RegistryOK, DictsOK
  <1>2. c \in Configs
    <2>1. n \in DOMAIN Puts
      BY <1>1, RegistryAssumption DEF RegistryAssumption
    <2> QED
      BY <2>1 DEF Configs
  <1>3. FilesOK' /\ RegistryOK'
    BY DEF IInv, FilesOK, Content, RegistryOK, DictsOK, PutConfig, files, registry
  <1>4. DropsGone'
    BY WatcherIsNoAdmin DEF IInv, ThreadsOK, DropsGone, PutConfig, files
  <1>5. ThreadsOK'
    <2>1. todo' \in Dict(Paths, 0 .. writes')
      BY DEF IInv, ThreadsOK, PutConfig, files
    <2> QED
      BY <1>1, <1>2, <2>1, WatcherIsNoAdmin
      DEF IInv, ThreadsOK, Reading, Holding, PutConfig
  <1> QED
    BY <1>3, <1>4, <1>5 DEF IInv

LEMMA ReloadKeeps ==
    ASSUME IInv, NEW a \in Admins, NEW n \in KeysOf(guardFiles), Reload(a, n)
    PROVE  IInv'
  <1>1. At(guardFiles, n) \in Paths
    BY PlaceOf DEF IInv, RegistryOK, DictsOK
  <1>2. FilesOK' /\ RegistryOK'
    BY DEF IInv, FilesOK, Content, RegistryOK, DictsOK, Reload, files, registry
  <1>3. DropsGone'
    BY WatcherIsNoAdmin DEF IInv, ThreadsOK, DropsGone, Reload, files
  <1>4. ThreadsOK'
    <2>1. todo' \in Dict(Paths, 0 .. writes')
      BY DEF IInv, ThreadsOK, Reload, files
    <2> QED
      BY <1>1, <2>1, WatcherIsNoAdmin DEF IInv, ThreadsOK, Reading, Holding, Reload
  <1> QED
    BY <1>2, <1>3, <1>4 DEF IInv

LEMMA PutTruncateKeeps ==
    ASSUME IInv, NEW a \in Admins, PutTruncate(a)
    PROVE  IInv'
  <1>1. path[a] \in Paths /\ config[a] \in Configs
    BY WatcherIsNoAdmin DEF IInv, ThreadsOK, Reading, Holding, PutTruncate
  <1>2. FilesOK' /\ DropsGone' /\ RegistryOK' /\ todo' \in Dict(Paths, 0 .. writes')
    BY <1>1, WatcherIsNoAdmin, ChangeKeeps DEF PutTruncate, Write, IInv, ThreadsOK
  <1>3. ThreadsOK'
    BY <1>1, <1>2, WatcherIsNoAdmin DEF IInv, ThreadsOK, Reading, Holding, PutTruncate
  <1> QED
    BY <1>2, <1>3 DEF IInv

LEMMA PutWriteKeeps ==
    ASSUME IInv, NEW a \in Admins, PutWrite(a)
    PROVE  IInv'
  <1>1. path[a] \in Paths /\ config[a] \in Configs
    BY WatcherIsNoAdmin DEF IInv, ThreadsOK, Reading, Holding, PutWrite
  <1>2. FilesOK' /\ DropsGone' /\ RegistryOK' /\ todo' \in Dict(Paths, 0 .. writes')
    BY <1>1, WatcherIsNoAdmin, ChangeKeeps DEF PutWrite, Write, IInv, ThreadsOK
  <1>3. ThreadsOK'
    BY <1>1, <1>2, WatcherIsNoAdmin DEF IInv, ThreadsOK, Reading, Holding, PutWrite
  <1> QED
    BY <1>2, <1>3 DEF IInv

LEMMA OperateKeeps ==
    ASSUME IInv, NEW p \in Paths, Delete(p) \/ \E c \in Edits[p] : Edit(p, c)
    PROVE  IInv'
  <1>1. CASE Delete(p)
    <2>1. FilesOK' /\ DropsGone' /\ RegistryOK' /\ todo' \in Dict(Paths, 0 .. writes')
      BY <1>1, ChangeKeeps DEF Delete
    <2>2. ThreadsOK'
      BY <1>1, <2>1 DEF IInv, ThreadsOK, Delete
    <2> QED
      BY <2>1, <2>2 DEF IInv
  <1>2. ASSUME NEW c \in Edits[p], Edit(p, c)
        PROVE  IInv'
    <2>1. c \in Configs \cup {Invalid}
      BY DEF Configs, Edited
    <2>2. FilesOK' /\ DropsGone' /\ RegistryOK' /\ todo' \in Dict(Paths, 0 .. writes')
      BY <1>2, <2>1, ChangeKeeps DEF Edit, Write
    <2>3. ThreadsOK'
      BY <1>2, <2>2 DEF IInv, ThreadsOK, Edit
    <2> QED
      BY <2>2, <2>3 DEF IInv
  <1> QED
    BY <1>1, <1>2

LEMMA StutterKeeps ==
    ASSUME IInv, UNCHANGED vars
    PROVE  IInv'
  BY DEF IInv, FilesOK, Content, ThreadsOK, DropsGone, RegistryOK, DictsOK, vars,
         files, registry

-----------------------------------------------------------------------------
(* Every step keeps the invariant, and unloads a guard only if its file is *)
(* gone or has changed under the watcher.                                  *)
UnloadsGone ==
    \A n \in KeysOf(guards) \ KeysOf(guards') :
        LET p == At(guardFiles, n) IN file[p] = Missing \/ p \in torn

LEMMA StepKeeps == IInv /\ [Next]_vars => IInv' /\ UnloadsGone
  <1> SUFFICES ASSUME IInv, [Next]_vars PROVE IInv' /\ UnloadsGone
    OBVIOUS
  <1>1. ASSUME KeysOf(guards) \subseteq KeysOf(guards') PROVE UnloadsGone
    BY <1>1 DEF UnloadsGone
  <1>2. ASSUME guards' = guards PROVE UnloadsGone
    BY <1>1, <1>2
  <1>3. ASSUME NEW l \in Loaders, Load(l) PROVE IInv' /\ UnloadsGone
    <2>1. CASE ReadFails(l)
      BY <1>2, <2>1, ReadFailsKeeps DEF ReadFails, registry
    <2>2. CASE Read(l)
      BY <1>2, <2>2, ReadKeeps DEF Read, registry
    <2>3. CASE Register(l)
      BY <1>1, <2>3, RegisterKeeps
    <2>4. CASE RegisterRaises(l)
      BY <1>1, <2>4, RegisterRaisesKeeps
    <2> QED
      BY <1>3, <2>1, <2>2, <2>3, <2>4 DEF Load
  <1>4. CASE Watch
    <2>1. CASE WatchSnapshot
      BY <1>2, <2>1, WatchSnapshotKeeps DEF WatchSnapshot, registry
    <2>2. CASE WatchExists
      BY <1>2, <2>2, WatchExistsKeeps DEF WatchExists, registry
    <2>3. CASE WatchStatRaises
      BY <1>2, <2>3, WatchStatRaisesKeeps DEF WatchStatRaises, registry
    <2>4. CASE WatchChanged
      BY <1>2, <2>4, WatchChangedKeeps DEF WatchChanged, registry
    <2>5. CASE WatchUnchanged
      BY <1>2, <2>5, WatchUnchangedKeeps DEF WatchUnchanged, registry
    <2>6. CASE WatchDrop
      BY <2>6, WatchDropKeeps DEF UnloadsGone
    <2>7. CASE Load(Watcher)
      BY <1>3, <2>7, WatcherIsNoAdmin
    <2> QED
      BY <1>4, <2>1, <2>2, <2>3, <2>4, <2>5, <2>6, <2>7 DEF Watch
  <1>5. ASSUME NEW a \in Admins, Serve(a) PROVE IInv' /\ UnloadsGone
    <2>1. CASE PutTruncate(a)
      BY <1>2, <2>1, PutTruncateKeeps DEF PutTruncate, registry
    <2>2. CASE PutWrite(a)
      BY <1>2, <2>2, PutWriteKeeps DEF PutWrite, registry
    <2>3. CASE Load(a)
      BY <1>3, <2>3, WatcherIsNoAdmin
    <2> QED
      BY <1>5, <2>1, <2>2, <2>3 DEF Serve
  <1>6. ASSUME NEW a \in Admins, Request(a) PROVE IInv' /\ UnloadsGone
    <2>1. PICK n \in KeysOf(guardFiles) :
             Reload(a, n) \/ \E c \in Puts[n] : PutConfig(a, n, c)
      BY <1>6 DEF Request
    <2>2. CASE Reload(a, n)
      BY <1>2, <2>2, ReloadKeeps DEF Reload, registry
    <2>3. ASSUME NEW c \in Puts[n], PutConfig(a, n, c) PROVE IInv' /\ UnloadsGone
      BY <1>2, <2>3, PutConfigKeeps DEF PutConfig, registry
    <2> QED
      BY <2>1, <2>2, <2>3
  <1>7. CASE Operate
    BY <1>2, <1>7, OperateKeeps DEF Operate, Delete, Edit, registry
  <1>8. CASE UNCHANGED vars
    BY <1>2, <1>8, StutterKeeps DEF vars, registry
  <1> QED
    BY <1>4, <1>5, <1>6, <1>7, <1>8 DEF Next

LEMMA Invariant == Spec => []IInv
  <1>1. IInv /\ [Next]_vars => IInv'
    BY StepKeeps
  <1> QED
    BY InitIInv, <1>1, PTL DEF Spec

(* The registry's dicts hold what they should whoever loads, forgets or    *)
(* edits, in whatever order (sidecar.py:119-141, 190-211).                 *)
THEOREM TypeCorrect == Spec => []TypeOK
  <1>1. IInv => TypeOK
    <2> SUFFICES ASSUME IInv PROVE TypeOK
      OBVIOUS
    <2>1. /\ Cardinality(KeysOf(guards)) = Len(guards)
          /\ Cardinality(KeysOf(guardFiles)) = Len(guardFiles)
          /\ Cardinality(KeysOf(fileMtime)) = Len(fileMtime)
      BY Counted DEF IInv, RegistryOK, DictsOK
    <2> QED
      BY <2>1 DEF TypeOK, IInv, FilesOK, Content, ThreadsOK, Reading, RegistryOK, DictsOK
  <1> QED
    BY Invariant, <1>1, PTL

(* The guards and their files are the same names in the same order, and a  *)
(* name is served by a guard of that name (sidecar.py:136-138, 202).       *)
THEOREM DictsAlwaysAgree == Spec => []DictsAgree
  <1>1. IInv => DictsAgree
    BY DEF IInv, RegistryOK, DictsOK, Agree, DictsAgree
  <1> QED
    BY Invariant, <1>1, PTL

(* A guard is unloaded only when its file is gone, or came back while the  *)
(* watcher was about to forget it (sidecar.py:128-132, 194-205).           *)
THEOREM UnloadedOnlyWhenGone == Spec => LastGoodStays
  <1>1. IInv /\ [Next]_vars => [UnloadsGone]_vars
    BY StepKeeps
  <1> QED
    BY Invariant, <1>1, PTL DEF Spec, LastGoodStays, UnloadsGone
=============================================================================
