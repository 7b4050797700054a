------------------------ MODULE CacheThreads_proofs ------------------------
(***************************************************************************)
(* LRUResultCache keeps its order and its entries together, forgets the    *)
(* oldest keys only, and implements ResultCache: for any threads, keys,    *)
(* values, size and TTL, and without regard to the bounds.                 *)
(***************************************************************************)
EXTENDS CacheThreads, FiniteSetTheorems, SequenceTheorems, WellFoundedInduction,
        TLAPS

Entries == [Keys -> {Absent} \cup [ts : Nat, value : Values]]

Readings == [key : Keys, now : Nat]

Types ==
    /\ clock \in Nat
    /\ cache = [entry |-> cache.entry, order |-> cache.order]
    /\ cache.entry \in Entries
    /\ reading \in [Threads -> Readings \cup {Idle}]
    /\ answer \in [Threads -> Values \cup {Absent}]
    /\ latest \in [Keys -> Values \cup {Absent}]

(* What is cached is the latest value of its key. *)
HoldsLatest ==
    \A k \in Keys : cache.entry[k] # Absent => cache.entry[k].value = latest[k]

IInv == Types /\ HoldsLatest

-----------------------------------------------------------------------------
(* get() changes no entry; it may delete one. *)
LEMMA GetKeepsEntries ==
    ASSUME NEW c, c = [entry |-> c.entry, order |-> c.order],
           c.entry \in Entries, NEW k \in Keys, NEW n
    PROVE  LET d == AfterGet(c, k, n)
           IN  /\ d = [entry |-> d.entry, order |-> d.order]
               /\ d.entry \in Entries
               /\ \A j \in Keys : d.entry[j] \in {c.entry[j], Absent}
  <1>1. CASE Hit(c, k, n)
    <2>1. AfterGet(c, k, n)
            = [entry |-> c.entry, order |-> MoveToEnd(c.order, k)]
      BY <1>1 DEF AfterGet
    <2> QED
      BY <2>1
  <1>2. CASE ~Hit(c, k, n) /\ k \in Cached(c)
    <2>1. AfterGet(c, k, n) = [entry |-> [c.entry EXCEPT ![k] = Absent],
                               order |-> Without(c.order, k)]
      BY <1>2 DEF AfterGet
    <2> QED
      BY <2>1 DEF Entries
  <1>3. CASE ~Hit(c, k, n) /\ k \notin Cached(c)
    <2>1. AfterGet(c, k, n) = c
      BY <1>3 DEF AfterGet
    <2> QED
      BY <2>1
  <1> QED
    BY <1>1, <1>2, <1>3

(* set() writes its own key; it may delete other entries, or the one it    *)
(* has just written.                                                       *)
LEMMA SetWritesOneEntry ==
    ASSUME NEW c, c.entry \in Entries, NEW k \in Keys,
           NEW v \in Values, NEW n \in Nat
    PROVE  LET d == AfterSet(c, k, v, n)
           IN  /\ d = [entry |-> d.entry, order |-> d.order]
               /\ d.entry \in Entries
               /\ \A j \in Keys :
                     d.entry[j] \in IF j = k
                                    THEN {[ts |-> n, value |-> v], Absent}
                                    ELSE {c.entry[j], Absent}
  <1> DEFINE o == MoveToEnd(c.order, k)
             e == [j \in DOMAIN c.entry |->
                       CASE j \in Evicted(o) -> Absent
                         [] j = k /\ j \notin Evicted(o) ->
                               [ts |-> n, value |-> v]
                         [] OTHER -> c.entry[j]]
  <1>1. AfterSet(c, k, v, n) = [entry |-> e, order |-> Trim(o)]
    BY DEF AfterSet
  <1>2. DOMAIN c.entry = Keys
    BY DEF Entries
  <1>3. \A j \in Keys :
          /\ j \in Evicted(o) => e[j] = Absent
          /\ j = k /\ j \notin Evicted(o) => e[j] = [ts |-> n, value |-> v]
          /\ j # k /\ j \notin Evicted(o) => e[j] = c.entry[j]
    BY <1>2
  <1>4. e = [j \in Keys |-> e[j]]
    BY <1>2
  <1> HIDE DEF e
  <1>5. e \in Entries
    BY <1>3, <1>4 DEF Entries
  <1>6. \A j \in Keys :
          e[j] \in IF j = k THEN {[ts |-> n, value |-> v], Absent}
                            ELSE {c.entry[j], Absent}
    BY <1>3
  <1> QED
    BY <1>1, <1>5, <1>6 DEF e

LEMMA InitIInv == Init => IInv
  <1> SUFFICES ASSUME Init PROVE IInv
    OBVIOUS
  <1>1. /\ cache = [entry |-> cache.entry, order |-> cache.order]
        /\ cache.entry \in Entries
        /\ \A k \in Keys : cache.entry[k] = Absent
    BY DEF Init, EmptyCache, Entries
  <1> QED
    BY <1>1 DEF Init, IInv, Types, HoldsLatest

LEMMA BeginGetIInv ==
    ASSUME IInv, NEW t \in Threads, NEW k \in Keys, BeginGet(t, k)
    PROVE  IInv'
  BY DEF BeginGet, IInv, Types, HoldsLatest, Readings

LEMMA EndGetIInv ==
    ASSUME IInv, NEW t \in Threads, EndGet(t)
    PROVE  IInv'
  <1> DEFINE k == reading[t].key
             n == reading[t].now
  <1>1. k \in Keys
    BY DEF EndGet, IInv, Types, Readings
  <1>2. cache' = AfterGet(cache, k, n)
    BY DEF EndGet
  <1> HIDE DEF n
  <1>3. /\ cache' = [entry |-> cache'.entry, order |-> cache'.order]
        /\ cache'.entry \in Entries
        /\ \A j \in Keys : cache'.entry[j] \in {cache.entry[j], Absent}
    BY <1>1, <1>2, GetKeepsEntries DEF IInv, Types
  <1>4. Hit(cache, k, n) => cache.entry[k].value \in Values
    BY <1>1 DEF Hit, Cached, IInv, Types, Entries
  <1>5. answer'[t] \in Values \cup {Absent} /\ answer' = [answer EXCEPT ![t] = answer'[t]]
    BY <1>4 DEF EndGet, IInv, Types, n
  <1>6. Types'
    BY <1>3, <1>5 DEF EndGet, IInv, Types
  <1>7. HoldsLatest'
    BY <1>3 DEF EndGet, IInv, HoldsLatest
  <1> QED
    BY <1>6, <1>7 DEF IInv

LEMMA SetIInv ==
    ASSUME IInv, NEW t \in Threads, NEW k \in Keys, NEW v \in Values, Set(t, k, v)
    PROVE  IInv'
  <1>1. /\ cache' = [entry |-> cache'.entry, order |-> cache'.order]
        /\ cache'.entry \in Entries
        /\ \A j \in Keys :
              cache'.entry[j] \in IF j = k
                                  THEN {[ts |-> clock, value |-> v], Absent}
                                  ELSE {cache.entry[j], Absent}
    BY SetWritesOneEntry DEF Set, IInv, Types
  <1>2. Types'
    BY <1>1 DEF Set, IInv, Types
  <1>3. ASSUME NEW j \in Keys, cache'.entry[j] # Absent
        PROVE  cache'.entry[j].value = latest'[j]
    <2>1. CASE j = k
      <3>1. cache'.entry[j] = [ts |-> clock, value |-> v]
        BY <1>1, <1>3, <2>1
      <3>2. latest'[j] = v
        BY <2>1 DEF Set, IInv, Types
      <3> QED
        BY <3>1, <3>2
    <2>2. CASE j # k
      BY <1>1, <1>3, <2>2 DEF Set, IInv, Types, HoldsLatest
    <2> QED
      BY <2>1, <2>2
  <1> QED
    BY <1>2, <1>3 DEF IInv, HoldsLatest

LEMMA Inductive == IInv /\ [Next]_vars => IInv'
  <1> SUFFICES ASSUME IInv, [Next]_vars PROVE IInv'
    OBVIOUS
  <1>1. CASE Tick
    BY <1>1 DEF Tick, IInv, Types, HoldsLatest
  <1>2. CASE UNCHANGED vars
    BY <1>2 DEF vars, IInv, Types, HoldsLatest
  <1> QED
    BY <1>1, <1>2, BeginGetIInv, EndGetIInv, SetIInv DEF Next, Finished

-----------------------------------------------------------------------------
(* Whatever it evicts, however late a thread gets the lock and whatever it *)
(* expires, a get() returns nothing or the value of the latest set() of    *)
(* the key it was called with: LRUResultCache implements ResultCache       *)
(* (cache.py:66-88).                                                       *)
THEOREM Implements == Spec => ImplementsResultCache
  <1>1. Init => Abstract!Init
    BY DEF Init, Idle, Asked, Abstract!Init
  <1>2. ASSUME IInv, [Next]_vars
        PROVE  [Abstract!Next]_(Abstract!vars)
    <2>1. ASSUME NEW t \in Threads, EndGet(t)
          PROVE  Abstract!Next
      <3> DEFINE k == reading[t].key
                 n == reading[t].now
      <3>1. k \in Keys /\ Asked[t] = k /\ k # Absent
        BY <1>2, <2>1, AbsentAssumption DEF EndGet, IInv, Types, Readings, Asked
      <3>2. Hit(cache, k, n) => cache.entry[k].value = latest[k]
        BY <1>2, <3>1 DEF Hit, Cached, IInv, HoldsLatest
      <3>3. \/ answer' = [answer EXCEPT ![t] = Absent]
            \/ answer' = [answer EXCEPT ![t] = latest[Asked[t]]]
        BY <2>1, <3>1, <3>2 DEF EndGet
      <3>4. Asked' = [Asked EXCEPT ![t] = Absent] /\ latest' = latest
        BY <1>2, <2>1 DEF EndGet, Idle, Asked, IInv, Types
      <3>5. Abstract!Answer(t)
        BY <3>1, <3>3, <3>4 DEF Abstract!Answer
      <3> QED
        BY <3>5 DEF Abstract!Next
    <2>2. ASSUME NEW t \in Threads, NEW k \in Keys, NEW v \in Values, Set(t, k, v)
          PROVE  Abstract!Next
      <3>1. Abstract!Set(k, v)
        BY <2>2 DEF Set, Asked, Abstract!Set
      <3> QED
        BY <3>1 DEF Abstract!Next
    <2>3. ASSUME NEW t \in Threads, NEW k \in Keys, BeginGet(t, k)
          PROVE  Abstract!Next
      <3>1. Asked[t] = Absent
        BY <2>3 DEF BeginGet, Idle, Asked
      <3>2. Asked' = [Asked EXCEPT ![t] = k]
        BY <1>2, <2>3 DEF BeginGet, Asked, IInv, Types
      <3>3. Abstract!Call(t, k)
        BY <2>3, <3>1, <3>2 DEF BeginGet, Abstract!Call
      <3> QED
        BY <3>3 DEF Abstract!Next
    <2>4. CASE Tick
      BY <2>4 DEF Tick, Asked, Abstract!vars
    <2>5. CASE UNCHANGED vars
      BY <2>5 DEF vars, Asked, Abstract!vars
    <2> QED
      BY <1>2, <2>1, <2>2, <2>3, <2>4, <2>5 DEF Next, Finished
  <1>3. Spec => []IInv
    BY InitIInv, Inductive, PTL DEF Spec
  <1> QED
    BY <1>1, <1>2, <1>3, PTL DEF Spec, ImplementsResultCache, Abstract!Spec

-----------------------------------------------------------------------------
(* The order of the keys: facts about the sequences it is made of.         *)
(* Induction, as a fact about sets of numbers: a non-empty one has a least *)
(* element, because the intervals 1 .. n are well-founded by inclusion.    *)
LEMMA LeastNumber ==
    ASSUME NEW T \in SUBSET Nat, T # {}
    PROVE  \E m \in T : \A n \in T : m <= n
  <1> DEFINE Up(n) == 1 .. n
             F == {Up(n) : n \in T}
             R == StrictSubsetOrdering(Nat)
             D == FiniteSubsetsOf(Nat)
  <1>1. IsWellFoundedOn(R, D)
    BY FS_StrictSubsetOrderingWellFounded
  <1>2. \A n \in T : Up(n) \in SUBSET Nat /\ IsFiniteSet(Up(n))
    BY FS_Interval
  <1>3. F \subseteq D /\ F # {}
    BY <1>2 DEF FiniteSubsetsOf
  <1> HIDE DEF R, D, F
  <1>4. PICK x \in F : \A y \in F : ~ (<<y, x>> \in R)
    BY <1>1, <1>3, WFMin
  <1>5. PICK m \in T : x = Up(m)
    BY <1>4 DEF F
  <1>6. \A n \in T : m <= n
    <2> SUFFICES ASSUME NEW n \in T, n < m PROVE FALSE
      OBVIOUS
    <2>1. m \in Up(m) /\ m \notin Up(n)
      OBVIOUS
    <2>2. Up(n) \subseteq Up(m) /\ Up(n) # Up(m)
      BY <2>1
    <2>3. Up(n) \in F
      BY DEF F
    <2>4. <<Up(n), Up(m)>> \in R
      BY <2>2, <1>2 DEF R, StrictSubsetOrdering
    <2> QED
      BY <2>3, <2>4, <1>4, <1>5
  <1> QED
    BY <1>6

-----------------------------------------------------------------------------
(* An entry taken out of a sequence: those after it move up. *)
LEMMA EntryRemoved ==
    ASSUME NEW S, NEW s \in Seq(S), NEW i \in 1 .. Len(s)
    PROVE  /\ RemoveAt(s, i) \in Seq(S)
           /\ Len(RemoveAt(s, i)) = Len(s) - 1
           /\ \A j \in 1 .. Len(s) - 1 :
                 RemoveAt(s, i)[j] = IF j < i THEN s[j] ELSE s[j + 1]
  <1>1. Len(s) \in Nat /\ \A j \in 1 .. Len(s) : s[j] \in S
    OBVIOUS
  <1> DEFINE front == SubSeq(s, 1, i - 1)
             back == SubSeq(s, i + 1, Len(s))
  <1>2. /\ front \in Seq(S) /\ Len(front) = i - 1
        /\ \A j \in 1 .. i - 1 : front[j] = s[j]
    BY <1>1, SubSeqProperties
  <1>3. /\ back \in Seq(S) /\ Len(back) = Len(s) - i
        /\ \A j \in 1 .. Len(s) - i : back[j] = s[i + j]
    BY <1>1, SubSeqProperties
  <1>4. RemoveAt(s, i) = front \o back
    BY DEF RemoveAt
  <1> HIDE DEF front, back
  <1>5. /\ front \o back \in Seq(S)
        /\ Len(front \o back) = Len(front) + Len(back)
        /\ \A j \in 1 .. Len(front) + Len(back) : (front \o back)[j] =
               IF j <= Len(front) THEN front[j] ELSE back[j - Len(front)]
    BY <1>2, <1>3, ConcatProperties
  <1>6. Len(front) + Len(back) = Len(s) - 1
    BY <1>1, <1>2, <1>3
  <1>7. ASSUME NEW j \in 1 .. Len(s) - 1
        PROVE  (front \o back)[j] = IF j < i THEN s[j] ELSE s[j + 1]
    <2>1. CASE j < i
      BY <1>1, <1>2, <1>5, <1>6, <2>1
    <2>2. CASE ~(j < i)
      <3>1. (front \o back)[j] = back[j - (i - 1)]
        BY <1>1, <1>2, <1>5, <1>6, <2>2
      <3>2. j - (i - 1) \in 1 .. Len(s) - i /\ i + (j - (i - 1)) = j + 1
        BY <1>1, <2>2
      <3> QED
        BY <1>3, <2>2, <3>1, <3>2
    <2> QED
      BY <2>1, <2>2
  <1> QED
    BY <1>4, <1>5, <1>6, <1>7


(* Without() takes out the first occurrence of a key, if there is one. *)
LEMMA WithoutKey ==
    ASSUME NEW S, NEW s \in Seq(S), NEW i \in 1 .. Len(s)
    PROVE  \E j \in 1 .. i : s[j] = s[i] /\ Without(s, s[i]) = RemoveAt(s, j)
  <1> DEFINE k == s[i]
             T == {j \in 1 .. Len(s) : s[j] = k}
  <1>1. Len(s) \in Nat
    OBVIOUS
  <1>2. SelectInSeq(s, LAMBDA v : v = k) = Min(T)
    <2>1. i \in T
      BY <1>1
    <2> QED
      BY <2>1 DEF SelectInSeq
  <1>3. Without(s, k) = RemoveAt(s, SelectInSeq(s, LAMBDA v : v = k))
    BY DEF Without, RemoveFirst
  <1>4. T \in SUBSET Nat /\ i \in T
    BY <1>1
  <1>5. \E m \in T : \A n \in T : m <= n
    <2> HIDE DEF T
    <2> QED
      BY <1>4, LeastNumber
  <1>6. Min(T) \in T /\ Min(T) <= i
    <2> HIDE DEF T
    <2> DEFINE P(x) == x \in T /\ \A y \in T : x <= y
    <2>1. \E x : P(x)
      BY <1>5
    <2>2. Min(T) = CHOOSE x \in T : \A y \in T : x <= y
      BY DEF Min
    <2>3. Min(T) \in T /\ \A y \in T : Min(T) <= y
      BY <2>1, <2>2
    <2> QED
      BY <1>4, <2>3
  <1>7. Without(s, k) = RemoveAt(s, Min(T))
    BY <1>2, <1>3
  <1>8. Min(T) \in 1 .. i /\ s[Min(T)] = s[i]
    BY <1>1, <1>6
  <1> QED
    BY <1>7, <1>8, Zenon

LEMMA WithoutNoKey ==
    ASSUME NEW s, NEW k, \A i \in 1 .. Len(s) : s[i] # k
    PROVE  Without(s, k) = s
  BY DEF Without, RemoveFirst

(* A sequence of keys in which none occurs twice. *)
Once(s) == \A i, j \in DOMAIN s : s[i] = s[j] => i = j

LEMMA Members ==
    ASSUME NEW S, NEW s \in Seq(S)
    PROVE  /\ Len(s) \in Nat /\ DOMAIN s = 1 .. Len(s)
           /\ \A i \in 1 .. Len(s) : s[i] \in S /\ s[i] \in ToSet(s)
           /\ ToSet(s) \subseteq S
           /\ \A k \in ToSet(s) : \E i \in 1 .. Len(s) : s[i] = k
  BY DEF ToSet

LEMMA Counted ==
    ASSUME NEW S, NEW s \in Seq(S), Once(s)
    PROVE  Cardinality(ToSet(s)) = Len(s)
  <1>1. Len(s) \in Nat /\ DOMAIN s = 1 .. Len(s)
    BY Members
  <1>2. s \in [1 .. Len(s) -> ToSet(s)]
    BY Members
  <1>3. s \in Injection(1 .. Len(s), ToSet(s))
    BY <1>1, <1>2 DEF Injection, IsInjective, Once
  <1>4. s \in Surjection(1 .. Len(s), ToSet(s))
    BY <1>2, Members DEF Surjection
  <1>5. ExistsBijection(1 .. Len(s), ToSet(s))
    BY <1>3, <1>4 DEF ExistsBijection, Bijection
  <1> QED
    BY <1>1, <1>5, FS_CountingElements

LEMMA WithoutIt ==
    ASSUME NEW S, NEW s \in Seq(S), Once(s), NEW i \in 1 .. Len(s)
    PROVE  LET w == Without(s, s[i])
           IN  /\ w \in Seq(S) /\ Len(w) = Len(s) - 1
               /\ \A j \in 1 .. Len(s) - 1 : w[j] = IF j < i THEN s[j] ELSE s[j + 1]
               /\ Once(w)
               /\ ToSet(w) = ToSet(s) \ {s[i]}
  <1> DEFINE w == Without(s, s[i])
  <1>1. Len(s) \in Nat /\ DOMAIN s = 1 .. Len(s)
    BY Members
  <1>2. w = RemoveAt(s, i)
    <2>1. PICK j \in 1 .. i : s[j] = s[i] /\ w = RemoveAt(s, j)
      BY WithoutKey
    <2>2. j = i
      BY <1>1, <2>1 DEF Once
    <2> QED
      BY <2>1, <2>2
  <1>3. /\ w \in Seq(S) /\ Len(w) = Len(s) - 1
        /\ \A j \in 1 .. Len(s) - 1 : w[j] = IF j < i THEN s[j] ELSE s[j + 1]
    BY <1>2, EntryRemoved
  <1>4. DOMAIN w = 1 .. Len(s) - 1
    BY <1>3, Members
  <1> HIDE DEF w
  <1> DEFINE from(j) == IF j < i THEN j ELSE j + 1
  <1>5. \A j \in 1 .. Len(s) - 1 : /\ from(j) \in 1 .. Len(s) /\ from(j) # i
                                   /\ w[j] = s[from(j)]
    BY <1>1, <1>3
  <1>6. \A j, m \in 1 .. Len(s) - 1 : from(j) = from(m) => j = m
    BY <1>1
  <1>7. ASSUME NEW m \in 1 .. Len(s), m # i
        PROVE  \E j \in 1 .. Len(s) - 1 : from(j) = m
    <2>1. CASE m < i
      BY <1>1, <2>1
    <2>2. CASE m > i
      <3>1. m - 1 \in 1 .. Len(s) - 1 /\ from(m - 1) = m
        BY <1>1, <2>2
      <3> QED
        BY <3>1
    <2> QED
      BY <1>1, <1>7, <2>1, <2>2
  <1> HIDE DEF from
  <1>8. Once(w)
    BY <1>1, <1>4, <1>5, <1>6 DEF Once
  <1>9. ToSet(w) = ToSet(s) \ {s[i]}
    <2>1. ToSet(w) \subseteq ToSet(s) \ {s[i]}
      BY <1>1, <1>4, <1>5 DEF ToSet, Once
    <2>2. ASSUME NEW k \in ToSet(s) \ {s[i]} PROVE k \in ToSet(w)
      <3>1. PICK m \in 1 .. Len(s) : s[m] = k /\ m # i
        BY <1>1 DEF ToSet
      <3>2. PICK j \in 1 .. Len(s) - 1 : from(j) = m
        BY <1>7, <3>1
      <3> QED
        BY <1>4, <1>5, <3>1, <3>2 DEF ToSet
    <2> QED
      BY <2>1, <2>2
  <1> QED
    BY <1>3, <1>8, <1>9 DEF w

(* Whether or not the key is there, it is not afterwards. *)
LEMMA WithoutFacts ==
    ASSUME NEW S, NEW s \in Seq(S), Once(s), NEW k
    PROVE  LET w == Without(s, k)
           IN  /\ w \in Seq(S) /\ Once(w)
               /\ ToSet(w) = ToSet(s) \ {k}
               /\ Len(w) = IF k \in ToSet(s) THEN Len(s) - 1 ELSE Len(s)
  <1>1. CASE k \in ToSet(s)
    <2>1. PICK i \in 1 .. Len(s) : k = s[i]
      BY <1>1, Members
    <2> QED
      BY <1>1, <2>1, WithoutIt
  <1>2. CASE k \notin ToSet(s)
    <2>1. Without(s, k) = s
      BY <1>2, WithoutNoKey, Members
    <2> QED
      BY <1>2, <2>1
  <1> QED
    BY <1>1, <1>2

LEMMA MoveToEndFacts ==
    ASSUME NEW S, NEW s \in Seq(S), Once(s), NEW k \in S
    PROVE  LET m == MoveToEnd(s, k)
           IN  /\ m \in Seq(S) /\ Once(m)
               /\ ToSet(m) = ToSet(s) \cup {k}
               /\ Len(m) = IF k \in ToSet(s) THEN Len(s) ELSE Len(s) + 1
               /\ m[Len(m)] = k
  <1> DEFINE w == Without(s, k)
             m == MoveToEnd(s, k)
  <1>1. /\ w \in Seq(S) /\ Once(w)
        /\ ToSet(w) = ToSet(s) \ {k}
        /\ Len(w) = IF k \in ToSet(s) THEN Len(s) - 1 ELSE Len(s)
    BY WithoutFacts
  <1>2. m = Append(w, k)
    BY DEF MoveToEnd
  <1> HIDE DEF w, m
  <1>3. Len(w) \in Nat /\ DOMAIN w = 1 .. Len(w) /\ Len(s) \in Nat
    BY <1>1, Members
  <1>4. /\ m \in Seq(S) /\ Len(m) = Len(w) + 1 /\ m[Len(w) + 1] = k
        /\ \A i \in 1 .. Len(w) : m[i] = w[i]
    BY <1>1, <1>2, AppendProperties
  <1>5. DOMAIN m = (1 .. Len(w)) \cup {Len(w) + 1}
    BY <1>3, <1>4
  <1>6. \A i \in 1 .. Len(w) : w[i] # k
    BY <1>1, <1>3 DEF ToSet
  <1>7. Once(m)
    BY <1>1, <1>3, <1>4, <1>5, <1>6 DEF Once
  <1>8. ToSet(m) = ToSet(w) \cup {k}
    BY <1>3, <1>4, <1>5 DEF ToSet
  <1>9. Len(m) = IF k \in ToSet(s) THEN Len(s) ELSE Len(s) + 1
    BY <1>1, <1>3, <1>4
  <1> QED
    BY <1>1, <1>4, <1>7, <1>8, <1>9 DEF m

(* What Trim() leaves is what Evicted() does not take. *)
LEMMA TrimFacts ==
    ASSUME NEW S, NEW s \in Seq(S), Once(s)
    PROVE  /\ Trim(s) \in Seq(S) /\ Once(Trim(s))
           /\ Len(Trim(s)) = IF Len(s) > MaxSize THEN MaxSize ELSE Len(s)
           /\ \A i \in 1 .. Len(Trim(s)) :
                 Trim(s)[i] = s[i + (Len(s) - Len(Trim(s)))]
           /\ ToSet(Trim(s)) = ToSet(s) \ Evicted(s)
           /\ Len(s) <= MaxSize => Evicted(s) = {}
           /\ Len(s) >= 1 => s[Len(s)] \notin Evicted(s)
  <1> DEFINE t == Trim(s)
  <1>1. /\ Len(s) \in Nat /\ DOMAIN s = 1 .. Len(s) /\ MaxSize \in Nat \ {0}
        /\ \A i \in 1 .. Len(s) : s[i] \in S
    BY Members, CacheAssumption
  <1>2. CASE Len(s) <= MaxSize
    <2>1. t = s /\ Evicted(s) = {}
      <3>1. Excess(s) = 0
        <4>1. ~(Len(s) > MaxSize)
          BY <1>1, <1>2
        <4> QED
          BY <4>1 DEF Excess
      <3>2. SubSeq(s, 1, Len(s)) = s
        BY <1>1
      <3> QED
        BY <3>1, <3>2 DEF Trim, Evicted
    <2>2. \A i \in 1 .. Len(s) : i + (Len(s) - Len(s)) = i
      BY <1>1
    <2>3. ~(Len(s) > MaxSize)
      BY <1>1, <1>2
    <2>4. ToSet(s) = ToSet(s) \ {}
      OBVIOUS
    <2> HIDE DEF t
    <2>5. \A i \in 1 .. Len(t) : t[i] = s[i + (Len(s) - Len(t))]
      BY <2>1, <2>2
    <2> QED
      BY <2>1, <2>3, <2>4, <2>5 DEF t
  <1>3. CASE Len(s) > MaxSize
    <2> DEFINE n == Len(s) - MaxSize
    <2>1. n \in 1 .. Len(s) - 1 /\ Len(s) - n = MaxSize /\ Len(s) - (n + 1) + 1 = MaxSize
          /\ Len(s) = n + MaxSize
      BY <1>1, <1>3
    <2>2. t = SubSeq(s, n + 1, Len(s)) /\ Evicted(s) = {s[i] : i \in 1 .. n}
      BY <1>3 DEF Trim, Evicted, Excess
    <2> HIDE DEF n, t
    <2>3. /\ t \in Seq(S) /\ Len(t) = MaxSize
          /\ \A i \in 1 .. MaxSize : t[i] = s[n + i]
      <3>1. \A i \in n + 1 .. Len(s) : s[i] \in S
        BY <1>1, <2>1
      <3>2. /\ SubSeq(s, n + 1, Len(s)) \in Seq(S)
            /\ Len(SubSeq(s, n + 1, Len(s))) =
                  IF n + 1 <= Len(s) THEN Len(s) - (n + 1) + 1 ELSE 0
            /\ \A i \in 1 .. Len(s) - (n + 1) + 1 :
                  SubSeq(s, n + 1, Len(s))[i] = s[n + 1 + i - 1]
        BY <1>1, <2>1, <3>1, SubSeqProperties
      <3>3. \A i \in 1 .. MaxSize : n + 1 + i - 1 = n + i
        BY <1>1, <2>1
      <3> QED
        BY <1>1, <2>1, <2>2, <3>2, <3>3
    <2>4. DOMAIN t = 1 .. MaxSize /\ \A i \in 1 .. MaxSize : n + i \in 1 .. Len(s)
      BY <1>1, <2>1, <2>3, Members
    <2>5. Once(t)
      <3>1. ASSUME NEW i \in 1 .. MaxSize, NEW j \in 1 .. MaxSize, t[i] = t[j]
            PROVE  i = j
        <4>1. n + i = n + j
          BY <1>1, <2>3, <2>4, <3>1 DEF Once
        <4> QED
          BY <2>1, <4>1
      <3> QED
        BY <2>4, <3>1 DEF Once
    <2>6. ToSet(t) \subseteq ToSet(s) \ Evicted(s)
      <3> SUFFICES ASSUME NEW i \in 1 .. MaxSize
                   PROVE  t[i] \in ToSet(s) /\ t[i] \notin Evicted(s)
        BY <2>4 DEF ToSet
      <3>1. t[i] = s[n + i] /\ n + i \in 1 .. Len(s)
        BY <2>3, <2>4
      <3>2. \A j \in 1 .. n : j \in 1 .. Len(s) /\ j # n + i
        BY <1>1, <2>1
      <3> QED
        BY <1>1, <2>2, <3>1, <3>2 DEF ToSet, Once
    <2>7. ASSUME NEW k \in ToSet(s) \ Evicted(s) PROVE k \in ToSet(t)
      <3>1. PICK j \in 1 .. Len(s) : s[j] = k
        BY <1>1 DEF ToSet
      <3>2. ~(j \in 1 .. n)
        BY <2>2, <3>1
      <3>3. j - n \in 1 .. MaxSize /\ n + (j - n) = j
        BY <1>1, <2>1, <3>2
      <3>4. t[j - n] = k
        BY <2>3, <3>1, <3>3
      <3> QED
        BY <2>4, <3>3, <3>4 DEF ToSet
    <2>8. s[Len(s)] \notin Evicted(s)
      <3>1. \A j \in 1 .. n : j \in 1 .. Len(s) /\ j # Len(s)
        BY <1>1, <2>1
      <3>2. Len(s) \in 1 .. Len(s)
        BY <1>1, <1>3
      <3> QED
        BY <1>1, <2>2, <3>1, <3>2 DEF Once
    <2>9. \A i \in 1 .. Len(t) : t[i] = s[i + (Len(s) - Len(t))]
      <3>1. \A i \in 1 .. MaxSize : i + (Len(s) - MaxSize) = n + i
        BY <1>1, <2>1
      <3> QED
        BY <2>3, <3>1
    <2>10. ~(Len(s) <= MaxSize)
      BY <1>1, <1>3
    <2> QED
      BY <1>3, <2>3, <2>5, <2>6, <2>7, <2>8, <2>9, <2>10 DEF t
  <1> QED
    BY <1>1, <1>2, <1>3

-----------------------------------------------------------------------------
(* s is what t ends with. *)
Ends(s, t) ==
    /\ Len(s) <= Len(t)
    /\ \A i \in 1 .. Len(s) : s[i] = t[i + (Len(t) - Len(s))]

LEMMA Reversed ==
    ASSUME NEW S, NEW s \in Seq(S)
    PROVE  /\ Reverse(s) \in Seq(S) /\ Len(Reverse(s)) = Len(s)
           /\ \A i \in 1 .. Len(s) : Reverse(s)[i] = s[(Len(s) - i) + 1]
  <1>1. Len(s) \in Nat /\ \A i \in 1 .. Len(s) : s[i] \in S
    BY Members
  <1>2. \A i \in 1 .. Len(s) : (Len(s) - i) + 1 \in 1 .. Len(s)
    BY <1>1
  <1> DEFINE r == [i \in 1 .. Len(s) |-> s[(Len(s) - i) + 1]]
  <1>3. r \in [1 .. Len(s) -> S]
    BY <1>1, <1>2
  <1>4. Reverse(s) = r
    BY DEF Reverse
  <1>5. r \in Seq(S) /\ Len(r) = Len(s)
    BY <1>1, <1>3, SeqDef
  <1> QED
    BY <1>4, <1>5

LEMMA EndsIsSuffix ==
    ASSUME NEW S, NEW s \in Seq(S), NEW t \in Seq(S), Ends(s, t)
    PROVE  IsSuffix(s, t)
  <1> DEFINE a == Reverse(s)
             b == Reverse(t)
             n == Len(s)
             m == Len(t)
  <1>1. /\ n \in Nat /\ m \in Nat /\ n <= m
        /\ \A i \in 1 .. n : s[i] = t[i + (m - n)]
    BY Members DEF Ends
  <1>2. /\ a \in Seq(S) /\ Len(a) = n
        /\ \A i \in 1 .. n : a[i] = s[(n - i) + 1]
    BY Reversed
  <1>3. /\ b \in Seq(S) /\ Len(b) = m
        /\ \A i \in 1 .. m : b[i] = t[(m - i) + 1]
    BY Reversed
  <1> HIDE DEF a, b, n, m
  <1>4. ASSUME NEW i \in 1 .. n PROVE a[i] = b[i]
    <2>1. /\ i \in 1 .. m /\ (n - i) + 1 \in 1 .. n
          /\ ((n - i) + 1) + (m - n) = (m - i) + 1
      BY <1>1
    <2> QED
      BY <1>1, <1>2, <1>3, <2>1
  <1>5. /\ \A i \in 1 .. n : a[i] \in S
        /\ \A i \in 1 .. n : b[i] \in S
    BY <1>1, <1>2, <1>4, Members
  <1>6. /\ SubSeq(a, 1, n) \in Seq(S) /\ SubSeq(b, 1, n) \in Seq(S)
        /\ Len(SubSeq(a, 1, n)) = IF 1 <= n THEN n - 1 + 1 ELSE 0
        /\ Len(SubSeq(b, 1, n)) = IF 1 <= n THEN n - 1 + 1 ELSE 0
        /\ \A i \in 1 .. n - 1 + 1 : SubSeq(a, 1, n)[i] = a[1 + i - 1]
        /\ \A i \in 1 .. n - 1 + 1 : SubSeq(b, 1, n)[i] = b[1 + i - 1]
    BY <1>1, <1>5, SubSeqProperties
  <1> DEFINE u == SubSeq(a, 1, n)
             v == SubSeq(b, 1, n)
  <1>7. /\ Len(u) = n /\ Len(v) = n
        /\ \A i \in 1 .. n : 1 + i - 1 = i /\ i \in 1 .. n - 1 + 1
    BY <1>1, <1>6
  <1>8. \A i \in 1 .. n : u[i] = v[i]
    BY <1>4, <1>6, <1>7
  <1>9. u = v
    <2> HIDE DEF u, v
    <2>1. u \in Seq(S) /\ v \in Seq(S)
      BY <1>6 DEF u, v
    <2> QED
      BY <1>7, <1>8, <2>1, SeqEqual
  <1>10. IsPrefix(a, b)
    BY <1>1, <1>2, <1>3, <1>9 DEF IsPrefix
  <1> QED
    BY <1>10 DEF IsSuffix, a, b

LEMMA EndsWithout ==
    ASSUME NEW S, NEW s \in Seq(S), NEW t \in Seq(S), Once(s), Once(t),
           Ends(s, t), NEW k
    PROVE  Ends(Without(s, k), Without(t, k))
  <1> DEFINE d == Len(t) - Len(s)
             u == Without(s, k)
             v == Without(t, k)
  <1>1. /\ Len(s) \in Nat /\ Len(t) \in Nat /\ d \in Nat /\ Len(t) = Len(s) + d
        /\ DOMAIN t = 1 .. Len(t)
        /\ \A i \in 1 .. Len(s) : s[i] = t[i + d] /\ i + d \in 1 .. Len(t)
    BY Members DEF Ends
  <1>2. CASE k \in ToSet(s)
    <2>1. PICK i \in 1 .. Len(s) : k = s[i]
      BY <1>2, Members
    <2>2. i + d \in 1 .. Len(t) /\ k = t[i + d]
      BY <1>1, <2>1
    <2>3. /\ Len(u) = Len(s) - 1
          /\ \A j \in 1 .. Len(s) - 1 : u[j] = IF j < i THEN s[j] ELSE s[j + 1]
      BY <2>1, WithoutIt
    <2>4. /\ Len(v) = Len(t) - 1
          /\ \A j \in 1 .. Len(t) - 1 : v[j] = IF j < i + d THEN t[j] ELSE t[j + 1]
      BY <2>2, WithoutIt
    <2> HIDE DEF u, v, d
    <2>5. ASSUME NEW j \in 1 .. Len(s) - 1
          PROVE  u[j] = v[j + d] /\ j + d = j + (Len(v) - Len(u))
      <3>1. /\ j + d \in 1 .. Len(t) - 1 /\ j \in 1 .. Len(s) /\ j + 1 \in 1 .. Len(s)
            /\ (j + d < i + d <=> j < i) /\ (j + d) + 1 = (j + 1) + d
        BY <1>1
      <3>2. s[j] = t[j + d] /\ s[j + 1] = t[(j + d) + 1]
        BY <1>1, <3>1
      <3>3. u[j] = v[j + d]
        BY <2>3, <2>4, <3>1, <3>2
      <3> QED
        BY <1>1, <2>3, <2>4, <3>3
    <2> QED
      BY <1>1, <2>3, <2>4, <2>5 DEF Ends, u, v
  <1>3. CASE k \notin ToSet(s)
    <2>1. u = s
      BY <1>3, Members, WithoutNoKey
    <2>2. CASE k \notin ToSet(t)
      <3>1. v = t
        BY <2>2, Members, WithoutNoKey
      <3> QED
        BY <2>1, <3>1
    <2>3. CASE k \in ToSet(t)
      <3>1. PICK m \in 1 .. Len(t) : k = t[m]
        BY <2>3, Members
      <3>2. m <= d
        <4> SUFFICES ASSUME m > d PROVE FALSE
          BY <1>1
        <4>1. m - d \in 1 .. Len(s) /\ (m - d) + d = m
          BY <1>1
        <4>2. s[m - d] = k
          BY <1>1, <3>1, <4>1
        <4> QED
          BY <1>3, <4>1, <4>2, Members
      <3>3. /\ Len(v) = Len(t) - 1
            /\ \A j \in 1 .. Len(t) - 1 : v[j] = IF j < m THEN t[j] ELSE t[j + 1]
        BY <3>1, WithoutIt
      <3> HIDE DEF v, d
      <3>4. ASSUME NEW j \in 1 .. Len(s)
            PROVE  s[j] = v[j + (Len(v) - Len(s))]
        <4>1. /\ j + (Len(v) - Len(s)) = j + d - 1
              /\ j + d - 1 \in 1 .. Len(t) - 1 /\ ~(j + d - 1 < m)
              /\ (j + d - 1) + 1 = j + d
          BY <1>1, <3>2, <3>3
        <4>2. v[j + d - 1] = t[j + d]
          BY <3>3, <4>1
        <4> QED
          BY <1>1, <4>1, <4>2
      <3>5. Len(s) <= Len(v)
        BY <1>1, <3>2, <3>3
      <3> QED
        BY <2>1, <3>4, <3>5 DEF Ends, v
    <2> QED
      BY <2>2, <2>3
  <1> QED
    BY <1>2, <1>3

LEMMA EndsMoveToEnd ==
    ASSUME NEW S, NEW s \in Seq(S), NEW t \in Seq(S), Once(s), Once(t),
           Ends(s, t), NEW k \in S
    PROVE  Ends(MoveToEnd(s, k), MoveToEnd(t, k))
  <1> DEFINE u == Without(s, k)
             v == Without(t, k)
             p == Append(u, k)
             q == Append(v, k)
  <1>1. u \in Seq(S) /\ v \in Seq(S) /\ Ends(u, v)
    BY WithoutFacts, EndsWithout
  <1>2. p = MoveToEnd(s, k) /\ q = MoveToEnd(t, k)
    BY DEF MoveToEnd
  <1> HIDE DEF u, v
  <1>3. /\ Len(p) = Len(u) + 1 /\ p[Len(u) + 1] = k
        /\ \A i \in 1 .. Len(u) : p[i] = u[i]
        /\ Len(q) = Len(v) + 1 /\ q[Len(v) + 1] = k
        /\ \A i \in 1 .. Len(v) : q[i] = v[i]
    BY <1>1, AppendProperties
  <1> HIDE DEF p, q
  <1>4. /\ Len(u) \in Nat /\ Len(v) \in Nat /\ Len(u) <= Len(v)
        /\ \A i \in 1 .. Len(u) : u[i] = v[i + (Len(v) - Len(u))]
    BY <1>1, Members DEF Ends
  <1>5. ASSUME NEW i \in 1 .. Len(p)
        PROVE  p[i] = q[i + (Len(q) - Len(p))]
    <2>1. Len(q) - Len(p) = Len(v) - Len(u)
      BY <1>3, <1>4
    <2>2. CASE i = Len(u) + 1
      <3>1. i + (Len(v) - Len(u)) = Len(v) + 1
        BY <1>4, <2>2
      <3> QED
        BY <1>3, <2>1, <2>2, <3>1
    <2>3. CASE i # Len(u) + 1
      <3>1. i \in 1 .. Len(u) /\ i + (Len(v) - Len(u)) \in 1 .. Len(v)
        BY <1>3, <1>4, <2>3
      <3> QED
        BY <1>3, <1>4, <2>1, <3>1
    <2> QED
      BY <2>2, <2>3
  <1>6. Len(p) <= Len(q)
    BY <1>3, <1>4
  <1> QED
    BY <1>2, <1>5, <1>6 DEF Ends

LEMMA EndsTrim ==
    ASSUME NEW S, NEW s \in Seq(S), NEW t \in Seq(S), Once(s), Ends(s, t)
    PROVE  Ends(Trim(s), t)
  <1> DEFINE r == Trim(s)
  <1>1. /\ r \in Seq(S)
        /\ Len(r) = IF Len(s) > MaxSize THEN MaxSize ELSE Len(s)
        /\ \A i \in 1 .. Len(r) : r[i] = s[i + (Len(s) - Len(r))]
    BY TrimFacts
  <1> HIDE DEF r
  <1>2. /\ Len(r) \in Nat /\ Len(s) \in Nat /\ Len(t) \in Nat /\ Len(r) <= Len(s)
        /\ Len(s) <= Len(t)
        /\ \A i \in 1 .. Len(s) : s[i] = t[i + (Len(t) - Len(s))]
    BY <1>1, Members, CacheAssumption DEF Ends
  <1>3. ASSUME NEW i \in 1 .. Len(r)
        PROVE  r[i] = t[i + (Len(t) - Len(r))]
    <2>1. /\ i + (Len(s) - Len(r)) \in 1 .. Len(s)
          /\ (i + (Len(s) - Len(r))) + (Len(t) - Len(s)) = i + (Len(t) - Len(r))
      BY <1>2
    <2> QED
      BY <1>1, <1>2, <2>1
  <1> QED
    BY <1>2, <1>3 DEF Ends, r

-----------------------------------------------------------------------------
(* The order holds the cached keys, each once, and fits. *)
OrderOK(c) ==
    /\ c.order \in Seq(Keys) /\ Once(c.order)
    /\ Cached(c) = ToSet(c.order)
    /\ Len(c.order) <= MaxSize

(* What touched has to be for the order to be a suffix of it, and what the *)
(* clock readings have to be for an expired entry to be expired still.     *)
TouchedOK ==
    /\ touched \in Seq(Keys) /\ Once(touched)
    /\ Ends(cache.order, touched)

ReadBefore == \A t \in Threads : reading[t].now <= clock

OInv == IInv /\ OrderOK(cache) /\ TouchedOK /\ ReadBefore

LEMMA GetKeepsOrder ==
    ASSUME NEW c, c = [entry |-> c.entry, order |-> c.order],
           c.entry \in Entries, OrderOK(c), NEW k \in Keys, NEW n
    PROVE  /\ OrderOK(AfterGet(c, k, n))
           /\ Hit(c, k, n) => AfterGet(c, k, n).order = MoveToEnd(c.order, k)
           /\ ~Hit(c, k, n) /\ k \in Cached(c)
                 => AfterGet(c, k, n).order = Without(c.order, k)
           /\ ~Hit(c, k, n) /\ k \notin Cached(c) => AfterGet(c, k, n) = c
           /\ Hit(c, k, n) => AfterGet(c, k, n).entry = c.entry
           /\ \A j \in Keys \ {k} : AfterGet(c, k, n).entry[j] = c.entry[j]
  <1> DEFINE d == AfterGet(c, k, n)
  <1>0. DOMAIN c.entry = Keys
    BY DEF Entries
  <1>1. CASE Hit(c, k, n)
    <2>1. d = [entry |-> c.entry, order |-> MoveToEnd(c.order, k)]
      BY <1>1 DEF AfterGet
    <2>2. k \in ToSet(c.order)
      BY <1>1 DEF Hit, OrderOK
    <2>3. /\ MoveToEnd(c.order, k) \in Seq(Keys) /\ Once(MoveToEnd(c.order, k))
          /\ ToSet(MoveToEnd(c.order, k)) = ToSet(c.order) \cup {k}
          /\ Len(MoveToEnd(c.order, k)) = Len(c.order)
      BY <2>2, MoveToEndFacts DEF OrderOK
    <2> HIDE DEF d
    <2>4. Cached(d) = Cached(c)
      BY <2>1 DEF Cached
    <2>5. OrderOK(d)
      BY <2>1, <2>2, <2>3, <2>4 DEF OrderOK
    <2> QED
      BY <1>1, <2>1, <2>5 DEF d
  <1>2. CASE ~Hit(c, k, n) /\ k \in Cached(c)
    <2>1. d = [entry |-> [c.entry EXCEPT ![k] = Absent], order |-> Without(c.order, k)]
      BY <1>2 DEF AfterGet
    <2>2. k \in ToSet(c.order)
      BY <1>2 DEF OrderOK
    <2>3. /\ Without(c.order, k) \in Seq(Keys) /\ Once(Without(c.order, k))
          /\ ToSet(Without(c.order, k)) = ToSet(c.order) \ {k}
          /\ Len(Without(c.order, k)) = Len(c.order) - 1
      BY <2>2, WithoutFacts DEF OrderOK
    <2> HIDE DEF d
    <2>4. Cached(d) = Cached(c) \ {k}
      BY <1>0, <2>1 DEF Cached
    <2>5. Len(c.order) \in Nat /\ MaxSize \in Nat
      BY Members, CacheAssumption DEF OrderOK
    <2>6. OrderOK(d)
      <3>1. d.order = Without(c.order, k) /\ Cached(c) = ToSet(c.order)
            /\ Len(c.order) <= MaxSize
        BY <2>1 DEF OrderOK
      <3>2. Cached(d) = ToSet(d.order)
        BY <2>3, <2>4, <3>1
      <3>3. Len(d.order) <= MaxSize
        BY <2>3, <2>5, <3>1
      <3> QED
        BY <2>3, <3>1, <3>2, <3>3 DEF OrderOK
    <2>7. \A j \in Keys \ {k} : d.entry[j] = c.entry[j]
      BY <1>0, <2>1
    <2> QED
      BY <1>2, <2>1, <2>6, <2>7 DEF d
  <1>3. CASE ~Hit(c, k, n) /\ k \notin Cached(c)
    <2>1. d = c
      BY <1>3 DEF AfterGet
    <2> QED
      <3> HIDE DEF d
      <3>1. OrderOK(d) /\ \A j \in Keys \ {k} : d.entry[j] = c.entry[j]
        BY <2>1
      <3> QED
        BY <1>3, <2>1, <3>1 DEF d
  <1> QED
    BY <1>1, <1>2, <1>3

LEMMA SetKeepsOrder ==
    ASSUME NEW c, c.entry \in Entries, OrderOK(c), NEW k \in Keys,
           NEW v \in Values, NEW n \in Nat
    PROVE  LET d == AfterSet(c, k, v, n)
           IN  /\ OrderOK(d)
               /\ d.order = Trim(MoveToEnd(c.order, k))
               /\ \A j \in Cached(c) : j \notin Cached(d) => Len(d.order) = MaxSize
  <1> DEFINE o == MoveToEnd(c.order, k)
             e == [j \in DOMAIN c.entry |->
                       CASE j \in Evicted(o) -> Absent
                         [] j = k /\ j \notin Evicted(o) ->
                               [ts |-> n, value |-> v]
                         [] OTHER -> c.entry[j]]
             d == AfterSet(c, k, v, n)
  <1>1. d = [entry |-> e, order |-> Trim(o)]
    BY DEF AfterSet
  <1>2. DOMAIN c.entry = Keys
    BY DEF Entries
  <1>3. \A j \in Keys :
          /\ j \in Evicted(o) => e[j] = Absent
          /\ j = k /\ j \notin Evicted(o) => e[j] = [ts |-> n, value |-> v]
          /\ j # k /\ j \notin Evicted(o) => e[j] = c.entry[j]
    BY <1>2
  <1>4. DOMAIN e = Keys
    BY <1>2
  <1>5. [ts |-> n, value |-> v] # Absent
    BY AbsentAssumption
  <1>6. /\ o \in Seq(Keys) /\ Once(o) /\ ToSet(o) = ToSet(c.order) \cup {k}
        /\ Len(o) = IF k \in ToSet(c.order) THEN Len(c.order) ELSE Len(c.order) + 1
        /\ o[Len(o)] = k
    <2>1. c.order \in Seq(Keys) /\ Once(c.order)
      BY DEF OrderOK
    <2> QED
      BY <2>1, MoveToEndFacts
  <1> HIDE DEF e, o, d
  <1>7. Len(o) \in Nat /\ MaxSize \in Nat
    BY <1>6, Members, CacheAssumption
  <1>8. /\ Trim(o) \in Seq(Keys) /\ Once(Trim(o))
        /\ Len(Trim(o)) = IF Len(o) > MaxSize THEN MaxSize ELSE Len(o)
        /\ ToSet(Trim(o)) = ToSet(o) \ Evicted(o)
        /\ Len(o) <= MaxSize => Evicted(o) = {}
    BY <1>6, TrimFacts
  <1>9. Cached(d) = ToSet(Trim(o))
    <2>1. Cached(d) = {j \in Keys : e[j] # Absent}
      BY <1>1, <1>4 DEF Cached
    <2>2. \A j \in Keys : c.entry[j] # Absent <=> j \in ToSet(c.order)
      BY <1>2 DEF OrderOK, Cached
    <2>3. \A j \in Keys : e[j] # Absent <=> j \in ToSet(o) /\ j \notin Evicted(o)
      BY <1>3, <1>5, <1>6, <2>2
    <2>4. ToSet(o) \subseteq Keys
      BY <1>6, Members
    <2> QED
      BY <1>8, <2>1, <2>3, <2>4
  <1>10. Len(Trim(o)) <= MaxSize
    BY <1>7, <1>8
  <1>11. d.order = Trim(o)
    BY <1>1
  <1>12. OrderOK(d)
    BY <1>8, <1>9, <1>10, <1>11 DEF OrderOK
  <1>13. ASSUME NEW j \in Cached(c), j \notin Cached(d)
         PROVE  Len(d.order) = MaxSize
    <2>1. j \in ToSet(o)
      BY <1>6 DEF OrderOK
    <2>2. j \in Evicted(o)
      BY <1>8, <1>9, <1>13, <2>1
    <2> QED
      BY <1>7, <1>8, <1>11, <2>2
  <1> QED
    BY <1>11, <1>12, <1>13 DEF d, o

LEMMA InitOInv == Init => OInv
  <1> SUFFICES ASSUME Init PROVE OInv
    OBVIOUS
  <1>1. cache.order = << >> /\ touched = << >>
    BY DEF Init, EmptyCache
  <1>2. Cached(cache) = {}
    BY DEF Init, EmptyCache, Cached
  <1>3. /\ << >> \in Seq(Keys) /\ Len(<< >>) = 0 /\ DOMAIN << >> = 1 .. 0
    OBVIOUS
  <1>4. Once(<< >>) /\ ToSet(<< >>) = {}
    BY DEF Once, ToSet
  <1>5. Ends(<< >>, << >>)
    BY DEF Ends
  <1>6. OrderOK(cache) /\ TouchedOK
    BY <1>1, <1>2, <1>3, <1>4, <1>5, CacheAssumption DEF OrderOK, TouchedOK
  <1>7. ReadBefore
    BY DEF Init, ReadBefore, Idle
  <1> QED
    BY <1>6, <1>7, InitIInv DEF OInv

LEMMA OInductive == OInv /\ [Next]_vars => OInv'
  <1> SUFFICES ASSUME OInv, [Next]_vars PROVE OInv'
    OBVIOUS
  <1>1. IInv'
    BY Inductive DEF OInv
  <1>2. ASSUME NEW t \in Threads, EndGet(t)
        PROVE  OrderOK(cache)' /\ TouchedOK' /\ ReadBefore'
    <2> DEFINE k == reading[t].key
               n == reading[t].now
    <2>1. k \in Keys
      BY <1>2 DEF EndGet, OInv, IInv, Types, Readings
    <2>2. cache' = AfterGet(cache, k, n)
      BY <1>2 DEF EndGet
    <2>3. touched' = CASE Hit(cache, k, n) -> MoveToEnd(touched, k)
                       [] ~Hit(cache, k, n) /\ k \in Cached(cache) -> Without(touched, k)
                       [] ~Hit(cache, k, n) /\ k \notin Cached(cache) -> touched
      BY <1>2 DEF EndGet
    <2>4. ReadBefore'
      BY <1>2 DEF EndGet, OInv, IInv, Types, Readings, ReadBefore, Idle
    <2> HIDE DEF k, n
    <2>5. /\ OrderOK(cache')
          /\ Hit(cache, k, n) => cache'.order = MoveToEnd(cache.order, k)
          /\ ~Hit(cache, k, n) /\ k \in Cached(cache)
                => cache'.order = Without(cache.order, k)
          /\ ~Hit(cache, k, n) /\ k \notin Cached(cache) => cache' = cache
      BY <2>1, <2>2, GetKeepsOrder DEF OInv, IInv, Types
    <2>6. OrderOK(cache)'
      BY <2>5 DEF OrderOK, Cached
    <2>7. /\ cache.order \in Seq(Keys) /\ Once(cache.order)
          /\ touched \in Seq(Keys) /\ Once(touched) /\ Ends(cache.order, touched)
      BY DEF OInv, OrderOK, TouchedOK
    <2>8. CASE Hit(cache, k, n)
      <3>1. Ends(MoveToEnd(cache.order, k), MoveToEnd(touched, k))
        BY <2>1, <2>7, EndsMoveToEnd
      <3>2. MoveToEnd(touched, k) \in Seq(Keys) /\ Once(MoveToEnd(touched, k))
        BY <2>1, <2>7, MoveToEndFacts
      <3>3. touched' = MoveToEnd(touched, k) /\ cache'.order = MoveToEnd(cache.order, k)
        BY <2>3, <2>5, <2>8
      <3>4. TouchedOK'
        BY <3>1, <3>2, <3>3 DEF TouchedOK, Once, Ends
      <3> QED
        BY <2>4, <2>6, <3>4
    <2>9. CASE ~Hit(cache, k, n) /\ k \in Cached(cache)
      <3>1. Ends(Without(cache.order, k), Without(touched, k))
        BY <2>1, <2>7, EndsWithout
      <3>2. Without(touched, k) \in Seq(Keys) /\ Once(Without(touched, k))
        BY <2>1, <2>7, WithoutFacts
      <3>3. touched' = Without(touched, k) /\ cache'.order = Without(cache.order, k)
        BY <2>3, <2>5, <2>9
      <3>4. TouchedOK'
        BY <3>1, <3>2, <3>3 DEF TouchedOK, Once, Ends
      <3> QED
        BY <2>4, <2>6, <3>4
    <2>10. CASE ~Hit(cache, k, n) /\ k \notin Cached(cache)
      <3>1. touched' = touched /\ cache' = cache
        BY <2>3, <2>5, <2>10
      <3>2. TouchedOK'
        BY <3>1, <2>7 DEF TouchedOK, Once, Ends
      <3> QED
        BY <2>4, <2>6, <3>2
    <2> QED
      BY <2>8, <2>9, <2>10
  <1>3. ASSUME NEW t \in Threads, NEW k \in Keys, NEW v \in Values, Set(t, k, v)
        PROVE  OrderOK(cache)' /\ TouchedOK' /\ ReadBefore'
    <2>1. cache' = AfterSet(cache, k, v, clock) /\ touched' = MoveToEnd(touched, k)
      BY <1>3 DEF Set
    <2>2. OrderOK(cache') /\ cache'.order = Trim(MoveToEnd(cache.order, k))
      BY <2>1, SetKeepsOrder DEF OInv, IInv, Types
    <2>3. OrderOK(cache)'
      BY <2>2 DEF OrderOK, Cached
    <2>4. /\ cache.order \in Seq(Keys) /\ Once(cache.order)
          /\ touched \in Seq(Keys) /\ Once(touched) /\ Ends(cache.order, touched)
      BY DEF OInv, OrderOK, TouchedOK
    <2>5. /\ MoveToEnd(touched, k) \in Seq(Keys) /\ Once(MoveToEnd(touched, k))
      BY <2>4, MoveToEndFacts
    <2>6. /\ MoveToEnd(cache.order, k) \in Seq(Keys) /\ Once(MoveToEnd(cache.order, k))
      BY <2>4, MoveToEndFacts
    <2>7. Ends(MoveToEnd(cache.order, k), MoveToEnd(touched, k))
      BY <2>4, EndsMoveToEnd
    <2>8. Ends(Trim(MoveToEnd(cache.order, k)), MoveToEnd(touched, k))
      BY <2>5, <2>6, <2>7, EndsTrim
    <2>9. TouchedOK'
      BY <2>1, <2>2, <2>5, <2>8 DEF TouchedOK, Once, Ends
    <2>10. ReadBefore'
      BY <1>3 DEF Set, OInv, ReadBefore
    <2> QED
      BY <2>3, <2>9, <2>10
  <1>4. ASSUME NEW t \in Threads, NEW k \in Keys, BeginGet(t, k)
        PROVE  OrderOK(cache)' /\ TouchedOK' /\ ReadBefore'
    <2>1. cache' = cache /\ touched' = touched /\ clock' = clock
      BY <1>4 DEF BeginGet
    <2>2. ReadBefore'
      BY <1>4 DEF BeginGet, OInv, IInv, Types, ReadBefore
    <2> QED
      BY <2>1, <2>2 DEF OInv, OrderOK, TouchedOK, Once, Ends, Cached
  <1>5. CASE Tick
    <2>1. cache' = cache /\ touched' = touched /\ reading' = reading /\ clock' = clock + 1
      BY <1>5 DEF Tick
    <2>2. ReadBefore'
      BY <2>1 DEF OInv, IInv, Types, Readings, ReadBefore, Idle
    <2> QED
      BY <1>1, <2>1, <2>2 DEF OInv, OrderOK, TouchedOK, Once, Ends, Cached
  <1>6. CASE UNCHANGED vars
    BY <1>1, <1>6 DEF vars, OInv, OrderOK, TouchedOK, ReadBefore, Once, Ends, Cached
  <1> QED
    BY <1>1, <1>2, <1>3, <1>4, <1>5, <1>6 DEF Next, Finished, OInv

LEMMA OAlways == Spec => []OInv
  BY InitOInv, OInductive, PTL DEF Spec

-----------------------------------------------------------------------------
(* The dict and its order are one thing and never exceed max_size, with    *)
(* any number of threads (cache.py:55-87).                                 *)
THEOREM AlwaysInShape == Spec => []Shape
  <1>1. OInv => Shape
    <2> SUFFICES ASSUME OInv PROVE Shape
      OBVIOUS
    <2>1. /\ cache.order \in Seq(Keys) /\ Once(cache.order)
          /\ Cached(cache) = ToSet(cache.order) /\ Len(cache.order) <= MaxSize
      BY DEF OInv, OrderOK
    <2>2. Cardinality(ToSet(cache.order)) = Len(cache.order)
      BY <2>1, Counted
    <2>3. ToSet(cache.order) = {cache.order[i] : i \in DOMAIN cache.order}
      BY DEF ToSet
    <2> QED
      BY <2>1, <2>2, <2>3 DEF Shape
  <1> QED
    BY <1>1, OAlways, PTL

(* An eviction never takes a key and spares one that was touched before    *)
(* it: the order is a suffix of the order of touching (cache.py:78, 85-87).*)
THEOREM AlwaysForgetsOldest == Spec => []ForgetsOldest
  <1>1. OInv => ForgetsOldest
    BY EndsIsSuffix DEF OInv, OrderOK, TouchedOK, ForgetsOldest
  <1> QED
    BY <1>1, OAlways, PTL

(* An entry goes only when it is older than the TTL, by the clock at that  *)
(* moment, or when max_size keys are cached (cache.py:74-76, 86).          *)
THEOREM NothingForgottenEarly == Spec => KeepsWhatFits
  <1> DEFINE Fits == \A k \in Cached(cache) :
                        k \notin Cached(cache') =>
                            \/ clock - cache.entry[k].ts > TTL
                            \/ Cardinality(Cached(cache')) = MaxSize
  <1>1. ASSUME OInv, OInv', [Next]_vars PROVE [Fits]_vars
    <2>1. ASSUME NEW t \in Threads, EndGet(t) PROVE Fits
      <3> DEFINE k == reading[t].key
                 n == reading[t].now
      <3>1. k \in Keys /\ n \in Nat /\ n <= clock /\ clock \in Nat
        BY <1>1, <2>1 DEF EndGet, OInv, IInv, Types, Readings, ReadBefore
      <3>2. cache' = AfterGet(cache, k, n)
        BY <2>1 DEF EndGet
      <3> HIDE DEF k, n
      <3>3. /\ Hit(cache, k, n) => cache'.entry = cache.entry
            /\ ~Hit(cache, k, n) /\ k \notin Cached(cache) => cache' = cache
            /\ \A j \in Keys \ {k} : cache'.entry[j] = cache.entry[j]
        BY <1>1, <3>1, <3>2, GetKeepsOrder DEF OInv, IInv, Types
      <3>4. DOMAIN cache.entry = Keys /\ DOMAIN cache'.entry = Keys
        BY <1>1 DEF OInv, IInv, Types, Entries
      <3>5. ASSUME NEW j \in Cached(cache), j \notin Cached(cache')
            PROVE  clock - cache.entry[j].ts > TTL
        <4>1. j \in Keys /\ cache.entry[j] # Absent /\ cache'.entry[j] = Absent
          BY <3>4, <3>5 DEF Cached
        <4>2. j = k
          BY <3>3, <4>1
        <4>3. ~Hit(cache, k, n) /\ k \in Cached(cache)
          BY <3>3, <3>5, <4>1, <4>2
        <4>4. n - cache.entry[j].ts > TTL
          BY <4>2, <4>3 DEF Hit, Expired
        <4>5. cache.entry[j].ts \in Nat /\ TTL \in Nat
          BY <1>1, <4>1, CacheAssumption DEF OInv, IInv, Types, Entries
        <4> QED
          BY <3>1, <4>4, <4>5
      <3> QED
        BY <3>5
    <2>2. ASSUME NEW t \in Threads, NEW k \in Keys, NEW v \in Values, Set(t, k, v)
          PROVE  Fits
      <3>1. cache' = AfterSet(cache, k, v, clock)
        BY <2>2 DEF Set
      <3>2. \A j \in Cached(cache) : j \notin Cached(cache') => Len(cache'.order) = MaxSize
        BY <1>1, <3>1, SetKeepsOrder DEF OInv, IInv, Types
      <3>3. /\ cache'.order \in Seq(Keys) /\ Once(cache'.order)
            /\ Cached(cache') = ToSet(cache'.order)
        BY <1>1 DEF OInv, OrderOK, Once, Cached
      <3>4. Cardinality(ToSet(cache'.order)) = Len(cache'.order)
        BY <3>3, Counted
      <3> QED
        BY <3>2, <3>3, <3>4
    <2>3. ASSUME cache' = cache PROVE Fits
      BY <2>3
    <2> HIDE DEF Fits
    <2> QED
      BY <1>1, <2>1, <2>2, <2>3 DEF Next, Finished, BeginGet, Tick, vars
  <1> QED
    BY <1>1, OAlways, PTL DEF Spec, KeepsWhatFits
=============================================================================
