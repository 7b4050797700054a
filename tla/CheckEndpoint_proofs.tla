------------------------- MODULE CheckEndpoint_proofs -------------------------
(***************************************************************************)
(* Proofs about GuardCheck, alone and as a part of CheckEndpoint, and      *)
(* about CheckEndpoint, for any threads, pipelines, requests, cache size,  *)
(* clients and limits, and without regard to the bounds.                   *)
(***************************************************************************)
EXTENDS CheckEndpoint, FiniteSetTheorems, SequenceTheorems, WellFoundedInduction,
        TLAPS

(* The bypass conditions look at no state field outside the cache key's    *)
(* signature: what the comment at cache.py:20-22 asks of the code.         *)
BypassInSignature == \A g \in Guards : DOMAIN g.when \subseteq SigFields

(* A running check has a request; one that runs the layers has come to its *)
(* layer with a deferral from each layer before it; what it is about to    *)
(* store it has not got from the cache.                                    *)
Running ==
    \A w \in Workers :
        /\ pc[w] # "idle" => req[w] \in Requests
        /\ pc[w] \in {"set", "metrics", "log"} => res[w] \in Results
        /\ pc[w] = "set" => ~res[w].hit
        /\ pc[w] \in {"idle", "get"} => at[w] = 1
        /\ pc[w] = "layers" => /\ at[w] <= Len(guard.pipeline) + 1
                               /\ Reached(guard, at[w], req[w])

(* The stamp of an entry is the moment of the last set() of its key. *)
Stamped ==
    \A k \in Keys :
        cache.entry[k] # Absent => /\ cache.entry[k].ts = storedAt[k]
                                  /\ cache.entry[k].ts <= clock

(* What holds without any assumption about the layers. *)
GuardBase == TypeOK /\ Running /\ Stamped

(* Whatever is cached under a key is right for every request of that key.  *)
CacheSound ==
    \A r \in Requests :
        cache.entry[Key(r)] # Absent
            => VerdictOK(guard, cache.entry[Key(r)].value, r)

GuardInv == GuardBase /\ CacheSound /\ VerdictSound

-----------------------------------------------------------------------------
(* Two requests with one cache key cannot be told apart by any layer. *)
LEMMA KeyDeterminesOutcomes ==
    ASSUME StripInsensitive, BypassInSignature, NEW g \in Guards, NEW l,
           NEW r \in Requests, NEW s \in Requests, Key(r) = Key(s)
    PROVE  Outcomes(g, l, r) = Outcomes(g, l, s)
  <1>1. /\ Strip[r.msg] = Strip[s.msg]
        /\ StateSignature(r.state) = StateSignature(s.state)
    BY DEF Key
  <1>2. r.msg \in Messages /\ s.msg \in Messages
    BY DEF Requests
  <1>3. /\ r.msg \in BlockHits <=> s.msg \in BlockHits
        /\ r.msg \in AllowHits <=> s.msg \in AllowHits
        /\ DomainSim[r.msg] = DomainSim[s.msg]
        /\ OodSim[r.msg] = OodSim[s.msg]
    BY <1>1, <1>2 DEF StripInsensitive
  <1>4. BypassVerdict(g.when, r.state) = BypassVerdict(g.when, s.state)
    <2>1. r.state = None <=> s.state = None
      <3>1. /\ r.state \in States \cup {None}
            /\ s.state \in States \cup {None}
        BY DEF Requests
      <3>2. StateSignature(None) = None
        BY DEF StateSignature
      <3> QED
        BY <1>1, <3>1, <3>2, SignatureAssumption
    <2>2. ASSUME r.state # None, NEW f \in SigFields
          PROVE  Lookup(r.state, f) = Lookup(s.state, f)
      <3>1. /\ StateSignature(r.state)[f] = Lookup(r.state, f)
            /\ StateSignature(s.state)[f] = Lookup(s.state, f)
        BY <2>1, <2>2 DEF StateSignature
      <3> QED
        BY <1>1, <3>1
    <2>3. ASSUME r.state # None
          PROVE  \A f \in DOMAIN g.when :
                     Matches(Lookup(r.state, f), g.when[f])
                         <=> Matches(Lookup(s.state, f), g.when[f])
      BY <2>2, <2>3 DEF BypassInSignature
    <2> QED
      BY <2>1, <2>3 DEF BypassVerdict
  <1>5. RuleVerdict(r.msg) = RuleVerdict(s.msg)
    BY <1>3 DEF RuleVerdict
  <1> QED
    BY <1>3, <1>4, <1>5 DEF Outcomes

(* A verdict that is right for a request is right for any other request    *)
(* with the same key.                                                      *)
LEMMA KeyDeterminesVerdict ==
    ASSUME StripInsensitive, BypassInSignature, NEW g \in Guards, NEW x,
           NEW r \in Requests, NEW s \in Requests, Key(r) = Key(s),
           VerdictOK(g, x, r)
    PROVE  VerdictOK(g, x, s)
  <1>1. \A i : Answers(g, i, r) = Answers(g, i, s)
    BY KeyDeterminesOutcomes DEF Answers
  <1>2. \A i : Reached(g, i, r) = Reached(g, i, s)
    BY <1>1 DEF Reached
  <1> QED
    BY <1>1, <1>2 DEF VerdictOK, Decided, Undecided

(* A verdict does not depend on whether it is served as a hit. *)
LEMMA ServedVerdict ==
    ASSUME NEW x \in Results, NEW g, NEW r
    PROVE  /\ Served(x) \in Results
           /\ VerdictOK(g, x, r) => VerdictOK(g, Served(x), r)
  <1>1. /\ Served(x) \in Results
        /\ Served(x).passed = x.passed /\ Served(x).layer = x.layer
        /\ Served(x).shadow = x.shadow /\ Served(x).fallback = x.fallback
    BY DEF Served, Results
  <1> QED
    BY <1>1 DEF VerdictOK, Decided, Undecided

(* The results the pipeline builds are right when it has come to them. *)
LEMMA PipelineVerdict ==
    ASSUME NEW g \in Guards, NEW r \in Requests, NEW i \in Nat \ {0},
           i <= Len(g.pipeline) + 1, Reached(g, i, r)
    PROVE  /\ \A v \in {"pass", "block"} :
                i <= Len(g.pipeline) /\ v \in Answers(g, i, r) =>
                  LET x == Result(g, v = "pass", g.pipeline[i], r)
                  IN  x \in Results /\ VerdictOK(g, x, r)
           /\ i > Len(g.pipeline) =>
                AllDeferred(r) \in Results /\ VerdictOK(g, AllDeferred(r), r)
  <1>1. /\ g.pipeline \in Seq(LayerTypes)
        /\ g.mode \in {"enforce", "shadow"}
    BY GuardsAssumption
  <1>2. ASSUME NEW v \in {"pass", "block"}, i <= Len(g.pipeline),
               v \in Answers(g, i, r)
        PROVE  /\ Result(g, v = "pass", g.pipeline[i], r) \in Results
               /\ VerdictOK(g, Result(g, v = "pass", g.pipeline[i], r), r)
    <2>1. i \in DOMAIN g.pipeline /\ g.pipeline[i] \in LayerTypes
      BY <1>1, <1>2
    <2> DEFINE x == Result(g, v = "pass", g.pipeline[i], r)
    <2>2. x \in Results
      BY <2>1 DEF Result, Results
    <2>3. /\ x.layer = g.pipeline[i]
          /\ x.passed <=> (v = "pass" \/ g.mode = "shadow")
          /\ x.shadow <=> (v = "block" /\ g.mode = "shadow")
          /\ x.fallback <=> ~x.passed
      BY <1>2 DEF Result
    <2> QED
      BY <1>2, <2>1, <2>2, <2>3 DEF VerdictOK, Decided
  <1>3. ASSUME i > Len(g.pipeline)
        PROVE  AllDeferred(r) \in Results /\ VerdictOK(g, AllDeferred(r), r)
    <2>1. i = Len(g.pipeline) + 1
      BY <1>1, <1>3
    <2>2. AllDeferred(r) \in Results
      BY DEF AllDeferred, Results
    <2> QED
      BY <2>1, <2>2 DEF AllDeferred, VerdictOK, Undecided
  <1> QED
    BY <1>2, <1>3

-----------------------------------------------------------------------------
(* Induction, as a fact about sets of numbers: a non-empty one has a least *)
(* element, because the intervals 1 .. n are well-founded by inclusion.    *)
LEMMA LeastNumber ==
    ASSUME NEW T \in SUBSET Nat, T # {}
    PROVE  \E m \in T : \A n \in T : m <= n
  <1> DEFINE Up(n) == 1 .. n
             F == {Up(n) : n \in T}
             R == StrictSubsetOrdering(Nat)
             D == FiniteSubsetsOf(Nat)
  <1>1. IsWellFoundedOn(R, D)
    BY FS_StrictSubsetOrderingWellFounded
  <1>2. \A n \in T : Up(n) \in SUBSET Nat /\ IsFiniteSet(Up(n))
    BY FS_Interval
  <1>3. F \subseteq D /\ F # {}
    BY <1>2 DEF FiniteSubsetsOf
  <1> HIDE DEF R, D, F
  <1>4. PICK x \in F : \A y \in F : ~ (<<y, x>> \in R)
    BY <1>1, <1>3, WFMin
  <1>5. PICK m \in T : x = Up(m)
    BY <1>4 DEF F
  <1>6. \A n \in T : m <= n
    <2> SUFFICES ASSUME NEW n \in T, n < m PROVE FALSE
      OBVIOUS
    <2>1. m \in Up(m) /\ m \notin Up(n)
      OBVIOUS
    <2>2. Up(n) \subseteq Up(m) /\ Up(n) # Up(m)
      BY <2>1
    <2>3. Up(n) \in F
      BY DEF F
    <2>4. <<Up(n), Up(m)>> \in R
      BY <2>2, <1>2 DEF R, StrictSubsetOrdering
    <2> QED
      BY <2>3, <2>4, <1>4, <1>5
  <1> QED
    BY <1>6

(* An entry taken out of a sequence leaves a sequence. *)
LEMMA EntryRemoved ==
    ASSUME NEW S, NEW s \in Seq(S), NEW i \in 1 .. Len(s)
    PROVE  RemoveAt(s, i) \in Seq(S)
  <1>1. Len(s) \in Nat /\ \A j \in 1 .. Len(s) : s[j] \in S
    OBVIOUS
  <1> DEFINE front == SubSeq(s, 1, i - 1)
             back == SubSeq(s, i + 1, Len(s))
  <1>2. front \in Seq(S) /\ back \in Seq(S)
    BY <1>1, SubSeqProperties
  <1>3. RemoveAt(s, i) = front \o back
    BY DEF RemoveAt
  <1> HIDE DEF front, back
  <1> QED
    BY <1>2, <1>3, ConcatProperties

(* What the three helpers of the cache's order return are sequences of     *)
(* keys.                                                                   *)
LEMMA WithoutType ==
    ASSUME NEW S, NEW s \in Seq(S), NEW k
    PROVE  Without(s, k) \in Seq(S)
  <1> DEFINE T == {j \in 1 .. Len(s) : s[j] = k}
  <1>1. Len(s) \in Nat
    OBVIOUS
  <1>2. CASE T = {}
    <2>1. \A i \in 1 .. Len(s) : s[i] # k
      BY <1>2
    <2>2. Without(s, k) = s
      BY <2>1 DEF Without, RemoveFirst
    <2> QED
      BY <2>2
  <1>3. CASE T # {}
    <2>1. SelectInSeq(s, LAMBDA v : v = k) = Min(T)
      BY <1>3 DEF SelectInSeq
    <2>2. Without(s, k) = RemoveAt(s, SelectInSeq(s, LAMBDA v : v = k))
      BY <1>3 DEF Without, RemoveFirst
    <2>3. Without(s, k) = RemoveAt(s, Min(T))
      BY <2>1, <2>2
    <2>4. T \in SUBSET Nat /\ T \subseteq 1 .. Len(s)
      BY <1>1
    <2>5. \E m \in T : \A n \in T : m <= n
      <3> HIDE DEF T
      <3> QED
        BY <1>3, <2>4, LeastNumber
    <2>6. Min(T) \in T
      <3> HIDE DEF T
      <3>1. Min(T) = CHOOSE x \in T : \A y \in T : x <= y
        BY DEF Min
      <3> QED
        BY <2>5, <3>1
    <2>7. Min(T) \in 1 .. Len(s)
      BY <2>4, <2>6
    <2> HIDE DEF T
    <2> QED
      BY <2>3, <2>7, EntryRemoved
  <1> QED
    BY <1>2, <1>3

LEMMA MoveToEndType ==
    ASSUME NEW S, NEW s \in Seq(S), NEW k \in S
    PROVE  MoveToEnd(s, k) \in Seq(S)
  <1>1. Without(s, k) \in Seq(S)
    BY WithoutType
  <1>2. MoveToEnd(s, k) = Append(Without(s, k), k)
    BY DEF MoveToEnd
  <1> QED
    BY <1>1, <1>2, AppendProperties

LEMMA TrimType ==
    ASSUME NEW S, NEW s \in Seq(S)
    PROVE  Trim(s) \in Seq(S)
  <1>1. Len(s) \in Nat /\ MaxSize \in Nat /\ \A j \in 1 .. Len(s) : s[j] \in S
    BY CacheAssumption
  <1> DEFINE n == Excess(s) + 1
  <1>2. n \in 1 .. Len(s) + 1
    BY <1>1 DEF Excess
  <1>3. \A j \in n .. Len(s) : s[j] \in S
    BY <1>1, <1>2
  <1>4. SubSeq(s, n, Len(s)) \in Seq(S)
    <2> HIDE DEF n
    <2> QED
      BY <1>1, <1>2, <1>3, SubSeqProperties
  <1> QED
    BY <1>4 DEF Trim

-----------------------------------------------------------------------------
Entries == [Keys -> {Absent} \cup [ts : Nat, value : Results]]

(* get() changes no entry; it may delete one. *)
LEMMA GetKeepsEntries ==
    ASSUME NEW c, c = [entry |-> c.entry, order |-> c.order],
           c.entry \in Entries, c.order \in Seq(Keys), NEW k \in Keys, NEW n
    PROVE  LET d == AfterGet(c, k, n)
           IN  /\ d = [entry |-> d.entry, order |-> d.order]
               /\ d.entry \in Entries
               /\ d.order \in Seq(Keys)
               /\ \A j \in Keys : d.entry[j] \in {c.entry[j], Absent}
  <1>1. CASE Hit(c, k, n)
    <2>1. AfterGet(c, k, n) = [entry |-> c.entry, order |-> MoveToEnd(c.order, k)]
      BY <1>1 DEF AfterGet
    <2>2. MoveToEnd(c.order, k) \in Seq(Keys)
      BY MoveToEndType
    <2> QED
      BY <2>1, <2>2
  <1>2. CASE ~Hit(c, k, n) /\ k \in Cached(c)
    <2>1. AfterGet(c, k, n) = [entry |-> [c.entry EXCEPT ![k] = Absent],
                               order |-> Without(c.order, k)]
      BY <1>2 DEF AfterGet
    <2>2. Without(c.order, k) \in Seq(Keys)
      BY WithoutType
    <2> QED
      BY <2>1, <2>2 DEF Entries
  <1>3. CASE ~Hit(c, k, n) /\ k \notin Cached(c)
    <2>1. AfterGet(c, k, n) = c
      BY <1>3 DEF AfterGet
    <2> QED
      BY <2>1
  <1> QED
    BY <1>1, <1>2, <1>3

(* set() writes its own key; it may delete other entries, or the one it    *)
(* has just written.                                                       *)
LEMMA SetWritesOneEntry ==
    ASSUME NEW c, c.entry \in Entries, c.order \in Seq(Keys), NEW k \in Keys,
           NEW v \in Results, NEW n \in Nat
    PROVE  LET d == AfterSet(c, k, v, n)
           IN  /\ d = [entry |-> d.entry, order |-> d.order]
               /\ d.entry \in Entries
               /\ d.order \in Seq(Keys)
               /\ \A j \in Keys :
                     d.entry[j] \in IF j = k
                                    THEN {[ts |-> n, value |-> v], Absent}
                                    ELSE {c.entry[j], Absent}
  <1> DEFINE o == MoveToEnd(c.order, k)
             e == [j \in DOMAIN c.entry |->
                       CASE j \in Evicted(o) -> Absent
                         [] j = k /\ j \notin Evicted(o) ->
                               [ts |-> n, value |-> v]
                         [] OTHER -> c.entry[j]]
  <1>1. AfterSet(c, k, v, n) = [entry |-> e, order |-> Trim(o)]
    BY DEF AfterSet
  <1>2. DOMAIN c.entry = Keys
    BY DEF Entries
  <1>3. \A j \in Keys :
          /\ j \in Evicted(o) => e[j] = Absent
          /\ j = k /\ j \notin Evicted(o) => e[j] = [ts |-> n, value |-> v]
          /\ j # k /\ j \notin Evicted(o) => e[j] = c.entry[j]
    BY <1>2
  <1>4. e = [j \in Keys |-> e[j]]
    BY <1>2
  <1>5. Trim(o) \in Seq(Keys)
    BY MoveToEndType, TrimType
  <1> HIDE DEF e
  <1>6. e \in Entries
    BY <1>3, <1>4 DEF Entries
  <1>7. \A j \in Keys :
          e[j] \in IF j = k THEN {[ts |-> n, value |-> v], Absent}
                            ELSE {c.entry[j], Absent}
    BY <1>3
  <1> DEFINE d == AfterSet(c, k, v, n)
  <1>8. d.entry = e /\ d.order = Trim(o) /\ d = [entry |-> d.entry, order |-> d.order]
    BY <1>1
  <1> HIDE DEF d, o
  <1> QED
    BY <1>5, <1>6, <1>7, <1>8 DEF d

(* A verdict of the pipeline, or the lack of one, is no hit. *)
LEMMA FreshVerdict ==
    \A g, p, l, r : ~Result(g, p, l, r).hit /\ ~AllDeferred(r).hit
  BY DEF Result, AllDeferred

(* It ends a check's loop. *)
LEMMA ConcludeBase ==
    ASSUME GuardBase, NEW w \in Workers, pc[w] = "layers",
           NEW x \in Results, ~x.hit, Conclude(w, x)
    PROVE  GuardBase'
  <1>1. TypeOK'
    BY DEF Conclude, GuardBase, TypeOK, ValueTypes
  <1>2. Running'
    BY DEF Conclude, GuardBase, TypeOK, ValueTypes, Running
  <1>3. Stamped'
    BY DEF Conclude, GuardBase, Stamped
  <1> QED
    BY <1>1, <1>2, <1>3 DEF GuardBase

(* A guard object just built, in a process that has just started. *)
Started ==
    /\ guard \in Guards /\ clock \in Nat
    /\ cache = EmptyCache(Keys)
    /\ hits = 0 /\ misses = 0 /\ begun = 0 /\ raised = 0
    /\ checks = [hit \in BOOLEAN |-> 0]
    /\ log = <<>>
    /\ pc = [w \in Workers |-> "idle"]
    /\ req = NoCall /\ res = NoCall
    /\ now = [w \in Workers |-> 0] /\ at = [w \in Workers |-> 1]
    /\ storedAt = [k \in Keys |-> None]

LEMMA InitStarted == Init => Started
  BY DEF Init, Started

LEMMA StartedBase == Started => GuardBase
  <1> SUFFICES ASSUME Started PROVE GuardBase
    OBVIOUS
  <1>1. ValueTypes
    <2>1. /\ cache = [entry |-> cache.entry, order |-> cache.order]
          /\ cache.entry \in Entries
      BY DEF Started, EmptyCache, Entries
    <2>2. log \in Seq([key : Keys, passed : BOOLEAN, hit : BOOLEAN])
      BY DEF Started
    <2>3. Len(log) <= LogSize
      BY LogAssumption DEF Started
    <2> QED
      BY <2>1, <2>2, <2>3 DEF Started, ValueTypes, NoCall, Entries
  <1>2. cache.order \in Seq(Keys) /\ \A k \in Keys : cache.entry[k] = Absent
    BY DEF Started, EmptyCache
  <1>3. Running
    BY DEF Started, Running
  <1> QED
    BY <1>1, <1>2, <1>3 DEF GuardBase, TypeOK, Stamped

LEMMA BeginBase ==
    ASSUME GuardBase, NEW w \in Workers, NEW r \in Calls, Begin(w, r)
    PROVE  GuardBase'
  <1>1. r \in Requests
    BY CallsAssumption
  <1>2. TypeOK'
    BY <1>1 DEF Begin, GuardBase, TypeOK, ValueTypes
  <1>3. Running'
    <2> SUFFICES ASSUME NEW v \in Workers
                 PROVE  /\ pc'[v] # "idle" => req'[v] \in Requests
                        /\ pc'[v] \in {"set", "metrics", "log"}
                             => res'[v] \in Results
                        /\ pc'[v] = "set" => ~res'[v].hit
                        /\ pc'[v] \in {"idle", "get"} => at'[v] = 1
                        /\ pc'[v] = "layers" =>
                             /\ at'[v] <= Len(guard'.pipeline) + 1
                             /\ Reached(guard', at'[v], req'[v])
      BY DEF Running
    <2>1. CASE v # w
      BY <2>1 DEF Begin, GuardBase, TypeOK, ValueTypes, Running
    <2>2. CASE v = w
      <3>1. at[w] = 1 /\ Len(guard.pipeline) \in Nat
        BY GuardsAssumption DEF Begin, GuardBase, TypeOK, ValueTypes, Running
      <3>2. Reached(guard, 1, r)
        BY DEF Reached
      <3> QED
        BY <1>1, <2>2, <3>1, <3>2 DEF Begin, GuardBase, TypeOK, ValueTypes
    <2> QED
      BY <2>1, <2>2
  <1>4. Stamped'
    BY DEF Begin, GuardBase, Stamped
  <1> QED
    BY <1>2, <1>3, <1>4 DEF GuardBase

LEMMA CacheHitBase ==
    ASSUME GuardBase, NEW w \in Workers, CacheHit(w)
    PROVE  GuardBase'
  <1> DEFINE k == Key(req[w])
             x == cache.entry[k].value
  <1>1. req[w] \in Requests /\ k \in Keys
    BY DEF CacheHit, GuardBase, Running, Keys
  <1>2. cache.entry[k] # Absent
    BY DEF CacheHit, Hit, Cached
  <1>3. x \in Results
    BY <1>1, <1>2 DEF GuardBase, TypeOK, ValueTypes
  <1>4. Served(x) \in Results
    BY <1>3, ServedVerdict
  <1>5. /\ cache' = [entry |-> cache'.entry, order |-> cache'.order]
        /\ cache'.entry \in Entries
        /\ cache'.order \in Seq(Keys)
        /\ \A j \in Keys : cache'.entry[j] \in {cache.entry[j], Absent}
    BY <1>1, GetKeepsEntries DEF CacheHit, GuardBase, TypeOK, ValueTypes, Entries
  <1> HIDE DEF x, k
  <1>6. res' = [res EXCEPT ![w] = Served(x)]
    BY DEF CacheHit, x, k
  <1>7. TypeOK'
    BY <1>4, <1>5, <1>6 DEF CacheHit, GuardBase, TypeOK, ValueTypes, Entries
  <1>8. Running'
    BY <1>1, <1>4, <1>6 DEF CacheHit, GuardBase, TypeOK, ValueTypes, Running
  <1>9. Stamped'
    BY <1>5 DEF CacheHit, GuardBase, Stamped
  <1> QED
    BY <1>7, <1>8, <1>9 DEF GuardBase

LEMMA CacheMissBase ==
    ASSUME GuardBase, NEW w \in Workers, CacheMiss(w)
    PROVE  GuardBase'
  <1>1. req[w] \in Requests /\ Key(req[w]) \in Keys
    BY DEF CacheMiss, GuardBase, Running, Keys
  <1>2. /\ cache' = [entry |-> cache'.entry, order |-> cache'.order]
        /\ cache'.entry \in Entries
        /\ cache'.order \in Seq(Keys)
        /\ \A j \in Keys : cache'.entry[j] \in {cache.entry[j], Absent}
    BY <1>1, GetKeepsEntries DEF CacheMiss, GuardBase, TypeOK, ValueTypes, Entries
  <1>3. TypeOK'
    BY <1>2 DEF CacheMiss, GuardBase, TypeOK, ValueTypes, Entries
  <1>4. at[w] = 1 /\ Len(guard.pipeline) \in Nat /\ Reached(guard, 1, req[w])
    BY GuardsAssumption DEF CacheMiss, GuardBase, TypeOK, ValueTypes, Running, Reached
  <1>5. Running'
    BY <1>1, <1>4 DEF CacheMiss, GuardBase, TypeOK, ValueTypes, Running
  <1>6. Stamped'
    BY <1>2 DEF CacheMiss, GuardBase, Stamped
  <1> QED
    BY <1>3, <1>5, <1>6 DEF GuardBase

(* Where a deciding thread stands, and the three things it may do. *)
LEMMA DecideCases ==
    ASSUME GuardBase, NEW w \in Workers, Decide(w)
    PROVE  /\ pc[w] = "layers" /\ guard \in Guards /\ req[w] \in Requests
           /\ at[w] \in Nat \ {0} /\ Len(guard.pipeline) \in Nat
           /\ at[w] <= Len(guard.pipeline) /\ at[w] <= Len(guard.pipeline) + 1
           /\ Reached(guard, at[w], req[w])
           /\ \/ \E v \in {"pass", "block"} :
                    /\ v \in Answers(guard, at[w], req[w])
                    /\ Conclude(w, Result(guard, v = "pass", guard.pipeline[at[w]],
                                          req[w]))
              \/ /\ "defer" \in Answers(guard, at[w], req[w])
                 /\ at' = [at EXCEPT ![w] = at[w] + 1]
                 /\ UNCHANGED <<guard, clock, cache, hits, misses, checks, log,
                                pc, req, now, res, begun, raised, storedAt>>
  <1>1. /\ pc[w] = "layers" /\ guard \in Guards /\ req[w] \in Requests
        /\ at[w] \in Nat \ {0} /\ Len(guard.pipeline) \in Nat
        /\ at[w] <= Len(guard.pipeline) /\ at[w] <= Len(guard.pipeline) + 1
        /\ Reached(guard, at[w], req[w])
    BY GuardsAssumption
    DEF Decide, LayersLeft, GuardBase, TypeOK, ValueTypes, Running
  <1> DEFINE o == Answers(guard, at[w], req[w])
             R(b) == Result(guard, b, guard.pipeline[at[w]], req[w])
  <1>2. \/ "pass" \in o /\ Conclude(w, R(TRUE))
        \/ "block" \in o /\ Conclude(w, R(FALSE))
        \/ /\ "defer" \in o
           /\ at' = [at EXCEPT ![w] = at[w] + 1]
           /\ UNCHANGED <<guard, clock, cache, hits, misses, checks, log,
                          pc, req, now, res, begun, raised, storedAt>>
    BY DEF Decide, Answers, NextLayer
  <1>3. ("pass" = "pass") = TRUE /\ ("block" = "pass") = FALSE
    OBVIOUS
  <1> QED
    BY <1>1, <1>2, <1>3

LEMMA DecideBase ==
    ASSUME GuardBase, NEW w \in Workers, Decide(w)
    PROVE  GuardBase'
  <1> DEFINE i == at[w]
             r == req[w]
  <1>1. /\ pc[w] = "layers" /\ guard \in Guards /\ r \in Requests
        /\ i \in Nat \ {0} /\ Len(guard.pipeline) \in Nat
        /\ i <= Len(guard.pipeline) /\ i <= Len(guard.pipeline) + 1
        /\ Reached(guard, i, r)
    BY DecideCases
  <1>2. ASSUME NEW v \in {"pass", "block"}, v \in Answers(guard, i, r),
               Conclude(w, Result(guard, v = "pass", guard.pipeline[i], r))
        PROVE  GuardBase'
    <2> DEFINE x == Result(guard, v = "pass", guard.pipeline[i], r)
    <2>1. x \in Results /\ ~x.hit
      BY <1>1, <1>2, PipelineVerdict, FreshVerdict
    <2>2. Conclude(w, x)
      BY <1>2
    <2> HIDE DEF x
    <2> QED
      BY <1>1, <2>1, <2>2, ConcludeBase
  <1>3. ASSUME "defer" \in Answers(guard, i, r),
               at' = [at EXCEPT ![w] = i + 1],
               UNCHANGED <<guard, clock, cache, hits, misses, checks, log,
                           pc, req, now, res, begun, raised, storedAt>>
        PROVE  GuardBase'
    <2>1. TypeOK'
      BY <1>1, <1>3 DEF GuardBase, TypeOK, ValueTypes
    <2>2. Reached(guard, i + 1, r)
      BY <1>1, <1>3 DEF Reached
    <2>3. Running'
      BY <1>1, <1>3, <2>2 DEF GuardBase, TypeOK, ValueTypes, Running
    <2>4. Stamped'
      BY <1>3 DEF GuardBase, Stamped
    <2> QED
      BY <2>1, <2>3, <2>4 DEF GuardBase
  <1> QED
    BY <1>2, <1>3, DecideCases

LEMMA FailClosedBase ==
    ASSUME GuardBase, NEW w \in Workers, FailClosed(w)
    PROVE  /\ GuardBase'
           /\ pc[w] = "layers" /\ guard \in Guards /\ req[w] \in Requests
           /\ at[w] \in Nat \ {0} /\ Len(guard.pipeline) \in Nat
           /\ at[w] <= Len(guard.pipeline) + 1
           /\ at[w] > Len(guard.pipeline)
           /\ Reached(guard, at[w], req[w])
           /\ Conclude(w, AllDeferred(req[w]))
  <1> DEFINE x == AllDeferred(req[w])
  <1>1. /\ pc[w] = "layers" /\ guard \in Guards /\ req[w] \in Requests
        /\ at[w] \in Nat \ {0} /\ Len(guard.pipeline) \in Nat
        /\ at[w] <= Len(guard.pipeline) + 1
        /\ at[w] > Len(guard.pipeline)
        /\ Reached(guard, at[w], req[w])
    BY GuardsAssumption
    DEF FailClosed, LayersLeft, GuardBase, TypeOK, ValueTypes, Running
  <1>2. x \in Results /\ ~x.hit
    BY <1>1, PipelineVerdict, FreshVerdict
  <1>3. Conclude(w, x)
    BY DEF FailClosed
  <1> HIDE DEF x
  <1>4. GuardBase'
    BY <1>1, <1>2, <1>3, ConcludeBase
  <1> QED
    BY <1>1, <1>3, <1>4 DEF x

LEMMA LayerRaisesBase ==
    ASSUME GuardBase, NEW w \in Workers, LayerRaises(w)
    PROVE  GuardBase'
  <1>1. TypeOK'
    BY DEF LayerRaises, GuardBase, TypeOK, ValueTypes
  <1>2. Running'
    BY DEF LayerRaises, GuardBase, TypeOK, ValueTypes, Running
  <1>3. Stamped'
    BY DEF LayerRaises, GuardBase, Stamped
  <1> QED
    BY <1>1, <1>2, <1>3 DEF GuardBase

(* What cache.set() does to the cache of the guard. *)
LEMMA CacheSetWrites ==
    ASSUME GuardBase, NEW w \in Workers, CacheSet(w)
    PROVE  /\ req[w] \in Requests /\ Key(req[w]) \in Keys /\ res[w] \in Results
           /\ cache' = [entry |-> cache'.entry, order |-> cache'.order]
           /\ cache'.entry \in Entries
           /\ cache'.order \in Seq(Keys)
           /\ \A j \in Keys :
                 cache'.entry[j] \in IF j = Key(req[w])
                                     THEN {[ts |-> clock, value |-> res[w]], Absent}
                                     ELSE {cache.entry[j], Absent}
  <1> DEFINE k == Key(req[w])
             x == res[w]
  <1>1. req[w] \in Requests /\ k \in Keys /\ x \in Results /\ clock \in Nat
    BY DEF CacheSet, GuardBase, TypeOK, ValueTypes, Running, Keys
  <1>2. /\ cache' = AfterSet(cache, k, x, clock)
        /\ cache.entry \in Entries /\ cache.order \in Seq(Keys)
    BY DEF CacheSet, StoreTime, GuardBase, TypeOK, ValueTypes, Entries
  <1> HIDE DEF k, x
  <1>3. /\ cache' = [entry |-> cache'.entry, order |-> cache'.order]
        /\ cache'.entry \in Entries
        /\ cache'.order \in Seq(Keys)
        /\ \A j \in Keys :
              cache'.entry[j] \in IF j = k THEN {[ts |-> clock, value |-> x], Absent}
                                           ELSE {cache.entry[j], Absent}
    BY <1>1, <1>2, SetWritesOneEntry
  <1> QED
    BY <1>1, <1>3 DEF k, x

LEMMA CacheSetBase ==
    ASSUME GuardBase, NEW w \in Workers, CacheSet(w)
    PROVE  GuardBase'
  <1> DEFINE k == Key(req[w])
  <1>1. /\ req[w] \in Requests /\ k \in Keys
        /\ cache' = [entry |-> cache'.entry, order |-> cache'.order]
        /\ cache'.entry \in Entries
        /\ cache'.order \in Seq(Keys)
        /\ \A j \in Keys :
              cache'.entry[j] \in IF j = k
                                  THEN {[ts |-> clock, value |-> res[w]], Absent}
                                  ELSE {cache.entry[j], Absent}
    BY CacheSetWrites
  <1>2. storedAt' = [storedAt EXCEPT ![k] = clock] /\ clock' = clock /\ clock \in Nat
        /\ storedAt \in [Keys -> Nat \cup {None}]
    BY DEF CacheSet, GuardBase, TypeOK, ValueTypes
  <1> HIDE DEF k
  <1>3. TypeOK'
    BY <1>1, <1>2 DEF CacheSet, GuardBase, TypeOK, ValueTypes, Entries
  <1>4. Running'
    BY <1>1 DEF CacheSet, GuardBase, TypeOK, ValueTypes, Running
  <1>5. ASSUME NEW j \in Keys, cache'.entry[j] # Absent
        PROVE  cache'.entry[j].ts = storedAt'[j] /\ cache'.entry[j].ts <= clock'
    <2>1. CASE j = k
      <3>1. cache'.entry[j] = [ts |-> clock, value |-> res[w]] /\ storedAt'[j] = clock
        BY <1>1, <1>2, <1>5, <2>1
      <3> QED
        BY <1>2, <3>1
    <2>2. CASE j # k
      <3>1. cache'.entry[j] = cache.entry[j] /\ storedAt'[j] = storedAt[j]
        BY <1>1, <1>2, <1>5, <2>2
      <3> QED
        BY <1>2, <1>5, <3>1 DEF GuardBase, Stamped
    <2> QED
      BY <2>1, <2>2
  <1> QED
    BY <1>3, <1>4, <1>5 DEF GuardBase, Stamped

LEMMA NotifyMetricsBase ==
    ASSUME GuardBase, NEW w \in Workers, NotifyMetrics(w)
    PROVE  GuardBase'
  <1>1. checks' \in [BOOLEAN -> Nat]
    <2>1. res[w].hit \in BOOLEAN
      BY DEF NotifyMetrics, GuardBase, Running, Results
    <2>2. checks[res[w].hit] + 1 \in Nat
      BY <2>1 DEF GuardBase, TypeOK, ValueTypes
    <2> QED
      BY <2>1, <2>2 DEF NotifyMetrics, GuardBase, TypeOK, ValueTypes
  <1>2. TypeOK'
    BY <1>1 DEF NotifyMetrics, GuardBase, TypeOK, ValueTypes
  <1>3. Running'
    BY DEF NotifyMetrics, GuardBase, TypeOK, ValueTypes, Running
  <1>4. Stamped'
    BY DEF NotifyMetrics, GuardBase, Stamped
  <1> QED
    BY <1>2, <1>3, <1>4 DEF GuardBase

(* The decision log never exceeds its length, and grows up to it. *)
LEMMA RecordFacts ==
    ASSUME NEW S, NEW s \in Seq(S), Len(s) <= LogSize, NEW e \in S
    PROVE  /\ Record(s, e) \in Seq(S)
           /\ Len(Record(s, e)) = IF Len(s) < LogSize THEN Len(s) + 1 ELSE LogSize
           /\ Len(Record(s, e)) <= LogSize
  <1>1. LogSize \in Nat \ {0} /\ Len(s) \in Nat
    BY LogAssumption
  <1>2. CASE Len(s) < LogSize
    <2>1. Record(s, e) = Append(s, e)
      BY <1>2 DEF Record
    <2>2. Append(s, e) \in Seq(S) /\ Len(Append(s, e)) = Len(s) + 1
      OBVIOUS
    <2> QED
      BY <1>1, <1>2, <2>1, <2>2
  <1>3. CASE ~(Len(s) < LogSize)
    <2>1. s # <<>> /\ Len(s) = LogSize
      BY <1>1, <1>3
    <2>2. Tail(s) \in Seq(S) /\ Len(Tail(s)) = Len(s) - 1
      BY <2>1
    <2>3. Append(Tail(s), e) \in Seq(S) /\ Len(Append(Tail(s), e)) = LogSize
      BY <1>1, <2>1, <2>2
    <2>4. Record(s, e) = Append(Tail(s), e)
      BY <1>3 DEF Record
    <2> QED
      BY <1>1, <1>3, <2>3, <2>4
  <1> QED
    BY <1>2, <1>3

LEMMA NotifyLogBase ==
    ASSUME GuardBase, NEW w \in Workers, NotifyLog(w)
    PROVE  /\ GuardBase'
           /\ Len(log') = IF Len(log) < LogSize THEN Len(log) + 1 ELSE LogSize
  <1> DEFINE Entry == [key : Keys, passed : BOOLEAN, hit : BOOLEAN]
             e == [key |-> Key(req[w]), passed |-> res[w].passed,
                   hit |-> res[w].hit]
  <1>1. e \in Entry
    BY DEF NotifyLog, GuardBase, Running, Results, Keys
  <1>2. log \in Seq(Entry) /\ Len(log) <= LogSize
    BY DEF GuardBase, TypeOK, ValueTypes
  <1>3. log' = Record(log, e)
    BY DEF NotifyLog
  <1> HIDE DEF e
  <1>4. /\ log' \in Seq(Entry) /\ Len(log') <= LogSize
        /\ Len(log') = IF Len(log) < LogSize THEN Len(log) + 1 ELSE LogSize
    BY <1>1, <1>2, <1>3, RecordFacts
  <1>5. TypeOK'
    <2>1. /\ pc' = [pc EXCEPT ![w] = "idle"] /\ req' = [req EXCEPT ![w] = None]
          /\ now' = [now EXCEPT ![w] = 0] /\ at' = [at EXCEPT ![w] = 1]
          /\ res' = [res EXCEPT ![w] = None]
          /\ UNCHANGED <<guard, clock, cache, hits, misses, checks, begun, raised,
                         storedAt>>
      BY DEF NotifyLog
    <2>2. /\ pc' \in [Workers -> {"idle", "get", "layers", "set", "metrics", "log"}]
          /\ req' \in [Workers -> Requests \cup {None}]
          /\ now' \in [Workers -> Nat]
          /\ at' \in [Workers -> Nat \ {0}]
          /\ res' \in [Workers -> Results \cup {None}]
      BY <2>1 DEF GuardBase, TypeOK, ValueTypes
    <2> QED
      BY <1>4, <2>1, <2>2 DEF GuardBase, TypeOK, ValueTypes
  <1>6. Running'
    BY DEF NotifyLog, GuardBase, TypeOK, ValueTypes, Running
  <1>7. Stamped'
    BY DEF NotifyLog, GuardBase, Stamped
  <1> QED
    BY <1>4, <1>5, <1>6, <1>7 DEF GuardBase

LEMMA StepBase ==
    ASSUME GuardBase, NEW w \in Workers, Step(w) PROVE GuardBase'
  BY CacheHitBase, CacheMissBase, DecideBase, LayerRaisesBase,
     FailClosedBase, CacheSetBase, NotifyMetricsBase, NotifyLogBase DEF Step

LEMMA TickBase == ASSUME GuardBase, Tick PROVE GuardBase'
  <1>1. TypeOK' /\ Running'
    BY DEF Tick, GuardBase, TypeOK, ValueTypes, Running
  <1>2. Stamped'
    BY DEF Tick, GuardBase, TypeOK, ValueTypes, Stamped
  <1> QED
    BY <1>1, <1>2 DEF GuardBase

LEMMA StutterBase == ASSUME GuardBase, UNCHANGED vars PROVE GuardBase'
  BY DEF vars, GuardBase, TypeOK, ValueTypes, Running, Stamped

LEMMA NextBase == GuardBase /\ [Next]_vars => GuardBase'
  BY BeginBase, StepBase, TickBase, StutterBase DEF Next, Finished

LEMMA AlwaysBase == Spec => []GuardBase
  BY InitStarted, StartedBase, NextBase, PTL DEF Spec

-----------------------------------------------------------------------------
(* The verdicts, by what the base invariant leaves to show. *)
LEMMA ConcludeSound ==
    ASSUME GuardInv, NEW w \in Workers, pc[w] = "layers",
           NEW x \in Results, VerdictOK(guard, x, req[w]), Conclude(w, x)
    PROVE  CacheSound' /\ VerdictSound'
  <1>1. CacheSound'
    BY DEF Conclude, GuardInv, CacheSound
  <1>2. VerdictSound'
    BY DEF Conclude, GuardInv, GuardBase, TypeOK, ValueTypes, VerdictSound
  <1> QED
    BY <1>1, <1>2

LEMMA CacheHitSound ==
    ASSUME GuardInv, NEW w \in Workers, CacheHit(w)
    PROVE  CacheSound' /\ VerdictSound'
  <1> DEFINE k == Key(req[w])
             x == cache.entry[k].value
  <1>1. req[w] \in Requests /\ k \in Keys
    BY DEF CacheHit, GuardInv, GuardBase, Running, Keys
  <1>2. cache.entry[k] # Absent
    BY DEF CacheHit, Hit, Cached
  <1>3. x \in Results /\ VerdictOK(guard, x, req[w])
    BY <1>1, <1>2 DEF GuardInv, GuardBase, TypeOK, ValueTypes, CacheSound
  <1>4. VerdictOK(guard, Served(x), req[w])
    BY <1>3, ServedVerdict
  <1>5. \A j \in Keys : cache'.entry[j] \in {cache.entry[j], Absent}
    BY <1>1, GetKeepsEntries
       DEF CacheHit, GuardInv, GuardBase, TypeOK, ValueTypes, Entries
  <1> HIDE DEF x, k
  <1>6. res' = [res EXCEPT ![w] = Served(x)]
    BY DEF CacheHit, x, k
  <1>7. CacheSound'
    BY <1>5 DEF CacheHit, GuardInv, CacheSound, Keys
  <1>8. VerdictSound'
    BY <1>4, <1>6 DEF CacheHit, GuardInv, GuardBase, TypeOK, ValueTypes, VerdictSound
  <1> QED
    BY <1>7, <1>8

LEMMA CacheMissSound ==
    ASSUME GuardInv, NEW w \in Workers, CacheMiss(w)
    PROVE  CacheSound' /\ VerdictSound'
  <1>1. req[w] \in Requests /\ Key(req[w]) \in Keys
    BY DEF CacheMiss, GuardInv, GuardBase, Running, Keys
  <1>2. \A j \in Keys : cache'.entry[j] \in {cache.entry[j], Absent}
    BY <1>1, GetKeepsEntries
       DEF CacheMiss, GuardInv, GuardBase, TypeOK, ValueTypes, Entries
  <1>3. CacheSound'
    BY <1>2 DEF CacheMiss, GuardInv, CacheSound, Keys
  <1>4. VerdictSound'
    BY DEF CacheMiss, GuardInv, GuardBase, TypeOK, ValueTypes, VerdictSound
  <1> QED
    BY <1>3, <1>4

LEMMA DecideSound ==
    ASSUME GuardInv, NEW w \in Workers, Decide(w)
    PROVE  CacheSound' /\ VerdictSound'
  <1> DEFINE i == at[w]
             r == req[w]
  <1>1. /\ pc[w] = "layers" /\ guard \in Guards /\ r \in Requests
        /\ i \in Nat \ {0} /\ Len(guard.pipeline) \in Nat
        /\ i <= Len(guard.pipeline) /\ i <= Len(guard.pipeline) + 1
        /\ Reached(guard, i, r)
    BY DecideCases DEF GuardInv
  <1>2. ASSUME NEW v \in {"pass", "block"}, v \in Answers(guard, i, r),
               Conclude(w, Result(guard, v = "pass", guard.pipeline[i], r))
        PROVE  CacheSound' /\ VerdictSound'
    <2> DEFINE x == Result(guard, v = "pass", guard.pipeline[i], r)
    <2>1. x \in Results /\ VerdictOK(guard, x, r)
      BY <1>1, <1>2, PipelineVerdict
    <2>2. Conclude(w, x)
      BY <1>2
    <2> HIDE DEF x
    <2> QED
      BY <1>1, <2>1, <2>2, ConcludeSound
  <1>3. ASSUME UNCHANGED <<guard, clock, cache, hits, misses, checks, log,
                           pc, req, now, res, begun, raised, storedAt>>
        PROVE  CacheSound' /\ VerdictSound'
    BY <1>3 DEF GuardInv, CacheSound, VerdictSound
  <1> QED
    BY <1>2, <1>3, DecideCases DEF GuardInv

LEMMA FailClosedSound ==
    ASSUME GuardInv, NEW w \in Workers, FailClosed(w)
    PROVE  CacheSound' /\ VerdictSound'
  <1> DEFINE x == AllDeferred(req[w])
  <1>1. x \in Results /\ VerdictOK(guard, x, req[w])
    BY FailClosedBase, PipelineVerdict DEF GuardInv
  <1>2. pc[w] = "layers" /\ Conclude(w, x)
    BY FailClosedBase DEF GuardInv
  <1> HIDE DEF x
  <1> QED
    BY <1>1, <1>2, ConcludeSound

(* The step the cache key matters for: the result of one request becomes   *)
(* the answer to every request with the same key.                          *)
LEMMA CacheSetSound ==
    ASSUME StripInsensitive, BypassInSignature,
           GuardInv, NEW w \in Workers, CacheSet(w)
    PROVE  CacheSound' /\ VerdictSound'
  <1> DEFINE k == Key(req[w])
             x == res[w]
  <1>1. /\ req[w] \in Requests
        /\ \A j \in Keys :
              cache'.entry[j] \in IF j = k THEN {[ts |-> clock, value |-> x], Absent}
                                           ELSE {cache.entry[j], Absent}
    BY CacheSetWrites DEF GuardInv
  <1>2. VerdictOK(guard, x, req[w]) /\ guard \in Guards /\ guard' = guard
    BY DEF CacheSet, GuardInv, GuardBase, TypeOK, ValueTypes, VerdictSound
  <1>3. CacheSound'
    <2> SUFFICES ASSUME NEW r \in Requests, cache'.entry[Key(r)] # Absent
                 PROVE  VerdictOK(guard, cache'.entry[Key(r)].value, r)
      BY <1>2 DEF CacheSound
    <2>1. Key(r) \in Keys
      BY DEF Keys
    <2>2. CASE Key(r) # k
      <3>1. cache'.entry[Key(r)] = cache.entry[Key(r)]
        BY <1>1, <2>1, <2>2
      <3> QED
        BY <3>1 DEF GuardInv, CacheSound
    <2>3. CASE Key(r) = k
      <3>1. cache'.entry[Key(r)] = [ts |-> clock, value |-> x]
        BY <1>1, <2>1, <2>3
      <3>2. VerdictOK(guard, x, r)
        BY <1>1, <1>2, <2>3, KeyDeterminesVerdict
      <3> QED
        BY <3>1, <3>2
    <2> QED
      BY <2>2, <2>3
  <1>4. VerdictSound'
    BY <1>2 DEF CacheSet, GuardInv, GuardBase, TypeOK, ValueTypes, VerdictSound
  <1> QED
    BY <1>3, <1>4

LEMMA BeginSound ==
    ASSUME GuardInv, NEW w \in Workers, NEW r, Begin(w, r)
    PROVE  CacheSound' /\ VerdictSound'
  BY DEF Begin, GuardInv, GuardBase, TypeOK, ValueTypes, CacheSound, VerdictSound

LEMMA StepInv ==
    ASSUME StripInsensitive, BypassInSignature, GuardInv, NEW w \in Workers, Step(w)
    PROVE  GuardInv'
  <1>1. GuardBase'
    BY StepBase DEF GuardInv
  <1>2. CASE LayerRaises(w)
    BY <1>1, <1>2
       DEF LayerRaises, GuardInv, GuardBase, TypeOK, ValueTypes, CacheSound, VerdictSound
  <1>3. CASE NotifyMetrics(w)
    BY <1>1, <1>3
       DEF NotifyMetrics, GuardInv, GuardBase, TypeOK, ValueTypes, CacheSound, VerdictSound
  <1>4. CASE NotifyLog(w)
    BY <1>1, <1>4
       DEF NotifyLog, GuardInv, GuardBase, TypeOK, ValueTypes, CacheSound, VerdictSound
  <1> QED
    BY <1>1, <1>2, <1>3, <1>4, CacheHitSound, CacheMissSound, DecideSound,
       FailClosedSound, CacheSetSound DEF Step, GuardInv

LEMMA StartedInv == Started => GuardInv
  <1> SUFFICES ASSUME Started PROVE GuardInv
    OBVIOUS
  <1>1. CacheSound
    BY DEF Started, CacheSound, EmptyCache, Keys
  <1> QED
    BY <1>1, StartedBase DEF Started, GuardInv, VerdictSound

LEMMA TickInv == ASSUME GuardInv, Tick PROVE GuardInv'
  <1>1. CacheSound' /\ VerdictSound'
    BY DEF Tick, GuardInv, CacheSound, VerdictSound
  <1> QED
    BY <1>1, TickBase DEF GuardInv

LEMMA StutterInv == ASSUME GuardInv, UNCHANGED vars PROVE GuardInv'
  <1>1. CacheSound' /\ VerdictSound'
    BY DEF vars, GuardInv, CacheSound, VerdictSound
  <1> QED
    BY <1>1, StutterBase DEF GuardInv

-----------------------------------------------------------------------------
(* The state of a guard is well-typed with any number of threads: the log  *)
(* never exceeds max_entries, and the order holds keys only.               *)
THEOREM GuardTypes == Spec => []TypeOK
  BY AlwaysBase, PTL DEF GuardBase

(* If no layer can tell apart messages that differ in surrounding blanks,  *)
(* and no bypass condition reads a state field outside the signature, the  *)
(* cache never serves a verdict the pipeline could not give for the        *)
(* request that asked (core.py:114-172, cache.py:25-39).                   *)
THEOREM VerdictsSound ==
    ASSUME StripInsensitive, BypassInSignature
    PROVE  Spec => []VerdictSound
  <1>1. GuardInv /\ [Next]_vars => GuardInv'
    BY BeginBase, BeginSound, StepInv, TickInv, StutterInv DEF Next, Finished, GuardInv
  <1>2. GuardInv => VerdictSound
    BY DEF GuardInv
  <1> QED
    BY <1>1, <1>2, InitStarted, StartedInv, PTL DEF Spec

(* A step of another kind than a thread's lookup or store leaves every     *)
(* entry alone.                                                            *)
LEMMA EntriesKept ==
    ASSUME [Next]_vars
    PROVE  \/ UNCHANGED cache
           \/ \E w \in Workers : CacheHit(w) \/ CacheMiss(w) \/ CacheSet(w)
  <1>1. ASSUME NEW w \in Workers, Step(w)
        PROVE  \/ UNCHANGED cache
               \/ CacheHit(w) \/ CacheMiss(w) \/ CacheSet(w)
    BY <1>1 DEF Step, Decide, Conclude, LayerRaises, FailClosed, NotifyMetrics, NotifyLog
  <1>2. ASSUME NEW w \in Workers, NEW r \in Calls, Begin(w, r) PROVE UNCHANGED cache
    BY <1>2 DEF Begin
  <1>3. Tick \/ Finished \/ UNCHANGED vars => UNCHANGED cache
    BY DEF Tick, Finished, vars
  <1> QED
    BY <1>1, <1>2, <1>3 DEF Next

(* The time stamp of a cached key never moves back (cache.py:82-87).       *)
THEOREM StampsNeverGoBack == Spec => StampsAdvance
  <1> DEFINE Advance == \A k \in Keys :
                           (cache.entry[k] # Absent /\ cache'.entry[k] # Absent)
                               => cache.entry[k].ts <= cache'.entry[k].ts
  <1>1. ASSUME GuardBase, [Next]_vars PROVE Advance
    <2> SUFFICES ASSUME NEW k \in Keys, cache.entry[k] # Absent, cache'.entry[k] # Absent
                 PROVE  cache.entry[k].ts <= cache'.entry[k].ts
      OBVIOUS
    <2>1. cache.entry[k].ts \in Nat /\ cache.entry[k].ts <= clock /\ clock \in Nat
      BY <1>1 DEF GuardBase, TypeOK, ValueTypes, Stamped
    <2>2. CASE cache'.entry[k] = cache.entry[k]
      BY <2>1, <2>2
    <2>3. ASSUME NEW w \in Workers, CacheHit(w) \/ CacheMiss(w)
          PROVE  cache'.entry[k] = cache.entry[k]
      <3>1. /\ cache' = AfterGet(cache, Key(req[w]), now[w])
            /\ req[w] \in Requests /\ Key(req[w]) \in Keys
        BY <1>1, <2>3 DEF CacheHit, CacheMiss, GuardBase, Running, Keys
      <3>2. cache'.entry[k] \in {cache.entry[k], Absent}
        BY <1>1, <3>1, GetKeepsEntries DEF GuardBase, TypeOK, ValueTypes, Entries
      <3> QED
        BY <3>2
    <2>4. ASSUME NEW w \in Workers, CacheSet(w)
          PROVE  cache'.entry[k] \in {cache.entry[k], [ts |-> clock, value |-> res[w]]}
      <3>1. cache'.entry[k] \in IF k = Key(req[w])
                                THEN {[ts |-> clock, value |-> res[w]], Absent}
                                ELSE {cache.entry[k], Absent}
        BY <1>1, <2>4, CacheSetWrites
      <3> QED
        BY <3>1
    <2>5. ASSUME NEW w \in Workers, cache'.entry[k] = [ts |-> clock, value |-> res[w]]
          PROVE  cache.entry[k].ts <= cache'.entry[k].ts
      BY <2>1, <2>5
    <2> QED
      BY <1>1, <2>2, <2>3, <2>4, <2>5, EntriesKept
  <1>2. GuardBase /\ [Next]_vars => [Advance]_vars
    BY <1>1
  <1> QED
    BY <1>2, AlwaysBase, PTL DEF Spec, StampsAdvance

(* A hit serves nothing stored more than TTL before the lookup began,      *)
(* however often it was served in between (cache.py:66-80).                *)
THEOREM HitsAlwaysFresh == Spec => HitsAreFresh
  <1> DEFINE Fresh == \A w \in Workers :
                         (pc[w] = "get" /\ pc'[w] = "metrics")
                             => now[w] - storedAt[Key(req[w])] <= TTL
  <1>1. ASSUME GuardBase, [Next]_vars PROVE Fresh
    <2> SUFFICES ASSUME NEW w \in Workers, pc[w] = "get", pc'[w] = "metrics"
                 PROVE  now[w] - storedAt[Key(req[w])] <= TTL
      OBVIOUS
    <2>1. ASSUME CacheHit(w) PROVE now[w] - storedAt[Key(req[w])] <= TTL
      <3> DEFINE k == Key(req[w])
      <3>1. k \in Keys /\ now[w] \in Nat /\ TTL \in Nat
        BY <1>1, CacheAssumption DEF GuardBase, TypeOK, ValueTypes, Running, Keys
      <3>2. cache.entry[k] # Absent /\ ~(now[w] - cache.entry[k].ts > TTL)
        BY <2>1 DEF CacheHit, Hit, Cached, Expired
      <3>3. cache.entry[k].ts \in Nat /\ cache.entry[k].ts = storedAt[k]
        BY <1>1, <3>1, <3>2 DEF GuardBase, TypeOK, ValueTypes, Stamped
      <3> HIDE DEF k
      <3>4. now[w] - storedAt[k] <= TTL
        BY <3>1, <3>2, <3>3
      <3> QED
        BY <3>4 DEF k
    <2>2. pc \in [Workers -> {"idle", "get", "layers", "set", "metrics", "log"}]
      BY <1>1 DEF GuardBase, TypeOK, ValueTypes
    <2>3. ASSUME NEW v \in Workers, Step(v) PROVE CacheHit(w)
      BY <2>2, <2>3 DEF Step, CacheHit, CacheMiss, Decide, Conclude, LayerRaises,
           FailClosed, CacheSet, NotifyMetrics, NotifyLog
    <2>4. ASSUME NEW v \in Workers, NEW r \in Calls, Begin(v, r) PROVE FALSE
      BY <2>2, <2>4 DEF Begin
    <2>5. Tick \/ Finished \/ UNCHANGED vars => FALSE
      BY DEF Tick, Finished, vars
    <2> QED
      BY <1>1, <2>1, <2>3, <2>4, <2>5 DEF Next
  <1>2. GuardBase /\ [Next]_vars => [Fresh]_vars
    BY <1>1
  <1> QED
    BY <1>2, AlwaysBase, PTL DEF Spec, HitsAreFresh

-----------------------------------------------------------------------------
(* The threads InFlight() counts. *)
Here(v, states, hit) == pc[v] \in states /\ (pc[v] # "layers" /\ res[v].hit) = hit

One(b) == IF b THEN 1 ELSE 0

(* One element may come or go. *)
LEMMA OneMoves ==
    ASSUME NEW A \in SUBSET Workers, NEW B \in SUBSET Workers, NEW w \in Workers,
           \A v \in Workers \ {w} : v \in A <=> v \in B
    PROVE  /\ Cardinality(A) \in Nat /\ Cardinality(B) \in Nat
           /\ Cardinality(B) = Cardinality(A) - One(w \in A) + One(w \in B)
  <1>1. IsFiniteSet(A) /\ IsFiniteSet(B) /\ Cardinality(A) \in Nat /\ Cardinality(B) \in Nat
    BY WorkersAssumption, FS_Subset, FS_CardinalityType
  <1>2. CASE w \in A <=> w \in B
    <2>1. A = B
      BY <1>2
    <2>2. One(w \in A) = One(w \in B) /\ One(w \in A) \in Nat
      BY <1>2 DEF One
    <2> QED
      BY <1>1, <2>1, <2>2
  <1>3. CASE w \in A /\ w \notin B
    <2>1. B = A \ {w}
      BY <1>3
    <2>2. Cardinality(B) = Cardinality(A) - 1
      BY <1>1, <1>3, <2>1, FS_RemoveElement
    <2>3. One(w \in A) = 1 /\ One(w \in B) = 0
      BY <1>3 DEF One
    <2> QED
      BY <1>1, <2>2, <2>3
  <1>4. CASE w \notin A /\ w \in B
    <2>1. B = A \cup {w}
      BY <1>4
    <2>2. Cardinality(B) = Cardinality(A) + 1
      BY <1>1, <1>4, <2>1, FS_AddElement
    <2>3. One(w \in A) = 0 /\ One(w \in B) = 1
      BY <1>4 DEF One
    <2> QED
      BY <1>1, <2>2, <2>3
  <1> QED
    BY <1>2, <1>3, <1>4

(* A step of one thread changes a count by that thread alone. *)
LEMMA Counts ==
    ASSUME NEW w \in Workers,
           \A v \in Workers \ {w} : pc'[v] = pc[v] /\ res'[v] = res[v],
           NEW states, NEW hit
    PROVE  /\ InFlight(states, hit) \in Nat /\ InFlight(states, hit)' \in Nat
           /\ InFlight(states, hit)' = InFlight(states, hit)
                 - One(Here(w, states, hit)) + One(Here(w, states, hit)')
  <1> DEFINE A == {v \in Workers : Here(v, states, hit)}
             B == {v \in Workers : Here(v, states, hit)'}
  <1>1. InFlight(states, hit) = Cardinality(A) /\ InFlight(states, hit)' = Cardinality(B)
    BY DEF InFlight, Here
  <1>2. \A v \in Workers \ {w} : v \in A <=> v \in B
    BY DEF Here
  <1>3. /\ One(w \in A) = One(Here(w, states, hit))
        /\ One(w \in B) = One(Here(w, states, hit)')
    BY DEF Here, One
  <1> HIDE DEF A, B
  <1>4. A \in SUBSET Workers /\ B \in SUBSET Workers
    BY DEF A, B
  <1>5. /\ Cardinality(A) \in Nat /\ Cardinality(B) \in Nat
        /\ Cardinality(B) = Cardinality(A) - One(w \in A) + One(w \in B)
    BY <1>2, <1>4, OneMoves
  <1> QED
    BY <1>1, <1>3, <1>5

(* The four counts Accounting is made of, and where a thread is in them.   *)
Hitting == InFlight({"metrics"}, TRUE)
Missing == InFlight({"layers", "set", "metrics"}, FALSE)
LoggingHits == InFlight({"log"}, TRUE)
LoggingMisses == InFlight({"log"}, FALSE)

LEMMA FourCounts ==
    ASSUME NEW w \in Workers,
           \A v \in Workers \ {w} : pc'[v] = pc[v] /\ res'[v] = res[v]
    PROVE  /\ Hitting \in Nat /\ Missing \in Nat
           /\ LoggingHits \in Nat /\ LoggingMisses \in Nat
           /\ Hitting' = Hitting - One(Here(w, {"metrics"}, TRUE))
                                 + One(Here(w, {"metrics"}, TRUE)')
           /\ Missing' = Missing
                 - One(Here(w, {"layers", "set", "metrics"}, FALSE))
                 + One(Here(w, {"layers", "set", "metrics"}, FALSE)')
           /\ LoggingHits' = LoggingHits - One(Here(w, {"log"}, TRUE))
                                         + One(Here(w, {"log"}, TRUE)')
           /\ LoggingMisses' = LoggingMisses - One(Here(w, {"log"}, FALSE))
                                             + One(Here(w, {"log"}, FALSE)')
  BY Counts DEF Hitting, Missing, LoggingHits, LoggingMisses

(* Accounting, with the counts named. *)
HitChecks == checks[TRUE]
MissChecks == checks[FALSE]

Answered0 == HitChecks + MissChecks - LoggingHits - LoggingMisses

Balanced ==
    /\ guard.caching => /\ hits = HitChecks + Hitting
                        /\ misses = MissChecks + raised + Missing
    /\ Len(log) = IF Answered0 < LogSize THEN Answered0 ELSE LogSize

LEMMA AccountingIsBalanced == Accounting <=> Balanced
  BY DEF Accounting, Balanced, Answered0, Hitting, Missing, LoggingHits, LoggingMisses,
         HitChecks, MissChecks

LEMMA Numbers ==
    ASSUME GuardBase
    PROVE  /\ hits \in Nat /\ misses \in Nat /\ raised \in Nat
           /\ HitChecks \in Nat /\ MissChecks \in Nat
           /\ Len(log) \in Nat /\ LogSize \in Nat \ {0}
           /\ Hitting \in Nat /\ Missing \in Nat
           /\ LoggingHits \in Nat /\ LoggingMisses \in Nat
  <1>1. \A S \in SUBSET Workers : Cardinality(S) \in Nat
    BY WorkersAssumption, FS_Subset, FS_CardinalityType
  <1>2. \A states, hit : InFlight(states, hit) \in Nat
    BY <1>1 DEF InFlight
  <1>3. /\ hits \in Nat /\ misses \in Nat /\ raised \in Nat
        /\ HitChecks \in Nat /\ MissChecks \in Nat
        /\ Len(log) \in Nat /\ LogSize \in Nat \ {0}
    <2>1. checks \in [BOOLEAN -> Nat]
      BY DEF GuardBase, TypeOK, ValueTypes
    <2>2. HitChecks \in Nat /\ MissChecks \in Nat
      BY <2>1 DEF HitChecks, MissChecks
    <2>3. PICK E : log \in Seq(E)
      BY DEF GuardBase, TypeOK, ValueTypes
    <2>4. Len(log) \in Nat
      BY <2>3
    <2>5. hits \in Nat /\ misses \in Nat /\ raised \in Nat
      BY DEF GuardBase, TypeOK, ValueTypes
    <2> QED
      BY <2>2, <2>4, <2>5, LogAssumption
  <1> QED
    BY <1>2, <1>3 DEF Hitting, Missing, LoggingHits, LoggingMisses

LEMMA NumbersNext ==
    ASSUME GuardBase'
    PROVE  /\ hits' \in Nat /\ misses' \in Nat /\ raised' \in Nat
           /\ HitChecks' \in Nat /\ MissChecks' \in Nat
           /\ Len(log') \in Nat /\ LogSize \in Nat \ {0}
           /\ Hitting' \in Nat /\ Missing' \in Nat
           /\ LoggingHits' \in Nat /\ LoggingMisses' \in Nat
  <1>1. \A S \in SUBSET Workers : Cardinality(S) \in Nat
    BY WorkersAssumption, FS_Subset, FS_CardinalityType
  <1>2. \A states, hit : InFlight(states, hit)' \in Nat
    BY <1>1 DEF InFlight
  <1>3. /\ hits' \in Nat /\ misses' \in Nat /\ raised' \in Nat
        /\ HitChecks' \in Nat /\ MissChecks' \in Nat
        /\ Len(log') \in Nat /\ LogSize \in Nat \ {0}
    <2>1. checks' \in [BOOLEAN -> Nat]
      BY DEF GuardBase, TypeOK, ValueTypes
    <2>2. HitChecks' \in Nat /\ MissChecks' \in Nat
      BY <2>1 DEF HitChecks, MissChecks
    <2>3. PICK E : log' \in Seq(E)
      BY DEF GuardBase, TypeOK, ValueTypes
    <2>4. Len(log') \in Nat
      BY <2>3
    <2>5. hits' \in Nat /\ misses' \in Nat /\ raised' \in Nat
      BY DEF GuardBase, TypeOK, ValueTypes
    <2> QED
      BY <2>2, <2>4, <2>5, LogAssumption
  <1> QED
    BY <1>2, <1>3 DEF Hitting, Missing, LoggingHits, LoggingMisses

(* A step keeps the balance if what it adds to the counters is what the    *)
(* threads between two counters lose.                                      *)
LookupsCounted ==
    guard.caching =>
        /\ hits' - hits = (HitChecks' - HitChecks) + (Hitting' - Hitting)
        /\ misses' - misses = (MissChecks' - MissChecks)
                                 + (raised' - raised) + (Missing' - Missing)

AnswersLogged ==
    LET counted == (HitChecks' - HitChecks) + (MissChecks' - MissChecks)
        waiting == (LoggingHits' - LoggingHits) + (LoggingMisses' - LoggingMisses)
    IN  \/ log' = log /\ counted = waiting
        \/ /\ Len(log') = IF Len(log) < LogSize THEN Len(log) + 1 ELSE LogSize
           /\ counted = waiting + 1

LEMMA Kept ==
    ASSUME GuardBase, GuardBase', Balanced, guard' = guard,
           LookupsCounted, AnswersLogged
    PROVE  Balanced'
  <1> DEFINE t == HitChecks       t1 == HitChecks'
             f == MissChecks      f1 == MissChecks'
             h == Hitting         h1 == Hitting'
             m == Missing         m1 == Missing'
             p == LoggingHits     p1 == LoggingHits'
             q == LoggingMisses   q1 == LoggingMisses'
             a == Answered0       a1 == Answered0'
             k == hits            k1 == hits'
             e == misses          e1 == misses'
             x == raised          x1 == raised'
             c == (t1 - t) + (f1 - f)
             l == (p1 - p) + (q1 - q)
  <1>1. /\ k \in Nat /\ e \in Nat /\ x \in Nat /\ t \in Nat /\ f \in Nat
        /\ LogSize \in Nat \ {0} /\ h \in Nat /\ m \in Nat /\ p \in Nat /\ q \in Nat
    BY Numbers
  <1>2. /\ k1 \in Nat /\ e1 \in Nat /\ x1 \in Nat /\ t1 \in Nat /\ f1 \in Nat
        /\ h1 \in Nat /\ m1 \in Nat /\ p1 \in Nat /\ q1 \in Nat
    BY NumbersNext
  <1>3. /\ a = t + f - p - q
        /\ a1 = t1 + f1 - p1 - q1
        /\ Len(log) = IF a < LogSize THEN a ELSE LogSize
    BY DEF Answered0, Balanced
  <1>4. guard.caching => /\ k = t + h
                        /\ e = f + x + m
    BY DEF Balanced
  <1>5. guard.caching => /\ k1 - k = (t1 - t) + (h1 - h)
                        /\ e1 - e = (f1 - f) + (x1 - x) + (m1 - m)
    BY DEF LookupsCounted
  <1>6. \/ log' = log /\ c = l
        \/ /\ Len(log') = IF Len(log) < LogSize THEN Len(log) + 1 ELSE LogSize
           /\ c = l + 1
    BY DEF AnswersLogged
  <1> HIDE DEF k, e, x, k1, e1, x1, t, f, h, m, p, q, a, t1, f1, h1, m1, p1, q1, a1
  <1>7. guard.caching => k1 = t1 + h1 /\ e1 = f1 + x1 + m1
    <2> SUFFICES ASSUME guard.caching
                 PROVE  k1 = t1 + h1 /\ e1 = f1 + x1 + m1
      OBVIOUS
    <2>1. k1 - (t + h) = (t1 - t) + (h1 - h)
      BY <1>4, <1>5
    <2>2. e1 - (f + x + m) = (f1 - f) + (x1 - x) + (m1 - m)
      BY <1>4, <1>5
    <2>3. k1 = t1 + h1
      BY <1>1, <1>2, <2>1
    <2>4. e1 = f1 + x1 + m1
      BY <1>1, <1>2, <2>2
    <2> QED
      BY <2>3, <2>4
  <1>8. a \in Int /\ a1 \in Int /\ c \in Int /\ l \in Int /\ a1 - a = c - l
    BY <1>1, <1>2, <1>3
  <1> HIDE DEF c, l
  <1>9. Len(log') = IF a1 < LogSize THEN a1 ELSE LogSize
    <2>1. CASE log' = log /\ c = l
      <3>1. a1 = a
        BY <1>8, <2>1
      <3> QED
        BY <1>3, <2>1, <3>1
    <2>2. CASE /\ Len(log') = IF Len(log) < LogSize THEN Len(log) + 1 ELSE LogSize
               /\ c = l + 1
      <3>1. a1 = a + 1
        BY <1>8, <2>2
      <3> QED
        BY <1>1, <1>3, <1>8, <2>2, <3>1
    <2> QED
      BY <1>6, <2>1, <2>2
  <1>10. guard.caching => hits' = HitChecks' + Hitting'
                          /\ misses' = MissChecks' + raised' + Missing'
    BY <1>7 DEF t1, h1, f1, m1, k1, e1, x1
  <1>11. Len(log') = IF Answered0' < LogSize THEN Answered0' ELSE LogSize
    BY <1>9 DEF a1
  <1> QED
    BY <1>10, <1>11 DEF Balanced

(* Where the moving thread is counted, before and after. *)
LEMMA Moved ==
    ASSUME GuardBase, GuardBase', NEW w \in Workers,
           \A v \in Workers \ {w} : pc'[v] = pc[v] /\ res'[v] = res[v]
    PROVE  /\ Hitting' = Hitting
                 - (IF pc[w] = "metrics" /\ res[w].hit THEN 1 ELSE 0)
                 + (IF pc'[w] = "metrics" /\ res'[w].hit THEN 1 ELSE 0)
           /\ Missing' = Missing
                 - (IF pc[w] \in {"layers", "set"} \/ (pc[w] = "metrics" /\ ~res[w].hit)
                    THEN 1 ELSE 0)
                 + (IF pc'[w] \in {"layers", "set"} \/ (pc'[w] = "metrics" /\ ~res'[w].hit)
                    THEN 1 ELSE 0)
           /\ LoggingHits' = LoggingHits
                 - (IF pc[w] = "log" /\ res[w].hit THEN 1 ELSE 0)
                 + (IF pc'[w] = "log" /\ res'[w].hit THEN 1 ELSE 0)
           /\ LoggingMisses' = LoggingMisses
                 - (IF pc[w] = "log" /\ ~res[w].hit THEN 1 ELSE 0)
                 + (IF pc'[w] = "log" /\ ~res'[w].hit THEN 1 ELSE 0)
  <1>1. /\ pc[w] \in {"idle", "get", "layers", "set", "metrics", "log"}
        /\ pc[w] \in {"set", "metrics", "log"} => res[w].hit \in BOOLEAN
        /\ pc[w] = "set" => ~res[w].hit
    BY DEF GuardBase, TypeOK, ValueTypes, Running, Results
  <1>2. /\ pc'[w] \in {"idle", "get", "layers", "set", "metrics", "log"}
        /\ pc'[w] \in {"set", "metrics", "log"} => res'[w].hit \in BOOLEAN
        /\ pc'[w] = "set" => ~res'[w].hit
    BY DEF GuardBase, TypeOK, ValueTypes, Running, Results
  <1>3. /\ One(Here(w, {"metrics"}, TRUE)) =
                 IF pc[w] = "metrics" /\ res[w].hit THEN 1 ELSE 0
        /\ One(Here(w, {"layers", "set", "metrics"}, FALSE)) =
                 IF pc[w] \in {"layers", "set"} \/ (pc[w] = "metrics" /\ ~res[w].hit)
                 THEN 1 ELSE 0
        /\ One(Here(w, {"log"}, TRUE)) = IF pc[w] = "log" /\ res[w].hit THEN 1 ELSE 0
        /\ One(Here(w, {"log"}, FALSE)) = IF pc[w] = "log" /\ ~res[w].hit THEN 1 ELSE 0
    BY <1>1 DEF One, Here
  <1>4. /\ One(Here(w, {"metrics"}, TRUE))' =
                 IF pc'[w] = "metrics" /\ res'[w].hit THEN 1 ELSE 0
        /\ One(Here(w, {"layers", "set", "metrics"}, FALSE))' =
                 IF pc'[w] \in {"layers", "set"} \/ (pc'[w] = "metrics" /\ ~res'[w].hit)
                 THEN 1 ELSE 0
        /\ One(Here(w, {"log"}, TRUE))' = IF pc'[w] = "log" /\ res'[w].hit THEN 1 ELSE 0
        /\ One(Here(w, {"log"}, FALSE))' = IF pc'[w] = "log" /\ ~res'[w].hit THEN 1 ELSE 0
    BY <1>2 DEF One, Here
  <1>5. /\ Hitting' = Hitting - One(Here(w, {"metrics"}, TRUE))
                              + One(Here(w, {"metrics"}, TRUE))'
        /\ Missing' = Missing
              - One(Here(w, {"layers", "set", "metrics"}, FALSE))
              + One(Here(w, {"layers", "set", "metrics"}, FALSE))'
        /\ LoggingHits' = LoggingHits - One(Here(w, {"log"}, TRUE))
                                      + One(Here(w, {"log"}, TRUE))'
        /\ LoggingMisses' = LoggingMisses - One(Here(w, {"log"}, FALSE))
                                          + One(Here(w, {"log"}, FALSE))'
    BY FourCounts
  <1> QED
    BY <1>3, <1>4, <1>5

LEMMA ElsewhereSame ==
    ASSUME GuardBase, NEW w \in Workers, NEW x, NEW y,
           pc' = [pc EXCEPT ![w] = x] \/ pc' = pc,
           res' = [res EXCEPT ![w] = y] \/ res' = res
    PROVE  \A v \in Workers \ {w} : pc'[v] = pc[v] /\ res'[v] = res[v]
  BY DEF GuardBase, TypeOK, ValueTypes

(* A step that counts nothing: it only moves a thread. *)
LEMMA QuietBalanced ==
    ASSUME GuardBase, GuardBase', Balanced, NEW w \in Workers,
           \A v \in Workers \ {w} : pc'[v] = pc[v] /\ res'[v] = res[v],
           UNCHANGED <<guard, checks, hits, misses, raised, log>>,
           pc[w] \notin {"metrics", "log"},
           pc'[w] = "metrics" /\ guard.caching => pc[w] # "get" /\ ~res'[w].hit,
           pc'[w] # "log",
           guard.caching => (pc[w] \in {"layers", "set"} <=>
                             pc'[w] \in {"layers", "set", "metrics"})
    PROVE  Balanced'
  <1>1. /\ guard.caching => Hitting' = Hitting /\ Missing' = Missing
        /\ LoggingHits' = LoggingHits /\ LoggingMisses' = LoggingMisses
    BY Moved, Numbers
  <1> QED
    BY <1>1 DEF Balanced, Answered0, HitChecks, MissChecks

LEMMA BeginBalanced ==
    ASSUME GuardBase, Balanced, NEW w \in Workers, NEW r \in Calls, Begin(w, r)
    PROVE  Balanced'
  <1>1. /\ pc[w] = "idle" /\ pc' = [pc EXCEPT ![w] = pc'[w]] /\ res' = res
        /\ pc'[w] \in {"get", "layers"} /\ (guard.caching => pc'[w] = "get")
        /\ UNCHANGED <<guard, checks, hits, misses, raised, log>>
    BY DEF Begin, GuardBase, TypeOK, ValueTypes
  <1>2. \A v \in Workers \ {w} : pc'[v] = pc[v] /\ res'[v] = res[v]
    BY <1>1, ElsewhereSame
  <1> QED
    BY <1>1, <1>2, BeginBase, QuietBalanced

LEMMA CacheHitBalanced ==
    ASSUME GuardBase, Balanced, NEW w \in Workers, CacheHit(w)
    PROVE  Balanced'
  <1> DEFINE x == cache.entry[Key(req[w])].value
  <1>1. /\ pc[w] = "get" /\ pc' = [pc EXCEPT ![w] = "metrics"]
        /\ pc'[w] = "metrics" /\ hits' = hits + 1
        /\ res' = [res EXCEPT ![w] = Served(x)] /\ res'[w] = Served(x)
        /\ UNCHANGED <<guard, checks, misses, raised, log>>
    BY DEF CacheHit, GuardBase, TypeOK, ValueTypes
  <1>2. res'[w].hit
    <2>1. x \in Results
      BY <1>1 DEF CacheHit, Hit, Cached, GuardBase, TypeOK, ValueTypes, Running, Keys
    <2>2. Served(x).hit
      BY <2>1 DEF Served, Results
    <2> QED
      BY <1>1, <2>2
  <1>3. \A v \in Workers \ {w} : pc'[v] = pc[v] /\ res'[v] = res[v]
    BY <1>1, ElsewhereSame
  <1>4. /\ Hitting' = Hitting - 0 + 1 /\ Missing' = Missing - 0 + 0
        /\ LoggingHits' = LoggingHits - 0 + 0 /\ LoggingMisses' = LoggingMisses - 0 + 0
    BY <1>1, <1>2, <1>3, CacheHitBase, Moved
  <1>9. HitChecks' = HitChecks /\ MissChecks' = MissChecks
    BY <1>1 DEF HitChecks, MissChecks
  <1> QED
    BY <1>1, <1>9, <1>4, CacheHitBase, Kept, Numbers DEF LookupsCounted, AnswersLogged

LEMMA CacheMissBalanced ==
    ASSUME GuardBase, Balanced, NEW w \in Workers, CacheMiss(w)
    PROVE  Balanced'
  <1>1. /\ pc[w] = "get" /\ pc' = [pc EXCEPT ![w] = "layers"]
        /\ pc'[w] = "layers" /\ misses' = misses + 1 /\ res' = res
        /\ UNCHANGED <<guard, checks, hits, raised, log>>
    BY DEF CacheMiss, GuardBase, TypeOK, ValueTypes
  <1>2. \A v \in Workers \ {w} : pc'[v] = pc[v] /\ res'[v] = res[v]
    BY <1>1, ElsewhereSame
  <1>3. /\ Hitting' = Hitting - 0 + 0 /\ Missing' = Missing - 0 + 1
        /\ LoggingHits' = LoggingHits - 0 + 0 /\ LoggingMisses' = LoggingMisses - 0 + 0
    BY <1>1, <1>2, CacheMissBase, Moved
  <1>9. HitChecks' = HitChecks /\ MissChecks' = MissChecks
    BY <1>1 DEF HitChecks, MissChecks
  <1> QED
    BY <1>1, <1>9, <1>3, CacheMissBase, Kept, Numbers DEF LookupsCounted, AnswersLogged

LEMMA ConcludeBalanced ==
    ASSUME GuardBase, GuardBase', Balanced, NEW w \in Workers, pc[w] = "layers",
           NEW x, ~x.hit, Conclude(w, x)
    PROVE  Balanced'
  <1>1. /\ pc' = [pc EXCEPT ![w] = pc'[w]] /\ pc'[w] \in {"set", "metrics"}
        /\ res' = [res EXCEPT ![w] = x] /\ res'[w] = x
        /\ UNCHANGED <<guard, checks, hits, misses, raised, log>>
    BY DEF Conclude, GuardBase, TypeOK, ValueTypes
  <1>2. \A v \in Workers \ {w} : pc'[v] = pc[v] /\ res'[v] = res[v]
    BY <1>1, ElsewhereSame
  <1> QED
    BY <1>1, <1>2, QuietBalanced

LEMMA DecideBalanced ==
    ASSUME GuardBase, Balanced, NEW w \in Workers, Decide(w)
    PROVE  Balanced'
  <1>1. pc[w] = "layers"
    BY DEF Decide
  <1>2. ASSUME NEW x, ~x.hit, Conclude(w, x) PROVE Balanced'
    BY <1>1, <1>2, DecideBase, ConcludeBalanced
  <1>3. CASE UNCHANGED <<guard, clock, cache, hits, misses, checks, log,
                         pc, req, now, res, begun, raised, storedAt>>
    BY <1>3 DEF Balanced, Answered0, Hitting, Missing, LoggingHits, LoggingMisses, InFlight,
         HitChecks, MissChecks
  <1> QED
    BY <1>2, <1>3, DecideCases, FreshVerdict

LEMMA FailClosedBalanced ==
    ASSUME GuardBase, Balanced, NEW w \in Workers, FailClosed(w)
    PROVE  Balanced'
  BY FailClosedBase, FreshVerdict, ConcludeBalanced

LEMMA LayerRaisesBalanced ==
    ASSUME GuardBase, Balanced, NEW w \in Workers, LayerRaises(w)
    PROVE  Balanced'
  <1>1. /\ pc[w] = "layers" /\ pc' = [pc EXCEPT ![w] = "idle"]
        /\ pc'[w] = "idle" /\ raised' = raised + 1 /\ res' = res
        /\ UNCHANGED <<guard, checks, hits, misses, log>>
    BY DEF LayerRaises, GuardBase, TypeOK, ValueTypes
  <1>2. \A v \in Workers \ {w} : pc'[v] = pc[v] /\ res'[v] = res[v]
    BY <1>1, ElsewhereSame
  <1>3. /\ Hitting' = Hitting - 0 + 0 /\ Missing' = Missing - 1 + 0
        /\ LoggingHits' = LoggingHits - 0 + 0 /\ LoggingMisses' = LoggingMisses - 0 + 0
    BY <1>1, <1>2, LayerRaisesBase, Moved
  <1>9. HitChecks' = HitChecks /\ MissChecks' = MissChecks
    BY <1>1 DEF HitChecks, MissChecks
  <1> QED
    BY <1>1, <1>9, <1>3, LayerRaisesBase, Kept, Numbers DEF LookupsCounted, AnswersLogged

LEMMA CacheSetBalanced ==
    ASSUME GuardBase, Balanced, NEW w \in Workers, CacheSet(w)
    PROVE  Balanced'
  <1>1. /\ pc[w] = "set" /\ pc' = [pc EXCEPT ![w] = "metrics"]
        /\ pc'[w] = "metrics" /\ res' = res /\ ~res[w].hit
        /\ UNCHANGED <<guard, checks, hits, misses, raised, log>>
    BY DEF CacheSet, GuardBase, TypeOK, ValueTypes, Running
  <1>2. \A v \in Workers \ {w} : pc'[v] = pc[v] /\ res'[v] = res[v]
    BY <1>1, ElsewhereSame
  <1> QED
    BY <1>1, <1>2, CacheSetBase, QuietBalanced

LEMMA NotifyMetricsBalanced ==
    ASSUME GuardBase, Balanced, NEW w \in Workers, NotifyMetrics(w)
    PROVE  Balanced'
  <1>1. /\ pc[w] = "metrics" /\ pc' = [pc EXCEPT ![w] = "log"]
        /\ pc'[w] = "log" /\ res' = res /\ res[w].hit \in BOOLEAN
        /\ UNCHANGED <<guard, hits, misses, raised, log>>
        /\ checks' = [checks EXCEPT ![res[w].hit] = @ + 1]
        /\ checks \in [BOOLEAN -> Nat]
    BY DEF NotifyMetrics, GuardBase, TypeOK, ValueTypes, Running, Results
  <1>2. \A v \in Workers \ {w} : pc'[v] = pc[v] /\ res'[v] = res[v]
    BY <1>1, ElsewhereSame
  <1>3. CASE res[w].hit = TRUE
    <2>1. HitChecks' = HitChecks + 1 /\ MissChecks' = MissChecks
      <3>1. checks' = [checks EXCEPT ![TRUE] = checks[TRUE] + 1]
        BY <1>1, <1>3
      <3>2. DOMAIN checks = BOOLEAN /\ TRUE # FALSE
        BY <1>1
      <3>3. checks'[TRUE] = checks[TRUE] + 1 /\ checks'[FALSE] = checks[FALSE]
        BY <3>1, <3>2, Zenon
      <3> QED
        BY <3>3, Zenon DEF HitChecks, MissChecks
    <2>2. /\ Hitting' = Hitting - 1 + 0 /\ Missing' = Missing - 0 + 0
          /\ LoggingHits' = LoggingHits - 0 + 1 /\ LoggingMisses' = LoggingMisses - 0 + 0
      BY <1>1, <1>2, <1>3, NotifyMetricsBase, Moved
    <2> QED
      BY <1>1, <2>1, <2>2, NotifyMetricsBase, Kept, Numbers DEF LookupsCounted, AnswersLogged
  <1>4. CASE res[w].hit = FALSE
    <2>1. HitChecks' = HitChecks /\ MissChecks' = MissChecks + 1
      <3>1. checks' = [checks EXCEPT ![FALSE] = checks[FALSE] + 1]
        BY <1>1, <1>4
      <3>2. DOMAIN checks = BOOLEAN /\ TRUE # FALSE
        BY <1>1
      <3>3. checks'[FALSE] = checks[FALSE] + 1 /\ checks'[TRUE] = checks[TRUE]
        BY <3>1, <3>2, Zenon
      <3> QED
        BY <3>3, Zenon DEF HitChecks, MissChecks
    <2>2. /\ Hitting' = Hitting - 0 + 0 /\ Missing' = Missing - 1 + 0
          /\ LoggingHits' = LoggingHits - 0 + 0 /\ LoggingMisses' = LoggingMisses - 0 + 1
      BY <1>1, <1>2, <1>4, NotifyMetricsBase, Moved
    <2> QED
      BY <1>1, <2>1, <2>2, NotifyMetricsBase, Kept, Numbers DEF LookupsCounted, AnswersLogged
  <1> QED
    BY <1>1, <1>3, <1>4

LEMMA NotifyLogBalanced ==
    ASSUME GuardBase, Balanced, NEW w \in Workers, NotifyLog(w)
    PROVE  Balanced'
  <1>1. /\ pc[w] = "log" /\ pc' = [pc EXCEPT ![w] = "idle"]
        /\ pc'[w] = "idle" /\ res' = [res EXCEPT ![w] = None] /\ res[w].hit \in BOOLEAN
        /\ UNCHANGED <<guard, checks, hits, misses, raised>>
    BY DEF NotifyLog, GuardBase, TypeOK, ValueTypes, Running, Results
  <1>2. \A v \in Workers \ {w} : pc'[v] = pc[v] /\ res'[v] = res[v]
    BY <1>1, ElsewhereSame
  <1>3. /\ GuardBase'
        /\ Len(log') = IF Len(log) < LogSize THEN Len(log) + 1 ELSE LogSize
    BY NotifyLogBase
  <1>4. /\ Hitting' = Hitting - 0 + 0 /\ Missing' = Missing - 0 + 0
        /\ LoggingHits' = LoggingHits - (IF res[w].hit THEN 1 ELSE 0) + 0
        /\ LoggingMisses' = LoggingMisses - (IF ~res[w].hit THEN 1 ELSE 0) + 0
    BY <1>1, <1>2, <1>3, Moved
  <1>9. HitChecks' = HitChecks /\ MissChecks' = MissChecks
    BY <1>1 DEF HitChecks, MissChecks
  <1>5. CASE res[w].hit
    BY <1>1, <1>9, <1>3, <1>4, <1>5, Kept, Numbers DEF LookupsCounted, AnswersLogged
  <1>6. CASE ~res[w].hit
    BY <1>1, <1>9, <1>3, <1>4, <1>6, Kept, Numbers DEF LookupsCounted, AnswersLogged
  <1> QED
    BY <1>5, <1>6

LEMMA StepBalanced ==
    ASSUME GuardBase, Balanced, NEW w \in Workers, Step(w) PROVE Balanced'
  BY CacheHitBalanced, CacheMissBalanced, DecideBalanced, LayerRaisesBalanced,
     FailClosedBalanced, CacheSetBalanced, NotifyMetricsBalanced, NotifyLogBalanced
     DEF Step

LEMMA StartedBalanced == Started => Balanced
  <1> SUFFICES ASSUME Started PROVE Balanced
    OBVIOUS
  <1>1. \A states, hit : "idle" \notin states => InFlight(states, hit) = 0
    <2> SUFFICES ASSUME NEW states, NEW hit, "idle" \notin states
                 PROVE  InFlight(states, hit) = 0
      OBVIOUS
    <2>1. {w \in Workers : pc[w] \in states /\ (pc[w] # "layers" /\ res[w].hit) = hit} = {}
      BY DEF Started
    <2> QED
      BY <2>1, FS_EmptySet DEF InFlight
  <1>2. Hitting = 0 /\ Missing = 0 /\ LoggingHits = 0 /\ LoggingMisses = 0
    BY <1>1 DEF Hitting, Missing, LoggingHits, LoggingMisses
  <1>3. HitChecks = 0 /\ MissChecks = 0 /\ hits = 0 /\ misses = 0 /\ raised = 0
        /\ Len(log) = 0
    BY DEF Started, HitChecks, MissChecks
  <1> QED
    BY <1>2, <1>3, LogAssumption DEF Balanced, Answered0

LEMMA StillBalanced ==
    ASSUME Balanced, UNCHANGED <<guard, hits, misses, raised, checks, log, pc, res>>
    PROVE  Balanced'
  BY DEF Balanced, Answered0, Hitting, Missing, LoggingHits, LoggingMisses, InFlight,
         HitChecks, MissChecks

(* The cache's statistics, the metrics and the decision log agree at every *)
(* moment, up to the threads between two of the steps that count           *)
(* (cache.py:69-80, core.py:168-190, decision_log.py).                     *)
THEOREM AlwaysAccounted == Spec => []Accounting
  <1>1. GuardBase /\ Balanced /\ [Next]_vars => GuardBase' /\ Balanced'
    <2> SUFFICES ASSUME GuardBase, Balanced, [Next]_vars PROVE GuardBase' /\ Balanced'
      OBVIOUS
    <2>1. Tick \/ Finished \/ UNCHANGED vars => Balanced'
      BY StillBalanced DEF Tick, Finished, vars
    <2> QED
      BY <2>1, NextBase, BeginBalanced, StepBalanced DEF Next
  <1>2. Balanced => Accounting
    BY AccountingIsBalanced
  <1> QED
    BY <1>1, <1>2, InitStarted, StartedBase, StartedBalanced, PTL DEF Spec

-----------------------------------------------------------------------------
(* The endpoint: the fixed window of RATE_BACKEND=redis, for any clients,  *)
(* limit, window, resolution of the clock, number of threads, instances    *)
(* and crashes.                                                            *)
Lasting == Window * TicksPerSecond

Windows == [no : Nat, from : Nat, seen : Nat, fit : Nat]
Promises == [no : Nat, at : Int]
Replies == [take : [count : Nat, ttl : Int], no : Nat]

WindowTypes ==
    /\ clock \in Nat
    /\ db \in [Clients -> {Nil} \cup [value : Nat, expires : Nat]]
    /\ window \in [Clients -> Windows]
    /\ promise \in [Clients -> Promises]

WorkerTypes ==
    /\ ep \in [Workers -> {"idle", "take", "reply", "check", "inside"}]
    /\ DOMAIN call = Workers /\ DOMAIN reply = Workers
    /\ \A w \in Workers :
          /\ ep[w] \in {"take", "reply"} => call[w].client \in Clients
          /\ ep[w] = "reply" => reply[w] \in Replies

(* The counter Redis keeps is that of the client's current window: it      *)
(* counted its calls, and it lasts Lasting ticks from its first.           *)
CounterOf(entry, win, t) ==
    IF entry = Nil
    THEN win.no = 0 /\ win.seen = 0 /\ win.fit = 0
    ELSE /\ win.no > 0
         /\ win.from <= t
         /\ entry.value = win.seen
         /\ entry.expires = win.from + Lasting

Counters == \A c \in Clients : CounterOf(db[c], window[c], clock)

(* An invitation is good if it is about a window that is over, or for a    *)
(* moment at which the counter will have expired.                          *)
Good(c, no, t) ==
    /\ no <= window[c].no
    /\ (no > 0 /\ no = window[c].no) => db[c].expires <= t

Invited == \A c \in Clients : Good(c, promise[c].no, promise[c].at)

(* A thread that holds Redis's answer will give a good one. *)
Informed ==
    \A w \in Workers :
        ep[w] = "reply" =>
            Good(call[w].client, reply[w].no,
                 clock + RetryAfter(reply[w].take) * TicksPerSecond)

IInv == WindowTypes /\ WorkerTypes /\ Counters /\ WindowExact /\ Invited /\ Informed

-----------------------------------------------------------------------------
LEMMA LastingPositive == Lasting \in Nat \ {0}
  <1>1. \A m, n \in Nat \ {0} : m * n \in Nat \ {0}
    OBVIOUS
  <1> QED
    BY <1>1, WindowAssumption, ServerAssumption DEF Lasting

(* What a transaction of take() does to a counter, and what it answers. *)
LEMMA TakeCounts ==
    ASSUME NEW e \in {Nil} \cup [value : Nat, expires : Nat],
           NEW win \in Windows, NEW t \in Nat, CounterOf(e, win, t)
    PROVE  LET f == AfterTake(e, 1, t)
           IN  /\ f \in [value : Nat, expires : Nat]
               /\ AsOf(e, t) = Nil => f = [value |-> 1, expires |-> t + Lasting]
               /\ AsOf(e, t) # Nil => f = [value |-> win.seen + 1,
                                           expires |-> win.from + Lasting]
               /\ AsOf(e, t) = Nil => e = Nil \/ win.from + Lasting <= t
               /\ AsOf(e, t) # Nil => e # Nil /\ t < win.from + Lasting
  <1>1. Lasting \in Nat \ {0}
    BY LastingPositive
  <1>2. NoTTL = 0
    BY DEF NoTTL
  <1>3. CASE AsOf(e, t) = Nil
    <2>1. IncrBy(e, 1, t) = [value |-> 1, expires |-> NoTTL]
      BY <1>3 DEF IncrBy
    <2>2. AfterTake(e, 1, t) = [value |-> 1, expires |-> t + Lasting]
      BY <2>1, <1>2 DEF AfterTake, ExpireNX, Expire, Lasting
    <2>3. e = Nil \/ win.from + Lasting <= t
      BY <1>1, <1>3 DEF AsOf, CounterOf
    <2> QED
      BY <1>1, <1>3, <2>2, <2>3
  <1>4. CASE AsOf(e, t) # Nil
    <2>1. e # Nil
      BY <1>4 DEF AsOf
    <2>2. /\ e \in [value : Nat, expires : Nat]
          /\ e.value = win.seen /\ e.expires = win.from + Lasting
      BY <2>1 DEF CounterOf
    <2>3. e.expires # NoTTL
      BY <1>1, <1>2, <2>2 DEF Windows
    <2>4. t < win.from + Lasting
      BY <1>1, <1>4, <2>1, <2>2, <2>3 DEF AsOf, Windows
    <2>5. IncrBy(e, 1, t) = [e EXCEPT !.value = @ + 1]
      BY <1>4 DEF IncrBy
    <2>6. AfterTake(e, 1, t) = [e EXCEPT !.value = @ + 1]
      BY <2>2, <2>3, <2>5 DEF AfterTake, ExpireNX
    <2>7. AfterTake(e, 1, t) = [value |-> win.seen + 1,
                                expires |-> win.from + Lasting]
      BY <2>2, <2>6
    <2> QED
      BY <1>1, <1>4, <2>1, <2>4, <2>7 DEF Windows
  <1> QED
    BY <1>3, <1>4

(* TTL rounds, and Retry-After makes up for it. *)
LEMMA RetryCovers ==
    ASSUME NEW e \in [value : Nat, expires : Nat], NEW t \in Nat, NEW n \in Nat,
           e.expires # NoTTL, e.expires <= t + Lasting
    PROVE  LET answer == [count |-> n, ttl |-> TTLReply(e, t)]
           IN  /\ answer \in [count : Nat, ttl : Int]
               /\ RetryAfter(answer) \in Int
               /\ e.expires <= t + RetryAfter(answer) * TicksPerSecond
  <1> DEFINE S == TicksPerSecond
             d == e.expires - t
             ttl == (d + S \div 2) \div S
  <1>1. S \in Nat \ {0} /\ Window \in Nat \ {0}
    BY ServerAssumption, WindowAssumption
  <1>2. d \in Int /\ d <= Lasting /\ Lasting = Window * S
    BY LastingPositive DEF Lasting
  <1>3. S \div 2 \in Nat
    BY <1>1
  <1>4. TTLReply(e, t) = ttl
    BY DEF TTLReply
  <1>5. ttl \in Int /\ d < (ttl + 1) * S
    <2>1. \A x \in Int, s \in Nat \ {0} : x \div s \in Int /\ x < (x \div s + 1) * s
      OBVIOUS
    <2> HIDE DEF d
    <2> QED
      BY <1>1, <1>2, <1>3, <2>1
  <1>6. d <= (Window + 1) * S
    BY <1>1, <1>2
  <1> DEFINE answer == [count |-> n, ttl |-> ttl]
  <1> HIDE DEF d, ttl
  <1>7. RetryAfter(answer) \in Int /\ d <= RetryAfter(answer) * S
    <2>1. CASE ttl > 0
      BY <1>1, <1>2, <1>5, <2>1 DEF RetryAfter, ResetIn
    <2>2. CASE ~(ttl > 0)
      BY <1>1, <1>2, <1>6, <2>2 DEF RetryAfter, ResetIn
    <2> QED
      BY <2>1, <2>2
  <1>8. RetryAfter(answer) * S \in Int
    BY <1>1, <1>7
  <1>9. e.expires <= t + RetryAfter(answer) * S
    BY <1>7, <1>8 DEF d
  <1> QED
    BY <1>4, <1>5, <1>7, <1>9

(* The steps of the guard do not touch time. *)
LEMMA GuardKeepsClock ==
    ASSUME NEW w \in Workers, Step(w) PROVE UNCHANGED clock
  BY DEF Step, CacheHit, CacheMiss, Decide, Conclude, LayerRaises, FailClosed,
         CacheSet, NotifyMetrics, NotifyLog

-----------------------------------------------------------------------------
(* A transaction, whoever sends it: it opens a window only when the last   *)
(* is over, and leaves every invitation as good as it was.                 *)
LEMMA ExecuteCounts ==
    ASSUME WindowTypes, Counters, WindowExact, NEW c \in Clients, Execute(c),
           UNCHANGED <<clock, promise>>
    PROVE  /\ WindowTypes' /\ Counters' /\ WindowExact'
           /\ \A d \in Clients, n \in Nat, t \in Int : Good(d, n, t) => Good(d, n, t)'
           /\ WindowAfter(c).no \in Nat
           /\ window'[c] = WindowAfter(c)
           /\ db'[c].expires <=
                 clock + RetryAfter(TakeReply(db[c], 1, clock)) * TicksPerSecond
           /\ TakeReply(db[c], 1, clock) \in [count : Nat, ttl : Int]
           /\ RetryAfter(TakeReply(db[c], 1, clock)) \in Int
           /\ \A d \in Clients :
                 (window'[d].no # window[d].no /\ window[d].no > 0)
                     => clock - window[d].from >= Lasting
  <1> DEFINE f == AfterTake(db[c], 1, clock)
             r == TakeReply(db[c], 1, clock)
             v == WindowAfter(c)
             win == window[c]
  <1>1. /\ Lasting \in Nat \ {0} /\ Limit \in Nat \ {0} /\ clock \in Nat
        /\ win \in Windows
        /\ db[c] \in {Nil} \cup [value : Nat, expires : Nat]
        /\ Nil \notin [value : Nat, expires : Nat]
        /\ CounterOf(db[c], win, clock)
    BY LastingPositive, WindowAssumption, ServerAssumption DEF WindowTypes, Counters
  <1>2. /\ f \in [value : Nat, expires : Nat]
        /\ AsOf(db[c], clock) = Nil
             => f = [value |-> 1, expires |-> clock + Lasting]
        /\ AsOf(db[c], clock) # Nil
             => f = [value |-> win.seen + 1, expires |-> win.from + Lasting]
        /\ AsOf(db[c], clock) = Nil => db[c] = Nil \/ win.from + Lasting <= clock
        /\ AsOf(db[c], clock) # Nil => db[c] # Nil /\ clock < win.from + Lasting
    BY <1>1, TakeCounts
  <1>3. r = [count |-> f.value, ttl |-> TTLReply(f, clock)]
    BY DEF TakeReply
  <1>4. Admits(r) <=> f.value <= Limit
    BY <1>3 DEF Admits
  <1>5. /\ AsOf(db[c], clock) = Nil =>
             v = [no |-> win.no + 1, from |-> clock, seen |-> 1,
                  fit |-> IF Admits(r) THEN 1 ELSE 0]
        /\ AsOf(db[c], clock) # Nil =>
             v = [win EXCEPT !.seen = @ + 1,
                             !.fit = @ + (IF Admits(r) THEN 1 ELSE 0)]
    BY DEF WindowAfter
  <1>6. /\ db' = [db EXCEPT ![c] = f]
        /\ window' = [window EXCEPT ![c] = v]
    BY DEF Execute
  <1> HIDE DEF f, v, r
  <1>7. win.fit = IF win.seen < Limit THEN win.seen ELSE Limit
    BY DEF WindowExact
  <1>8. /\ v \in Windows /\ CounterOf(f, v, clock)
        /\ v.fit = IF v.seen < Limit THEN v.seen ELSE Limit
    <2>1. CASE AsOf(db[c], clock) = Nil
      <3>1. /\ v.no = win.no + 1 /\ v.from = clock /\ v.seen = 1
            /\ v.fit = 1 /\ v \in Windows
        BY <1>1, <1>2, <1>4, <1>5, <2>1 DEF Windows
      <3>2. CounterOf(f, v, clock)
        BY <1>1, <1>2, <2>1, <3>1 DEF CounterOf, Windows
      <3> QED
        BY <1>1, <3>1, <3>2
    <2>2. CASE AsOf(db[c], clock) # Nil
      <3>1. win.no > 0 /\ win.from <= clock
        BY <1>1, <1>2, <2>2 DEF CounterOf
      <3>2. /\ v.no = win.no /\ v.from = win.from /\ v.seen = win.seen + 1
            /\ win.seen + 1 <= Limit => v.fit = win.fit + 1
            /\ win.seen + 1 > Limit => v.fit = win.fit
            /\ v \in Windows
        <4> DEFINE fits == IF Admits(r) THEN 1 ELSE 0
        <4>1. v = [win EXCEPT !.seen = @ + 1, !.fit = @ + fits]
          BY <1>5, <2>2
        <4>2. /\ win.seen + 1 <= Limit => fits = 1
              /\ win.seen + 1 > Limit => fits = 0
          BY <1>1, <1>2, <1>4, <2>2 DEF Windows
        <4>3. fits \in Nat
          OBVIOUS
        <4> HIDE DEF fits
        <4>4. v = [no |-> win.no, from |-> win.from, seen |-> win.seen + 1,
                   fit |-> win.fit + fits]
          BY <1>1, <4>1 DEF Windows
        <4>5. /\ win.no \in Nat /\ win.from \in Nat
              /\ win.seen + 1 \in Nat /\ win.fit + fits \in Nat
          BY <1>1, <4>3 DEF Windows
        <4> QED
          BY <1>1, <4>2, <4>4, <4>5 DEF Windows
      <3>3. CounterOf(f, v, clock)
        BY <1>1, <1>2, <2>2, <3>1, <3>2 DEF CounterOf, Windows
      <3> QED
        BY <1>1, <1>7, <3>2, <3>3 DEF Windows
    <2> QED
      BY <2>1, <2>2
  <1>9. WindowTypes'
    BY <1>2, <1>6, <1>8 DEF WindowTypes
  <1>10. Counters'
    BY <1>6, <1>8 DEF Counters, WindowTypes
  <1>11. WindowExact'
    BY <1>6, <1>8 DEF WindowExact, WindowTypes
  <1>12. /\ v.no >= win.no
         /\ v.no = win.no => AsOf(db[c], clock) # Nil
         /\ v.no > 0 /\ v.no = win.no => f.expires = db[c].expires
    <2>1. CASE AsOf(db[c], clock) = Nil
      BY <1>1, <1>5, <2>1 DEF Windows
    <2>2. CASE AsOf(db[c], clock) # Nil
      <3>1. v.no = win.no
        BY <1>1, <1>5, <2>2 DEF Windows
      <3>2. f.expires = db[c].expires
        BY <1>1, <1>2, <2>2 DEF CounterOf
      <3> QED
        BY <1>1, <2>2, <3>1, <3>2 DEF Windows
    <2> QED
      BY <2>1, <2>2
  <1>13. ASSUME NEW d \in Clients, NEW n \in Nat, NEW t \in Int, Good(d, n, t)
         PROVE  Good(d, n, t)'
    <2>1. CASE d # c
      BY <1>6, <1>13, <2>1 DEF Good, WindowTypes
    <2>2. CASE d = c
      <3>1. window'[d] = v /\ db'[d] = f
        BY <1>6, <2>2 DEF WindowTypes
      <3> QED
        BY <1>1, <1>8, <1>12, <1>13, <2>2, <3>1 DEF Good, Windows
    <2> QED
      BY <2>1, <2>2
  <1>14. /\ r \in [count : Nat, ttl : Int]
         /\ RetryAfter(r) \in Int
         /\ f.expires <= clock + RetryAfter(r) * TicksPerSecond
    <2>1. f.expires # NoTTL /\ f.expires <= clock + Lasting
      BY <1>1, <1>2, <1>8 DEF CounterOf, NoTTL, Windows
    <2>2. f.value \in Nat
      BY <1>2
    <2> QED
      BY <1>1, <1>2, <1>3, <2>1, <2>2, RetryCovers
  <1>15. window'[c] = v /\ db'[c] = f
    BY <1>6 DEF WindowTypes
  <1>16. ASSUME NEW d \in Clients, window'[d].no # window[d].no, window[d].no > 0
         PROVE  clock - window[d].from >= Lasting
    <2>1. d = c /\ v.no # win.no
      BY <1>6, <1>16 DEF WindowTypes
    <2>2. AsOf(db[c], clock) = Nil
      BY <1>1, <1>5, <2>1 DEF Windows
    <2>3. db[c] # Nil
      BY <1>1, <1>16, <2>1 DEF CounterOf
    <2> QED
      BY <1>1, <1>2, <2>1, <2>2, <2>3 DEF Windows
  <1> QED
    BY <1>8, <1>9, <1>10, <1>11, <1>13, <1>14, <1>15, <1>16 DEF Windows, v, r

(* Knowledge of the threads survives what leaves their variables alone and *)
(* every invitation good.                                                  *)
LEMMA StayInformed ==
    ASSUME WindowTypes, WorkerTypes, Informed, clock' = clock,
           NEW w \in Workers, ep'[w] = "reply", ep[w] = "reply",
           call'[w] = call[w], reply'[w] = reply[w],
           \A d \in Clients, n \in Nat, t \in Int : Good(d, n, t) => Good(d, n, t)'
    PROVE  /\ call'[w].client \in Clients
           /\ reply'[w] \in Replies
           /\ Good(call[w].client, reply[w].no,
                   clock + RetryAfter(reply[w].take) * TicksPerSecond)'
  <1> DEFINE x == RetryAfter(reply[w].take)
             t == clock + x * TicksPerSecond
  <1>1. call[w].client \in Clients /\ reply[w] \in Replies
    BY DEF WorkerTypes
  <1>2. x \in Int
    BY <1>1, WindowAssumption DEF Replies, RetryAfter, ResetIn
  <1>3. t \in Int
    <2>1. \A a \in Int, b \in Nat : a * b \in Int
      OBVIOUS
    <2> HIDE DEF x
    <2> QED
      BY <1>2, <2>1, ServerAssumption DEF WindowTypes
  <1>4. Good(call[w].client, reply[w].no, t)
    BY DEF Informed
  <1> QED
    BY <1>1, <1>3, <1>4 DEF Replies, Good

(* A step away from Redis, in which no thread obtains an answer. *)
LEMMA Quiet ==
    ASSUME IInv, UNCHANGED <<clock, db, window, promise>>, WorkerTypes',
           \A w \in Workers : ep'[w] = "reply" =>
               ep[w] = "reply" /\ call'[w] = call[w] /\ reply'[w] = reply[w]
    PROVE  IInv'
  <1>1. WindowTypes' /\ Counters' /\ WindowExact' /\ Invited'
    BY DEF IInv, WindowTypes, Counters, WindowExact, Invited, Good
  <1>2. Informed'
    BY DEF IInv, Informed, Good
  <1> QED
    BY <1>1, <1>2 DEF IInv

-----------------------------------------------------------------------------
LEMMA InitIInv == EndpointInit => IInv
  <1> SUFFICES ASSUME EndpointInit PROVE IInv
    OBVIOUS
  <1>1. WindowTypes /\ WorkerTypes
    BY DEF EndpointInit, Init, NoCall, WindowTypes, WorkerTypes, Windows, Promises
  <1>2. Counters /\ WindowExact
    BY WindowAssumption DEF EndpointInit, Counters, CounterOf, WindowExact
  <1>3. Invited /\ Informed
    BY DEF EndpointInit, Invited, Informed, Good
  <1> QED
    BY <1>1, <1>2, <1>3 DEF IInv

LEMMA ReceiveIInv ==
    ASSUME IInv, NEW w \in Workers, NEW c \in Clients, NEW r, Receive(w, c, r)
    PROVE  IInv'
  <1>1. WorkerTypes'
    BY DEF Receive, limiterVars, IInv, WorkerTypes
  <1> QED
    BY <1>1, Quiet DEF Receive, vars, limiterVars, IInv, WorkerTypes

LEMMA NotFoundIInv ==
    ASSUME IInv, NEW w \in Workers, NotFound(w)
    PROVE  IInv'
  <1>1. WorkerTypes'
    BY DEF NotFound, IInv, WorkerTypes
  <1> QED
    BY <1>1, Quiet DEF NotFound, vars, limiterVars

LEMMA AnsweredTypes ==
    ASSUME IInv, NEW w \in Workers, Answered(w)
    PROVE  /\ WorkerTypes'
           /\ \A v \in Workers : ep'[v] = "reply" =>
                 ep[v] = "reply" /\ call'[v] = call[v] /\ reply'[v] = reply[v]
  BY DEF Answered, IInv, WorkerTypes

LEMMA TakeIInv ==
    ASSUME IInv, NEW w \in Workers, Take(w)
    PROVE  IInv'
  <1> DEFINE c == call[w].client
             r == TakeReply(db[c], 1, clock)
             n == WindowAfter(c).no
  <1>1. c \in Clients
    BY DEF Take, IInv, WorkerTypes
  <1>2. Execute(c) /\ UNCHANGED <<clock, promise, call>>
    BY DEF Take, vars, historyVars
  <1>3. /\ ep' = [ep EXCEPT ![w] = "reply"]
        /\ reply' = [reply EXCEPT ![w] = [take |-> r, no |-> n]]
    BY DEF Take
  <1> HIDE DEF c, r, n
  <1>4. /\ WindowTypes' /\ Counters' /\ WindowExact'
        /\ \A d \in Clients, m \in Nat, t \in Int : Good(d, m, t) => Good(d, m, t)'
        /\ n \in Nat /\ window'[c].no = n
        /\ db'[c].expires <= clock + RetryAfter(r) * TicksPerSecond
        /\ r \in [count : Nat, ttl : Int]
    BY <1>1, <1>2, ExecuteCounts DEF IInv, r, n
  <1>5. WorkerTypes'
    BY <1>1, <1>2, <1>3, <1>4 DEF IInv, WorkerTypes, Replies, c
  <1>6. Invited'
    BY <1>2, <1>4 DEF IInv, Invited, WindowTypes, Promises
  <1>7. ASSUME NEW v \in Workers, ep'[v] = "reply"
        PROVE  Good(call[v].client, reply[v].no,
                    clock + RetryAfter(reply[v].take) * TicksPerSecond)'
    <2>1. CASE v = w
      <3>1. /\ reply'[v].take = r /\ reply'[v].no = n
            /\ call'[v].client = c
        BY <1>2, <1>3, <2>1 DEF IInv, WorkerTypes, c
      <3> QED
        BY <1>2, <1>4, <3>1 DEF Good
    <2>2. CASE v # w
      <3>1. /\ ep[v] = "reply" /\ reply'[v] = reply[v] /\ call'[v] = call[v]
            /\ clock' = clock
        BY <1>2, <1>3, <1>7, <2>2 DEF IInv, WorkerTypes
      <3> QED
        BY <1>4, <1>7, <3>1, StayInformed DEF IInv
    <2> QED
      BY <2>1, <2>2
  <1> QED
    BY <1>4, <1>5, <1>6, <1>7 DEF IInv, Informed

LEMMA OtherInstanceIInv ==
    ASSUME IInv, NEW c \in Clients, OtherInstance(c)
    PROVE  IInv'
  <1>1. Execute(c) /\ UNCHANGED <<clock, promise, ep, call, reply>>
    BY DEF OtherInstance, vars
  <1>2. /\ WindowTypes' /\ Counters' /\ WindowExact'
        /\ \A d \in Clients, m \in Nat, t \in Int : Good(d, m, t) => Good(d, m, t)'
    BY <1>1, ExecuteCounts DEF IInv
  <1>3. WorkerTypes'
    BY <1>1 DEF IInv, WorkerTypes
  <1>4. Invited'
    BY <1>1, <1>2 DEF IInv, Invited, WindowTypes, Promises
  <1>5. Informed'
    <2> SUFFICES ASSUME NEW v \in Workers, ep'[v] = "reply"
                 PROVE  Good(call[v].client, reply[v].no,
                             clock + RetryAfter(reply[v].take) * TicksPerSecond)'
      BY DEF Informed
    <2>1. /\ ep[v] = "reply" /\ reply'[v] = reply[v] /\ call'[v] = call[v]
          /\ clock' = clock
      BY <1>1
    <2> QED
      BY <1>2, <2>1, StayInformed DEF IInv
  <1> QED
    BY <1>2, <1>3, <1>4, <1>5 DEF IInv

LEMMA RedisFailsIInv ==
    ASSUME IInv, NEW w \in Workers, RedisFails(w)
    PROVE  IInv'
  BY AnsweredTypes, Quiet DEF RedisFails, vars, limiterVars, historyVars

LEMMA AllowIInv ==
    ASSUME IInv, NEW w \in Workers, Allow(w)
    PROVE  IInv'
  <1>1. WorkerTypes'
    BY DEF Allow, IInv, WorkerTypes
  <1> QED
    BY <1>1, Quiet DEF Allow, vars, historyVars, IInv, WorkerTypes

LEMMA StartCheckIInv ==
    ASSUME IInv, NEW w \in Workers, StartCheck(w)
    PROVE  IInv'
  <1>1. WorkerTypes'
    BY DEF StartCheck, IInv, WorkerTypes
  <1> QED
    BY <1>1, Quiet DEF StartCheck, Begin, limiterVars, historyVars, IInv, WorkerTypes

LEMMA RunCheckIInv ==
    ASSUME IInv, NEW w \in Workers, RunCheck(w)
    PROVE  IInv'
  <1>1. UNCHANGED <<clock, db, window, promise>>
    BY GuardKeepsClock DEF RunCheck, limiterVars, historyVars
  <1>2. CASE Answered(w)
    BY <1>1, <1>2, AnsweredTypes, Quiet
  <1>3. CASE UNCHANGED <<ep, call, reply>>
    <2>1. WorkerTypes'
      BY <1>3 DEF IInv, WorkerTypes
    <2> QED
      BY <1>1, <1>3, <2>1, Quiet
  <1> QED
    BY <1>2, <1>3 DEF RunCheck

(* The 429 hands the thread's good invitation to the client. *)
LEMMA RejectIInv ==
    ASSUME IInv, NEW w \in Workers, Reject(w)
    PROVE  IInv'
  <1> DEFINE c == call[w].client
             n == reply[w].no
             x == RetryAfter(reply[w].take)
             t == clock + x * TicksPerSecond
  <1>1. c \in Clients /\ reply[w] \in Replies
    BY DEF Reject, IInv, WorkerTypes
  <1>2. UNCHANGED <<clock, db, window>> /\ Answered(w)
    BY DEF Reject, vars
  <1>3. promise' = [promise EXCEPT ![c] = [no |-> n, at |-> t]]
    BY DEF Reject
  <1>4. n \in Nat /\ t \in Int
    <2>1. n \in Nat /\ x \in Int
      BY <1>1, WindowAssumption DEF Replies, RetryAfter, ResetIn
    <2>2. \A a \in Int, b \in Nat : a * b \in Int
      OBVIOUS
    <2> HIDE DEF n, x
    <2> QED
      BY <2>1, <2>2, ServerAssumption DEF IInv, WindowTypes
  <1>5. Good(c, n, t)
    BY DEF Reject, IInv, Informed
  <1> HIDE DEF c, n, t
  <1>6. WindowTypes'
    BY <1>1, <1>2, <1>3, <1>4 DEF IInv, WindowTypes, Promises
  <1>7. Counters' /\ WindowExact'
    BY <1>2 DEF IInv, Counters, WindowExact
  <1>8. Invited'
    <2> SUFFICES ASSUME NEW d \in Clients
                 PROVE  Good(d, promise[d].no, promise[d].at)'
      BY DEF Invited
    <2>1. CASE d = c
      <3>1. promise'[d] = [no |-> n, at |-> t]
        BY <1>3, <2>1 DEF IInv, WindowTypes
      <3> QED
        BY <1>2, <1>5, <2>1, <3>1 DEF Good
    <2>2. CASE d # c
      <3>1. promise'[d] = promise[d]
        BY <1>3, <2>2 DEF IInv, WindowTypes
      <3> QED
        BY <1>2, <3>1 DEF IInv, Invited, Good
    <2> QED
      BY <2>1, <2>2
  <1>9. Informed'
    <2>1. \A v \in Workers : ep'[v] = "reply" =>
             ep[v] = "reply" /\ call'[v] = call[v] /\ reply'[v] = reply[v]
      BY <1>2, AnsweredTypes
    <2> QED
      BY <1>2, <2>1 DEF IInv, Informed, Good
  <1> QED
    BY <1>2, <1>6, <1>7, <1>8, <1>9, AnsweredTypes DEF IInv

LEMMA TickIInv ==
    ASSUME IInv, EndpointTick
    PROVE  IInv'
  <1>1. clock' = clock + 1 /\ UNCHANGED endpointVars
    BY DEF EndpointTick, Tick
  <1>2. /\ UNCHANGED <<db, window, promise, ep, call, reply>>
        /\ clock \in Nat
    BY <1>1 DEF endpointVars, limiterVars, historyVars, IInv, WindowTypes
  <1>3. WindowTypes' /\ WorkerTypes' /\ WindowExact'
    BY <1>1, <1>2 DEF IInv, WindowTypes, WorkerTypes, WindowExact
  <1>4. Counters' /\ Invited'
    BY <1>1, <1>2 DEF IInv, WindowTypes, Windows, Counters, CounterOf, Invited, Good
  <1>5. ASSUME NEW w \in Workers, ep'[w] = "reply"
        PROVE  Good(call[w].client, reply[w].no,
                    clock + RetryAfter(reply[w].take) * TicksPerSecond)'
    <2> DEFINE c == call[w].client
               n == reply[w].no
               x == RetryAfter(reply[w].take) * TicksPerSecond
    <2>1. c \in Clients /\ n \in Nat /\ x \in Int
      <3>1. /\ c \in Clients /\ n \in Nat
            /\ RetryAfter(reply[w].take) \in Int
        BY <1>2, <1>5, WindowAssumption
           DEF IInv, WorkerTypes, Replies, RetryAfter, ResetIn
      <3>2. \A a \in Int, b \in Nat : a * b \in Int
        OBVIOUS
      <3> QED
        BY <3>1, <3>2, ServerAssumption
    <2>2. Good(c, n, clock + x)
      BY <1>2, <1>5 DEF IInv, Informed
    <2>3. n > 0 /\ n = window[c].no => db[c].expires \in Nat
      BY <2>1 DEF IInv, WindowTypes, Windows, Counters, CounterOf
    <2> HIDE DEF c, n, x
    <2>4. Good(c, n, clock + 1 + x)
      BY <1>2, <2>1, <2>2, <2>3 DEF Good
    <2> QED
      BY <1>1, <1>2, <2>4 DEF Good, c, n, x
  <1> QED
    BY <1>3, <1>4, <1>5 DEF IInv, Informed

LEMMA CrashIInv ==
    ASSUME IInv, Crash
    PROVE  IInv'
  <1>1. WorkerTypes' /\ \A w \in Workers : ep'[w] = "idle"
    BY DEF Crash, WorkerTypes, NoCall
  <1> QED
    BY <1>1, Quiet DEF Crash

LEMMA UnloadIInv ==
    ASSUME IInv, Unload
    PROVE  IInv'
  <1>1. WorkerTypes'
    BY DEF Unload, IInv, WorkerTypes
  <1> QED
    BY <1>1, Quiet DEF Unload, vars, limiterVars, historyVars

LEMMA Inductive == IInv /\ [EndpointNext]_allVars => IInv'
  <1> SUFFICES ASSUME IInv, [EndpointNext]_allVars PROVE IInv'
    OBVIOUS
  <1>1. ASSUME NEW w \in Workers, EndpointStep(w) PROVE IInv'
    BY <1>1, TakeIInv, RedisFailsIInv, AllowIInv, RejectIInv, StartCheckIInv,
       RunCheckIInv DEF EndpointStep
  <1>2. CASE UNCHANGED allVars
    <2>1. UNCHANGED <<clock, db, window, promise, ep, call, reply>>
      BY <1>2 DEF allVars, vars, endpointVars, limiterVars, historyVars
    <2>2. WorkerTypes'
      BY <2>1 DEF IInv, WorkerTypes
    <2> QED
      BY <2>1, <2>2, Quiet
  <1> QED
    BY <1>1, <1>2, TickIInv, CrashIInv, UnloadIInv, OtherInstanceIInv, NotFoundIInv,
       ReceiveIInv DEF EndpointNext, EndpointFinished

-----------------------------------------------------------------------------
(* The counters in Redis, the windows and what clients were told agree at  *)
(* every moment of the limiter (ratelimit.py:109-126).                     *)
THEOREM Invariant == EndpointSpec => []IInv
  BY InitIInv, Inductive, PTL DEF EndpointSpec

(* Of the calls a window saw, exactly the first Limit fit, over all        *)
(* instances, crashes and lost replies (ratelimit.py:118-124).             *)
THEOREM LimitExact == EndpointSpec => []WindowExact
  BY Invariant, PTL DEF IInv

(* A client that waits for Retry-After finds its window gone, for any      *)
(* resolution of the clock (ratelimit.py:123, sidecar.py:322).             *)
THEOREM RetryHonest == EndpointSpec => []RetryAfterHonest
  <1>1. ASSUME IInv PROVE RetryAfterHonest
    <2> SUFFICES ASSUME NEW c \in Clients, promise[c].no > 0,
                        clock >= promise[c].at, window[c].no = promise[c].no
                 PROVE  AsOf(db[c], clock) = Nil
      BY DEF RetryAfterHonest
    <2>1. /\ clock \in Nat /\ promise[c].at \in Int
          /\ db[c] \in {Nil} \cup [value : Nat, expires : Nat]
          /\ window[c] \in Windows
      BY <1>1 DEF IInv, WindowTypes, Promises
    <2>2. db[c].expires <= promise[c].at
      BY <1>1 DEF IInv, Invited, Good
    <2>3. /\ db[c] # Nil
          /\ db[c].expires = window[c].from + Lasting
      BY <1>1, <2>1 DEF IInv, Counters, CounterOf, Windows
    <2>4. db[c].expires # NoTTL
      BY <2>1, <2>3, LastingPositive DEF Windows, NoTTL
    <2>5. db[c].expires \in Nat
      BY <2>1, <2>3
    <2> QED
      BY <2>1, <2>2, <2>3, <2>4, <2>5 DEF AsOf
  <1> QED
    BY <1>1, Invariant, PTL

(* A window lasts window_seconds at least before the next one opens        *)
(* (ratelimit.py:119).                                                     *)
THEOREM NoEarlyWindow == EndpointSpec => WindowsLast
  <1> DEFINE Lasts == \A c \in Clients :
                         (window'[c].no # window[c].no /\ window[c].no > 0)
                             => clock - window[c].from >= Window * TicksPerSecond
  <1>1. ASSUME IInv, EndpointNext, NEW c \in Clients,
               window'[c].no # window[c].no, window[c].no > 0
        PROVE  clock - window[c].from >= Window * TicksPerSecond
    <2>1. ASSUME NEW d \in Clients, Execute(d), UNCHANGED <<clock, promise>>
          PROVE  clock - window[c].from >= Lasting
      BY <1>1, <2>1, ExecuteCounts DEF IInv
    <2>2. ASSUME NEW w \in Workers, Take(w)
          PROVE  clock - window[c].from >= Lasting
      <3>1. /\ call[w].client \in Clients /\ Execute(call[w].client)
            /\ UNCHANGED <<clock, promise>>
        BY <1>1, <2>2 DEF Take, vars, historyVars, IInv, WorkerTypes
      <3> QED
        BY <2>1, <3>1
    <2>3. ASSUME NEW d \in Clients, OtherInstance(d)
          PROVE  clock - window[c].from >= Lasting
      <3>1. Execute(d) /\ UNCHANGED <<clock, promise>>
        BY <2>3 DEF OtherInstance, vars
      <3> QED
        BY <2>1, <3>1
    <2>4. ASSUME NEW w \in Workers, EndpointStep(w), ~Take(w)
          PROVE  window' = window
      BY <2>4 DEF EndpointStep, RedisFails, Allow, Reject, StartCheck, RunCheck,
                  limiterVars
    <2>5. ASSUME NEW w \in Workers, NotFound(w) PROVE window' = window
      BY <2>5 DEF NotFound, limiterVars
    <2>6. ASSUME NEW w \in Workers, NEW d \in Clients, NEW r \in Calls,
                 Receive(w, d, r)
          PROVE  window' = window
      BY <2>6 DEF Receive, limiterVars
    <2>7. (EndpointTick \/ Crash \/ Unload \/ EndpointFinished) => window' = window
      BY DEF EndpointTick, Crash, Unload, EndpointFinished, allVars, endpointVars,
             limiterVars
    <2> QED
      BY <1>1, <2>2, <2>3, <2>4, <2>5, <2>6, <2>7 DEF EndpointNext, Lasting
  <1>2. IInv /\ [EndpointNext]_allVars => [Lasts]_allVars
    BY <1>1
  <1> QED
    BY <1>2, Invariant, PTL DEF EndpointSpec, WindowsLast

-----------------------------------------------------------------------------
(* The endpoint and the guard agree on what each thread is doing.          *)
Held ==
    /\ loaded \in BOOLEAN /\ allowed \in Nat /\ rejected \in Nat
    /\ \A w \in Workers :
          /\ ep[w] = "idle" => call[w] = None
          /\ ep[w] # "idle" => call[w] \in [client : Clients, req : Calls]
          /\ ep[w] = "inside" <=> pc[w] # "idle"

Whole == IInv /\ GuardBase /\ Held

LEMMA CallIsSomething ==
    ASSUME NEW c \in [client : Clients, req : Calls] PROVE c # None
  BY CallAssumption

(* A step of the guard concerns one thread, and one that is inside.        *)
LEMMA StepIsLocal ==
    ASSUME GuardBase, NEW w \in Workers, Step(w)
    PROVE  /\ pc[w] # "idle" /\ begun' = begun
           /\ \A v \in Workers \ {w} : pc'[v] = pc[v]
  BY DEF Step, CacheHit, CacheMiss, Decide, Conclude, LayerRaises, FailClosed,
         CacheSet, NotifyMetrics, NotifyLog, GuardBase, TypeOK, ValueTypes

LEMMA InitHeld == EndpointInit => Held
  BY DEF EndpointInit, Init, Held, NoCall

LEMMA ReceiveHeld ==
    ASSUME Whole, NEW w \in Workers, NEW c \in Clients, NEW r \in Calls, Receive(w, c, r)
    PROVE  Held'
  BY DEF Receive, vars, limiterVars, Whole, IInv, WorkerTypes, Held

LEMMA TakeHeld == ASSUME Whole, NEW w \in Workers, Take(w) PROVE Held'
  BY DEF Take, vars, Whole, IInv, WorkerTypes, Held

LEMMA AllowHeld == ASSUME Whole, NEW w \in Workers, Allow(w) PROVE Held'
  BY DEF Allow, vars, Whole, IInv, WorkerTypes, Held

LEMMA AnsweredHeld ==
    ASSUME Whole, NEW w \in Workers, Answered(w), pc'[w] = "idle",
           \A v \in Workers \ {w} : pc'[v] = pc[v],
           loaded' = loaded, allowed' = allowed, rejected' \in {rejected, rejected + 1}
    PROVE  Held'
  BY DEF Answered, Whole, IInv, WorkerTypes, Held

LEMMA RedisFailsHeld == ASSUME Whole, NEW w \in Workers, RedisFails(w) PROVE Held'
  <1>1. pc[w] = "idle"
    BY DEF RedisFails, Whole, Held
  <1> QED
    BY <1>1, AnsweredHeld DEF RedisFails, vars, limiterVars

LEMMA RejectHeld == ASSUME Whole, NEW w \in Workers, Reject(w) PROVE Held'
  <1>1. pc[w] = "idle"
    BY DEF Reject, Whole, Held
  <1> QED
    BY <1>1, AnsweredHeld DEF Reject, vars

LEMMA StartCheckHeld == ASSUME Whole, NEW w \in Workers, StartCheck(w) PROVE Held'
  <1>1. pc' = [pc EXCEPT ![w] = pc'[w]] /\ pc'[w] # "idle"
    BY DEF StartCheck, Begin, Whole, GuardBase, TypeOK, ValueTypes
  <1>2. UNCHANGED <<loaded, allowed, rejected, call>> /\ ep' = [ep EXCEPT ![w] = "inside"]
    BY DEF StartCheck, limiterVars
  <1>3. \A v \in Workers \ {w} : pc'[v] = pc[v]
    BY <1>1 DEF Whole, GuardBase, TypeOK, ValueTypes
  <1> QED
    BY <1>1, <1>2, <1>3 DEF StartCheck, Whole, IInv, WorkerTypes, Held

LEMMA RunCheckHeld == ASSUME Whole, NEW w \in Workers, RunCheck(w) PROVE Held'
  <1>1. \A v \in Workers \ {w} : pc'[v] = pc[v]
    BY StepIsLocal DEF RunCheck, Whole
  <1>2. UNCHANGED <<loaded, allowed, rejected>>
    BY DEF RunCheck, limiterVars
  <1>3. CASE pc'[w] = "idle"
    BY <1>1, <1>2, <1>3, AnsweredHeld DEF RunCheck
  <1>4. CASE pc'[w] # "idle"
    <2>1. UNCHANGED <<ep, call>> /\ ep[w] = "inside"
      BY <1>4 DEF RunCheck
    <2> QED
      BY <1>1, <1>2, <1>4, <2>1 DEF Whole, Held
  <1> QED
    BY <1>3, <1>4

LEMMA CrashStarts == ASSUME GuardBase, Crash PROVE Started'
  BY DEF Crash, Started, NoCall, GuardBase, TypeOK, ValueTypes

LEMMA CrashHeld == ASSUME Whole, Crash PROVE Held'
  BY DEF Crash, Held, Whole, NoCall

LEMMA OthersHeld ==
    ASSUME Whole,
           \/ EndpointTick \/ Unload \/ UNCHANGED allVars
           \/ \E c \in Clients : OtherInstance(c)
           \/ \E w \in Workers : NotFound(w)
    PROVE  Held'
  <1>1. UNCHANGED <<ep, call, pc, allowed, rejected>> /\ loaded' \in {loaded, FALSE}
    BY DEF EndpointTick, Tick, Unload, OtherInstance, NotFound, allVars, endpointVars,
           vars, limiterVars
  <1> QED
    BY <1>1 DEF Whole, Held

(* The guard of the composition takes steps of the guard, or starts anew.  *)
LEMMA GuardSteps ==
    ASSUME Whole, [EndpointNext]_allVars
    PROVE  \/ UNCHANGED vars
           \/ Tick
           \/ \E w \in Workers : Step(w)
           \/ \E w \in Workers, r \in Calls : Begin(w, r)
           \/ Started'
  <1>1. ASSUME NEW w \in Workers, StartCheck(w)
        PROVE  \E r \in Calls : Begin(w, r)
    <2>1. call[w].req \in Calls /\ Begin(w, call[w].req)
      BY <1>1 DEF StartCheck, Whole, Held
    <2> QED
      BY <2>1
  <1>2. ASSUME NEW w \in Workers, EndpointStep(w)
        PROVE  UNCHANGED vars \/ Step(w) \/ \E r \in Calls : Begin(w, r)
    BY <1>1, <1>2 DEF EndpointStep, Take, RedisFails, Allow, Reject, RunCheck
  <1>3. Crash => Started'
    BY CrashStarts DEF Whole
  <1>4. EndpointTick => Tick
    BY DEF EndpointTick
  <1>5. ASSUME NEW w \in Workers, NEW c \in Clients, NEW r \in Calls,
               Receive(w, c, r) \/ NotFound(w) \/ OtherInstance(c)
        PROVE  UNCHANGED vars
    BY <1>5 DEF Receive, NotFound, OtherInstance
  <1>6. \A c \in Clients : OtherInstance(c) => UNCHANGED vars
    BY DEF OtherInstance
  <1>7. \A w \in Workers : NotFound(w) => UNCHANGED vars
    BY DEF NotFound
  <1>8. Unload \/ EndpointFinished \/ UNCHANGED allVars => UNCHANGED vars
    BY DEF Unload, EndpointFinished, allVars
  <1> QED
    BY <1>2, <1>3, <1>4, <1>5, <1>6, <1>7, <1>8 DEF EndpointNext

LEMMA EndpointBase ==
    Whole /\ [EndpointNext]_allVars => GuardBase'
  <1>1. Started' => GuardBase'
    BY StartedBase, PTL
  <1> QED
    BY <1>1, GuardSteps, StutterBase, TickBase, StepBase, BeginBase DEF Whole

LEMMA EndpointHeld == Whole /\ [EndpointNext]_allVars => Held'
  <1> SUFFICES ASSUME Whole, [EndpointNext]_allVars PROVE Held'
    OBVIOUS
  <1>1. ASSUME NEW w \in Workers, EndpointStep(w) PROVE Held'
    BY <1>1, TakeHeld, RedisFailsHeld, AllowHeld, RejectHeld, StartCheckHeld,
       RunCheckHeld DEF EndpointStep
  <1> QED
    BY <1>1, ReceiveHeld, CrashHeld, OthersHeld DEF EndpointNext, EndpointFinished

LEMMA WholeInductive == Whole /\ [EndpointNext]_allVars => Whole'
  BY Inductive, EndpointBase, EndpointHeld DEF Whole

LEMMA InitWhole == EndpointInit => Whole
  BY InitIInv, InitHeld, InitStarted, StartedBase DEF EndpointInit, Whole

LEMMA AlwaysWhole == EndpointSpec => []Whole
  BY InitWhole, WholeInductive, PTL DEF EndpointSpec

(* Type correctness of the composition: a worker has a request as long as  *)
(* it is in the endpoint, and is in the guard exactly when it is inside.   *)
THEOREM EndpointTypes == EndpointSpec => []EndpointTypeOK
  <1>1. Whole => EndpointTypeOK
    BY CallIsSomething DEF Whole, Held, IInv, WindowTypes, WorkerTypes, EndpointTypeOK
  <1> QED
    BY <1>1, AlwaysWhole, PTL

(* The guard keeps its promises when requests reach it through the         *)
(* limiter, and through crashes of the process: every verdict is one its   *)
(* pipeline could give (core.py:114-166 behind sidecar.py:303-360).        *)
THEOREM EndpointVerdicts ==
    ASSUME StripInsensitive, BypassInSignature
    PROVE  EndpointSpec => []VerdictSound
  <1>1. Started' => GuardInv'
    BY StartedInv, PTL
  <1>2. Whole /\ GuardInv /\ [EndpointNext]_allVars => GuardInv'
    BY <1>1, GuardSteps, StutterInv, TickInv, StepInv, BeginBase, BeginSound DEF GuardInv
  <1>3. GuardInv => VerdictSound
    BY DEF GuardInv
  <1>4. EndpointInit => GuardInv
    BY InitStarted, StartedInv DEF EndpointInit
  <1> QED
    BY <1>2, <1>3, <1>4, AlwaysWhole, PTL DEF EndpointSpec

(* The counts still agree, each life of the process starting from nothing. *)
THEOREM EndpointAccounts == EndpointSpec => []Accounting
  <1>1. Started' => Balanced'
    BY StartedBalanced, PTL
  <1>2. Whole /\ Balanced /\ [EndpointNext]_allVars => Balanced'
    <2>1. Tick \/ UNCHANGED vars => (Balanced => Balanced')
      BY StillBalanced DEF Tick, vars
    <2> QED
      BY <1>1, <2>1, GuardSteps, StepBalanced, BeginBalanced DEF Whole
  <1>3. EndpointInit => Balanced
    BY InitStarted, StartedBalanced DEF EndpointInit
  <1>4. Balanced => Accounting
    BY AccountingIsBalanced
  <1> QED
    BY <1>2, <1>3, <1>4, AlwaysWhole, PTL DEF EndpointSpec
-----------------------------------------------------------------------------
(* SumFunction of the Functions module, its recursion laid open.           *)
Pick(s) == CHOOSE x \in s : TRUE

SumOver(f, g, s) == IF s = {} THEN 0 ELSE f[Pick(s)] + g[s \ {Pick(s)}]

PartSums(f) == CHOOSE g : g = [s \in SUBSET DOMAIN f |-> SumOver(f, g, s)]

LEMMA SumUnfolded == ASSUME NEW f PROVE SumFunction(f) = PartSums(f)[DOMAIN f]
  BY DEF SumFunction, SumFunctionOnSet, FoldFunctionOnSet, MapThenFoldSet,
         PartSums, SumOver, Pick

LEMMA PickSmaller ==
    ASSUME NEW s, IsFiniteSet(s), s # {}
    PROVE  /\ Pick(s) \in s
           /\ IsFiniteSet(s \ {Pick(s)})
           /\ Cardinality(s) \in Nat \ {0}
           /\ Cardinality(s \ {Pick(s)}) = Cardinality(s) - 1
  <1>1. Pick(s) \in s
    BY DEF Pick
  <1> QED
    BY <1>1, FS_RemoveElement, FS_CardinalityType, FS_EmptySet

(* The recursion has a solution, by induction on the size of the set.      *)
LEMMA SumsDefined ==
    ASSUME NEW f, IsFiniteSet(DOMAIN f)
    PROVE  \A s \in SUBSET DOMAIN f : PartSums(f)[s] = SumOver(f, PartSums(f), s)
  <1> DEFINE D == DOMAIN f
             Solves(g, n) == \A s \in SUBSET D :
                                Cardinality(s) <= n => g[s] = SumOver(f, g, s)
             Bad == {n \in Nat : ~\E g : Solves(g, n)}
  <1>1. \A s \in SUBSET D : IsFiniteSet(s) /\ Cardinality(s) \in Nat
    BY FS_Subset, FS_CardinalityType
  <1>2. Cardinality(D) \in Nat /\ \A s \in SUBSET D : Cardinality(s) <= Cardinality(D)
    BY FS_Subset, FS_CardinalityType
  <1>3. Bad = {}
    <2> SUFFICES ASSUME Bad # {} PROVE FALSE
      OBVIOUS
    <2>1. PICK n \in Bad : \A k \in Bad : n <= k
      <3> HIDE DEF Bad
      <3>1. Bad \in SUBSET Nat
        BY DEF Bad
      <3> QED
        BY <3>1, LeastNumber
    <2>2. n \in Nat /\ ~\E g : Solves(g, n)
      BY <2>1
    <2>3. n # 0
      <3> DEFINE g == [s \in SUBSET D |-> 0]
      <3>1. ASSUME NEW s \in SUBSET D, Cardinality(s) <= 0 PROVE s = {}
        BY <1>1, <3>1, FS_EmptySet
      <3>2. Solves(g, 0)
        BY <3>1 DEF SumOver
      <3> QED
        BY <2>2, <3>2
    <2>4. n - 1 \in Nat /\ n - 1 \notin Bad
      BY <2>1, <2>2, <2>3
    <2>5. PICK g : Solves(g, n - 1)
      BY <2>4
    <2> DEFINE h == [s \in SUBSET D |-> SumOver(f, g, s)]
    <2>6. ASSUME NEW s \in SUBSET D, Cardinality(s) <= n
          PROVE  h[s] = SumOver(f, h, s)
      <3>1. CASE s = {}
        BY <3>1 DEF SumOver
      <3>2. CASE s # {}
        <4> DEFINE r == s \ {Pick(s)}
        <4>1. r \in SUBSET D /\ Cardinality(r) <= n - 1
          BY <1>1, <2>2, <2>6, <3>2, PickSmaller
        <4>2. g[r] = SumOver(f, g, r)
          BY <2>5, <4>1
        <4>3. h[r] = g[r]
          BY <4>1, <4>2
        <4>4. h[s] = f[Pick(s)] + g[r]
          BY <3>2 DEF SumOver
        <4>5. SumOver(f, h, s) = f[Pick(s)] + h[r]
          BY <3>2 DEF SumOver
        <4> QED
          BY <4>3, <4>4, <4>5
      <3> QED
        BY <3>1, <3>2
    <2>7. Solves(h, n)
      BY <2>6
    <2> QED
      BY <2>2, <2>7
  <1>4. PICK g : Solves(g, Cardinality(D))
    BY <1>2, <1>3
  <1> DEFINE h == [s \in SUBSET D |-> SumOver(f, g, s)]
  <1>5. ASSUME NEW s \in SUBSET D PROVE h[s] = g[s] /\ SumOver(f, h, s) = SumOver(f, g, s)
    <2>1. \A r \in SUBSET D : g[r] = SumOver(f, g, r)
      BY <1>2, <1>4
    <2>2. \A r \in SUBSET D : h[r] = g[r]
      BY <2>1
    <2>3. CASE s = {}
      BY <2>2, <2>3 DEF SumOver
    <2>4. CASE s # {}
      <3>1. s \ {Pick(s)} \in SUBSET D
        OBVIOUS
      <3> QED
        BY <2>2, <2>4, <3>1 DEF SumOver
    <2> QED
      BY <2>2, <2>3, <2>4
  <1>6. h = [s \in SUBSET D |-> SumOver(f, h, s)]
    BY <1>5
  <1>7. \E k : k = [s \in SUBSET D |-> SumOver(f, k, s)]
    BY <1>6
  <1>8. PartSums(f) = [s \in SUBSET D |-> SumOver(f, PartSums(f), s)]
    BY <1>7, Zenon DEF PartSums
  <1> QED
    BY <1>8

(* The sum of integers is one, and follows a change of one of them.        *)
LEMMA SumChanges ==
    ASSUME NEW D, IsFiniteSet(D), NEW f \in [D -> Int], NEW h \in [D -> Int],
           NEW c \in D, \A d \in D \ {c} : h[d] = f[d]
    PROVE  /\ SumFunction(f) \in Int /\ SumFunction(h) \in Int
           /\ SumFunction(h) = SumFunction(f) - f[c] + h[c]
  <1> DEFINE F == PartSums(f)
             H == PartSums(h)
             Right(s) == /\ F[s] \in Int /\ H[s] \in Int
                         /\ H[s] = F[s] + (IF c \in s THEN h[c] - f[c] ELSE 0)
             Bad == {n \in Nat : \E s \in SUBSET D : Cardinality(s) = n /\ ~Right(s)}
  <1>1. \A s \in SUBSET D : IsFiniteSet(s) /\ Cardinality(s) \in Nat
    BY FS_Subset, FS_CardinalityType
  <1>2. /\ \A s \in SUBSET D : F[s] = SumOver(f, F, s)
        /\ \A s \in SUBSET D : H[s] = SumOver(h, H, s)
    <2>1. DOMAIN f = D /\ DOMAIN h = D
      OBVIOUS
    <2> QED
      BY <2>1, SumsDefined
  <1> HIDE DEF F, H
  <1>3. Bad = {}
    <2> SUFFICES ASSUME Bad # {} PROVE FALSE
      OBVIOUS
    <2>1. PICK n \in Bad : \A k \in Bad : n <= k
      <3> HIDE DEF Bad
      <3>1. Bad \in SUBSET Nat
        BY DEF Bad
      <3> QED
        BY <3>1, LeastNumber
    <2>2. PICK s \in SUBSET D : Cardinality(s) = n /\ ~Right(s)
      BY <2>1
    <2>3. CASE s = {}
      <3>1. F[s] = 0 /\ H[s] = 0
        BY <1>2, <2>3 DEF SumOver
      <3>2. c \notin s
        BY <2>3
      <3> QED
        BY <2>2, <3>1, <3>2
    <2>4. CASE s # {}
      <3> DEFINE x == Pick(s)
                 r == s \ {x}
      <3>1. x \in s /\ x \in D /\ r \in SUBSET D /\ Cardinality(r) = n - 1 /\ n \in Nat \ {0}
        BY <1>1, <2>2, <2>4, PickSmaller
      <3>2. F[s] = f[x] + F[r] /\ H[s] = h[x] + H[r]
        BY <1>2, <2>2, <2>4 DEF SumOver
      <3>3. Right(r)
        <4>1. n - 1 \notin Bad /\ n - 1 \in Nat
          BY <2>1, <3>1
        <4> QED
          BY <3>1, <4>1
      <3>4. f[x] \in Int /\ h[x] \in Int /\ f[c] \in Int /\ h[c] \in Int
        BY <3>1
      <3> HIDE DEF x
      <3>5. CASE x = c
        <4>1. c \in s /\ c \notin r
          BY <3>1, <3>5
        <4>2. F[s] = f[c] + F[r] /\ H[s] = h[c] + H[r]
          BY <3>2, <3>5
        <4> QED
          BY <2>2, <3>3, <3>4, <4>1, <4>2
      <3>6. CASE x # c
        <4>1. (c \in s <=> c \in r) /\ h[x] = f[x]
          BY <3>1, <3>6
        <4> QED
          BY <2>2, <3>2, <3>3, <3>4, <4>1
      <3> QED
        BY <3>5, <3>6
    <2> QED
      BY <2>3, <2>4
  <1>4. Right(D)
    <2>1. Cardinality(D) \in Nat /\ Cardinality(D) \notin Bad
      BY <1>1, <1>3
    <2> QED
      BY <2>1
  <1>5. SumFunction(f) = F[D] /\ SumFunction(h) = H[D]
    <2>1. DOMAIN f = D /\ DOMAIN h = D
      OBVIOUS
    <2> QED
      BY <2>1, SumUnfolded DEF F, H
  <1>6. f[c] \in Int /\ h[c] \in Int
    OBVIOUS
  <1> QED
    BY <1>4, <1>5, <1>6

(* A sum of naturals is one; of zeros, zero. *)
LEMMA SumNatural ==
    ASSUME NEW D, IsFiniteSet(D), NEW f \in [D -> Nat]
    PROVE  /\ SumFunction(f) \in Nat
           /\ (\A d \in D : f[d] = 0) => SumFunction(f) = 0
  <1> DEFINE F == PartSums(f)
             Right(s) == F[s] \in Nat /\ ((\A d \in D : f[d] = 0) => F[s] = 0)
             Bad == {n \in Nat : \E s \in SUBSET D : Cardinality(s) = n /\ ~Right(s)}
  <1>1. \A s \in SUBSET D : IsFiniteSet(s) /\ Cardinality(s) \in Nat
    BY FS_Subset, FS_CardinalityType
  <1>2. \A s \in SUBSET D : F[s] = SumOver(f, F, s)
    <2>1. DOMAIN f = D
      OBVIOUS
    <2> QED
      BY <2>1, SumsDefined
  <1> HIDE DEF F
  <1>3. Bad = {}
    <2> SUFFICES ASSUME Bad # {} PROVE FALSE
      OBVIOUS
    <2>1. PICK n \in Bad : \A k \in Bad : n <= k
      <3> HIDE DEF Bad
      <3>1. Bad \in SUBSET Nat
        BY DEF Bad
      <3> QED
        BY <3>1, LeastNumber
    <2>2. PICK s \in SUBSET D : Cardinality(s) = n /\ ~Right(s)
      BY <2>1
    <2>3. s # {}
      <3>1. F[s] = IF s = {} THEN 0 ELSE f[Pick(s)] + F[s \ {Pick(s)}]
        BY <1>2 DEF SumOver
      <3> QED
        BY <2>2, <3>1
    <2> DEFINE x == Pick(s)
               r == s \ {x}
    <2>4. x \in D /\ r \in SUBSET D /\ Cardinality(r) = n - 1 /\ n \in Nat \ {0}
      BY <1>1, <2>2, <2>3, PickSmaller
    <2>5. F[s] = f[x] + F[r]
      BY <1>2, <2>3 DEF SumOver
    <2>6. Right(r)
      <3>1. n - 1 \notin Bad /\ n - 1 \in Nat
        BY <2>1, <2>4
      <3> QED
        BY <2>4, <3>1
    <2>7. f[x] \in Nat
      BY <2>4
    <2> QED
      BY <2>2, <2>4, <2>5, <2>6, <2>7
  <1>4. Right(D)
    BY <1>1, <1>3
  <1> QED
    BY <1>4, SumUnfolded DEF F

-----------------------------------------------------------------------------
(* What the limiter lets in.  Room is what is left of the limit in a       *)
(* client's current window; Waiting counts the threads that hold a good    *)
(* answer and have not counted it yet.                                     *)
RoomOf(win) == IF win.no = 0 THEN 0 ELSE Limit - win.fit

Rooms == [c \in Clients |-> RoomOf(window[c])]
Numbered == [c \in Clients |-> window[c].no]

Admitted(w) == ep[w] = "reply" /\ Admits(reply[w].take)

Waiting == Cardinality({w \in Workers : Admitted(w)})
Checking == InEndpoint("check")

Room == SumFunction(Rooms)

(* The limit is spent on calls let in, on calls about to be, on room, and  *)
(* on answers that were lost.                                              *)
Spent == allowed + Waiting + Room <= Limit * TotalWindows

BegunAllowed == begun + Checking = allowed

Limited == BegunAllowed /\ Spent

LEMMA Movers ==
    ASSUME NEW w \in Workers,
           \A v \in Workers \ {w} : ep'[v] = ep[v] /\ reply'[v] = reply[v]
    PROVE  /\ Checking \in Nat /\ Waiting \in Nat
           /\ Checking' \in Nat /\ Waiting' \in Nat
           /\ Checking' = Checking - One(ep[w] = "check") + One(ep'[w] = "check")
           /\ Waiting' = Waiting - One(Admitted(w)) + One(Admitted(w)')
  <1> DEFINE A == {v \in Workers : ep[v] = "check"}
             B == {v \in Workers : ep'[v] = "check"}
             C == {v \in Workers : Admitted(v)}
             D == {v \in Workers : Admitted(v)'}
  <1>1. Checking = Cardinality(A) /\ Checking' = Cardinality(B)
    BY DEF Checking, InEndpoint
  <1>2. Waiting = Cardinality(C) /\ Waiting' = Cardinality(D)
    BY DEF Waiting, Admitted
  <1>3. /\ A \in SUBSET Workers /\ B \in SUBSET Workers
        /\ C \in SUBSET Workers /\ D \in SUBSET Workers
    OBVIOUS
  <1>4. /\ \A v \in Workers \ {w} : v \in A <=> v \in B
        /\ \A v \in Workers \ {w} : v \in C <=> v \in D
    BY DEF Admitted
  <1>5. /\ One(w \in A) = One(ep[w] = "check")
        /\ One(w \in B) = One(ep'[w] = "check")
        /\ One(w \in C) = One(Admitted(w))
        /\ One(w \in D) = One(Admitted(w)')
    BY DEF One, Admitted
  <1> HIDE DEF A, B, C, D
  <1>6. /\ Cardinality(A) \in Nat /\ Cardinality(B) \in Nat
        /\ Cardinality(B) = Cardinality(A) - One(w \in A) + One(w \in B)
    BY <1>3, <1>4, OneMoves
  <1>7. /\ Cardinality(C) \in Nat /\ Cardinality(D) \in Nat
        /\ Cardinality(D) = Cardinality(C) - One(w \in C) + One(w \in D)
    BY <1>3, <1>4, OneMoves
  <1> QED
    BY <1>1, <1>2, <1>5, <1>6, <1>7

(* The numbers of the limiter are numbers. *)
LimiterTyped ==
    /\ Rooms \in [Clients -> Nat] /\ Numbered \in [Clients -> Nat]
    /\ Room \in Nat /\ TotalWindows \in Nat

LEMMA LimiterNumbers == WindowTypes /\ WindowExact => LimiterTyped
  <1> SUFFICES ASSUME WindowTypes, WindowExact PROVE LimiterTyped
    OBVIOUS
  <1>1. ASSUME NEW c \in Clients
        PROVE  RoomOf(window[c]) \in Nat /\ window[c].no \in Nat
    BY WindowAssumption DEF WindowTypes, Windows, WindowExact, RoomOf
  <1>2. Rooms \in [Clients -> Nat] /\ Numbered \in [Clients -> Nat]
    BY <1>1 DEF Rooms, Numbered
  <1> QED
    BY <1>2, ClientsAssumption, SumNatural DEF Room, TotalWindows, Numbered, LimiterTyped

LEMMA LimiterNumbersNext == WindowTypes' /\ WindowExact' => LimiterTyped'
  BY LimiterNumbers, PTL

(* A transaction spends room, or opens a window. *)
LEMMA ExecuteSpends ==
    ASSUME WindowTypes, Counters, WindowExact, NEW c \in Clients, Execute(c),
           UNCHANGED <<clock, promise>>
    PROVE  LET fits == One(Admits(TakeReply(db[c], 1, clock)))
           IN  /\ LimiterTyped /\ LimiterTyped'
               /\ \/ TotalWindows' = TotalWindows /\ Room' = Room - fits
                  \/ TotalWindows' = TotalWindows + 1 /\ Room' + fits <= Room + Limit
  <1> DEFINE fits == One(Admits(TakeReply(db[c], 1, clock)))
             v == WindowAfter(c)
             win == window[c]
  <1>1. /\ WindowTypes' /\ WindowExact' /\ window'[c] = v
    BY ExecuteCounts
  <1>2. /\ window' = [window EXCEPT ![c] = v]
        /\ win \in Windows /\ v \in Windows /\ DOMAIN window = Clients
    BY <1>1 DEF Execute, WindowTypes
  <1>3. LimiterTyped /\ LimiterTyped'
    BY <1>1, LimiterNumbers, LimiterNumbersNext
  <1>4. \A d \in Clients \ {c} : Rooms'[d] = Rooms[d] /\ Numbered'[d] = Numbered[d]
    BY <1>2 DEF Rooms, Numbered
  <1>5. /\ Rooms[c] = RoomOf(win) /\ Rooms'[c] = RoomOf(v)
        /\ Numbered[c] = win.no /\ Numbered'[c] = v.no
    BY <1>1 DEF Rooms, Numbered
  <1>6. Room' = Room - RoomOf(win) + RoomOf(v)
    <2> DEFINE R == Rooms   R1 == Rooms'
    <2>1. R \in [Clients -> Int] /\ R1 \in [Clients -> Int]
      BY <1>3 DEF LimiterTyped
    <2>2. Room = SumFunction(R) /\ Room' = SumFunction(R1)
      BY DEF Room
    <2>3. \A d \in Clients \ {c} : R1[d] = R[d]
      BY <1>4
    <2> HIDE DEF R, R1
    <2>4. SumFunction(R1) = SumFunction(R) - R[c] + R1[c]
      BY <2>1, <2>3, ClientsAssumption, SumChanges
    <2>5. R[c] = RoomOf(win) /\ R1[c] = RoomOf(v)
      BY <1>5 DEF R, R1
    <2> QED
      BY <2>2, <2>4, <2>5
  <1>7. TotalWindows' = TotalWindows - win.no + v.no
    <2> DEFINE N == Numbered   N1 == Numbered'
    <2>1. N \in [Clients -> Int] /\ N1 \in [Clients -> Int]
      BY <1>3 DEF LimiterTyped
    <2>2. TotalWindows = SumFunction(N) /\ TotalWindows' = SumFunction(N1)
      BY DEF TotalWindows, Numbered
    <2>3. \A d \in Clients \ {c} : N1[d] = N[d]
      BY <1>4
    <2> HIDE DEF N, N1
    <2>4. SumFunction(N1) = SumFunction(N) - N[c] + N1[c]
      BY <2>1, <2>3, ClientsAssumption, SumChanges
    <2>5. N[c] = win.no /\ N1[c] = v.no
      BY <1>5 DEF N, N1
    <2> QED
      BY <2>2, <2>4, <2>5
  <1>8. /\ Limit \in Nat /\ win.no \in Nat /\ win.fit \in Nat
        /\ win.fit <= Limit /\ fits \in {0, 1} /\ Limit > 0
        /\ Room \in Nat /\ TotalWindows \in Nat
    BY <1>2, <1>3, WindowAssumption DEF Windows, WindowExact, One, LimiterTyped
  <1>9. CASE AsOf(db[c], clock) = Nil
    <2>1. v.no = win.no + 1 /\ v.fit = fits
      BY <1>9 DEF WindowAfter, One
    <2>2. RoomOf(v) = Limit - fits /\ RoomOf(win) >= 0 /\ RoomOf(win) \in Int
      BY <1>8, <2>1 DEF RoomOf
    <2> HIDE DEF fits, v, win
    <2>3. TotalWindows' = TotalWindows + 1 /\ Room' + fits <= Room + Limit
      BY <1>6, <1>7, <1>8, <2>1, <2>2
    <2> QED
      BY <1>3, <2>3 DEF fits
  <1>10. CASE AsOf(db[c], clock) # Nil
    <2>1. v.no = win.no /\ v.fit = win.fit + fits
      BY <1>2, <1>10 DEF WindowAfter, One, Windows
    <2>2. win.no > 0
      <3>1. db[c] # Nil
        BY <1>10 DEF AsOf
      <3> QED
        BY <3>1 DEF Counters, CounterOf
    <2>3. RoomOf(v) = RoomOf(win) - fits /\ RoomOf(win) \in Int
      BY <1>8, <2>1, <2>2 DEF RoomOf
    <2> HIDE DEF fits, v, win
    <2>4. TotalWindows' = TotalWindows /\ Room' = Room - fits
      BY <1>6, <1>7, <1>8, <2>1, <2>3
    <2> QED
      BY <1>3, <2>4 DEF fits
  <1> QED
    BY <1>9, <1>10

LEMMA WindowsAlone ==
    ASSUME window' = window PROVE Room' = Room /\ TotalWindows' = TotalWindows
  BY DEF Room, Rooms, TotalWindows

LEMMA Typed ==
    ASSUME Whole
    PROVE  /\ LimiterTyped /\ allowed \in Nat /\ begun \in Nat /\ Limit \in Nat \ {0}
           /\ Limit * TotalWindows \in Nat
  <1>1. /\ LimiterTyped /\ allowed \in Nat /\ begun \in Nat /\ Limit \in Nat \ {0}
    BY LimiterNumbers, WindowAssumption
       DEF Whole, IInv, Held, GuardBase, TypeOK, ValueTypes
  <1>2. \A m, n \in Nat : m * n \in Nat
    OBVIOUS
  <1> QED
    BY <1>1, <1>2 DEF LimiterTyped

(* A step of a thread that leaves the windows alone. *)
LEMMA ThreadLimited ==
    ASSUME Whole, Limited, NEW w \in Workers,
           \A v \in Workers \ {w} : ep'[v] = ep[v] /\ reply'[v] = reply[v],
           window' = window, allowed' \in Nat, begun' \in Nat,
           begun' + One(ep'[w] = "check") + allowed = begun + One(ep[w] = "check") + allowed',
           allowed' + One(Admitted(w)') <= allowed + One(Admitted(w))
    PROVE  Limited'
  <1> DEFINE a == allowed           a1 == allowed'
             b == begun             b1 == begun'
             c == Checking          c1 == Checking'
             n == Waiting           n1 == Waiting'
             p == One(Admitted(w))  p1 == One(Admitted(w)')
             q == One(ep[w] = "check")  q1 == One(ep'[w] = "check")
             l == Limit * TotalWindows
             r == Room
  <1>1. /\ a \in Nat /\ a1 \in Nat /\ b \in Nat /\ b1 \in Nat
        /\ p \in Nat /\ p1 \in Nat /\ q \in Nat /\ q1 \in Nat
        /\ l \in Nat /\ r \in Nat
    BY Typed DEF One, LimiterTyped
  <1>2. /\ c \in Nat /\ n \in Nat /\ c1 \in Nat /\ n1 \in Nat
        /\ c1 = c - q + q1 /\ n1 = n - p + p1
    BY Movers
  <1>3. b1 + q1 + a = b + q + a1 /\ a1 + p1 <= a + p
    OBVIOUS
  <1>4. b + c = a /\ a + n + r <= l
    BY DEF Limited, BegunAllowed, Spent
  <1>5. Room' = r /\ Limit * TotalWindows' = l
    BY WindowsAlone
  <1> HIDE DEF a, b, c, n, p, q, l, r, a1, b1, c1, n1, p1, q1
  <1>6. b1 + c1 = a1 /\ a1 + n1 + r <= l
    BY <1>1, <1>2, <1>3, <1>4
  <1>7. BegunAllowed'
    BY <1>6 DEF BegunAllowed, b1, c1, a1
  <1>8. Spent'
    BY <1>5, <1>6 DEF Spent, a1, n1
  <1> QED
    BY <1>7, <1>8 DEF Limited

(* A transaction; the thread that made it, if any, may now be let in. *)
LEMMA TransactionLimited ==
    ASSUME Whole, Limited, NEW c \in Clients, Execute(c),
           UNCHANGED <<clock, promise, begun, allowed>>,
           Checking' = Checking, Waiting \in Nat, Waiting' \in Nat,
           Waiting' <= Waiting + One(Admits(TakeReply(db[c], 1, clock)))
    PROVE  Limited'
  <1> DEFINE a == allowed   n == Waiting        n1 == Waiting'
             r == Room      r1 == Room'
             t == TotalWindows    t1 == TotalWindows'
             fits == One(Admits(TakeReply(db[c], 1, clock)))
  <1>1. /\ LimiterTyped /\ LimiterTyped'
        /\ \/ t1 = t /\ r1 = r - fits
           \/ t1 = t + 1 /\ r1 + fits <= r + Limit
    BY ExecuteSpends DEF Whole, IInv
  <1>2. /\ a \in Nat /\ n \in Nat /\ n1 \in Nat /\ r \in Nat /\ r1 \in Nat
        /\ t \in Nat /\ t1 \in Nat /\ fits \in Nat /\ Limit \in Nat
        /\ Limit * t \in Nat
    BY <1>1, Typed DEF LimiterTyped, One
  <1>3. n1 <= n + fits /\ a + n + r <= Limit * t
    BY DEF Limited, Spent
  <1> HIDE DEF a, n, r, t, n1, r1, t1, fits
  <1>4. a + n1 + r1 <= Limit * t1
    <2>1. CASE t1 = t /\ r1 = r - fits
      <3>1. a + n1 + r1 <= a + n + r
        BY <1>2, <1>3, <2>1
      <3> QED
        BY <1>2, <1>3, <2>1, <3>1
    <2>2. CASE t1 = t + 1 /\ r1 + fits <= r + Limit
      <3>1. Limit * t1 = Limit * t + Limit
        BY <1>2, <2>2
      <3> DEFINE l == Limit * t
      <3>2. l \in Nat /\ a + n + r <= l /\ Limit * t1 = l + Limit
        BY <1>2, <1>3, <3>1
      <3> HIDE DEF l
      <3>3. a + n1 + r1 <= l + Limit
        BY <1>2, <1>3, <2>2, <3>2
      <3> QED
        BY <3>2, <3>3
    <2> QED
      BY <1>1, <2>1, <2>2
  <1>5. Spent'
    BY <1>4 DEF Spent, a, n1, r1, t1
  <1>6. BegunAllowed'
    BY DEF Limited, BegunAllowed
  <1> QED
    BY <1>5, <1>6 DEF Limited

LEMMA WaitingNat == Waiting \in Nat /\ Checking \in Nat
  BY WorkersAssumption, FS_Subset, FS_CardinalityType DEF Waiting, Checking, InEndpoint

LEMMA OtherInstanceLimited ==
    ASSUME Whole, Limited, NEW c \in Clients, OtherInstance(c) PROVE Limited'
  <1>1. /\ Execute(c)
        /\ UNCHANGED <<clock, promise, begun, allowed, ep, reply>>
    BY DEF OtherInstance, vars
  <1>2. Checking' = Checking /\ Waiting' = Waiting
    BY <1>1 DEF Checking, InEndpoint, Waiting, Admitted
  <1>3. One(Admits(TakeReply(db[c], 1, clock))) \in Nat
    BY DEF One
  <1>4. Waiting \in Nat /\ Waiting' \in Nat
    BY <1>2, WaitingNat
  <1>5. Waiting' <= Waiting + One(Admits(TakeReply(db[c], 1, clock)))
    BY <1>2, <1>3, <1>4
  <1> QED
    BY <1>1, <1>2, <1>4, <1>5, TransactionLimited

LEMMA TakeLimited ==
    ASSUME Whole, Limited, NEW w \in Workers, Take(w) PROVE Limited'
  <1> DEFINE c == call[w].client
             r == TakeReply(db[c], 1, clock)
  <1>1. c \in Clients
    BY DEF Take, Whole, IInv, WorkerTypes
  <1>2. /\ Execute(c) /\ UNCHANGED <<clock, promise, begun, allowed>>
    BY DEF Take, vars, historyVars
  <1>3. /\ ep[w] = "take" /\ ep'[w] = "reply" /\ reply'[w].take = r
        /\ \A v \in Workers \ {w} : ep'[v] = ep[v] /\ reply'[v] = reply[v]
    BY DEF Take, Whole, IInv, WorkerTypes
  <1>4. /\ One(ep[w] = "check") = 0 /\ One(ep'[w] = "check") = 0
        /\ One(Admitted(w)) = 0 /\ One(Admitted(w)') = One(Admits(r))
        /\ One(Admits(r)) \in Nat
    BY <1>3 DEF One, Admitted
  <1>5. /\ Checking' = Checking /\ Waiting' = Waiting + One(Admits(r))
        /\ Waiting \in Nat /\ Waiting' \in Nat
    BY <1>3, <1>4, Movers
  <1>6. Waiting' <= Waiting + One(Admits(r))
    BY <1>4, <1>5
  <1> QED
    BY <1>1, <1>2, <1>5, <1>6, TransactionLimited

LEMMA RedisFailsLimited ==
    ASSUME Whole, Limited, NEW w \in Workers, RedisFails(w) PROVE Limited'
  <1>1. /\ ep[w] \in {"take", "reply"} /\ ep'[w] = "idle"
        /\ \A v \in Workers \ {w} : ep'[v] = ep[v] /\ reply'[v] = reply[v]
        /\ UNCHANGED <<window, allowed, begun>>
    BY DEF RedisFails, Answered, vars, limiterVars, Whole, IInv, WorkerTypes
  <1>2. /\ One(ep[w] = "check") = 0 /\ One(ep'[w] = "check") = 0
        /\ One(Admitted(w)') = 0 /\ One(Admitted(w)) \in Nat
    BY <1>1 DEF One, Admitted
  <1> QED
    BY <1>1, <1>2, Typed, ThreadLimited

LEMMA AllowLimited ==
    ASSUME Whole, Limited, NEW w \in Workers, Allow(w) PROVE Limited'
  <1>1. /\ ep[w] = "reply" /\ Admits(reply[w].take) /\ ep'[w] = "check"
        /\ \A v \in Workers \ {w} : ep'[v] = ep[v] /\ reply'[v] = reply[v]
        /\ UNCHANGED <<window, begun>> /\ allowed' = allowed + 1
    BY DEF Allow, vars, Whole, IInv, WorkerTypes
  <1>2. /\ One(ep[w] = "check") = 0 /\ One(ep'[w] = "check") = 1
        /\ One(Admitted(w)') = 0 /\ One(Admitted(w)) = 1
    BY <1>1 DEF One, Admitted
  <1> QED
    BY <1>1, <1>2, Typed, ThreadLimited

LEMMA RejectLimited ==
    ASSUME Whole, Limited, NEW w \in Workers, Reject(w) PROVE Limited'
  <1>1. /\ ep[w] = "reply" /\ ~Admits(reply[w].take) /\ ep'[w] = "idle"
        /\ \A v \in Workers \ {w} : ep'[v] = ep[v] /\ reply'[v] = reply[v]
        /\ UNCHANGED <<window, begun, allowed>>
    BY DEF Reject, Answered, vars, Whole, IInv, WorkerTypes
  <1>2. /\ One(ep[w] = "check") = 0 /\ One(ep'[w] = "check") = 0
        /\ One(Admitted(w)') = 0 /\ One(Admitted(w)) = 0
    BY <1>1 DEF One, Admitted
  <1> QED
    BY <1>1, <1>2, Typed, ThreadLimited

LEMMA StartCheckLimited ==
    ASSUME Whole, Limited, NEW w \in Workers, StartCheck(w) PROVE Limited'
  <1>1. /\ ep[w] = "check" /\ ep'[w] = "inside"
        /\ \A v \in Workers \ {w} : ep'[v] = ep[v] /\ reply'[v] = reply[v]
        /\ UNCHANGED <<window, allowed>> /\ begun' = begun + 1
    BY DEF StartCheck, Begin, limiterVars, Whole, IInv, WorkerTypes
  <1>2. /\ One(ep[w] = "check") = 1 /\ One(ep'[w] = "check") = 0
        /\ One(Admitted(w)') = 0 /\ One(Admitted(w)) = 0
    BY <1>1 DEF One, Admitted
  <1> QED
    BY <1>1, <1>2, Typed, ThreadLimited

LEMMA RunCheckLimited ==
    ASSUME Whole, Limited, NEW w \in Workers, RunCheck(w) PROVE Limited'
  <1>1. begun' = begun
    BY StepIsLocal DEF RunCheck, Whole
  <1>2. /\ ep[w] = "inside" /\ ep'[w] \in {"inside", "idle"}
        /\ \A v \in Workers \ {w} : ep'[v] = ep[v] /\ reply'[v] = reply[v]
        /\ UNCHANGED <<window, allowed>>
    BY DEF RunCheck, Answered, limiterVars, Whole, IInv, WorkerTypes
  <1>3. /\ One(ep[w] = "check") = 0 /\ One(ep'[w] = "check") = 0
        /\ One(Admitted(w)') = 0 /\ One(Admitted(w)) = 0
    BY <1>2 DEF One, Admitted
  <1> QED
    BY <1>1, <1>2, <1>3, Typed, ThreadLimited

LEMMA ReceiveLimited ==
    ASSUME Whole, Limited, NEW w \in Workers, NEW c \in Clients, NEW r \in Calls,
           Receive(w, c, r)
    PROVE  Limited'
  <1>1. /\ ep[w] = "idle" /\ ep'[w] = "take"
        /\ \A v \in Workers \ {w} : ep'[v] = ep[v] /\ reply'[v] = reply[v]
        /\ UNCHANGED <<window, allowed, begun>>
    BY DEF Receive, vars, limiterVars, Whole, IInv, WorkerTypes
  <1>2. /\ One(ep[w] = "check") = 0 /\ One(ep'[w] = "check") = 0
        /\ One(Admitted(w)') = 0 /\ One(Admitted(w)) = 0
    BY <1>1 DEF One, Admitted
  <1> QED
    BY <1>1, <1>2, Typed, ThreadLimited

LEMMA CrashLimited == ASSUME Whole, Limited, Crash PROVE Limited'
  <1>1. /\ allowed' = 0 /\ begun' = 0 /\ window' = window
        /\ \A w \in Workers : ep'[w] = "idle"
    BY DEF Crash
  <1>2. {w \in Workers : ep'[w] = "check"} = {} /\ {w \in Workers : Admitted(w)'} = {}
    BY <1>1 DEF Admitted
  <1>3. Checking' = 0
    BY <1>2, FS_EmptySet DEF Checking, InEndpoint
  <1>4. Waiting' = 0
    BY <1>2, FS_EmptySet DEF Waiting
  <1>5. Room <= Limit * TotalWindows
    BY Typed, WaitingNat DEF Limited, Spent, LimiterTyped
  <1>6. Room' = Room /\ TotalWindows' = TotalWindows
    BY <1>1, WindowsAlone
  <1>7. BegunAllowed'
    BY <1>1, <1>3 DEF BegunAllowed
  <1>8. Spent'
    BY <1>1, <1>4, <1>5, <1>6, Typed DEF Spent, LimiterTyped
  <1> QED
    BY <1>7, <1>8 DEF Limited

LEMMA StillLimited ==
    ASSUME Limited, UNCHANGED <<ep, reply, window, allowed, begun>> PROVE Limited'
  BY WindowsAlone
     DEF Limited, BegunAllowed, Spent, Checking, InEndpoint, Waiting, Admitted

LEMMA InitLimited == EndpointInit => Limited
  <1> SUFFICES ASSUME EndpointInit PROVE Limited
    OBVIOUS
  <1>1. /\ allowed = 0 /\ begun = 0
        /\ \A w \in Workers : ep[w] = "idle"
        /\ window = [c \in Clients |-> [no |-> 0, from |-> 0, seen |-> 0, fit |-> 0]]
    BY DEF EndpointInit, Init
  <1>2. {w \in Workers : ep[w] = "check"} = {} /\ {w \in Workers : Admitted(w)} = {}
    BY <1>1 DEF Admitted
  <1>3. Checking = 0
    BY <1>2, FS_EmptySet DEF Checking, InEndpoint
  <1>4. Waiting = 0
    BY <1>2, FS_EmptySet DEF Waiting
  <1>5. /\ Rooms \in [Clients -> Nat] /\ Numbered \in [Clients -> Nat]
        /\ \A c \in Clients : Rooms[c] = 0 /\ Numbered[c] = 0
    BY <1>1 DEF Rooms, RoomOf, Numbered
  <1>6. Room = 0
    BY <1>5, ClientsAssumption, SumNatural DEF Room
  <1>7. TotalWindows = 0
    <2>1. SumFunction(Numbered) = 0
      BY <1>5, ClientsAssumption, SumNatural
    <2> QED
      BY <2>1 DEF TotalWindows, Numbered
  <1>8. Limit * TotalWindows = 0
    BY <1>7, WindowAssumption
  <1>9. Spent
    BY <1>1, <1>4, <1>6, <1>8 DEF Spent
  <1> QED
    BY <1>1, <1>3, <1>9 DEF Limited, BegunAllowed

LEMMA LimitedInductive ==
    Whole /\ Limited /\ [EndpointNext]_allVars => Limited'
  <1> SUFFICES ASSUME Whole, Limited, [EndpointNext]_allVars PROVE Limited'
    OBVIOUS
  <1>1. ASSUME NEW w \in Workers, EndpointStep(w) PROVE Limited'
    BY <1>1, TakeLimited, RedisFailsLimited, AllowLimited, RejectLimited,
       StartCheckLimited, RunCheckLimited DEF EndpointStep
  <1>2. CASE EndpointTick
    BY <1>2, StillLimited DEF EndpointTick, Tick, endpointVars, limiterVars
  <1>3. CASE Unload
    BY <1>3, StillLimited DEF Unload, vars, limiterVars
  <1>4. ASSUME NEW w \in Workers, NotFound(w) PROVE Limited'
    BY <1>4, StillLimited DEF NotFound, vars, limiterVars
  <1>5. CASE UNCHANGED allVars
    BY <1>5, StillLimited DEF allVars, vars, endpointVars, limiterVars
  <1> QED
    BY <1>1, <1>2, <1>3, <1>4, <1>5, ReceiveLimited, CrashLimited,
       OtherInstanceLimited DEF EndpointNext, EndpointFinished

(* No check begins that the limiter did not let in, and it lets in no more *)
(* than its limit times the windows opened so far, whatever replies are    *)
(* lost and however often the process crashes (sidecar.py:310-326).        *)
THEOREM LimiterComesFirst == EndpointSpec => []LimitedBeforeCheck
  <1>1. Whole /\ Limited => LimitedBeforeCheck
    <2> SUFFICES ASSUME Whole, Limited PROVE LimitedBeforeCheck
      OBVIOUS
    <2>1. begun + InEndpoint("check") = allowed
      BY DEF Limited, BegunAllowed, Checking
    <2>2. allowed + Waiting + Room <= Limit * TotalWindows
      BY DEF Limited, Spent
    <2>3. allowed <= Limit * TotalWindows
      BY <2>2, Typed, WaitingNat DEF LimiterTyped
    <2> QED
      BY <2>1, <2>3 DEF LimitedBeforeCheck
  <1> QED
    BY <1>1, InitLimited, LimitedInductive, AlwaysWhole, PTL DEF EndpointSpec
=============================================================================
