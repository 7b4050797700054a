------------------------------- MODULE Route -------------------------------
(***************************************************************************)
(* POST /v1/route (domain_guard/sidecar.py) and the GuardRouter it keeps   *)
(* in a global (domain_guard/router.py), called by several threads while   *)
(* the registry changes.  No lock is held: the registry's snapshot, the    *)
(* comparison with the signature, the two writes of a rebuild, the reading *)
(* of the global router and every use of its sticky map are separate       *)
(* moments, and a guard's check() lies between them.                       *)
(*                                                                         *)
(* A guard object is [name, ver]: a reload under the same name makes a new *)
(* version.  What check() answers is left open: it depends on the message, *)
(* the guard's configuration and its providers (module GuardCheck); and so *)
(* is what the limiter answers (modules TokenBucket and CheckEndpoint).    *)
(***************************************************************************)
EXTENDS Integers, Sequences, FiniteSets, SequencesExt

CONSTANTS
    Workers,        \* threads of the server's pool
    Sessions,       \* session ids
    Scopes,         \* values of available_guards: sets of names, or None
    GuardNames,     \* names of guards
    Loaded,         \* the names loaded at startup, in order
    Confidences,    \* what a guard that blocks may report as its confidence
    None,           \* Python's None
    MaxRoutes,      \* bound: requests
    MaxChanges      \* bound: changes of the registry and calls of clear_sticky

ASSUME RouteAssumption ==
    /\ Loaded \in Seq(GuardNames) /\ Loaded # <<>>
    /\ None \notin Sessions \cup GuardNames
    /\ None \notin [name : GuardNames, ver : 0 .. MaxChanges]
    /\ Confidences \subseteq Int
    /\ MaxRoutes \in Nat /\ MaxChanges \in Nat
    /\ Scopes \subseteq (SUBSET GuardNames) \cup {None}

VARIABLES
    guards,     \* the registry's guards, in order
    changes,    \* history: changes and clearances so far
    routers,    \* every router built: its guards and its sticky map
    current,    \* router_singleton: an index of routers, or 0
    signature,  \* router_guards_signature
    pc,         \* where each worker is in route()
    session,    \* its request's session_id or None
    scope,      \* its request's available_guards or None
    snapshot,   \* what all_guards() returned to it
    mine,       \* the router it calls
    sticky,     \* the guard object its session sticks to
    at,         \* the guard it tries next
    blocked,    \* its alternatives: name and confidence of the guards that blocked
    answer,     \* the guard it is routed to, or None
    begun,      \* history: requests
    live,       \* history: guards loaded at some moment of each request
    last,       \* history: the last guard that passed for each session
    crossed,    \* history: sessions with two requests at once
    raced,      \* history: two workers were rebuilding at once
    overlapped, \* history: two requests were in progress at once
    renewed     \* history: a name got a new guard

registry == <<guards, changes, live, renewed>>

global == <<routers, current, signature>>

request == <<session, scope, snapshot, begun, crossed, overlapped>>

vars == <<registry, global, request, pc, mine, sticky, at, blocked, answer,
          last, raced>>

-----------------------------------------------------------------------------
NamesOf(gs) == [i \in DOMAIN gs |-> gs[i].name]

InScope(name, names) == names # None => name \in names

Init ==
    /\ guards = [i \in DOMAIN Loaded |-> [name |-> Loaded[i], ver |-> 0]]
    /\ changes = 0
    /\ routers = <<>>
    /\ current = 0
    /\ signature = <<>>
    /\ pc = [w \in Workers |-> "idle"]
    /\ session = [w \in Workers |-> None]
    /\ scope = [w \in Workers |-> None]
    /\ snapshot = [w \in Workers |-> <<>>]
    /\ mine = [w \in Workers |-> 0]
    /\ sticky = [w \in Workers |-> None]
    /\ at = [w \in Workers |-> 1]
    /\ blocked = [w \in Workers |-> <<>>]
    /\ answer = [w \in Workers |-> None]
    /\ begun = 0
    /\ live = [w \in Workers |-> {}]
    /\ last = [s \in Sessions |-> None]
    /\ crossed = {}
    /\ raced = FALSE
    /\ overlapped = FALSE
    /\ renewed = FALSE

Busy == {w \in Workers : pc[w] # "idle"}

(* all_guards() under the registry's lock; without guards the answer is    *)
(* 503 and nothing happens.                                                *)
NoGuards(w) ==
    /\ pc[w] = "idle"
    /\ begun < MaxRoutes
    /\ guards = <<>>
    /\ begun' = begun + 1
    /\ UNCHANGED <<registry, global, session, scope, snapshot, crossed, overlapped,
                   pc, mine, sticky, at, blocked, answer, last, raced>>

Begin(w, s, names) ==
    /\ pc[w] = "idle"
    /\ begun < MaxRoutes
    /\ guards # <<>>
    /\ begun' = begun + 1
    /\ session' = [session EXCEPT ![w] = s]
    /\ scope' = [scope EXCEPT ![w] = names]
    /\ snapshot' = [snapshot EXCEPT ![w] = guards]
    /\ live' = [live EXCEPT ![w] = ToSet(guards)]
    /\ crossed' = IF \E v \in Busy : session[v] = s THEN crossed \cup {s} ELSE crossed
    /\ overlapped' = (overlapped \/ Busy # {})
    /\ pc' = [pc EXCEPT ![w] = "limit"]
    /\ UNCHANGED <<guards, changes, renewed, global, mine, sticky, at, blocked,
                   answer, last, raced>>

(* The limiter lets the request in; Refused, below, is its other answer. *)
Admitted(w) ==
    /\ pc[w] = "limit"
    /\ pc' = [pc EXCEPT ![w] = "compare"]
    /\ UNCHANGED <<registry, global, request, mine, sticky, at, blocked, answer, last,
                   raced>>

(* Does the router have to be rebuilt?  Only the names count. *)
\* Mutant of Outdated: only the number of guards counts.
OutdatedByCount(w) == current = 0 \/ Len(signature) # Len(snapshot[w])

Outdated(w) == current = 0 \/ signature # NamesOf(snapshot[w])

Compare(w) ==
    /\ pc[w] = "compare"
    /\ pc' = [pc EXCEPT ![w] = IF Outdated(w) THEN "build" ELSE "pick"]
    /\ raced' = (raced \/ (Outdated(w) /\ \E v \in Workers : pc[v] \in {"build", "sign"}))
    /\ UNCHANGED <<registry, global, request, mine, sticky, at, blocked, answer, last>>

Build(w) ==
    /\ pc[w] = "build"
    /\ routers' = Append(routers, [guards |-> snapshot[w],
                                   sticky |-> [s \in Sessions |-> None]])
    /\ current' = Len(routers')
    /\ pc' = [pc EXCEPT ![w] = "sign"]
    /\ UNCHANGED <<registry, signature, request, mine, sticky, at, blocked, answer,
                   last, raced>>

\* Mutant of Signed: the registry is asked again.
SignedNow(w) == NamesOf(guards)

Signed(w) == NamesOf(snapshot[w])

Sign(w) ==
    /\ pc[w] = "sign"
    /\ signature' = Signed(w)
    /\ pc' = [pc EXCEPT ![w] = "pick"]
    /\ UNCHANGED <<registry, routers, current, request, mine, sticky, at, blocked,
                   answer, last, raced>>

(* router_singleton.route(...) reads the global, which may be another      *)
(* thread's router by now.                                                 *)
Pick(w) ==
    /\ pc[w] = "pick"
    /\ mine' = [mine EXCEPT ![w] = current]
    /\ pc' = [pc EXCEPT ![w] = "lookup"]
    /\ UNCHANGED <<registry, global, request, sticky, at, blocked, answer, last, raced>>

-----------------------------------------------------------------------------
Router(w) == routers[mine[w]]

(* The guards the session may stick to: that of its entry, if the router   *)
(* has it and the request allows it.                                       *)
StickyGuards(w) ==
    {g \in ToSet(Router(w).guards) :
        /\ session[w] # None
        /\ g.name = Router(w).sticky[session[w]]
        /\ InScope(g.name, scope[w])}

Lookup(w) ==
    /\ pc[w] = "lookup"
    /\ \/ /\ StickyGuards(w) = {}
          /\ pc' = [pc EXCEPT ![w] = "fresh"]
          /\ UNCHANGED sticky
       \/ \E g \in StickyGuards(w) :
             /\ sticky' = [sticky EXCEPT ![w] = g]
             /\ pc' = [pc EXCEPT ![w] = "sticky"]
    /\ UNCHANGED <<registry, global, request, mine, at, blocked, answer, last, raced>>

(* route() returns: guard g, or none. *)
Return(w, g) ==
    /\ answer' = [answer EXCEPT ![w] = g]
    /\ last' = IF g = None \/ session[w] = None THEN last
               ELSE [last EXCEPT ![session[w]] = g.name]
    /\ pc' = [pc EXCEPT ![w] = "reply"]
    /\ UNCHANGED <<registry, signature, current, request, mine, sticky, at, raced>>

StickyPasses(w) ==
    /\ pc[w] = "sticky"
    /\ Return(w, sticky[w])
    /\ UNCHANGED <<routers, blocked>>

(* The sticky guard blocks: drop the session's entry, whatever it is now,  *)
(* and try every guard afresh, this one included.                          *)
Unstick(w) == [routers EXCEPT ![mine[w]].sticky[session[w]] = None]

StickyBlocks(w) ==
    /\ pc[w] = "sticky"
    /\ routers' = Unstick(w)
    /\ pc' = [pc EXCEPT ![w] = "fresh"]
    /\ UNCHANGED <<registry, signature, current, request, mine, sticky, at, blocked,
                   answer, last, raced>>

-----------------------------------------------------------------------------
(* The fresh evaluation. *)
GuardAt(w) == Router(w).guards[at[w]]

Left(w) == pc[w] = "fresh" /\ at[w] <= Len(Router(w).guards)

Advance(i) == i + 1

OutOfScope(w) ==
    /\ Left(w)
    /\ ~InScope(GuardAt(w).name, scope[w])
    /\ at' = [at EXCEPT ![w] = Advance(@)]
    /\ UNCHANGED <<registry, global, request, pc, mine, sticky, blocked, answer, last,
                   raced>>

\* Mutant of Stick: setdefault(), an entry that is there stays.
StickOnce(map, s, name) == IF map[s] = None THEN [map EXCEPT ![s] = name] ELSE map

Stick(map, s, name) == [map EXCEPT ![s] = name]

Passes(w) ==
    /\ Left(w)
    /\ InScope(GuardAt(w).name, scope[w])
    /\ routers' = IF session[w] = None THEN routers
                  ELSE [routers EXCEPT ![mine[w]].sticky =
                           Stick(@, session[w], GuardAt(w).name)]
    /\ Return(w, GuardAt(w))
    /\ UNCHANGED blocked

Blocks(w) ==
    /\ Left(w)
    /\ InScope(GuardAt(w).name, scope[w])
    /\ at' = [at EXCEPT ![w] = Advance(@)]
    /\ \E c \in Confidences :
          blocked' = [blocked EXCEPT ![w] = Append(@, [name |-> GuardAt(w).name, conf |-> c])]
    /\ UNCHANGED <<registry, global, request, pc, mine, sticky, answer, last, raced>>

(* alternatives.sort() by descending confidence is stable: equals keep the *)
(* order in which they were tried.                                         *)
Above(s, i, j) == s[i].conf > s[j].conf \/ (s[i].conf = s[j].conf /\ i < j)

Rank(s, i) == Cardinality({j \in DOMAIN s : Above(s, j, i)})

\* Mutant of StrongestFirst: the sort is forgotten.
AsTried(s) == s

StrongestFirst(s) ==
    [n \in DOMAIN s |-> s[CHOOSE i \in DOMAIN s : Rank(s, i) = n - 1]]

NonePasses(w) ==
    /\ pc[w] = "fresh"
    /\ ~Left(w)
    /\ Return(w, None)
    /\ blocked' = [blocked EXCEPT ![w] = StrongestFirst(@)]
    /\ UNCHANGED routers

(* The request is over: answered, refused, or failed because the limiter   *)
(* or a check() raised, which leaves the map as it is.                     *)
Leave(w) ==
    /\ pc' = [pc EXCEPT ![w] = "idle"]
    /\ session' = [session EXCEPT ![w] = None]
    /\ scope' = [scope EXCEPT ![w] = None]
    /\ snapshot' = [snapshot EXCEPT ![w] = <<>>]
    /\ mine' = [mine EXCEPT ![w] = 0]
    /\ sticky' = [sticky EXCEPT ![w] = None]
    /\ at' = [at EXCEPT ![w] = 1]
    /\ blocked' = [blocked EXCEPT ![w] = <<>>]
    /\ answer' = [answer EXCEPT ![w] = None]
    /\ live' = [live EXCEPT ![w] = {}]
    /\ UNCHANGED <<guards, changes, renewed, global, begun, crossed, overlapped,
                   last, raced>>

Reply(w) == pc[w] = "reply" /\ Leave(w)

(* The limiter answers 429, or its Redis command raises. *)
Refused(w) == pc[w] = "limit" /\ Leave(w)

Raises(w) ==
    /\ \/ pc[w] = "sticky"
       \/ Left(w) /\ InScope(GuardAt(w).name, scope[w])
    /\ Leave(w)

(* clear_sticky(s), or of every session. *)
Clear(names) ==
    /\ changes < MaxChanges
    /\ changes' = changes + 1
    /\ current # 0
    /\ routers' = [routers EXCEPT ![current].sticky =
                      [s \in Sessions |-> IF s \in names THEN None ELSE @[s]]]
    /\ UNCHANGED <<guards, live, renewed, signature, current, request, pc, mine,
                   sticky, at, blocked, answer, last, raced>>

-----------------------------------------------------------------------------
(* The registry changes: a guard is renewed in place, unloaded, or loaded *)
(* under a new name (module Registry).                                     *)
Change(gs) ==
    /\ changes < MaxChanges
    /\ changes' = changes + 1
    /\ guards' = gs
    /\ live' = [w \in Workers |-> IF w \in Busy THEN live[w] \cup ToSet(gs) ELSE live[w]]
    /\ UNCHANGED <<global, request, pc, mine, sticky, at, blocked, answer, last, raced>>

Reload(i) ==
    /\ renewed' = TRUE
    /\ Change([guards EXCEPT ![i].ver = changes + 1])

Unload(i) ==
    /\ UNCHANGED renewed
    /\ Change(RemoveAt(guards, i))

(* The names some router or some request in progress knows. *)
Known ==
    UNION ({ToSet(NamesOf(routers[i].guards)) : i \in DOMAIN routers}
             \cup {ToSet(NamesOf(snapshot[w])) : w \in Workers})

Load(name) ==
    /\ name \notin ToSet(NamesOf(guards))
    /\ renewed' = (renewed \/ name \in Known)
    /\ Change(Append(guards, [name |-> name, ver |-> changes + 1]))

Finished == Busy = {} /\ begun = MaxRoutes /\ UNCHANGED vars

Step(w) ==
    \/ Admitted(w) \/ Refused(w)
    \/ Compare(w) \/ Build(w) \/ Sign(w) \/ Pick(w) \/ Lookup(w)
    \/ StickyPasses(w) \/ StickyBlocks(w)
    \/ OutOfScope(w) \/ Passes(w) \/ Blocks(w) \/ NonePasses(w)
    \/ Raises(w) \/ Reply(w)

Next ==
    \/ \E w \in Workers :
          \/ Step(w) \/ NoGuards(w)
          \/ \E s \in Sessions \cup {None}, n \in Scopes : Begin(w, s, n)
    \/ \E s \in Sessions : Clear({s})
    \/ Clear(Sessions)
    \/ \E i \in DOMAIN guards : Reload(i) \/ Unload(i)
    \/ \E n \in GuardNames : Load(n)
    \/ Finished

Spec == Init /\ [][Next]_vars

-----------------------------------------------------------------------------
Objects == [name : GuardNames, ver : 0 .. MaxChanges]

Alternatives == [name : GuardNames, conf : Confidences]

TypeOK ==
    /\ guards \in Seq(Objects)
    /\ changes \in 0 .. MaxChanges
    /\ routers \in Seq([guards : Seq(Objects),
                        sticky : [Sessions -> GuardNames \cup {None}]])
    /\ current \in 0 .. Len(routers)
    /\ signature \in Seq(GuardNames)
    /\ pc \in [Workers -> {"idle", "limit", "compare", "build", "sign", "pick",
                           "lookup", "sticky", "fresh", "reply"}]
    /\ session \in [Workers -> Sessions \cup {None}]
    /\ scope \in [Workers -> Scopes \cup {None}]
    /\ snapshot \in [Workers -> Seq(Objects)]
    /\ mine \in [Workers -> 0 .. Len(routers)]
    /\ sticky \in [Workers -> Objects \cup {None}]
    /\ blocked \in [Workers -> Seq(Alternatives)]
    /\ \A w \in Workers :
          at[w] \in 1 .. (IF mine[w] = 0 THEN 1 ELSE Len(Router(w).guards) + 1)
    /\ answer \in [Workers -> Objects \cup {None}]
    /\ begun \in 0 .. MaxRoutes
    /\ live \in [Workers -> SUBSET Objects]
    /\ last \in [Sessions -> GuardNames \cup {None}]
    /\ crossed \subseteq Sessions \cup {None}
    /\ raced \in BOOLEAN /\ overlapped \in BOOLEAN /\ renewed \in BOOLEAN

(* An answer keeps to the request's scope, stuck or not; a fresh one is    *)
(* the first that could be given: every guard of the router before it and  *)
(* inside the scope blocked.  When none passes the caller gets each guard  *)
(* in scope exactly once as an alternative, the strongest first, equals in *)
(* the router's order: the fallback text it shows is that of the first     *)
(* (router.py:57-92, sidecar.py:413-419).                                  *)
Lists(bs, gs, n, names) ==  \* bs names those of the first n guards in scope, in order
    \E pos \in [DOMAIN bs -> 1 .. n] :
        /\ \A j, k \in DOMAIN bs : j < k => pos[j] < pos[k]
        /\ {pos[k] : k \in DOMAIN bs} = {i \in 1 .. n : InScope(gs[i].name, names)}
        /\ \A k \in DOMAIN bs : bs[k].name = gs[pos[k]].name

Ranks(bs, gs, names) ==     \* bs names all guards in scope, the strongest first
    \E pos \in [DOMAIN bs -> 1 .. Len(gs)] :
        /\ \A j, k \in DOMAIN bs : j < k =>
              /\ bs[j].conf >= bs[k].conf
              /\ pos[j] # pos[k]
              /\ bs[j].conf = bs[k].conf => pos[j] < pos[k]
        /\ {pos[k] : k \in DOMAIN bs} = {i \in 1 .. Len(gs) : InScope(gs[i].name, names)}
        /\ \A k \in DOMAIN bs : bs[k].name = gs[pos[k]].name

RouteSound ==
    \A w \in Workers :
        /\ answer[w] # None => InScope(answer[w].name, scope[w])
        /\ (pc[w] = "fresh" \/ answer[w] # None) =>
              Lists(blocked[w], Router(w).guards, at[w] - 1, scope[w])
        /\ (pc[w] = "reply" /\ answer[w] = None) =>
              Ranks(blocked[w], Router(w).guards, scope[w])

(* A session whose requests never overlap sticks to the guard that passed  *)
(* for it last, or to none: no other session, no scope that excluded the   *)
(* guard for a while, no rebuild and no request that raised leaves it with *)
(* another (router.py:58-85).                                              *)
StickyIsLast ==
    \A s \in Sessions \ crossed :
        (current # 0 /\ routers[current].sticky[s] # None)
            => routers[current].sticky[s] = last[s]

(* Unless two threads rebuilt the router at once, the signature is that of *)
(* the router, except between the two writes of a rebuild                  *)
(* (sidecar.py:389-392).                                                   *)
SignatureTells ==
    \/ raced
    \/ \E w \in Workers : pc[w] = "sign"
    \/ current # 0 => signature = NamesOf(routers[current].guards)

(* A guard that answers was loaded while its request was in progress, if   *)
(* requests come one at a time and no name ever gets a second guard        *)
(* (sidecar.py:388-392).                                                   *)
ServedByLive ==
    \A w \in Workers : answer[w] # None => answer[w] \in live[w]

ServedInTurn == overlapped \/ renewed \/ ServedByLive

-----------------------------------------------------------------------------
(* README.md:176, "any change to a `*.yaml` in `GUARDS_DIR` will be picked *)
(* up", and sidecar.py:388, "Rebuild router only when the set of loaded    *)
(* guards changes (e.g. hot reload)": even with one request at a time, the *)
(* guard that answers is one the registry held during the request.         *)
ReloadReachesRoute == overlapped \/ ServedByLive
=============================================================================
