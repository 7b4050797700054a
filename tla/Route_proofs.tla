--------------------------- MODULE Route_proofs ---------------------------
(***************************************************************************)
(* Proofs about the router, for any number of threads, sessions, scopes,   *)
(* guards, requests and changes of the registry.  Six invariants, each    *)
(* inductive with the help of those before it.                             *)
(***************************************************************************)
EXTENDS Route, SequenceTheorems, FiniteSetTheorems, TLAPS

StickyMaps == [Sessions -> GuardNames \cup {None}]
Routers == [guards : Seq(Objects), sticky : StickyMaps]

(* The places in route() at which a worker holds a router. *)
Holding == {"lookup", "sticky", "fresh", "reply"}

Globals ==
    /\ guards \in Seq(Objects)
    /\ changes \in 0 .. MaxChanges
    /\ routers \in Seq(Routers)
    /\ current = Len(routers)
    /\ signature \in Seq(GuardNames)
    /\ begun \in 0 .. MaxRoutes
    /\ last \in [Sessions -> GuardNames \cup {None}]
    /\ crossed \subseteq Sessions \cup {None}
    /\ raced \in BOOLEAN /\ overlapped \in BOOLEAN /\ renewed \in BOOLEAN

Locals ==
    /\ pc \in [Workers -> {"idle", "limit", "compare", "build", "sign", "pick"} \cup Holding]
    /\ session \in [Workers -> Sessions \cup {None}]
    /\ scope \in [Workers -> Scopes \cup {None}]
    /\ snapshot \in [Workers -> Seq(Objects)]
    /\ mine \in [Workers -> Nat]
    /\ sticky \in [Workers -> Objects \cup {None}]
    /\ at \in [Workers -> Nat]
    /\ blocked \in [Workers -> Seq(Alternatives)]
    /\ answer \in [Workers -> Objects \cup {None}]
    /\ live \in [Workers -> SUBSET Objects]

(* Where a worker is tells what it holds. *)
PlaceOf(w) ==
    /\ pc[w] \in {"sign", "pick"} => routers # <<>>
    /\ pc[w] \in Holding => mine[w] \in DOMAIN routers
    /\ pc[w] \notin Holding => mine[w] = 0
    /\ pc[w] \in {"fresh", "reply"} =>
          at[w] \in 1 .. Len(routers[mine[w]].guards) + 1
    /\ pc[w] \notin {"fresh", "reply"} => at[w] = 1
    /\ pc[w] = "sticky" => /\ session[w] \in Sessions
                           /\ sticky[w] \in ToSet(routers[mine[w]].guards)
    /\ pc[w] # "reply" => answer[w] = None

Places == \A w \in Workers : PlaceOf(w)

Types == Globals /\ Locals /\ Places

-----------------------------------------------------------------------------
(* A sticky map is written. *)
LEMMA WriteSticky ==
    ASSUME NEW r \in Seq(Routers), NEW i \in DOMAIN r, NEW m \in StickyMaps
    PROVE  LET q == [r EXCEPT ![i].sticky = m]
           IN  /\ q \in Seq(Routers) /\ Len(q) = Len(r)
               /\ \A j \in DOMAIN r : q[j].guards = r[j].guards
               /\ \A j \in DOMAIN r : j # i => q[j] = r[j]
               /\ q[i].sticky = m
  <1> DEFINE e == [r[i] EXCEPT !.sticky = m]
             q == [r EXCEPT ![i].sticky = m]
  <1>1. i \in 1 .. Len(r) /\ DOMAIN r = 1 .. Len(r) /\ r[i] \in Routers
    OBVIOUS
  <1>2. e \in Routers /\ e.sticky = m /\ e.guards = r[i].guards
    BY <1>1 DEF Routers
  <1>3. q = [r EXCEPT ![i] = e]
    OBVIOUS
  <1> HIDE DEF e, q
  <1>4. /\ q \in Seq(Routers) /\ Len(q) = Len(r)
        /\ \A j \in 1 .. Len(r) : q[j] = IF j = i THEN e ELSE r[j]
    BY <1>1, <1>2, <1>3, ExceptSeq
  <1> QED
    BY <1>1, <1>2, <1>4 DEF q

(* What every step does to the routers: none is lost, and none changes its *)
(* guards.                                                                 *)
RoutersKeep ==
    /\ routers' \in Seq(Routers)
    /\ Len(routers) <= Len(routers')
    /\ \A j \in DOMAIN routers : /\ j \in DOMAIN routers'
                                 /\ routers'[j].guards = routers[j].guards

(* A worker that does not move stays in place. *)
Still(w) ==
    /\ pc'[w] = pc[w] /\ mine'[w] = mine[w] /\ at'[w] = at[w]
    /\ session'[w] = session[w] /\ sticky'[w] = sticky[w] /\ answer'[w] = answer[w]

LEMMA StayPut ==
    ASSUME Types, RoutersKeep, NEW w \in Workers, Still(w) PROVE PlaceOf(w)'
  <1>1. PlaceOf(w)
    BY DEF Types, Places
  <1>2. routers # <<>> => routers' # <<>>
    BY DEF Types, Globals, RoutersKeep
  <1>3. pc[w] \in Holding => /\ mine'[w] \in DOMAIN routers'
                            /\ routers'[mine'[w]].guards = routers[mine[w]].guards
    BY <1>1 DEF PlaceOf, RoutersKeep, Still
  <1> QED
    BY <1>1, <1>2, <1>3 DEF PlaceOf, Still, Holding

LEMMA UnchangedKeep ==
    ASSUME Types, UNCHANGED routers PROVE RoutersKeep
  BY DEF Types, Globals, RoutersKeep

LEMMA WriteKeep ==
    ASSUME Types, NEW i \in DOMAIN routers, NEW m \in StickyMaps,
           routers' = [routers EXCEPT ![i].sticky = m]
    PROVE  /\ RoutersKeep /\ Len(routers') = Len(routers)
           /\ \A j \in DOMAIN routers : j # i => routers'[j] = routers[j]
           /\ routers'[i].sticky = m
  BY WriteSticky DEF Types, Globals, RoutersKeep

LEMMA BuildKeep ==
    ASSUME Types, NEW w \in Workers, Build(w)
    PROVE  /\ RoutersKeep /\ Len(routers') = Len(routers) + 1
           /\ routers'[Len(routers')] =
                 [guards |-> snapshot[w], sticky |-> [s \in Sessions |-> None]]
           /\ current' = Len(routers')
  <1> DEFINE r == [guards |-> snapshot[w], sticky |-> [s \in Sessions |-> None]]
  <1>1. r \in Routers
    BY DEF Types, Locals, Routers, StickyMaps
  <1>2. routers' = Append(routers, r) /\ routers \in Seq(Routers)
    BY DEF Build, Types, Globals
  <1> HIDE DEF r
  <1>3. /\ routers' \in Seq(Routers) /\ Len(routers') = Len(routers) + 1
        /\ routers'[Len(routers) + 1] = r
        /\ \A j \in 1 .. Len(routers) : routers'[j] = routers[j]
    BY <1>1, <1>2, AppendProperties
  <1>4. current' = Len(routers')
    BY DEF Build
  <1> QED
    BY <1>2, <1>3, <1>4 DEF RoutersKeep, r

-----------------------------------------------------------------------------
(* The first invariant: Types. *)
LEMMA InitTypes == Init => Types
  <1> SUFFICES ASSUME Init PROVE Types
    OBVIOUS
  <1>1. Loaded \in Seq(GuardNames) /\ MaxRoutes \in Nat /\ MaxChanges \in Nat
    BY RouteAssumption
  <1>2. guards \in Seq(Objects)
    <2> DEFINE g == [i \in 1 .. Len(Loaded) |-> [name |-> Loaded[i], ver |-> 0]]
    <2>1. \A i \in 1 .. Len(Loaded) : [name |-> Loaded[i], ver |-> 0] \in Objects
      BY <1>1 DEF Objects
    <2>2. g \in Seq(Objects)
      <3>1. Len(Loaded) \in Nat /\ g \in [1 .. Len(Loaded) -> Objects]
        BY <1>1, <2>1
      <3> QED
        BY <3>1, SeqDef
    <2>3. guards = g
      BY <1>1 DEF Init
    <2> QED
      BY <2>2, <2>3
  <1>3. Globals
    <2>1. /\ guards \in Seq(Objects) /\ changes \in 0 .. MaxChanges
          /\ begun \in 0 .. MaxRoutes /\ signature \in Seq(GuardNames)
      BY <1>1, <1>2 DEF Init
    <2>2. routers \in Seq(Routers) /\ current = Len(routers)
      BY DEF Init
    <2>3. last \in [Sessions -> GuardNames \cup {None}]
      BY DEF Init
    <2> QED
      BY <2>1, <2>2, <2>3 DEF Init, Globals
  <1>4. Locals
    BY DEF Init, Locals
  <1>5. Places
    BY DEF Init, Places, PlaceOf, Holding
  <1> QED
    BY <1>3, <1>4, <1>5 DEF Types

LEMMA ObjectNames ==
    ASSUME NEW gs \in Seq(Objects)
    PROVE  NamesOf(gs) \in Seq(GuardNames) /\ ToSet(gs) \subseteq Objects
  <1>1. /\ Len(gs) \in Nat /\ DOMAIN gs = 1 .. Len(gs)
        /\ \A i \in 1 .. Len(gs) : gs[i] \in Objects /\ gs[i].name \in GuardNames
    <2>1. \A g \in Objects : g.name \in GuardNames
      BY DEF Objects
    <2> QED
      BY <2>1
  <1>2. NamesOf(gs) \in [1 .. Len(gs) -> GuardNames]
    BY <1>1 DEF NamesOf
  <1> QED
    <2>1. NamesOf(gs) \in Seq(GuardNames)
      BY <1>1, <1>2, SeqDef
    <2>2. ToSet(gs) \subseteq Objects
      BY <1>1 DEF ToSet
    <2> QED
      BY <2>1, <2>2

LEMMA TypesFromParts ==
    ASSUME Types, RoutersKeep, NEW w \in Workers, \A v \in Workers \ {w} : Still(v),
           Globals', Locals', PlaceOf(w)'
    PROVE  Types'
  BY StayPut DEF Types, Places

LEMMA GlobalsStay ==
    ASSUME Types, UNCHANGED <<guards, changes, renewed, global, begun, crossed,
                              overlapped, last>>,
           raced' \in BOOLEAN
    PROVE  Globals' /\ RoutersKeep
  <1>1. RoutersKeep
    BY UnchangedKeep DEF global
  <1> QED
    BY <1>1 DEF Types, Globals, global

LEMMA BeginTypes ==
    ASSUME Types, NEW w \in Workers, NEW s \in Sessions \cup {None}, NEW n \in Scopes,
           Begin(w, s, n)
    PROVE  Types'
  <1>1. RoutersKeep
    BY UnchangedKeep DEF Begin, global
  <1>2. Globals'
    <2>1. crossed' \subseteq Sessions \cup {None}
      BY DEF Begin, Types, Globals
    <2>2. overlapped' \in BOOLEAN
      BY DEF Begin, Types, Globals
    <2>3. begun' \in 0 .. MaxRoutes
      BY RouteAssumption DEF Begin, Types, Globals
    <2> QED
      BY <2>1, <2>2, <2>3 DEF Begin, Types, Globals, global
  <1>3. Locals'
    BY ObjectNames DEF Begin, Types, Locals, Globals
  <1>4. PlaceOf(w)'
    BY DEF Begin, Types, Places, PlaceOf, Locals, Holding
  <1>5. \A v \in Workers \ {w} : Still(v)
    BY DEF Begin, Still, Types, Locals
  <1> QED
    BY <1>1, <1>2, <1>3, <1>4, <1>5, TypesFromParts

LEMMA NoGuardsTypes == ASSUME Types, NEW w \in Workers, NoGuards(w) PROVE Types'
  <1>1. begun' \in 0 .. MaxRoutes
    BY RouteAssumption DEF NoGuards, Types, Globals
  <1>2. UNCHANGED <<registry, global, session, scope, snapshot, crossed, overlapped,
                    pc, mine, sticky, at, blocked, answer, last, raced>>
    BY DEF NoGuards
  <1>3. Globals' /\ Locals' /\ Places'
    BY <1>1, <1>2 DEF Types, Globals, Locals, Places, PlaceOf, registry, global
  <1> QED
    BY <1>3 DEF Types

LEMMA AdmittedTypes == ASSUME Types, NEW w \in Workers, Admitted(w) PROVE Types'
  <1>1. Globals' /\ RoutersKeep
    BY GlobalsStay DEF Admitted, registry, request, Types, Globals
  <1>2. Locals'
    BY DEF Admitted, registry, request, Types, Locals
  <1>3. PlaceOf(w)'
    BY DEF Admitted, global, Types, Places, PlaceOf, Locals, Holding
  <1>4. \A v \in Workers \ {w} : Still(v)
    BY DEF Admitted, Still, request, Types, Locals
  <1> QED
    BY <1>1, <1>2, <1>3, <1>4, TypesFromParts

LEMMA CompareTypes == ASSUME Types, NEW w \in Workers, Compare(w) PROVE Types'
  <1>1. Globals' /\ RoutersKeep
    BY GlobalsStay DEF Compare, registry, request, Types, Globals
  <1>2. Locals'
    BY DEF Compare, registry, request, Types, Locals, Outdated
  <1>3. PlaceOf(w)'
    <2>1. pc[w] = "compare" /\ PlaceOf(w) /\ routers' = routers /\ mine' = mine
          /\ at' = at /\ answer' = answer
      BY DEF Compare, Types, Places, global
    <2>2. pc'[w] = "build" \/ (pc'[w] = "pick" /\ current # 0)
      BY DEF Compare, Types, Locals, Outdated
    <2>3. current # 0 => routers # <<>>
      BY DEF Types, Globals
    <2> QED
      BY <2>1, <2>2, <2>3 DEF PlaceOf, Holding
  <1>4. \A v \in Workers \ {w} : Still(v)
    BY DEF Compare, Still, request, Types, Locals
  <1> QED
    BY <1>1, <1>2, <1>3, <1>4, TypesFromParts

LEMMA BuildTypes == ASSUME Types, NEW w \in Workers, Build(w) PROVE Types'
  <1>1. /\ RoutersKeep /\ current' = Len(routers') /\ Len(routers') = Len(routers) + 1
    BY BuildKeep
  <1>2. Globals'
    BY <1>1 DEF Build, registry, request, Types, Globals, RoutersKeep
  <1>3. Locals'
    BY DEF Build, registry, request, Types, Locals
  <1>4. PlaceOf(w)'
    <2>1. pc[w] = "build" /\ PlaceOf(w) /\ mine' = mine /\ at' = at /\ answer' = answer
          /\ pc'[w] = "sign"
      BY DEF Build, Types, Places, Locals
    <2>2. routers' # <<>>
      BY <1>1 DEF Types, Globals
    <2> QED
      BY <2>1, <2>2 DEF PlaceOf, Holding
  <1>5. \A v \in Workers \ {w} : Still(v)
    BY DEF Build, Still, request, Types, Locals
  <1> QED
    BY <1>1, <1>2, <1>3, <1>4, <1>5, TypesFromParts

LEMMA SignTypes == ASSUME Types, NEW w \in Workers, Sign(w) PROVE Types'
  <1>1. Signed(w) \in Seq(GuardNames)
    BY ObjectNames DEF Signed, Types, Locals
  <1>2. RoutersKeep
    BY UnchangedKeep DEF Sign
  <1>3. Globals'
    BY <1>1 DEF Sign, registry, request, Types, Globals
  <1>4. Locals'
    BY DEF Sign, registry, request, Types, Locals
  <1>5. PlaceOf(w)'
    BY DEF Sign, Types, Places, PlaceOf, Locals, Holding
  <1>6. \A v \in Workers \ {w} : Still(v)
    BY DEF Sign, Still, request, Types, Locals
  <1> QED
    BY <1>2, <1>3, <1>4, <1>5, <1>6, TypesFromParts

LEMMA PickTypes == ASSUME Types, NEW w \in Workers, Pick(w) PROVE Types'
  <1>1. Globals' /\ RoutersKeep
    BY GlobalsStay DEF Pick, registry, request, Types, Globals
  <1>2. current \in DOMAIN routers /\ current \in Nat
    BY DEF Pick, Types, Globals, Places, PlaceOf
  <1>3. Locals'
    BY <1>2 DEF Pick, registry, request, Types, Locals, Holding
  <1>4. PlaceOf(w)'
    BY <1>2 DEF Pick, global, request, Types, Places, PlaceOf, Locals, Holding
  <1>5. \A v \in Workers \ {w} : Still(v)
    BY DEF Pick, Still, request, Types, Locals
  <1> QED
    BY <1>1, <1>3, <1>4, <1>5, TypesFromParts

LEMMA GuardsOf ==
    ASSUME Types, NEW i \in DOMAIN routers
    PROVE  /\ routers[i].guards \in Seq(Objects)
           /\ ToSet(routers[i].guards) \subseteq Objects
           /\ routers[i].sticky \in StickyMaps
  <1>1. routers[i] \in Routers
    BY DEF Types, Globals
  <1>2. routers[i].guards \in Seq(Objects) /\ routers[i].sticky \in StickyMaps
    BY <1>1 DEF Routers
  <1> QED
    BY <1>2, ObjectNames

LEMMA LookupTypes == ASSUME Types, NEW w \in Workers, Lookup(w) PROVE Types'
  <1>1. Globals' /\ RoutersKeep
    BY GlobalsStay DEF Lookup, registry, request, Types, Globals
  <1>2. pc[w] = "lookup" /\ mine[w] \in DOMAIN routers /\ at[w] = 1 /\ answer[w] = None
        /\ PlaceOf(w)
    BY DEF Lookup, Types, Places, PlaceOf, Holding
  <1>3. /\ Router(w).guards \in Seq(Objects)
        /\ ToSet(Router(w).guards) \subseteq Objects
        /\ Len(Router(w).guards) \in Nat
    BY <1>2, GuardsOf DEF Router
  <1>4. CASE pc' = [pc EXCEPT ![w] = "fresh"] /\ UNCHANGED sticky
    <2>1. Locals'
      BY <1>4 DEF Lookup, registry, request, Types, Locals, Holding
    <2>2. PlaceOf(w)'
      BY <1>2, <1>3, <1>4 DEF Lookup, global, request, Types, Locals, PlaceOf, Holding,
                              Router
    <2>3. \A v \in Workers \ {w} : Still(v)
      BY <1>4 DEF Lookup, Still, request, Types, Locals
    <2> QED
      BY <1>1, <2>1, <2>2, <2>3, TypesFromParts
  <1>5. ASSUME NEW g \in StickyGuards(w), sticky' = [sticky EXCEPT ![w] = g],
               pc' = [pc EXCEPT ![w] = "sticky"]
        PROVE  Types'
    <2>1. g \in ToSet(Router(w).guards) /\ g \in Objects /\ session[w] \in Sessions
      BY <1>3 DEF StickyGuards, Types, Locals
    <2>2. Locals'
      BY <1>5, <2>1 DEF Lookup, registry, request, Types, Locals, Holding
    <2>3. PlaceOf(w)'
      BY <1>2, <1>5, <2>1 DEF Lookup, global, request, Types, Locals, PlaceOf, Holding,
                              Router
    <2>4. \A v \in Workers \ {w} : Still(v)
      BY <1>5 DEF Lookup, Still, request, Types, Locals
    <2> QED
      BY <1>1, <2>2, <2>3, <2>4, TypesFromParts
  <1> QED
    BY <1>4, <1>5 DEF Lookup

(* What route() returns is the answer of a worker in place. *)
LEMMA ReturnTypes ==
    ASSUME Types, NEW w \in Workers, NEW g \in Objects \cup {None}, Return(w, g),
           RoutersKeep, Len(routers') = Len(routers),
           blocked' \in [Workers -> Seq(Alternatives)],
           pc[w] \in {"sticky", "fresh"}
    PROVE  Types'
  <1>1. mine[w] \in DOMAIN routers /\ PlaceOf(w)
    BY DEF Types, Places, PlaceOf, Holding
  <1>2. Len(Router(w).guards) \in Nat
    BY <1>1, GuardsOf DEF Router
  <1>3. last' \in [Sessions -> GuardNames \cup {None}]
    <2>1. CASE g = None \/ session[w] = None
      BY <2>1 DEF Return, Types, Globals
    <2>2. CASE g # None /\ session[w] # None
      <3>1. g.name \in GuardNames /\ session[w] \in Sessions
        BY <2>2 DEF Objects, Types, Locals
      <3>2. last' = [last EXCEPT ![session[w]] = g.name]
        BY <2>2 DEF Return
      <3> QED
        BY <3>1, <3>2 DEF Types, Globals
    <2> QED
      BY <2>1, <2>2
  <1>4. Globals'
    BY <1>3 DEF Return, registry, request, Types, Globals, RoutersKeep
  <1>5. Locals'
    BY DEF Return, registry, request, Types, Locals, Holding
  <1>6. PlaceOf(w)'
    <2>1. /\ pc'[w] = "reply" /\ mine' = mine /\ at' = at
          /\ mine[w] \in DOMAIN routers'
          /\ routers'[mine[w]].guards = Router(w).guards
      BY <1>1 DEF Return, Types, Locals, RoutersKeep, Router
    <2>2. at[w] \in 1 .. Len(Router(w).guards) + 1
      BY <1>1, <1>2 DEF PlaceOf, Router
    <2> QED
      BY <2>1, <2>2 DEF PlaceOf, Holding
  <1>7. \A v \in Workers \ {w} : Still(v)
    BY DEF Return, Still, request, Types, Locals
  <1> QED
    BY <1>4, <1>5, <1>6, <1>7, TypesFromParts

LEMMA StickyPassesTypes == ASSUME Types, NEW w \in Workers, StickyPasses(w) PROVE Types'
  <1>1. sticky[w] \in Objects \cup {None} /\ RoutersKeep /\ routers' = routers
    BY UnchangedKeep DEF StickyPasses, Types, Locals
  <1>2. blocked' \in [Workers -> Seq(Alternatives)]
    BY DEF StickyPasses, Types, Locals
  <1> QED
    BY <1>1, <1>2, ReturnTypes DEF StickyPasses

(* Unstick and the passing of a guard are writes of one sticky map. *)
LEMMA UnstickWrites ==
    ASSUME Types, NEW w \in Workers, StickyBlocks(w)
    PROVE  \E m \in StickyMaps :
              /\ routers' = [routers EXCEPT ![mine[w]].sticky = m]
              /\ m = [Router(w).sticky EXCEPT ![session[w]] = None]
  <1> DEFINE m == [Router(w).sticky EXCEPT ![session[w]] = None]
  <1>1. mine[w] \in DOMAIN routers /\ session[w] \in Sessions
    BY DEF StickyBlocks, Types, Places, PlaceOf, Holding
  <1>2. m \in StickyMaps
    BY <1>1, GuardsOf DEF Router, StickyMaps
  <1>3. routers' = [routers EXCEPT ![mine[w]].sticky = m]
    BY DEF StickyBlocks, Unstick, Router
  <1> QED
    BY <1>2, <1>3

LEMMA StickyBlocksTypes == ASSUME Types, NEW w \in Workers, StickyBlocks(w) PROVE Types'
  <1>1. mine[w] \in DOMAIN routers /\ PlaceOf(w)
    BY DEF StickyBlocks, Types, Places, PlaceOf, Holding
  <1>2. RoutersKeep /\ Len(routers') = Len(routers)
    BY <1>1, UnstickWrites, WriteKeep
  <1>3. Globals'
    BY <1>2 DEF StickyBlocks, registry, request, Types, Globals, RoutersKeep
  <1>4. Locals'
    BY DEF StickyBlocks, registry, request, Types, Locals, Holding
  <1>5. PlaceOf(w)'
    <2>1. /\ pc[w] = "sticky" /\ pc'[w] = "fresh" /\ mine' = mine /\ at' = at
          /\ answer' = answer
          /\ mine[w] \in DOMAIN routers'
          /\ routers'[mine[w]].guards = Router(w).guards
      BY <1>1, <1>2 DEF StickyBlocks, request, Types, Locals, RoutersKeep, Router
    <2>2. at[w] = 1 /\ answer[w] = None
      BY <1>1, <2>1 DEF PlaceOf
    <2>3. Len(Router(w).guards) \in Nat
      BY <1>1, GuardsOf DEF Router
    <2> QED
      BY <2>1, <2>2, <2>3 DEF PlaceOf, Holding
  <1>6. \A v \in Workers \ {w} : Still(v)
    BY DEF StickyBlocks, Still, request, Types, Locals
  <1> QED
    BY <1>2, <1>3, <1>4, <1>5, <1>6, TypesFromParts

(* The guard a fresh evaluation looks at. *)
LEMMA LeftGuard ==
    ASSUME Types, NEW w \in Workers, Left(w)
    PROVE  /\ mine[w] \in DOMAIN routers /\ PlaceOf(w)
           /\ Router(w).guards \in Seq(Objects)
           /\ at[w] \in 1 .. Len(Router(w).guards)
           /\ GuardAt(w) \in Objects /\ GuardAt(w) \in ToSet(Router(w).guards)
           /\ GuardAt(w).name \in GuardNames
           /\ Advance(at[w]) \in 1 .. Len(Router(w).guards) + 1
  <1>1. mine[w] \in DOMAIN routers /\ PlaceOf(w)
    BY DEF Left, Types, Places, PlaceOf, Holding
  <1>2. Router(w).guards \in Seq(Objects)
    BY <1>1, GuardsOf DEF Router
  <1>3. at[w] \in 1 .. Len(Router(w).guards)
    BY <1>1, <1>2 DEF Left, PlaceOf, Router
  <1>4. GuardAt(w) \in Objects /\ GuardAt(w) \in ToSet(Router(w).guards)
    BY <1>2, <1>3 DEF GuardAt, ToSet
  <1>5. GuardAt(w).name \in GuardNames
    BY <1>4 DEF Objects
  <1> QED
    BY <1>1, <1>2, <1>3, <1>4, <1>5 DEF Advance

LEMMA PassesWrites ==
    ASSUME Types, NEW w \in Workers, Passes(w)
    PROVE  \/ session[w] = None /\ routers' = routers
           \/ /\ session[w] \in Sessions
              /\ \E m \in StickyMaps :
                    /\ routers' = [routers EXCEPT ![mine[w]].sticky = m]
                    /\ m = [Router(w).sticky EXCEPT ![session[w]] = GuardAt(w).name]
  <1> DEFINE m == [Router(w).sticky EXCEPT ![session[w]] = GuardAt(w).name]
  <1>1. mine[w] \in DOMAIN routers /\ GuardAt(w).name \in GuardNames
    BY LeftGuard DEF Passes
  <1>2. CASE session[w] = None
    BY <1>2 DEF Passes
  <1>3. CASE session[w] # None
    <2>1. session[w] \in Sessions
      BY <1>3 DEF Types, Locals
    <2>2. m \in StickyMaps
      BY <1>1, <2>1, GuardsOf DEF Router, StickyMaps
    <2>3. routers' = [routers EXCEPT ![mine[w]].sticky = m]
      BY <1>3 DEF Passes, Stick, Router
    <2> QED
      BY <2>1, <2>2, <2>3
  <1> QED
    BY <1>2, <1>3

LEMMA PassesTypes == ASSUME Types, NEW w \in Workers, Passes(w) PROVE Types'
  <1>1. mine[w] \in DOMAIN routers /\ GuardAt(w) \in Objects /\ pc[w] = "fresh"
    BY LeftGuard DEF Passes, Left
  <1>2. RoutersKeep /\ Len(routers') = Len(routers)
    BY <1>1, PassesWrites, WriteKeep, UnchangedKeep
  <1>3. Return(w, GuardAt(w)) /\ blocked' \in [Workers -> Seq(Alternatives)]
    BY DEF Passes, Types, Locals
  <1> QED
    BY <1>1, <1>2, <1>3, ReturnTypes

(* The alternatives' order by confidence, among them a strict order: the   *)
(* ranks are 0, 1, ..., one for each, so that the sort is a reordering and *)
(* a stable one.                                                           *)
LEMMA AboveOrders ==
    ASSUME NEW s \in Seq(Alternatives)
    PROVE  /\ \A i \in DOMAIN s : s[i].conf \in Int
           /\ \A i \in DOMAIN s : ~Above(s, i, i)
           /\ \A i, j \in DOMAIN s : i # j => Above(s, i, j) \/ Above(s, j, i)
           /\ \A i, j, k \in DOMAIN s : Above(s, i, j) /\ Above(s, j, k) => Above(s, i, k)
  <1>1. ASSUME NEW i \in DOMAIN s PROVE i \in Int /\ s[i].conf \in Int
    <2>1. i \in 1 .. Len(s) /\ s[i] \in Alternatives
      OBVIOUS
    <2>2. s[i].conf \in Confidences
      BY <2>1 DEF Alternatives
    <2> QED
      BY <2>1, <2>2, RouteAssumption
  <1>2. \A i \in DOMAIN s : ~Above(s, i, i)
    BY <1>1 DEF Above
  <1>3. \A i, j \in DOMAIN s : i # j => Above(s, i, j) \/ Above(s, j, i)
    BY <1>1 DEF Above
  <1>4. ASSUME NEW i \in DOMAIN s, NEW j \in DOMAIN s, NEW k \in DOMAIN s,
               Above(s, i, j), Above(s, j, k)
        PROVE  Above(s, i, k)
    <2> DEFINE a == s[i].conf
               b == s[j].conf
               c == s[k].conf
    <2>1. a \in Int /\ b \in Int /\ c \in Int /\ i \in Int /\ j \in Int /\ k \in Int
      BY <1>1
    <2>2. (a > b \/ (a = b /\ i < j)) /\ (b > c \/ (b = c /\ j < k))
      BY <1>4 DEF Above
    <2> HIDE DEF a, b, c
    <2>3. a > c \/ (a = c /\ i < k)
      BY <2>1, <2>2
    <2> QED
      BY <2>3 DEF Above, a, c
  <1> QED
    BY <1>1, <1>2, <1>3, <1>4

LEMMA Intervals ==
    ASSUME NEW n \in Nat
    PROVE  /\ IsFiniteSet(1 .. n) /\ Cardinality(1 .. n) = n
           /\ IsFiniteSet(0 .. n - 1) /\ Cardinality(0 .. n - 1) = n
  <1>1. IsFiniteSet(1 .. n) /\ Cardinality(1 .. n) = IF 1 > n THEN 0 ELSE n - 1 + 1
    BY FS_Interval
  <1>2. /\ IsFiniteSet(0 .. n - 1)
        /\ Cardinality(0 .. n - 1) = IF 0 > n - 1 THEN 0 ELSE n - 1 - 0 + 1
    <2>1. n - 1 \in Int /\ 0 \in Int
      OBVIOUS
    <2> QED
      BY <2>1, FS_Interval
  <1> QED
    BY <1>1, <1>2

LEMMA RankOrders ==
    ASSUME NEW s \in Seq(Alternatives)
    PROVE  /\ \A i \in DOMAIN s : Rank(s, i) \in 0 .. Len(s) - 1
           /\ \A i, j \in DOMAIN s : Above(s, i, j) => Rank(s, i) < Rank(s, j)
  <1> DEFINE D == DOMAIN s
             Up(i) == {j \in D : Above(s, j, i)}
  <1>1. D = 1 .. Len(s) /\ Len(s) \in Nat
    OBVIOUS
  <1>2. IsFiniteSet(D) /\ Cardinality(D) = Len(s)
    BY <1>1, Intervals
  <1>3. \A i \in D : IsFiniteSet(Up(i)) /\ Cardinality(Up(i)) \in Nat
    BY <1>2, FS_Subset, FS_CardinalityType
  <1>4. \A i : Rank(s, i) = Cardinality(Up(i))
    BY DEF Rank
  <1>5. ASSUME NEW i \in D PROVE Rank(s, i) \in 0 .. Len(s) - 1
    <2>1. i \notin Up(i)
      BY AboveOrders
    <2>2. Up(i) \in SUBSET (D \ {i})
      BY <2>1
    <2>3. IsFiniteSet(D \ {i}) /\ Cardinality(D \ {i}) = Len(s) - 1
      BY <1>2, FS_RemoveElement
    <2>4. Cardinality(Up(i)) <= Len(s) - 1
      BY <2>2, <2>3, FS_Subset
    <2>5. Cardinality(Up(i)) \in Nat /\ Rank(s, i) = Cardinality(Up(i))
      BY <1>3, <1>4
    <2> HIDE DEF D, Up
    <2> QED
      BY <1>1, <2>4, <2>5
  <1>6. ASSUME NEW i \in D, NEW j \in D, Above(s, i, j) PROVE Rank(s, i) < Rank(s, j)
    <2>1. Up(i) \in SUBSET Up(j)
      BY <1>6, AboveOrders
    <2>2. i \in Up(j) /\ i \notin Up(i)
      BY <1>6, AboveOrders
    <2>3. Cardinality(Up(i)) <= Cardinality(Up(j)) /\ Cardinality(Up(i)) # Cardinality(Up(j))
      BY <1>3, <2>1, <2>2, FS_Subset
    <2>4. /\ Cardinality(Up(i)) \in Nat /\ Rank(s, i) = Cardinality(Up(i))
          /\ Cardinality(Up(j)) \in Nat /\ Rank(s, j) = Cardinality(Up(j))
      BY <1>3, <1>4
    <2> HIDE DEF D, Up
    <2> QED
      BY <2>3, <2>4
  <1> QED
    BY <1>5, <1>6

(* The place from which the sort takes its n-th entry. *)
From(s, n) == CHOOSE i \in DOMAIN s : Rank(s, i) = n - 1

LEMMA SortPermutes ==
    ASSUME NEW s \in Seq(Alternatives)
    PROVE  /\ \A n \in DOMAIN s : From(s, n) \in DOMAIN s
           /\ \A m, n \in DOMAIN s : m < n => Above(s, From(s, m), From(s, n))
           /\ \A i \in DOMAIN s : \E n \in DOMAIN s : From(s, n) = i
  <1> DEFINE D == DOMAIN s
  <1>1. D = 1 .. Len(s) /\ Len(s) \in Nat
    OBVIOUS
  <1>2. \A i \in D : Rank(s, i) \in 0 .. Len(s) - 1
    BY RankOrders
  <1>3. \A i, j \in D : i # j => Rank(s, i) # Rank(s, j)
    <2>1. \A i, j \in D : Above(s, i, j) => Rank(s, i) # Rank(s, j)
      BY <1>2, RankOrders
    <2> QED
      BY <2>1, AboveOrders
  <1>4. ASSUME NEW n \in D PROVE \E i \in D : Rank(s, i) = n - 1
    <2> SUFFICES ASSUME \A i \in D : Rank(s, i) # n - 1 PROVE FALSE
      OBVIOUS
    <2> DEFINE T == (0 .. Len(s) - 1) \ {n - 1}
               f == [i \in D |-> Rank(s, i)]
    <2>1. IsFiniteSet(D) /\ Cardinality(D) = Len(s)
      BY <1>1, Intervals
    <2>2. IsFiniteSet(0 .. Len(s) - 1) /\ Cardinality(0 .. Len(s) - 1) = Len(s)
      BY <1>1, Intervals
    <2>3. n - 1 \in 0 .. Len(s) - 1
      BY <1>1, <1>4
    <2>4. IsFiniteSet(T) /\ Cardinality(T) = Len(s) - 1
      BY <2>2, <2>3, FS_RemoveElement
    <2>5. f \in [D -> T]
      BY <1>2
    <2>6. Cardinality(T) < Cardinality(D)
      BY <1>1, <2>1, <2>4
    <2>8. \A i \in D : f[i] = Rank(s, i)
      OBVIOUS
    <2> HIDE DEF T, D, f
    <2>7. \E i, j \in D : i # j /\ f[i] = f[j]
      BY <2>1, <2>4, <2>5, <2>6, FS_PigeonHole, Zenon
    <2> QED
      BY <1>3, <2>7, <2>8, Zenon
  <1>5. \A n \in D : From(s, n) \in D /\ Rank(s, From(s, n)) = n - 1
    BY <1>4 DEF From
  <1>6. ASSUME NEW m \in D, NEW n \in D, m < n PROVE Above(s, From(s, m), From(s, n))
    <2>1. Rank(s, From(s, m)) < Rank(s, From(s, n))
      BY <1>1, <1>5, <1>6
    <2>2. ~(Rank(s, From(s, n)) < Rank(s, From(s, m)))
          /\ Rank(s, From(s, n)) # Rank(s, From(s, m))
      BY <1>2, <1>5, <2>1
    <2>4. From(s, m) \in DOMAIN s /\ From(s, n) \in DOMAIN s
      BY <1>5
    <2>3. From(s, m) # From(s, n) /\ ~Above(s, From(s, n), From(s, m))
      BY <2>2, <2>4, RankOrders, Zenon
    <2> QED
      BY <1>5, <2>3, AboveOrders
  <1>7. ASSUME NEW i \in D PROVE \E n \in D : From(s, n) = i
    <2>1. PICK n \in D : n - 1 = Rank(s, i)
      <3> DEFINE n == Rank(s, i) + 1
      <3>1. n \in D /\ n - 1 = Rank(s, i)
        BY <1>1, <1>2
      <3> HIDE DEF n
      <3> QED
        BY <3>1
    <2>2. From(s, n) \in D /\ Rank(s, From(s, n)) = Rank(s, i)
      BY <1>5, <2>1, Zenon
    <2>3. From(s, n) = i
      BY <1>3, <2>2, Zenon
    <2> QED
      BY <2>3, Zenon
  <1> QED
    BY <1>5, <1>6, <1>7

LEMMA SortKeeps ==
    ASSUME NEW s \in Seq(Alternatives)
    PROVE  /\ StrongestFirst(s) \in Seq(Alternatives)
           /\ DOMAIN StrongestFirst(s) = DOMAIN s
           /\ \A n \in DOMAIN s : StrongestFirst(s)[n] = s[From(s, n)]
  <1>1. StrongestFirst(s) = [n \in DOMAIN s |-> s[From(s, n)]]
    BY DEF StrongestFirst, From
  <1>2. \A n \in DOMAIN s : s[From(s, n)] \in Alternatives
    BY SortPermutes
  <1>3. DOMAIN s = 1 .. Len(s) /\ Len(s) \in Nat
    OBVIOUS
  <1>4. StrongestFirst(s) \in [1 .. Len(s) -> Alternatives]
    BY <1>1, <1>2, <1>3
  <1> QED
    BY <1>1, <1>3, <1>4, SeqDef

LEMMA NonePassesTypes == ASSUME Types, NEW w \in Workers, NonePasses(w) PROVE Types'
  <1>1. RoutersKeep /\ routers' = routers
    BY UnchangedKeep DEF NonePasses
  <1>2. blocked' \in [Workers -> Seq(Alternatives)]
    <2>1. blocked[w] \in Seq(Alternatives) /\ blocked \in [Workers -> Seq(Alternatives)]
      BY DEF Types, Locals
    <2>2. StrongestFirst(blocked[w]) \in Seq(Alternatives)
      BY <2>1, SortKeeps
    <2>3. blocked' = [blocked EXCEPT ![w] = StrongestFirst(blocked[w])]
      BY DEF NonePasses
    <2> QED
      BY <2>1, <2>2, <2>3
  <1> QED
    BY <1>1, <1>2, ReturnTypes DEF NonePasses

LEMMA OutOfScopeTypes == ASSUME Types, NEW w \in Workers, OutOfScope(w) PROVE Types'
  <1>1. Globals' /\ RoutersKeep
    BY GlobalsStay DEF OutOfScope, registry, request, Types, Globals
  <1>2. /\ pc[w] = "fresh" /\ mine[w] \in DOMAIN routers /\ PlaceOf(w)
        /\ Router(w).guards \in Seq(Objects)
        /\ Advance(at[w]) \in 1 .. Len(Router(w).guards) + 1
    BY LeftGuard DEF OutOfScope, Left
  <1>3. Advance(at[w]) \in Nat
    BY <1>2
  <1>4. Locals' /\ at'[w] = Advance(at[w])
    BY <1>3 DEF OutOfScope, registry, request, Types, Locals
  <1>5. PlaceOf(w)'
    BY <1>2, <1>4 DEF OutOfScope, global, request, PlaceOf, Holding, Router
  <1>6. \A v \in Workers \ {w} : Still(v)
    BY DEF OutOfScope, Still, request, Types, Locals
  <1> QED
    BY <1>1, <1>4, <1>5, <1>6, TypesFromParts

LEMMA BlocksTypes == ASSUME Types, NEW w \in Workers, Blocks(w) PROVE Types'
  <1>1. Globals' /\ RoutersKeep
    BY GlobalsStay DEF Blocks, registry, request, Types, Globals
  <1>2. /\ pc[w] = "fresh" /\ mine[w] \in DOMAIN routers /\ PlaceOf(w)
        /\ Router(w).guards \in Seq(Objects) /\ GuardAt(w).name \in GuardNames
        /\ Advance(at[w]) \in 1 .. Len(Router(w).guards) + 1
    BY LeftGuard DEF Blocks, Left
  <1>3. Advance(at[w]) \in Nat
    BY <1>2
  <1>4. blocked' \in [Workers -> Seq(Alternatives)]
    <2>1. PICK c \in Confidences : blocked' =
             [blocked EXCEPT ![w] = Append(@, [name |-> GuardAt(w).name, conf |-> c])]
      BY DEF Blocks
    <2>2. [name |-> GuardAt(w).name, conf |-> c] \in Alternatives
      BY <1>2 DEF Alternatives
    <2>3. Append(blocked[w], [name |-> GuardAt(w).name, conf |-> c]) \in Seq(Alternatives)
      BY <2>2 DEF Types, Locals
    <2> QED
      BY <2>1, <2>3 DEF Types, Locals
  <1>5. Locals' /\ at'[w] = Advance(at[w])
    BY <1>3, <1>4 DEF Blocks, registry, request, Types, Locals
  <1>6. PlaceOf(w)'
    BY <1>2, <1>5 DEF Blocks, global, request, PlaceOf, Holding, Router
  <1>7. \A v \in Workers \ {w} : Still(v)
    BY DEF Blocks, Still, request, Types, Locals
  <1> QED
    BY <1>1, <1>5, <1>6, <1>7, TypesFromParts

LEMMA LeaveTypes == ASSUME Types, NEW w \in Workers, Leave(w) PROVE Types'
  <1>1. Globals' /\ RoutersKeep
    BY GlobalsStay DEF Leave, Types, Globals
  <1>2. Locals'
    BY DEF Leave, Types, Locals
  <1>3. PlaceOf(w)'
    BY DEF Leave, PlaceOf, Types, Locals, Holding
  <1>4. \A v \in Workers \ {w} : Still(v)
    BY DEF Leave, Still, Types, Locals
  <1> QED
    BY <1>1, <1>2, <1>3, <1>4, TypesFromParts

-----------------------------------------------------------------------------
LEMMA ClearWrites ==
    ASSUME Types, NEW names, Clear(names)
    PROVE  /\ current \in DOMAIN routers
           /\ \E m \in StickyMaps :
                 /\ routers' = [routers EXCEPT ![current].sticky = m]
                 /\ m = [s \in Sessions |-> IF s \in names THEN None
                                           ELSE routers[current].sticky[s]]
  <1> DEFINE m == [s \in Sessions |-> IF s \in names THEN None
                                     ELSE routers[current].sticky[s]]
  <1>1. current \in DOMAIN routers
    BY DEF Clear, Types, Globals
  <1>2. m \in StickyMaps
    BY <1>1, GuardsOf DEF StickyMaps
  <1>3. routers' = [routers EXCEPT ![current].sticky = m]
    BY DEF Clear
  <1> QED
    BY <1>1, <1>2, <1>3

(* A step of no worker leaves all of them in place. *)
LEMMA AllStay ==
    ASSUME Types, RoutersKeep, UNCHANGED <<request, pc, mine, sticky, at, blocked, answer>>,
           Globals', live' \in [Workers -> SUBSET Objects]
    PROVE  Types'
  <1>1. Locals'
    BY DEF Types, Locals, request
  <1>2. \A w \in Workers : Still(w)
    BY DEF Still, request
  <1> QED
    BY <1>1, <1>2, StayPut DEF Types, Places

LEMMA ClearTypes == ASSUME Types, NEW names, Clear(names) PROVE Types'
  <1>1. RoutersKeep /\ Len(routers') = Len(routers)
    BY ClearWrites, WriteKeep
  <1>2. changes' \in 0 .. MaxChanges
    BY RouteAssumption DEF Clear, Types, Globals
  <1>3. Globals'
    BY <1>1, <1>2 DEF Clear, request, Types, Globals, RoutersKeep
  <1>4. live' \in [Workers -> SUBSET Objects]
    BY DEF Clear, Types, Locals
  <1>5. UNCHANGED <<request, pc, mine, sticky, at, blocked, answer>>
    BY DEF Clear
  <1> QED
    BY <1>1, <1>3, <1>4, <1>5, AllStay

LEMMA ChangeTypes ==
    ASSUME Types, NEW gs \in Seq(Objects), Change(gs), renewed' \in BOOLEAN
    PROVE  Types'
  <1>1. RoutersKeep
    BY UnchangedKeep DEF Change, global
  <1>2. changes' \in 0 .. MaxChanges
    BY RouteAssumption DEF Change, Types, Globals
  <1>3. Globals'
    BY <1>2 DEF Change, global, request, Types, Globals
  <1>4. live' \in [Workers -> SUBSET Objects]
    <2>1. ToSet(gs) \subseteq Objects
      BY ObjectNames
    <2> QED
      BY <2>1 DEF Change, Types, Locals
  <1>5. UNCHANGED <<request, pc, mine, sticky, at, blocked, answer>>
    BY DEF Change
  <1> QED
    BY <1>1, <1>3, <1>4, <1>5, AllStay

(* What the registry may become. *)
LEMMA Renewed ==
    ASSUME NEW gs \in Seq(Objects), NEW i \in DOMAIN gs, NEW n \in 0 .. MaxChanges
    PROVE  LET hs == [gs EXCEPT ![i].ver = n]
           IN  /\ hs \in Seq(Objects) /\ Len(hs) = Len(gs)
               /\ \A j \in DOMAIN gs : hs[j].name = gs[j].name
               /\ \A j \in DOMAIN gs : j # i => hs[j] = gs[j]
  <1> DEFINE e == [gs[i] EXCEPT !.ver = n]
             hs == [gs EXCEPT ![i].ver = n]
  <1>1. i \in 1 .. Len(gs) /\ DOMAIN gs = 1 .. Len(gs) /\ gs[i] \in Objects
    OBVIOUS
  <1>2. e \in Objects /\ e.name = gs[i].name
    BY <1>1 DEF Objects
  <1>3. hs = [gs EXCEPT ![i] = e]
    OBVIOUS
  <1> HIDE DEF e, hs
  <1>4. /\ hs \in Seq(Objects) /\ Len(hs) = Len(gs)
        /\ \A j \in 1 .. Len(gs) : hs[j] = IF j = i THEN e ELSE gs[j]
    BY <1>1, <1>2, <1>3, ExceptSeq
  <1> QED
    BY <1>1, <1>2, <1>4 DEF hs

LEMMA Removed ==
    ASSUME NEW S, NEW gs \in Seq(S), NEW i \in DOMAIN gs
    PROVE  /\ RemoveAt(gs, i) \in Seq(S)
           /\ ToSet(RemoveAt(gs, i)) \subseteq ToSet(gs)
  <1>1. i \in 1 .. Len(gs) /\ Len(gs) \in Nat /\ DOMAIN gs = 1 .. Len(gs)
    OBVIOUS
  <1> DEFINE front == SubSeq(gs, 1, i - 1)
             back == SubSeq(gs, i + 1, Len(gs))
  <1>2. /\ front \in Seq(S) /\ Len(front) = i - 1
        /\ \A j \in 1 .. i - 1 : front[j] = gs[j]
    BY <1>1, SubSeqProperties
  <1>3. /\ back \in Seq(S) /\ Len(back) = Len(gs) - i
        /\ \A j \in 1 .. Len(gs) - i : back[j] = gs[i + j]
    BY <1>1, SubSeqProperties
  <1>4. RemoveAt(gs, i) = front \o back
    BY DEF RemoveAt
  <1> HIDE DEF front, back
  <1>5. /\ front \o back \in Seq(S) /\ Len(front \o back) = Len(gs) - 1
        /\ \A j \in 1 .. Len(gs) - 1 :
              (front \o back)[j] = IF j <= i - 1 THEN front[j] ELSE back[j - (i - 1)]
    <2>1. /\ front \o back \in Seq(S) /\ Len(front \o back) = Len(front) + Len(back)
          /\ \A j \in 1 .. Len(front) + Len(back) : (front \o back)[j] =
                 IF j <= Len(front) THEN front[j] ELSE back[j - Len(front)]
      BY <1>2, <1>3, ConcatProperties
    <2>2. Len(front) + Len(back) = Len(gs) - 1
      BY <1>1, <1>2, <1>3
    <2> QED
      BY <1>2, <2>1, <2>2
  <1>6. ASSUME NEW j \in 1 .. Len(gs) - 1
        PROVE  \E k \in 1 .. Len(gs) : (front \o back)[j] = gs[k]
    <2>1. CASE j <= i - 1
      BY <1>1, <1>2, <1>5, <2>1
    <2>2. CASE j > i - 1
      <3>1. j - (i - 1) \in 1 .. Len(gs) - i /\ i + (j - (i - 1)) \in 1 .. Len(gs)
        BY <1>1, <2>2
      <3>2. (front \o back)[j] = back[j - (i - 1)]
        <4>1. (front \o back)[j] = IF j <= i - 1 THEN front[j] ELSE back[j - (i - 1)]
          BY <1>5
        <4>2. ~(j <= i - 1)
          BY <1>1, <2>2
        <4> QED
          BY <4>1, <4>2
      <3>3. back[j - (i - 1)] = gs[i + (j - (i - 1))]
        BY <1>3, <3>1
      <3> QED
        BY <3>1, <3>2, <3>3, Zenon
    <2>3. j <= i - 1 \/ j > i - 1
      BY <1>1
    <2> QED
      BY <2>1, <2>2, <2>3, Zenon
  <1>7. ToSet(front \o back) \subseteq ToSet(gs)
    <2>1. DOMAIN (front \o back) = 1 .. Len(gs) - 1
      BY <1>5
    <2> QED
      BY <1>1, <1>6, <2>1 DEF ToSet
  <1> QED
    BY <1>4, <1>5, <1>7

LEMMA ReloadTypes == ASSUME Types, NEW i \in DOMAIN guards, Reload(i) PROVE Types'
  <1>1. guards \in Seq(Objects) /\ changes + 1 \in 0 .. MaxChanges
    BY RouteAssumption DEF Reload, Change, Types, Globals
  <1>2. [guards EXCEPT ![i].ver = changes + 1] \in Seq(Objects)
    BY <1>1, Renewed
  <1> QED
    BY <1>2, ChangeTypes DEF Reload

LEMMA UnloadTypes == ASSUME Types, NEW i \in DOMAIN guards, Unload(i) PROVE Types'
  <1>1. guards \in Seq(Objects) /\ renewed' \in BOOLEAN
    BY DEF Unload, Types, Globals
  <1>2. RemoveAt(guards, i) \in Seq(Objects)
    BY <1>1, Removed
  <1> QED
    BY <1>1, <1>2, ChangeTypes DEF Unload

LEMMA LoadTypes == ASSUME Types, NEW n \in GuardNames, Load(n) PROVE Types'
  <1>1. guards \in Seq(Objects) /\ changes + 1 \in 0 .. MaxChanges
    BY RouteAssumption DEF Load, Change, Types, Globals
  <1>2. Append(guards, [name |-> n, ver |-> changes + 1]) \in Seq(Objects)
    BY <1>1 DEF Objects
  <1>3. renewed' \in BOOLEAN
    BY DEF Load, Types, Globals
  <1> QED
    BY <1>2, <1>3, ChangeTypes DEF Load

LEMMA StepTypes == ASSUME Types, NEW w \in Workers, Step(w) PROVE Types'
  BY AdmittedTypes, CompareTypes, BuildTypes, SignTypes, PickTypes, LookupTypes, StickyPassesTypes,
     StickyBlocksTypes, OutOfScopeTypes, PassesTypes, BlocksTypes, NonePassesTypes,
     LeaveTypes DEF Step, Refused, Raises, Reply

LEMMA NextTypes == Types /\ [Next]_vars => Types'
  <1> SUFFICES ASSUME Types, [Next]_vars PROVE Types'
    OBVIOUS
  <1>1. ASSUME NEW w \in Workers, Step(w) PROVE Types'
    BY <1>1, StepTypes
  <1>2. ASSUME NEW w \in Workers, NoGuards(w) PROVE Types'
    BY <1>2, NoGuardsTypes
  <1>3. ASSUME NEW w \in Workers, NEW s \in Sessions \cup {None}, NEW n \in Scopes,
               Begin(w, s, n)
        PROVE  Types'
    BY <1>3, BeginTypes
  <1>4. ASSUME NEW names, Clear(names) PROVE Types'
    BY <1>4, ClearTypes
  <1>5. ASSUME NEW i \in DOMAIN guards, Reload(i) \/ Unload(i) PROVE Types'
    BY <1>5, ReloadTypes, UnloadTypes
  <1>6. ASSUME NEW n \in GuardNames, Load(n) PROVE Types'
    BY <1>6, LoadTypes
  <1>7. CASE UNCHANGED vars
    BY <1>7 DEF vars, registry, global, request, Types, Globals, Locals, Places, PlaceOf
  <1> QED
    BY <1>1, <1>2, <1>3, <1>4, <1>5, <1>6, <1>7 DEF Next, Finished

LEMMA TypesAlways == Spec => []Types
  <1> QED
    BY InitTypes, NextTypes, PTL DEF Spec

LEMMA TypesGiveTypeOK == Types => TypeOK
  <1> SUFFICES ASSUME Types PROVE TypeOK
    OBVIOUS
  <1>1. /\ current \in 0 .. Len(routers) /\ Len(routers) \in Nat
        /\ DOMAIN routers = 1 .. Len(routers)
    BY DEF Types, Globals
  <1>2. mine \in [Workers -> 0 .. Len(routers)]
    BY <1>1 DEF Types, Locals, Places, PlaceOf
  <1>3. \A w \in Workers :
           at[w] \in 1 .. (IF mine[w] = 0 THEN 1 ELSE Len(Router(w).guards) + 1)
    <2> TAKE w \in Workers
    <2>1. CASE pc[w] \in {"fresh", "reply"}
      BY <1>1, <2>1 DEF Types, Places, PlaceOf, Holding, Router
    <2>2. CASE pc[w] \in {"lookup", "sticky"}
      <3>1. mine[w] \in DOMAIN routers /\ at[w] = 1
        BY <2>2 DEF Types, Places, PlaceOf, Holding
      <3>2. Len(Router(w).guards) \in Nat
        BY <3>1, GuardsOf DEF Router
      <3> QED
        BY <1>1, <3>1, <3>2
    <2>3. CASE pc[w] \notin Holding
      BY <2>3 DEF Types, Places, PlaceOf, Holding
    <2> QED
      BY <2>1, <2>2, <2>3 DEF Holding
  <1>4. pc \in [Workers -> {"idle", "limit", "compare", "build", "sign", "pick",
                            "lookup", "sticky", "fresh", "reply"}]
    BY DEF Types, Locals, Holding
  <1> QED
    BY <1>1, <1>2, <1>3, <1>4 DEF TypeOK, Types, Globals, Locals, Routers, StickyMaps

(* Every variable of the model keeps to its set, whatever the number of    *)
(* threads, sessions, guards and changes: a worker past the choice of a    *)
(* router holds one that was built, and its place in the list of guards is *)
(* one of that list or its end.                                            *)
THEOREM TypeCorrect == Spec => []TypeOK
  BY TypesAlways, TypesGiveTypeOK, PTL

-----------------------------------------------------------------------------
(* The second invariant.  As long as no two threads rebuilt at once, one   *)
(* thread at most is in a rebuild; between its two writes the newest       *)
(* router is the one of its snapshot, and outside a rebuild the signature  *)
(* is that of the newest router.                                           *)
Rebuilding == {"build", "sign"}

Signs ==
    \/ raced
    \/ /\ \A v, w \in Workers :
             pc[v] \in Rebuilding /\ pc[w] \in Rebuilding => v = w
       /\ \A w \in Workers :
             pc[w] = "sign" => routers[current].guards = snapshot[w]
       /\ (\A w \in Workers : pc[w] # "sign") /\ current # 0
             => signature = NamesOf(routers[current].guards)

(* A step outside a rebuild. *)
Quiet ==
    /\ RoutersKeep /\ UNCHANGED <<current, signature, raced>>
    /\ \A v \in Workers :
          pc[v] \in Rebuilding \/ pc'[v] \in Rebuilding
            => pc'[v] = pc[v] /\ snapshot'[v] = snapshot[v]

LEMMA QuietSigns == ASSUME Types, Signs, Quiet PROVE Signs'
  <1>1. current # 0 => routers'[current].guards = routers[current].guards
    BY DEF Types, Globals, Quiet, RoutersKeep
  <1>2. \A w \in Workers : pc[w] = "sign" => current # 0
    BY DEF Types, Globals, Places, PlaceOf
  <1>3. \A w \in Workers : pc[w] = "sign" <=> pc'[w] = "sign"
    BY DEF Quiet, Rebuilding
  <1>4. \A w \in Workers : pc[w] \in Rebuilding <=> pc'[w] \in Rebuilding
    BY DEF Quiet
  <1>5. \A w \in Workers : pc[w] = "sign" => snapshot'[w] = snapshot[w]
    BY DEF Quiet, Rebuilding
  <1>6. raced' = raced /\ current' = current /\ signature' = signature
    BY DEF Quiet
  <1>7. CASE raced
    BY <1>6, <1>7 DEF Signs
  <1>8. CASE ~raced
    <2>1. \A v, w \in Workers : pc'[v] \in Rebuilding /\ pc'[w] \in Rebuilding => v = w
      BY <1>4, <1>8 DEF Signs
    <2>2. \A w \in Workers :
             pc'[w] = "sign" => routers'[current'].guards = snapshot'[w]
      BY <1>1, <1>2, <1>3, <1>5, <1>6, <1>8 DEF Signs
    <2>3. (\A w \in Workers : pc'[w] # "sign") /\ current' # 0
             => signature' = NamesOf(routers'[current'].guards)
      BY <1>1, <1>3, <1>6, <1>8 DEF Signs
    <2> QED
      BY <2>1, <2>2, <2>3 DEF Signs
  <1> QED
    BY <1>7, <1>8

LEMMA ReturnQuiet ==
    ASSUME Types, NEW w \in Workers, NEW g, Return(w, g), RoutersKeep,
           pc[w] \in {"sticky", "fresh"}
    PROVE  Quiet
  BY DEF Return, Quiet, request, Rebuilding, Types, Locals

LEMMA StepQuiet ==
    ASSUME Types, NEW w \in Workers, Step(w)
    PROVE  Compare(w) \/ Build(w) \/ Sign(w) \/ Quiet
  <1>1. CASE UNCHANGED routers
    <2>1. RoutersKeep
      BY <1>1, UnchangedKeep
    <2>9. ASSUME Admitted(w) PROVE Quiet
      BY <2>1, <2>9 DEF Admitted, Quiet, global, request, Rebuilding, Types, Locals
    <2>2. ASSUME Pick(w) PROVE Quiet
      BY <2>1, <2>2 DEF Pick, Quiet, global, request, Rebuilding, Types, Locals
    <2>3. ASSUME Lookup(w) PROVE Quiet
      BY <2>1, <2>3 DEF Lookup, Quiet, global, request, Rebuilding, Types, Locals
    <2>4. ASSUME OutOfScope(w) \/ Blocks(w) PROVE Quiet
      BY <2>1, <2>4 DEF OutOfScope, Blocks, Quiet, global, request
    <2>5. ASSUME pc[w] \notin Rebuilding, Leave(w) PROVE Quiet
      BY <2>1, <2>5 DEF Leave, Quiet, global, Rebuilding, Types, Locals
    <2>6. ASSUME Raises(w) \/ Reply(w) \/ Refused(w) PROVE Quiet
      BY <2>5, <2>6 DEF Raises, Reply, Refused, Left, Rebuilding
    <2>7. ASSUME StickyPasses(w) \/ NonePasses(w) \/ Passes(w) PROVE Quiet
      BY <2>1, <2>7, ReturnQuiet DEF StickyPasses, NonePasses, Passes, Left
    <2>8. ASSUME StickyBlocks(w) PROVE Quiet
      BY <2>1, <2>8 DEF StickyBlocks, Quiet, request, Rebuilding, Types, Locals
    <2> QED
      BY <2>2, <2>3, <2>4, <2>6, <2>7, <2>8, <2>9 DEF Step
  <1>2. CASE ~UNCHANGED routers
    <2>1. Build(w) \/ StickyBlocks(w) \/ Passes(w)
      BY <1>2 DEF Step, Admitted, Refused, Compare, Sign, Pick, Lookup, StickyPasses, OutOfScope, Blocks,
                  NonePasses, Raises, Reply, Leave, global
    <2>2. ASSUME StickyBlocks(w) PROVE Quiet
      <3>1. RoutersKeep
        <4>1. mine[w] \in DOMAIN routers
          BY <2>2 DEF StickyBlocks, Types, Places, PlaceOf, Holding
        <4> QED
          BY <2>2, <4>1, UnstickWrites, WriteKeep
      <3> QED
        BY <2>2, <3>1 DEF StickyBlocks, Quiet, request, Rebuilding, Types, Locals
    <2>3. ASSUME Passes(w) PROVE Quiet
      <3>1. mine[w] \in DOMAIN routers /\ pc[w] = "fresh" /\ Return(w, GuardAt(w))
        BY <2>3, LeftGuard DEF Passes, Left
      <3>2. RoutersKeep
        BY <2>3, <3>1, PassesWrites, WriteKeep, UnchangedKeep
      <3> QED
        BY <3>1, <3>2, ReturnQuiet
    <2> QED
      BY <2>1, <2>2, <2>3
  <1> QED
    BY <1>1, <1>2

LEMMA OutsideQuiet ==
    ASSUME Types,
           \/ \E w \in Workers : \/ NoGuards(w)
                                 \/ \E s \in Sessions \cup {None}, n \in Scopes : Begin(w, s, n)
           \/ \E names : Clear(names)
           \/ \E i \in DOMAIN guards : Reload(i) \/ Unload(i)
           \/ \E n \in GuardNames : Load(n)
           \/ UNCHANGED vars
    PROVE  Quiet
  <1>1. ASSUME NEW w \in Workers, NoGuards(w) PROVE Quiet
    BY <1>1, UnchangedKeep DEF NoGuards, global, Quiet
  <1>2. ASSUME NEW w \in Workers, NEW s, NEW n, Begin(w, s, n) PROVE Quiet
    BY <1>2, UnchangedKeep DEF Begin, global, Quiet, Rebuilding, Types, Locals
  <1>3. ASSUME NEW names, Clear(names) PROVE Quiet
    <2>1. RoutersKeep
      BY <1>3, ClearWrites, WriteKeep
    <2> QED
      BY <1>3, <2>1 DEF Clear, request, Quiet
  <1>4. ASSUME NEW gs, Change(gs) PROVE Quiet
    BY <1>4, UnchangedKeep DEF Change, global, request, Quiet
  <1>5. ASSUME UNCHANGED vars PROVE Quiet
    BY <1>5, UnchangedKeep DEF vars, global, request, Quiet
  <1> QED
    BY <1>1, <1>2, <1>3, <1>4, <1>5 DEF Reload, Unload, Load

LEMMA CompareSigns == ASSUME Types, Signs, NEW w \in Workers, Compare(w) PROVE Signs'
  <1>1. /\ pc[w] = "compare" /\ routers' = routers /\ current' = current
        /\ signature' = signature /\ snapshot' = snapshot
        /\ \A v \in Workers \ {w} : pc'[v] = pc[v]
        /\ pc'[w] = IF Outdated(w) THEN "build" ELSE "pick"
    BY DEF Compare, global, request, Types, Locals
  <1>2. CASE raced'
    BY <1>2 DEF Signs
  <1>3. CASE ~raced'
    <2>1. ~raced /\ (Outdated(w) => \A v \in Workers : pc[v] \notin Rebuilding)
      BY <1>3 DEF Compare, Rebuilding
    <2>2. \A v \in Workers : pc'[v] = "sign" <=> pc[v] = "sign"
      BY <1>1
    <2>3. \A u, v \in Workers : pc'[u] \in Rebuilding /\ pc'[v] \in Rebuilding => u = v
      <3>1. CASE Outdated(w)
        BY <1>1, <2>1, <3>1
      <3>2. CASE ~Outdated(w)
        <4>1. \A v \in Workers : pc'[v] \in Rebuilding => pc[v] \in Rebuilding
          BY <1>1, <3>2 DEF Rebuilding
        <4> QED
          BY <2>1, <4>1 DEF Signs
      <3> QED
        BY <3>1, <3>2
    <2> QED
      BY <1>1, <2>1, <2>2, <2>3 DEF Signs
  <1> QED
    BY <1>2, <1>3

LEMMA BuildSigns == ASSUME Types, Signs, NEW w \in Workers, Build(w) PROVE Signs'
  <1>1. /\ pc[w] = "build" /\ raced' = raced /\ snapshot' = snapshot
        /\ \A v \in Workers \ {w} : pc'[v] = pc[v]
        /\ pc'[w] = "sign"
    BY DEF Build, request, Types, Locals
  <1>2. routers'[current'].guards = snapshot[w]
    <2>1. routers'[current'] = [guards |-> snapshot[w],
                                sticky |-> [s \in Sessions |-> None]]
      BY BuildKeep, Zenon
    <2> QED
      BY <2>1
  <1>3. CASE raced
    BY <1>1, <1>3 DEF Signs
  <1>4. CASE ~raced
    <2>1. \A v \in Workers \ {w} : pc'[v] \notin Rebuilding
      BY <1>1, <1>4 DEF Signs, Rebuilding
    <2>2. \A v \in Workers : pc'[v] = "sign" => v = w
      BY <2>1 DEF Rebuilding
    <2> QED
      BY <1>1, <1>2, <2>1, <2>2 DEF Signs
  <1> QED
    BY <1>3, <1>4

LEMMA SignSigns == ASSUME Types, Signs, NEW w \in Workers, Sign(w) PROVE Signs'
  <1>1. /\ pc[w] = "sign" /\ raced' = raced /\ routers' = routers /\ current' = current
        /\ \A v \in Workers \ {w} : pc'[v] = pc[v]
        /\ pc'[w] = "pick" /\ signature' = NamesOf(snapshot[w])
    BY DEF Sign, request, Types, Locals, Signed
  <1>2. CASE raced
    BY <1>1, <1>2 DEF Signs
  <1>3. CASE ~raced
    <2>1. routers[current].guards = snapshot[w]
      BY <1>1, <1>3 DEF Signs
    <2>2. \A v \in Workers \ {w} : pc[v] \notin Rebuilding
      BY <1>1, <1>3 DEF Signs, Rebuilding
    <2>3. \A v \in Workers : pc'[v] \notin Rebuilding
      BY <1>1, <2>2 DEF Rebuilding
    <2>4. \A v \in Workers : pc'[v] # "sign"
      BY <2>3 DEF Rebuilding
    <2>5. signature' = NamesOf(routers'[current'].guards)
      BY <1>1, <2>1
    <2> QED
      BY <2>3, <2>4, <2>5 DEF Signs
  <1> QED
    BY <1>2, <1>3

LEMMA NextSigns == Types /\ Signs /\ [Next]_vars => Signs'
  <1> SUFFICES ASSUME Types, Signs, [Next]_vars PROVE Signs'
    OBVIOUS
  <1>1. CASE \E w \in Workers : Step(w)
    BY <1>1, StepQuiet, QuietSigns, CompareSigns, BuildSigns, SignSigns
  <1>2. CASE ~\E w \in Workers : Step(w)
    BY <1>2, OutsideQuiet, QuietSigns DEF Next, Finished
  <1> QED
    BY <1>1, <1>2

LEMMA SignsAlways == Spec => []Signs
  <1>1. Init => Signs
    BY DEF Init, Signs, Rebuilding
  <1> QED
    BY <1>1, NextSigns, TypesAlways, PTL DEF Spec

(* Only the names of the guards tell whether the router is rebuilt, and    *)
(* the names and the router are written one after the other without a lock *)
(* (sidecar.py:389-392): unless two threads rebuilt at once, the signature *)
(* is that of the router whenever no thread is between the two writes.     *)
THEOREM SignatureIsRouters == Spec => []SignatureTells
  <1>1. Signs => SignatureTells
    BY DEF Signs, SignatureTells
  <1> QED
    BY <1>1, SignsAlways, PTL

-----------------------------------------------------------------------------
(* The third invariant.  Until a name gets a second guard, the guards of   *)
(* the registry, of the routers and of the snapshots that have one name    *)
(* are one guard.                                                          *)
Seen ==
    {g \in Objects : \/ g \in ToSet(guards)
                     \/ \E i \in DOMAIN routers : g \in ToSet(routers[i].guards)
                     \/ \E w \in Workers : g \in ToSet(snapshot[w])}

Unique == renewed \/ \A g, h \in Seen : g.name = h.name => g = h

LEMMA SeenIncludes ==
    ASSUME Types
    PROVE  /\ ToSet(guards) \subseteq Seen
           /\ \A w \in Workers : ToSet(snapshot[w]) \subseteq Seen
           /\ \A i \in DOMAIN routers : ToSet(routers[i].guards) \subseteq Seen
           /\ ToSet(<<>>) \subseteq Seen
  <1>1. ToSet(guards) \subseteq Objects
    BY ObjectNames DEF Types, Globals
  <1>2. \A w \in Workers : ToSet(snapshot[w]) \subseteq Objects
    BY ObjectNames DEF Types, Locals
  <1>3. \A i \in DOMAIN routers : ToSet(routers[i].guards) \subseteq Objects
    BY GuardsOf
  <1>4. ToSet(<<>>) = {}
    BY DEF ToSet
  <1> QED
    BY <1>1, <1>2, <1>3, <1>4 DEF Seen

(* No step but the loading of a guard shows anyone a new one. *)
LEMMA SeenShrinks ==
    ASSUME Types, Types', RoutersKeep,
           current' = current \/ \E w \in Workers : Build(w),
           ToSet(guards') \subseteq Seen,
           \A w \in Workers : ToSet(snapshot'[w]) \subseteq Seen
    PROVE  Seen' \subseteq Seen
  <1>1. ASSUME NEW i \in DOMAIN routers' PROVE ToSet(routers'[i].guards) \subseteq Seen
    <2>1. DOMAIN routers = 1 .. current /\ DOMAIN routers' = 1 .. current'
      BY DEF Types, Globals
    <2>2. CASE i \in DOMAIN routers
      <3>1. ToSet(routers[i].guards) \subseteq Seen
        BY <2>2, SeenIncludes
      <3>2. routers'[i].guards = routers[i].guards
        BY <2>2 DEF RoutersKeep
      <3> QED
        BY <3>1, <3>2
    <2>3. CASE i \notin DOMAIN routers
      <3>1. PICK w \in Workers : Build(w)
        BY <2>1, <2>3
      <3>2. current' = current + 1 /\ current \in Nat /\ i = current'
        <4>1. Len(routers') = Len(routers) + 1
          BY <3>1, BuildKeep
        <4>2. current' = current + 1 /\ current \in Nat
          BY <4>1 DEF Types, Globals
        <4> QED
          BY <2>1, <2>3, <4>2
      <3>3. routers'[current'] = [guards |-> snapshot[w],
                                  sticky |-> [s \in Sessions |-> None]]
        BY <3>1, BuildKeep, Zenon
      <3>4. routers'[i].guards = snapshot[w]
        BY <3>2, <3>3
      <3>5. ToSet(snapshot[w]) \subseteq Seen
        BY SeenIncludes
      <3> QED
        BY <3>4, <3>5
    <2> QED
      BY <2>2, <2>3
  <1>2. ASSUME NEW g \in Seen' PROVE g \in Seen
    <2>1. \/ g \in ToSet(guards')
          \/ \E i \in DOMAIN routers' : g \in ToSet(routers'[i].guards)
          \/ \E w \in Workers : g \in ToSet(snapshot'[w])
      BY DEF Seen
    <2> QED
      BY <1>1, <2>1
  <1> QED
    BY <1>2

(* What a worker's step leaves alone. *)
LEMMA StepFrame ==
    ASSUME Types, NEW w \in Workers, Step(w)
    PROVE  /\ RoutersKeep /\ (current' = current \/ Build(w))
           /\ guards' = guards /\ renewed' = renewed /\ overlapped' = overlapped
           /\ \A v \in Workers :
                 \/ snapshot'[v] = snapshot[v]
                 \/ snapshot'[v] = <<>>
           /\ \A v \in Workers \ {w} : pc'[v] = pc[v] /\ answer'[v] = answer[v]
           /\ raced' = raced \/ Compare(w)
  <1>1. RoutersKeep /\ (current' = current \/ Build(w))
    <2>1. CASE Compare(w) \/ Sign(w)
      BY <2>1, UnchangedKeep DEF Compare, Sign, global
    <2>2. CASE Build(w)
      BY <2>2, BuildKeep
    <2>3. CASE Quiet
      BY <2>3 DEF Quiet
    <2> QED
      BY <2>1, <2>2, <2>3, StepQuiet
  <1>2. guards' = guards /\ renewed' = renewed /\ overlapped' = overlapped
    BY DEF Step, Admitted, Refused, Compare, Build, Sign, Pick, Lookup, StickyPasses, StickyBlocks,
           OutOfScope, Passes, Blocks, NonePasses, Raises, Reply, Leave, Return,
           registry, request
  <1>3. \/ snapshot' = snapshot
        \/ snapshot' = [snapshot EXCEPT ![w] = <<>>]
    BY DEF Step, Admitted, Refused, Compare, Build, Sign, Pick, Lookup, StickyPasses, StickyBlocks,
           OutOfScope, Passes, Blocks, NonePasses, Raises, Reply, Leave, Return, request
  <1>4. \A v \in Workers :
           \/ snapshot'[v] = snapshot[v]
           \/ snapshot'[v] = <<>>
    BY <1>3 DEF Types, Locals
  <1>5. \/ pc' = pc
        \/ \E x : pc' = [pc EXCEPT ![w] = x]
    BY Zenon DEF Step, Admitted, Refused, Compare, Build, Sign, Pick, Lookup, StickyPasses, StickyBlocks,
           OutOfScope, Passes, Blocks, NonePasses, Raises, Reply, Leave, Return
  <1>6. \/ answer' = answer
        \/ \E x : answer' = [answer EXCEPT ![w] = x]
    BY Zenon DEF Step, Admitted, Refused, Compare, Build, Sign, Pick, Lookup, StickyPasses, StickyBlocks,
           OutOfScope, Passes, Blocks, NonePasses, Raises, Reply, Leave, Return
  <1>7. \A v \in Workers \ {w} : pc'[v] = pc[v] /\ answer'[v] = answer[v]
    BY <1>5, <1>6 DEF Types, Locals
  <1>8. raced' = raced \/ Compare(w)
    BY DEF Step, Admitted, Refused, Build, Sign, Pick, Lookup, StickyPasses, StickyBlocks,
           OutOfScope, Passes, Blocks, NonePasses, Raises, Reply, Leave, Return
  <1> QED
    BY <1>1, <1>2, <1>4, <1>7, <1>8

LEMMA NextUnique == Types /\ Unique /\ [Next]_vars => Unique'
  <1> SUFFICES ASSUME Types, Unique, [Next]_vars PROVE Unique'
    OBVIOUS
  <1>1. Types'
    BY NextTypes
  <1>2. ASSUME renewed' = renewed, Seen' \subseteq Seen PROVE Unique'
    BY <1>2 DEF Unique
  <1>3. ASSUME NEW w \in Workers, Step(w) PROVE Unique'
    <2>1. ToSet(guards') \subseteq Seen
      BY <1>3, StepFrame, SeenIncludes
    <2>2. ASSUME NEW v \in Workers PROVE ToSet(snapshot'[v]) \subseteq Seen
      BY <1>3, StepFrame, SeenIncludes
    <2>3. Seen' \subseteq Seen
      BY <1>1, <1>3, <2>1, <2>2, StepFrame, SeenShrinks
    <2> QED
      BY <1>2, <1>3, <2>3, StepFrame
  <1>4. ASSUME NEW w \in Workers, NoGuards(w) PROVE Unique'
    BY <1>4 DEF NoGuards, registry, global, Unique, Seen
  <1>5. ASSUME NEW w \in Workers, NEW s, NEW n, Begin(w, s, n) PROVE Unique'
    <2>1. RoutersKeep /\ guards' = guards /\ renewed' = renewed /\ current' = current
      BY <1>5, UnchangedKeep DEF Begin, global
    <2>2. \A v \in Workers : snapshot'[v] = snapshot[v] \/ snapshot'[v] = guards
      BY <1>5 DEF Begin, Types, Locals
    <2>3. Seen' \subseteq Seen
      BY <1>1, <2>1, <2>2, SeenIncludes, SeenShrinks
    <2> QED
      BY <1>2, <2>1, <2>3
  <1>6. ASSUME NEW names, Clear(names) PROVE Unique'
    <2>1. RoutersKeep /\ guards' = guards /\ renewed' = renewed /\ current' = current
          /\ snapshot' = snapshot
      BY <1>6, ClearWrites, WriteKeep DEF Clear, request
    <2>2. Seen' \subseteq Seen
      BY <1>1, <2>1, SeenIncludes, SeenShrinks
    <2> QED
      BY <1>2, <2>1, <2>2
  <1>7. ASSUME NEW i \in DOMAIN guards, Reload(i) PROVE Unique'
    BY <1>7 DEF Reload, Unique
  <1>8. ASSUME NEW i \in DOMAIN guards, Unload(i) PROVE Unique'
    <2>1. RoutersKeep /\ guards' = RemoveAt(guards, i) /\ renewed' = renewed
          /\ current' = current /\ snapshot' = snapshot
      BY <1>8, UnchangedKeep DEF Unload, Change, global, request
    <2>2. ToSet(guards') \subseteq ToSet(guards)
      BY <2>1, Removed DEF Types, Globals
    <2>3. Seen' \subseteq Seen
      BY <1>1, <2>1, <2>2, SeenIncludes, SeenShrinks
    <2> QED
      BY <1>2, <2>1, <2>3
  <1>9. ASSUME NEW n \in GuardNames, Load(n) PROVE Unique'
    <2> DEFINE new == [name |-> n, ver |-> changes + 1]
    <2>1. CASE renewed'
      BY <2>1 DEF Unique
    <2>2. CASE ~renewed'
      <3>1. ~renewed /\ n \notin Known /\ n \notin ToSet(NamesOf(guards))
        BY <1>9, <2>2 DEF Load
      <3>2. guards' = Append(guards, new) /\ routers' = routers /\ snapshot' = snapshot
        BY <1>9 DEF Load, Change, global, request
      <3>3. Seen' \subseteq Seen \cup {new}
        <4>1. guards \in Seq(Objects)
          BY DEF Types, Globals
        <4>2. ToSet(guards') \subseteq ToSet(guards) \cup {new}
          BY <3>2, <4>1 DEF ToSet
        <4> QED
          BY <3>2, <4>2 DEF Seen
      <3>4. \A gs \in Seq(Objects) : \A g \in ToSet(gs) : g.name \in ToSet(NamesOf(gs))
        BY DEF ToSet, NamesOf
      <3>5. ASSUME NEW g \in Seen PROVE g.name # n
        <4>1. CASE g \in ToSet(guards)
          BY <3>1, <3>4, <4>1 DEF Types, Globals
        <4>2. ASSUME NEW i \in DOMAIN routers, g \in ToSet(routers[i].guards)
              PROVE  g.name # n
          <5>1. g.name \in ToSet(NamesOf(routers[i].guards))
            BY <3>4, <4>2, GuardsOf
          <5> QED
            BY <3>1, <5>1 DEF Known
        <4>3. ASSUME NEW w \in Workers, g \in ToSet(snapshot[w]) PROVE g.name # n
          <5>1. g.name \in ToSet(NamesOf(snapshot[w]))
            BY <3>4, <4>3 DEF Types, Locals
          <5> QED
            BY <3>1, <5>1 DEF Known
        <4> QED
          BY <4>1, <4>2, <4>3 DEF Seen
      <3>6. new.name = n
        OBVIOUS
      <3> QED
        BY <3>1, <3>3, <3>5, <3>6 DEF Unique
    <2> QED
      BY <2>1, <2>2
  <1>10. CASE UNCHANGED vars
    BY <1>10 DEF vars, registry, global, request, Unique, Seen
  <1> QED
    BY <1>3, <1>4, <1>5, <1>6, <1>7, <1>8, <1>9, <1>10 DEF Next, Finished

-----------------------------------------------------------------------------
(* The fourth invariant: what requests that come one at a time find.  A    *)
(* worker's snapshot was loaded during its request, and so were the guards *)
(* of the router it is about to read or holds.                             *)
Alone ==
    /\ raced => overlapped
    /\ ~overlapped => \A v, w \in Busy : v = w

ServeOf(w) ==
    /\ pc[w] # "idle" => ToSet(snapshot[w]) \subseteq live[w]
    /\ pc[w] = "pick" => ToSet(routers[current].guards) \subseteq live[w]
    /\ pc[w] \in Holding => ToSet(routers[mine[w]].guards) \subseteq live[w]
    /\ answer[w] # None => answer[w] \in live[w]

Serves == overlapped \/ renewed \/ \A w \in Workers : ServeOf(w)

LEMMA NextAlone == Types /\ Alone /\ [Next]_vars => Alone'
  <1> SUFFICES ASSUME Types, Alone, [Next]_vars PROVE Alone'
    OBVIOUS
  <1>1. ASSUME raced' = raced, overlapped' = overlapped, Busy' \subseteq Busy PROVE Alone'
    BY <1>1 DEF Alone
  <1>2. ASSUME NEW w \in Workers, Step(w) PROVE Alone'
    <2>1. w \in Busy
      BY <1>2 DEF Step, Admitted, Refused, Compare, Build, Sign, Pick, Lookup, StickyPasses, StickyBlocks,
           OutOfScope, Passes, Blocks, NonePasses, Raises, Reply, Left, Busy
    <2>2. Busy' \subseteq Busy
      BY <1>2, <2>1, StepFrame DEF Busy
    <2>3. overlapped' = overlapped
      BY <1>2, StepFrame
    <2>4. raced' => overlapped
      <3>1. CASE raced' = raced
        BY <3>1 DEF Alone
      <3>2. CASE Compare(w) /\ ~raced /\ raced'
        <4>1. PICK v \in Workers : pc[v] \in {"build", "sign"}
          BY <3>2 DEF Compare
        <4>2. v # w /\ v \in Busy
          BY <3>2, <4>1 DEF Compare, Busy
        <4> QED
          BY <2>1, <4>2 DEF Alone
      <3> QED
        BY <1>2, <3>1, <3>2, StepFrame DEF Types, Globals
    <2> QED
      BY <2>2, <2>3, <2>4 DEF Alone
  <1>3. ASSUME NEW w \in Workers, NoGuards(w) PROVE Alone'
    BY <1>1, <1>3 DEF NoGuards, Busy
  <1>4. ASSUME NEW w \in Workers, NEW s, NEW n, Begin(w, s, n) PROVE Alone'
    <2>1. raced' = raced /\ (overlapped' <=> overlapped \/ Busy # {})
      BY <1>4 DEF Begin
    <2>2. Busy' \subseteq Busy \cup {w}
      BY <1>4 DEF Begin, Busy, Types, Locals
    <2> QED
      BY <2>1, <2>2 DEF Alone
  <1>5. ASSUME NEW names, Clear(names) PROVE Alone'
    BY <1>1, <1>5 DEF Clear, request, Busy
  <1>6. ASSUME NEW gs, Change(gs) PROVE Alone'
    BY <1>1, <1>6 DEF Change, request, Busy
  <1>7. CASE UNCHANGED vars
    BY <1>1, <1>7 DEF vars, request, Busy
  <1> QED
    BY <1>2, <1>3, <1>4, <1>5, <1>6, <1>7 DEF Next, Finished, Reload, Unload, Load

LEMMA IdleServes ==
    ASSUME Types', NEW w \in Workers, pc'[w] = "idle" PROVE ServeOf(w)'
  BY DEF Types, Places, PlaceOf, ServeOf, Holding

(* The signature tells the guards, and not only their names. *)
LEMMA SameNames ==
    ASSUME NEW gs \in Seq(Objects), NEW hs \in Seq(Objects),
           NamesOf(gs) = NamesOf(hs),
           \A g \in ToSet(gs), h \in ToSet(hs) : g.name = h.name => g = h
    PROVE  ToSet(gs) \subseteq ToSet(hs)
  <1>1. DOMAIN gs = DOMAIN hs
    BY DEF NamesOf
  <1>2. ASSUME NEW i \in DOMAIN gs PROVE gs[i] = hs[i]
    <2>1. gs[i].name = hs[i].name
      BY <1>1 DEF NamesOf
    <2>2. gs[i] \in ToSet(gs) /\ hs[i] \in ToSet(hs)
      BY <1>1 DEF ToSet
    <2> QED
      BY <2>1, <2>2
  <1> QED
    BY <1>1, <1>2 DEF ToSet

LEMMA StepServes ==
    ASSUME Types, Types', Signs, Unique, Alone, Serves, NEW w \in Workers, Step(w)
    PROVE  Serves'
  <1> SUFFICES ASSUME ~overlapped, ~renewed PROVE \A v \in Workers : ServeOf(v)'
    BY StepFrame DEF Serves
  <1>1. ServeOf(w) /\ ~raced /\ pc[w] # "idle"
    BY DEF Serves, Alone, Step, Admitted, Refused, Compare, Build, Sign, Pick, Lookup, StickyPasses,
           StickyBlocks, OutOfScope, Passes, Blocks, NonePasses, Raises, Reply, Left
  <1>2. ASSUME NEW v \in Workers, v # w PROVE ServeOf(v)'
    <2>1. pc[v] = "idle"
      BY <1>1, <1>2 DEF Alone, Busy
    <2>2. pc'[v] = "idle"
      BY <1>2, <2>1, StepFrame
    <2> QED
      BY <2>2, IdleServes
  <1>3. PlaceOf(w) /\ current = Len(routers) /\ RoutersKeep
    BY StepFrame DEF Types, Places, Globals
  <1>4. CASE Compare(w)
    <2>1. /\ pc[w] = "compare" /\ UNCHANGED <<snapshot, live, routers, current, mine, answer>>
          /\ pc'[w] = IF Outdated(w) THEN "build" ELSE "pick"
      BY <1>4 DEF Compare, registry, global, request, Types, Locals
    <2>2. answer[w] = None
      BY <1>3, <2>1 DEF PlaceOf
    <2>3. ASSUME ~Outdated(w) PROVE ToSet(routers[current].guards) \subseteq live[w]
      <3>1. current # 0 /\ signature = NamesOf(snapshot[w])
        BY <2>3 DEF Outdated
      <3>2. \A v \in Workers : pc[v] # "sign"
        BY <1>1, <2>1 DEF Alone, Busy
      <3>3. NamesOf(routers[current].guards) = NamesOf(snapshot[w])
        BY <1>1, <3>1, <3>2 DEF Signs
      <3>4. current \in DOMAIN routers
        BY <3>1 DEF Types, Globals
      <3>5. /\ routers[current].guards \in Seq(Objects)
            /\ ToSet(routers[current].guards) \subseteq Seen
        BY <3>4, GuardsOf, SeenIncludes
      <3>6. snapshot[w] \in Seq(Objects) /\ ToSet(snapshot[w]) \subseteq Seen
        BY SeenIncludes DEF Types, Locals
      <3>7. ToSet(routers[current].guards) \subseteq ToSet(snapshot[w])
        BY <3>3, <3>5, <3>6, SameNames DEF Unique
      <3> QED
        BY <1>1, <2>1, <3>7 DEF ServeOf
    <2>4. ServeOf(w)'
      BY <1>1, <2>1, <2>2, <2>3 DEF ServeOf, Holding
    <2> QED
      BY <1>2, <2>4
  <1>14. CASE Admitted(w)
    <2>1. /\ pc[w] = "limit" /\ UNCHANGED <<snapshot, live, mine, answer>>
          /\ pc'[w] = "compare"
      BY <1>14 DEF Admitted, registry, request, Types, Locals
    <2>2. ServeOf(w)'
      BY <1>1, <1>3, <2>1 DEF ServeOf, PlaceOf, Holding
    <2> QED
      BY <1>2, <2>2
  <1>5. CASE Build(w)
    <2>1. /\ pc[w] = "build" /\ UNCHANGED <<snapshot, live, mine, answer>>
          /\ pc'[w] = "sign"
      BY <1>5 DEF Build, registry, request, Types, Locals
    <2>2. ServeOf(w)'
      BY <1>1, <1>3, <2>1 DEF ServeOf, PlaceOf, Holding
    <2> QED
      BY <1>2, <2>2
  <1>6. CASE Sign(w)
    <2>1. /\ pc[w] = "sign" /\ UNCHANGED <<snapshot, live, routers, current, mine, answer>>
          /\ pc'[w] = "pick"
      BY <1>6 DEF Sign, registry, request, Types, Locals
    <2>2. routers[current].guards = snapshot[w]
      BY <1>1, <2>1 DEF Signs
    <2>3. ServeOf(w)'
      BY <1>1, <1>3, <2>1, <2>2 DEF ServeOf, PlaceOf, Holding
    <2> QED
      BY <1>2, <2>3
  <1>7. CASE Pick(w)
    <2>1. /\ pc[w] = "pick" /\ UNCHANGED <<snapshot, live, routers, current, answer>>
          /\ pc'[w] = "lookup" /\ mine'[w] = current
      BY <1>7 DEF Pick, registry, global, request, Types, Locals
    <2>2. ServeOf(w)'
      BY <1>1, <1>3, <2>1 DEF ServeOf, PlaceOf, Holding
    <2> QED
      BY <1>2, <2>2
  <1>8. ASSUME pc[w] \in Holding, pc'[w] \in Holding,
               UNCHANGED <<snapshot, live, mine>>,
               \/ answer' = answer
               \/ answer'[w] = None
               \/ answer'[w] \in ToSet(routers[mine[w]].guards)
        PROVE  \A v \in Workers : ServeOf(v)'
    <2>1. ToSet(routers'[mine'[w]].guards) \subseteq live'[w]
      <3>1. mine[w] \in DOMAIN routers
        BY <1>3, <1>8 DEF PlaceOf
      <3>2. routers'[mine[w]].guards = routers[mine[w]].guards
        BY <1>3, <3>1 DEF RoutersKeep
      <3> QED
        BY <1>1, <1>8, <3>2 DEF ServeOf
    <2>2. answer'[w] # None => answer'[w] \in live'[w]
      BY <1>1, <1>8 DEF ServeOf
    <2>3. ServeOf(w)'
      BY <1>1, <1>8, <2>1, <2>2 DEF ServeOf, Holding
    <2> QED
      BY <1>2, <2>3
  <1>9. CASE Lookup(w) \/ StickyBlocks(w) \/ OutOfScope(w) \/ Blocks(w)
    BY <1>8, <1>9 DEF Lookup, StickyBlocks, OutOfScope, Blocks, Left, registry, request,
                      Holding, Types, Locals
  <1>10. CASE StickyPasses(w)
    <2>1. sticky[w] \in ToSet(routers[mine[w]].guards)
      BY <1>3, <1>10 DEF StickyPasses, PlaceOf
    <2> QED
      BY <1>8, <1>10, <2>1 DEF StickyPasses, Return, registry, request, Holding, Types,
                               Locals
  <1>11. CASE Passes(w)
    <2>1. GuardAt(w) \in ToSet(routers[mine[w]].guards)
      BY <1>11, LeftGuard DEF Passes, Router
    <2> QED
      BY <1>8, <1>11, <2>1 DEF Passes, Left, Return, registry, request, Holding, Types,
                               Locals
  <1>12. CASE NonePasses(w)
    BY <1>8, <1>12 DEF NonePasses, Return, registry, request, Holding, Types, Locals
  <1>13. CASE Raises(w) \/ Reply(w) \/ Refused(w)
    <2>1. pc'[w] = "idle"
      BY <1>13 DEF Raises, Reply, Refused, Leave, Types, Locals
    <2> QED
      BY <1>2, <2>1, IdleServes
  <1> QED
    BY <1>4, <1>5, <1>6, <1>7, <1>9, <1>10, <1>11, <1>12, <1>13, <1>14 DEF Step

LEMMA NextServes ==
    Types /\ Types' /\ Signs /\ Unique /\ Alone /\ Serves /\ [Next]_vars => Serves'
  <1> SUFFICES ASSUME Types, Types', Signs, Unique, Alone, Serves, [Next]_vars
               PROVE  Serves'
    OBVIOUS
  <1>1. ASSUME RoutersKeep, overlapped' = overlapped, renewed => renewed',
               UNCHANGED <<current, pc, snapshot, mine, answer>>,
               \A w \in Workers : pc[w] # "idle" => live[w] \subseteq live'[w]
        PROVE  Serves'
    <2>1. ASSUME NEW w \in Workers, ServeOf(w) PROVE ServeOf(w)'
      <3>1. CASE pc[w] = "idle"
        BY <1>1, <3>1, IdleServes
      <3>2. CASE pc[w] # "idle"
        <4>1. pc[w] = "pick" => routers'[current].guards = routers[current].guards
          BY <1>1 DEF Types, Globals, Places, PlaceOf, RoutersKeep
        <4>2. pc[w] \in Holding => routers'[mine[w]].guards = routers[mine[w]].guards
          BY <1>1 DEF Types, Places, PlaceOf, RoutersKeep
        <4> QED
          BY <1>1, <2>1, <3>2, <4>1, <4>2 DEF ServeOf
      <3> QED
        BY <3>1, <3>2
    <2> QED
      BY <1>1, <2>1 DEF Serves
  <1>2. ASSUME NEW w \in Workers, Step(w) PROVE Serves'
    BY <1>2, StepServes
  <1>3. ASSUME NEW w \in Workers, NoGuards(w) PROVE Serves'
    BY <1>1, <1>3, UnchangedKeep DEF NoGuards, registry, global
  <1>4. ASSUME NEW w \in Workers, NEW s, NEW n, Begin(w, s, n) PROVE Serves'
    <2>1. CASE overlapped'
      BY <2>1 DEF Serves
    <2>2. CASE ~overlapped'
      <3>1. \A v \in Workers : pc[v] = "idle"
        BY <1>4, <2>2 DEF Begin, Busy
      <3>2. ASSUME NEW v \in Workers, v # w PROVE ServeOf(v)'
        <4>1. pc'[v] = "idle"
          BY <1>4, <3>1, <3>2 DEF Begin, Types, Locals
        <4> QED
          BY <4>1, IdleServes
      <3>3. ServeOf(w)'
        <4>1. /\ pc'[w] = "limit" /\ snapshot'[w] = guards /\ live'[w] = ToSet(guards)
          BY <1>4 DEF Begin, Types, Locals
        <4>2. answer'[w] = None
          BY <4>1 DEF Types, Places, PlaceOf
        <4> QED
          BY <4>1, <4>2 DEF ServeOf, Holding
      <3> QED
        BY <3>2, <3>3 DEF Serves
    <2> QED
      BY <2>1, <2>2
  <1>5. ASSUME NEW names, Clear(names) PROVE Serves'
    BY <1>1, <1>5, ClearWrites, WriteKeep DEF Clear, request
  <1>6. ASSUME NEW gs, Change(gs), renewed => renewed' PROVE Serves'
    <2>1. RoutersKeep
      BY <1>6, UnchangedKeep DEF Change, global
    <2>2. \A w \in Workers : pc[w] # "idle" => live[w] \subseteq live'[w]
      BY <1>6 DEF Change, Busy
    <2> QED
      BY <1>1, <1>6, <2>1, <2>2 DEF Change, global, request
  <1>7. CASE UNCHANGED vars
    BY <1>1, <1>7, UnchangedKeep DEF vars, registry, global, request
  <1>8. ASSUME NEW i \in DOMAIN guards, Reload(i) \/ Unload(i) PROVE Serves'
    BY <1>6, <1>8 DEF Reload, Unload
  <1>9. ASSUME NEW n \in GuardNames, Load(n) PROVE Serves'
    BY <1>6, <1>9 DEF Load
  <1> QED
    BY <1>2, <1>3, <1>4, <1>5, <1>7, <1>8, <1>9 DEF Next, Finished

(* A request is served by a guard that was loaded while it was in          *)
(* progress, if requests come one at a time and no name ever gets a second *)
(* guard: neither the comparison of names alone nor the two writes of a    *)
(* rebuild lets an unloaded guard answer (sidecar.py:388-392).             *)
THEOREM ServedByLoadedGuard == Spec => []ServedInTurn
  <1>1. Init => Unique /\ Alone /\ Serves
    <2> SUFFICES ASSUME Init PROVE Unique /\ Alone /\ Serves
      OBVIOUS
    <2>1. Alone /\ Serves
      BY DEF Init, Alone, Serves, ServeOf, Busy, Holding
    <2>2. Unique
      BY DEF Init, Unique, Seen, ToSet
    <2> QED
      BY <2>1, <2>2
  <1>2. Serves => ServedInTurn
    BY DEF Serves, ServeOf, ServedInTurn, ServedByLive
  <1> QED
    BY <1>1, <1>2, TypesAlways, SignsAlways, NextUnique, NextAlone, NextServes, PTL
       DEF Spec

-----------------------------------------------------------------------------
(* The fifth invariant, for a session whose requests never overlap: one    *)
(* worker at most serves it; the newest router's entry is the guard that   *)
(* passed last, and there is none as long as the worker holds an older     *)
(* router, for only that worker writes the entry; and a worker that tries  *)
(* the sticky guard finds the entry as it read it, or cleared.             *)
Resting == \A w \in Workers : pc[w] = "idle" => session[w] = None

Entry(i, s) == routers[i].sticky[s]

SticksOf(s) ==
    /\ \A v, w \in Workers : session[v] = s /\ session[w] = s => v = w
    /\ current # 0 => Entry(current, s) \in {None, last[s]}
    /\ \A w \in Workers :
          session[w] = s /\ pc[w] \in Holding =>
             /\ mine[w] # current => Entry(current, s) = None
             /\ pc[w] = "sticky" => Entry(mine[w], s) \in {None, sticky[w].name}

Sticks == Resting /\ \A s \in Sessions \ crossed : SticksOf(s)

(* Nothing is written to the entry of s but None, and its worker, if it    *)
(* has one, goes on with what it holds.                                    *)
LEMMA EntryKeeps ==
    ASSUME Types, NEW s \in Sessions, SticksOf(s), UNCHANGED current,
           last'[s] = last[s],
           \A i \in DOMAIN routers : Entry(i, s)' \in {None, Entry(i, s)},
           \A w \in Workers : session'[w] = s => session[w] = s,
           \A w \in Workers : session[w] = s /\ pc'[w] \in Holding =>
              /\ pc[w] \in Holding /\ mine'[w] = mine[w]
              /\ pc'[w] = "sticky" => pc[w] = "sticky" /\ sticky'[w] = sticky[w]
    PROVE  SticksOf(s)'
  <1>1. current # 0 => current \in DOMAIN routers
    BY DEF Types, Globals
  <1>2. \A w \in Workers : pc[w] \in Holding => mine[w] \in DOMAIN routers
    BY DEF Types, Places, PlaceOf
  <1>3. \A v, w \in Workers : session'[v] = s /\ session'[w] = s => v = w
    BY DEF SticksOf
  <1>4. current' # 0 => Entry(current, s)' \in {None, last'[s]}
    BY <1>1 DEF SticksOf
  <1>5. ASSUME NEW w \in Workers, session'[w] = s, pc'[w] \in Holding
        PROVE  /\ mine'[w] # current' => Entry(current, s)' = None
               /\ pc'[w] = "sticky" => Entry(mine[w], s)' \in {None, sticky'[w].name}
    <2>1. /\ session[w] = s /\ pc[w] \in Holding /\ mine'[w] = mine[w]
          /\ mine[w] \in DOMAIN routers
      BY <1>2, <1>5
    <2>2. current # 0
      BY <2>1 DEF Types, Globals
    <2>3. mine'[w] # current' => Entry(current, s)' = None
      BY <1>1, <2>1, <2>2 DEF SticksOf
    <2>4. ASSUME pc'[w] = "sticky"
          PROVE  Entry(mine[w], s)' \in {None, sticky'[w].name}
      <3>1. pc[w] = "sticky" /\ sticky'[w] = sticky[w]
        BY <1>5, <2>1, <2>4
      <3>2. Entry(mine[w], s) \in {None, sticky[w].name}
        BY <2>1, <3>1 DEF SticksOf
      <3>3. routers'[mine'[w]].sticky[s] \in {None, Entry(mine[w], s)}
        BY <2>1 DEF Entry
      <3> QED
        BY <3>1, <3>2, <3>3 DEF Entry
    <2> QED
      BY <2>3, <2>4
  <1> QED
    BY <1>3, <1>4, <1>5 DEF SticksOf

(* The one entry a worker's step may write. *)
LEMMA StepWrites ==
    ASSUME Types, NEW w \in Workers, Step(w), ~Build(w), NEW s \in Sessions,
           session[w] # s \/ ~Passes(w)
    PROVE  /\ \A i \in DOMAIN routers : Entry(i, s)' \in {None, Entry(i, s)}
           /\ current' = current
  <1>1. current' = current
    BY StepFrame
  <1>2. CASE UNCHANGED routers
    BY <1>1, <1>2 DEF Entry
  <1>3. CASE ~UNCHANGED routers
    <2>1. StickyBlocks(w) \/ Passes(w)
      BY <1>3 DEF Step, Admitted, Refused, Compare, Sign, Pick, Lookup, StickyPasses, OutOfScope, Blocks,
                  NonePasses, Raises, Reply, Leave, global
    <2>2. mine[w] \in DOMAIN routers
      BY <2>1, LeftGuard DEF StickyBlocks, Passes, Types, Places, PlaceOf, Holding
    <2>3. routers[mine[w]].sticky \in StickyMaps
      BY <2>2, GuardsOf
    <2>4. ASSUME NEW m \in StickyMaps, routers' = [routers EXCEPT ![mine[w]].sticky = m],
                 m[s] \in {None, Entry(mine[w], s)}
          PROVE  \A i \in DOMAIN routers : Entry(i, s)' \in {None, Entry(i, s)}
      <3>1. /\ \A j \in DOMAIN routers : j # mine[w] => routers'[j] = routers[j]
            /\ routers'[mine[w]].sticky = m
        BY <2>2, <2>4, WriteKeep
      <3> QED
        BY <2>4, <3>1 DEF Entry
    <2>5. CASE StickyBlocks(w)
      <3>1. PICK m \in StickyMaps :
               /\ routers' = [routers EXCEPT ![mine[w]].sticky = m]
               /\ m = [Router(w).sticky EXCEPT ![session[w]] = None]
        BY <2>5, UnstickWrites
      <3>2. m[s] \in {None, Entry(mine[w], s)}
        BY <2>3, <3>1 DEF Router, Entry, StickyMaps
      <3> QED
        BY <1>1, <2>4, <3>1, <3>2
    <2>6. CASE Passes(w)
      <3>1. session[w] \in Sessions /\ session[w] # s
        BY <1>3, <2>6, PassesWrites
      <3>2. PICK m \in StickyMaps :
               /\ routers' = [routers EXCEPT ![mine[w]].sticky = m]
               /\ m = [Router(w).sticky EXCEPT ![session[w]] = GuardAt(w).name]
        BY <1>3, <2>6, PassesWrites
      <3>3. m[s] = Entry(mine[w], s)
        BY <2>3, <3>1, <3>2 DEF Router, Entry, StickyMaps
      <3> QED
        BY <1>1, <2>4, <3>2, <3>3
    <2> QED
      BY <2>1, <2>5, <2>6
  <1> QED
    BY <1>2, <1>3

(* What a step leaves alone of the other workers and sessions. *)
LEMMA StepOthers ==
    ASSUME Types, NEW w \in Workers, Step(w)
    PROVE  /\ \A v \in Workers \ {w} : /\ session'[v] = session[v] /\ mine'[v] = mine[v]
                                       /\ sticky'[v] = sticky[v] /\ pc'[v] = pc[v]
           /\ session'[w] \in {None, session[w]}
           /\ pc'[w] = "idle" => session'[w] = None
           /\ crossed' = crossed
           /\ \A s \in Sessions : s # session[w] => last'[s] = last[s]
  <1>1. crossed' = crossed
    BY DEF Step, Admitted, Refused, Compare, Build, Sign, Pick, Lookup, StickyPasses, StickyBlocks,
           OutOfScope, Passes, Blocks, NonePasses, Raises, Reply, Leave, Return, request
  <1>2. \/ session' = session /\ pc'[w] # "idle"
        \/ session' = [session EXCEPT ![w] = None]
    BY DEF Step, Admitted, Refused, Compare, Build, Sign, Pick, Lookup, StickyPasses, StickyBlocks,
           OutOfScope, Passes, Blocks, NonePasses, Raises, Reply, Leave, Return, request,
           Left, Types, Locals
  <1>3. /\ mine' = mine \/ \E x : mine' = [mine EXCEPT ![w] = x]
        /\ sticky' = sticky \/ \E x : sticky' = [sticky EXCEPT ![w] = x]
    BY Zenon DEF Step, Admitted, Refused, Compare, Build, Sign, Pick, Lookup, StickyPasses, StickyBlocks,
           OutOfScope, Passes, Blocks, NonePasses, Raises, Reply, Leave, Return
  <1>4. \/ last' = last
        \/ \E x : last' = [last EXCEPT ![session[w]] = x]
    BY Zenon DEF Step, Admitted, Refused, Compare, Build, Sign, Pick, Lookup, StickyPasses, StickyBlocks,
           OutOfScope, Passes, Blocks, NonePasses, Raises, Reply, Leave, Return
  <1>5. \A s \in Sessions : s # session[w] => last'[s] = last[s]
    BY <1>4 DEF Types, Globals
  <1>6. \A v \in Workers \ {w} : pc'[v] = pc[v]
    BY StepFrame
  <1> QED
    BY <1>1, <1>2, <1>3, <1>5, <1>6, RouteAssumption DEF Types, Locals

LEMMA BuildSticks ==
    ASSUME Types, NEW w \in Workers, Build(w), NEW s \in Sessions, SticksOf(s)
    PROVE  SticksOf(s)'
  <1>1. /\ UNCHANGED <<session, mine, sticky, last>>
        /\ pc[w] = "build" /\ pc' = [pc EXCEPT ![w] = "sign"]
    BY DEF Build, request
  <1>2. routers'[current'] = [guards |-> snapshot[w], sticky |-> [x \in Sessions |-> None]]
    BY BuildKeep, Zenon
  <1>3. Entry(current, s)' = None
    BY <1>2 DEF Entry
  <1>4. ASSUME NEW v \in Workers, session'[v] = s, pc'[v] = "sticky"
        PROVE  Entry(mine[v], s)' \in {None, sticky'[v].name}
    <2>1. pc[v] = "sticky" /\ session[v] = s
      BY <1>1, <1>4 DEF Types, Locals
    <2>2. mine[v] \in DOMAIN routers /\ Entry(mine[v], s) \in {None, sticky[v].name}
      BY <2>1 DEF Types, Places, PlaceOf, Holding, SticksOf
    <2>3. routers'[mine[v]] = routers[mine[v]]
      <3>1. routers \in Seq(Routers) /\ mine[v] \in 1 .. Len(routers)
        BY <2>2 DEF Types, Globals
      <3>2. PICK r \in Routers : routers' = Append(routers, r)
        BY DEF Build, Types, Locals, Routers, StickyMaps
      <3> QED
        BY <3>1, <3>2, AppendProperties
    <2> QED
      BY <1>1, <2>2, <2>3 DEF Entry
  <1>5. \A u, v \in Workers : session'[u] = s /\ session'[v] = s => u = v
    BY <1>1 DEF SticksOf
  <1> QED
    BY <1>3, <1>4, <1>5 DEF SticksOf

(* The worker's own session. *)
LEMMA OwnSticks ==
    ASSUME Types, Types', NEW w \in Workers, Step(w), ~Build(w), NEW s \in Sessions,
           session[w] = s, SticksOf(s)
    PROVE  SticksOf(s)'
  <1>1. /\ \A v \in Workers : session[v] = s => v = w
        /\ current # 0 => Entry(current, s) \in {None, last[s]}
        /\ pc[w] \in Holding =>
              /\ mine[w] # current => Entry(current, s) = None
              /\ pc[w] = "sticky" => Entry(mine[w], s) \in {None, sticky[w].name}
    BY DEF SticksOf
  <1>2. /\ current' = current
        /\ ~Passes(w) => \A i \in DOMAIN routers : Entry(i, s)' \in {None, Entry(i, s)}
    BY StepWrites, StepFrame
  <1>3. \A v \in Workers : session'[v] = s => v = w /\ session[v] = s
    BY <1>1, StepOthers, RouteAssumption
  <1>4. ASSUME last'[s] = last[s], ~Passes(w),
               pc'[w] \in Holding =>
                  /\ pc[w] \in Holding /\ mine'[w] = mine[w]
                  /\ pc'[w] = "sticky" => pc[w] = "sticky" /\ sticky'[w] = sticky[w]
        PROVE  SticksOf(s)'
    BY <1>1, <1>2, <1>3, <1>4, EntryKeeps, Zenon
  <1>5. ASSUME current # 0 => Entry(current, s)' \in {None, last'[s]},
               pc'[w] \in Holding =>
                  /\ mine'[w] # current => Entry(current, s)' = None
                  /\ pc'[w] = "sticky" => Entry(mine[w], s)' \in {None, sticky'[w].name}
        PROVE  SticksOf(s)'
    BY <1>2, <1>3, <1>5 DEF SticksOf
  <1>6. pc[w] \in Holding => mine[w] \in DOMAIN routers
    BY DEF Types, Places, PlaceOf
  <1>7. current # 0 => current \in DOMAIN routers
    BY DEF Types, Globals
  <1>8. CASE Admitted(w) \/ Compare(w) \/ Sign(w)
    <2>1. pc'[w] \notin Holding /\ last' = last /\ ~Passes(w)
      BY <1>8 DEF Admitted, Compare, Sign, Types, Locals, Holding, Passes, Left
    <2> QED
      BY <1>4, <2>1
  <1>9. CASE Pick(w)
    <2>1. /\ pc'[w] = "lookup" /\ mine'[w] = current /\ last' = last
          /\ routers' = routers
      BY <1>9 DEF Pick, Types, Locals, global
    <2> QED
      BY <1>1, <1>2, <1>5, <2>1 DEF Entry
  <1>10. CASE Lookup(w)
    <2>1. /\ pc[w] = "lookup" /\ mine' = mine /\ last' = last /\ routers' = routers
          /\ ~Passes(w)
      BY <1>10 DEF Lookup, global, Passes, Left
    <2>2. CASE pc' = [pc EXCEPT ![w] = "fresh"]
      BY <1>4, <2>1, <2>2 DEF Holding, Types, Locals
    <2>3. ASSUME NEW g \in StickyGuards(w), sticky' = [sticky EXCEPT ![w] = g]
          PROVE  SticksOf(s)'
      <3>1. g.name = Entry(mine[w], s) /\ sticky'[w] = g
        BY <2>3 DEF StickyGuards, Router, Entry, Types, Locals
      <3>2. Entry(mine[w], s)' = g.name
        BY <2>1, <3>1 DEF Entry
      <3> QED
        BY <1>1, <1>2, <1>5, <2>1, <3>1, <3>2 DEF Entry, Holding
    <2> QED
      BY <1>10, <2>2, <2>3 DEF Lookup
  <1>11. CASE StickyPasses(w)
    <2>1. /\ pc[w] = "sticky" /\ mine' = mine /\ routers' = routers
          /\ pc'[w] = "reply"
          /\ last' = IF sticky[w] = None THEN last ELSE [last EXCEPT ![s] = sticky[w].name]
      BY <1>11, RouteAssumption DEF StickyPasses, Return, Types, Locals
    <2>2. CASE sticky[w] = None
      BY <1>11, <1>4, <2>1, <2>2 DEF Holding, Passes, Left
    <2>3. CASE sticky[w] # None
      <3>1. last'[s] = sticky[w].name
        BY <2>1, <2>3 DEF Types, Globals
      <3>2. current # 0 => Entry(current, s)' \in {None, last'[s]}
        BY <1>1, <1>2, <2>1, <3>1 DEF Entry, Holding
      <3>3. mine'[w] # current => Entry(current, s)' = None
        BY <1>1, <1>2, <2>1 DEF Entry, Holding
      <3> QED
        BY <1>5, <2>1, <3>2, <3>3
    <2> QED
      BY <2>2, <2>3
  <1>12. CASE StickyBlocks(w)
    <2>1. /\ pc[w] = "sticky" /\ mine' = mine /\ last' = last /\ pc'[w] = "fresh"
          /\ ~Passes(w)
      BY <1>12 DEF StickyBlocks, request, Types, Locals, Passes, Left
    <2> QED
      BY <1>4, <2>1 DEF Holding
  <1>13. CASE OutOfScope(w) \/ Blocks(w)
    <2>1. /\ pc[w] = "fresh" /\ pc' = pc /\ mine' = mine /\ last' = last
      BY <1>13 DEF OutOfScope, Blocks, Left
    <2>2. routers' = routers
      BY <1>13 DEF OutOfScope, Blocks, global
    <2> QED
      BY <1>1, <1>2, <1>5, <2>1, <2>2 DEF Entry, Holding
  <1>14. CASE Passes(w)
    <2>1. /\ pc[w] = "fresh" /\ mine' = mine /\ pc'[w] = "reply"
          /\ GuardAt(w).name \in GuardNames /\ s # None
          /\ mine[w] \in DOMAIN routers
      BY <1>14, LeftGuard, RouteAssumption DEF Passes, Return, Left, Types, Locals
    <2>2. last' = IF GuardAt(w) = None THEN last
                  ELSE [last EXCEPT ![s] = GuardAt(w).name]
      BY <1>14, <2>1 DEF Passes, Return
    <2>3. PICK m \in StickyMaps :
             /\ routers' = [routers EXCEPT ![mine[w]].sticky = m]
             /\ m = [Router(w).sticky EXCEPT ![session[w]] = GuardAt(w).name]
      BY <1>14, <2>1, PassesWrites
    <2>4. m[s] = GuardAt(w).name
      BY <2>1, <2>3, GuardsOf DEF Router, StickyMaps
    <2>5. /\ \A j \in DOMAIN routers : j # mine[w] => routers'[j] = routers[j]
          /\ routers'[mine[w]].sticky = m
      BY <2>1, <2>3, WriteKeep
    <2>6. mine[w] # current => Entry(current, s)' = None
      <3> SUFFICES ASSUME mine[w] # current PROVE Entry(current, s)' = None
        OBVIOUS
      <3>1. current \in DOMAIN routers
        BY <1>7, <2>1 DEF Types, Globals
      <3> QED
        BY <1>1, <1>2, <2>1, <2>5, <3>1 DEF Entry, Holding
    <2>7. mine[w] = current => Entry(current, s)' = GuardAt(w).name
      BY <1>2, <2>4, <2>5 DEF Entry
    <2>8. GuardAt(w) # None => last'[s] = GuardAt(w).name
      BY <2>2 DEF Types, Globals
    <2>9. GuardAt(w) # None
      BY <1>14, LeftGuard, RouteAssumption DEF Passes, Objects
    <2>10. current # 0 => Entry(current, s)' \in {None, last'[s]}
      BY <2>6, <2>7, <2>8, <2>9
    <2>11. mine'[w] # current => Entry(current, s)' = None
      BY <2>1, <2>6
    <2> QED
      BY <1>5, <2>1, <2>10, <2>11
  <1>15. CASE NonePasses(w)
    <2>1. /\ pc[w] = "fresh" /\ pc'[w] = "reply" /\ mine' = mine /\ last' = last
          /\ ~Passes(w)
      BY <1>15 DEF NonePasses, Return, Left, Passes, Types, Locals
    <2> QED
      BY <1>4, <2>1 DEF Holding
  <1>16. CASE Raises(w) \/ Reply(w) \/ Refused(w)
    <2>1. pc'[w] = "idle" /\ last' = last /\ routers' = routers
      BY <1>16 DEF Raises, Reply, Refused, Leave, Types, Locals, global
    <2> QED
      BY <1>1, <1>2, <1>5, <2>1 DEF Entry, Holding
  <1> QED
    BY <1>8, <1>9, <1>10, <1>11, <1>12, <1>13, <1>14, <1>15, <1>16 DEF Step

LEMMA StepSticks ==
    ASSUME Types, Types', Sticks, NEW w \in Workers, Step(w) PROVE Sticks'
  <1>1. Resting'
    <2>1. \A v \in Workers \ {w} : pc'[v] = pc[v] /\ session'[v] = session[v]
      BY StepOthers
    <2>2. pc'[w] = "idle" => session'[w] = None
      BY StepOthers
    <2> QED
      BY <2>1, <2>2 DEF Sticks, Resting
  <1>2. crossed' = crossed
    BY StepOthers
  <1>3. ASSUME NEW s \in Sessions, s \notin crossed PROVE SticksOf(s)'
    <2>1. SticksOf(s)
      BY <1>3 DEF Sticks
    <2>2. CASE Build(w)
      BY <2>1, <2>2, BuildSticks
    <2>3. CASE ~Build(w) /\ session[w] = s
      BY <2>1, <2>3, OwnSticks
    <2>4. CASE ~Build(w) /\ session[w] # s
      <3>1. /\ \A i \in DOMAIN routers : Entry(i, s)' \in {None, Entry(i, s)}
            /\ current' = current
        BY <2>4, StepWrites
      <3>2. last'[s] = last[s]
        BY <2>4, StepOthers
      <3>3. \A v \in Workers : session'[v] = s => v # w /\ session[v] = s
        BY <2>4, StepOthers, RouteAssumption
      <3>4. \A v \in Workers : session[v] = s =>
               pc'[v] = pc[v] /\ mine'[v] = mine[v] /\ sticky'[v] = sticky[v]
        BY <2>4, StepOthers
      <3> QED
        BY <2>1, <3>1, <3>2, <3>3, <3>4, EntryKeeps
    <2> QED
      BY <2>2, <2>3, <2>4
  <1> QED
    BY <1>1, <1>2, <1>3 DEF Sticks

LEMMA NextSticks == Types /\ Types' /\ Sticks /\ [Next]_vars => Sticks'
  <1> SUFFICES ASSUME Types, Types', Sticks, [Next]_vars PROVE Sticks'
    OBVIOUS
  <1>1. ASSUME NEW w \in Workers, Step(w) PROVE Sticks'
    BY <1>1, StepSticks
  <1>2. ASSUME UNCHANGED <<pc, session, mine, sticky, current, last, crossed, routers>>
        PROVE  Sticks'
    BY <1>2 DEF Sticks, Resting, SticksOf, Entry
  <1>3. ASSUME NEW w \in Workers, NoGuards(w) PROVE Sticks'
    BY <1>2, <1>3 DEF NoGuards, global
  <1>4. ASSUME NEW w \in Workers, NEW n, NEW r \in Sessions \cup {None}, Begin(w, r, n)
        PROVE  Sticks'
    <2>1. /\ pc[w] = "idle" /\ session' = [session EXCEPT ![w] = r]
          /\ pc' = [pc EXCEPT ![w] = "limit"]
          /\ UNCHANGED <<mine, sticky, current, last, routers>>
          /\ crossed' = IF \E v \in Busy : session[v] = r THEN crossed \cup {r} ELSE crossed
      BY <1>4 DEF Begin, global
    <2>2. Resting'
      BY <2>1 DEF Sticks, Resting, Types, Locals
    <2>3. ASSUME NEW s \in Sessions, s \notin crossed' PROVE SticksOf(s)'
      <3>1. SticksOf(s)
        BY <2>1, <2>3 DEF Sticks
      <3>2. \A u, v \in Workers : session'[u] = s /\ session'[v] = s => u = v
        <4>1. CASE r = s
          <5>1. \A v \in Workers : pc[v] # "idle" => session[v] # s
            BY <2>1, <2>3, <4>1 DEF Busy
          <5>2. \A v \in Workers : session[v] # s
            BY <5>1, RouteAssumption DEF Sticks, Resting
          <5> QED
            BY <2>1, <5>2 DEF Types, Locals
        <4>2. CASE r # s
          BY <2>1, <3>1, <4>2 DEF SticksOf, Types, Locals
        <4> QED
          BY <4>1, <4>2
      <3>3. \A v \in Workers : session'[v] = s /\ pc'[v] \in Holding =>
                               session[v] = s /\ pc'[v] = pc[v]
        BY <2>1 DEF Holding, Types, Locals
      <3> QED
        BY <2>1, <3>1, <3>2, <3>3 DEF SticksOf, Entry
    <2> QED
      BY <2>1, <2>2, <2>3 DEF Sticks
  <1>5. ASSUME NEW names, Clear(names) PROVE Sticks'
    <2>1. /\ UNCHANGED <<pc, session, mine, sticky, current, last, crossed>>
          /\ current \in DOMAIN routers
      BY <1>5, ClearWrites DEF Clear, request
    <2>2. PICK m \in StickyMaps :
             /\ routers' = [routers EXCEPT ![current].sticky = m]
             /\ m = [s \in Sessions |-> IF s \in names THEN None
                                       ELSE routers[current].sticky[s]]
      BY <1>5, ClearWrites
    <2>3. /\ \A j \in DOMAIN routers : j # current => routers'[j] = routers[j]
          /\ routers'[current].sticky = m
      BY <2>1, <2>2, WriteKeep
    <2>4. ASSUME NEW s \in Sessions, SticksOf(s) PROVE SticksOf(s)'
      <3>1. \A i \in DOMAIN routers : Entry(i, s)' \in {None, Entry(i, s)}
        BY <2>2, <2>3 DEF Entry
      <3> QED
        BY <2>1, <2>4, <3>1, EntryKeeps
    <2> QED
      BY <2>1, <2>4 DEF Sticks, Resting
  <1>6. ASSUME NEW gs, Change(gs) PROVE Sticks'
    BY <1>2, <1>6 DEF Change, global, request
  <1>7. CASE UNCHANGED vars
    BY <1>2, <1>7 DEF vars, global, request
  <1> QED
    BY <1>1, <1>3, <1>4, <1>5, <1>6, <1>7 DEF Next, Finished, Reload, Unload, Load

(* A session whose requests never overlap sticks to the guard that passed  *)
(* for it last, or to none, through rebuilds, scopes that leave the guard  *)
(* out, requests that raise and other sessions (router.py:58-85).          *)
THEOREM SticksToLast == Spec => []StickyIsLast
  <1>1. Init => Sticks
    <2>1. \A s \in Sessions : s # None
      BY RouteAssumption
    <2> QED
      BY <2>1 DEF Init, Sticks, Resting, SticksOf, Holding, Entry
  <1>2. Sticks => StickyIsLast
    BY DEF Sticks, SticksOf, Entry, StickyIsLast
  <1> QED
    BY <1>1, <1>2, TypesAlways, NextSticks, PTL DEF Spec
-----------------------------------------------------------------------------
(* The sixth invariant: what a worker has tried and lists, and that what   *)
(* it sticks to and answers is in scope.                                   *)
ListOf(w) ==
    /\ pc[w] = "sticky" => InScope(sticky[w].name, scope[w])
    /\ answer[w] # None => InScope(answer[w].name, scope[w])
    /\ pc[w] \notin {"fresh", "reply"} => blocked[w] = <<>>
    /\ (pc[w] = "fresh" \/ answer[w] # None) =>
          Lists(blocked[w], Router(w).guards, at[w] - 1, scope[w])
    /\ (pc[w] = "reply" /\ answer[w] = None) =>
          Ranks(blocked[w], Router(w).guards, scope[w])

Listed == \A w \in Workers : ListOf(w)

LEMMA ListsNothing ==
    ASSUME NEW gs, NEW names PROVE Lists(<<>>, gs, 0, names)
  <1> DEFINE p == [k \in {} |-> 0]
  <1>1. p \in [DOMAIN <<>> -> 1 .. 0] /\ {p[k] : k \in DOMAIN <<>>} = {}
    OBVIOUS
  <1>2. {i \in 1 .. 0 : InScope(gs[i].name, names)} = {}
    OBVIOUS
  <1>3. \A k \in DOMAIN <<>> : FALSE
    OBVIOUS
  <1> HIDE DEF p
  <1> QED
    BY <1>1, <1>2, <1>3 DEF Lists

(* The next guard is out of scope: the list stays. *)
LEMMA ListsSkip ==
    ASSUME NEW bs, NEW gs, NEW n \in Nat, NEW names, Lists(bs, gs, n, names),
           ~InScope(gs[n + 1].name, names)
    PROVE  Lists(bs, gs, n + 1, names)
  <1>1. PICK pos \in [DOMAIN bs -> 1 .. n] :
           /\ \A j, k \in DOMAIN bs : j < k => pos[j] < pos[k]
           /\ {pos[k] : k \in DOMAIN bs} = {i \in 1 .. n : InScope(gs[i].name, names)}
           /\ \A k \in DOMAIN bs : bs[k].name = gs[pos[k]].name
    BY DEF Lists
  <1>2. pos \in [DOMAIN bs -> 1 .. n + 1]
    OBVIOUS
  <1>3. {i \in 1 .. n + 1 : InScope(gs[i].name, names)}
           = {i \in 1 .. n : InScope(gs[i].name, names)}
    <2>1. \A i : i \in 1 .. n + 1 <=> i \in 1 .. n \/ i = n + 1
      OBVIOUS
    <2> QED
      BY <2>1, Zenon
  <1> QED
    BY <1>1, <1>2, <1>3, Zenon DEF Lists

(* The next guard is in scope and goes to the end of the list. *)
LEMMA ListsAppend ==
    ASSUME NEW bs \in Seq(Alternatives), NEW gs, NEW n \in Nat, NEW names,
           Lists(bs, gs, n, names), InScope(gs[n + 1].name, names),
           NEW b \in Alternatives, b.name = gs[n + 1].name
    PROVE  Lists(Append(bs, b), gs, n + 1, names)
  <1> DEFINE cs == Append(bs, b)
             S(m) == {i \in 1 .. m : InScope(gs[i].name, names)}
  <1>1. PICK pos \in [DOMAIN bs -> 1 .. n] :
           /\ \A j, k \in DOMAIN bs : j < k => pos[j] < pos[k]
           /\ {pos[k] : k \in DOMAIN bs} = S(n)
           /\ \A k \in DOMAIN bs : bs[k].name = gs[pos[k]].name
    BY DEF Lists
  <1>2. /\ Len(bs) \in Nat /\ DOMAIN bs = 1 .. Len(bs)
        /\ DOMAIN cs = 1 .. Len(bs) + 1
        /\ cs[Len(bs) + 1] = b
        /\ \A k \in DOMAIN bs : cs[k] = bs[k]
    BY AppendProperties
  <1> DEFINE q == [k \in 1 .. Len(bs) + 1 |-> IF k \in DOMAIN bs THEN pos[k] ELSE n + 1]
  <1> HIDE DEF cs
  <1>3. \A k \in DOMAIN cs : \/ k \in DOMAIN bs /\ q[k] = pos[k] /\ q[k] \in 1 .. n
                             \/ k = Len(bs) + 1 /\ k \notin DOMAIN bs /\ q[k] = n + 1
    BY <1>2
  <1>4. DOMAIN bs \subseteq DOMAIN cs /\ Len(bs) + 1 \in DOMAIN cs
    BY <1>2
  <1>5. q \in [DOMAIN cs -> 1 .. n + 1]
    BY <1>2
  <1> HIDE DEF q
  <1>6. \A j, k \in DOMAIN cs : j < k => q[j] < q[k]
    BY <1>1, <1>2, <1>3
  <1>7. {q[k] : k \in DOMAIN cs} = S(n + 1)
    <2>1. \A i : i \in 1 .. n + 1 <=> i \in 1 .. n \/ i = n + 1
      OBVIOUS
    <2>2. \A i : i \in S(n + 1) <=> i \in S(n) \/ i = n + 1
      BY <2>1, Zenon
    <2>3. \A i : i \in {q[k] : k \in DOMAIN cs} <=>
                    i \in {pos[k] : k \in DOMAIN bs} \/ i = n + 1
      <3>1. q[Len(bs) + 1] = n + 1
        BY <1>2, <1>3, <1>4
      <3>2. \A k \in DOMAIN bs : q[k] = pos[k]
        BY <1>2, <1>3, <1>4
      <3> QED
        BY <1>3, <1>4, <3>1, <3>2, Zenon
    <2> QED
      BY <1>1, <2>2, <2>3, Zenon
  <1>8. \A k \in DOMAIN cs : cs[k].name = gs[q[k]].name
    BY <1>1, <1>2, <1>3, Zenon
  <1>9. Lists(cs, gs, n + 1, names)
    BY <1>5, <1>6, <1>7, <1>8, Zenon DEF Lists
  <1> QED
    BY <1>9 DEF cs

(* The sorted list names the same guards, the strongest first. *)
LEMMA ListsSorted ==
    ASSUME NEW bs \in Seq(Alternatives), NEW gs \in Seq(Objects), NEW names,
           Lists(bs, gs, Len(gs), names)
    PROVE  Ranks(StrongestFirst(bs), gs, names)
  <1> DEFINE cs == StrongestFirst(bs)
             N == Len(gs)
             D == DOMAIN bs
  <1>1. PICK pos \in [D -> 1 .. N] :
           /\ \A j, k \in D : j < k => pos[j] < pos[k]
           /\ {pos[k] : k \in D} = {i \in 1 .. N : InScope(gs[i].name, names)}
           /\ \A k \in D : bs[k].name = gs[pos[k]].name
    BY DEF Lists
  <1>2. /\ DOMAIN cs = D
        /\ \A n \in D : cs[n] = bs[From(bs, n)]
    BY SortKeeps
  <1>3. /\ \A n \in D : From(bs, n) \in D
        /\ \A m, n \in D : m < n => Above(bs, From(bs, m), From(bs, n))
        /\ \A i \in D : \E n \in D : From(bs, n) = i
    BY SortPermutes
  <1>4. /\ D \subseteq Int /\ N \in Nat
        /\ \A i \in D : bs[i].conf \in Int /\ pos[i] \in Int
    <2>1. D = 1 .. Len(bs) /\ Len(bs) \in Nat
      OBVIOUS
    <2> QED
      BY <2>1, AboveOrders
  <1> DEFINE q == [n \in D |-> pos[From(bs, n)]]
  <1> HIDE DEF D, N, cs
  <1>5. q \in [D -> 1 .. N] /\ \A n \in D : q[n] = pos[From(bs, n)]
    BY <1>3
  <1> HIDE DEF q
  <1>6. ASSUME NEW j \in D, NEW k \in D, j < k
        PROVE  /\ cs[j].conf >= cs[k].conf
               /\ q[j] # q[k]
               /\ cs[j].conf = cs[k].conf => q[j] < q[k]
    <2> DEFINE a == From(bs, j)
               b == From(bs, k)
    <2>1. a \in D /\ b \in D /\ Above(bs, a, b)
      BY <1>3, <1>6
    <2>2. cs[j] = bs[a] /\ cs[k] = bs[b] /\ q[j] = pos[a] /\ q[k] = pos[b]
      BY <1>2, <1>5
    <2> HIDE DEF a, b
    <2>3. /\ bs[a].conf \in Int /\ bs[b].conf \in Int /\ a \in Int /\ b \in Int
          /\ pos[a] \in Int /\ pos[b] \in Int
      BY <1>4, <2>1
    <2>4. bs[a].conf > bs[b].conf \/ (bs[a].conf = bs[b].conf /\ a < b)
      BY <2>1 DEF Above
    <2>5. a # b
      BY <2>3, <2>4
    <2>6. (a < b => pos[a] < pos[b]) /\ (b < a => pos[b] < pos[a])
      BY <1>1, <2>1
    <2>7. pos[a] # pos[b]
      BY <2>3, <2>5, <2>6
    <2>8. bs[a].conf >= bs[b].conf /\ (bs[a].conf = bs[b].conf => pos[a] < pos[b])
      BY <2>3, <2>4, <2>6
    <2> QED
      BY <2>2, <2>7, <2>8
  <1>7. {q[k] : k \in D} = {i \in 1 .. N : InScope(gs[i].name, names)}
    <2>1. ASSUME NEW x \in {q[k] : k \in D} PROVE x \in {pos[k] : k \in D}
      BY <1>3, <1>5, <2>1, Zenon
    <2>2. ASSUME NEW x \in {pos[k] : k \in D} PROVE x \in {q[k] : k \in D}
      <3>1. PICK i \in D : x = pos[i]
        BY <2>2, Zenon
      <3>2. PICK n \in D : From(bs, n) = i
        BY <1>3, Zenon
      <3>3. q[n] = x
        BY <1>5, <3>1, <3>2, Zenon
      <3> QED
        BY <3>3, Zenon
    <2>3. {q[k] : k \in D} = {pos[k] : k \in D}
      BY <2>1, <2>2
    <2> QED
      BY <1>1, <2>3
  <1>8. ASSUME NEW k \in D PROVE cs[k].name = gs[q[k]].name
    <2>1. From(bs, k) \in D /\ cs[k] = bs[From(bs, k)] /\ q[k] = pos[From(bs, k)]
      BY <1>2, <1>3, <1>5, Zenon
    <2>2. bs[From(bs, k)].name = gs[pos[From(bs, k)]].name
      BY <1>1, <2>1, Zenon
    <2> QED
      BY <2>1, <2>2, Zenon
  <1>9. Ranks(cs, gs, names)
    BY <1>2, <1>5, <1>6, <1>7, <1>8 DEF Ranks, N
  <1> QED
    BY <1>9 DEF cs

(* A step of one worker touches the list, scope and place of no other. *)
LEMMA StepAside ==
    ASSUME Types, NEW w \in Workers, Step(w)
    PROVE  \A v \in Workers \ {w} :
              /\ pc'[v] = pc[v] /\ answer'[v] = answer[v] /\ sticky'[v] = sticky[v]
              /\ mine'[v] = mine[v] /\ scope'[v] = scope[v]
              /\ at'[v] = at[v] /\ blocked'[v] = blocked[v]
  <1>1. /\ scope' = scope \/ \E x : scope' = [scope EXCEPT ![w] = x]
        /\ at' = at \/ \E x : at' = [at EXCEPT ![w] = x]
        /\ blocked' = blocked \/ \E x : blocked' = [blocked EXCEPT ![w] = x]
    BY Zenon DEF Step, Admitted, Refused, Compare, Build, Sign, Pick, Lookup, StickyPasses, StickyBlocks,
           OutOfScope, Passes, Blocks, NonePasses, Raises, Reply, Leave, Return, request
  <1>2. \A v \in Workers \ {w} :
           scope'[v] = scope[v] /\ at'[v] = at[v] /\ blocked'[v] = blocked[v]
    BY <1>1 DEF Types, Locals
  <1> QED
    BY <1>2, StepFrame, StepOthers

LEMMA AsideListed ==
    ASSUME Types, RoutersKeep, NEW v \in Workers, ListOf(v),
           pc'[v] = pc[v], answer'[v] = answer[v], sticky'[v] = sticky[v],
           mine'[v] = mine[v], scope'[v] = scope[v], at'[v] = at[v],
           blocked'[v] = blocked[v]
    PROVE  ListOf(v)'
  <1>1. pc[v] \in {"fresh", "reply"} => Router(v).guards' = Router(v).guards
    BY DEF Types, Places, PlaceOf, Holding, RoutersKeep, Router
  <1>2. answer[v] # None => pc[v] = "reply"
    BY DEF Types, Places, PlaceOf
  <1> QED
    BY <1>1, <1>2, Zenon DEF ListOf

LEMMA StepListed ==
    ASSUME Types, NEW w \in Workers, Step(w), ListOf(w) PROVE ListOf(w)'
  <1>1. RoutersKeep
    BY StepFrame
  <1>2. pc[w] \in Holding =>
           /\ mine[w] \in DOMAIN routers
           /\ routers'[mine[w]].guards = routers[mine[w]].guards
    BY <1>1 DEF Types, Places, PlaceOf, RoutersKeep
  <1>3. pc[w] # "reply" => answer[w] = None
    BY DEF Types, Places, PlaceOf
  <1>4. CASE Admitted(w) \/ Compare(w) \/ Build(w) \/ Sign(w) \/ Pick(w)
    <2>1. /\ pc[w] \in {"limit", "compare", "build", "sign", "pick"}
          /\ pc'[w] \in {"compare", "build", "sign", "pick", "lookup"}
          /\ answer' = answer /\ blocked' = blocked
      BY <1>4 DEF Admitted, Compare, Build, Sign, Pick, Types, Locals
    <2> QED
      BY <1>3, <2>1 DEF ListOf
  <1>5. CASE Lookup(w)
    <2>1. /\ pc[w] = "lookup" /\ mine' = mine /\ scope' = scope /\ at' = at
          /\ blocked' = blocked /\ answer' = answer /\ blocked[w] = <<>>
          /\ at[w] = 1 /\ answer[w] = None
      BY <1>3, <1>5 DEF Lookup, request, ListOf, Types, Places, PlaceOf
    <2>2. CASE pc' = [pc EXCEPT ![w] = "fresh"]
      <3>1. pc'[w] = "fresh"
        BY <2>2 DEF Types, Locals
      <3>2. Lists(blocked'[w], Router(w).guards', at'[w] - 1, scope'[w])
        BY <2>1, ListsNothing
      <3> QED
        BY <2>1, <3>1, <3>2 DEF ListOf
    <2>3. ASSUME NEW g \in StickyGuards(w), sticky' = [sticky EXCEPT ![w] = g],
                 pc' = [pc EXCEPT ![w] = "sticky"]
          PROVE  ListOf(w)'
      <3>1. pc'[w] = "sticky" /\ sticky'[w] = g /\ InScope(g.name, scope[w])
        BY <2>3 DEF StickyGuards, Types, Locals
      <3> QED
        BY <2>1, <3>1 DEF ListOf
    <2> QED
      BY <1>5, <2>2, <2>3 DEF Lookup
  <1>6. CASE StickyPasses(w)
    <2>1. /\ pc[w] = "sticky" /\ pc'[w] = "reply" /\ answer'[w] = sticky[w]
          /\ scope' = scope /\ at' = at /\ blocked' = blocked /\ sticky' = sticky
          /\ blocked[w] = <<>> /\ at[w] = 1
          /\ sticky[w] \in ToSet(routers[mine[w]].guards)
          /\ InScope(sticky[w].name, scope[w])
      BY <1>6 DEF StickyPasses, Return, request, ListOf, Types, Locals, Places, PlaceOf
    <2>2. Lists(blocked'[w], Router(w).guards', at'[w] - 1, scope'[w])
      BY <2>1, ListsNothing
    <2>3. sticky[w] # None
      BY <1>2, <2>1, GuardsOf, RouteAssumption DEF Objects, Holding
    <2> QED
      BY <2>1, <2>2, <2>3 DEF ListOf
  <1>7. CASE StickyBlocks(w)
    <2>1. /\ pc[w] = "sticky" /\ pc'[w] = "fresh" /\ answer' = answer
          /\ scope' = scope /\ at' = at /\ blocked' = blocked
          /\ blocked[w] = <<>> /\ at[w] = 1
      BY <1>7 DEF StickyBlocks, request, ListOf, Types, Locals, Places, PlaceOf
    <2>2. Lists(blocked'[w], Router(w).guards', at'[w] - 1, scope'[w])
      BY <2>1, ListsNothing
    <2> QED
      BY <1>3, <2>1, <2>2 DEF ListOf
  <1>8. CASE OutOfScope(w) \/ Blocks(w)
    <2>1. /\ pc[w] = "fresh" /\ pc'[w] = "fresh" /\ answer'[w] = None
          /\ scope'[w] = scope[w] /\ at'[w] = (at[w] - 1 + 1) + 1
          /\ at[w] - 1 \in Nat /\ at[w] - 1 + 1 = at[w]
          /\ Router(w).guards' = Router(w).guards
      <3>1. /\ pc[w] = "fresh" /\ pc' = pc /\ answer' = answer /\ scope' = scope
            /\ at' = [at EXCEPT ![w] = Advance(@)] /\ routers' = routers
            /\ mine' = mine /\ Left(w)
        BY <1>8 DEF OutOfScope, Blocks, Left, request, global
      <3>2. at[w] \in Nat \ {0} /\ at'[w] = at[w] + 1
        BY <3>1, LeftGuard, GuardsOf DEF Advance, Types, Locals
      <3> QED
        BY <1>3, <3>1, <3>2 DEF Router
    <2>2. Lists(blocked[w], Router(w).guards, at[w] - 1, scope[w])
      BY <2>1 DEF ListOf
    <2>3. blocked[w] \in Seq(Alternatives)
      BY DEF Types, Locals
    <2>4. GuardAt(w) = Router(w).guards[at[w] - 1 + 1] /\ GuardAt(w).name \in GuardNames
      BY <1>8, <2>1, LeftGuard DEF GuardAt, OutOfScope, Blocks
    <2>5. CASE OutOfScope(w)
      <3>1. blocked' = blocked /\ ~InScope(GuardAt(w).name, scope[w])
        BY <2>5 DEF OutOfScope
      <3>2. Lists(blocked[w], Router(w).guards, at[w] - 1 + 1, scope[w])
        BY <2>1, <2>2, <2>4, <3>1, ListsSkip
      <3>3. at'[w] - 1 = at[w] - 1 + 1
        BY <2>1
      <3> QED
        BY <2>1, <3>1, <3>2, <3>3 DEF ListOf
    <2>6. CASE Blocks(w)
      <3>1. PICK c \in Confidences : blocked' =
               [blocked EXCEPT ![w] = Append(@, [name |-> GuardAt(w).name, conf |-> c])]
        BY <2>6 DEF Blocks
      <3> DEFINE b == [name |-> GuardAt(w).name, conf |-> c]
      <3>4. b \in Alternatives /\ b.name = GuardAt(w).name
        BY <2>4 DEF Alternatives
      <3>5. blocked'[w] = Append(blocked[w], b) /\ InScope(GuardAt(w).name, scope[w])
        BY <2>6, <3>1 DEF Blocks, Types, Locals
      <3> HIDE DEF b
      <3>2. Lists(blocked'[w], Router(w).guards, at[w] - 1 + 1, scope[w])
        BY <2>1, <2>2, <2>3, <2>4, <3>4, <3>5, ListsAppend
      <3>3. at'[w] - 1 = at[w] - 1 + 1
        BY <2>1
      <3> QED
        BY <2>1, <3>2, <3>3 DEF ListOf
    <2> QED
      BY <1>8, <2>5, <2>6
  <1>9. CASE Passes(w)
    <2>1. /\ pc[w] = "fresh" /\ pc'[w] = "reply" /\ answer'[w] = GuardAt(w)
          /\ scope' = scope /\ at' = at /\ blocked' = blocked /\ mine' = mine
          /\ InScope(GuardAt(w).name, scope[w])
      BY <1>9 DEF Passes, Left, Return, request, Types, Locals
    <2>2. GuardAt(w) # None
      BY <1>9, LeftGuard, RouteAssumption DEF Passes, Objects
    <2>3. Router(w).guards' = Router(w).guards
      BY <1>2, <2>1 DEF Router, Holding
    <2>4. Lists(blocked[w], Router(w).guards, at[w] - 1, scope[w])
      BY <2>1 DEF ListOf
    <2> QED
      BY <2>1, <2>2, <2>3, <2>4 DEF ListOf
  <1>10. CASE NonePasses(w)
    <2>1. /\ pc[w] = "fresh" /\ pc'[w] = "reply" /\ answer'[w] = None
          /\ scope' = scope /\ mine' = mine
          /\ blocked'[w] = StrongestFirst(blocked[w])
      BY <1>10 DEF NonePasses, Return, request, Types, Locals
    <2>2. Router(w).guards' = Router(w).guards /\ Router(w).guards \in Seq(Objects)
      BY <1>2, <2>1, GuardsOf DEF Router, Holding
    <2>3. Lists(blocked[w], Router(w).guards, at[w] - 1, scope[w])
      BY <2>1 DEF ListOf
    <2>4. at[w] - 1 = Len(Router(w).guards)
      <3>1. at[w] \in 1 .. Len(Router(w).guards) + 1 /\ mine[w] \in DOMAIN routers
        BY <1>2, <2>1 DEF Types, Places, PlaceOf, Router, Holding
      <3>2. Len(Router(w).guards) \in Nat
        BY <3>1, GuardsOf DEF Router
      <3>3. ~(at[w] <= Len(Router(w).guards))
        BY <1>10, <2>1 DEF NonePasses, Left
      <3> QED
        BY <3>1, <3>2, <3>3
    <2>5. blocked[w] \in Seq(Alternatives)
      BY DEF Types, Locals
    <2>6. Lists(blocked[w], Router(w).guards, Len(Router(w).guards), scope[w])
      BY <2>3, <2>4
    <2>7. Ranks(StrongestFirst(blocked[w]), Router(w).guards, scope[w])
      BY <2>2, <2>5, <2>6, ListsSorted
    <2> QED
      BY <2>1, <2>2, <2>7 DEF ListOf
  <1>11. CASE Raises(w) \/ Reply(w) \/ Refused(w)
    <2>1. pc'[w] = "idle" /\ answer'[w] = None /\ blocked'[w] = <<>>
      BY <1>11 DEF Raises, Reply, Refused, Leave, Types, Locals
    <2> QED
      BY <2>1 DEF ListOf
  <1> QED
    BY <1>4, <1>5, <1>6, <1>7, <1>8, <1>9, <1>10, <1>11 DEF Step

LEMMA NextListed == Types /\ Listed /\ [Next]_vars => Listed'
  <1> SUFFICES ASSUME Types, Listed, [Next]_vars PROVE Listed'
    OBVIOUS
  <1>1. ASSUME NEW w \in Workers, Step(w) PROVE Listed'
    <2>1. ListOf(w)'
      BY <1>1, StepListed DEF Listed
    <2>2. ASSUME NEW v \in Workers \ {w} PROVE ListOf(v)'
      BY <1>1, <2>2, StepAside, StepFrame, AsideListed DEF Listed
    <2> QED
      BY <2>1, <2>2 DEF Listed
  <1>2. ASSUME UNCHANGED <<pc, scope, mine, sticky, at, blocked, answer>>, RoutersKeep
        PROVE  Listed'
    BY <1>2, AsideListed DEF Listed
  <1>3. ASSUME NEW w \in Workers, NoGuards(w) PROVE Listed'
    <2>1. RoutersKeep
      BY <1>3, UnchangedKeep DEF NoGuards, global
    <2> QED
      BY <1>2, <1>3, <2>1 DEF NoGuards
  <1>4. ASSUME NEW w \in Workers, NEW n, NEW s \in Sessions \cup {None}, Begin(w, s, n)
        PROVE  Listed'
    <2>1. /\ pc[w] = "idle" /\ pc' = [pc EXCEPT ![w] = "limit"]
          /\ scope' = [scope EXCEPT ![w] = n]
          /\ UNCHANGED <<mine, sticky, at, blocked, answer, routers>>
      BY <1>4 DEF Begin, global
    <2>2. RoutersKeep
      BY <2>1, UnchangedKeep
    <2>3. ListOf(w)'
      <3>1. pc'[w] = "limit" /\ answer[w] = None /\ blocked[w] = <<>>
        BY <2>1 DEF Listed, ListOf, Types, Locals, Places, PlaceOf
      <3> QED
        BY <2>1, <3>1 DEF ListOf
    <2>4. ASSUME NEW v \in Workers \ {w} PROVE ListOf(v)'
      <3>1. pc'[v] = pc[v] /\ scope'[v] = scope[v]
        BY <2>1 DEF Types, Locals
      <3> QED
        BY <2>1, <2>2, <3>1, AsideListed DEF Listed
    <2> QED
      BY <2>3, <2>4 DEF Listed
  <1>5. ASSUME NEW names, Clear(names) PROVE Listed'
    <2>1. RoutersKeep
      <3>1. PICK m \in StickyMaps : routers' = [routers EXCEPT ![current].sticky = m]
        BY <1>5, ClearWrites
      <3> QED
        BY <1>5, <3>1, ClearWrites, WriteKeep
    <2> QED
      BY <1>2, <1>5, <2>1 DEF Clear, request
  <1>6. ASSUME NEW gs, Change(gs) PROVE Listed'
    <2>1. RoutersKeep
      BY <1>6, UnchangedKeep DEF Change, global
    <2> QED
      BY <1>2, <1>6, <2>1 DEF Change, request
  <1>7. CASE UNCHANGED vars
    <2>1. RoutersKeep
      BY <1>7, UnchangedKeep DEF vars, global
    <2> QED
      BY <1>2, <1>7, <2>1 DEF vars, request
  <1> QED
    BY <1>1, <1>3, <1>4, <1>5, <1>6, <1>7 DEF Next, Finished, Reload, Unload, Load

(* Every answer keeps to the request's scope, stuck or not; a guard that   *)
(* answers a fresh request comes after guards that all blocked or were out *)
(* of scope; when none passes, the alternatives list every guard in scope  *)
(* exactly once, the strongest first and equals in the router's order      *)
(* (router.py:57-92).                                                      *)
THEOREM AnswersInScope == Spec => []RouteSound
  <1>1. Init => Listed
    BY DEF Init, Listed, ListOf
  <1>2. Listed => RouteSound
    BY DEF Listed, ListOf, RouteSound
  <1> QED
    BY <1>1, <1>2, TypesAlways, NextListed, PTL DEF Spec
=============================================================================
