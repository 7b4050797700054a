--------------------------- MODULE CheckEndpoint ---------------------------
(***************************************************************************)
(* POST /v1/check of one sidecar process (domain_guard/sidecar.py) with    *)
(* RATE_BACKEND=redis: the registry lookup, the limiter's round trip to    *)
(* Redis, and guard.check, by several threads.  Other instances share the  *)
(* counters; the process may crash and come back; the guard's file may be  *)
(* deleted.                                                                *)
(*                                                                         *)
(* The guard is that of GuardCheck, its steps taken as they are.  A        *)
(* request keeps the guard object it looked up, also after it is unloaded. *)
(***************************************************************************)
EXTENDS GuardCheck, FixedWindow, Functions

CONSTANTS
    Clients,        \* rate-limit keys: user:<id> or ip:<address>
    MaxReceived,    \* bound: requests this process receives, crashes included
    MaxOthers,      \* bound: calls of take() by other instances
    MaxCrashes      \* bound: crashes of this process

ASSUME ClientsAssumption == IsFiniteSet(Clients)

ASSUME CallAssumption == None \notin [client : Clients, req : Calls]

VARIABLES
    loaded,     \* registry._guards holds the guard
    db,         \* Redis: the counter of each client
    allowed,    \* RedisRateLimiter._allowed
    rejected,   \* RedisRateLimiter._rejected
    ep,         \* where each worker is in the endpoint
    call,       \* its client and its request
    reply,      \* what Redis answered it
    received,   \* history: requests received over all lives of the process
    others,     \* history: transactions of other instances
    crashes,    \* history: crashes so far
    window,     \* history: each client's current window: its number, when it
                \* began, the calls it saw and those of them that fit
    promise     \* history: the last 429 of each client: the window it was
                \* counted in, and when Retry-After invites the client back

limiterVars == <<db, allowed, rejected, window>>
historyVars == <<received, others, crashes, promise>>
endpointVars == <<loaded, limiterVars, ep, call, reply, historyVars>>

allVars == <<vars, endpointVars>>

-----------------------------------------------------------------------------
EndpointInit ==
    /\ Init
    /\ loaded = TRUE
    /\ db = [c \in Clients |-> Nil]
    /\ allowed = 0 /\ rejected = 0
    /\ ep = [w \in Workers |-> "idle"]
    /\ call = NoCall /\ reply = NoCall
    /\ received = 0 /\ others = 0 /\ crashes = 0
    /\ window = [c \in Clients |-> [no |-> 0, from |-> 0, seen |-> 0, fit |-> 0]]
    /\ promise = [c \in Clients |-> [no |-> 0, at |-> 0]]

Arrives ==
    /\ received < MaxReceived
    /\ received' = received + 1

(* A request for a guard that is loaded goes on to the limiter. *)
Receive(w, c, r) ==
    /\ ep[w] = "idle"
    /\ loaded
    /\ Arrives
    /\ call' = [call EXCEPT ![w] = [client |-> c, req |-> r]]
    /\ ep' = [ep EXCEPT ![w] = "take"]
    /\ UNCHANGED <<vars, loaded, limiterVars, reply, others, crashes, promise>>

(* 404, before the limiter is asked. *)
NotFound(w) ==
    /\ ep[w] = "idle"
    /\ ~loaded
    /\ Arrives
    /\ UNCHANGED <<vars, loaded, limiterVars, ep, call, reply, others, crashes,
                   promise>>

(* Redis executes a transaction of take() on the counter of client c. *)
WindowAfter(c) ==
    LET fits == IF Admits(TakeReply(db[c], 1, clock)) THEN 1 ELSE 0
    IN  IF AsOf(db[c], clock) = Nil
        THEN [no |-> window[c].no + 1, from |-> clock, seen |-> 1, fit |-> fits]
        ELSE [window[c] EXCEPT !.seen = @ + 1, !.fit = @ + fits]

Execute(c) ==
    /\ db' = [db EXCEPT ![c] = AfterTake(db[c], 1, clock)]
    /\ window' = [window EXCEPT ![c] = WindowAfter(c)]

Take(w) ==
    LET c == call[w].client IN
    /\ ep[w] = "take"
    /\ Execute(c)
    /\ reply' = [reply EXCEPT ![w] = [take |-> TakeReply(db[c], 1, clock),
                                      no |-> WindowAfter(c).no]]
    /\ ep' = [ep EXCEPT ![w] = "reply"]
    /\ UNCHANGED <<vars, loaded, allowed, rejected, call, historyVars>>

(* Another instance spends a call of client c. *)
OtherInstance(c) ==
    /\ others < MaxOthers
    /\ others' = others + 1
    /\ Execute(c)
    /\ UNCHANGED <<vars, loaded, allowed, rejected, ep, call, reply, received,
                   crashes, promise>>

\* Mutant of Answered: the thread goes back to the pool with its request.
AnsweredKeeping(w) ==
    /\ ep' = [ep EXCEPT ![w] = "idle"]
    /\ UNCHANGED <<call, reply>>

Answered(w) ==
    /\ ep' = [ep EXCEPT ![w] = "idle"]
    /\ call' = [call EXCEPT ![w] = None]
    /\ reply' = [reply EXCEPT ![w] = None]

(* The connection breaks before or after the transaction: take() raises.   *)
RedisFails(w) ==
    /\ ep[w] \in {"take", "reply"}
    /\ Answered(w)
    /\ UNCHANGED <<vars, loaded, limiterVars, historyVars>>

Allow(w) ==
    /\ ep[w] = "reply"
    /\ Admits(reply[w].take)
    /\ allowed' = allowed + 1
    /\ ep' = [ep EXCEPT ![w] = "check"]
    /\ UNCHANGED <<vars, loaded, db, rejected, window, call, reply, historyVars>>

(* 429 with Retry-After. *)
\* Mutant of Reject: the early return is forgotten.
RejectGoesOn(w) ==
    /\ ep[w] = "reply"
    /\ ~Admits(reply[w].take)
    /\ rejected' = rejected + 1
    /\ ep' = [ep EXCEPT ![w] = "check"]
    /\ UNCHANGED <<vars, loaded, db, allowed, window, call, reply, historyVars>>

Reject(w) ==
    /\ ep[w] = "reply"
    /\ ~Admits(reply[w].take)
    /\ rejected' = rejected + 1
    /\ promise' = [promise EXCEPT ![call[w].client] =
                      [no |-> reply[w].no,
                       at |-> clock + RetryAfter(reply[w].take) * TicksPerSecond]]
    /\ Answered(w)
    /\ UNCHANGED <<vars, loaded, db, allowed, window, received, others, crashes>>

(* guard.check(message, ctx). *)
StartCheck(w) ==
    /\ ep[w] = "check"
    /\ Begin(w, call[w].req)
    /\ ep' = [ep EXCEPT ![w] = "inside"]
    /\ UNCHANGED <<loaded, limiterVars, call, reply, historyVars>>

RunCheck(w) ==
    /\ ep[w] = "inside"
    /\ Step(w)
    /\ IF pc'[w] = "idle" THEN Answered(w) ELSE UNCHANGED <<ep, call, reply>>
    /\ UNCHANGED <<loaded, limiterVars, historyVars>>

(* The watcher unloads the guard of a deleted file. *)
Unload ==
    /\ loaded
    /\ loaded' = FALSE
    /\ UNCHANGED <<vars, limiterVars, ep, call, reply, historyVars>>

(* The process dies with everything it holds and is started again.  Redis  *)
(* and its clock go on.                                                    *)
Crash ==
    /\ crashes < MaxCrashes
    /\ crashes' = crashes + 1
    /\ cache' = EmptyCache(Keys)
    /\ hits' = 0 /\ misses' = 0 /\ checks' = [hit \in BOOLEAN |-> 0]
    /\ log' = <<>> /\ storedAt' = [k \in Keys |-> None]
    /\ pc' = [w \in Workers |-> "idle"] /\ ep' = [w \in Workers |-> "idle"]
    /\ req' = NoCall /\ res' = NoCall /\ call' = NoCall /\ reply' = NoCall
    /\ now' = [w \in Workers |-> 0] /\ at' = [w \in Workers |-> 1]
    /\ begun' = 0 /\ raised' = 0
    /\ allowed' = 0 /\ rejected' = 0
    /\ UNCHANGED <<guard, clock, loaded, db, window, received, others, promise>>

EndpointTick == Tick /\ UNCHANGED endpointVars

EndpointStep(w) ==
    \/ Take(w) \/ RedisFails(w) \/ Allow(w) \/ Reject(w)
    \/ StartCheck(w) \/ RunCheck(w)

EndpointFinished ==
    /\ \A w \in Workers : ep[w] = "idle"
    /\ received = MaxReceived /\ clock = MaxClock
    /\ UNCHANGED allVars

EndpointNext ==
    \/ EndpointTick \/ Crash \/ Unload
    \/ \E c \in Clients : OtherInstance(c)
    \/ \E w \in Workers :
          \/ NotFound(w) \/ EndpointStep(w)
          \/ \E c \in Clients, r \in Calls : Receive(w, c, r)
    \/ EndpointFinished

(* A thread that has taken a request keeps running; Redis answers or the   *)
(* connection breaks.                                                      *)
EndpointSpec ==
    EndpointInit /\ [][EndpointNext]_allVars
                 /\ \A w \in Workers : WF_allVars(EndpointStep(w))

-----------------------------------------------------------------------------
EndpointTypeOK ==
    /\ loaded \in BOOLEAN
    /\ db \in [Clients -> {Nil} \cup [value : Nat, expires : Nat]]
    /\ allowed \in Nat /\ rejected \in Nat
    /\ ep \in [Workers -> {"idle", "take", "reply", "check", "inside"}]
    /\ \A w \in Workers :
          /\ ep[w] = "idle" <=> call[w] = None
          /\ ep[w] = "inside" <=> pc[w] # "idle"

InEndpoint(state) == Cardinality({w \in Workers : ep[w] = state})

(* The limit holds for all instances together, through crashes and lost    *)
(* replies: of the calls a window saw, the first Limit fit and no other;   *)
(* nobody is turned away while the window has room (ratelimit.py:118-124,  *)
(* docs/user-guide.md:287).                                                *)
WindowExact ==
    \A c \in Clients :
        window[c].fit = IF window[c].seen < Limit THEN window[c].seen ELSE Limit

(* A window opens only when the one before has lasted window_seconds,      *)
(* however often its client came back: with WindowExact, no stretch of     *)
(* that length sees more than twice the limit (ratelimit.py:119, nx=True). *)
WindowsLast ==
    [][\A c \in Clients :
          (window'[c].no # window[c].no /\ window[c].no > 0)
              => clock - window[c].from >= Window * TicksPerSecond]_allVars

(* A client that waits as long as Retry-After says finds the window that   *)
(* turned it away gone, although TTL rounds and the answer travels         *)
(* (ratelimit.py:123 and sidecar.py:322).                                  *)
RetryAfterHonest ==
    \A c \in Clients :
        (promise[c].no > 0 /\ clock >= promise[c].at)
            => \/ window[c].no # promise[c].no
               \/ AsOf(db[c], clock) = Nil

(* The windows opened so far, of all clients. *)
TotalWindows == SumFunction([c \in Clients |-> window[c].no])

(* "Rate limit BEFORE running the pipeline" (sidecar.py:310): every check  *)
(* the guard began was let in by the limiter, and those let in are no more *)
(* than all windows so far have room for, whatever became of the replies   *)
(* and of the process; what one window lets in is WindowExact's.           *)
LimitedBeforeCheck ==
    /\ begun + InEndpoint("check") = allowed
    /\ allowed <= Limit * TotalWindows

(* Every request is answered, whatever Redis, the layers and the other     *)
(* threads do (sidecar.py:303-360).                                        *)
EveryRequestAnswered ==
    \A w \in Workers : (ep[w] # "idle") ~> (ep[w] = "idle")
=============================================================================
