----------------------------- MODULE ShopAgent -----------------------------
(***************************************************************************)
(* The demo agent (demo/shop_agent): POST /api/chat and                    *)
(* /api/session/reset of server.py, served by several threads, and the     *)
(* agent loop guard -> LLM -> tools -> LLM of agent.py.                    *)
(*                                                                         *)
(* All requests of a session append to one list, without a lock, and send  *)
(* all of it to the LLM.  The guard, the LLM and the tools may answer      *)
(* anything or raise.  A history entry names the chat that appended it;    *)
(* one with tool calls, how many; a tool result, which of them.            *)
(***************************************************************************)
EXTENDS Integers, Sequences, FiniteSets

CONSTANTS
    Workers,        \* threads of the server's pool
    Rounds,         \* calls of the LLM per chat: range(4) in agent.py
    CallCounts,     \* bound: how many tools the LLM asks for at once
    MaxChats,       \* bound: requests to /api/chat
    MaxResets       \* bound: requests to /api/session/reset

ASSUME AgentAssumption ==
    /\ Rounds \in Nat \ {0} /\ CallCounts \subseteq Nat \ {0}
    /\ MaxChats \in Nat /\ MaxResets \in Nat

Chats == 1 .. MaxChats
Objects == 1 .. MaxChats

VARIABLES
    provider,   \* which LLM the environment selects
    session,    \* the session object of the session id, 0 for none
    hist,       \* its "history" list, for every object ever made
    made,       \* session objects made so far
    pc,         \* where each worker is
    chat,       \* the chat it serves
    object,     \* the session object it got
    round,      \* LLM calls of this chat so far
    calls,      \* tool calls the LLM asked for
    done,       \* those already dispatched
    prompt,     \* the messages of the LLM call in progress
    begun,      \* history: chats begun
    resets,     \* history: resets so far
    age,        \* history: resets before each chat began
    spoilt      \* history: what went wrong in each session object

sessionVars == <<provider, session, hist, made>>
workerVars == <<pc, chat, object, round, calls, done, prompt>>
historyVars == <<begun, resets, age, spoilt>>
vars == <<sessionVars, workerVars, historyVars>>

Init ==
    /\ provider \in {"service", "mock"}
    /\ session = 0 /\ made = 0
    /\ hist = [o \in Objects |-> <<>>]
    /\ pc = [w \in Workers |-> "idle"]
    /\ chat = [w \in Workers |-> 0]
    /\ object = chat /\ round = chat /\ calls = chat /\ done = chat
    /\ prompt = [w \in Workers |-> <<>>]
    /\ begun = 0 /\ resets = 0
    /\ age = [c \in Chats |-> 0]
    /\ spoilt = [o \in Objects |-> {}]

-----------------------------------------------------------------------------
Entry(role, c, n) == [role |-> role, of |-> c, n |-> n]
User(c) == Entry("user", c, 0)
Reply(c) == Entry("assistant", c, 0)

Say(w, entries) == hist' = [hist EXCEPT ![object[w]] = @ \o entries]

Spoil(w, what) == spoilt' = [spoilt EXCEPT ![object[w]] = @ \cup {what}]

Goto(w, place) == pc' = [pc EXCEPT ![w] = place]

Served(w) ==
    /\ pc' = [pc EXCEPT ![w] = "idle"]
    /\ chat' = [chat EXCEPT ![w] = 0] /\ object' = [object EXCEPT ![w] = 0]
    /\ round' = [round EXCEPT ![w] = 0] /\ calls' = [calls EXCEPT ![w] = 0]
    /\ done' = [done EXCEPT ![w] = 0]
    /\ prompt' = [prompt EXCEPT ![w] = <<>>]

(* A request arrives; _sessions.setdefault finds its session or makes one. *)
(* guard_enabled picks the agent.                                          *)
InUse(o) == \E w \in Workers : object[w] = o

Receive(w) ==
    LET o == IF session = 0 THEN made + 1 ELSE session IN
    /\ pc[w] = "idle"
    /\ begun < MaxChats
    /\ begun' = begun + 1
    /\ session' = o
    /\ made' = IF session = 0 THEN o ELSE made
    /\ chat' = [chat EXCEPT ![w] = begun + 1]
    /\ object' = [object EXCEPT ![w] = o]
    /\ age' = [age EXCEPT ![begun + 1] = resets]
    /\ spoilt' = [spoilt EXCEPT ![o] = IF InUse(o) THEN @ \cup {"overlap"} ELSE @]
    /\ \E place \in {"guard", "user"} : Goto(w, place)
    /\ UNCHANGED <<provider, hist, round, calls, done, prompt, resets>>

(* guard.check lets the message through, blocks it or raises.  A blocked   *)
(* message goes on the history, and then its canned reply.                 *)
GuardPasses(w) ==
    /\ pc[w] = "guard"
    /\ Goto(w, "user")
    /\ UNCHANGED <<sessionVars, chat, object, round, calls, done, prompt,
                   historyVars>>

GuardBlocks(w) ==
    /\ pc[w] = "guard"
    /\ Say(w, <<User(chat[w])>>)
    /\ Goto(w, "refuse")
    /\ UNCHANGED <<provider, session, made, chat, object, round, calls, done, prompt,
                   historyVars>>

\* Mutant of Refuse: the canned reply goes to the user only.
RefuseUnrecorded(w) ==
    /\ pc[w] = "refuse"
    /\ Served(w)
    /\ UNCHANGED <<sessionVars, historyVars>>

Refuse(w) ==
    /\ pc[w] = "refuse"
    /\ Say(w, <<Reply(chat[w])>>)
    /\ Served(w)
    /\ UNCHANGED <<provider, session, made, historyVars>>

GuardRaises(w) ==
    /\ pc[w] = "guard"
    /\ Served(w)
    /\ UNCHANGED <<sessionVars, historyVars>>

(* The user's message goes on the history. *)
Ask(w) ==
    /\ pc[w] = "user"
    /\ Say(w, <<User(chat[w])>>)
    /\ Goto(w, "send")
    /\ UNCHANGED <<provider, session, made, chat, object, round, calls, done, prompt,
                   historyVars>>

(* One more round: the whole history is copied and sent. *)
RoundsLeft(w) == round[w] < Rounds

Send(w) ==
    /\ pc[w] = "send"
    /\ RoundsLeft(w)
    /\ round' = [round EXCEPT ![w] = @ + 1]
    /\ prompt' = [prompt EXCEPT ![w] = hist[object[w]]]
    /\ Goto(w, "llm")
    /\ UNCHANGED <<sessionVars, chat, object, calls, done, historyVars>>

(* The for loop's else: no round is left. *)
GiveUp(w) ==
    /\ pc[w] = "send"
    /\ ~RoundsLeft(w)
    /\ Say(w, <<Reply(chat[w])>>)
    /\ Served(w)
    /\ UNCHANGED <<provider, session, made, historyVars>>

(* How many tools the LLM may ask for.  The mock summarises a tool result  *)
(* and asks for one tool at most when the user speaks of an order.         *)
\* Mutant of MockCalls: the mock looks at the user's message only.
MockCallsAgain(messages) == {0, 1}

MockCalls(messages) ==
    IF messages # <<>> /\ messages[Len(messages)].role = "tool"
    THEN {0} ELSE {0, 1}

LLMCalls(w) ==
    IF provider = "mock" THEN MockCalls(prompt[w]) ELSE {0} \cup CallCounts

(* It answers the user, ... *)
Finish(w) ==
    /\ pc[w] = "llm"
    /\ 0 \in LLMCalls(w)
    /\ Say(w, <<Reply(chat[w])>>)
    /\ Served(w)
    /\ UNCHANGED <<provider, session, made, historyVars>>

(* ... asks for n tools, ... *)
AskForTools(w, n) ==
    /\ pc[w] = "llm"
    /\ n \in LLMCalls(w)
    /\ Say(w, <<Entry("call", chat[w], n)>>)
    /\ calls' = [calls EXCEPT ![w] = n]
    /\ done' = [done EXCEPT ![w] = 0]
    /\ prompt' = [prompt EXCEPT ![w] = <<>>]
    /\ Goto(w, "tools")
    /\ UNCHANGED <<provider, session, made, chat, object, round, historyVars>>

(* ... or raises: the user's message stays unanswered on the history.      *)
\* Mutant of ProviderRaises: an error is tried again, and not as a round.
ProviderRetried(w) ==
    /\ pc[w] = "llm"
    /\ round' = [round EXCEPT ![w] = @ - 1]
    /\ prompt' = [prompt EXCEPT ![w] = <<>>]
    /\ Goto(w, "send")
    /\ UNCHANGED <<sessionVars, chat, object, calls, done, historyVars>>

ProviderRaises(w) ==
    /\ pc[w] = "llm"
    /\ provider # "mock"
    /\ Spoil(w, "llm")
    /\ Served(w)
    /\ UNCHANGED <<sessionVars, begun, resets, age>>

(* The tools run one after another, each result appended as it comes. *)
\* Mutant of AfterTool: one result is taken to answer all calls.
AfterFirstTool(w) == "send"

AfterTool(w) == IF done'[w] = calls[w] THEN "send" ELSE "tools"

Dispatch(w) ==
    /\ pc[w] = "tools"
    /\ done' = [done EXCEPT ![w] = @ + 1]
    /\ Say(w, <<Entry("tool", chat[w], done'[w])>>)
    /\ Goto(w, AfterTool(w))
    /\ UNCHANGED <<provider, session, made, chat, object, round, calls, prompt, historyVars>>

(* A tool raises (an argument is missing): its call stays without result.  *)
DispatchRaises(w) ==
    /\ pc[w] = "tools"
    /\ Spoil(w, "tool")
    /\ Served(w)
    /\ UNCHANGED <<sessionVars, begun, resets, age>>

(* _sessions.pop: chats in progress keep the object they got. *)
\* Mutant of Forget: the list is emptied in place.
ForgetInPlace ==
    /\ hist' = [hist EXCEPT ![session] = <<>>]
    /\ UNCHANGED session

Forget == session' = 0 /\ UNCHANGED hist

Reset ==
    /\ resets < MaxResets
    /\ session # 0
    /\ resets' = resets + 1
    /\ Forget
    /\ UNCHANGED <<provider, made, workerVars, begun, age, spoilt>>

Step(w) ==
    \/ GuardPasses(w) \/ GuardBlocks(w) \/ Refuse(w) \/ GuardRaises(w)
    \/ Ask(w) \/ Send(w) \/ GiveUp(w)
    \/ Finish(w) \/ ProviderRaises(w)
    \/ \E n \in CallCounts \cup {1} : AskForTools(w, n)
    \/ Dispatch(w) \/ DispatchRaises(w)

Finished ==
    /\ begun = MaxChats
    /\ \A w \in Workers : pc[w] = "idle"
    /\ UNCHANGED vars

Next ==
    \/ Reset
    \/ \E w \in Workers : Receive(w) \/ Step(w)
    \/ Finished

(* A thread that serves a chat keeps running: the guard, the LLM and the   *)
(* tools answer or raise.                                                  *)
Spec == Init /\ [][Next]_vars /\ \A w \in Workers : WF_vars(Step(w))

-----------------------------------------------------------------------------
Entries == [role : {"user", "assistant", "call", "tool"}, of : Chats, n : Nat]

TypeOK ==
    /\ session \in 0 .. made /\ made \in 0 .. MaxChats
    /\ hist \in [Objects -> Seq(Entries)]
    /\ \A o \in Objects : o > made => hist[o] = <<>>
    /\ pc \in [Workers -> {"idle", "guard", "refuse", "user", "send", "llm",
                          "tools"}]
    /\ object \in [Workers -> 0 .. made]
    /\ \A w \in Workers : /\ pc[w] = "idle" <=> chat[w] = 0
                          /\ pc[w] = "tools" => done[w] < calls[w]
                          /\ round[w] <= Rounds

(* What the LLM services demand: each message with tool calls is followed  *)
(* at once by the results of all of them, and no result stands elsewhere.  *)
Paired(h) ==
    /\ \A i \in DOMAIN h : h[i].role = "call" =>
          \A j \in 1 .. h[i].n :
              /\ i + j \in DOMAIN h
              /\ h[i + j] = Entry("tool", h[i].of, j)
    /\ \A i \in DOMAIN h : h[i].role = "tool" =>
          /\ i > h[i].n
          /\ h[i - h[i].n].role = "call" /\ h[i - h[i].n].n >= h[i].n

(* Unless two chats of a session overlapped or a tool raised in it, every  *)
(* prompt pairs calls and results as the service demands, after any number *)
(* of chats, blocked turns, rounds and LLM failures.  (Once one does not,  *)
(* no later prompt of the session does: nothing repairs the list.)         *)
(* agent.py:79-137.                                                        *)
PromptsPaired ==
    \A w \in Workers :
        (pc[w] = "llm" /\ spoilt[object[w]] \cap {"overlap", "tool"} = {})
            => Paired(prompt[w])

(* Unless chats overlapped or something raised, user and agent take turns: *)
(* no message of the user is followed by another one before its reply, and *)
(* a session at rest ends with a reply - also after a block and after      *)
(* giving up (agent.py:74-76, 137).                                        *)
TurnsAlternate ==
    \A o \in Objects :
        spoilt[o] = {} =>
            LET h == hist[o] IN
            /\ \A i \in DOMAIN h \ {1} :
                  h[i].role = "user" => h[i - 1].role = "assistant"
            /\ (h # <<>> /\ ~InUse(o)) => h[Len(h)].role = "assistant"

(* After a reset the agent has forgotten what was said before it, although *)
(* chats that began before may still be running (server.py:63-67, 72).     *)
ResetForgets ==
    \A w \in Workers : \A i \in DOMAIN prompt[w] :
        age[prompt[w][i].of] = age[chat[w]]

(* With the mock a chat of its own never runs out of rounds: it asks for   *)
(* tools once, then its last message is their result.  A chat that         *)
(* overlaps with it may push that result back and make it ask again        *)
(* (providers.py:221-225, agent.py:82-139).                                *)
MockNeverGivesUp ==
    \A w \in Workers :
        (provider = "mock" /\ pc[w] = "send" /\
         "overlap" \notin spoilt[object[w]])
            => round[w] < 2

(* Every chat ends, with an answer or an error, however often the LLM asks *)
(* for tools (agent.py:82).                                                *)
EveryChatEnds == \A w \in Workers : (pc[w] # "idle") ~> (pc[w] = "idle")

=============================================================================
