------------------------- MODULE ShopAgent_proofs -------------------------
(***************************************************************************)
(* Proofs about the demo agent, for any number of threads, rounds, calls,  *)
(* chats and resets.                                                       *)
(***************************************************************************)
EXTENDS ShopAgent, TLAPS

Types ==
    /\ provider \in {"service", "mock"}
    /\ begun \in 0 .. MaxChats
    /\ made \in 0 .. begun
    /\ session \in 0 .. made
    /\ resets \in Nat
    /\ hist \in [Objects -> Seq(Entries)]
    /\ \A o \in Objects : o > made => hist[o] = <<>>
    /\ pc \in [Workers -> {"idle", "guard", "refuse", "user", "send", "llm", "tools"}]
    /\ chat \in [Workers -> 0 .. begun]
    /\ object \in [Workers -> 0 .. made]
    /\ round \in [Workers -> 0 .. Rounds]
    /\ calls \in [Workers -> Nat]
    /\ done \in [Workers -> Nat]
    /\ prompt \in [Workers -> Seq(Entries)]
    /\ age \in [Chats -> Nat]
    /\ DOMAIN spoilt = Objects
    /\ \A w \in Workers : /\ pc[w] = "idle" <=> chat[w] = 0
                          /\ pc[w] = "idle" <=> object[w] = 0
                          /\ pc[w] = "idle" => prompt[w] = <<>>
                          /\ pc[w] = "tools" => done[w] < calls[w]

(* Nothing on a list was said by a chat that has not begun. *)
Said ==
    /\ \A o \in Objects : \A i \in DOMAIN hist[o] : hist[o][i].of <= begun
    /\ \A w \in Workers : \A i \in DOMAIN prompt[w] : prompt[w][i].of <= begun

(* The chats that share a session object began between the same two        *)
(* resets; those of the current session, after the last.                   *)
OfAge(h, a) == \A i \in DOMAIN h : age[h[i].of] = a

Ages ==
    /\ \A w \in Workers :
          object[w] # 0 => OfAge(hist[object[w]], age[chat[w]])
    /\ \A v, w \in Workers :
          (object[w] # 0 /\ object[v] = object[w]) => age[chat[v]] = age[chat[w]]
    /\ session # 0 => OfAge(hist[session], resets)
    /\ \A w \in Workers :
          (session # 0 /\ object[w] = session) => age[chat[w]] = resets

IInv == Types /\ Said /\ Ages /\ ResetForgets

-----------------------------------------------------------------------------
LEMMA Appended ==
    ASSUME NEW S, NEW s \in Seq(S), NEW t \in Seq(S)
    PROVE  /\ s \o t \in Seq(S)
           /\ \A i \in DOMAIN (s \o t) :
                 \/ i \in DOMAIN s /\ (s \o t)[i] = s[i]
                 \/ \E j \in DOMAIN t : (s \o t)[i] = t[j]
  <1>1. s \o t \in Seq(S) /\ Len(s \o t) = Len(s) + Len(t)
    OBVIOUS
  <1>2. ASSUME NEW i \in DOMAIN (s \o t)
        PROVE  \/ i \in DOMAIN s /\ (s \o t)[i] = s[i]
               \/ \E j \in DOMAIN t : (s \o t)[i] = t[j]
    <2>1. i \in 1 .. Len(s) + Len(t)
      BY <1>1
    <2>2. CASE i <= Len(s)
      BY <2>1, <2>2
    <2>3. CASE i > Len(s)
      <3>1. i - Len(s) \in DOMAIN t
        BY <2>1, <2>3
      <3>2. (s \o t)[i] = t[i - Len(s)]
        BY <2>1, <2>3
      <3> QED
        BY <3>1, <3>2
    <2> QED
      BY <2>1, <2>2, <2>3
  <1> QED
    BY <1>1, <1>2

(* What a worker appends is said by its own chat. *)
Own(w, e) == e \in Seq(Entries) /\ \A i \in DOMAIN e : e[i].of = chat[w]

(* The counts that bound the objects; a busy worker's object is one made.  *)
LEMMA Counts ==
    ASSUME IInv
    PROVE  /\ MaxChats \in Nat /\ begun \in 0 .. MaxChats /\ made \in 0 .. begun
           /\ session \in 0 .. made
           /\ \A n \in 0 .. made : n # 0 => n \in Objects
  <1>1. /\ MaxChats \in Nat /\ begun \in 0 .. MaxChats /\ made \in 0 .. begun
        /\ session \in 0 .. made
    BY Zenon, AgentAssumption DEF IInv, Types
  <1> QED
    BY <1>1 DEF Objects

LEMMA OwnObject ==
    ASSUME IInv, NEW v \in Workers, object[v] # 0
    PROVE  /\ object[v] \in 0 .. made /\ object[v] \in Objects /\ object[v] <= made
           /\ hist[object[v]] \in Seq(Entries)
  <1>1. /\ object \in [Workers -> 0 .. made] /\ hist \in [Objects -> Seq(Entries)]
    BY Zenon DEF IInv, Types
  <1>2. object[v] \in 0 .. made
    BY <1>1
  <1>3. object[v] \in Objects
    BY <1>2, Counts
  <1> QED
    BY <1>1, <1>2, <1>3, Counts

LEMMA SayKeeps ==
    ASSUME IInv, NEW w \in Workers, object[w] # 0, NEW e, Own(w, e), Say(w, e)
    PROVE  /\ hist' \in [Objects -> Seq(Entries)]
           /\ \A o \in Objects : o # object[w] => hist'[o] = hist[o]
           /\ \A o \in Objects : \A i \in DOMAIN hist'[o] : hist'[o][i].of <= begun
           /\ \A a : OfAge(hist[object[w]], a) /\ age[chat[w]] = a
                        => OfAge(hist'[object[w]], a)
           /\ object[w] \in Objects /\ object[w] <= made
  <1> DEFINE o == object[w]
             h == hist[o]
  <1>1. o \in Objects /\ o <= made /\ h \in Seq(Entries)
    BY OwnObject
  <1>2. chat[w] <= begun
    BY AgentAssumption DEF IInv, Types
  <1>3. hist' = [hist EXCEPT ![o] = h \o e] /\ e \in Seq(Entries)
    BY DEF Say, Own
  <1>4. hist'[o] = h \o e
    BY <1>1, <1>3 DEF IInv, Types
  <1>5. /\ h \o e \in Seq(Entries)
        /\ \A i \in DOMAIN (h \o e) :
              \/ i \in DOMAIN h /\ (h \o e)[i] = h[i]
              \/ \E j \in DOMAIN e : (h \o e)[i] = e[j]
    BY <1>1, <1>3, Appended
  <1>6. \A i \in DOMAIN (h \o e) :
           \/ i \in DOMAIN h /\ (h \o e)[i] = h[i]
           \/ (h \o e)[i].of = chat[w]
    BY <1>5 DEF Own
  <1>7. \A p \in Objects : p # o => hist'[p] = hist[p]
    BY <1>3 DEF IInv, Types
  <1>8. hist' \in [Objects -> Seq(Entries)]
    BY <1>1, <1>3, <1>5 DEF IInv, Types
  <1> HIDE DEF h
  <1>9. \A i \in DOMAIN h : h[i].of <= begun
    BY <1>1 DEF IInv, Said, h
  <1>10. \A i \in DOMAIN hist'[o] : hist'[o][i].of <= begun
    BY <1>2, <1>4, <1>6, <1>9
  <1>11. \A p \in Objects : \A i \in DOMAIN hist'[p] : hist'[p][i].of <= begun
    BY <1>7, <1>10 DEF IInv, Said
  <1>12. \A a : OfAge(h, a) /\ age[chat[w]] = a => OfAge(hist'[o], a)
    BY <1>4, <1>6 DEF OfAge
  <1> QED
    BY <1>1, <1>7, <1>8, <1>11, <1>12 DEF h

-----------------------------------------------------------------------------
(* A step that begins no chat keeps what is known of ages, if it appends   *)
(* what its worker's chat says and sends no list but the worker's own.     *)
Appends == \E w \in Workers, e \in Seq(Entries) :
              object[w] # 0 /\ Own(w, e) /\ Say(w, e)

Stays(v) ==
    \/ /\ object'[v] = object[v] /\ chat'[v] = chat[v]
       /\ prompt'[v] \in {prompt[v], <<>>, hist[object[v]]}
       /\ prompt'[v] = hist[object[v]] => object[v] # 0 \/ prompt'[v] = <<>>
    \/ object'[v] = 0 /\ chat'[v] = 0 /\ prompt'[v] = <<>>

LEMMA AgesKept ==
    ASSUME IInv, UNCHANGED <<session, age, resets, begun>>,
           UNCHANGED hist \/ Appends, \A v \in Workers : Stays(v)
    PROVE  Said' /\ Ages' /\ ResetForgets'
  <1> DEFINE Kept ==
               /\ \A o \in Objects : \A i \in DOMAIN hist'[o] :
                     hist'[o][i].of <= begun
               /\ \A w \in Workers :
                     object[w] # 0 => OfAge(hist'[object[w]], age[chat[w]])
               /\ session # 0 => OfAge(hist'[session], resets)
  <1>1. Kept
    <2>1. CASE UNCHANGED hist
      BY <2>1 DEF IInv, Said, Ages
    <2>2. ASSUME NEW w \in Workers, NEW e, object[w] # 0, Own(w, e), Say(w, e)
          PROVE  Kept
      <3>1. /\ \A o \in Objects : o # object[w] => hist'[o] = hist[o]
            /\ \A o \in Objects : \A i \in DOMAIN hist'[o] : hist'[o][i].of <= begun
            /\ \A a : OfAge(hist[object[w]], a) /\ age[chat[w]] = a
                         => OfAge(hist'[object[w]], a)
        BY <2>2, SayKeeps
      <3>2. ASSUME NEW v \in Workers, object[v] # 0
            PROVE  OfAge(hist'[object[v]], age[chat[v]])
        <4>1. object[v] \in Objects
          BY <3>2, OwnObject
        <4>2. OfAge(hist[object[v]], age[chat[v]])
          BY <3>2 DEF IInv, Ages
        <4>3. CASE object[v] = object[w]
          <5>1. age[chat[v]] = age[chat[w]]
            BY <2>2, <4>3 DEF IInv, Ages
          <5> QED
            BY <3>1, <4>2, <4>3, <5>1
        <4>4. CASE object[v] # object[w]
          BY <3>1, <4>1, <4>2, <4>4
        <4> QED
          BY <4>3, <4>4
      <3>3. ASSUME session # 0 PROVE OfAge(hist'[session], resets)
        <4>1. session \in Objects
          BY <3>3, Counts
        <4>2. OfAge(hist[session], resets)
          BY <3>3 DEF IInv, Ages
        <4>3. CASE session = object[w]
          <5>1. age[chat[w]] = resets
            BY <3>3, <4>3 DEF IInv, Ages
          <5> QED
            BY <3>1, <4>2, <4>3, <5>1
        <4>4. CASE session # object[w]
          BY <3>1, <4>1, <4>2, <4>4
        <4> QED
          BY <4>3, <4>4
      <3> QED
        BY <3>1, <3>2, <3>3
    <2> QED
      BY <2>1, <2>2 DEF Appends
  <1>2. ASSUME NEW v \in Workers
        PROVE  /\ \A i \in DOMAIN prompt'[v] : prompt'[v][i].of <= begun
               /\ \A i \in DOMAIN prompt'[v] :
                     age[prompt'[v][i].of] = age[chat'[v]]
    <2>1. CASE prompt'[v] = <<>>
      BY <2>1
    <2>2. CASE prompt'[v] # <<>> /\ prompt'[v] = prompt[v]
      <3>1. chat'[v] = chat[v]
        BY <2>2 DEF Stays
      <3> QED
        BY <2>2, <3>1 DEF IInv, Said, ResetForgets
    <2>3. CASE prompt'[v] # <<>> /\ prompt'[v] = hist[object[v]]
      <3>1. chat'[v] = chat[v] /\ object[v] # 0
        BY <2>3 DEF Stays
      <3>2. object[v] \in Objects
        BY <3>1, OwnObject
      <3> QED
        BY <2>3, <3>1, <3>2 DEF IInv, Said, Ages, OfAge
    <2> QED
      BY <2>1, <2>2, <2>3 DEF Stays
  <1>3. \A v \in Workers : object'[v] # 0 => object'[v] = object[v] /\ chat'[v] = chat[v]
    BY DEF Stays
  <1>4. Said'
    BY <1>1, <1>2 DEF Said
  <1>5. ResetForgets'
    BY <1>2 DEF ResetForgets
  <1>6. Ages'
    <2>1. \A v, w \in Workers :
             (object'[w] # 0 /\ object'[v] = object'[w])
                => age'[chat'[v]] = age'[chat'[w]]
      BY <1>3 DEF IInv, Ages
    <2>2. \A w \in Workers :
             (session' # 0 /\ object'[w] = session') => age'[chat'[w]] = resets'
      BY <1>3 DEF IInv, Ages
    <2>3. \A w \in Workers :
             object'[w] # 0 => OfAge(hist[object[w]], age[chat[w]])'
      BY <1>1, <1>3 DEF OfAge
    <2>4. session' # 0 => OfAge(hist[session], resets)'
      BY <1>1 DEF OfAge
    <2> QED
      BY <2>1, <2>2, <2>3, <2>4 DEF Ages
  <1> QED
    BY <1>4, <1>5, <1>6

LEMMA BusyWorker ==
    ASSUME IInv, NEW w \in Workers, pc[w] # "idle"
    PROVE  object[w] # 0 /\ chat[w] # 0 /\ chat[w] \in Chats
  BY AgentAssumption DEF IInv, Types, Chats

LEMMA OwnEntries ==
    ASSUME IInv, NEW w \in Workers, pc[w] # "idle"
    PROVE  /\ Own(w, <<User(chat[w])>>)
           /\ Own(w, <<Reply(chat[w])>>)
           /\ \A n \in Nat : Own(w, <<Entry("call", chat[w], n)>>)
           /\ \A n \in Nat : Own(w, <<Entry("tool", chat[w], n)>>)
  <1>1. chat[w] \in Chats
    BY BusyWorker
  <1>2. \A role \in {"user", "assistant", "call", "tool"}, n \in Nat :
           /\ Entry(role, chat[w], n) \in Entries
           /\ Entry(role, chat[w], n).of = chat[w]
    BY <1>1 DEF Entry, Entries
  <1>3. \A x \in Entries : x.of = chat[w] => Own(w, <<x>>)
    BY DEF Own
  <1> QED
    BY <1>2, <1>3 DEF User, Reply

(* The types, once a worker has said its part. *)
LEMMA SaidTypes ==
    ASSUME IInv, NEW w \in Workers, pc[w] # "idle", NEW e, Own(w, e), Say(w, e)
    PROVE  /\ Appends
           /\ hist' \in [Objects -> Seq(Entries)]
           /\ \A o \in Objects : o > made => hist'[o] = <<>>
  <1>1. object[w] # 0
    BY BusyWorker
  <1>2. Appends
    BY <1>1 DEF Appends, Own
  <1>3. /\ hist' \in [Objects -> Seq(Entries)]
        /\ \A o \in Objects : o # object[w] => hist'[o] = hist[o]
        /\ object[w] <= made
    BY <1>1, SayKeeps
  <1>4. made \in Int /\ object[w] \in Int
    BY DEF IInv, Types
  <1>5. \A o \in Objects : o > made => o # object[w]
    BY <1>3, <1>4 DEF Objects
  <1> QED
    BY <1>2, <1>3, <1>5 DEF IInv, Types

LEMMA QuietStays ==
    ASSUME IInv, UNCHANGED <<object, chat, prompt>>
    PROVE  \A v \in Workers : Stays(v)
  BY DEF IInv, Types, Stays

LEMMA ServedStays ==
    ASSUME IInv, NEW w \in Workers, Served(w)
    PROVE  \A v \in Workers : Stays(v)
  BY DEF Served, IInv, Types, Stays

(* Whatever stands on a list was said by a chat that has begun. *)
LEMMA EntryOf ==
    ASSUME NEW s \in Seq(Entries), NEW i \in DOMAIN s
    PROVE  s[i].of \in Chats
  <1>1. s[i] \in Entries
    OBVIOUS
  <1> QED
    BY <1>1 DEF Entries

LEMMA SaidBefore ==
    ASSUME IInv
    PROVE  /\ \A o \in Objects : \A i \in DOMAIN hist[o] :
                 hist[o][i].of \in Chats /\ hist[o][i].of <= begun
           /\ \A w \in Workers : \A i \in DOMAIN prompt[w] :
                 prompt[w][i].of \in Chats /\ prompt[w][i].of <= begun
  <1>1. /\ \A o \in Objects : hist[o] \in Seq(Entries)
        /\ \A w \in Workers : prompt[w] \in Seq(Entries)
    BY DEF IInv, Types
  <1> QED
    BY <1>1, EntryOf DEF IInv, Said

-----------------------------------------------------------------------------
LEMMA InitIInv == Init => IInv
  <1> SUFFICES ASSUME Init PROVE IInv
    OBVIOUS
  <1>1. Types
    BY AgentAssumption DEF Init, Types
  <1>2. Said /\ Ages /\ ResetForgets
    BY DEF Init, Said, Ages, ResetForgets, OfAge
  <1> QED
    BY <1>1, <1>2 DEF IInv

LEMMA ReceiveIInv ==
    ASSUME IInv, NEW w \in Workers, Receive(w)
    PROVE  IInv'
  <1> DEFINE o == IF session = 0 THEN made + 1 ELSE session
             c == begun + 1
  <1>1. /\ begun \in Nat /\ c \in Chats /\ made \in Nat /\ made <= begun
        /\ begun < MaxChats /\ MaxChats \in Nat
        /\ session \in 0 .. made
    BY AgentAssumption DEF Receive, IInv, Types, Chats
  <1>2. /\ o \in Objects /\ o # 0 /\ o \in Nat
        /\ session = 0 => o = made + 1
        /\ session # 0 => o = session
    BY <1>1 DEF Objects
  <1>3. /\ chat[w] = 0 /\ object[w] = 0 /\ prompt[w] = <<>>
    BY DEF Receive, IInv, Types
  <1>4. /\ begun' = c /\ session' = o
        /\ session = 0 => made' = o
        /\ session # 0 => made' = made
        /\ UNCHANGED <<provider, hist, round, calls, done, prompt, resets>>
    BY DEF Receive
  <1>4a. chat' = [chat EXCEPT ![w] = c]
    BY DEF Receive
  <1>4b. object' = [object EXCEPT ![w] = o]
    BY DEF Receive
  <1>4c. age' = [age EXCEPT ![c] = resets]
    BY DEF Receive
  <1>4d. DOMAIN spoilt' = DOMAIN spoilt
    BY DEF Receive
  <1>4e. pc' = [pc EXCEPT ![w] = "guard"] \/ pc' = [pc EXCEPT ![w] = "user"]
    BY DEF Receive, Goto
  <1> HIDE DEF o
  <1>5. /\ made' \in 0 .. begun' /\ session' \in 0 .. made' /\ made <= made'
        /\ begun' \in 0 .. MaxChats /\ begun <= begun'
    BY <1>1, <1>2, <1>4
  <1>6. /\ chat' \in [Workers -> 0 .. begun']
        /\ object' \in [Workers -> 0 .. made']
    <2>1. c \in 0 .. begun' /\ o \in 0 .. made'
      BY <1>1, <1>2, <1>4, <1>5
    <2>2. 0 .. begun \subseteq 0 .. begun' /\ 0 .. made \subseteq 0 .. made'
      BY <1>1, <1>4, <1>5
    <2>3. chat \in [Workers -> 0 .. begun] /\ object \in [Workers -> 0 .. made]
      BY DEF IInv, Types
    <2> HIDE DEF c
    <2> QED
      BY <1>4a, <1>4b, <2>1, <2>2, <2>3
  <1> HIDE DEF c
  <1>7. c # 0 /\ c \notin 0 .. begun
    BY <1>1 DEF c
  <1>8. Types'
    <2>1. pc' \in [Workers -> {"idle", "guard", "refuse", "user", "send", "llm", "tools"}]
      BY <1>4e DEF IInv, Types
    <2>2. age' \in [Chats -> Nat]
      BY <1>1, <1>4c DEF IInv, Types
    <2>3. /\ resets' \in Nat /\ DOMAIN spoilt' = Objects
          /\ round' \in [Workers -> 0 .. Rounds]
          /\ calls' \in [Workers -> Nat] /\ done' \in [Workers -> Nat]
          /\ prompt' \in [Workers -> Seq(Entries)]
          /\ hist' \in [Objects -> Seq(Entries)]
          /\ provider' \in {"service", "mock"}
      BY <1>4, <1>4d DEF IInv, Types
    <2>4. \A p \in Objects : p > made' => hist'[p] = <<>>
      <3>1. \A p \in Objects : p > made' => p > made
        BY <1>1, <1>5 DEF Objects
      <3> QED
        BY <1>4, <3>1 DEF IInv, Types
    <2>5. ASSUME NEW v \in Workers
          PROVE  /\ pc'[v] = "idle" <=> chat'[v] = 0
                 /\ pc'[v] = "idle" <=> object'[v] = 0
                 /\ pc'[v] = "idle" => prompt'[v] = <<>>
                 /\ pc'[v] = "tools" => done'[v] < calls'[v]
      <3>1. CASE v = w
        <4>1. /\ chat'[v] = c /\ object'[v] = o
              /\ pc'[v] = "guard" \/ pc'[v] = "user"
          BY <1>4a, <1>4b, <1>4e, <3>1 DEF IInv, Types
        <4> QED
          BY <1>2, <1>7, <4>1
      <3>2. CASE v # w
        <4>1. chat'[v] = chat[v] /\ object'[v] = object[v] /\ pc'[v] = pc[v]
          BY <1>4a, <1>4b, <1>4e, <3>2 DEF IInv, Types
        <4> QED
          BY <1>4, <4>1 DEF IInv, Types
      <3> QED
        BY <3>1, <3>2
    <2> QED
      BY <1>5, <1>6, <2>1, <2>2, <2>3, <2>4, <2>5 DEF Types
  <1>9. Said'
    <2>3. \A x \in Chats : x <= begun => x <= begun'
      BY <1>1, <1>4, <1>5 DEF Chats
    <2> QED
      BY <1>4, <2>3, SaidBefore DEF Said
  <1>10. \A x \in Chats : x <= begun => age'[x] = age[x]
    BY <1>1, <1>4c, <1>7 DEF IInv, Types, Chats
  <1>11. age'[c] = resets
    BY <1>1, <1>4c DEF IInv, Types
  <1>12. \A p \in Objects : \A a : OfAge(hist[p], a) => OfAge(hist[p], a)'
    BY <1>4, <1>10, SaidBefore DEF OfAge
  <1>13. ASSUME NEW v \in Workers, v # w
         PROVE  /\ object'[v] = object[v] /\ chat'[v] = chat[v]
                /\ object[v] # 0 => age'[chat'[v]] = age[chat[v]]
                /\ object[v] # 0 => object[v] \in Objects
    <2>1. object'[v] = object[v] /\ chat'[v] = chat[v]
      BY <1>4a, <1>4b, <1>13 DEF IInv, Types
    <2>2. object[v] # 0 => chat[v] \in Chats /\ chat[v] <= begun
      <3>1. object[v] # 0 => pc[v] # "idle"
        BY DEF IInv, Types
      <3>2. chat[v] <= begun
        BY <1>1 DEF IInv, Types
      <3> QED
        BY <3>1, <3>2, BusyWorker
    <2>3. object[v] # 0 => object[v] \in Objects
      BY OwnObject
    <2> QED
      BY <1>10, <2>1, <2>2, <2>3
  <1>14. object'[w] = o /\ chat'[w] = c
    BY <1>4a, <1>4b DEF IInv, Types
  (* The object is the current session's or nobody's yet. *)
  <1>15. /\ OfAge(hist[o], resets)
         /\ \A v \in Workers : object[v] = o => age[chat[v]] = resets
    <2>1. CASE session = 0
      <3>1. o = made + 1
        BY <1>2, <2>1
      <3>2. hist[o] = <<>>
        BY <1>1, <1>2, <3>1 DEF IInv, Types, Objects
      <3>3. \A v \in Workers : object[v] # o
        BY <1>1, <3>1 DEF IInv, Types
      <3> QED
        BY <3>2, <3>3 DEF OfAge
    <2>2. CASE session # 0
      BY <1>2, <2>2 DEF IInv, Ages
    <2> QED
      BY <2>1, <2>2
  <1>16. Ages'
    <2>1. ASSUME NEW v \in Workers, object'[v] # 0
          PROVE  OfAge(hist[object[v]], age[chat[v]])'
      <3>1. CASE v = w
        BY <1>2, <1>4, <1>11, <1>12, <1>14, <1>15, <3>1 DEF OfAge
      <3>2. CASE v # w
        <4>1. /\ object[v] # 0 /\ object[v] \in Objects
              /\ age'[chat'[v]] = age[chat[v]] /\ object'[v] = object[v]
          BY <1>13, <2>1, <3>2
        <4>2. OfAge(hist[object[v]], age[chat[v]])
          BY <4>1 DEF IInv, Ages
        <4> QED
          BY <1>4, <1>12, <4>1, <4>2 DEF OfAge
      <3> QED
        BY <3>1, <3>2
    <2>2. ASSUME NEW u \in Workers, NEW v \in Workers,
                 object'[v] # 0, object'[u] = object'[v]
          PROVE  age'[chat'[u]] = age'[chat'[v]]
      <3>1. ASSUME NEW x \in Workers, x # w, object'[x] = o
            PROVE  age'[chat'[x]] = resets
        BY <1>2, <1>13, <1>15, <3>1
      <3>2. age'[chat'[w]] = resets
        BY <1>11, <1>14
      <3>3. CASE u # w /\ v # w
        BY <1>13, <2>2, <3>3 DEF IInv, Ages
      <3>4. CASE u = w \/ v = w
        BY <1>14, <2>2, <3>1, <3>2, <3>4
      <3> QED
        BY <3>3, <3>4
    <2>3. OfAge(hist[session], resets)'
      BY <1>2, <1>4, <1>12, <1>15 DEF OfAge
    <2>4. ASSUME NEW v \in Workers, object'[v] = o
          PROVE  age'[chat'[v]] = resets
      BY <1>2, <1>11, <1>13, <1>14, <1>15, <2>4
    <2> QED
      BY <1>4, <2>1, <2>2, <2>3, <2>4 DEF Ages
  <1>17. ResetForgets'
    <2> SUFFICES ASSUME NEW v \in Workers, NEW i \in DOMAIN prompt'[v]
                 PROVE  age'[prompt'[v][i].of] = age'[chat'[v]]
      BY DEF ResetForgets
    <2>1. prompt'[v] = prompt[v] /\ v # w
      BY <1>3, <1>4
    <2>2. prompt[v][i].of \in Chats /\ prompt[v][i].of <= begun
      BY <2>1, SaidBefore
    <2>3. object[v] # 0
      BY <2>1 DEF IInv, Types
    <2> QED
      BY <1>10, <1>13, <2>1, <2>2, <2>3 DEF IInv, ResetForgets
  <1> QED
    BY <1>8, <1>9, <1>16, <1>17 DEF IInv

(* A worker that has nothing to say. *)
LEMMA SilentIInv ==
    ASSUME IInv, UNCHANGED <<hist, session, age, resets, begun>>, Types',
           \A v \in Workers : Stays(v)
    PROVE  IInv'
  BY AgesKept DEF IInv

(* A worker that appends to its list. *)
LEMMA SpeakingIInv ==
    ASSUME IInv, UNCHANGED <<session, age, resets, begun>>, Types',
           NEW w \in Workers, pc[w] # "idle", NEW e, Own(w, e), Say(w, e),
           \A v \in Workers : Stays(v)
    PROVE  IInv'
  BY SaidTypes, AgesKept DEF IInv

LEMMA GuardPassesIInv ==
    ASSUME IInv, NEW w \in Workers, GuardPasses(w)
    PROVE  IInv'
  <1>1. Types'
    BY DEF GuardPasses, Goto, sessionVars, historyVars, IInv, Types
  <1> QED
    BY <1>1, SilentIInv, QuietStays DEF GuardPasses, sessionVars, historyVars

(* The end of a chat, whatever it leaves on the list. *)
LEMMA ServedTypes ==
    ASSUME IInv, NEW w \in Workers, Served(w),
           UNCHANGED <<provider, session, made, begun, resets, age>>,
           DOMAIN spoilt' = DOMAIN spoilt,
           hist' \in [Objects -> Seq(Entries)],
           \A o \in Objects : o > made => hist'[o] = <<>>
    PROVE  Types'
  <1>1. 0 \in 0 .. begun /\ 0 \in 0 .. made /\ 0 \in 0 .. Rounds
    BY AgentAssumption DEF IInv, Types
  <1> QED
    BY <1>1 DEF Served, IInv, Types

LEMMA RaisesIInv ==
    ASSUME IInv, NEW w \in Workers,
           GuardRaises(w) \/ ProviderRaises(w) \/ DispatchRaises(w)
    PROVE  IInv'
  <1>1. /\ Served(w) /\ DOMAIN spoilt' = DOMAIN spoilt
        /\ UNCHANGED <<provider, session, made, hist, begun, resets, age>>
    BY DEF GuardRaises, ProviderRaises, DispatchRaises, Spoil, sessionVars, historyVars
  <1>2. Types'
    <2>1. /\ hist' \in [Objects -> Seq(Entries)]
          /\ \A o \in Objects : o > made => hist'[o] = <<>>
      BY <1>1 DEF IInv, Types
    <2> QED
      BY <1>1, <2>1, ServedTypes
  <1> QED
    BY <1>1, <1>2, SilentIInv, ServedStays

LEMMA AskIInv ==
    ASSUME IInv, NEW w \in Workers, Ask(w) \/ GuardBlocks(w)
    PROVE  IInv'
  <1>1. /\ pc[w] # "idle"
        /\ Say(w, <<User(chat[w])>>) /\ Own(w, <<User(chat[w])>>)
    BY OwnEntries DEF Ask, GuardBlocks
  <1>2. Types'
    BY <1>1, SaidTypes DEF Ask, GuardBlocks, Goto, historyVars, IInv, Types
  <1> QED
    BY <1>1, <1>2, SpeakingIInv, QuietStays DEF Ask, GuardBlocks, historyVars

LEMMA SendIInv ==
    ASSUME IInv, NEW w \in Workers, Send(w)
    PROVE  IInv'
  <1>1. /\ pc[w] # "idle" /\ object[w] # 0 /\ object[w] \in Objects
        /\ hist[object[w]] \in Seq(Entries)
    <2>1. pc[w] # "idle" /\ object[w] # 0
      BY BusyWorker DEF Send
    <2>2. object[w] \in Objects
      BY <2>1, OwnObject
    <2> QED
      BY <2>1, <2>2 DEF IInv, Types
  <1>2. round[w] + 1 \in 0 .. Rounds
    BY AgentAssumption DEF Send, RoundsLeft, IInv, Types
  <1>3. Types'
    <2>1. /\ round' \in [Workers -> 0 .. Rounds]
          /\ prompt' \in [Workers -> Seq(Entries)]
      BY <1>1, <1>2 DEF Send, IInv, Types
    <2>2. pc' = [pc EXCEPT ![w] = "llm"]
      BY DEF Send, Goto
    <2>3. \A v \in Workers : v # w => prompt'[v] = prompt[v]
      BY DEF Send, IInv, Types
    <2>4. UNCHANGED <<provider, session, hist, made, chat, object, calls, done,
                      begun, resets, age, spoilt>>
      BY DEF Send, sessionVars, historyVars
    <2>5. ASSUME NEW v \in Workers
          PROVE  /\ pc'[v] = "idle" <=> chat'[v] = 0
                 /\ pc'[v] = "idle" <=> object'[v] = 0
                 /\ pc'[v] = "idle" => prompt'[v] = <<>>
                 /\ pc'[v] = "tools" => done'[v] < calls'[v]
      BY <1>1, <2>2, <2>3, <2>4 DEF IInv, Types
    <2>6. pc' \in [Workers -> {"idle", "guard", "refuse", "user", "send", "llm", "tools"}]
      BY <2>2 DEF IInv, Types
    <2> QED
      BY <2>1, <2>4, <2>5, <2>6 DEF IInv, Types
  <1>4. \A v \in Workers : Stays(v)
    BY <1>1 DEF Send, IInv, Types, Stays
  <1> QED
    BY <1>3, <1>4, SilentIInv DEF Send, sessionVars, historyVars

LEMMA EndsIInv ==
    ASSUME IInv, NEW w \in Workers, GiveUp(w) \/ Finish(w) \/ Refuse(w)
    PROVE  IInv'
  <1>1. /\ Say(w, <<Reply(chat[w])>>) /\ Own(w, <<Reply(chat[w])>>)
        /\ pc[w] # "idle" /\ Served(w)
        /\ UNCHANGED <<provider, session, made, begun, resets, age, spoilt>>
    BY OwnEntries DEF GiveUp, Finish, Refuse, historyVars
  <1>2. Types'
    BY <1>1, SaidTypes, ServedTypes
  <1> QED
    BY <1>1, <1>2, SpeakingIInv, ServedStays

LEMMA AskForToolsIInv ==
    ASSUME IInv, NEW w \in Workers, NEW n \in CallCounts \cup {1}, AskForTools(w, n)
    PROVE  IInv'
  <1>1. n \in Nat /\ 0 < n
    BY AgentAssumption
  <1>2. /\ pc[w] # "idle"
        /\ Say(w, <<Entry("call", chat[w], n)>>)
        /\ Own(w, <<Entry("call", chat[w], n)>>)
    BY <1>1, OwnEntries DEF AskForTools
  <1>3. Types'
    <2>1. /\ hist' \in [Objects -> Seq(Entries)]
          /\ \A o \in Objects : o > made => hist'[o] = <<>>
      BY <1>2, SaidTypes
    <2>2. /\ calls' = [calls EXCEPT ![w] = n] /\ done' = [done EXCEPT ![w] = 0]
          /\ prompt' = [prompt EXCEPT ![w] = <<>>]
          /\ pc' = [pc EXCEPT ![w] = "tools"]
          /\ UNCHANGED <<provider, session, made, chat, object, round, begun, resets,
                         age, spoilt>>
      BY DEF AskForTools, Goto, historyVars
    <2> QED
      BY <1>1, <1>2, <2>1, <2>2 DEF IInv, Types
  <1> QED
    BY <1>2, <1>3, SpeakingIInv DEF AskForTools, historyVars, IInv, Types, Stays

LEMMA DispatchIInv ==
    ASSUME IInv, NEW w \in Workers, Dispatch(w)
    PROVE  IInv'
  <1>1. /\ pc[w] # "idle" /\ done'[w] = done[w] + 1 /\ done'[w] \in Nat
        /\ done' = [done EXCEPT ![w] = done[w] + 1]
    BY DEF Dispatch, IInv, Types
  <1>2. /\ Say(w, <<Entry("tool", chat[w], done'[w])>>)
        /\ Own(w, <<Entry("tool", chat[w], done'[w])>>)
    BY <1>1, OwnEntries DEF Dispatch
  <1>3. Types'
    <2>1. /\ hist' \in [Objects -> Seq(Entries)]
          /\ \A o \in Objects : o > made => hist'[o] = <<>>
      BY <1>1, <1>2, SaidTypes
    <2>2. /\ UNCHANGED <<provider, session, made, chat, object, round, calls, prompt,
                         begun, resets, age, spoilt>>
          /\ pc' = [pc EXCEPT ![w] = AfterTool(w)]
      BY DEF Dispatch, Goto, historyVars
    <2>3. /\ AfterTool(w) \in {"send", "tools"}
          /\ AfterTool(w) = "tools" => done'[w] < calls[w]
      <3>1. done[w] < calls[w] /\ done[w] \in Nat /\ calls[w] \in Nat
        BY DEF Dispatch, IInv, Types
      <3> QED
        BY <1>1, <3>1 DEF AfterTool
    <2> QED
      BY <1>1, <2>1, <2>2, <2>3 DEF IInv, Types
  <1> QED
    BY <1>1, <1>2, <1>3, SpeakingIInv, QuietStays DEF Dispatch, historyVars

LEMMA ResetIInv ==
    ASSUME IInv, Reset
    PROVE  IInv'
  <1>1. /\ session' = 0 /\ resets' = resets + 1
        /\ UNCHANGED <<provider, hist, made, pc, chat, object, round, calls, done,
                       prompt, begun, age, spoilt>>
    BY DEF Reset, Forget, workerVars
  <1>2. Types'
    BY <1>1 DEF IInv, Types
  <1>3. Said' /\ Ages' /\ ResetForgets'
    BY <1>1 DEF IInv, Said, Ages, OfAge, ResetForgets
  <1> QED
    BY <1>2, <1>3 DEF IInv

LEMMA Inductive == IInv /\ [Next]_vars => IInv'
  <1> SUFFICES ASSUME IInv, [Next]_vars PROVE IInv'
    OBVIOUS
  <1>1. ASSUME NEW w \in Workers, Step(w) PROVE IInv'
    BY <1>1, GuardPassesIInv, RaisesIInv, AskIInv, SendIInv,
       EndsIInv, AskForToolsIInv, DispatchIInv DEF Step
  <1>2. CASE UNCHANGED vars
    <2>1. UNCHANGED <<sessionVars, workerVars, historyVars>>
      BY <1>2 DEF vars
    <2>2. Types'
      BY <2>1 DEF sessionVars, workerVars, historyVars, IInv, Types
    <2> QED
      BY <2>1, <2>2, SilentIInv, QuietStays DEF sessionVars, workerVars, historyVars
  <1> QED
    BY <1>1, <1>2, ReceiveIInv, ResetIInv DEF Next, Finished

-----------------------------------------------------------------------------
(* Who shares a session object and what its history may hold, at every     *)
(* moment (server.py:55-80).                                               *)
THEOREM Invariant == Spec => []IInv
  BY InitIInv, Inductive, PTL DEF Spec

(* The state stays in its types; in particular no chat calls the LLM more  *)
(* often than Rounds.                                                      *)
THEOREM TypeCorrect == Spec => []TypeOK
  <1>1. IInv => TypeOK
    <2> SUFFICES ASSUME IInv PROVE TypeOK
      OBVIOUS
    <2>1. made \in 0 .. MaxChats
      BY AgentAssumption DEF IInv, Types
    <2>2. \A w \in Workers : round[w] <= Rounds
      BY AgentAssumption DEF IInv, Types
    <2> QED
      BY <2>1, <2>2 DEF IInv, Types, TypeOK
  <1> QED
    BY <1>1, Invariant, PTL

(* No prompt holds anything said before the last reset of its session,     *)
(* nor anything of a later one, for any interleaving of chats and resets   *)
(* (server.py:63-67, 72).                                                  *)
THEOREM Forgets == Spec => []ResetForgets
  BY Invariant, PTL DEF IInv

-----------------------------------------------------------------------------
(***************************************************************************)
(* The lists of messages.  A session object that no two chats shared at    *)
(* once has one writer, whose place tells the list's shape: every call of  *)
(* tools has its results, or the last one waits for some (PairsAt); no     *)
(* message of the user waits, or the writer's own (TurnsAt).               *)
(***************************************************************************)
(* Two chats that share a session object have spoilt it. *)
Alone ==
    \A v, w \in Workers :
        (v # w /\ object[v] = object[w] /\ object[w] # 0)
            => "overlap" \in spoilt[object[w]]

(* A call of tools at i of the list h has its first n results after it;    *)
(* every call but the one at k has all of them; no result stands elsewhere.*)
Followed(h, i, n) ==
    \A j \in 1 .. n : i + j \in DOMAIN h /\ h[i + j] = Entry("tool", h[i].of, j)

CallsBut(h, k) ==
    \A i \in DOMAIN h \ {k} : h[i].role = "call" => Followed(h, i, h[i].n)

Results(h) ==
    \A i \in DOMAIN h : h[i].role = "tool" =>
        /\ i > h[i].n
        /\ h[i - h[i].n].role = "call" /\ h[i - h[i].n].n >= h[i].n

(* The list ends with a call of n tools by chat c and d results of it. *)
Pending(h, c, n, d) ==
    LET k == Len(h) - d IN
    /\ k \in DOMAIN h /\ h[k] = Entry("call", c, n)
    /\ CallsBut(h, k) /\ Followed(h, k, d) /\ Results(h)

PairsAt(o) ==
    spoilt[o] \cap {"overlap", "tool"} = {} =>
        /\ (\A w \in Workers : object[w] = o => pc[w] # "tools") => Paired(hist[o])
        /\ \A w \in Workers :
              (object[w] = o /\ pc[w] = "tools")
                  => Pending(hist[o], chat[w], calls[w], done[w])

(* User and agent take turns on the list, and nobody waits for a reply     *)
(* when no chat has put its message there.                                 *)
Alternates(h) ==
    \A i \in DOMAIN h \ {1} : h[i].role = "user" => h[i - 1].role = "assistant"

Answered(h) == h # <<>> => h[Len(h)].role = "assistant"

TurnsAt(o) ==
    spoilt[o] = {} =>
        /\ Alternates(hist[o])
        /\ (\A w \in Workers : object[w] = o => pc[w] \in {"guard", "user"})
              => Answered(hist[o])

(* The mock of a chat of its own: at the second call it sees a tool's      *)
(* result as the last message.                                             *)
LastIsTool(h) == h # <<>> /\ h[Len(h)].role = "tool"

MockAt(w) ==
    /\ pc[w] \in {"idle", "guard", "user"} => round[w] = 0
    /\ (provider = "mock" /\ pc[w] # "idle" /\ "overlap" \notin spoilt[object[w]]) =>
          /\ pc[w] = "send" =>
                \/ round[w] = 0
                \/ round[w] = 1 /\ LastIsTool(hist[object[w]])
          /\ pc[w] = "llm" => round[w] = 1 \/ LastIsTool(prompt[w])
          /\ pc[w] = "tools" => round[w] = 1 /\ calls[w] = 1

PromptAt(w) ==
    (pc[w] = "llm" /\ spoilt[object[w]] \cap {"overlap", "tool"} = {})
        => Paired(prompt[w])

Orderly ==
    /\ Alone
    /\ \A w \in Workers : MockAt(w) /\ PromptAt(w)
    /\ \A o \in Objects : PairsAt(o) /\ TurnsAt(o)

-----------------------------------------------------------------------------
(* Lists: what one more entry does. *)
LEMMA OneMore ==
    ASSUME NEW h \in Seq(Entries), NEW e \in Entries
    PROVE  /\ h \o <<e>> \in Seq(Entries)
           /\ Len(h \o <<e>>) = Len(h) + 1
           /\ DOMAIN (h \o <<e>>) = 1 .. Len(h) + 1
           /\ DOMAIN h = 1 .. Len(h) /\ Len(h) \in Nat
           /\ \A i \in 1 .. Len(h) : (h \o <<e>>)[i] = h[i]
           /\ (h \o <<e>>)[Len(h) + 1] = e
  OBVIOUS

LEMMA EntryFields ==
    ASSUME NEW h \in Seq(Entries), NEW i \in 1 .. Len(h)
    PROVE  h[i].n \in Nat /\ h[i] \in Entries
  <1>1. h[i] \in Entries
    OBVIOUS
  <1> QED
    BY <1>1 DEF Entries

LEMMA PairedIs ==
    ASSUME NEW h \in Seq(Entries)
    PROVE  Paired(h) <=> CallsBut(h, 0) /\ Results(h)
  <1>1. 0 \notin DOMAIN h
    OBVIOUS
  <1> QED
    BY <1>1 DEF Paired, CallsBut, Followed, Results

LEMMA CallsStay ==
    ASSUME NEW h \in Seq(Entries), NEW e \in Entries, NEW k \in Nat, CallsBut(h, k)
    PROVE  /\ \A i \in 1 .. Len(h), n \in Nat :
                 Followed(h, i, n) => Followed(h \o <<e>>, i, n)
           /\ e.role # "call" => CallsBut(h \o <<e>>, k)
           /\ CallsBut(h, 0) => CallsBut(h \o <<e>>, Len(h) + 1)
  <1> DEFINE g == h \o <<e>>
  <1>1. /\ DOMAIN g = 1 .. Len(h) + 1 /\ DOMAIN h = 1 .. Len(h) /\ Len(h) \in Nat
        /\ \A i \in 1 .. Len(h) : g[i] = h[i]
        /\ g[Len(h) + 1] = e
    BY OneMore
  <1>2. \A i \in 1 .. Len(h) : h[i].n \in Nat
    BY EntryFields
  <1> HIDE DEF g
  <1>3. ASSUME NEW i \in 1 .. Len(h), NEW n \in Nat, Followed(h, i, n)
        PROVE  Followed(g, i, n)
    <2>1. ASSUME NEW j \in 1 .. n
          PROVE  i + j \in DOMAIN g /\ g[i + j] = Entry("tool", g[i].of, j)
      <3>1. i + j \in 1 .. Len(h) /\ h[i + j] = Entry("tool", h[i].of, j)
        BY <1>1, <1>3 DEF Followed
      <3> QED
        BY <1>1, <3>1
    <2> QED
      BY <2>1 DEF Followed
  <1>4. ASSUME NEW m \in Nat, CallsBut(h, m), NEW i \in DOMAIN g \ {m},
               i # Len(h) + 1, g[i].role = "call"
        PROVE  Followed(g, i, g[i].n)
    <2>1. i \in 1 .. Len(h) /\ g[i] = h[i] /\ i \in DOMAIN h \ {m}
      BY <1>1, <1>4
    <2>2. Followed(h, i, h[i].n)
      BY <1>4, <2>1 DEF CallsBut
    <2> QED
      BY <1>2, <1>3, <2>1, <2>2
  <1>5. e.role # "call" => CallsBut(g, k)
    BY <1>1, <1>4 DEF CallsBut
  <1>6. CallsBut(h, 0) => CallsBut(g, Len(h) + 1)
    <2>1. ASSUME CallsBut(h, 0), NEW i \in DOMAIN g \ {Len(h) + 1}, g[i].role = "call"
          PROVE  Followed(g, i, g[i].n)
      <3>1. i \in DOMAIN g \ {0} /\ i # Len(h) + 1
        BY <1>1, <2>1
      <3> QED
        BY <1>4, <2>1, <3>1
    <2> QED
      BY <2>1 DEF CallsBut
  <1> QED
    BY <1>3, <1>5, <1>6 DEF g

LEMMA ResultsStay ==
    ASSUME NEW h \in Seq(Entries), NEW e \in Entries, Results(h),
           e.role = "tool" =>
               /\ Len(h) + 1 > e.n
               /\ Len(h) + 1 - e.n \in 1 .. Len(h)
               /\ h[Len(h) + 1 - e.n].role = "call" /\ h[Len(h) + 1 - e.n].n >= e.n
    PROVE  Results(h \o <<e>>)
  <1> DEFINE g == h \o <<e>>
  <1>1. /\ DOMAIN g = 1 .. Len(h) + 1 /\ DOMAIN h = 1 .. Len(h) /\ Len(h) \in Nat
        /\ \A i \in 1 .. Len(h) : g[i] = h[i]
        /\ g[Len(h) + 1] = e
    BY OneMore
  <1>2. \A i \in 1 .. Len(h) : h[i].n \in Nat
    BY EntryFields
  <1> HIDE DEF g
  <1>3. ASSUME NEW i \in DOMAIN g, g[i].role = "tool"
        PROVE  /\ i > g[i].n
               /\ g[i - g[i].n].role = "call" /\ g[i - g[i].n].n >= g[i].n
    <2>1. CASE i \in 1 .. Len(h)
      <3>1. g[i] = h[i] /\ h[i].n \in Nat /\ i \in DOMAIN h
        BY <1>1, <1>2, <2>1
      <3>2. /\ i > h[i].n
            /\ h[i - h[i].n].role = "call" /\ h[i - h[i].n].n >= h[i].n
        BY <1>3, <3>1 DEF Results
      <3>3. i - h[i].n \in 1 .. Len(h)
        BY <1>1, <2>1, <3>1, <3>2
      <3> QED
        BY <1>1, <3>1, <3>2, <3>3
    <2>2. CASE i = Len(h) + 1
      <3>1. g[i] = e /\ e.role = "tool"
        BY <1>1, <1>3, <2>2
      <3>2. Len(h) + 1 - e.n \in 1 .. Len(h)
        BY <3>1
      <3>3. g[i - e.n] = h[Len(h) + 1 - e.n]
        <4>1. g[Len(h) + 1 - e.n] = h[Len(h) + 1 - e.n]
          BY <1>1, <3>2
        <4>2. e.n \in Nat
          BY DEF Entries
        <4>3. i - e.n = Len(h) + 1 - e.n
          BY <1>1, <2>2, <4>2
        <4> QED
          BY <4>1, <4>3
      <3>4. /\ Len(h) + 1 > e.n
            /\ h[Len(h) + 1 - e.n].role = "call" /\ h[Len(h) + 1 - e.n].n >= e.n
        BY <3>1
      <3>5. g[i].n = e.n
        BY <3>1
      <3>6. g[i - e.n].role = "call" /\ g[i - e.n].n >= e.n
        BY <3>3, <3>4
      <3> QED
        BY <2>2, <3>4, <3>5, <3>6
    <2> QED
      BY <1>1, <2>1, <2>2
  <1> QED
    BY <1>3 DEF Results, g

LEMMA PlainEntry ==
    ASSUME NEW h \in Seq(Entries), NEW e \in Entries, Paired(h),
           e.role # "call", e.role # "tool"
    PROVE  Paired(h \o <<e>>)
  <1>1. CallsBut(h, 0) /\ Results(h)
    BY PairedIs
  <1>2. CallsBut(h \o <<e>>, 0)
    BY <1>1, CallsStay
  <1>3. Results(h \o <<e>>)
    BY <1>1, ResultsStay
  <1> QED
    BY <1>2, <1>3, OneMore, PairedIs

LEMMA CallEntry ==
    ASSUME NEW h \in Seq(Entries), NEW c \in Chats, NEW n \in Nat, Paired(h)
    PROVE  Pending(h \o <<Entry("call", c, n)>>, c, n, 0)
  <1> DEFINE e == Entry("call", c, n)
             g == h \o <<e>>
  <1>1. e \in Entries /\ e.role = "call"
    BY DEF Entry, Entries
  <1>2. CallsBut(h, 0) /\ Results(h)
    BY PairedIs
  <1> HIDE DEF e
  <1>3. CallsBut(g, Len(h) + 1)
    BY <1>1, <1>2, CallsStay
  <1>4. Results(g)
    BY <1>1, <1>2, ResultsStay
  <1>5. /\ Len(g) - 0 = Len(h) + 1 /\ Len(h) + 1 \in DOMAIN g /\ g[Len(h) + 1] = e
    BY <1>1, OneMore
  <1>6. Followed(g, Len(h) + 1, 0)
    BY DEF Followed
  <1> QED
    BY <1>3, <1>4, <1>5, <1>6 DEF Pending, e

LEMMA ToolEntry ==
    ASSUME NEW h \in Seq(Entries), NEW c \in Chats, NEW n \in Nat, NEW d \in Nat,
           d < n, Pending(h, c, n, d)
    PROVE  Pending(h \o <<Entry("tool", c, d + 1)>>, c, n, d + 1)
  <1> DEFINE e == Entry("tool", c, d + 1)
             g == h \o <<e>>
             k == Len(h) - d
  <1>1. e \in Entries /\ e.role = "tool" /\ e.n = d + 1
    BY DEF Entry, Entries
  <1>2. /\ k \in DOMAIN h /\ h[k] = Entry("call", c, n)
        /\ CallsBut(h, k) /\ Followed(h, k, d) /\ Results(h)
    BY DEF Pending
  <1>3. /\ Len(g) = Len(h) + 1 /\ Len(h) \in Nat /\ DOMAIN g = 1 .. Len(h) + 1
        /\ DOMAIN h = 1 .. Len(h)
        /\ \A i \in 1 .. Len(h) : g[i] = h[i]
        /\ g[Len(h) + 1] = e
    BY <1>1, OneMore
  <1>4. h[k].role = "call" /\ h[k].n = n /\ h[k].of = c
    BY <1>2 DEF Entry
  <1> HIDE DEF e, g
  <1>5. /\ Len(g) - (d + 1) = k /\ k \in 1 .. Len(h) /\ k \in Nat
        /\ Len(h) + 1 - e.n = k
    <2>1. Len(h) - d \in 1 .. Len(h) /\ Len(h) \in Nat
      BY <1>2, <1>3
    <2>2. Len(g) = Len(h) + 1 /\ e.n = d + 1
      BY <1>1, <1>3
    <2> QED
      BY <2>1, <2>2
  <1> HIDE DEF k
  <1>6. CallsBut(g, k) /\ Followed(g, k, d)
    BY <1>1, <1>2, <1>5, CallsStay DEF g
  <1>7. Results(g)
    <2>1. Len(h) + 1 > e.n
      BY <1>1, <1>3, <1>5
    <2>2. h[Len(h) + 1 - e.n].role = "call" /\ h[Len(h) + 1 - e.n].n >= e.n
      BY <1>1, <1>4, <1>5
    <2> QED
      BY <1>1, <1>2, <1>5, <2>1, <2>2, ResultsStay DEF g
  <1>8. Followed(g, k, d + 1)
    <2>1. ASSUME NEW j \in 1 .. d + 1
          PROVE  k + j \in DOMAIN g /\ g[k + j] = Entry("tool", g[k].of, j)
      <3>1. CASE j \in 1 .. d
        BY <1>6, <3>1 DEF Followed
      <3>2. CASE j = d + 1
        <4>1. k + j = Len(h) + 1
          BY <1>1, <1>3, <1>5, <3>2
        <4>2. g[k].of = c
          BY <1>3, <1>4, <1>5
        <4> QED
          BY <1>3, <3>2, <4>1, <4>2 DEF e
      <3> QED
        BY <3>1, <3>2
    <2> QED
      BY <2>1 DEF Followed
  <1>9. k \in DOMAIN g /\ g[k] = Entry("call", c, n)
    BY <1>2, <1>3, <1>5
  <1>10. Pending(g, c, n, d + 1)
    BY <1>5, <1>6, <1>7, <1>8, <1>9 DEF Pending
  <1> QED
    BY <1>10 DEF g, e

LEMMA AllAnswered ==
    ASSUME NEW h \in Seq(Entries), NEW c, NEW n \in Nat, Pending(h, c, n, n)
    PROVE  Paired(h)
  <1> DEFINE k == Len(h) - n
  <1>1. /\ k \in DOMAIN h /\ h[k] = Entry("call", c, n)
        /\ CallsBut(h, k) /\ Followed(h, k, n) /\ Results(h)
    BY DEF Pending
  <1>2. h[k].n = n
    BY <1>1 DEF Entry
  <1> HIDE DEF k
  <1>3. CallsBut(h, 0)
    BY <1>1, <1>2 DEF CallsBut
  <1> QED
    BY <1>1, <1>3, PairedIs

LEMMA TurnEntry ==
    ASSUME NEW h \in Seq(Entries), NEW e \in Entries, Alternates(h),
           e.role = "user" => Answered(h)
    PROVE  /\ Alternates(h \o <<e>>)
           /\ e.role = "assistant" => Answered(h \o <<e>>)
  <1> DEFINE g == h \o <<e>>
  <1>1. /\ Len(g) = Len(h) + 1 /\ Len(h) \in Nat /\ DOMAIN g = 1 .. Len(h) + 1
        /\ DOMAIN h = 1 .. Len(h)
        /\ \A i \in 1 .. Len(h) : g[i] = h[i]
        /\ g[Len(h) + 1] = e
    BY OneMore
  <1>2. g # <<>> /\ (h # <<>> <=> Len(h) > 0)
    OBVIOUS
  <1> HIDE DEF g
  <1>3. ASSUME NEW i \in DOMAIN g \ {1}, g[i].role = "user"
        PROVE  g[i - 1].role = "assistant"
    <2>1. CASE i \in 1 .. Len(h)
      <3>1. i \in DOMAIN h \ {1} /\ g[i] = h[i] /\ g[i - 1] = h[i - 1]
        BY <1>1, <1>3, <2>1
      <3> QED
        BY <1>3, <3>1 DEF Alternates
    <2>2. CASE i = Len(h) + 1
      <3>1. Len(h) > 0 /\ g[i - 1] = h[Len(h)] /\ g[i] = e
        BY <1>1, <1>3, <2>2
      <3> QED
        BY <1>2, <1>3, <3>1 DEF Answered
    <2> QED
      BY <1>1, <2>1, <2>2
  <1> QED
    BY <1>1, <1>2, <1>3 DEF Alternates, Answered, g
-----------------------------------------------------------------------------
Settled == IInv /\ Orderly

(* What a step of a worker leaves alone. *)
LEMMA StepFrame ==
    ASSUME IInv, NEW w \in Workers, Step(w)
    PROVE  /\ \A v \in Workers : v # w =>
                 /\ pc'[v] = pc[v] /\ chat'[v] = chat[v] /\ object'[v] = object[v]
                 /\ round'[v] = round[v] /\ calls'[v] = calls[v]
                 /\ done'[v] = done[v] /\ prompt'[v] = prompt[v]
           /\ object'[w] \in {object[w], 0}
           /\ \A o \in Objects : o # object[w] =>
                 hist'[o] = hist[o] /\ spoilt'[o] = spoilt[o]
           /\ \A o \in Objects : spoilt[o] \subseteq spoilt'[o]
           /\ object[w] \in Objects /\ object[w] # 0 /\ pc[w] # "idle"
           /\ provider' = provider
  <1>1. pc[w] # "idle"
    BY DEF Step, GuardPasses, GuardBlocks, Refuse, GuardRaises, Ask, Send, GiveUp, Finish,
           ProviderRaises, AskForTools, Dispatch, DispatchRaises
  <1>2. object[w] # 0 /\ object[w] \in Objects
    <2>1. object[w] # 0
      BY <1>1, BusyWorker
    <2> QED
      BY <2>1, OwnObject
  <1>3. provider' = provider
    BY DEF Step, GuardPasses, GuardBlocks, Refuse, GuardRaises, Ask, Send, GiveUp, Finish,
           ProviderRaises, AskForTools, Dispatch, DispatchRaises, sessionVars
  <1>4. \/ UNCHANGED hist
        \/ \E e : Say(w, e)
    BY DEF Step, GuardPasses, GuardBlocks, Refuse, GuardRaises, Ask, Send, GiveUp, Finish,
           ProviderRaises, AskForTools, Dispatch, DispatchRaises, sessionVars
  <1>5. \/ UNCHANGED spoilt
        \/ \E what : Spoil(w, what)
    BY DEF Step, GuardPasses, GuardBlocks, Refuse, GuardRaises, Ask, Send, GiveUp, Finish,
           ProviderRaises, AskForTools, Dispatch, DispatchRaises, historyVars
  <1>6. \A o \in Objects : o # object[w] => hist'[o] = hist[o]
    BY <1>4 DEF Say, IInv, Types
  <1>7. /\ \A o \in Objects : o # object[w] => spoilt'[o] = spoilt[o]
        /\ \A o \in Objects : spoilt[o] \subseteq spoilt'[o]
    BY <1>5 DEF Spoil, IInv, Types
  <1>8. /\ \A v \in Workers : v # w =>
              pc'[v] = pc[v] /\ chat'[v] = chat[v] /\ object'[v] = object[v]
        /\ object'[w] \in {object[w], 0}
    BY DEF Step, GuardPasses, GuardBlocks, Refuse, GuardRaises, Ask, Send, GiveUp, Finish,
           ProviderRaises, AskForTools, Dispatch, DispatchRaises, Served, Goto,
           IInv, Types
  <1>9. \A v \in Workers : v # w =>
           /\ round'[v] = round[v] /\ calls'[v] = calls[v]
           /\ done'[v] = done[v] /\ prompt'[v] = prompt[v]
    BY DEF Step, GuardPasses, GuardBlocks, Refuse, GuardRaises, Ask, Send, GiveUp, Finish,
           ProviderRaises, AskForTools, Dispatch, DispatchRaises, Served,
           IInv, Types
  <1> QED
    BY <1>1, <1>2, <1>3, <1>6, <1>7, <1>8, <1>9

LEMMA OnlyUser ==
    ASSUME IInv, Alone, NEW w \in Workers, object[w] # 0,
           "overlap" \notin spoilt[object[w]], NEW v \in Workers, object[v] = object[w]
    PROVE  v = w
  BY DEF Alone

(* What holds of the list a worker has for itself. *)
PairsBy(w, o) ==
    spoilt[o] \cap {"overlap", "tool"} = {} =>
        /\ pc[w] # "tools" => Paired(hist[o])
        /\ pc[w] = "tools" => Pending(hist[o], chat[w], calls[w], done[w])

TurnsBy(w, o) ==
    spoilt[o] = {} =>
        /\ Alternates(hist[o])
        /\ pc[w] \in {"idle", "guard", "user"} => Answered(hist[o])

LEMMA BeforeStep ==
    ASSUME Settled, NEW w \in Workers, pc[w] # "idle", NEW o \in Objects, object[w] = o
    PROVE  PairsBy(w, o) /\ TurnsBy(w, o)
  <1>1. o # 0
    BY DEF Objects
  <1>2. "overlap" \notin spoilt[o] => \A v \in Workers : object[v] = o => v = w
    BY <1>1, OnlyUser DEF Settled, Orderly
  <1>3. PairsAt(o) /\ TurnsAt(o)
    BY DEF Settled, Orderly
  <1>4. PairsBy(w, o)
    <2> SUFFICES ASSUME spoilt[o] \cap {"overlap", "tool"} = {}
                 PROVE  /\ pc[w] # "tools" => Paired(hist[o])
                        /\ pc[w] = "tools" => Pending(hist[o], chat[w], calls[w], done[w])
      BY DEF PairsBy
    <2>1. \A v \in Workers : object[v] = o => v = w
      BY <1>2
    <2> QED
      BY <1>3, <2>1 DEF PairsAt
  <1>5. TurnsBy(w, o)
    <2> SUFFICES ASSUME spoilt[o] = {}
                 PROVE  /\ Alternates(hist[o])
                        /\ pc[w] \in {"idle", "guard", "user"} => Answered(hist[o])
      BY DEF TurnsBy
    <2>1. \A v \in Workers : object[v] = o => v = w
      BY <1>2
    <2> QED
      BY <1>3, <2>1 DEF TurnsAt
  <1> QED
    BY <1>4, <1>5

LEMMA AfterStep ==
    ASSUME Settled, IInv', NEW w \in Workers, Step(w),
           NEW o \in Objects, object[w] = o,
           MockAt(w)', PromptAt(w)', PairsBy(w, o)', TurnsBy(w, o)'
    PROVE  Orderly'
  <1>1. /\ \A v \in Workers : v # w =>
              /\ pc'[v] = pc[v] /\ chat'[v] = chat[v] /\ object'[v] = object[v]
              /\ round'[v] = round[v] /\ calls'[v] = calls[v]
              /\ done'[v] = done[v] /\ prompt'[v] = prompt[v]
        /\ object'[w] \in {o, 0} /\ o # 0
        /\ \A p \in Objects : p # o => hist'[p] = hist[p] /\ spoilt'[p] = spoilt[p]
        /\ \A p \in Objects : spoilt[p] \subseteq spoilt'[p]
        /\ provider' = provider /\ pc[w] # "idle"
    BY StepFrame DEF Settled
  <1>2. /\ \A v \in Workers : object[v] # 0 => object[v] \in Objects
        /\ \A v \in Workers : pc[v] # "idle" => object[v] # 0
        /\ \A v \in Workers : pc'[v] = "idle" <=> object'[v] = 0
    <2>1. \A v \in Workers : object[v] # 0 => object[v] \in Objects
      BY OwnObject DEF Settled
    <2>2. Types /\ Types'
      BY DEF Settled, IInv
    <2> QED
      BY <2>1, <2>2 DEF Types
  <1>3. Alone'
    <2> SUFFICES ASSUME NEW u \in Workers, NEW v \in Workers,
                        u # v, object'[u] = object'[v], object'[v] # 0
                 PROVE  "overlap" \in spoilt'[object'[v]]
      BY DEF Alone
    <2>1. object'[u] = object[u] /\ object'[v] = object[v]
      BY <1>1
    <2>2. "overlap" \in spoilt[object[v]]
      BY <2>1 DEF Settled, Orderly, Alone
    <2> QED
      BY <1>1, <1>2, <2>1, <2>2
  <1>4. ASSUME NEW v \in Workers, v # w
        PROVE  MockAt(v)' /\ PromptAt(v)'
    <2>1. MockAt(v) /\ PromptAt(v)
      BY DEF Settled, Orderly
    <2>2. /\ pc'[v] = pc[v] /\ object'[v] = object[v] /\ round'[v] = round[v]
          /\ calls'[v] = calls[v] /\ prompt'[v] = prompt[v]
      BY <1>1, <1>4
    <2>3. PromptAt(v)'
      BY <1>1, <1>2, <2>1, <2>2 DEF PromptAt
    <2>4. CASE pc[v] # "idle" /\ "overlap" \notin spoilt'[object[v]]
      <3>1. object[v] \in Objects /\ "overlap" \notin spoilt[object[v]]
        BY <1>1, <1>2, <2>4
      <3>2. object[v] # o
        BY <1>1, <1>4, <3>1, OnlyUser DEF Settled, Orderly
      <3>3. hist'[object[v]] = hist[object[v]]
        BY <1>1, <3>1, <3>2
      <3> QED
        BY <1>1, <2>1, <2>2, <2>3, <3>1, <3>3 DEF MockAt
    <2>5. CASE ~(pc[v] # "idle" /\ "overlap" \notin spoilt'[object[v]])
      BY <2>1, <2>2, <2>3, <2>5 DEF MockAt
    <2> QED
      BY <2>4, <2>5
  <1>5. ASSUME NEW p \in Objects, p # o
        PROVE  PairsAt(p)' /\ TurnsAt(p)'
    <2>1. PairsAt(p) /\ TurnsAt(p)
      BY DEF Settled, Orderly
    <2>2. \A v \in Workers : object'[v] = p <=> object[v] = p /\ v # w
      BY <1>1, <1>5 DEF Objects
    <2>3. \A v \in Workers : object[v] = p => v # w
      BY <1>5
    <2>4. hist'[p] = hist[p] /\ spoilt'[p] = spoilt[p]
      BY <1>1, <1>5
    <2>5. PairsAt(p)'
      BY <1>1, <2>1, <2>2, <2>3, <2>4 DEF PairsAt
    <2>6. TurnsAt(p)'
      BY <1>1, <2>1, <2>2, <2>3, <2>4 DEF TurnsAt
    <2> QED
      BY <2>5, <2>6
  <1>6. "overlap" \notin spoilt'[o] => \A v \in Workers : object'[v] = o => v = w
    <2> SUFFICES ASSUME "overlap" \notin spoilt'[o], NEW v \in Workers, object'[v] = o,
                        v # w
                 PROVE  FALSE
      OBVIOUS
    <2>1. "overlap" \notin spoilt[o] /\ object[v] = o
      BY <1>1
    <2> QED
      BY <1>1, <2>1, OnlyUser DEF Settled, Orderly
  <1>7. PairsAt(o)'
    <2> SUFFICES ASSUME spoilt'[o] \cap {"overlap", "tool"} = {}
                 PROVE  /\ (\A v \in Workers : object'[v] = o => pc'[v] # "tools")
                              => Paired(hist'[o])
                        /\ \A v \in Workers : (object'[v] = o /\ pc'[v] = "tools")
                              => Pending(hist'[o], chat'[v], calls'[v], done'[v])
      BY DEF PairsAt
    <2>1. \A v \in Workers : object'[v] = o => v = w
      <3>1. "overlap" \notin spoilt'[o]
        OBVIOUS
      <3> QED
        BY <1>6, <3>1
    <2>2. /\ pc'[w] # "tools" => Paired(hist'[o])
          /\ pc'[w] = "tools" => Pending(hist'[o], chat'[w], calls'[w], done'[w])
      BY DEF PairsBy
    <2>3. pc'[w] = "tools" => object'[w] = o
      BY <1>1, <1>2
    <2> QED
      BY <2>1, <2>2, <2>3
  <1>8. TurnsAt(o)'
    <2> SUFFICES ASSUME spoilt'[o] = {}
                 PROVE  /\ Alternates(hist'[o])
                        /\ (\A v \in Workers : object'[v] = o => pc'[v] \in {"guard", "user"})
                              => Answered(hist'[o])
      BY DEF TurnsAt
    <2>1. /\ Alternates(hist'[o])
          /\ pc'[w] \in {"idle", "guard", "user"} => Answered(hist'[o])
      BY DEF TurnsBy
    <2>2. pc'[w] = "idle" \/ object'[w] = o
      BY <1>1, <1>2
    <2> QED
      BY <2>1, <2>2
  <1> QED
    BY <1>3, <1>4, <1>5, <1>7, <1>8 DEF Orderly

-----------------------------------------------------------------------------
(* What a busy worker writes with, and where. *)
LEMMA OwnLists ==
    ASSUME IInv, NEW w \in Workers, pc[w] # "idle"
    PROVE  /\ chat[w] \in Chats
           /\ \A o \in Objects : hist[o] \in Seq(Entries)
           /\ User(chat[w]) \in Entries /\ User(chat[w]).role = "user"
           /\ Reply(chat[w]) \in Entries /\ Reply(chat[w]).role = "assistant"
  <1>1. chat[w] \in Chats
    BY BusyWorker
  <1>2. \A o \in Objects : hist[o] \in Seq(Entries)
    BY DEF IInv, Types
  <1>3. /\ User(chat[w]) \in Entries /\ User(chat[w]).role = "user"
        /\ Reply(chat[w]) \in Entries /\ Reply(chat[w]).role = "assistant"
    BY <1>1 DEF User, Reply, Entry, Entries
  <1> QED
    BY <1>1, <1>2, <1>3

LEMMA SaidHere ==
    ASSUME IInv, NEW w \in Workers, NEW o \in Objects, object[w] = o, NEW e, Say(w, e)
    PROVE  hist'[o] = hist[o] \o e
  BY DEF Say, IInv, Types

LEMMA NowAt ==
    ASSUME IInv, NEW w \in Workers, NEW place, Goto(w, place)
    PROVE  pc'[w] = place
  BY DEF Goto, IInv, Types

LEMMA NowServed ==
    ASSUME IInv, NEW w \in Workers, Served(w)
    PROVE  /\ pc'[w] = "idle" /\ round'[w] = 0 /\ MockAt(w)' /\ PromptAt(w)'
  <1>1. pc'[w] = "idle" /\ round'[w] = 0
    BY DEF Served, IInv, Types
  <1> QED
    BY <1>1 DEF MockAt, PromptAt

LEMMA SpoiltMore ==
    ASSUME IInv, NEW w \in Workers, NEW o \in Objects, object[w] = o,
           NEW what, Spoil(w, what)
    PROVE  spoilt'[o] = spoilt[o] \cup {what}
  BY DEF Spoil, IInv, Types

LEMMA GuardPassesOrderly ==
    ASSUME Settled, IInv', NEW w \in Workers, NEW o \in Objects, object[w] = o,
           GuardPasses(w)
    PROVE  Orderly'
  <1>1. /\ pc[w] = "guard" /\ Goto(w, "user") /\ Step(w)
        /\ UNCHANGED <<provider, hist, chat, object, round, calls, done, prompt, spoilt>>
    BY DEF GuardPasses, sessionVars, historyVars, Step
  <1>2. pc'[w] = "user"
    BY <1>1, NowAt DEF Settled
  <1>3. PairsBy(w, o) /\ TurnsBy(w, o)
    BY <1>1, BeforeStep
  <1>4. PairsBy(w, o)' /\ TurnsBy(w, o)'
    BY <1>1, <1>2, <1>3 DEF PairsBy, TurnsBy
  <1>5. MockAt(w)' /\ PromptAt(w)'
    BY <1>1, <1>2 DEF MockAt, PromptAt, Settled, Orderly
  <1> QED
    BY <1>1, <1>4, <1>5, AfterStep

(* An error: the list stays, and is spoilt unless the guard raised. *)
LEMMA RaisesOrderly ==
    ASSUME Settled, IInv', NEW w \in Workers, NEW o \in Objects, object[w] = o,
           GuardRaises(w) \/ ProviderRaises(w) \/ DispatchRaises(w)
    PROVE  Orderly'
  <1>1. /\ Served(w) /\ Step(w) /\ hist' = hist
        /\ \/ pc[w] = "guard" /\ UNCHANGED spoilt
           \/ pc[w] = "llm" /\ Spoil(w, "llm")
           \/ pc[w] = "tools" /\ Spoil(w, "tool")
    BY DEF GuardRaises, ProviderRaises, DispatchRaises, Step, sessionVars, historyVars
  <1>2. pc'[w] = "idle" /\ MockAt(w)' /\ PromptAt(w)'
    BY <1>1, NowServed DEF Settled
  <1>3. PairsBy(w, o) /\ TurnsBy(w, o)
    BY <1>1, BeforeStep
  <1>4. \/ pc[w] = "guard" /\ spoilt'[o] = spoilt[o]
        \/ pc[w] = "llm" /\ spoilt'[o] = spoilt[o] \cup {"llm"}
        \/ pc[w] = "tools" /\ spoilt'[o] = spoilt[o] \cup {"tool"}
    <2>1. \A what : Spoil(w, what) => spoilt'[o] = spoilt[o] \cup {what}
      BY SpoiltMore DEF Settled
    <2> QED
      BY <1>1, <2>1
  <1>5. PairsBy(w, o)'
    BY <1>1, <1>2, <1>3, <1>4 DEF PairsBy
  <1>6. TurnsBy(w, o)'
    BY <1>1, <1>2, <1>3, <1>4 DEF TurnsBy
  <1> QED
    BY <1>1, <1>2, <1>5, <1>6, AfterStep

(* A reply ends the chat. *)
LEMMA EndsOrderly ==
    ASSUME Settled, IInv', NEW w \in Workers, NEW o \in Objects, object[w] = o,
           GiveUp(w) \/ Finish(w) \/ Refuse(w)
    PROVE  Orderly'
  <1>1. /\ Served(w) /\ Step(w) /\ Say(w, <<Reply(chat[w])>>) /\ spoilt' = spoilt
        /\ pc[w] \in {"send", "llm", "refuse"}
    BY DEF GiveUp, Finish, Refuse, Step, historyVars
  <1>2. pc'[w] = "idle" /\ MockAt(w)' /\ PromptAt(w)'
    BY <1>1, NowServed DEF Settled
  <1>3. PairsBy(w, o) /\ TurnsBy(w, o)
    BY <1>1, BeforeStep
  <1>4. /\ hist[o] \in Seq(Entries) /\ hist'[o] = hist[o] \o <<Reply(chat[w])>>
        /\ Reply(chat[w]) \in Entries /\ Reply(chat[w]).role = "assistant"
    BY <1>1, OwnLists, SaidHere DEF Settled
  <1>5. PairsBy(w, o)'
    <2>1. Paired(hist[o]) => Paired(hist'[o])
      BY <1>4, PlainEntry
    <2> QED
      BY <1>1, <1>2, <1>3, <2>1 DEF PairsBy
  <1>6. TurnsBy(w, o)'
    <2>1. Alternates(hist[o]) => Alternates(hist'[o]) /\ Answered(hist'[o])
      BY <1>4, TurnEntry
    <2> QED
      BY <1>1, <1>2, <1>3, <2>1 DEF TurnsBy
  <1> QED
    BY <1>1, <1>2, <1>5, <1>6, AfterStep

(* The user's message, passed or blocked. *)
LEMMA AskOrderly ==
    ASSUME Settled, IInv', NEW w \in Workers, NEW o \in Objects, object[w] = o,
           Ask(w) \/ GuardBlocks(w)
    PROVE  Orderly'
  <1> DEFINE u == User(chat[w])
             h == hist[o]
  <1>1. /\ Step(w) /\ Say(w, <<u>>) /\ UNCHANGED <<spoilt, round, provider>>
        /\ pc[w] \in {"guard", "user"}
        /\ Goto(w, "send") \/ Goto(w, "refuse")
    BY DEF Ask, GuardBlocks, Step, historyVars
  <1>2. pc'[w] \in {"send", "refuse"}
    BY <1>1, NowAt DEF Settled
  <1>3. PairsBy(w, o) /\ TurnsBy(w, o)
    BY <1>1, BeforeStep
  <1>4. h \in Seq(Entries) /\ u \in Entries /\ u.role = "user" /\ hist'[o] = h \o <<u>>
    BY <1>1, OwnLists, SaidHere DEF Settled
  <1> HIDE DEF u
  <1>5. PairsBy(w, o)'
    <2>1. Paired(h) => Paired(hist'[o])
      BY <1>4, PlainEntry
    <2> QED
      BY <1>1, <1>2, <1>3, <2>1 DEF PairsBy
  <1>6. TurnsBy(w, o)'
    <2>1. Alternates(h) /\ Answered(h) => Alternates(hist'[o])
      BY <1>4, TurnEntry
    <2> QED
      BY <1>1, <1>2, <1>3, <2>1 DEF TurnsBy
  <1>7. MockAt(w)' /\ PromptAt(w)'
    <2>1. round[w] = 0
      BY <1>1 DEF Settled, Orderly, MockAt
    <2> QED
      BY <1>1, <1>2, <2>1 DEF MockAt, PromptAt
  <1> QED
    BY <1>1, <1>5, <1>6, <1>7, AfterStep

LEMMA SendOrderly ==
    ASSUME Settled, IInv', NEW w \in Workers, NEW o \in Objects, object[w] = o,
           Send(w)
    PROVE  Orderly'
  <1>1. /\ Step(w) /\ pc[w] = "send" /\ Goto(w, "llm")
        /\ UNCHANGED <<hist, spoilt, provider, object>>
    BY DEF Send, Step, sessionVars, historyVars
  <1>2. pc'[w] = "llm"
    BY <1>1, NowAt DEF Settled
  <1>3. PairsBy(w, o) /\ TurnsBy(w, o)
    BY <1>1, BeforeStep
  <1>4. PairsBy(w, o)' /\ TurnsBy(w, o)'
    BY <1>1, <1>2, <1>3 DEF PairsBy, TurnsBy
  <1>5. round[w] \in Nat /\ round'[w] = round[w] + 1 /\ prompt'[w] = hist[o]
    BY DEF Send, Settled, IInv, Types
  <1>6. MockAt(w)'
    <2>1. MockAt(w)
      BY DEF Settled, Orderly
    <2> QED
      BY <1>1, <1>2, <1>5, <2>1 DEF MockAt
  <1>7. PromptAt(w)'
    BY <1>1, <1>2, <1>3, <1>5 DEF PromptAt, PairsBy
  <1> QED
    BY <1>1, <1>4, <1>6, <1>7, AfterStep

LEMMA AskForToolsOrderly ==
    ASSUME Settled, IInv', NEW w \in Workers, NEW o \in Objects, object[w] = o,
           NEW n \in CallCounts \cup {1}, AskForTools(w, n)
    PROVE  Orderly'
  <1> DEFINE c == chat[w]
             e == Entry("call", c, n)
             h == hist[o]
  <1>1. /\ Step(w) /\ pc[w] = "llm" /\ n \in LLMCalls(w)
        /\ Say(w, <<e>>) /\ Goto(w, "tools")
        /\ UNCHANGED <<spoilt, provider, object, round, chat>>
    BY DEF AskForTools, Step, historyVars
  <1>2. pc'[w] = "tools" /\ calls'[w] = n /\ done'[w] = 0 /\ n \in Nat /\ n # 0
    <2>1. pc'[w] = "tools"
      BY <1>1, NowAt DEF Settled
    <2>2. calls'[w] = n /\ done'[w] = 0
      BY DEF AskForTools, Settled, IInv, Types
    <2> QED
      BY <2>1, <2>2, AgentAssumption
  <1>3. PairsBy(w, o) /\ TurnsBy(w, o)
    BY <1>1, BeforeStep
  <1>4. /\ h \in Seq(Entries) /\ c \in Chats /\ hist'[o] = h \o <<e>>
        /\ e \in Entries /\ e.role = "call"
    <2>1. h \in Seq(Entries) /\ c \in Chats
      BY <1>1, OwnLists DEF Settled
    <2>2. hist'[o] = h \o <<e>>
      BY <1>1, SaidHere DEF Settled
    <2> QED
      BY <1>2, <2>1, <2>2 DEF Entry, Entries
  <1>5. PairsBy(w, o)'
    <2>1. Paired(h) => Pending(hist'[o], c, n, 0)
      BY <1>2, <1>4, CallEntry
    <2> QED
      BY <1>1, <1>2, <1>3, <2>1 DEF PairsBy
  <1>6. TurnsBy(w, o)'
    <2>1. Alternates(h) => Alternates(hist'[o])
      BY <1>4, TurnEntry
    <2> QED
      BY <1>1, <1>2, <1>3, <2>1 DEF TurnsBy
  <1>7. MockAt(w)'
    <2>1. MockAt(w)
      BY DEF Settled, Orderly
    <2>2. provider = "mock" => n = 1 /\ ~LastIsTool(prompt[w])
      BY <1>1, <1>2 DEF LLMCalls, MockCalls, LastIsTool
    <2> QED
      BY <1>1, <1>2, <2>1, <2>2 DEF MockAt
  <1>8. PromptAt(w)'
    BY <1>2 DEF PromptAt
  <1> QED
    BY <1>1, <1>5, <1>6, <1>7, <1>8, AfterStep

LEMMA DispatchOrderly ==
    ASSUME Settled, IInv', NEW w \in Workers, NEW o \in Objects, object[w] = o,
           Dispatch(w)
    PROVE  Orderly'
  <1> DEFINE c == chat[w]
             n == calls[w]
             d == done[w]
             e == Entry("tool", c, d + 1)
             h == hist[o]
  <1>1. d \in Nat /\ n \in Nat /\ d < n /\ done'[w] = d + 1 /\ pc[w] = "tools"
    BY DEF Dispatch, Settled, IInv, Types
  <1>2. /\ Step(w) /\ Say(w, <<e>>) /\ Goto(w, AfterTool(w))
        /\ UNCHANGED <<spoilt, provider, object, round, chat, calls>>
    BY <1>1 DEF Dispatch, Step, historyVars
  <1>3. pc'[w] = IF d + 1 = n THEN "send" ELSE "tools"
    BY <1>1, <1>2, NowAt DEF Settled, AfterTool
  <1>4. PairsBy(w, o) /\ TurnsBy(w, o)
    BY <1>1, BeforeStep
  <1>5. /\ h \in Seq(Entries) /\ c \in Chats /\ hist'[o] = h \o <<e>>
        /\ e \in Entries /\ e.role = "tool"
    <2>1. h \in Seq(Entries) /\ c \in Chats
      BY <1>1, OwnLists DEF Settled
    <2>2. hist'[o] = h \o <<e>>
      BY <1>2, SaidHere DEF Settled
    <2>3. e \in Entries /\ e.role = "tool"
      BY <1>1, <2>1 DEF Entry, Entries
    <2> QED
      BY <2>1, <2>2, <2>3
  <1>6. h \o <<e>> \in Seq(Entries) /\ LastIsTool(h \o <<e>>)
    BY <1>5, OneMore DEF LastIsTool
  <1>7. PairsBy(w, o)'
    <2>1. Pending(h, c, n, d) => Pending(hist'[o], c, n, d + 1)
      BY <1>1, <1>5, ToolEntry
    <2>2. d + 1 = n /\ Pending(hist'[o], c, n, d + 1) => Paired(hist'[o])
      BY <1>1, <1>5, <1>6, AllAnswered
    <2>3. /\ (pc'[w] # "tools" /\ Pending(h, c, n, d)) => Paired(hist'[o])
          /\ Pending(h, c, n, d) => Pending(hist'[o], c, n, d + 1)
      BY <1>3, <2>1, <2>2
    <2>4. /\ chat'[w] = c /\ calls'[w] = n /\ done'[w] = d + 1
          /\ spoilt' = spoilt /\ pc[w] = "tools"
      BY <1>1, <1>2
    <2> HIDE DEF c, n, d, e
    <2>5. spoilt[o] \cap {"overlap", "tool"} = {} => Pending(h, c, n, d)
      BY <1>4, <2>4 DEF PairsBy, c, n, d
    <2> QED
      BY <2>3, <2>4, <2>5 DEF PairsBy
  <1>8. TurnsBy(w, o)'
    <2>1. Alternates(h) => Alternates(hist'[o])
      BY <1>5, TurnEntry
    <2>2. pc'[w] \notin {"idle", "guard", "user"} /\ spoilt' = spoilt
      BY <1>2, <1>3
    <2> HIDE DEF e, c, d, n
    <2> QED
      BY <1>4, <2>1, <2>2 DEF TurnsBy
  <1>9. MockAt(w)'
    <2>1. MockAt(w)
      BY DEF Settled, Orderly
    <2>2. n = 1 => pc'[w] = "send"
      BY <1>1, <1>3
    <2>3. LastIsTool(hist'[o])
      BY <1>5, <1>6
    <2>4. /\ pc'[w] # "llm" /\ pc'[w] \notin {"idle", "guard", "user"}
          /\ pc'[w] = "tools" => calls[w] # 1
      BY <1>3, <2>2
    <2>5. /\ object' = object /\ spoilt' = spoilt /\ provider' = provider
          /\ round' = round /\ pc[w] = "tools"
      BY <1>1, <1>2
    <2> HIDE DEF n, c, d, e
    <2> QED
      BY <2>1, <2>3, <2>4, <2>5 DEF MockAt
  <1>10. PromptAt(w)'
    BY <1>3 DEF PromptAt
  <1> QED
    BY <1>2, <1>7, <1>8, <1>9, <1>10, AfterStep

LEMMA StepOrderly ==
    ASSUME Settled, IInv', NEW w \in Workers, Step(w)
    PROVE  Orderly'
  <1>1. PICK o \in Objects : object[w] = o
    BY StepFrame DEF Settled
  <1>2. ASSUME GuardPasses(w) \/ Ask(w) \/ Send(w) \/ GuardBlocks(w) PROVE Orderly'
    BY <1>1, <1>2, GuardPassesOrderly, AskOrderly, SendOrderly
  <1>3. ASSUME GuardRaises(w) \/ ProviderRaises(w) \/ DispatchRaises(w) PROVE Orderly'
    BY <1>1, <1>3, RaisesOrderly
  <1>4. ASSUME GiveUp(w) \/ Finish(w) \/ Refuse(w) PROVE Orderly'
    BY <1>1, <1>4, EndsOrderly
  <1>5. ASSUME NEW n \in CallCounts \cup {1}, AskForTools(w, n) PROVE Orderly'
    BY <1>1, <1>5, AskForToolsOrderly
  <1>6. ASSUME Dispatch(w) PROVE Orderly'
    BY <1>1, <1>6, DispatchOrderly
  <1>7. (\E n \in CallCounts \cup {1} : AskForTools(w, n)) => Orderly'
    BY <1>5
  <1> QED
    BY <1>2, <1>3, <1>4, <1>6, <1>7, Zenon DEF Step

LEMMA ReceiveOrderly ==
    ASSUME Settled, IInv', NEW w \in Workers, Receive(w)
    PROVE  Orderly'
  <1> DEFINE o == IF session = 0 THEN made + 1 ELSE session
  <1>1. o \in Objects
    <2>1. begun < MaxChats /\ Types
      BY DEF Receive, Settled, IInv
    <2>2. /\ begun \in 0 .. MaxChats /\ made \in 0 .. begun /\ session \in 0 .. made
      BY <2>1 DEF Types
    <2> QED
      BY <2>1, <2>2, AgentAssumption DEF Objects
  <1>2. /\ pc[w] = "idle" /\ object[w] = 0
        /\ UNCHANGED <<provider, hist, round, calls, done, prompt>>
    BY DEF Receive, Settled, IInv, Types
  <1>3. pc'[w] \in {"guard", "user"} /\ object'[w] = o
    <2>1. \E place \in {"guard", "user"} : Goto(w, place)
      BY DEF Receive
    <2>2. pc'[w] \in {"guard", "user"}
      BY <2>1, NowAt DEF Settled
    <2>3. object'[w] = o
      BY DEF Receive, Settled, IInv, Types
    <2> QED
      BY <2>2, <2>3
  <1>4. \A v \in Workers : v # w =>
           pc'[v] = pc[v] /\ object'[v] = object[v] /\ chat'[v] = chat[v]
    BY DEF Receive, Goto, Settled, IInv, Types
  <1>5. /\ \A p \in Objects : p # o => spoilt'[p] = spoilt[p]
        /\ InUse(o) => spoilt'[o] = spoilt[o] \cup {"overlap"}
        /\ ~InUse(o) => spoilt'[o] = spoilt[o]
    <2>1. spoilt' = [spoilt EXCEPT ![o] = IF InUse(o) THEN @ \cup {"overlap"} ELSE @]
      BY DEF Receive
    <2>2. DOMAIN spoilt = Objects
      BY DEF Settled, IInv, Types
    <2> HIDE DEF o
    <2> QED
      BY <1>1, <2>1, <2>2
  <1> HIDE DEF o
  <1>6. \A p \in Objects : spoilt[p] \subseteq spoilt'[p]
    BY <1>5
  <1>7. \A v \in Workers : object[v] # 0 => object[v] \in Objects
    BY OwnObject DEF Settled
  <1>8. Alone'
    <2> SUFFICES ASSUME NEW u \in Workers, NEW v \in Workers,
                        u # v, object'[u] = object'[v], object'[v] # 0
                 PROVE  "overlap" \in spoilt'[object'[v]]
      BY DEF Alone
    <2>1. CASE u # w /\ v # w
      <3>1. "overlap" \in spoilt[object[v]]
        BY <1>4, <2>1 DEF Settled, Orderly, Alone
      <3> QED
        BY <1>4, <1>6, <1>7, <2>1, <3>1
    <2>2. CASE u = w \/ v = w
      <3>1. InUse(o) /\ object'[v] = o
        BY <1>3, <1>4, <2>2 DEF InUse
      <3> QED
        BY <1>5, <3>1
    <2> QED
      BY <2>1, <2>2
  <1>9. ASSUME NEW v \in Workers
        PROVE  MockAt(v)' /\ PromptAt(v)'
    <2>1. MockAt(v) /\ PromptAt(v)
      BY DEF Settled, Orderly
    <2>2. CASE v = w
      BY <1>2, <1>3, <2>1, <2>2 DEF MockAt, PromptAt
    <2>3. CASE v # w
      <3>1. pc[v] # "idle" => object[v] \in Objects
        BY <1>7, BusyWorker DEF Settled
      <3>2. MockAt(v)'
        BY <1>2, <1>4, <1>6, <2>1, <2>3, <3>1 DEF MockAt
      <3>3. PromptAt(v)'
        BY <1>2, <1>4, <1>6, <2>1, <2>3, <3>1 DEF PromptAt
      <3> QED
        BY <3>2, <3>3
    <2> QED
      BY <2>2, <2>3
  <1>10. ASSUME NEW p \in Objects
         PROVE  PairsAt(p)' /\ TurnsAt(p)'
    <2>1. PairsAt(p) /\ TurnsAt(p)
      BY DEF Settled, Orderly
    <2>2. \A v \in Workers : object[v] = p => v # w
      BY <1>2 DEF Objects
    <2>3. CASE p # o
      <3>1. \A v \in Workers : object'[v] = p <=> object[v] = p
        BY <1>3, <1>4, <2>2, <2>3
      <3>2. hist'[p] = hist[p] /\ spoilt'[p] = spoilt[p]
        BY <1>2, <1>5, <2>3
      <3>3. PairsAt(p)'
        BY <1>2, <1>4, <2>1, <2>2, <3>1, <3>2 DEF PairsAt
      <3>4. TurnsAt(p)'
        BY <1>2, <1>4, <2>1, <2>2, <3>1, <3>2 DEF TurnsAt
      <3> QED
        BY <3>3, <3>4
    <2>4. CASE p = o /\ InUse(o)
      <3>1. "overlap" \in spoilt'[p]
        BY <1>5, <2>4
      <3> QED
        BY <3>1 DEF PairsAt, TurnsAt
    <2>5. CASE p = o /\ ~InUse(o)
      <3>1. hist'[p] = hist[p] /\ spoilt'[p] = spoilt[p]
        BY <1>2, <1>5, <2>5
      <3>2. \A v \in Workers : object[v] # p
        BY <2>5 DEF InUse
      <3>3. \A v \in Workers : object'[v] = p => v = w
        BY <1>4, <3>2
      <3>4. PairsAt(p)'
        BY <1>3, <2>1, <3>1, <3>2, <3>3 DEF PairsAt
      <3>5. TurnsAt(p)'
        BY <1>3, <2>1, <3>1, <3>2, <3>3 DEF TurnsAt
      <3> QED
        BY <3>4, <3>5
    <2> QED
      BY <2>3, <2>4, <2>5
  <1> QED
    BY <1>8, <1>9, <1>10 DEF Orderly

(* A reset takes the session's name only. *)
LEMMA ResetOrderly ==
    ASSUME Settled, UNCHANGED <<provider, workerVars, hist, spoilt>>
    PROVE  Orderly'
  <1>1. Orderly /\ UNCHANGED <<provider, pc, chat, object, round, calls, done, prompt,
                              hist, spoilt>>
    BY DEF Settled, workerVars
  <1>2. Alone'
    BY <1>1 DEF Orderly, Alone
  <1>3. ASSUME NEW w \in Workers PROVE MockAt(w)' /\ PromptAt(w)'
    BY <1>1 DEF Orderly, MockAt, PromptAt
  <1>4. ASSUME NEW o \in Objects PROVE PairsAt(o)' /\ TurnsAt(o)'
    BY <1>1 DEF Orderly, PairsAt, TurnsAt
  <1> QED
    BY <1>2, <1>3, <1>4 DEF Orderly

LEMMA InitOrderly == Init => Orderly
  <1> SUFFICES ASSUME Init PROVE Orderly
    OBVIOUS
  <1>1. Alone
    BY DEF Init, Alone
  <1>2. ASSUME NEW w \in Workers PROVE MockAt(w) /\ PromptAt(w)
    BY DEF Init, MockAt, PromptAt
  <1>3. ASSUME NEW o \in Objects PROVE PairsAt(o) /\ TurnsAt(o)
    <2>1. hist[o] = <<>> /\ \A w \in Workers : pc[w] = "idle"
      BY DEF Init
    <2>2. Paired(<<>>) /\ Alternates(<<>>) /\ Answered(<<>>)
      BY DEF Paired, Alternates, Answered
    <2> QED
      BY <2>1, <2>2 DEF PairsAt, TurnsAt
  <1> QED
    BY <1>1, <1>2, <1>3 DEF Orderly

-----------------------------------------------------------------------------
(* The order of calls, results and turns in every history and every prompt *)
(* on its way, at every moment (agent.py:71-139).                          *)
THEOREM AlwaysSettled == Spec => []Settled
  <1>1. Init => Settled
    BY InitIInv, InitOrderly DEF Settled
  <1>2. Settled /\ [Next]_vars => Settled'
    <2> SUFFICES ASSUME Settled, [Next]_vars PROVE Settled'
      OBVIOUS
    <2>1. IInv'
      BY Inductive DEF Settled
    <2>2. ASSUME Reset PROVE Orderly'
      <3>1. UNCHANGED <<provider, workerVars, hist, spoilt>>
        BY <2>2 DEF Reset, Forget
      <3> QED
        BY <3>1, ResetOrderly
    <2>3. ASSUME NEW w \in Workers, Receive(w) PROVE Orderly'
      BY <2>1, <2>3, ReceiveOrderly
    <2>4. ASSUME NEW w \in Workers, Step(w) PROVE Orderly'
      BY <2>1, <2>4, StepOrderly
    <2>5. ASSUME UNCHANGED vars PROVE Orderly'
      <3>1. UNCHANGED <<provider, workerVars, hist, spoilt>>
        BY <2>5 DEF vars, sessionVars, historyVars
      <3> QED
        BY <3>1, ResetOrderly
    <2>6. Orderly'
      BY <2>2, <2>3, <2>4, <2>5 DEF Next, Finished
    <2> QED
      BY <2>1, <2>6 DEF Settled
  <1> QED
    BY <1>1, <1>2, PTL DEF Spec

(* Unless chats overlapped or a tool raised, every prompt has each call of *)
(* tools followed by all its results (agent.py:79-137).                    *)
THEOREM PromptsArePaired == Spec => []PromptsPaired
  <1>1. Settled => PromptsPaired
    BY DEF Settled, Orderly, PromptAt, PromptsPaired
  <1> QED
    BY <1>1, AlwaysSettled, PTL

(* In a session that nothing spoilt, user and agent take turns, and it     *)
(* rests with a reply - whatever is blocked, called or given up            *)
(* (agent.py:74-76, 137).                                                  *)
THEOREM TakesTurns == Spec => []TurnsAlternate
  <1>1. Settled => TurnsAlternate
    BY DEF Settled, Orderly, TurnsAt, TurnsAlternate, Alternates, Answered, InUse
  <1> QED
    BY <1>1, AlwaysSettled, PTL

(* The mock answers a chat of its own at the second call at the latest     *)
(* (providers.py:221-225, agent.py:82-139).                                *)
THEOREM MockFinishes == Spec => []MockNeverGivesUp
  <1>1. Settled => MockNeverGivesUp
    BY DEF Settled, Orderly, MockAt, MockNeverGivesUp
  <1> QED
    BY <1>1, AlwaysSettled, PTL
=============================================================================
