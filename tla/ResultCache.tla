---------------------------- MODULE ResultCache ----------------------------
(***************************************************************************)
(* What DomainGuard.check relies on of any ResultCache (cache.py:42-52),   *)
(* whatever it forgets and when: a get(k) that returns, returns nothing or *)
(* the value of the latest set(k) at some moment between call and return,  *)
(* never that of another key or of an earlier set().                       *)
(***************************************************************************)
CONSTANTS Threads, Keys, Values, Absent

VARIABLES
    latest,     \* the value of the last set() of each key
    asked,      \* the key of the get() each thread is in, or Absent
    answer      \* what each thread's last get() returned

vars == <<latest, asked, answer>>

Init ==
    /\ latest = [k \in Keys |-> Absent]
    /\ asked = [t \in Threads |-> Absent]
    /\ answer = [t \in Threads |-> Absent]

Call(t, k) ==
    /\ asked[t] = Absent
    /\ asked' = [asked EXCEPT ![t] = k]
    /\ UNCHANGED <<latest, answer>>

Answer(t) ==
    /\ asked[t] # Absent
    /\ \/ answer' = [answer EXCEPT ![t] = Absent]
       \/ answer' = [answer EXCEPT ![t] = latest[asked[t]]]
    /\ asked' = [asked EXCEPT ![t] = Absent]
    /\ UNCHANGED latest

(* The get() of each of ts raises, or its process ends. *)
Abandon(ts) ==
    /\ asked' = [t \in Threads |-> IF t \in ts THEN Absent ELSE asked[t]]
    /\ UNCHANGED <<latest, answer>>

Set(k, v) ==
    /\ latest' = [latest EXCEPT ![k] = v]
    /\ UNCHANGED <<asked, answer>>

Next ==
    \/ \E t \in Threads : Answer(t) \/ \E k \in Keys : Call(t, k)
    \/ \E ts \in SUBSET Threads : Abandon(ts)
    \/ \E k \in Keys, v \in Values : Set(k, v)

Spec == Init /\ [][Next]_vars
=============================================================================
