---------------------------- MODULE OrderedDict ----------------------------
(***************************************************************************)
(* Python's dict, which keeps the order in which its keys were first put:  *)
(* a sequence of [key, val] with distinct keys.                            *)
(***************************************************************************)
EXTENDS SequencesExt, Integers

KeysOf(d) == {d[i].key : i \in DOMAIN d}

Place(d, k) == CHOOSE i \in DOMAIN d : d[i].key = k

At(d, k) == d[Place(d, k)].val

(* d[k] = v: in place if the key is there, else at the end. *)
Put(d, k, v) ==
    IF k \in KeysOf(d)
    THEN [i \in DOMAIN d |-> IF d[i].key = k THEN [key |-> k, val |-> v] ELSE d[i]]
    ELSE Append(d, [key |-> k, val |-> v])

(* d.pop(k, None) *)
Pop(d, k) == IF k \in KeysOf(d) THEN RemoveAt(d, Place(d, k)) ELSE d

(* The keys of value v; next(k for k, w in d.items() if w == v, default). *)
KeysWith(d, v) == {d[i].key : i \in {j \in DOMAIN d : d[j].val = v}}

FirstWith(d, v) ==
    d[CHOOSE i \in DOMAIN d : /\ d[i].val = v
                              /\ \A j \in 1 .. i - 1 : d[j].val # v].key
=============================================================================
