----------------------------- MODULE MCRegistry -----------------------------
(* Small instances of Registry. *)
EXTENDS Registry

Config(n, v) == [name |-> n, ver |-> v]

(* Two files with a guard each; the first may also be broken. *)
TwoFiles == <<"a.yaml", "b.yaml">>
TwoEdits == [p \in ToSet(TwoFiles) |->
                IF p = "a.yaml" THEN {Config("a", 1), Config("a", 2), Invalid}
                                ELSE {Config("b", 1)}]
TwoPuts == [n \in {"a", "b"} |-> IF n = "a" THEN {Config("a", 3)} ELSE {}]

(* One file, whose guard is renamed. *)
OneFile == <<"a.yaml">>
NoPuts == [n \in {"a", "z"} |-> {}]
RenameEdits == [p \in ToSet(OneFile) |-> {Config("a", 1), Config("z", 1)}]
=============================================================================
