------------------------------ MODULE MCRoute ------------------------------
(* Small instances of Route: two guards at first, a third name to load. *)
EXTENDS Route

MCLoaded == <<"hr", "it">>
MCNames == {"hr", "it", "shop"}
MCScopes == {None, {"it"}}
OpenScope == {None}

Symmetry == Permutations(Workers)
=============================================================================
