--------------------------- MODULE MCDictsStates ---------------------------
(***************************************************************************)
(* A base with one dictionary that is used as a udict, by events too, one  *)
(* that is used as a sudict, and one that is used as both.                 *)
(***************************************************************************)
EXTENDS DictsStates, TLC

CONSTANTS u, s, m, a, b

AllUses   == {<<u, "udict">>, <<s, "sudict">>, <<m, "udict">>, <<m, "sudict">>}
UdictOnly == {<<u, "udict">>}

Symmetric == Permutations(Lines)
=============================================================================
