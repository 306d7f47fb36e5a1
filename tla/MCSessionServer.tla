--------------------------- MODULE MCSessionServer ---------------------------
(* Instances of SessionServer for TLC.                                     *)
EXTENDS SessionServer, TLC

CONSTANTS s1, s2, i1

OneSession == {s1}
TwoSessions == {s1, s2}
OneInf == {i1}
SharedInf == [s \in Sessions |-> i1]

(* Whether a new version of the base changes a registry.                   *)
SumsChange == [v \in Versions |-> v]
SumsStay == [v \in Versions |-> 1]

Symmetry == Permutations(Filters) \union Permutations(Sessions) \union Permutations(Profiles)
=============================================================================
