------------------------------- MODULE FlagMap -------------------------------
(***************************************************************************)
(* What a session promises about "the flags of the answers that fired"     *)
(* (Session.hpp): one independent bit for every answer of every pattern.   *)
(* FlagsStorage.hpp packs those bits into one array and is shown to        *)
(* implement this module.                                                  *)
(***************************************************************************)
CONSTANTS Keys,      \* pattern identifiers
          Indices    \* numbers of the answers of a pattern

VARIABLES fired,     \* the answers whose flag is up
          stored     \* the flags of the copy of the session in the cache

vars == <<fired, stored>>

Flags == Keys \X Indices

Init == fired = {} /\ stored = {}

(* An answer fired: its flag goes up and no other flag moves.              *)
Raise(k, i) == fired' = fired \union {<<k, i>>} /\ UNCHANGED stored

(* A round of take-turns answers is over: one flag goes down.              *)
Lower(k, i) == fired' = fired \ {<<k, i>>} /\ UNCHANGED stored

Save == stored' = fired /\ UNCHANGED fired

Load == fired' = stored /\ UNCHANGED stored

Reset == fired' = {} /\ UNCHANGED stored

Next == \/ \E k \in Keys, i \in Indices : Raise(k, i) \/ Lower(k, i)
        \/ Save \/ Load \/ Reset

Spec == Init /\ [][Next]_vars
=============================================================================
