------------------------------ MODULE TLCSCache ------------------------------
(***************************************************************************)
(* The results of pattern-level conditions, kept for the length of one     *)
(* call of CreateAnswer (InfEngine2/InfEngine/TLCSCache.hpp, .cpp).  A     *)
(* cache is a record of vIndex, a function from the keys (pattern and      *)
(* question) to offsets, and vOk, one sequence of results for all keys.    *)
(***************************************************************************)
EXTENDS Naturals, Sequences, Functions

ClearedCache == [vIndex |-> <<>>, vOk |-> <<>>]

\* Mutant: the results survive under their keys.
ClearNothing(c) == c

\* TLCSCache::Clear.
Clear(c) == ClearedCache

\* TLCSCache::Find.
InCache(c, key) == key \in DOMAIN c.vIndex

\* TLCSCache::Put: a key that is already there keeps its results.
Put(c, key, passed) ==
  IF InCache(c, key)
  THEN c
  ELSE [vIndex |-> [k \in DOMAIN c.vIndex \union {key} |->
                      IF k = key THEN Len(c.vOk) ELSE c.vIndex[k]],
        vOk |-> c.vOk \o passed]

\* TLCSCache::Ok of the n-th condition: the offset leads to the first one.
CachedOk(c, key, n) == c.vOk[c.vIndex[key] + n]
===============================================================================
