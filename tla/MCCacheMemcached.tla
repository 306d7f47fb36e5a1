------------------------- MODULE MCCacheMemcached --------------------------
(***************************************************************************)
(* Small instances of the cache: values are one short (1 byte) and two     *)
(* long of two parts, with two bytes to a record.                          *)
(***************************************************************************)
EXTENDS CacheMemcached, TLC

CONSTANTS short, long1, long2

\* Three bytes each, so that a mix of their parts has the size of either.
SameSizes == (short :> 1) @@ (long1 :> 3) @@ (long2 :> 3)
\* A whole number of records, the boundary of the loop that cuts the parts.
Boundary  == (short :> 1) @@ (long1 :> 2) @@ (long2 :> 4)

Symmetric == Permutations(Procs)
=============================================================================
