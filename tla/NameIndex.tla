------------------------------ MODULE NameIndex ------------------------------
(***************************************************************************)
(* The index of names (NanoLib/NameIndex.cpp).  A name has the number of   *)
(* its turn.  The numbers are kept sorted by the hash of the name and, for *)
(* one hash, by the name: names are found by two binary searches.  The     *)
(* hash is the length and the exclusive or of the bytes, so names with the *)
(* same letters collide, and names that collide have one length.           *)
(***************************************************************************)
EXTENDS Naturals, Sequences, SequencesExt

CONSTANTS Hash(_),    \* NameIndex::Hash
          Order(_)    \* place of a name in the order of strncmp

NoId == 0

\* vRWReverseIndex (or the names of the file) and vRWIndex; vState.
EmptyIndex == [state |-> "rw", names |-> <<>>, index |-> <<>>]

HashAt(x, i) == Hash(x.names[x.index[i]])
OrderAt(x, i) == Order(x.names[x.index[i]])

\* The loop of a search among first .. last - 1: a place where key is want, or the one before which it is to
\* stand.
Halve(key, want, first, last) ==
  LET from[p \in (first..last) \X (first..last)] ==
        LET f == p[1]
            l == p[2]
            center == (f + l) \div 2
        IN  IF l <= f + 1
            THEN l
            ELSE IF key[center] = want
                 THEN center
                 ELSE IF key[center] > want THEN from[<<f, center>>] ELSE from[<<center, l>>]
  IN  from[<<first, last>>]

\* A search whose loop begins when want is known to be inside.
Find(key, want, first, last) ==
  IF key[first] = want
  THEN first
  ELSE IF key[last - 1] = want
       THEN last - 1
       ELSE IF want > key[last - 1]
            THEN last
            ELSE IF want < key[first] THEN first ELSE Halve(key, want, first, last)

\* The search of SearchRO among names with one hash: its comparisons with the ends are never true.
FindRO(key, want, first, last) ==
  IF key[first] = want
  THEN first
  ELSE IF key[last - 1] = want THEN last - 1 ELSE Halve(key, want, first, last)

\* Mutant: the names with the hash begin where the first search has come to.
FirstOfHashFound(x, found) == found

\* The first place with the hash of the one that was found, and the one behind the last.
FirstOfHash(x, found) == CHOOSE i \in 1..found : /\ \A k \in i..found : HashAt(x, k) = HashAt(x, found)
                                                 /\ i > 1 => HashAt(x, i - 1) # HashAt(x, found)
EndOfHash(x, found) ==
  CHOOSE i \in (found + 1)..(Len(x.index) + 1) :
    /\ \A k \in found..(i - 1) : HashAt(x, k) = HashAt(x, found)
    /\ i <= Len(x.index) => HashAt(x, i) # HashAt(x, found)

\* The second search, among the names with the hash.
PlaceAmong(x, name, first, end) ==
  LET orders == [i \in DOMAIN x.index |-> OrderAt(x, i)]
  IN  IF x.state = "rw" THEN Find(orders, Order(name), first, end) ELSE FindRO(orders, Order(name), first, end)

PlaceFrom(x, name, hash) ==
  IF hash > Len(x.index) \/ HashAt(x, hash) # Hash(name)
  THEN hash
  ELSE PlaceAmong(x, name, FirstOfHash(x, hash), EndOfHash(x, hash))

\* SearchRW and SearchRO: the place of the name, or the one where it would have to stand.
Place(x, name) ==
  IF x.index = <<>>
  THEN 1
  ELSE PlaceFrom(x, name, Find([i \in DOMAIN x.index |-> HashAt(x, i)], Hash(name), 1, Len(x.index) + 1))

\* Search: the number of the name, if it is there.
NumberAt(x, name, p) == IF p <= Len(x.index) /\ x.names[x.index[p]] = name THEN x.index[p] ELSE NoId
Lookup(x, name) == NumberAt(x, name, Place(x, name))

\* AddName of a name that is not there.
AddName(x, name) ==
  [x EXCEPT !.names = Append(@, name),
            !.index = InsertAt(@, Place(x, name), Len(x.names) + 1)]

\* Save, and Open of what was saved.
OpenedIndex(x) == [x EXCEPT !.state = "ro"]
===============================================================================
