--------------------------- MODULE Variables_proofs ---------------------------
(***************************************************************************)
(* Proofs about the variables of a session: a registered name is found by  *)
(* its number and a number by its name, whatever hashes collide; a session *)
(* has under every name what was last set under it; and the fields of a    *)
(* variable are the names that extend it, each once, on the chains of the  *)
(* compiler and in the lists the server reads.                             *)
(***************************************************************************)
EXTENDS Variables, WellFoundedInduction, TLAPS, FiniteSetTheorems

-------------------------------------------------------------------------------
(* Induction over the naturals, as a fact about sets.                      *)

LEMMA LeastNatural ==
  ASSUME NEW S \in SUBSET Nat, S # {}
  PROVE  \E n \in S : \A m \in S : n <= m
<1> DEFINE R == OpToRel(<, Nat)
<1>1. IsWellFoundedOn(R, Nat)
  BY NatLessThanWellFounded
<1>2. R = {p \in Nat \X Nat : p[1] < p[2]}
  BY DEF OpToRel
<1> HIDE DEF R
<1>3. \E n \in S : \A m \in S : ~(<<m, n>> \in R)
  BY <1>1, WFMin
<1>4. PICK n \in S : \A m \in S : ~(<<m, n>> \in R)
  BY <1>3
<1>5. ASSUME NEW m \in S PROVE n <= m
  <2>1. m \in Nat /\ n \in Nat
    BY <1>4
  <2>2. <<m, n>> \in Nat \X Nat
    BY <2>1
  <2>3. CASE m < n
    <3>1. <<m, n>>[1] < <<m, n>>[2]
      BY <2>3
    <3>2. <<m, n>> \in R
      BY <1>2, <2>2, <3>1, Zenon
    <3> QED
      BY <1>4, <3>2
  <2> QED
    BY <2>1, <2>3
<1> QED
  BY <1>4, <1>5

LEMMA NaturalSet ==
  ASSUME NEW S, 0 \in S, \A n \in Nat : n \in S => n + 1 \in S
  PROVE  \A n \in Nat : n \in S
<1> SUFFICES ASSUME NEW n \in Nat, n \notin S PROVE FALSE
  OBVIOUS
<1> DEFINE T == Nat \ S
<1>1. PICK m \in T : \A k \in T : m <= k
  BY LeastNatural
<1>2. m # 0 /\ m \in Nat /\ m \notin S
  OBVIOUS
<1>3. m - 1 \in Nat /\ ~(m <= m - 1) /\ (m - 1) + 1 = m
  BY <1>2
<1>4. m - 1 \in S
  BY <1>1, <1>3
<1>5. m \in S
  BY <1>3, <1>4
<1> QED
  BY <1>2, <1>5

-------------------------------------------------------------------------------
(* The binary search of the index.                                         *)

\* The turn of the loop of Halve, when the turns behind it come to g.
HalveTurn(key, want, g, p) ==
  LET f == p[1]
      l == p[2]
      center == (f + l) \div 2
  IN  IF l <= f + 1
      THEN l
      ELSE IF key[center] = want
           THEN center
           ELSE IF key[center] > want THEN g[<<f, center>>] ELSE g[<<center, l>>]

Ranges(first, last) == (first..last) \X (first..last)

\* The loop of Halve has a result for every range: there is a function that every turn agrees with.
LEMMA HalveEnds ==
  ASSUME NEW key, NEW want, NEW first \in Nat, NEW last \in Nat
  PROVE  \E g : /\ g = [p \in Ranges(first, last) |-> HalveTurn(key, want, g, p)]
                /\ Halve(key, want, first, last) = g[<<first, last>>]
<1> DEFINE D == Ranges(first, last)
           Within(d) == {p \in D : p[2] <= p[1] + d}
           Right(g, d) == \A p \in Within(d) : g[p] = HalveTurn(key, want, g, p)
           S == {d \in Nat : \E g : g = [p \in D |-> g[p]] /\ Right(g, d)}
<1>1. 0 \in S
  <2> DEFINE g == [p \in D |-> p[2]]
  <2>1. ASSUME NEW p \in Within(0) PROVE g[p] = HalveTurn(key, want, g, p)
    <3>1. p \in D /\ p[1] \in Int /\ p[2] \in Int /\ p[2] <= p[1]
      BY DEF Ranges
    <3>2. p[2] <= p[1] + 1
      BY <3>1
    <3> QED
      BY <3>1, <3>2 DEF HalveTurn
  <2> QED
    BY <2>1
<1>2. ASSUME NEW d \in Nat, d \in S PROVE d + 1 \in S
  <2>1. PICK g : g = [p \in D |-> g[p]] /\ Right(g, d)
    BY <1>2
  <2> DEFINE h == [p \in D |-> HalveTurn(key, want, g, p)]
  <2>2. ASSUME NEW p \in Within(d) PROVE h[p] = g[p]
    BY <2>1
  <2>3. ASSUME NEW p \in Within(d + 1) PROVE h[p] = HalveTurn(key, want, h, p)
    <3> DEFINE f == p[1]
               l == p[2]
               c == (f + l) \div 2
    <3>1. p \in D /\ f \in first..last /\ l \in first..last /\ l <= f + (d + 1)
      BY DEF Ranges
    <3>2. h[p] = HalveTurn(key, want, g, p)
      BY <3>1
    <3>3. CASE l <= f + 1
      BY <3>2, <3>3 DEF HalveTurn
    <3>4. CASE ~(l <= f + 1)
      <4> HIDE DEF f, l
      <4>1. c \in first..last /\ c <= f + d /\ l <= c + d
        BY <3>1, <3>4
      <4>2. <<f, c>> \in Within(d) /\ <<c, l>> \in Within(d)
        BY <3>1, <4>1 DEF Ranges
      <4>3. h[<<f, c>>] = g[<<f, c>>] /\ h[<<c, l>>] = g[<<c, l>>]
        BY <2>2, <4>2
      <4> HIDE DEF h, c
      <4> QED
        BY <3>2, <4>3, Zenon DEF HalveTurn, f, l, c
    <3> QED
      BY <3>3, <3>4
  <2>4. h = [p \in D |-> h[p]]
    OBVIOUS
  <2> HIDE DEF h
  <2>5. Right(h, d + 1)
    BY <2>3
  <2>6. \E k : k = [p \in D |-> k[p]] /\ Right(k, d + 1)
    BY <2>4, <2>5
  <2> QED
    BY <2>6
<1>3. last \in S
  <2> HIDE DEF S
  <2> QED
    BY <1>1, <1>2, NaturalSet
<1>4. PICK g : g = [p \in D |-> g[p]] /\ Right(g, last)
  BY <1>3
<1>5. ASSUME NEW p \in D PROVE g[p] = HalveTurn(key, want, g, p)
  <2>1. p \in Within(last)
    BY DEF Ranges
  <2> QED
    BY <1>4, <2>1
<1>6. g = [p \in D |-> HalveTurn(key, want, g, p)]
  BY <1>4, <1>5
<1> DEFINE e == CHOOSE k : k = [p \in (first..last) \X (first..last) |-> HalveTurn(key, want, k, p)]
<1>7. Halve(key, want, first, last) = e[<<first, last>>]
  BY Zenon DEF Halve, HalveTurn
<1>8. e = [p \in (first..last) \X (first..last) |-> HalveTurn(key, want, e, p)]
  BY <1>6, Zenon DEF Ranges
<1> HIDE DEF e
<1> QED
  BY <1>7, <1>8 DEF Ranges

Sorted(key, first, last) ==
  /\ \A i \in first..(last - 1) : key[i] \in Nat
  /\ \A i, j \in first..(last - 1) : i <= j => key[i] <= key[j]

IsPlaced(key, want, first, last, i) == i \in first..(last - 1) /\ key[i] = want

IsMissing(key, want, first, last) == \A i \in first..(last - 1) : key[i] # want

\* Everything before r is smaller than what is searched, everything from r on is greater.
Splits(key, want, first, last, r) ==
  /\ \A i \in first..(r - 1) : key[i] < want
  /\ \A i \in r..(last - 1) : key[i] > want

\* What Halve finds in a sorted range: the key, when it is behind the first place, and otherwise the place where
\* it would have to stand, when the first is smaller.
LEMMA HalveFinds ==
  ASSUME NEW key, NEW want \in Nat, NEW first \in Nat, NEW last \in Nat, first < last,
         Sorted(key, first, last)
  PROVE  LET r == Halve(key, want, first, last)
         IN  /\ r \in first..last
             /\ (\E i \in (first + 1)..(last - 1) : key[i] = want) => IsPlaced(key, want, first, last, r)
             /\ key[first] < want /\ IsMissing(key, want, first, last) => Splits(key, want, first, last, r)
<1>1. PICK g : /\ g = [p \in Ranges(first, last) |-> HalveTurn(key, want, g, p)]
               /\ Halve(key, want, first, last) = g[<<first, last>>]
  BY HalveEnds
<1> DEFINE Good(f, l) ==
             LET r == g[<<f, l>>]
             IN  /\ r \in f..l
                 /\ (\E i \in (f + 1)..(l - 1) : key[i] = want) => IsPlaced(key, want, f, l, r)
                 /\ /\ key[f] < want
                    /\ IsMissing(key, want, first, last)
                    /\ \A i \in l..(last - 1) : key[i] > want
                    => Splits(key, want, first, last, r)
           S == {d \in Nat : \A f \in first..last : \A l \in first..last : f < l /\ l <= f + d => Good(f, l)}
<1>2. 0 \in S
  OBVIOUS
<1>3. ASSUME NEW d \in Nat, d \in S PROVE d + 1 \in S
  <2> SUFFICES ASSUME NEW f \in first..last, NEW l \in first..last, f < l, l <= f + (d + 1)
               PROVE  Good(f, l)
    OBVIOUS
  <2> DEFINE r == g[<<f, l>>]
             c == (f + l) \div 2
  <2>0. f \in Nat /\ l \in Nat /\ f \in first..(last - 1)
    OBVIOUS
  <2>1. r = HalveTurn(key, want, g, <<f, l>>)
    <3>1. <<f, l>> \in Ranges(first, last)
      BY DEF Ranges
    <3> QED
      BY <1>1, <3>1, Zenon
  <2>2. r = IF l <= f + 1
            THEN l
            ELSE IF key[c] = want THEN c ELSE IF key[c] > want THEN g[<<f, c>>] ELSE g[<<c, l>>]
    BY <2>1 DEF HalveTurn
  <2>3. CASE l <= f + 1
    <3>1. r = l /\ l = f + 1
      BY <2>0, <2>2, <2>3
    <3>2. ASSUME key[f] < want, \A i \in l..(last - 1) : key[i] > want
          PROVE  Splits(key, want, first, last, r)
      <4>1. ASSUME NEW i \in first..(r - 1) PROVE key[i] < want
        <5>1. i \in first..(last - 1) /\ i <= f
          BY <3>1
        <5>2. key[i] <= key[f] /\ key[i] \in Nat /\ key[f] \in Nat
          BY <2>0, <5>1 DEF Sorted
        <5> QED
          BY <3>2, <5>2
      <4> QED
        BY <3>1, <3>2, <4>1 DEF Splits
    <3> QED
      BY <3>1, <3>2
  <2>4. CASE ~(l <= f + 1)
    <3>1. c \in (f + 1)..(l - 1) /\ c \in first..(last - 1) /\ c \in Nat
      BY <2>0, <2>4
    <3>2. f < c /\ c <= f + d /\ c < l /\ l <= c + d /\ c \in first..last
      BY <2>0, <2>4, <3>1
    <3> HIDE DEF c, Good
    <3>3. Good(f, c) /\ Good(c, l)
      BY <1>3, <3>2
    <3>4. key[c] \in Nat /\ \A i \in first..(last - 1) : key[i] \in Nat
      BY <3>1 DEF Sorted
    <3>5. CASE key[c] = want
      <4>1. r = c
        BY <2>2, <2>4, <3>5
      <4> QED
        BY <3>1, <3>5, <4>1 DEF Good, IsPlaced, IsMissing
    <3>6. CASE key[c] > want
      <4>1. r = g[<<f, c>>]
        BY <2>2, <2>4, <3>4, <3>6
      <4>2. \A i \in c..(last - 1) : key[i] > want
        <5>1. ASSUME NEW i \in c..(last - 1) PROVE key[i] > want
          <6>1. i \in first..(last - 1) /\ c <= i
            BY <3>1
          <6>2. key[c] <= key[i] /\ key[i] \in Nat
            BY <3>1, <6>1 DEF Sorted
          <6> QED
            BY <3>4, <3>6, <6>2
        <5> QED
          BY <5>1
      <4>3. ASSUME NEW i \in (f + 1)..(l - 1), key[i] = want PROVE i \in (f + 1)..(c - 1)
        BY <3>1, <4>2, <4>3, <2>0
      <4>4. r \in f..l
        BY <2>0, <3>1, <3>3, <4>1 DEF Good
      <4>5. (\E i \in (f + 1)..(l - 1) : key[i] = want) => IsPlaced(key, want, f, l, r)
        BY <2>0, <3>1, <3>3, <4>1, <4>3 DEF Good, IsPlaced
      <4> QED
        BY <3>3, <4>1, <4>2, <4>4, <4>5 DEF Good
    <3>7. CASE key[c] < want
      <4>1. r = g[<<c, l>>]
        BY <2>2, <2>4, <3>4, <3>7
      <4>2. ASSUME NEW i \in (f + 1)..(l - 1), key[i] = want PROVE i \in (c + 1)..(l - 1)
        <5>1. i \in first..(last - 1)
          BY <2>0
        <5>2. i <= c => key[i] <= key[c]
          BY <3>1, <5>1 DEF Sorted
        <5> QED
          BY <3>1, <3>4, <3>7, <4>2, <5>2
      <4>3. r \in f..l
        BY <2>0, <3>1, <3>3, <4>1 DEF Good
      <4>4. (\E i \in (f + 1)..(l - 1) : key[i] = want) => IsPlaced(key, want, f, l, r)
        BY <2>0, <3>1, <3>3, <4>1, <4>2 DEF Good, IsPlaced
      <4> QED
        BY <3>3, <3>7, <4>1, <4>3, <4>4 DEF Good
    <3> QED
      BY <3>4, <3>5, <3>6, <3>7
  <2> QED
    BY <2>3, <2>4
<1>4. last \in S
  <2> HIDE DEF S
  <2> QED
    BY <1>2, <1>3, NaturalSet
<1>5. Good(first, last)
  BY <1>4
<1> QED
  BY <1>1, <1>5 DEF IsPlaced

LEMMA FindFinds ==
  ASSUME NEW key, NEW want \in Nat, NEW first \in Nat, NEW last \in Nat, first < last,
         Sorted(key, first, last)
  PROVE  LET r == Find(key, want, first, last)
         IN  /\ r \in first..last
             /\ ~IsMissing(key, want, first, last) => IsPlaced(key, want, first, last, r)
             /\ IsMissing(key, want, first, last) => Splits(key, want, first, last, r)
<1> DEFINE r == Find(key, want, first, last)
           h == Halve(key, want, first, last)
<1>0. first \in first..(last - 1) /\ last - 1 \in first..(last - 1)
  OBVIOUS
<1>1. key[first] \in Nat /\ key[last - 1] \in Nat
  BY <1>0 DEF Sorted
<1>2. CASE key[first] = want
  BY <1>0, <1>2 DEF Find, IsPlaced, IsMissing
<1>3. CASE key[first] # want /\ key[last - 1] = want
  BY <1>0, <1>3 DEF Find, IsPlaced, IsMissing
<1>4. CASE key[first] # want /\ key[last - 1] # want /\ want > key[last - 1]
  <2>1. ASSUME NEW i \in first..(last - 1) PROVE key[i] < want
    <3>1. key[i] <= key[last - 1] /\ key[i] \in Nat
      BY <1>0 DEF Sorted
    <3> QED
      BY <1>1, <1>4, <3>1
  <2>2. r = last
    BY <1>4 DEF Find
  <2>3. IsMissing(key, want, first, last)
    BY <2>1, <1>1 DEF IsMissing, Sorted
  <2> QED
    BY <2>1, <2>2, <2>3 DEF Splits
<1>5. CASE key[first] # want /\ key[last - 1] # want /\ ~(want > key[last - 1]) /\ want < key[first]
  <2>1. ASSUME NEW i \in first..(last - 1) PROVE key[i] > want
    <3>1. key[first] <= key[i] /\ key[i] \in Nat
      BY <1>0 DEF Sorted
    <3> QED
      BY <1>1, <1>5, <3>1
  <2>2. r = first
    BY <1>5 DEF Find
  <2>3. IsMissing(key, want, first, last)
    BY <2>1, <1>1 DEF IsMissing, Sorted
  <2> QED
    BY <2>1, <2>2, <2>3 DEF Splits
<1>6. CASE key[first] # want /\ key[last - 1] # want /\ ~(want > key[last - 1]) /\ ~(want < key[first])
  <2>1. r = h
    BY <1>6 DEF Find
  <2>2. /\ h \in first..last
        /\ (\E i \in (first + 1)..(last - 1) : key[i] = want) => IsPlaced(key, want, first, last, h)
        /\ key[first] < want /\ IsMissing(key, want, first, last) => Splits(key, want, first, last, h)
    BY HalveFinds
  <2>3. key[first] < want
    BY <1>1, <1>6
  <2>4. ASSUME ~IsMissing(key, want, first, last)
        PROVE  \E i \in (first + 1)..(last - 1) : key[i] = want
    BY <1>6, <2>4 DEF IsMissing
  <2> QED
    BY <2>1, <2>2, <2>3, <2>4
<1> QED
  BY <1>1, <1>2, <1>3, <1>4, <1>5, <1>6

LEMMA FindROFinds ==
  ASSUME NEW key, NEW want \in Nat, NEW first \in Nat, NEW last \in Nat, first < last,
         Sorted(key, first, last)
  PROVE  LET r == FindRO(key, want, first, last)
         IN  /\ r \in first..last
             /\ ~IsMissing(key, want, first, last) => IsPlaced(key, want, first, last, r)
<1> DEFINE h == Halve(key, want, first, last)
<1>1. /\ h \in first..last
      /\ (\E i \in (first + 1)..(last - 1) : key[i] = want) => IsPlaced(key, want, first, last, h)
  BY HalveFinds
<1>2. CASE key[first] = want \/ key[last - 1] = want
  BY <1>2 DEF FindRO, IsPlaced
<1>3. CASE key[first] # want /\ key[last - 1] # want
  <2>1. FindRO(key, want, first, last) = h
    BY <1>3 DEF FindRO
  <2>2. ASSUME ~IsMissing(key, want, first, last)
        PROVE  \E i \in (first + 1)..(last - 1) : key[i] = want
    BY <1>3, <2>2 DEF IsMissing
  <2> QED
    BY <1>1, <2>1, <2>2
<1> QED
  BY <1>2, <1>3

-------------------------------------------------------------------------------
(* The index of names.                                                     *)

\* The order the index is kept in.
Before(m, n) == Hash(m) < Hash(n) \/ (Hash(m) = Hash(n) /\ Order(m) < Order(n))

\* The name at a place of the index.
At(x, i) == x.names[x.index[i]]

\* An index has the numbers of its names, each once, in the order of the names.
Sound(x) ==
  /\ x \in [state : {"rw", "ro"}, names : Seq(Names), index : Seq(Nat)]
  /\ Len(x.index) = Len(x.names)
  /\ \A i \in 1..Len(x.index) : x.index[i] \in 1..Len(x.names)
  /\ \A id \in 1..Len(x.names) : \E i \in 1..Len(x.index) : x.index[i] = id
  /\ \A i, j \in 1..Len(x.index) : i < j => Before(At(x, i), At(x, j))

\* Place of a name: where it is, or, while the index is built, where it has to stand.
IsPlace(x, name, p) ==
  /\ p \in 1..(Len(x.index) + 1)
  /\ (\E i \in 1..Len(x.index) : At(x, i) = name) => p <= Len(x.index) /\ At(x, p) = name
  /\ (\A i \in 1..Len(x.index) : At(x, i) # name) /\ x.state = "rw" =>
       /\ \A i \in 1..(p - 1) : Before(At(x, i), name)
       /\ \A i \in p..Len(x.index) : Before(name, At(x, i))

LEMMA IndexTypes ==
  ASSUME NEW x, Sound(x)
  PROVE  /\ Len(x.index) \in Nat
         /\ Len(x.names) = Len(x.index)
         /\ \A id \in 1..Len(x.names) : x.names[id] \in Names
         /\ \A k \in 1..Len(x.index) :
              /\ x.index[k] \in 1..Len(x.names)
              /\ At(x, k) \in Names
              /\ HashAt(x, k) = Hash(At(x, k)) /\ HashAt(x, k) \in Nat
              /\ OrderAt(x, k) = Order(At(x, k)) /\ OrderAt(x, k) \in Nat
<1>1. x.index \in Seq(Nat) /\ x.names \in Seq(Names) /\ Len(x.index) = Len(x.names)
  BY DEF Sound
<1>2. \A id \in 1..Len(x.names) : x.names[id] \in Names
  BY <1>1
<1>3. ASSUME NEW k \in 1..Len(x.index)
      PROVE  /\ x.index[k] \in 1..Len(x.names)
             /\ At(x, k) \in Names
             /\ HashAt(x, k) = Hash(At(x, k)) /\ HashAt(x, k) \in Nat
             /\ OrderAt(x, k) = Order(At(x, k)) /\ OrderAt(x, k) \in Nat
  <2>1. x.index[k] \in 1..Len(x.names)
    BY DEF Sound
  <2>2. At(x, k) \in Names
    BY <1>2, <2>1 DEF At
  <2>3. HashAt(x, k) = Hash(At(x, k)) /\ OrderAt(x, k) = Order(At(x, k))
    BY DEF HashAt, OrderAt, At
  <2> QED
    BY <2>1, <2>2, <2>3, NamesAreOrdered
<1> QED
  BY <1>1, <1>2, <1>3

\* The names with one hash are together, and FirstOfHash and EndOfHash are their ends.
LEMMA HashesAreTogether ==
  ASSUME NEW x, Sound(x), NEW found \in 1..Len(x.index)
  PROVE  LET first == FirstOfHash(x, found)
             end == EndOfHash(x, found)
         IN  /\ first \in 1..found /\ end \in (found + 1)..(Len(x.index) + 1)
             /\ \A k \in first..(end - 1) : HashAt(x, k) = HashAt(x, found)
             /\ \A k \in 1..(first - 1) : HashAt(x, k) < HashAt(x, found)
             /\ \A k \in end..Len(x.index) : HashAt(x, k) > HashAt(x, found)
<1> DEFINE n == Len(x.index)
           H(k) == HashAt(x, k)
           IsFirst(i) == /\ \A k \in i..found : H(k) = H(found)
                         /\ i > 1 => H(i - 1) # H(found)
           IsEnd(i) == /\ \A k \in found..(i - 1) : H(k) = H(found)
                       /\ i <= n => H(i) # H(found)
<1>1. n \in Nat /\ \A k \in 1..n : H(k) \in Nat
  BY IndexTypes
<1>2. \A i, j \in 1..n : i <= j => H(i) <= H(j)
  <2>1. ASSUME NEW i \in 1..n, NEW j \in 1..n, i < j PROVE H(i) <= H(j)
    <3>1. Before(At(x, i), At(x, j))
      BY <2>1 DEF Sound
    <3>2. H(i) = Hash(At(x, i)) /\ H(j) = Hash(At(x, j))
      BY IndexTypes
    <3> QED
      BY <1>1, <3>1, <3>2 DEF Before
  <2>2. ASSUME NEW i \in 1..n, NEW j \in 1..n, i <= j PROVE H(i) <= H(j)
    <3>1. i = j \/ i < j
      BY <1>1, <2>2
    <3>2. H(i) \in Nat
      BY <1>1
    <3> HIDE DEF H
    <3> QED
      BY <2>1, <3>1, <3>2
  <2> QED
    BY <2>2
<1> HIDE DEF H, n
<1>3. \E i \in 1..found : IsFirst(i)
  <2> DEFINE T == {i \in 1..found : \A k \in i..found : H(k) = H(found)}
  <2>1. found \in T /\ T \in SUBSET Nat
    BY <1>1 DEF n
  <2>2. PICK i \in T : \A m \in T : i <= m
    BY <2>1, LeastNatural
  <2>3. ASSUME i > 1, H(i - 1) = H(found) PROVE FALSE
    <3>1. i - 1 \in 1..found /\ i - 1 \notin T
      BY <2>2, <2>3
    <3>2. \A k \in (i - 1)..found : k = i - 1 \/ k \in i..found
      BY <2>2
    <3> QED
      BY <2>2, <2>3, <3>1, <3>2
  <2> QED
    BY <2>2, <2>3
<1>4. \E i \in (found + 1)..(n + 1) : IsEnd(i)
  <2> DEFINE T == {i \in (found + 1)..n : H(i) # H(found)} \union {n + 1}
  <2>1. T \in SUBSET Nat /\ T # {}
    BY <1>1 DEF n
  <2>2. PICK i \in T : \A m \in T : i <= m
    BY <2>1, LeastNatural
  <2>3. i \in (found + 1)..(n + 1)
    BY <1>1, <2>2 DEF n
  <2>4. ASSUME NEW k \in found..(i - 1) PROVE H(k) = H(found)
    <3>1. CASE k = found
      BY <3>1
    <3>2. CASE k # found
      <4>1. k \in (found + 1)..n /\ ~(i <= k)
        BY <1>1, <2>3, <3>2 DEF n
      <4> QED
        BY <2>2, <4>1
    <3> QED
      BY <3>1, <3>2
  <2>5. i <= n => H(i) # H(found)
    BY <1>1, <2>2, <2>3
  <2> QED
    BY <2>3, <2>4, <2>5
<1> DEFINE first == FirstOfHash(x, found)
           end == EndOfHash(x, found)
<1>5. first = CHOOSE i \in 1..found : IsFirst(i)
  BY DEF FirstOfHash, H
<1>6. end = CHOOSE i \in (found + 1)..(n + 1) : IsEnd(i)
  BY DEF EndOfHash, H, n
<1> HIDE DEF first, end
<1>7. first \in 1..found /\ IsFirst(first)
  BY <1>3, <1>5
<1>8. end \in (found + 1)..(n + 1) /\ IsEnd(end)
  BY <1>4, <1>6
<1>9. found \in 1..n
  BY DEF n
<1>10. ASSUME NEW k \in 1..(first - 1) PROVE H(k) < H(found)
  <2>1. first - 1 \in 1..n /\ k \in 1..n /\ k <= first - 1 /\ first - 1 <= found /\ first > 1
    BY <1>1, <1>7, <1>9
  <2>2. H(k) <= H(first - 1) /\ H(first - 1) <= H(found) /\ H(first - 1) # H(found)
    BY <1>2, <1>7, <1>9, <2>1
  <2> QED
    BY <1>1, <1>9, <2>1, <2>2
<1>11. ASSUME NEW k \in end..n PROVE H(k) > H(found)
  <2>1. end \in 1..n /\ k \in 1..n /\ end <= k /\ found <= end
    BY <1>1, <1>8, <1>9
  <2>2. H(end) <= H(k) /\ H(found) <= H(end) /\ H(end) # H(found)
    BY <1>2, <1>8, <1>9, <2>1
  <2> QED
    BY <1>1, <1>9, <2>1, <2>2
<1>12. ASSUME NEW k \in first..(end - 1) PROVE H(k) = H(found)
  BY <1>7, <1>8, <1>9, <1>1
<1> QED
  BY <1>7, <1>8, <1>10, <1>11, <1>12 DEF first, end, H, n

LEMMA PlaceIsPlace ==
  ASSUME NEW x, Sound(x), NEW name \in Names
  PROVE  IsPlace(x, name, Place(x, name))
<1> DEFINE n == Len(x.index)
           H(k) == HashAt(x, k)
           want == Hash(name)
           hashes == [i \in DOMAIN x.index |-> HashAt(x, i)]
           orders == [i \in DOMAIN x.index |-> OrderAt(x, i)]
           found == Find(hashes, want, 1, n + 1)
           first == FirstOfHash(x, found)
           end == EndOfHash(x, found)
           place == Place(x, name)
<1>1. /\ n \in Nat /\ DOMAIN x.index = 1..n
      /\ \A k \in 1..n : /\ HashAt(x, k) \in Nat /\ HashAt(x, k) = Hash(At(x, k))
                         /\ OrderAt(x, k) \in Nat /\ OrderAt(x, k) = Order(At(x, k))
                         /\ At(x, k) \in Names
  <2>1. x.index \in Seq(Nat)
    BY DEF Sound
  <2> QED
    BY <2>1, IndexTypes
<1>2. want \in Nat /\ Order(name) \in Nat
  BY NamesAreOrdered
<1>3. \A i, j \in 1..n : i < j => Before(At(x, i), At(x, j))
  BY DEF Sound
<1>4. place = IF x.index = <<>>
              THEN 1
              ELSE IF found > n \/ HashAt(x, found) # want
                   THEN found
                   ELSE IF x.state = "rw"
                        THEN Find(orders, Order(name), first, end)
                        ELSE FindRO(orders, Order(name), first, end)
  BY Zenon DEF Place, PlaceFrom, PlaceAmong
<1>5. x.state \in {"rw", "ro"} /\ (n = 0 <=> x.index = <<>>)
  <2>1. x.index \in Seq(Nat) /\ x.state \in {"rw", "ro"}
    BY DEF Sound
  <2> QED
    BY <2>1
<1> HIDE DEF n, want, place
<1>6. CASE n = 0
  <2>1. place = 1
    BY <1>4, <1>5, <1>6, Zenon
  <2> QED
    BY <1>6, <2>1 DEF IsPlace, place, n
<1>7. CASE n # 0
  <2>1. \A i \in 1..n : hashes[i] = HashAt(x, i) /\ orders[i] = OrderAt(x, i)
    BY <1>1
  <2> HIDE DEF hashes, orders
  <2>2. Sorted(hashes, 1, n + 1)
    <3>1. (n + 1) - 1 = n
      BY <1>1
    <3>2. ASSUME NEW i \in 1..n, NEW j \in 1..n, i <= j PROVE hashes[i] <= hashes[j]
      <4>1. CASE i = j
        BY <1>1, <2>1, <4>1
      <4>2. CASE i < j
        BY <1>1, <1>3, <2>1, <4>2 DEF Before
      <4> QED
        BY <1>1, <3>2, <4>1, <4>2
    <3> QED
      BY <1>1, <2>1, <3>1, <3>2 DEF Sorted
  <2>3. /\ found \in 1..(n + 1)
        /\ ~IsMissing(hashes, want, 1, n + 1) => IsPlaced(hashes, want, 1, n + 1, found)
        /\ IsMissing(hashes, want, 1, n + 1) => Splits(hashes, want, 1, n + 1, found)
    <3>1. 1 \in Nat /\ n + 1 \in Nat /\ 1 < n + 1
      BY <1>1, <1>7
    <3> QED
      BY <1>2, <2>2, <3>1, FindFinds
  <2> HIDE DEF found
  <2>4. CASE found > n \/ HashAt(x, found) # want
    <3>1. place = found
      BY <1>4, <1>5, <1>7, <2>4, Zenon
    <3>2. IsMissing(hashes, want, 1, n + 1)
      BY <1>1, <2>1, <2>3, <2>4 DEF IsPlaced
    <3>3. \A i \in 1..n : hashes[i] # want
      BY <1>1, <3>2 DEF IsMissing
    <3>4. \A i \in 1..n : At(x, i) # name
      BY <1>1, <2>1, <3>3 DEF want
    <3>5. Splits(hashes, want, 1, n + 1, found)
      BY <2>3, <3>2
    <3>6. ASSUME NEW i \in 1..(found - 1) PROVE Before(At(x, i), name)
      <4>1. i \in 1..n
        BY <1>1, <2>3
      <4>2. hashes[i] < want
        BY <3>5 DEF Splits
      <4> QED
        BY <1>1, <2>1, <4>1, <4>2 DEF Before, want
    <3>7. ASSUME NEW i \in found..n PROVE Before(name, At(x, i))
      <4>1. i \in 1..n /\ i \in found..((n + 1) - 1)
        BY <1>1, <2>3
      <4>2. hashes[i] > want
        BY <3>5, <4>1 DEF Splits
      <4> QED
        BY <1>1, <1>2, <2>1, <4>1, <4>2 DEF Before, want
    <3> QED
      BY <2>3, <3>1, <3>4, <3>6, <3>7 DEF IsPlace, n, place
  <2>5. CASE ~(found > n \/ HashAt(x, found) # want)
    <3>1. found \in 1..n /\ HashAt(x, found) = want
      BY <1>1, <2>3, <2>5
    <3>2. /\ first \in 1..found /\ end \in (found + 1)..(n + 1)
          /\ \A k \in first..(end - 1) : HashAt(x, k) = want
          /\ \A k \in 1..(first - 1) : HashAt(x, k) < want
          /\ \A k \in end..n : HashAt(x, k) > want
      BY <3>1, HashesAreTogether DEF n
    <3> HIDE DEF first, end
    <3>3. first \in Nat /\ end \in Nat /\ first < end
      BY <3>1, <3>2
    <3>4. \A i \in first..(end - 1) : i \in 1..n
      BY <1>1, <3>2
    <3>5. Sorted(orders, first, end)
      <4>1. ASSUME NEW i \in first..(end - 1), NEW j \in first..(end - 1), i <= j
            PROVE  orders[i] <= orders[j]
        <5>1. CASE i = j
          BY <1>1, <2>1, <3>4, <5>1
        <5>2. CASE i < j
          <6>1. Before(At(x, i), At(x, j)) /\ Hash(At(x, i)) = want /\ Hash(At(x, j)) = want
            BY <1>1, <1>3, <3>2, <3>4, <5>2
          <6> QED
            BY <1>1, <1>2, <2>1, <3>4, <6>1 DEF Before
        <5> QED
          BY <3>3, <4>1, <5>1, <5>2
      <4> QED
        BY <1>1, <2>1, <3>4, <4>1 DEF Sorted
    <3>6. /\ place \in first..end
          /\ ~IsMissing(orders, Order(name), first, end)
               => IsPlaced(orders, Order(name), first, end, place)
          /\ x.state = "rw" /\ IsMissing(orders, Order(name), first, end)
               => Splits(orders, Order(name), first, end, place)
      <4>1. CASE x.state = "rw"
        <5>1. place = Find(orders, Order(name), first, end)
          BY <1>4, <1>5, <1>7, <2>5, <4>1, Zenon
        <5> QED
          BY <1>2, <3>3, <3>5, <5>1, FindFinds
      <4>2. CASE x.state # "rw"
        <5>1. place = FindRO(orders, Order(name), first, end)
          BY <1>4, <1>5, <1>7, <2>5, <4>2, Zenon
        <5> QED
          BY <1>2, <3>3, <3>5, <4>2, <5>1, FindROFinds
      <4> QED
        BY <4>1, <4>2
    <3>7. place \in 1..(n + 1)
      BY <1>1, <3>1, <3>2, <3>3, <3>6
    <3>8. ASSUME NEW i \in 1..n, At(x, i) = name PROVE place <= n /\ At(x, place) = name
      <4>1. HashAt(x, i) = want /\ orders[i] = Order(name)
        BY <1>1, <2>1, <3>8 DEF want
      <4>2. i \in first..(end - 1)
        BY <1>1, <1>2, <3>2, <3>3, <4>1
      <4>3. IsPlaced(orders, Order(name), first, end, place)
        BY <3>6, <4>1, <4>2 DEF IsMissing
      <4>4. place \in 1..n /\ place \in first..(end - 1) /\ orders[place] = Order(name)
        BY <3>4, <4>3 DEF IsPlaced
      <4>5. Hash(At(x, place)) = want /\ Order(At(x, place)) = Order(name)
        BY <1>1, <2>1, <3>2, <4>4
      <4> QED
        BY <1>1, <4>4, <4>5, NamesAreOrdered DEF want
    <3>9. ASSUME \A i \in 1..n : At(x, i) # name, x.state = "rw"
          PROVE  /\ \A i \in 1..(place - 1) : Before(At(x, i), name)
                 /\ \A i \in place..n : Before(name, At(x, i))
      <4>1. IsMissing(orders, Order(name), first, end)
        <5>1. ASSUME NEW i \in first..(end - 1), orders[i] = Order(name) PROVE FALSE
          <6>1. Hash(At(x, i)) = Hash(name) /\ Order(At(x, i)) = Order(name) /\ At(x, i) \in Names
            BY <1>1, <2>1, <3>2, <3>4, <5>1 DEF want
          <6>2. At(x, i) = name
            BY <6>1, NamesAreOrdered
          <6> QED
            BY <3>4, <3>9, <6>2
        <5> QED
          BY <5>1 DEF IsMissing
      <4>2. Splits(orders, Order(name), first, end, place)
        BY <3>6, <3>9, <4>1
      <4>3. ASSUME NEW i \in 1..(place - 1) PROVE Before(At(x, i), name)
        <5>1. i \in 1..n
          BY <1>1, <3>7
        <5>2. CASE i < first
          <6>1. i \in 1..(first - 1)
            BY <3>3, <5>1, <5>2
          <6> QED
            BY <1>1, <3>2, <5>1, <6>1 DEF Before, want
        <5>3. CASE ~(i < first)
          <6>1. i \in first..(place - 1) /\ i \in first..(end - 1)
            BY <3>3, <3>6, <3>7, <5>1, <5>3
          <6>2. orders[i] < Order(name) /\ HashAt(x, i) = want
            BY <3>2, <4>2, <6>1 DEF Splits
          <6> QED
            BY <1>1, <2>1, <5>1, <6>2 DEF Before, want
        <5> QED
          BY <5>2, <5>3
      <4>4. ASSUME NEW i \in place..n PROVE Before(name, At(x, i))
        <5>1. i \in 1..n
          BY <1>1, <3>7
        <5>2. CASE i >= end
          <6>1. i \in end..n
            BY <1>1, <3>3, <5>1, <5>2
          <6> QED
            BY <1>1, <1>2, <3>2, <5>1, <6>1 DEF Before, want
        <5>3. CASE ~(i >= end)
          <6>1. i \in place..(end - 1) /\ i \in first..(end - 1)
            BY <3>3, <3>6, <3>7, <5>1, <5>3
          <6>2. orders[i] > Order(name) /\ HashAt(x, i) = want
            BY <3>2, <4>2, <6>1 DEF Splits
          <6> QED
            BY <1>1, <1>2, <2>1, <5>1, <6>2 DEF Before, want
        <5> QED
          BY <5>2, <5>3
      <4> QED
        BY <4>3, <4>4
    <3> QED
      BY <3>7, <3>8, <3>9 DEF IsPlace, n, place
  <2> QED
    BY <2>4, <2>5
<1> QED
  BY <1>6, <1>7 DEF place

HasName(x, name) == \E id \in 1..Len(x.names) : x.names[id] = name

\* A name has one place, and is at one place of the index.
LEMMA NamesAreDistinct ==
  ASSUME NEW x, Sound(x), NEW a \in 1..Len(x.names), NEW b \in 1..Len(x.names), x.names[a] = x.names[b]
  PROVE  a = b
<1>1. PICK i \in 1..Len(x.index) : x.index[i] = a
  BY DEF Sound
<1>2. PICK j \in 1..Len(x.index) : x.index[j] = b
  BY DEF Sound
<1>3. At(x, i) = At(x, j) /\ At(x, i) \in Names /\ Len(x.index) \in Nat
  BY <1>1, <1>2, IndexTypes DEF At
<1>4. ~Before(At(x, i), At(x, j)) /\ ~Before(At(x, j), At(x, i))
  BY <1>3, NamesAreOrdered DEF Before
<1>5. i = j
  BY <1>3, <1>4 DEF Sound
<1> QED
  BY <1>1, <1>2, <1>5

\* Search of the index: the number of a name that is there, and no number for another.
LEMMA LookupFinds ==
  ASSUME NEW x, Sound(x), NEW name \in Names
  PROVE  /\ HasName(x, name) => Lookup(x, name) \in 1..Len(x.names) /\ x.names[Lookup(x, name)] = name
         /\ ~HasName(x, name) => Lookup(x, name) = NoId
<1> DEFINE p == Place(x, name)
<1>1. IsPlace(x, name, p)
  BY PlaceIsPlace
<1>2. Lookup(x, name) = IF p <= Len(x.index) /\ x.names[x.index[p]] = name THEN x.index[p] ELSE NoId
  BY DEF Lookup, NumberAt
<1> HIDE DEF p
<1>3. ASSUME p <= Len(x.index) PROVE x.index[p] \in 1..Len(x.names)
  BY <1>1, <1>3, IndexTypes DEF IsPlace
<1>4. ASSUME HasName(x, name) PROVE p <= Len(x.index) /\ x.names[x.index[p]] = name
  <2>1. PICK id \in 1..Len(x.names) : x.names[id] = name
    BY <1>4 DEF HasName
  <2>2. PICK i \in 1..Len(x.index) : x.index[i] = id
    BY DEF Sound
  <2> QED
    BY <1>1, <2>1, <2>2 DEF IsPlace, At
<1> QED
  BY <1>2, <1>3, <1>4 DEF HasName

\* Sequence t is s with e at place p.
IsInserted(t, s, p, e) ==
  /\ Len(t) = Len(s) + 1
  /\ t[p] = e
  /\ \A i \in 1..(p - 1) : t[i] = s[i]
  /\ \A i \in (p + 1)..(Len(s) + 1) : t[i] = s[i - 1]

LEMMA Inserted ==
  ASSUME NEW S, NEW s \in Seq(S), NEW p \in 1..(Len(s) + 1), NEW e \in S
  PROVE  InsertAt(s, p, e) \in Seq(S) /\ IsInserted(InsertAt(s, p, e), s, p, e)
<1> DEFINE t == InsertAt(s, p, e)
           a == SubSeq(s, 1, p - 1)
           b == SubSeq(s, p, Len(s))
<1>1. t = a \o <<e>> \o b
  BY DEF InsertAt
<1>2. a \in Seq(S) /\ Len(a) = p - 1 /\ \A i \in 1..(p - 1) : a[i] = s[i]
  OBVIOUS
<1>3. /\ b \in Seq(S) /\ Len(b) = (Len(s) - p) + 1
      /\ \A i \in 1..((Len(s) - p) + 1) : b[i] = s[(i + p) - 1]
  OBVIOUS
<1> HIDE DEF t, a, b
<1> DEFINE c == a \o <<e>>
<1>4. c \in Seq(S) /\ Len(c) = p /\ c[p] = e /\ \A i \in 1..(p - 1) : c[i] = s[i]
  BY <1>2
<1>5. t = c \o b
  BY <1>1
<1> HIDE DEF c
<1>6. t \in Seq(S) /\ Len(t) = Len(c) + Len(b) /\ \A i \in 1..Len(c) : t[i] = c[i]
  <2>1. c \in Seq(S) /\ b \in Seq(S)
    BY <1>3, <1>4
  <2> QED
    BY <1>5, <2>1
<1>7. \A i \in (p + 1)..(p + Len(b)) : t[i] = b[i - p]
  <2>1. c \in Seq(S) /\ b \in Seq(S) /\ Len(c) = p /\ p \in Nat
    BY <1>3, <1>4
  <2>2. \A i \in (Len(c) + 1)..(Len(c) + Len(b)) : t[i] = b[i - Len(c)]
    BY <1>5, <2>1
  <2> QED
    BY <2>1, <2>2
<1>8. ASSUME NEW i \in (p + 1)..(Len(s) + 1) PROVE t[i] = s[i - 1]
  <2>1. i - p \in 1..((Len(s) - p) + 1) /\ ((i - p) + p) - 1 = i - 1
    OBVIOUS
  <2> QED
    BY <1>3, <1>7, <2>1
<1> QED
  BY <1>3, <1>4, <1>6, <1>8 DEF t, IsInserted

\* A name that is not there is added behind the others, and the index stays in order.
LEMMA AddNameKeeps ==
  ASSUME NEW x, Sound(x), x.state = "rw", NEW name \in Names, ~HasName(x, name)
  PROVE  /\ Sound(AddName(x, name))
         /\ AddName(x, name).state = "rw"
         /\ AddName(x, name).names = Append(x.names, name)
<1> DEFINE y == AddName(x, name)
           n == Len(x.names)
           p == Place(x, name)
<1>1. /\ x \in [state : {"rw", "ro"}, names : Seq(Names), index : Seq(Nat)]
      /\ Len(x.index) = n /\ n \in Nat
      /\ \A i \in 1..n : x.index[i] \in 1..n /\ At(x, i) \in Names
      /\ \A id \in 1..n : \E i \in 1..n : x.index[i] = id
      /\ \A i, j \in 1..n : i < j => Before(At(x, i), At(x, j))
  BY IndexTypes DEF Sound
<1>2. /\ p \in 1..(n + 1)
      /\ \A i \in 1..(p - 1) : Before(At(x, i), name)
      /\ \A i \in p..n : Before(name, At(x, i))
  <2>1. \A i \in 1..n : At(x, i) # name
    BY <1>1 DEF HasName, At
  <2> QED
    BY <1>1, <2>1, PlaceIsPlace DEF IsPlace
<1>3. /\ y = [state |-> "rw", names |-> Append(x.names, name), index |-> InsertAt(x.index, p, n + 1)]
  <2>1. x = [state |-> "rw", names |-> x.names, index |-> x.index]
    BY <1>1
  <2> HIDE DEF p
  <2>2. y = [x EXCEPT !.names = Append(@, name), !.index = InsertAt(@, p, n + 1)]
    BY DEF AddName, p
  <2> QED
    BY <2>1, <2>2, Zenon
<1>4. /\ y.state = "rw" /\ y.names = Append(x.names, name) /\ y.index = InsertAt(x.index, p, n + 1)
      /\ y.names \in Seq(Names) /\ Len(y.names) = n + 1
      /\ y.names[n + 1] = name /\ \A id \in 1..n : y.names[id] = x.names[id]
  BY <1>1, <1>3
<1> HIDE DEF y, p
<1>5. /\ y.index \in Seq(Nat) /\ Len(y.index) = n + 1
      /\ y.index[p] = n + 1
      /\ \A i \in 1..(p - 1) : y.index[i] = x.index[i]
      /\ \A i \in (p + 1)..(n + 1) : y.index[i] = x.index[i - 1]
  <2> HIDE DEF n
  <2>1. x.index \in Seq(Nat) /\ n + 1 \in Nat /\ p \in 1..(Len(x.index) + 1)
    BY <1>1, <1>2
  <2>2. InsertAt(x.index, p, n + 1) \in Seq(Nat) /\ IsInserted(InsertAt(x.index, p, n + 1), x.index, p, n + 1)
    BY <2>1, Inserted
  <2>3. y.index = InsertAt(x.index, p, n + 1) /\ Len(x.index) = n
    BY <1>1, <1>4
  <2>4. y.index \in Seq(Nat) /\ IsInserted(y.index, x.index, p, n + 1)
    BY <2>2, <2>3
  <2> QED
    BY <2>3, <2>4 DEF IsInserted
<1> HIDE DEF n
<1>6. At(y, p) = name
  BY <1>4, <1>5 DEF At
<1>7. ASSUME NEW i \in 1..(p - 1) PROVE y.index[i] \in 1..n /\ At(y, i) = At(x, i) /\ i \in 1..n
  <2>1. i \in 1..n
    BY <1>1, <1>2
  <2>2. y.index[i] = x.index[i] /\ x.index[i] \in 1..n
    BY <1>1, <1>5, <2>1
  <2>3. y.names[y.index[i]] = x.names[y.index[i]]
    BY <1>4, <2>2
  <2> QED
    BY <2>1, <2>2, <2>3 DEF At
<1>8. ASSUME NEW i \in (p + 1)..(n + 1)
      PROVE  y.index[i] \in 1..n /\ At(y, i) = At(x, i - 1) /\ i - 1 \in p..n /\ i - 1 \in 1..n
  <2>1. i - 1 \in 1..n /\ i - 1 \in p..n
    BY <1>1, <1>2
  <2>2. y.index[i] = x.index[i - 1] /\ x.index[i - 1] \in 1..n
    BY <1>1, <1>5, <2>1
  <2>3. y.names[y.index[i]] = x.names[y.index[i]]
    BY <1>4, <2>2
  <2> QED
    BY <2>1, <2>2, <2>3 DEF At
<1>9. \A i \in 1..(n + 1) : i \in 1..(p - 1) \/ i = p \/ i \in (p + 1)..(n + 1)
  BY <1>1, <1>2
<1>10. ASSUME NEW i \in 1..(n + 1) PROVE y.index[i] \in 1..(n + 1)
  <2>1. n + 1 \in 1..(n + 1) /\ \A k \in 1..n : k \in 1..(n + 1)
    BY <1>1
  <2> QED
    BY <1>5, <1>7, <1>8, <1>9, <2>1
<1>11. ASSUME NEW id \in 1..(n + 1) PROVE \E i \in 1..(n + 1) : y.index[i] = id
  <2>1. CASE id = n + 1
    BY <1>1, <1>2, <1>5, <2>1
  <2>2. CASE id # n + 1
    <3>1. id \in 1..n
      BY <1>1, <2>2
    <3>2. PICK i \in 1..n : x.index[i] = id
      BY <1>1, <3>1
    <3>3. CASE i < p
      <4>1. i \in 1..(p - 1) /\ i \in 1..(n + 1)
        BY <1>1, <1>2, <3>3
      <4> QED
        BY <1>5, <3>2, <4>1
    <3>4. CASE ~(i < p)
      <4>1. i + 1 \in (p + 1)..(n + 1) /\ i + 1 \in 1..(n + 1) /\ (i + 1) - 1 = i
        BY <1>1, <1>2, <3>4
      <4> QED
        BY <1>5, <3>2, <4>1
    <3> QED
      BY <3>3, <3>4
  <2> QED
    BY <2>1, <2>2
<1>12. ASSUME NEW i \in 1..(n + 1), NEW j \in 1..(n + 1), i < j PROVE Before(At(y, i), At(y, j))
  <2>1. CASE i \in 1..(p - 1) /\ j \in 1..(p - 1)
    BY <1>1, <1>7, <1>12, <2>1
  <2>2. CASE i \in 1..(p - 1) /\ j = p
    BY <1>2, <1>6, <1>7, <2>2
  <2>3. CASE i \in 1..(p - 1) /\ j \in (p + 1)..(n + 1)
    <3>1. j - 1 \in 1..n /\ i \in 1..n /\ i < j - 1
      BY <1>2, <1>7, <1>8, <2>3
    <3> QED
      BY <1>1, <1>7, <1>8, <2>3, <3>1
  <2>4. CASE i = p /\ j \in (p + 1)..(n + 1)
    BY <1>2, <1>6, <1>8, <2>4
  <2>5. CASE i \in (p + 1)..(n + 1) /\ j \in (p + 1)..(n + 1)
    <3>1. j - 1 \in 1..n /\ i - 1 \in 1..n /\ i - 1 < j - 1
      BY <1>8, <1>12, <2>5
    <3> QED
      BY <1>1, <1>8, <2>5, <3>1
  <2>6. \/ i \in 1..(p - 1)
        \/ i = p /\ j \in (p + 1)..(n + 1)
        \/ i \in (p + 1)..(n + 1) /\ j \in (p + 1)..(n + 1)
    BY <1>1, <1>2, <1>12
  <2> QED
    BY <1>9, <2>1, <2>2, <2>3, <2>4, <2>5, <2>6
<1> QED
  <2>1. y \in [state : {"rw", "ro"}, names : Seq(Names), index : Seq(Nat)]
    BY <1>3, <1>4, <1>5
  <2> QED
    BY <1>4, <1>5, <1>10, <1>11, <1>12, <2>1 DEF Sound, y

LEMMA OpenedIsSound ==
  ASSUME NEW x, Sound(x)
  PROVE  Sound(OpenedIndex(x)) /\ OpenedIndex(x).names = x.names
<1> DEFINE y == OpenedIndex(x)
<1>1. x \in [state : {"rw", "ro"}, names : Seq(Names), index : Seq(Nat)]
  BY DEF Sound
<1>2. /\ y \in [state : {"rw", "ro"}, names : Seq(Names), index : Seq(Nat)]
      /\ y.names = x.names /\ y.index = x.index
  BY <1>1 DEF OpenedIndex
<1>3. \A i : At(y, i) = At(x, i)
  BY <1>2 DEF At
<1> HIDE DEF y
<1>4. /\ Len(x.index) = Len(x.names)
      /\ \A i \in 1..Len(x.index) : x.index[i] \in 1..Len(x.names)
      /\ \A id \in 1..Len(x.names) : \E i \in 1..Len(x.index) : x.index[i] = id
      /\ \A i, j \in 1..Len(x.index) : i < j => Before(At(x, i), At(x, j))
  BY DEF Sound
<1>5. \A i, j \in 1..Len(y.index) : i < j => Before(At(y, i), At(y, j))
  BY <1>2, <1>3, <1>4
<1>6. Sound(y)
  BY <1>2, <1>4, <1>5 DEF Sound
<1> QED
  BY <1>2, <1>6 DEF y

LEMMA EmptyIsSound == Sound(EmptyIndex) /\ EmptyIndex.names = <<>> /\ EmptyIndex.state = "rw"
BY DEF Sound, EmptyIndex

-------------------------------------------------------------------------------
(* The registry.                                                           *)

\* What the compiler builds has these parts.
Shaped(r) == r = [vars |-> r.vars, nodes |-> r.nodes, map |-> r.map]

\* A registry has no name of its base.
Apart(r, b) == \A name \in Names : ~(HasName(r.vars, name) /\ HasName(b.vars, name))

\* A registry under construction, on top of base b.
Built(r, b) == Shaped(r) /\ Sound(r.vars) /\ r.vars.state = "rw" /\ Apart(r, b)

\* Names keep their numbers.
Extends(s, r) ==
  /\ Len(r.vars.names) <= Len(s.vars.names)
  /\ \A i \in 1..Len(r.vars.names) : s.vars.names[i] = r.vars.names[i]

\* Search of the registry: a name of its own gets a number above those of the base.
LEMMA SearchFinds ==
  ASSUME NEW r, NEW b, Sound(r.vars), Sound(b.vars), NEW name \in Names
  PROVE  LET id == Search(r, b, name)
         IN  /\ id \in Nat /\ Count(b) \in Nat /\ Count(r) \in Nat
             /\ HasName(r.vars, name)
                  => /\ id = Count(b) + Lookup(r.vars, name)
                     /\ id \in (Count(b) + 1)..(Count(b) + Count(r))
                     /\ r.vars.names[id - Count(b)] = name
             /\ ~HasName(r.vars, name) /\ HasName(b.vars, name)
                  => id = Lookup(b.vars, name) /\ id \in 1..Count(b) /\ b.vars.names[id] = name
             /\ ~HasName(r.vars, name) /\ ~HasName(b.vars, name) => id = NoId
<1> DEFINE id == Search(r, b, name)
           own == Lookup(r.vars, name)
           of == Lookup(b.vars, name)
<1>1. id = IF own # NoId THEN Count(b) + own ELSE of
  BY DEF Search
<1>2. Count(b) \in Nat /\ Count(r) \in Nat /\ Count(b) = Len(b.vars.names) /\ Count(r) = Len(r.vars.names)
  BY IndexTypes DEF Count
<1>3. /\ HasName(r.vars, name) => own \in 1..Count(r) /\ r.vars.names[own] = name
      /\ ~HasName(r.vars, name) => own = 0
  BY <1>2, LookupFinds DEF NoId
<1>4. /\ HasName(b.vars, name) => of \in 1..Count(b) /\ b.vars.names[of] = name
      /\ ~HasName(b.vars, name) => of = 0
  BY <1>2, LookupFinds DEF NoId
<1> HIDE DEF id, own, of
<1>5. CASE HasName(r.vars, name)
  <2>1. own # 0 /\ id = Count(b) + own
    BY <1>1, <1>2, <1>3, <1>5 DEF NoId
  <2>2. own \in 1..Count(r) /\ r.vars.names[own] = name
    BY <1>3, <1>5
  <2>3. Count(b) \in Nat /\ Count(r) \in Nat
    BY <1>2
  <2>4. id \in (Count(b) + 1)..(Count(b) + Count(r)) /\ id - Count(b) = own /\ id \in Nat
    BY <2>1, <2>2, <2>3
  <2>5. r.vars.names[id - Count(b)] = name
    BY <2>2, <2>4
  <2> QED
    BY <1>5, <2>1, <2>3, <2>4, <2>5 DEF id, own
<1>6. CASE ~HasName(r.vars, name)
  <2>1. id = of
    BY <1>1, <1>3, <1>6 DEF NoId
  <2>2. Count(b) \in Nat /\ Count(r) \in Nat
    BY <1>2
  <2>3. id \in Nat
    BY <1>4, <2>1, <2>2
  <2> QED
    BY <1>4, <1>6, <2>1, <2>2, <2>3 DEF id, of, NoId
<1> QED
  BY <1>5, <1>6

LEMMA LinkKeepsNames ==
  ASSUME NEW r, Shaped(r), NEW b, NEW parent, NEW id
  PROVE  Shaped(Link(r, b, parent, id)) /\ Link(r, b, parent, id).vars = r.vars
<1>1. ASSUME NEW s, Shaped(s), NEW i, NEW node
      PROVE  Shaped(SetNode(s, b, i, node)) /\ SetNode(s, b, i, node).vars = s.vars
  <2>1. s = [vars |-> s.vars, nodes |-> s.nodes, map |-> s.map]
    BY <1>1 DEF Shaped
  <2>2. CASE i <= Count(b)
    <3>1. SetNode(s, b, i, node) = [s EXCEPT !.map = [@ EXCEPT ![i] = node]]
      BY <2>2 DEF SetNode
    <3> QED
      BY <2>1, <3>1 DEF Shaped
  <2>3. CASE ~(i <= Count(b))
    <3>1. SetNode(s, b, i, node) = [s EXCEPT !.nodes = [@ EXCEPT ![i - Count(b)] = node]]
      BY <2>3 DEF SetNode
    <3> QED
      BY <2>1, <3>1 DEF Shaped
  <2> QED
    BY <2>2, <2>3
<1>2. Shaped(MapNode(r, b, parent)) /\ MapNode(r, b, parent).vars = r.vars
  <2>1. r = [vars |-> r.vars, nodes |-> r.nodes, map |-> r.map]
    BY DEF Shaped
  <2> DEFINE copied == [i \in DOMAIN r.map \union {parent} |->
                IF i = parent
                THEN [type |-> b.nodes[parent].type, number |-> b.nodes[parent].number,
                      child |-> NoId, sibling |-> NoId]
                ELSE r.map[i]]
  <2>2. MapNode(r, b, parent) = IF HasNode(r, b, parent) THEN r ELSE [r EXCEPT !.map = copied]
    BY DEF MapNode
  <2> HIDE DEF copied
  <2> QED
    BY <2>1, <2>2 DEF Shaped
<1> DEFINE m == MapNode(r, b, parent)
           p == Node(m, b, parent)
           s == SetNode(m, b, id, [Node(m, b, id) EXCEPT !.sibling = p.child])
           t == SetNode(s, b, parent, [p EXCEPT !.child = id, !.type = "struct", !.number = @ + 1])
<1>3. Link(r, b, parent, id) = IF parent = NoId THEN r ELSE t
  BY DEF Link
<1>4. Shaped(m) /\ m.vars = r.vars
  BY <1>2
<1> HIDE DEF m, p
<1>5. Shaped(s) /\ s.vars = m.vars
  BY <1>1, <1>4
<1> HIDE DEF s
<1>6. Shaped(t) /\ t.vars = s.vars
  BY <1>1, <1>5
<1> HIDE DEF t
<1> QED
  BY <1>3, <1>4, <1>5, <1>6

\* A name that is found neither in the registry nor in its base gets the next number.
LEMMA InsertNodeAdds ==
  ASSUME NEW r, NEW b, Built(r, b), Sound(b.vars), NEW name \in Names, Search(r, b, name) = NoId
  PROVE  /\ Built(InsertNode(r, name), b)
         /\ InsertNode(r, name).vars.names = Append(r.vars.names, name)
         /\ Extends(InsertNode(r, name), r)
         /\ HasName(InsertNode(r, name).vars, name)
<1> DEFINE i == InsertNode(r, name)
<1>1. ~HasName(r.vars, name) /\ ~HasName(b.vars, name)
  <2>1. Sound(r.vars)
    BY DEF Built
  <2> QED
    BY <2>1, SearchFinds DEF NoId
<1>2. Shaped(i) /\ i.vars = AddName(r.vars, name)
  <2>1. r = [vars |-> r.vars, nodes |-> r.nodes, map |-> r.map]
    BY DEF Built, Shaped
  <2> DEFINE more == Append(r.nodes, [type |-> "text", number |-> 0, child |-> NoId, sibling |-> NoId])
  <2>2. i = [r EXCEPT !.vars = AddName(r.vars, name), !.nodes = more]
    BY DEF InsertNode
  <2> HIDE DEF more
  <2> QED
    BY <2>1, <2>2 DEF Shaped
<1>3. Sound(i.vars) /\ i.vars.state = "rw" /\ i.vars.names = Append(r.vars.names, name)
  <2>1. Sound(r.vars) /\ r.vars.state = "rw"
    BY DEF Built
  <2> QED
    BY <1>1, <1>2, <2>1, AddNameKeeps
<1> HIDE DEF i
<1>4. r.vars.names \in Seq(Names)
  BY DEF Built, Sound
<1>5. /\ Len(i.vars.names) = Len(r.vars.names) + 1 /\ Len(r.vars.names) \in Nat
      /\ i.vars.names[Len(r.vars.names) + 1] = name
      /\ \A k \in 1..Len(r.vars.names) : i.vars.names[k] = r.vars.names[k]
  BY <1>3, <1>4
<1>6. Apart(i, b)
  <2>1. \A n \in Names : HasName(i.vars, n) => n = name \/ HasName(r.vars, n)
    BY <1>5 DEF HasName
  <2> QED
    BY <1>1, <2>1 DEF Apart, Built
<1>7. Extends(i, r)
  BY <1>5 DEF Extends
<1>8. HasName(i.vars, name)
  <2>1. Len(r.vars.names) + 1 \in 1..Len(i.vars.names)
    BY <1>5
  <2> QED
    BY <1>5, <2>1 DEF HasName
<1> QED
  BY <1>2, <1>3, <1>6, <1>7, <1>8 DEF Built, i

LEMMA ExtendsBehind ==
  ASSUME NEW r, NEW s, NEW t, Sound(r.vars), Sound(s.vars), Sound(t.vars), Extends(s, r), Extends(t, s)
  PROVE  Extends(t, r)
<1>1. Len(r.vars.names) \in Nat /\ Len(s.vars.names) \in Nat /\ Len(t.vars.names) \in Nat
  BY IndexTypes
<1>2. \A i \in 1..Len(r.vars.names) : i \in 1..Len(s.vars.names)
  BY <1>1 DEF Extends
<1> QED
  BY <1>1, <1>2 DEF Extends

LEMMA ExtendsKeepsNames ==
  ASSUME NEW r, NEW s, Sound(r.vars), Sound(s.vars), Extends(s, r), NEW name, HasName(r.vars, name)
  PROVE  HasName(s.vars, name)
<1>1. Len(r.vars.names) \in Nat /\ Len(s.vars.names) \in Nat
  BY IndexTypes
<1>2. \A i \in 1..Len(r.vars.names) : i \in 1..Len(s.vars.names)
  BY <1>1 DEF Extends
<1> QED
  BY <1>2 DEF Extends, HasName

\* The loop of Registrate keeps what it goes on from.
Going(acc, b) == acc = [r |-> acc.r, parent |-> acc.parent] /\ Built(acc.r, b)

LEMMA BuiltExtendsItself ==
  ASSUME NEW r, NEW b, Built(r, b)
  PROVE  Extends(r, r)
<1>1. Len(r.vars.names) \in Nat
  BY IndexTypes DEF Built
<1> QED
  BY <1>1 DEF Extends

\* What is linked keeps its names, and all that is known of them.
LEMMA LinkedIsBuilt ==
  ASSUME NEW r, NEW b, Built(r, b), NEW parent, NEW id
  PROVE  /\ Built(Link(r, b, parent, id), b)
         /\ Link(r, b, parent, id).vars = r.vars
         /\ Extends(Link(r, b, parent, id), r)
<1> DEFINE l == Link(r, b, parent, id)
<1>1. Shaped(l) /\ l.vars = r.vars
  BY LinkKeepsNames DEF Built
<1> HIDE DEF l
<1>2. Built(l, b)
  BY <1>1 DEF Built, Apart
<1>3. Extends(r, r)
  BY BuiltExtendsItself
<1>4. Extends(l, r)
  BY <1>1, <1>3 DEF Extends
<1> QED
  BY <1>1, <1>2, <1>4 DEF l

LEMMA PrefixIsRegistered ==
  ASSUME NEW acc, NEW b, Going(acc, b), Sound(b.vars), NEW name, NEW k, SubSeq(name, 1, k) \in Names
  PROVE  LET next == RegistratePrefix(acc, b, name, k)
         IN  Going(next, b) /\ Extends(next.r, acc.r)
<1> DEFINE prefix == SubSeq(name, 1, k)
           id == Search(acc.r, b, prefix)
           i == InsertNode(acc.r, prefix)
           l == Link(i, b, acc.parent, Number(i, b))
           next == RegistratePrefix(acc, b, name, k)
<1>1. next = IF id # NoId THEN [acc EXCEPT !.parent = id] ELSE [r |-> l, parent |-> Number(i, b)]
  BY DEF RegistratePrefix
<1>2. acc = [r |-> acc.r, parent |-> acc.parent] /\ Built(acc.r, b)
  BY DEF Going
<1>3. CASE id # NoId
  <2> HIDE DEF id, next
  <2>1. next = [r |-> acc.r, parent |-> id]
    BY <1>1, <1>2, <1>3
  <2>2. next.r = acc.r
    BY <2>1
  <2>3. Going(next, b)
    BY <1>2, <2>1, <2>2 DEF Going
  <2> QED
    BY <1>2, <2>2, <2>3, BuiltExtendsItself DEF next
<1>4. CASE id = NoId
  <2>1. Built(i, b) /\ Extends(i, acc.r)
    BY <1>2, <1>4, InsertNodeAdds
  <2> HIDE DEF i
  <2>2. Built(l, b) /\ Extends(l, i)
    BY <2>1, LinkedIsBuilt
  <2>3. Extends(l, acc.r)
    BY <1>2, <2>1, <2>2, ExtendsBehind DEF Built
  <2> HIDE DEF id, l, next
  <2>4. next = [r |-> l, parent |-> Number(i, b)]
    BY <1>1, <1>4
  <2>5. next.r = l /\ next = [r |-> next.r, parent |-> next.parent]
    BY <2>4
  <2> QED
    BY <2>2, <2>3, <2>5 DEF Going, next
<1> QED
  BY <1>3, <1>4

\* The loop of Registrate over the beginnings of a name.
LEMMA RegistrateTurns ==
  ASSUME NEW r, NEW b, NEW name \in Names, Search(r, b, name) = NoId
  PROVE  \E e : /\ e[0] = [r |-> InsertNode(r, name), parent |-> NoId]
                /\ \A k \in 1..(Len(name) - 1) : e[k] = RegistratePrefix(e[k - 1], b, name, k)
                /\ Registrate(r, b, name)
                     = Link(e[Len(name) - 1].r, b, e[Len(name) - 1].parent, Number(InsertNode(r, name), b))
<1> DEFINE n == Len(name) - 1
           start == [r |-> InsertNode(r, name), parent |-> NoId]
           Turn(g, k) == IF k = 0 THEN start ELSE RegistratePrefix(g[k - 1], b, name, k)
           Runs(g, m) == g = [k \in 0..m |-> Turn(g, k)]
           S == {m \in Nat : m <= n => \E g : Runs(g, m)}
<1>1. n \in Nat
  BY NamesAreOrdered
<1>2. 0 \in S
  <2> DEFINE g == [k \in 0..0 |-> start]
  <2>1. g = [k \in 0..0 |-> Turn(g, k)]
    OBVIOUS
  <2> HIDE DEF g, start, Turn
  <2>2. \E h : Runs(h, 0)
    BY <2>1
  <2> QED
    BY <2>2
<1> HIDE DEF n, start
<1>3. ASSUME NEW m \in Nat, m \in S PROVE m + 1 \in S
  <2> SUFFICES ASSUME m + 1 <= n
               PROVE  \E g : Runs(g, m + 1)
    OBVIOUS
  <2>1. PICK g : Runs(g, m)
    BY <1>1, <1>3
  <2> DEFINE next == RegistratePrefix(g[m], b, name, m + 1)
             h == [k \in 0..(m + 1) |-> IF k = m + 1 THEN next ELSE g[k]]
  <2> HIDE DEF next
  <2>2. ASSUME NEW k \in 0..(m + 1) PROVE h[k] = Turn(h, k)
    <3>1. CASE k = m + 1
      <4>1. h[m] = g[m] /\ k # 0 /\ k - 1 = m /\ h[k] = next
        BY <3>1
      <4> HIDE DEF h
      <4> QED
        BY <3>1, <4>1 DEF next
    <3>2. CASE k # m + 1
      <4>1. k \in 0..m /\ h[k] = g[k] /\ (k # 0 => h[k - 1] = g[k - 1])
        BY <3>2
      <4>2. g[k] = Turn(g, k)
        BY <2>1, <3>2
      <4> HIDE DEF h
      <4> QED
        BY <3>2, <4>1, <4>2
    <3> QED
      BY <3>1, <3>2
  <2>3. h = [k \in 0..(m + 1) |-> h[k]]
    OBVIOUS
  <2> HIDE DEF h, Turn
  <2>4. Runs(h, m + 1)
    BY <2>2, <2>3
  <2> QED
    BY <2>4
<1>4. n \in S
  <2> HIDE DEF S
  <2> QED
    BY <1>1, <1>2, <1>3, NaturalSet
<1> DEFINE e == CHOOSE g : g = [k \in 0..(Len(name) - 1) |->
                  IF k = 0
                  THEN [r |-> InsertNode(r, name), parent |-> NoId]
                  ELSE RegistratePrefix(g[k - 1], b, name, k)]
<1>5. Registrate(r, b, name) = Link(e[Len(name) - 1].r, b, e[Len(name) - 1].parent, Number(InsertNode(r, name), b))
  BY Zenon DEF Registrate
<1>6. e = CHOOSE g : Runs(g, n)
  BY DEF n, start
<1> HIDE DEF e
<1>7. Runs(e, n)
  <2> HIDE DEF Turn
  <2> QED
    BY <1>1, <1>4, <1>6
<1>8. \A k \in 0..n : e[k] = Turn(e, k)
  <2> HIDE DEF Turn
  <2> QED
    BY <1>7
<1>9. e[0] = start
  BY <1>1, <1>8
<1>10. \A k \in 1..n : e[k] = RegistratePrefix(e[k - 1], b, name, k)
  BY <1>1, <1>8
<1> QED
  BY <1>5, <1>9, <1>10 DEF n, start

\* What a loop that starts with sound names comes to.
LEMMA PrefixesAreRegistered ==
  ASSUME NEW r, NEW b, Built(r, b), Sound(b.vars), NEW name \in Names, Search(r, b, name) = NoId, NEW e,
         e[0] = [r |-> InsertNode(r, name), parent |-> NoId],
         \A k \in 1..(Len(name) - 1) : e[k] = RegistratePrefix(e[k - 1], b, name, k),
         NEW m \in Nat, m <= Len(name) - 1
  PROVE  Going(e[m], b) /\ Extends(e[m].r, InsertNode(r, name))
<1> DEFINE n == Len(name) - 1
           i == InsertNode(r, name)
           S == {k \in Nat : k <= n => Going(e[k], b) /\ Extends(e[k].r, i)}
<1>1. n \in Nat
  BY NamesAreOrdered
<1>2. Built(i, b)
  BY InsertNodeAdds
<1> HIDE DEF i
<1>3. 0 \in S
  <2>1. e[0] = [r |-> i, parent |-> NoId]
    BY DEF i
  <2> QED
    BY <1>2, <2>1, BuiltExtendsItself DEF Going
<1>4. ASSUME NEW k \in Nat, k \in S PROVE k + 1 \in S
  <2> SUFFICES ASSUME k + 1 <= n PROVE Going(e[k + 1], b) /\ Extends(e[k + 1].r, i)
    OBVIOUS
  <2>1. k + 1 \in 1..n /\ (k + 1) - 1 = k /\ k + 1 \in 1..(Len(name) - 1)
    BY <1>1
  <2>2. Going(e[k], b) /\ Extends(e[k].r, i)
    BY <1>1, <1>4
  <2>3. SubSeq(name, 1, k + 1) \in Names
    BY <2>1, NamesAreClosed
  <2>4. e[k + 1] = RegistratePrefix(e[k], b, name, k + 1)
    BY <2>1
  <2>5. Going(e[k + 1], b) /\ Extends(e[k + 1].r, e[k].r)
    BY <2>2, <2>3, <2>4, PrefixIsRegistered
  <2>6. Extends(e[k + 1].r, i)
    BY <1>2, <2>2, <2>5, ExtendsBehind DEF Going, Built
  <2> QED
    BY <2>5, <2>6
<1>5. m \in S
  <2> HIDE DEF S
  <2> QED
    BY <1>3, <1>4, NaturalSet
<1> QED
  BY <1>5 DEF i

LEMMA RegistrateKeeps ==
  ASSUME NEW r, NEW b, Built(r, b), Sound(b.vars), NEW name \in Names
  PROVE  LET s == Registrate(r, b, name)
         IN  /\ Built(s, b) /\ Extends(s, r)
             /\ Search(r, b, name) # NoId => s = r
             /\ Search(r, b, name) = NoId /\ Len(name) = 1 => s.vars.names = Append(r.vars.names, name)
<1> DEFINE s == Registrate(r, b, name)
           i == InsertNode(r, name)
<1>1. CASE Search(r, b, name) # NoId
  <2>1. s = r
    BY <1>1, Zenon DEF Registrate
  <2> HIDE DEF s
  <2> QED
    BY <1>1, <2>1, BuiltExtendsItself DEF s
<1>2. CASE Search(r, b, name) = NoId
  <2>1. Built(i, b) /\ Extends(i, r) /\ i.vars.names = Append(r.vars.names, name)
    BY <1>2, InsertNodeAdds
  <2>2. PICK acc : /\ Going(acc, b) /\ Extends(acc.r, i)
                   /\ Len(name) = 1 => acc.r = i
                   /\ s = Link(acc.r, b, acc.parent, Number(i, b))
    <3>1. PICK e : /\ e[0] = [r |-> i, parent |-> NoId]
                   /\ \A k \in 1..(Len(name) - 1) : e[k] = RegistratePrefix(e[k - 1], b, name, k)
                   /\ s = Link(e[Len(name) - 1].r, b, e[Len(name) - 1].parent, Number(i, b))
      BY <1>2, RegistrateTurns
    <3>2. Len(name) - 1 \in Nat /\ Len(name) - 1 <= Len(name) - 1
      BY NamesAreOrdered
    <3>3. Going(e[Len(name) - 1], b) /\ Extends(e[Len(name) - 1].r, i)
      BY <1>2, <3>1, <3>2, PrefixesAreRegistered
    <3>4. Len(name) = 1 => e[Len(name) - 1].r = i
      BY <3>1
    <3> HIDE DEF s, i
    <3> QED
      BY <3>1, <3>3, <3>4
  <2> HIDE DEF s, i
  <2>3. Built(s, b) /\ s.vars = acc.r.vars /\ Extends(s, acc.r)
    BY <2>2, LinkedIsBuilt DEF Going
  <2>4. Extends(s, i)
    BY <2>1, <2>2, <2>3, ExtendsBehind DEF Going, Built
  <2>5. Extends(s, r)
    BY <2>1, <2>3, <2>4, ExtendsBehind DEF Built
  <2> QED
    BY <1>2, <2>1, <2>2, <2>3, <2>5 DEF s
<1> QED
  BY <1>1, <1>2

\* The automatic variables are the first of a registry.
AutosFirst(r) ==
  /\ Len(Autos) <= Len(r.vars.names)
  /\ \A k \in 1..Len(Autos) : r.vars.names[k] = Autos[k]

LEMMA EmptyIsBuilt ==
  ASSUME NEW b
  PROVE  Built(Empty, b) /\ Empty.vars.names = <<>>
<1>1. Shaped(Empty) /\ Empty.vars = EmptyIndex
  BY DEF Shaped, Empty
<1>2. Apart(Empty, b)
  BY <1>1, EmptyIsSound DEF Apart, HasName
<1> QED
  BY <1>1, <1>2, EmptyIsSound DEF Built

LEMMA CreateTurns ==
  ASSUME NEW b
  PROVE  \E e : /\ e[0] = Empty
                /\ \A k \in 1..Len(Autos) : e[k] = Registrate(e[k - 1], b, Autos[k])
                /\ Create(Autos, b) = e[Len(Autos)]
<1> DEFINE n == Len(Autos)
           Turn(g, k) == IF k = 0 THEN Empty ELSE Registrate(g[k - 1], b, Autos[k])
           Runs(g, m) == g = [k \in 0..m |-> Turn(g, k)]
           S == {m \in Nat : m <= n => \E g : Runs(g, m)}
<1>1. n \in Nat
  BY AutosArePlain
<1> HIDE DEF n
<1>2. 0 \in S
  <2> DEFINE g == [k \in 0..0 |-> Empty]
  <2>1. g = [k \in 0..0 |-> Turn(g, k)]
    OBVIOUS
  <2> HIDE DEF g, Turn
  <2>2. \E h : Runs(h, 0)
    BY <2>1
  <2> QED
    BY <2>2
<1>3. ASSUME NEW m \in Nat, m \in S PROVE m + 1 \in S
  <2> SUFFICES ASSUME m + 1 <= n
               PROVE  \E g : Runs(g, m + 1)
    OBVIOUS
  <2>1. PICK g : Runs(g, m)
    BY <1>1, <1>3
  <2> DEFINE next == Registrate(g[m], b, Autos[m + 1])
             h == [k \in 0..(m + 1) |-> IF k = m + 1 THEN next ELSE g[k]]
  <2> HIDE DEF next
  <2>2. ASSUME NEW k \in 0..(m + 1) PROVE h[k] = Turn(h, k)
    <3>1. CASE k = m + 1
      <4>1. h[m] = g[m] /\ k # 0 /\ k - 1 = m /\ h[k] = next
        BY <3>1
      <4> HIDE DEF h
      <4> QED
        BY <3>1, <4>1 DEF next
    <3>2. CASE k # m + 1
      <4>1. k \in 0..m /\ h[k] = g[k] /\ (k # 0 => h[k - 1] = g[k - 1])
        BY <3>2
      <4>2. g[k] = Turn(g, k)
        BY <2>1, <3>2
      <4> HIDE DEF h
      <4> QED
        BY <3>2, <4>1, <4>2
    <3> QED
      BY <3>1, <3>2
  <2>3. h = [k \in 0..(m + 1) |-> h[k]]
    OBVIOUS
  <2> HIDE DEF h, Turn
  <2>4. Runs(h, m + 1)
    BY <2>2, <2>3
  <2> QED
    BY <2>4
<1>4. n \in S
  <2> HIDE DEF S
  <2> QED
    BY <1>1, <1>2, <1>3, NaturalSet
<1> DEFINE e == CHOOSE h : h = [k \in 0..Len(Autos) |->
                  IF k = 0 THEN Empty ELSE Registrate(h[k - 1], b, Autos[k])]
<1>5. Create(Autos, b) = e[Len(Autos)]
  BY Zenon DEF Create
<1>6. e = CHOOSE h : Runs(h, n)
  BY DEF n
<1> HIDE DEF e
<1>7. Runs(e, n)
  <2> HIDE DEF Turn
  <2> QED
    BY <1>1, <1>4, <1>6
<1>8. \A k \in 0..n : e[k] = Turn(e, k)
  <2> HIDE DEF Turn
  <2> QED
    BY <1>7
<1>9. e[0] = Empty /\ \A k \in 1..n : e[k] = Registrate(e[k - 1], b, Autos[k])
  BY <1>1, <1>8
<1> QED
  BY <1>5, <1>9 DEF n

\* Create gives the automatic variables their numbers, and registers none of them again above a main base.
LEMMA CreateKeeps ==
  ASSUME NEW b, Sound(b.vars), b = Empty \/ AutosFirst(b)
  PROVE  LET r == Create(Autos, b)
         IN  /\ Built(r, b)
             /\ b = Empty => AutosFirst(r)
<1> DEFINE n == Len(Autos)
           Done(r, m) ==
             /\ Built(r, b)
             /\ b = Empty => /\ Len(r.vars.names) = m
                             /\ \A k \in 1..m : r.vars.names[k] = Autos[k]
<1>1. n \in Nat /\ \A k \in 1..n : Autos[k] \in Names /\ Len(Autos[k]) = 1
  BY AutosArePlain
<1> HIDE DEF n
<1>2. Done(Empty, 0)
  BY EmptyIsBuilt
<1>4. ASSUME NEW m \in Nat, m + 1 <= n, NEW r, Done(r, m) PROVE Done(Registrate(r, b, Autos[m + 1]), m + 1)
  <2> DEFINE name == Autos[m + 1]
             s == Registrate(r, b, name)
  <2>1. m + 1 \in 1..n /\ name \in Names /\ Len(name) = 1
    BY <1>1, <1>4
  <2>2. Built(r, b)
    BY <1>4
  <2>3. /\ Built(s, b) /\ Extends(s, r)
        /\ Search(r, b, name) = NoId => s.vars.names = Append(r.vars.names, name)
    BY <2>1, <2>2, RegistrateKeeps
  <2>4. ASSUME b = Empty
        PROVE  Len(s.vars.names) = m + 1 /\ \A k \in 1..(m + 1) : s.vars.names[k] = Autos[k]
    <3>1. Len(r.vars.names) = m /\ \A k \in 1..m : r.vars.names[k] = Autos[k]
      BY <1>4, <2>4
    <3>2. ~HasName(r.vars, name)
      <4>1. ASSUME NEW k \in 1..m, r.vars.names[k] = name PROVE FALSE
        <5>1. Autos[k] = Autos[m + 1] /\ k \in 1..n /\ k # m + 1
          BY <1>1, <1>4, <3>1, <4>1
        <5> QED
          BY <2>1, <5>1, AutosArePlain DEF n
      <4> HIDE DEF name
      <4> QED
        BY <3>1, <4>1 DEF HasName
    <3>3. ~HasName(b.vars, name)
      BY <2>4, EmptyIsBuilt DEF HasName
    <3>4. Search(r, b, name) = NoId
      <4>1. Sound(r.vars) /\ name \in Names
        BY <2>1, <2>2 DEF Built
      <4> HIDE DEF name
      <4> QED
        BY <3>2, <3>3, <4>1, SearchFinds
    <3>5. r.vars.names \in Seq(Names) /\ s.vars.names = Append(r.vars.names, name)
      BY <2>2, <2>3, <3>4 DEF Built, Sound
    <3> HIDE DEF s
    <3>6. Len(s.vars.names) = m + 1 /\ s.vars.names[m + 1] = name
      BY <3>1, <3>5
    <3>7. \A k \in 1..m : s.vars.names[k] = r.vars.names[k]
      BY <3>1, <3>5
    <3> QED
      BY <3>1, <3>6, <3>7
  <2> QED
    BY <2>3, <2>4
<1>5. PICK e : /\ e[0] = Empty
               /\ \A k \in 1..n : e[k] = Registrate(e[k - 1], b, Autos[k])
               /\ Create(Autos, b) = e[n]
  BY CreateTurns DEF n
<1> DEFINE S == {m \in Nat : m <= n => Done(e[m], m)}
<1>6. 0 \in S
  BY <1>2, <1>5
<1>7. ASSUME NEW m \in Nat, m \in S PROVE m + 1 \in S
  <2> SUFFICES ASSUME m + 1 <= n PROVE Done(e[m + 1], m + 1)
    OBVIOUS
  <2> HIDE DEF Done
  <2>1. Done(e[m], m) /\ m + 1 \in 1..n /\ (m + 1) - 1 = m
    BY <1>1, <1>7
  <2>2. e[m + 1] = Registrate(e[m], b, Autos[m + 1])
    BY <1>5, <2>1
  <2> QED
    BY <1>4, <2>1, <2>2
<1>8. Done(Create(Autos, b), n)
  <2> HIDE DEF S
  <2>1. n \in S
    BY <1>1, <1>6, <1>7, NaturalSet
  <2> HIDE DEF Done
  <2> QED
    BY <1>1, <1>5, <2>1 DEF S
<1> QED
  BY <1>1, <1>8 DEF AutosFirst, n

-------------------------------------------------------------------------------
(* Numbers.                                                                *)

\* A registry the server may open on top of base b.
Sits(r, b) == Sound(r.vars) /\ Apart(r, b)

\* Whatever is compiled is sound, has the automatic variables first and no name of its base twice.
RegistriesAreSound ==
  /\ job \in {"none", "main", "inf"}
  /\ Built(rw, Base)
  /\ Sound(main.vars)
  /\ Served => AutosFirst(main)
  /\ job = "inf" => Served
  /\ job = "main" => AutosFirst(rw)
  /\ ext # Closed => Fits(ext) /\ Sits(ext, main)
  /\ inf # Closed => Sits(inf, inf.baseSum)

LEMMA SavedSits ==
  ASSUME NEW r, NEW b, Built(r, b)
  PROVE  /\ Sits(Saved(r, b), b)
         /\ Saved(r, b).vars.names = r.vars.names
         /\ Saved(r, b).baseSum = b
<1> DEFINE s == Saved(r, b)
<1>1. s.vars = OpenedIndex(r.vars) /\ s.baseSum = b
  BY DEF Saved
<1>2. Sound(s.vars) /\ s.vars.names = r.vars.names
  BY <1>1, OpenedIsSound DEF Built
<1> HIDE DEF s
<1>3. Apart(s, b)
  BY <1>2 DEF Apart, HasName, Built
<1> QED
  BY <1>1, <1>2, <1>3 DEF Sits, s

LEMMA LoadedSits ==
  ASSUME RegistriesAreSound
  PROVE  Loaded # Closed => Sits(Loaded, main)
BY DEF RegistriesAreSound, Loaded, Fits

LEMMA RegistriesInit == Init => RegistriesAreSound
<1> SUFFICES ASSUME Init PROVE RegistriesAreSound
  OBVIOUS
<1>1. Built(Empty, Empty) /\ Sound(Empty.vars)
  BY EmptyIsBuilt DEF Built
<1> QED
  BY <1>1 DEF Init, RegistriesAreSound, Base, Served

LEMMA RegistriesStep == RegistriesAreSound /\ [Next]_vars => RegistriesAreSound'
<1> SUFFICES ASSUME RegistriesAreSound, [Next]_vars PROVE RegistriesAreSound'
  OBVIOUS
<1>0. Built(Empty, Empty) /\ Sound(Empty.vars)
  BY EmptyIsBuilt DEF Built
<1>1. ASSUME NEW kind \in {"main", "inf"}, StartBuild(kind) PROVE RegistriesAreSound'
  <2> DEFINE b == IF kind = "inf" THEN main ELSE Empty
  <2>1. /\ job' = kind /\ rw' = Create(Autos, b)
        /\ UNCHANGED <<main, ext, inf>> /\ (kind = "inf" => Served)
    BY <1>1 DEF StartBuild, server
  <2>2. Sound(b.vars) /\ (b = Empty \/ AutosFirst(b))
    BY <1>0, <2>1 DEF RegistriesAreSound
  <2>3. Base' = b
    BY <2>1 DEF Base
  <2>4. Built(rw', b) /\ (b = Empty => AutosFirst(rw'))
    BY <2>1, <2>2, CreateKeeps
  <2>5. kind = "main" => AutosFirst(rw')
    BY <2>4
  <2> HIDE DEF b
  <2>6. Built(rw, Base)'
    BY <2>3, <2>4
  <2> QED
    BY <2>1, <2>5, <2>6 DEF RegistriesAreSound, Served, Built, AutosFirst, Sits, Fits
<1>2. ASSUME NEW name \in Names, Register(name) PROVE RegistriesAreSound'
  <2>1. rw' = Registrate(rw, Base, name) /\ UNCHANGED <<job, main, ext, inf>>
    BY <1>2 DEF Register, server
  <2>2. Built(rw, Base) /\ Sound(Base.vars)
    BY <1>0 DEF RegistriesAreSound, Base
  <2>3. Built(rw', Base) /\ Extends(rw', rw)
    BY <2>1, <2>2, RegistrateKeeps
  <2>4. Base' = Base
    BY <2>1 DEF Base
  <2>5. AutosFirst(rw) => AutosFirst(rw')
    <3>1. Len(rw.vars.names) \in Nat /\ Len(rw.vars.names)' \in Nat /\ Len(Autos) \in Nat
      BY <2>2, <2>3, IndexTypes, AutosArePlain DEF Built
    <3> QED
      BY <2>3, <3>1 DEF AutosFirst, Extends
  <2> QED
    BY <2>1, <2>3, <2>4, <2>5 DEF RegistriesAreSound, Served, Fits
<1>3. ASSUME InstallMain PROVE RegistriesAreSound'
  <2>1. /\ job = "main" /\ job' = "none" /\ rw' = Empty
        /\ main' = Saved(rw, Empty) /\ ext' = Closed /\ inf' = inf
    BY <1>3 DEF InstallMain
  <2>2. Base = Empty /\ Base' = Empty
    BY <2>1 DEF Base
  <2>3. Sits(main', Empty) /\ main'.vars.names = rw.vars.names
    BY <2>1, <2>2, SavedSits DEF RegistriesAreSound
  <2>4. AutosFirst(main')
    BY <2>1, <2>3 DEF RegistriesAreSound, AutosFirst
  <2> QED
    BY <1>0, <2>1, <2>2, <2>3, <2>4 DEF RegistriesAreSound, Sits, Served
<1>4. ASSUME SaveInf PROVE RegistriesAreSound'
  <2>1. /\ job = "inf" /\ job' = "none" /\ rw' = Empty
        /\ inf' = Saved(rw, main) /\ UNCHANGED <<main, ext>>
    BY <1>4 DEF SaveInf, server
  <2>2. Base = main /\ Base' = Empty
    BY <2>1 DEF Base
  <2>3. Sits(inf', main) /\ inf'.baseSum = main
    BY <2>1, <2>2, SavedSits DEF RegistriesAreSound
  <2> QED
    BY <1>0, <2>1, <2>2, <2>3 DEF RegistriesAreSound, Served, Fits
<1>5. ASSUME UNCHANGED <<job, rw, main>>, ext' \in {ext, Loaded}, inf' \in {inf, Loaded}
      PROVE  RegistriesAreSound'
  <2>1. Base' = Base
    BY <1>5 DEF Base
  <2>2. ext' # Closed => Fits(ext') /\ Sits(ext', main)
    BY <1>5, LoadedSits DEF RegistriesAreSound, Loaded
  <2>3. inf' # Closed => Sits(inf', inf'.baseSum)
    BY <1>5 DEF RegistriesAreSound, Loaded, Fits
  <2> QED
    BY <1>5, <2>1, <2>2, <2>3 DEF RegistriesAreSound, Served, Fits
<1>6. ASSUME NEW name \in Names, NEW value \in Values, SetSession(name, value) \/ UpdateSession(name, value)
      PROVE  RegistriesAreSound'
  BY <1>5, <1>6 DEF SetSession, UpdateSession, compiler
<1>7. ASSUME NEW name \in Names, NEW value \in Values, NEW by \in {"main", "inf"}, Request(name, value, by)
      PROVE  RegistriesAreSound'
  BY <1>5, <1>7 DEF Request, compiler
<1>8. CASE UNCHANGED vars
  BY <1>5, <1>8 DEF vars, compiler, server
<1> QED
  BY <1>1, <1>2, <1>3, <1>4, <1>6, <1>7, <1>8 DEF Next

\* What is compiled, served and cached is sound in every state.
THEOREM RegistriesHold == Spec => []RegistriesAreSound
BY RegistriesInit, RegistriesStep, PTL DEF Spec

LEMMA OwnIsSound ==
  ASSUME NEW e, NEW b, e # Closed => Sits(e, b)
  PROVE  Sits(Own(e), b)
<1>1. Sits(Empty, b)
  BY EmptyIsBuilt DEF Sits, Built
<1> QED
  BY <1>1 DEF Own

\* A name is found by its number, and a number by its name.
LEMMA SearchAgrees ==
  ASSUME NEW r, NEW b, Sound(r.vars), Sound(b.vars), NEW name \in Names
  PROVE  IsFound(r, b, name)
<1> DEFINE id == Search(r, b, name)
<1>1. /\ id \in Nat /\ Count(b) \in Nat /\ Count(r) \in Nat
      /\ HasName(r.vars, name)
           => /\ id \in (Count(b) + 1)..(Count(b) + Count(r))
              /\ r.vars.names[id - Count(b)] = name
      /\ ~HasName(r.vars, name) /\ HasName(b.vars, name) => id \in 1..Count(b) /\ b.vars.names[id] = name
      /\ ~HasName(r.vars, name) /\ ~HasName(b.vars, name) => id = NoId
  BY SearchFinds
<1>2. \A x : Sound(x) => (name \in ToSet(x.names) <=> HasName(x, name))
  <2> SUFFICES ASSUME NEW x, Sound(x) PROVE name \in ToSet(x.names) <=> HasName(x, name)
    OBVIOUS
  <2>1. DOMAIN x.names = 1..Len(x.names)
    BY DEF Sound
  <2> QED
    BY <2>1 DEF ToSet, HasName
<1>3. name \in Registered(r, b) <=> HasName(r.vars, name) \/ HasName(b.vars, name)
  BY <1>2 DEF Registered
<1> HIDE DEF id
<1>4. CASE HasName(r.vars, name)
  <2>1. ~(id <= Count(b)) /\ id # NoId
    BY <1>1, <1>4 DEF NoId
  <2> QED
    BY <1>1, <1>3, <1>4, <2>1 DEF IsFound, Name, id
<1>5. CASE ~HasName(r.vars, name) /\ HasName(b.vars, name)
  <2>1. id <= Count(b) /\ id # NoId
    BY <1>1, <1>5 DEF NoId
  <2> QED
    BY <1>1, <1>3, <1>5, <2>1 DEF IsFound, Name, id
<1>6. CASE ~HasName(r.vars, name) /\ ~HasName(b.vars, name)
  BY <1>1, <1>3, <1>6 DEF IsFound, id
<1> QED
  BY <1>4, <1>5, <1>6

LEMMA MainIdFinds ==
  ASSUME Sound(main.vars), NEW name \in Names
  PROVE  /\ MainId(name) = Lookup(main.vars, name)
         /\ MainId(name) = NoId <=> ~HasName(main.vars, name)
         /\ HasName(main.vars, name) => MainId(name) \in 1..Count(main) /\ main.vars.names[MainId(name)] = name
<1>1. Sound(Empty.vars) /\ ~HasName(Empty.vars, name) /\ Count(Empty) = 0
  BY EmptyIsBuilt DEF Built, HasName, Count
<1>2. /\ HasName(main.vars, name) => Lookup(main.vars, name) \in 1..Len(main.vars.names)
      /\ HasName(main.vars, name) => main.vars.names[Lookup(main.vars, name)] = name
      /\ ~HasName(main.vars, name) => Lookup(main.vars, name) = NoId
  BY LookupFinds
<1>3. /\ HasName(main.vars, name) => MainId(name) = 0 + Lookup(main.vars, name)
      /\ ~HasName(main.vars, name) => MainId(name) = NoId
  BY <1>1, SearchFinds DEF MainId
<1> QED
  BY <1>2, <1>3 DEF NoId, Count

\* With the inf that is loaded, names of the main base keep their numbers, names of the inf are above.
LEMMA IdFinds ==
  ASSUME Sound(main.vars), NEW e, e # Closed => Sits(e, main), NEW name \in Names
  PROVE  /\ HasName(main.vars, name) => Id(e, name) = MainId(name)
         /\ ~HasName(main.vars, name) /\ e # Closed /\ HasName(e.vars, name)
              => Id(e, name) = Count(main) + Lookup(e.vars, name)
         /\ ~HasName(main.vars, name) /\ ~(e # Closed /\ HasName(e.vars, name)) => Id(e, name) = NoId
<1>1. Sits(Own(e), main)
  BY OwnIsSound
<1>2. HasName(Own(e).vars, name) <=> e # Closed /\ HasName(e.vars, name)
  BY EmptyIsBuilt DEF Own, HasName
<1>3. Sound(Own(e).vars) /\ (HasName(main.vars, name) => ~HasName(Own(e).vars, name))
  BY <1>1 DEF Sits, Apart
<1>4. /\ HasName(Own(e).vars, name) => Id(e, name) = Count(main) + Lookup(Own(e).vars, name)
      /\ ~HasName(Own(e).vars, name) /\ HasName(main.vars, name) => Id(e, name) = Lookup(main.vars, name)
      /\ ~HasName(Own(e).vars, name) /\ ~HasName(main.vars, name) => Id(e, name) = NoId
  BY <1>3, SearchFinds DEF Id
<1>5. e # Closed => Own(e) = e
  BY DEF Own
<1> QED
  BY <1>2, <1>3, <1>4, <1>5, MainIdFinds

LEMMA RegistriesAgree == RegistriesAreSound => NumbersAgree
<1> SUFFICES ASSUME RegistriesAreSound PROVE NumbersAgree
  OBVIOUS
<1>1. Sound(main.vars) /\ Built(rw, Base) /\ (ext # Closed => Sits(ext, main))
  BY DEF RegistriesAreSound
<1>2. Sound(Base.vars) /\ Sound(rw.vars)
  BY <1>1, EmptyIsBuilt DEF Base, Built
<1>3. ASSUME NEW name \in Names
      PROVE  /\ IsFound(rw, Base, name)
             /\ IsFound(Own(ext), main, name)
             /\ MainId(name) \in {NoId, Id(ext, name)}
  <2>1. IsFound(rw, Base, name)
    BY <1>2, SearchAgrees
  <2>2. IsFound(Own(ext), main, name)
    BY <1>1, OwnIsSound, SearchAgrees DEF Sits
  <2>3. MainId(name) \in {NoId, Id(ext, name)}
    BY <1>1, MainIdFinds, IdFinds
  <2> QED
    BY <2>1, <2>2, <2>3
<1>4. ASSUME job # "none", NEW k \in 1..Len(Autos) PROVE Search(rw, Base, Autos[k]) = k
  <2> DEFINE name == Autos[k]
             id == Search(rw, Base, name)
  <2>1. name \in Names /\ Len(Autos) \in Nat
    BY AutosArePlain
  <2> HIDE DEF name
  <2>2. CASE job = "main"
    <3>1. Base = Empty /\ AutosFirst(rw)
      BY <2>2 DEF Base, RegistriesAreSound
    <3>2. Count(Base) = 0 /\ Len(rw.vars.names) \in Nat
      BY <1>2, <3>1, EmptyIsBuilt, IndexTypes DEF Count
    <3>3. k \in 1..Len(rw.vars.names) /\ rw.vars.names[k] = name
      BY <2>1, <3>1, <3>2 DEF AutosFirst, name
    <3>4. HasName(rw.vars, name)
      BY <3>3 DEF HasName
    <3>5. id = 0 + Lookup(rw.vars, name)
      BY <1>2, <2>1, <3>2, <3>4, SearchFinds
    <3>6. Lookup(rw.vars, name) \in 1..Len(rw.vars.names) /\ rw.vars.names[Lookup(rw.vars, name)] = name
      BY <1>2, <2>1, <3>4, LookupFinds
    <3>7. Lookup(rw.vars, name) = k
      BY <1>2, <3>3, <3>6, NamesAreDistinct
    <3> QED
      BY <3>5, <3>7 DEF name
  <2>3. CASE job = "inf"
    <3>1. Base = main /\ AutosFirst(main)
      BY <2>3 DEF Base, RegistriesAreSound
    <3>2. Len(main.vars.names) \in Nat
      BY <1>1, IndexTypes
    <3>3. k \in 1..Len(main.vars.names) /\ main.vars.names[k] = name
      BY <2>1, <3>1, <3>2 DEF AutosFirst, name
    <3>4. HasName(main.vars, name)
      BY <3>3 DEF HasName
    <3>5. ~HasName(rw.vars, name)
      BY <1>1, <2>1, <3>1, <3>4 DEF Built, Apart
    <3>6. id = Lookup(main.vars, name)
      BY <1>2, <2>1, <3>1, <3>4, <3>5, SearchFinds
    <3>7. Lookup(main.vars, name) \in 1..Len(main.vars.names) /\ main.vars.names[Lookup(main.vars, name)] = name
      BY <1>1, <2>1, <3>4, LookupFinds
    <3>8. Lookup(main.vars, name) = k
      BY <1>1, <3>3, <3>7, NamesAreDistinct
    <3> QED
      BY <3>6, <3>8 DEF name
  <2> QED
    BY <1>4, <2>2, <2>3 DEF RegistriesAreSound
<1> QED
  BY <1>3, <1>4 DEF NumbersAgree

\* A name is found by its number and a number by its name, an inf calls the variables of the main base by the same
\* numbers, and the automatic variables have the numbers of the program: whatever names there are, whatever
\* hashes collide, however often main base and infs are compiled.
THEOREM NamesAndNumbersAgree == Spec => []NumbersAgree
BY RegistriesHold, RegistriesAgree, PTL

-------------------------------------------------------------------------------
(* Values.                                                                 *)

\* Values are kept by their numbers, in order.
IsValues(v) ==
  /\ v \in Seq([id : Nat, value : Values])
  /\ \A i, j \in 1..Len(v) : i < j => v[i].id < v[j].id

\* The turn of the loop of SearchInd.
IndTurn(v, id, g, p) ==
  LET l == p[1]
      r == p[2]
      c == (l + r) \div 2
  IN  IF r - l <= 1
      THEN IF v[r].id = id THEN r ELSE IF v[l].id = id THEN l ELSE r
      ELSE IF v[c].id <= id THEN g[<<c, r>>] ELSE g[<<l, c>>]

\* The loop of SearchInd has a result for every range.
LEMMA SearchIndEnds ==
  ASSUME NEW v, NEW id, Len(v) \in Nat
  PROVE  \E g : /\ g = [p \in Ranges(1, Len(v)) |-> IndTurn(v, id, g, p)]
                /\ SearchInd(v, id) = IF v = <<>> \/ v[1].id > id
                                      THEN 1
                                      ELSE IF v[Len(v)].id < id THEN Len(v) + 1 ELSE g[<<1, Len(v)>>]
<1> DEFINE n == Len(v)
           D == Ranges(1, n)
           Within(d) == {p \in D : p[2] <= p[1] + d}
           Right(g, d) == \A p \in Within(d) : g[p] = IndTurn(v, id, g, p)
           S == {d \in Nat : \E g : g = [p \in D |-> g[p]] /\ Right(g, d)}
<1> HIDE DEF n
<1>0. n \in Nat
  BY DEF n
<1>1. 0 \in S
  <2> DEFINE g == [p \in D |-> IF v[p[2]].id = id THEN p[2] ELSE IF v[p[1]].id = id THEN p[1] ELSE p[2]]
  <2>1. ASSUME NEW p \in Within(0) PROVE g[p] = IndTurn(v, id, g, p)
    <3>1. p \in D /\ p[1] \in Int /\ p[2] \in Int /\ p[2] <= p[1]
      BY DEF Ranges
    <3>2. p[2] - p[1] <= 1
      BY <3>1
    <3>3. g[p] = IF v[p[2]].id = id THEN p[2] ELSE IF v[p[1]].id = id THEN p[1] ELSE p[2]
      BY <3>1
    <3> HIDE DEF g
    <3> QED
      BY <3>2, <3>3, Zenon DEF IndTurn
  <2>2. g = [p \in D |-> g[p]]
    OBVIOUS
  <2> HIDE DEF g
  <2>3. \E k : k = [p \in D |-> k[p]] /\ Right(k, 0)
    BY <2>1, <2>2
  <2> QED
    BY <2>3
<1>2. ASSUME NEW d \in Nat, d \in S PROVE d + 1 \in S
  <2>1. PICK g : g = [p \in D |-> g[p]] /\ Right(g, d)
    BY <1>2
  <2> DEFINE h == [p \in D |-> IndTurn(v, id, g, p)]
  <2>2. ASSUME NEW p \in Within(d) PROVE h[p] = g[p]
    BY <2>1
  <2>3. ASSUME NEW p \in Within(d + 1) PROVE h[p] = IndTurn(v, id, h, p)
    <3> DEFINE l == p[1]
               r == p[2]
               c == (l + r) \div 2
    <3>1. p \in D /\ l \in 1..n /\ r \in 1..n /\ r <= l + (d + 1)
      BY DEF Ranges
    <3>2. h[p] = IndTurn(v, id, g, p)
      BY <3>1
    <3> HIDE DEF h
    <3>3. CASE r - l <= 1
      BY <3>2, <3>3, Zenon DEF IndTurn
    <3>4. CASE ~(r - l <= 1)
      <4> HIDE DEF l, r
      <4>1. c \in 1..n /\ c <= l + d /\ r <= c + d
        BY <1>0, <3>1, <3>4
      <4>2. <<l, c>> \in Within(d) /\ <<c, r>> \in Within(d)
        BY <3>1, <4>1 DEF Ranges
      <4>3. h[<<l, c>>] = g[<<l, c>>] /\ h[<<c, r>>] = g[<<c, r>>]
        BY <2>2, <4>2
      <4> HIDE DEF c
      <4> QED
        BY <3>2, <4>3, Zenon DEF IndTurn, l, r, c
    <3> QED
      BY <3>3, <3>4
  <2>4. h = [p \in D |-> h[p]]
    OBVIOUS
  <2> HIDE DEF h
  <2>5. \E k : k = [p \in D |-> k[p]] /\ Right(k, d + 1)
    BY <2>3, <2>4
  <2> QED
    BY <2>5
<1>3. n \in S
  <2> HIDE DEF S
  <2> QED
    BY <1>0, <1>1, <1>2, NaturalSet
<1>4. PICK g : g = [p \in D |-> g[p]] /\ Right(g, n)
  BY <1>3
<1>5. ASSUME NEW p \in D PROVE g[p] = IndTurn(v, id, g, p)
  <2>1. p \in Within(n)
    BY <1>0 DEF Ranges
  <2> QED
    BY <1>4, <2>1
<1>6. g = [p \in D |-> IndTurn(v, id, g, p)]
  BY <1>4, <1>5
<1> DEFINE e == CHOOSE k : k = [p \in (1..Len(v)) \X (1..Len(v)) |-> IndTurn(v, id, k, p)]
<1>7. SearchInd(v, id) = IF v = <<>> \/ v[1].id > id
                         THEN 1
                         ELSE IF v[Len(v)].id < id THEN Len(v) + 1 ELSE e[<<1, Len(v)>>]
  BY Zenon DEF SearchInd, IndTurn
<1>8. e = [p \in (1..Len(v)) \X (1..Len(v)) |-> IndTurn(v, id, e, p)]
  BY <1>6, Zenon DEF Ranges, n
<1> HIDE DEF e
<1> QED
  BY <1>7, <1>8 DEF Ranges

\* The place SearchInd finds splits the values by their numbers.
LEMMA SearchIndFinds ==
  ASSUME NEW v, IsValues(v), NEW id \in Nat
  PROVE  LET pos == SearchInd(v, id)
         IN  /\ pos \in 1..(Len(v) + 1)
             /\ \A i \in 1..(pos - 1) : v[i].id < id
             /\ \A i \in pos..Len(v) : v[i].id >= id
<1> DEFINE n == Len(v)
<1>1. /\ n \in Nat /\ \A i \in 1..n : v[i].id \in Nat
      /\ v = <<>> <=> n = 0
  <2> DEFINE T == [id : Nat, value : Values]
  <2>1. v \in Seq(T)
    BY DEF IsValues
  <2> HIDE DEF T
  <2>2. n \in Nat /\ (v = <<>> <=> n = 0) /\ \A i \in 1..n : v[i] \in T
    BY <2>1
  <2>3. \A t \in T : t.id \in Nat
    BY DEF T
  <2> QED
    BY <2>2, <2>3
<1>2. \A i, j \in 1..n : i < j => v[i].id < v[j].id
  BY DEF IsValues
<1>3. PICK g : /\ g = [p \in Ranges(1, n) |-> IndTurn(v, id, g, p)]
               /\ SearchInd(v, id) = IF v = <<>> \/ v[1].id > id
                                     THEN 1
                                     ELSE IF v[n].id < id THEN n + 1 ELSE g[<<1, n>>]
  BY <1>1, SearchIndEnds
<1> HIDE DEF n
<1> DEFINE Splitting(pos) ==
             /\ pos \in 1..(n + 1)
             /\ \A i \in 1..(pos - 1) : v[i].id < id
             /\ \A i \in pos..n : v[i].id >= id
           Good(l, r) == v[l].id <= id /\ v[r].id >= id => Splitting(g[<<l, r>>])
           S == {d \in Nat : \A l \in 1..n : \A r \in 1..n : l <= r /\ r <= l + d => Good(l, r)}
<1>4. \A l \in 1..n : \A r \in 1..n :
        g[<<l, r>>] = IF r - l <= 1
                      THEN IF v[r].id = id THEN r ELSE IF v[l].id = id THEN l ELSE r
                      ELSE IF v[(l + r) \div 2].id <= id
                           THEN g[<<(l + r) \div 2, r>>]
                           ELSE g[<<l, (l + r) \div 2>>]
  <2> SUFFICES ASSUME NEW l \in 1..n, NEW r \in 1..n
               PROVE  g[<<l, r>>] = IndTurn(v, id, g, <<l, r>>)
    BY DEF IndTurn
  <2>1. <<l, r>> \in Ranges(1, n)
    BY DEF Ranges
  <2> QED
    BY <1>3, <2>1, Zenon
<1>5. ASSUME NEW l \in 1..n, NEW r \in 1..n, l <= r, r <= l + 1 PROVE Good(l, r)
  <2> SUFFICES ASSUME v[l].id <= id, v[r].id >= id PROVE Splitting(g[<<l, r>>])
    OBVIOUS
  <2>0. v[l].id \in Nat /\ v[r].id \in Nat
    BY <1>1
  <2>1. g[<<l, r>>] = IF v[r].id = id THEN r ELSE IF v[l].id = id THEN l ELSE r
    <3>1. r - l <= 1
      BY <1>5
    <3> QED
      BY <1>4, <3>1
  <2>2. CASE v[r].id = id \/ v[l].id = id
    <3>1. PICK p \in 1..n : g[<<l, r>>] = p /\ v[p].id = id
      BY <2>1, <2>2
    <3>2. ASSUME NEW i \in 1..(p - 1) PROVE v[i].id < id
      BY <1>1, <1>2, <3>1
    <3>3. ASSUME NEW i \in p..n PROVE v[i].id >= id
      <4>1. i = p \/ (p < i /\ i \in 1..n)
        BY <1>1
      <4> QED
        BY <1>1, <1>2, <3>1, <4>1
    <3> QED
      BY <1>1, <3>1, <3>2, <3>3
  <2>3. CASE v[r].id # id /\ v[l].id # id
    <3>1. v[l].id < id /\ v[r].id > id /\ l # r /\ r = l + 1
      BY <1>5, <2>0, <2>3
    <3>2. ASSUME NEW i \in 1..(r - 1) PROVE v[i].id < id
      <4>1. i = l \/ (i < l /\ i \in 1..n)
        BY <1>1, <3>1
      <4> QED
        BY <1>1, <1>2, <2>0, <3>1, <4>1
    <3>3. ASSUME NEW i \in r..n PROVE v[i].id >= id
      <4>1. i = r \/ (r < i /\ i \in 1..n)
        BY <1>1
      <4> QED
        BY <1>1, <1>2, <2>0, <3>1, <4>1
    <3> QED
      BY <1>1, <2>1, <2>3, <3>2, <3>3
  <2> QED
    BY <2>2, <2>3
<1> HIDE DEF Splitting
<1>6. 0 \in S
  BY <1>5
<1>7. ASSUME NEW d \in Nat, d \in S PROVE d + 1 \in S
  <2> SUFFICES ASSUME NEW l \in 1..n, NEW r \in 1..n, l <= r, r <= l + (d + 1) PROVE Good(l, r)
    OBVIOUS
  <2>1. CASE r - l <= 1
    BY <1>5, <2>1
  <2>2. CASE ~(r - l <= 1)
    <3> DEFINE c == (l + r) \div 2
    <3>1. c \in 1..n /\ l <= c /\ c <= l + d /\ c <= r /\ r <= c + d
      BY <1>1, <2>2
    <3>2. g[<<l, r>>] = IF v[c].id <= id THEN g[<<c, r>>] ELSE g[<<l, c>>]
      BY <1>4, <2>2
    <3> HIDE DEF c, Good
    <3>3. Good(l, c) /\ Good(c, r)
      BY <1>7, <3>1
    <3>4. v[c].id \in Nat
      BY <1>1, <3>1
    <3>5. ~(v[c].id <= id) => v[c].id >= id
      BY <3>4
    <3> QED
      BY <3>2, <3>3, <3>5 DEF Good
  <2> QED
    BY <2>1, <2>2
<1>8. n \in S
  <2> HIDE DEF S
  <2> QED
    BY <1>1, <1>6, <1>7, NaturalSet
<1>9. Splitting(SearchInd(v, id))
  <2>1. CASE n = 0
    <3>1. SearchInd(v, id) = 1
      BY <1>1, <1>3, <2>1
    <3> QED
      BY <2>1, <3>1 DEF Splitting
  <2>2. CASE n # 0 /\ v[1].id > id
    <3>1. SearchInd(v, id) = 1
      BY <1>3, <2>2
    <3>2. ASSUME NEW i \in 1..n PROVE v[i].id >= id
      <4>1. i = 1 \/ 1 < i
        OBVIOUS
      <4>2. 1 \in 1..n
        BY <1>1, <2>2
      <4> QED
        BY <1>1, <1>2, <2>2, <4>1, <4>2
    <3> QED
      BY <1>1, <3>1, <3>2 DEF Splitting
  <2>3. CASE n # 0 /\ ~(v[1].id > id) /\ v[n].id < id
    <3>1. SearchInd(v, id) = n + 1
      BY <1>1, <1>3, <2>3
    <3>2. ASSUME NEW i \in 1..n PROVE v[i].id < id
      <4>1. n \in 1..n /\ (i = n \/ i < n)
        BY <1>1, <2>3
      <4> QED
        BY <1>1, <1>2, <2>3, <4>1
    <3> QED
      BY <1>1, <3>1, <3>2 DEF Splitting
  <2>4. CASE n # 0 /\ ~(v[1].id > id) /\ ~(v[n].id < id)
    <3>1. SearchInd(v, id) = g[<<1, n>>]
      BY <1>1, <1>3, <2>4
    <3>2. 1 \in 1..n /\ n \in 1..n /\ n <= 1 + n
      BY <1>1, <2>4
    <3>3. v[1].id <= id /\ v[n].id >= id
      BY <1>1, <2>4, <3>2
    <3>4. Good(1, n)
      BY <1>8, <3>2
    <3> QED
      BY <3>1, <3>3, <3>4
  <2> QED
    BY <2>1, <2>2, <2>3, <2>4
<1> QED
  BY <1>9 DEF Splitting, n

LEMMA ValueTypes ==
  ASSUME NEW v, IsValues(v)
  PROVE  Len(v) \in Nat /\ \A i \in 1..Len(v) : v[i] \in [id : Nat, value : Values] /\ v[i].id \in Nat
<1> DEFINE T == [id : Nat, value : Values]
<1>1. v \in Seq(T)
  BY DEF IsValues
<1> HIDE DEF T
<1>2. Len(v) \in Nat /\ \A i \in 1..Len(v) : v[i] \in T
  BY <1>1
<1>3. \A t \in T : t.id \in Nat
  BY DEF T
<1> QED
  BY <1>2, <1>3 DEF T

LEMMA GetValueFinds ==
  ASSUME NEW v, IsValues(v), NEW id \in Nat
  PROVE  /\ \A i \in 1..Len(v) : v[i].id = id => GetValue(v, id) = v[i].value
         /\ (\A i \in 1..Len(v) : v[i].id # id) => GetValue(v, id) = NoValue
<1> DEFINE pos == SearchInd(v, id)
<1>1. /\ pos \in 1..(Len(v) + 1)
      /\ \A i \in 1..(pos - 1) : v[i].id < id
      /\ \A i \in pos..Len(v) : v[i].id >= id
  BY SearchIndFinds
<1>2. GetValue(v, id) = IF pos <= Len(v) /\ v[pos].id = id THEN v[pos].value ELSE NoValue
  BY DEF GetValue, IsAt
<1> HIDE DEF pos
<1>3. Len(v) \in Nat /\ \A i \in 1..Len(v) : v[i].id \in Nat
  BY ValueTypes
<1>4. ASSUME NEW i \in 1..Len(v), v[i].id = id PROVE GetValue(v, id) = v[i].value
  <2>1. pos \in 1..Len(v) /\ pos <= i
    BY <1>1, <1>3, <1>4
  <2>2. v[pos].id >= id /\ v[pos].id \in Nat
    BY <1>1, <1>3, <2>1
  <2>3. pos < i => v[pos].id < v[i].id
    BY <2>1 DEF IsValues
  <2>4. pos = i
    BY <1>3, <1>4, <2>1, <2>2, <2>3
  <2> QED
    BY <1>2, <1>4, <2>1, <2>4
<1>5. ASSUME \A i \in 1..Len(v) : v[i].id # id PROVE GetValue(v, id) = NoValue
  BY <1>1, <1>2, <1>3, <1>5
<1> QED
  BY <1>4, <1>5

\* A value that is set by number is got by this number, and others stay; no other numbers come in.
LEMMA SetTextValueSets ==
  ASSUME NEW v, IsValues(v), NEW id \in Nat, NEW value \in Values
  PROVE  LET w == SetTextValue(v, id, value)
         IN  /\ IsValues(w)
             /\ GetValue(w, id) = value
             /\ \A j \in Nat : j # id => GetValue(w, j) = GetValue(v, j)
             /\ \A i \in 1..Len(w) : w[i].id = id \/ \E k \in 1..Len(v) : v[k].id = w[i].id
<1> DEFINE pos == SearchInd(v, id)
           new == [id |-> id, value |-> value]
           T == [id : Nat, value : Values]
           n == Len(v)
           w == SetTextValue(v, id, value)
<1>1. w = IF IsAt(v, id, pos) THEN [v EXCEPT ![pos] = new] ELSE InsertAt(v, pos, new)
  BY DEF SetTextValue
<1>2. /\ pos \in 1..(n + 1)
      /\ \A i \in 1..(pos - 1) : v[i].id < id
      /\ \A i \in pos..n : v[i].id >= id
  BY SearchIndFinds
<1>3. n \in Nat /\ v \in Seq(T) /\ \A i \in 1..n : v[i].id \in Nat
  BY ValueTypes DEF IsValues
<1>4. \A i, j \in 1..n : i < j => v[i].id < v[j].id
  BY DEF IsValues
<1>5. new \in T /\ new.id = id /\ new.value = value
  OBVIOUS
<1> HIDE DEF pos, new, T, w
<1>6. ASSUME IsValues(w), NEW p \in 1..Len(w), w[p] = new,
             \A i \in 1..Len(w) : i # p => \E k \in 1..n : v[k] = w[i],
             \A k \in 1..n : v[k].id # id => \E i \in 1..Len(w) : w[i] = v[k]
      PROVE  /\ GetValue(w, id) = value
             /\ \A j \in Nat : j # id => GetValue(w, j) = GetValue(v, j)
             /\ \A i \in 1..Len(w) : w[i].id = id \/ \E k \in 1..n : v[k].id = w[i].id
  <2>1. GetValue(w, id) = value
    BY <1>5, <1>6, GetValueFinds
  <2>2. ASSUME NEW j \in Nat, j # id PROVE GetValue(w, j) = GetValue(v, j)
    <3>1. CASE \E k \in 1..n : v[k].id = j
      <4>1. PICK k \in 1..n : v[k].id = j
        BY <3>1
      <4>2. PICK i \in 1..Len(w) : w[i] = v[k]
        BY <1>6, <2>2, <4>1
      <4>3. GetValue(v, j) = v[k].value
        BY <4>1, GetValueFinds
      <4>4. GetValue(w, j) = w[i].value
        BY <1>6, <4>1, <4>2, GetValueFinds
      <4> QED
        BY <4>2, <4>3, <4>4
    <3>2. CASE \A k \in 1..n : v[k].id # j
      <4>1. GetValue(v, j) = NoValue
        BY <3>2, GetValueFinds
      <4>2. ASSUME NEW i \in 1..Len(w) PROVE w[i].id # j
        BY <1>5, <1>6, <2>2, <3>2
      <4>3. GetValue(w, j) = NoValue
        BY <1>6, <4>2, GetValueFinds
      <4> QED
        BY <4>1, <4>3
    <3> QED
      BY <3>1, <3>2
  <2>3. ASSUME NEW i \in 1..Len(w) PROVE w[i].id = id \/ \E k \in 1..n : v[k].id = w[i].id
    BY <1>5, <1>6
  <2> QED
    BY <2>1, <2>2, <2>3
<1>7. CASE IsAt(v, id, pos)
  <2> HIDE DEF n
  <2>1. pos \in 1..n /\ v[pos].id = id
    BY <1>2, <1>3, <1>7 DEF IsAt, n
  <2>2. w = [v EXCEPT ![pos] = new]
    BY <1>1, <1>7
  <2>3. w \in Seq(T) /\ Len(w) = n /\ w[pos] = new /\ \A i \in 1..n : i # pos => w[i] = v[i]
    BY <1>3, <1>5, <2>1, <2>2 DEF n
  <2>4. \A i \in 1..n : w[i].id = v[i].id
    BY <1>5, <2>1, <2>3
  <2>5. IsValues(w)
    BY <1>4, <2>3, <2>4 DEF IsValues, T
  <2>6. \A i \in 1..Len(w) : i # pos => \E k \in 1..n : v[k] = w[i]
    BY <2>3
  <2>7. \A k \in 1..n : v[k].id # id => \E i \in 1..Len(w) : w[i] = v[k]
    BY <2>1, <2>3
  <2> QED
    BY <1>6, <2>1, <2>3, <2>5, <2>6, <2>7 DEF n, w
<1>8. CASE ~IsAt(v, id, pos)
  <2>1. w = InsertAt(v, pos, new)
    BY <1>1, <1>8
  <2>2. w \in Seq(T) /\ IsInserted(w, v, pos, new)
    BY <1>2, <1>3, <1>5, <2>1, Inserted
  <2> HIDE DEF n
  <2>3. /\ Len(w) = n + 1 /\ w[pos] = new
        /\ \A i \in 1..(pos - 1) : w[i] = v[i]
        /\ \A i \in (pos + 1)..(n + 1) : w[i] = v[i - 1]
    BY <2>2 DEF IsInserted, n
  <2>4. ASSUME NEW i \in pos..n PROVE v[i].id > id /\ i \in 1..n
    <3>1. pos \in 1..n /\ i \in 1..n /\ v[pos].id # id
      BY <1>2, <1>3, <1>8 DEF IsAt, n
    <3>2. v[pos].id >= id /\ (i = pos \/ pos < i)
      BY <1>2, <3>1
    <3> QED
      BY <1>3, <1>4, <3>1, <3>2
  <2>5. ASSUME NEW i \in 1..(pos - 1) PROVE w[i] = v[i] /\ w[i].id < id /\ i \in 1..n
    BY <1>2, <1>3, <2>3
  <2>6. ASSUME NEW i \in (pos + 1)..(n + 1)
        PROVE  w[i] = v[i - 1] /\ w[i].id > id /\ i - 1 \in 1..n
    <3>1. i - 1 \in pos..n
      BY <1>2, <1>3
    <3> QED
      BY <2>3, <2>4, <3>1
  <2>7. \A i \in 1..(n + 1) : i \in 1..(pos - 1) \/ i = pos \/ i \in (pos + 1)..(n + 1)
    BY <1>2, <1>3
  <2>8. ASSUME NEW i \in 1..(n + 1), NEW j \in 1..(n + 1), i < j PROVE w[i].id < w[j].id
    <3>1. CASE i \in 1..(pos - 1) /\ j \in 1..(pos - 1)
      BY <1>4, <2>5, <2>8, <3>1
    <3>2. CASE i \in 1..(pos - 1) /\ j = pos
      BY <1>5, <2>3, <2>5, <3>2
    <3>3. CASE i \in 1..(pos - 1) /\ j \in (pos + 1)..(n + 1)
      <4>1. i \in 1..n /\ j - 1 \in 1..n /\ i < j - 1
        BY <1>2, <2>5, <2>6, <3>3
      <4> QED
        BY <1>4, <2>5, <2>6, <3>3, <4>1
    <3>4. CASE i = pos /\ j \in (pos + 1)..(n + 1)
      BY <1>3, <1>5, <2>3, <2>6, <3>4
    <3>5. CASE i \in (pos + 1)..(n + 1) /\ j \in (pos + 1)..(n + 1)
      <4>1. i - 1 \in 1..n /\ j - 1 \in 1..n /\ i - 1 < j - 1
        BY <2>6, <2>8, <3>5
      <4> QED
        BY <1>4, <2>6, <3>5, <4>1
    <3>6. \/ i \in 1..(pos - 1)
          \/ i = pos /\ j \in (pos + 1)..(n + 1)
          \/ i \in (pos + 1)..(n + 1) /\ j \in (pos + 1)..(n + 1)
      BY <1>2, <1>3, <2>8
    <3> QED
      BY <2>7, <3>1, <3>2, <3>3, <3>4, <3>5, <3>6
  <2>9. IsValues(w)
    BY <2>2, <2>3, <2>8 DEF IsValues, T
  <2>10. ASSUME NEW i \in 1..Len(w), i # pos PROVE \E k \in 1..n : v[k] = w[i]
    BY <2>3, <2>5, <2>6, <2>7, <2>10
  <2>11. ASSUME NEW k \in 1..n PROVE \E i \in 1..Len(w) : w[i] = v[k]
    <3>1. CASE k < pos
      <4>1. k \in 1..(pos - 1) /\ k \in 1..Len(w)
        BY <1>2, <1>3, <2>3, <3>1
      <4> QED
        BY <2>3, <4>1
    <3>2. CASE ~(k < pos)
      <4>1. k + 1 \in (pos + 1)..(n + 1) /\ k + 1 \in 1..Len(w) /\ (k + 1) - 1 = k
        BY <1>2, <1>3, <2>3, <3>2
      <4> QED
        BY <2>3, <4>1
    <3> QED
      BY <3>1, <3>2
  <2>12. pos \in 1..Len(w)
    BY <1>2, <2>3 DEF n
  <2> QED
    BY <1>6, <2>3, <2>9, <2>10, <2>11, <2>12 DEF n, w
<1> QED
  BY <1>7, <1>8

\* The values of a session of main base m are those of its names: of the names of the main base always, of the names
\* of an inf when it is the only one the session was written under.
Agrees(m, values, told, under) ==
  LET count == Len(m.vars.names)
  IN  /\ Sound(m.vars) /\ IsValues(values)
      /\ \A name \in Names :
           HasName(m.vars, name) => GetValue(values, Lookup(m.vars, name)) = told[name]
      /\ under = {} => /\ \A i \in 1..Len(values) : values[i].id <= count
                       /\ \A name \in Names : ~HasName(m.vars, name) => told[name] = NoValue
      /\ \A e \in under : e # Closed /\ Sits(e, m)
      /\ \A e \in under : under = {e} =>
           \A name \in Names :
             HasName(e.vars, name) => GetValue(values, count + Lookup(e.vars, name)) = told[name]

ValuesAreSaid ==
  /\ said \in [Names -> Values \union {NoValue}]
  /\ session # NoSession => Agrees(session.sum, session.values, said, infs)

LEMMA FreshAgrees ==
  ASSUME NEW m, Sound(m.vars)
  PROVE  Agrees(m, <<>>, Nothing, {})
<1>1. IsValues(<<>>)
  BY DEF IsValues
<1>2. \A id \in Nat : GetValue(<<>>, id) = NoValue
  BY <1>1, GetValueFinds
<1>3. \A name \in Names : HasName(m.vars, name) => Lookup(m.vars, name) \in Nat
  <2>1. Len(m.vars.names) \in Nat
    BY IndexTypes
  <2> QED
    BY <2>1, LookupFinds
<1> QED
  BY <1>1, <1>2, <1>3 DEF Agrees, Nothing

\* A value that is set under a name, by the number this name has in the main base or in the inf.
LEMMA WriteAgrees ==
  ASSUME NEW m, NEW values, NEW told \in [Names -> Values \union {NoValue}], NEW under,
         Agrees(m, values, told, under),
         NEW name \in Names, NEW value \in Values, NEW id, NEW e, NEW next,
         \/ HasName(m.vars, name) /\ id = Lookup(m.vars, name) /\ next = under
         \/ /\ ~HasName(m.vars, name) /\ e # Closed /\ Sits(e, m) /\ HasName(e.vars, name)
            /\ id = Len(m.vars.names) + Lookup(e.vars, name) /\ next = under \union {e}
  PROVE  Agrees(m, SetTextValue(values, id, value), [told EXCEPT ![name] = value], next)
<1> DEFINE count == Len(m.vars.names)
           w == SetTextValue(values, id, value)
           now == [told EXCEPT ![name] = value]
           OfMain == HasName(m.vars, name) /\ id = Lookup(m.vars, name) /\ next = under
           OfInf == /\ ~HasName(m.vars, name) /\ e # Closed /\ Sits(e, m) /\ HasName(e.vars, name)
                    /\ id = count + Lookup(e.vars, name) /\ next = under \union {e}
<1>0. OfMain \/ OfInf
  OBVIOUS
<1>1. Sound(m.vars) /\ IsValues(values) /\ count \in Nat
  BY IndexTypes DEF Agrees
<1>2. \A n \in Names : HasName(m.vars, n) => /\ Lookup(m.vars, n) \in 1..count
                                             /\ m.vars.names[Lookup(m.vars, n)] = n
  BY <1>1, LookupFinds
<1>3. ASSUME NEW k, Sits(k, m), NEW n \in Names, HasName(k.vars, n)
      PROVE  /\ Lookup(k.vars, n) \in Nat \ {0} /\ k.vars.names[Lookup(k.vars, n)] = n
             /\ ~HasName(m.vars, n)
  <2>1. Sound(k.vars) /\ Len(k.vars.names) \in Nat
    BY <1>3, IndexTypes DEF Sits
  <2>2. Lookup(k.vars, n) \in 1..Len(k.vars.names) /\ k.vars.names[Lookup(k.vars, n)] = n
    BY <1>3, <2>1, LookupFinds
  <2> QED
    BY <1>3, <2>1, <2>2 DEF Sits, Apart
<1>4. id \in Nat /\ (OfMain => id <= count) /\ (OfInf => id > count)
  <2>1. CASE OfMain
    <3>1. id \in 1..count
      BY <1>2, <2>1
    <3> QED
      BY <1>1, <2>1, <3>1
  <2>2. CASE OfInf
    <3>1. Lookup(e.vars, name) \in Nat \ {0}
      BY <1>3, <2>2
    <3> HIDE DEF count
    <3> QED
      BY <1>1, <2>2, <3>1
  <2> QED
    BY <1>0, <2>1, <2>2
<1>5. /\ IsValues(w) /\ GetValue(w, id) = value
      /\ \A j \in Nat : j # id => GetValue(w, j) = GetValue(values, j)
      /\ \A i \in 1..Len(w) : w[i].id = id \/ \E k \in 1..Len(values) : values[k].id = w[i].id
  BY <1>1, <1>4, SetTextValueSets
<1>6. now[name] = value /\ \A n \in Names : n # name => now[n] = told[n]
  OBVIOUS
<1> HIDE DEF w, now, count
<1>7. ASSUME NEW n \in Names, HasName(m.vars, n) PROVE GetValue(w, Lookup(m.vars, n)) = now[n]
  <2>1. Lookup(m.vars, n) \in 1..count /\ Lookup(m.vars, n) \in Nat /\ m.vars.names[Lookup(m.vars, n)] = n
    BY <1>1, <1>2, <1>7
  <2>2. CASE n = name
    <3>1. id = Lookup(m.vars, n)
      BY <1>0, <1>7, <2>2
    <3> QED
      BY <1>5, <1>6, <2>2, <3>1
  <2>3. CASE n # name
    <3>1. id # Lookup(m.vars, n)
      <4>1. CASE OfMain
        BY <1>2, <2>1, <2>3, <4>1
      <4>2. CASE OfInf
        BY <1>1, <1>4, <2>1, <4>2
      <4> QED
        BY <1>0, <4>1, <4>2
    <3>2. GetValue(values, Lookup(m.vars, n)) = told[n]
      BY <1>7 DEF Agrees
    <3> QED
      BY <1>5, <1>6, <2>1, <2>3, <3>1, <3>2
  <2> QED
    BY <2>2, <2>3
<1>8. ASSUME next = {}
      PROVE  /\ \A i \in 1..Len(w) : w[i].id <= count
             /\ \A n \in Names : ~HasName(m.vars, n) => now[n] = NoValue
  <2>1. OfMain /\ under = {}
    BY <1>0, <1>8
  <2>2. /\ \A i \in 1..Len(values) : values[i].id <= count
        /\ \A n \in Names : ~HasName(m.vars, n) => told[n] = NoValue
    BY <2>1 DEF Agrees, count
  <2>3. ASSUME NEW n \in Names, ~HasName(m.vars, n) PROVE now[n] = NoValue
    BY <1>6, <2>1, <2>2, <2>3
  <2>4. ASSUME NEW i \in 1..Len(w) PROVE w[i].id <= count
    BY <1>4, <1>5, <2>1, <2>2
  <2> QED
    BY <2>3, <2>4
<1>9. ASSUME NEW k \in next PROVE k # Closed /\ Sits(k, m)
  BY <1>0, <1>9 DEF Agrees
<1>10. ASSUME NEW k \in next, next = {k}, NEW n \in Names, HasName(k.vars, n)
       PROVE  GetValue(w, count + Lookup(k.vars, n)) = now[n]
  <2>1. /\ Lookup(k.vars, n) \in Nat \ {0} /\ k.vars.names[Lookup(k.vars, n)] = n
        /\ ~HasName(m.vars, n)
    BY <1>3, <1>9, <1>10
  <2>2. count + Lookup(k.vars, n) \in Nat /\ count + Lookup(k.vars, n) > count
    BY <1>1, <2>1
  <2>3. CASE n = name
    <3>1. OfInf /\ k = e
      BY <1>0, <1>10, <2>1, <2>3
    <3> QED
      BY <1>5, <1>6, <2>3, <3>1
  <2>4. CASE n # name
    <3>1. id # count + Lookup(k.vars, n)
      <4>1. CASE OfMain
        BY <1>1, <1>4, <2>2, <4>1
      <4>2. CASE OfInf
        <5>1. k = e
          <6>1. e \in next
            BY <4>2
          <6> QED
            BY <1>10, <6>1
        <5>2. Lookup(k.vars, name) \in Nat \ {0} /\ k.vars.names[Lookup(k.vars, name)] = name
          BY <1>3, <1>9, <4>2, <5>1
        <5>3. Lookup(k.vars, name) # Lookup(k.vars, n)
          BY <2>1, <2>4, <5>2
        <5> QED
          BY <1>1, <2>1, <4>2, <5>1, <5>2, <5>3
      <4> QED
        BY <1>0, <4>1, <4>2
    <3>2. GetValue(values, count + Lookup(k.vars, n)) = told[n]
      <4>1. CASE under = {k}
        BY <1>10, <4>1 DEF Agrees, count
      <4>2. CASE under = {}
        <5>1. /\ \A i \in 1..Len(values) : values[i].id <= count
              /\ told[n] = NoValue
          BY <1>10, <2>1, <4>2 DEF Agrees, count
        <5>2. \A i \in 1..Len(values) : values[i].id # count + Lookup(k.vars, n)
          BY <1>1, <2>2, <5>1, ValueTypes
        <5> QED
          BY <1>1, <2>2, <5>1, <5>2, GetValueFinds
      <4>3. under = {k} \/ under = {}
        BY <1>0, <1>10
      <4> QED
        BY <4>1, <4>2, <4>3
    <3>3. GetValue(w, count + Lookup(k.vars, n)) = GetValue(values, count + Lookup(k.vars, n))
      BY <1>5, <2>2, <3>1
    <3> QED
      BY <1>6, <2>4, <3>2, <3>3
  <2> QED
    BY <2>3, <2>4
<1> QED
  BY <1>1, <1>5, <1>7, <1>8, <1>9, <1>10 DEF Agrees, w, now, count

LEMMA ValuesInit == Init => ValuesAreSaid
BY DEF Init, ValuesAreSaid, Nothing

\* A command sets a variable by the number its name has in the main base, or in the inf that is loaded.
LEMMA SaveWithAgrees ==
  ASSUME RegistriesAreSound, ValuesAreSaid, SessionFits,
         NEW name \in Names, NEW value \in Values, NEW id \in {MainId(name), Id(Loaded, name)}, id # NoId,
         NEW e \in {Closed, Loaded}, id = MainId(name) \/ e = Loaded,
         SaveWith(session.values, id, value), Note(e, name, value)
  PROVE  ValuesAreSaid'
<1>1. Agrees(main, session.values, said, infs) /\ said \in [Names -> Values \union {NoValue}]
  BY DEF ValuesAreSaid, SessionFits
<1>2. session' = [sum |-> main, values |-> SetTextValue(session.values, id, value)]
  BY DEF SaveWith
<1>3. said' = [said EXCEPT ![name] = value] /\ infs' = IF MainId(name) = NoId THEN infs \union {e} ELSE infs
  BY DEF Note
<1>4. Sound(main.vars) /\ (Loaded # Closed => Sits(Loaded, main))
  BY LoadedSits DEF RegistriesAreSound
<1>5. /\ MainId(name) = Lookup(main.vars, name)
      /\ MainId(name) = NoId <=> ~HasName(main.vars, name)
  BY <1>4, MainIdFinds
<1>6. \/ HasName(main.vars, name) /\ id = Lookup(main.vars, name) /\ infs' = infs
      \/ /\ ~HasName(main.vars, name) /\ e # Closed /\ Sits(e, main) /\ HasName(e.vars, name)
         /\ id = Len(main.vars.names) + Lookup(e.vars, name) /\ infs' = infs \union {e}
  <2>1. CASE HasName(main.vars, name)
    <3>1. id = MainId(name)
      BY <1>4, <2>1, IdFinds
    <3> QED
      BY <1>3, <1>5, <2>1, <3>1
  <2>2. CASE ~HasName(main.vars, name)
    <3>1. id = Id(Loaded, name) /\ e = Loaded
      BY <1>5, <2>2
    <3>2. /\ Loaded # Closed /\ HasName(Loaded.vars, name)
          /\ id = Count(main) + Lookup(Loaded.vars, name)
      BY <1>4, <2>2, <3>1, IdFinds
    <3> QED
      BY <1>3, <1>4, <1>5, <2>2, <3>1, <3>2 DEF Count
  <2> QED
    BY <2>1, <2>2
<1>7. ASSUME NEW next, infs' = next
      PROVE  Agrees(main, SetTextValue(session.values, id, value), [said EXCEPT ![name] = value], next)
  BY <1>1, <1>6, <1>7, WriteAgrees
<1>8. Agrees(main, SetTextValue(session.values, id, value), said', infs')
  BY <1>3, <1>7
<1>9. session'.sum = main /\ session'.values = SetTextValue(session.values, id, value)
  BY <1>2
<1>10. said' \in [Names -> Values \union {NoValue}]
  BY <1>1, <1>3
<1> QED
  BY <1>8, <1>9, <1>10 DEF ValuesAreSaid

LEMMA ForgottenAgrees == Forgotten => ValuesAreSaid'
BY DEF Forgotten, ValuesAreSaid, Nothing

LEMMA ValuesStep == RegistriesAreSound /\ ValuesAreSaid /\ [Next]_vars => ValuesAreSaid'
<1> SUFFICES ASSUME RegistriesAreSound, ValuesAreSaid, [Next]_vars PROVE ValuesAreSaid'
  OBVIOUS
<1>1. ASSUME UNCHANGED <<session, said, infs>> PROVE ValuesAreSaid'
  BY <1>1 DEF ValuesAreSaid
<1>2. ASSUME NEW kind \in {"main", "inf"}, StartBuild(kind) PROVE ValuesAreSaid'
  BY <1>1, <1>2 DEF StartBuild
<1>3. ASSUME NEW name \in Names, Register(name) PROVE ValuesAreSaid'
  BY <1>1, <1>3 DEF Register
<1>4. ASSUME InstallMain \/ SaveInf PROVE ValuesAreSaid'
  BY <1>1, <1>4 DEF InstallMain, SaveInf
<1>5. ASSUME NEW name \in Names, NEW value \in Values, SetSession(name, value) PROVE ValuesAreSaid'
  <2> DEFINE id == MainId(name)
  <2>1. /\ session' = [sum |-> main, values |-> IF id = NoId THEN <<>> ELSE SetTextValue(<<>>, id, value)]
        /\ said' = IF id = NoId THEN Nothing ELSE [Nothing EXCEPT ![name] = value]
        /\ infs' = {}
    BY <1>5 DEF SetSession
  <2>2. Sound(main.vars)
    BY DEF RegistriesAreSound
  <2>3. Agrees(main, <<>>, Nothing, {}) /\ Nothing \in [Names -> Values \union {NoValue}]
    BY <2>2, FreshAgrees DEF Nothing
  <2>4. id = Lookup(main.vars, name) /\ (id = NoId <=> ~HasName(main.vars, name))
    BY <2>2, MainIdFinds
  <2> HIDE DEF id
  <2>5. CASE id = NoId
    <3>1. session'.sum = main /\ session'.values = <<>> /\ said' = Nothing
      BY <2>1, <2>5
    <3> QED
      BY <2>1, <2>3, <3>1 DEF ValuesAreSaid
  <2>6. CASE id # NoId
    <3>1. /\ session'.sum = main /\ session'.values = SetTextValue(<<>>, id, value)
          /\ said' = [Nothing EXCEPT ![name] = value]
      BY <2>1, <2>6
    <3>2. Agrees(main, SetTextValue(<<>>, id, value), [Nothing EXCEPT ![name] = value], {})
      BY <2>3, <2>4, <2>6, WriteAgrees
    <3>3. said' \in [Names -> Values \union {NoValue}]
      BY <2>3, <3>1
    <3> QED
      BY <2>1, <3>1, <3>2, <3>3 DEF ValuesAreSaid
  <2> QED
    BY <2>5, <2>6
<1>6. ASSUME NEW name \in Names, NEW value \in Values, UpdateSession(name, value) PROVE ValuesAreSaid'
  <2>1. CASE ~SessionFits
    BY <1>6, <2>1, ForgottenAgrees DEF UpdateSession
  <2>2. CASE SessionFits /\ MainId(name) = NoId
    BY <1>1, <1>6, <2>2 DEF UpdateSession
  <2>3. CASE SessionFits /\ MainId(name) # NoId
    <3>1. SaveWith(session.values, MainId(name), value) /\ Note(Closed, name, value)
      BY <1>6, <2>3 DEF UpdateSession
    <3> QED
      BY <2>3, <3>1, SaveWithAgrees
  <2> QED
    BY <2>1, <2>2, <2>3
<1>7. ASSUME NEW name \in Names, NEW value \in Values, NEW by \in {"main", "inf"}, Request(name, value, by)
      PROVE  ValuesAreSaid'
  <2> DEFINE id == IF by = "main" THEN MainId(name) ELSE Id(Loaded, name)
  <2>1. CASE ~SessionFits
    BY <1>7, <2>1, ForgottenAgrees DEF Request
  <2>2. CASE SessionFits /\ ~(Loaded # Closed /\ id # NoId)
    BY <1>1, <1>7, <2>2 DEF Request
  <2>3. CASE SessionFits /\ Loaded # Closed /\ id # NoId
    <3>1. SaveWith(session.values, id, value) /\ Note(Loaded, name, value)
      BY <1>7, <2>3 DEF Request
    <3>2. id \in {MainId(name), Id(Loaded, name)}
      OBVIOUS
    <3> HIDE DEF id
    <3> QED
      BY <2>3, <3>1, <3>2, SaveWithAgrees
  <2> QED
    BY <2>1, <2>2, <2>3
<1>8. CASE UNCHANGED vars
  BY <1>1, <1>8 DEF vars
<1> QED
  BY <1>2, <1>3, <1>4, <1>5, <1>6, <1>7, <1>8 DEF Next

LEMMA ValuesAgree == RegistriesAreSound /\ ValuesAreSaid => ValuesUnderNames
<1> SUFFICES ASSUME RegistriesAreSound, ValuesAreSaid, Served, SessionFits,
                    NEW name \in Registered(Own(Loaded), main),
                    MainId(name) # NoId \/ infs \subseteq {Loaded}
             PROVE  GetValue(session.values, Id(Loaded, name)) = said[name]
  BY DEF ValuesUnderNames
<1>1. Agrees(main, session.values, said, infs)
  BY DEF ValuesAreSaid, SessionFits
<1>2. Sound(main.vars) /\ (Loaded # Closed => Sits(Loaded, main))
  BY LoadedSits DEF RegistriesAreSound
<1>3. Sits(Own(Loaded), main)
  BY <1>2, OwnIsSound
<1>4. name \in Names
  <2>1. /\ main.vars.names \in Seq(Names)
        /\ Own(Loaded).vars.names \in Seq(Names)
    BY <1>2, <1>3 DEF Sits, Sound
  <2> QED
    BY <2>1 DEF Registered, ToSet
<1>5. IsFound(Own(Loaded), main, name)
  BY <1>2, <1>3, <1>4, SearchAgrees DEF Sits
<1>6. Id(Loaded, name) # NoId
  BY <1>5 DEF IsFound, Id
<1>7. /\ MainId(name) = Lookup(main.vars, name)
      /\ MainId(name) = NoId <=> ~HasName(main.vars, name)
  BY <1>2, <1>4, MainIdFinds
<1>8. CASE HasName(main.vars, name)
  <2>1. Id(Loaded, name) = Lookup(main.vars, name)
    BY <1>2, <1>4, <1>7, <1>8, IdFinds
  <2> QED
    BY <1>1, <1>4, <1>8, <2>1 DEF Agrees
<1>9. CASE ~HasName(main.vars, name)
  <2>1. /\ Loaded # Closed /\ HasName(Loaded.vars, name)
        /\ Id(Loaded, name) = Count(main) + Lookup(Loaded.vars, name)
    BY <1>2, <1>4, <1>6, <1>9, IdFinds
  <2>2. infs = {} \/ infs = {Loaded}
    BY <1>7, <1>9
  <2>3. CASE infs = {Loaded}
    BY <1>1, <1>4, <2>1, <2>3 DEF Agrees, Count
  <2>4. CASE infs = {}
    <3>1. /\ \A i \in 1..Len(session.values) : session.values[i].id <= Count(main)
          /\ said[name] = NoValue /\ IsValues(session.values)
      BY <1>1, <1>4, <1>9, <2>4 DEF Agrees, Count
    <3>2. Lookup(Loaded.vars, name) \in Nat \ {0} /\ Count(main) \in Nat
      <4>1. Sound(Loaded.vars)
        BY <1>2, <2>1 DEF Sits
      <4>2. Len(Loaded.vars.names) \in Nat /\ Len(main.vars.names) \in Nat
        BY <1>2, <4>1, IndexTypes
      <4>3. Lookup(Loaded.vars, name) \in 1..Len(Loaded.vars.names)
        BY <1>4, <2>1, <4>1, LookupFinds
      <4> QED
        BY <4>2, <4>3 DEF Count
    <3>3. Id(Loaded, name) \in Nat /\ Id(Loaded, name) > Count(main)
      BY <2>1, <3>2
    <3>4. \A i \in 1..Len(session.values) : session.values[i].id # Id(Loaded, name)
      BY <3>1, <3>2, <3>3, ValueTypes
    <3> QED
      BY <3>1, <3>3, <3>4, GetValueFinds
  <2> QED
    BY <2>2, <2>3, <2>4
<1> QED
  BY <1>8, <1>9

\* Whatever was compiled or restarted in between, and whatever infs came and went, a session that is read from the cache
\* has under every name what was last set under this name.
THEOREM SessionsKeepValues == Spec => []ValuesUnderNames
<1>1. Init => ValuesAreSaid
  BY ValuesInit
<1>2. RegistriesAreSound /\ ValuesAreSaid /\ [Next]_vars => ValuesAreSaid'
  BY ValuesStep
<1>3. RegistriesAreSound /\ ValuesAreSaid => ValuesUnderNames
  BY ValuesAgree
<1> QED
  BY <1>1, <1>2, <1>3, RegistriesHold, PTL DEF Spec

\* The second half of OneMainBase, which is inductive beside what is known of the registries.
InfsOfSession == session # NoSession => \A i \in infs : i.baseSum = session.sum

LEMMA InfsStep == InfsOfSession /\ [Next]_vars => InfsOfSession'
<1> SUFFICES ASSUME InfsOfSession, [Next]_vars PROVE InfsOfSession'
  OBVIOUS
<1>1. ASSUME UNCHANGED <<session, infs>> PROVE InfsOfSession'
  BY <1>1 DEF InfsOfSession
<1>2. ASSUME infs' = {} PROVE InfsOfSession'
  BY <1>2 DEF InfsOfSession
<1>3. ASSUME NEW name, NEW value, NEW id, NEW e, SessionFits, SaveWith(session.values, id, value),
             Note(e, name, value), MainId(name) = NoId => e.baseSum = main
      PROVE  InfsOfSession'
  <2>1. session # NoSession /\ session.sum = main /\ session'.sum = main
    BY <1>3 DEF SessionFits, SaveWith
  <2>2. \A i \in infs : i.baseSum = main
    BY <2>1 DEF InfsOfSession
  <2>3. \A i \in infs' : i.baseSum = main
    BY <1>3, <2>2 DEF Note
  <2> QED
    BY <2>1, <2>3 DEF InfsOfSession
<1>4. ASSUME NEW kind \in {"main", "inf"}, StartBuild(kind) PROVE InfsOfSession'
  BY <1>1, <1>4 DEF StartBuild
<1>5. ASSUME NEW name \in Names, Register(name) PROVE InfsOfSession'
  BY <1>1, <1>5 DEF Register
<1>6. ASSUME InstallMain \/ SaveInf PROVE InfsOfSession'
  BY <1>1, <1>6 DEF InstallMain, SaveInf
<1>7. ASSUME NEW name \in Names, NEW value \in Values, SetSession(name, value) PROVE InfsOfSession'
  BY <1>2, <1>7 DEF SetSession
<1>8. ASSUME NEW name \in Names, NEW value \in Values, UpdateSession(name, value) PROVE InfsOfSession'
  <2>1. CASE ~SessionFits
    BY <1>2, <1>8, <2>1 DEF UpdateSession, Forgotten
  <2>2. CASE SessionFits /\ MainId(name) = NoId
    BY <1>1, <1>8, <2>2 DEF UpdateSession
  <2>3. CASE SessionFits /\ MainId(name) # NoId
    <3>1. SaveWith(session.values, MainId(name), value) /\ Note(Closed, name, value)
      BY <1>8, <2>3 DEF UpdateSession
    <3> QED
      BY <1>3, <2>3, <3>1
  <2> QED
    BY <2>1, <2>2, <2>3
<1>9. ASSUME NEW name \in Names, NEW value \in Values, NEW by \in {"main", "inf"}, Request(name, value, by)
      PROVE  InfsOfSession'
  <2> DEFINE id == IF by = "main" THEN MainId(name) ELSE Id(Loaded, name)
  <2>1. CASE ~SessionFits
    BY <1>2, <1>9, <2>1 DEF Request, Forgotten
  <2>2. CASE SessionFits /\ ~(Loaded # Closed /\ id # NoId)
    BY <1>1, <1>9, <2>2 DEF Request
  <2>3. CASE SessionFits /\ Loaded # Closed /\ id # NoId
    <3>1. SaveWith(session.values, id, value) /\ Note(Loaded, name, value)
      BY <1>9, <2>3 DEF Request
    <3>2. Loaded.baseSum = main
      BY <2>3 DEF Loaded, Fits
    <3> HIDE DEF id
    <3> QED
      BY <1>3, <2>3, <3>1, <3>2
  <2> QED
    BY <2>1, <2>2, <2>3
<1>10. CASE UNCHANGED vars
  BY <1>1, <1>10 DEF vars
<1> QED
  BY <1>4, <1>5, <1>6, <1>7, <1>8, <1>9, <1>10 DEF Next

\* Infs and sessions outlive the main base they were made for, in the cache.  An inf that is open was nevertheless
\* compiled with the main base that is open, and a session was only ever written under infs of the main base whose
\* checksum it has.
THEOREM BasesAreOne == Spec => []OneMainBase
<1>1. Init => InfsOfSession
  BY DEF Init, InfsOfSession
<1>2. InfsOfSession /\ [Next]_vars => InfsOfSession'
  BY InfsStep
<1>3. RegistriesAreSound /\ InfsOfSession => OneMainBase
  BY DEF RegistriesAreSound, InfsOfSession, OneMainBase
<1> QED
  BY <1>1, <1>2, <1>3, RegistriesHold, PTL DEF Spec

-------------------------------------------------------------------------------
(* Fields.                                                                 *)

IsField(n, m) == Len(n) = Len(m) + 1 /\ SubSeq(n, 1, Len(m)) = m

\* The names of a registry itself, and those that are fields of p and are linked: all but those in out.
OwnIds(r, b) == (Count(b) + 1)..Number(r, b)
Kids(r, b, p, out) == {c \in OwnIds(r, b) \ out : IsField(Name(r, b, c), Name(r, b, p))}

\* The greatest of a set of numbers, which is the last that was linked.
IsNewest(x, S) == IF S = {} THEN x = NoId ELSE x \in S /\ \A y \in S : y <= x

Types == {"text", "struct"}
Nodes == [type : Types, number : Nat, child : Nat, sibling : Nat]

HasNodes(r, b) ==
  /\ r.nodes \in Seq(Nodes) /\ Len(r.nodes) = Count(r)
  /\ DOMAIN r.map \subseteq 1..Count(b) /\ r.map \in [DOMAIN r.map -> Nodes]

\* Every name that is linked is the field of another.
HasParents(r, b, out) ==
  \A c \in OwnIds(r, b) \ out :
    Len(Name(r, b, c)) > 1 => \E p \in 1..Number(r, b) : IsField(Name(r, b, c), Name(r, b, p))

\* A field is followed by the one that was linked before it.
IsLinked(r, b, out) ==
  /\ HasNodes(r, b)
  /\ \A p \in 1..Number(r, b) :
       IF HasNode(r, b, p)
       THEN /\ IsNewest(Node(r, b, p).child, Kids(r, b, p, out))
            /\ Node(r, b, p).number = ChildsOfBase(b, p) + Cardinality(Kids(r, b, p, out))
            /\ Node(r, b, p).type = "struct" <=> Node(r, b, p).number # 0
            /\ Node(r, b, p).sibling # NoId => Node(r, b, p).sibling \in OwnIds(r, b) /\ Node(r, b, p).sibling < p
       ELSE Kids(r, b, p, out) = {}
  /\ \A p \in 1..Number(r, b) : \A c \in Kids(r, b, p, out) :
       IsNewest(Node(r, b, c).sibling, {d \in Kids(r, b, p, out) : d < c})
  /\ HasParents(r, b, out)

IsListing(s, S) ==
  /\ s \in Seq(S)
  /\ \A i, j \in 1..Len(s) : s[i] = s[j] => i = j
  /\ \A c \in S : \E i \in 1..Len(s) : s[i] = c

\* What the server reads.
IsOpened(r, b) ==
  /\ DOMAIN r.nodes = 1..Count(r) /\ DOMAIN r.map \subseteq 1..Count(b)
  /\ \A p \in 1..Number(r, b) :
       IF HasNode(r, b, p)
       THEN /\ IsListing(Node(r, b, p).childs, Kids(r, b, p, {}))
            /\ Node(r, b, p).number = ChildsOfBase(b, p) + Len(Node(r, b, p).childs)
            /\ Node(r, b, p).type \in Types
            /\ Node(r, b, p).type = "struct" <=> Node(r, b, p).number # 0
       ELSE Kids(r, b, p, {}) = {}
  /\ HasParents(r, b, {})

\* Whatever is compiled is linked, and whatever is served and cached can be read on top of its base.
FieldsAreLinked ==
  /\ IsLinked(rw, Base, {})
  /\ IsOpened(main, Empty)
  /\ ext # Closed => IsOpened(ext, main)
  /\ inf # Closed => IsOpened(inf, inf.baseSum)

-------------------------------------------------------------------------------
(* Names and fields of a registry.                                         *)

LEMMA NumberTypes ==
  ASSUME NEW r, NEW b, Sound(r.vars), Sound(b.vars)
  PROVE  /\ Count(b) \in Nat /\ Count(r) \in Nat /\ Number(r, b) \in Nat
         /\ Number(r, b) = Count(b) + Count(r)
         /\ \A id : id \in OwnIds(r, b) <=> id \in 1..Number(r, b) /\ ~(id <= Count(b))
         /\ \A id \in OwnIds(r, b) : /\ id - Count(b) \in 1..Count(r)
                                     /\ Name(r, b, id) = r.vars.names[id - Count(b)]
         /\ \A id \in 1..Count(b) : id \in 1..Number(r, b) /\ Name(r, b, id) = b.vars.names[id]
         /\ \A id \in 1..Number(r, b) : /\ id \in Nat
                                        /\ Name(r, b, id) \in Names
                                        /\ Len(Name(r, b, id)) \in Nat \ {0}
<1>1. r.vars.names \in Seq(Names) /\ b.vars.names \in Seq(Names)
  BY DEF Sound
<1>2. Count(b) \in Nat /\ Count(r) \in Nat
  BY <1>1 DEF Count
<1>3. Number(r, b) = Count(b) + Count(r) /\ Number(r, b) \in Nat
  BY <1>2 DEF Number
<1>4. \A id : id \in OwnIds(r, b) <=> id \in 1..Number(r, b) /\ ~(id <= Count(b))
  BY <1>2, <1>3 DEF OwnIds
<1>5. \A id \in OwnIds(r, b) : /\ id - Count(b) \in 1..Count(r)
                               /\ Name(r, b, id) = r.vars.names[id - Count(b)]
  BY <1>2, <1>3 DEF OwnIds, Name
<1>6. \A id \in 1..Count(b) : id \in 1..Number(r, b) /\ Name(r, b, id) = b.vars.names[id]
  BY <1>2, <1>3 DEF Name
<1>7. \A id \in 1..Number(r, b) : id \in Nat /\ (id \in OwnIds(r, b) \/ id \in 1..Count(b))
  <2>1. \A id \in 1..Number(r, b) : id \in Nat /\ (id <= Count(b) => id \in 1..Count(b))
    BY <1>2, <1>3
  <2> QED
    BY <1>4, <2>1
<1>8. \A id \in 1..Number(r, b) : Name(r, b, id) \in Names
  <2>1. /\ \A k \in 1..Len(r.vars.names) : r.vars.names[k] \in Names
        /\ \A k \in 1..Len(b.vars.names) : b.vars.names[k] \in Names
    BY <1>1
  <2>2. Len(r.vars.names) = Count(r) /\ Len(b.vars.names) = Count(b)
    BY DEF Count
  <2> QED
    BY <1>5, <1>6, <1>7, <2>1, <2>2
<1> QED
  BY <1>2, <1>3, <1>4, <1>5, <1>6, <1>7, <1>8, NamesAreOrdered

\* No two numbers of a registry and its base have one name.
LEMMA NamesTell ==
  ASSUME NEW r, NEW b, Sound(r.vars), Sound(b.vars), Apart(r, b),
         NEW p \in 1..Number(r, b), NEW q \in 1..Number(r, b), Name(r, b, p) = Name(r, b, q)
  PROVE  p = q
<1> DEFINE m == Count(b)
<1>0. m = Len(b.vars.names) /\ Count(r) = Len(r.vars.names)
  BY DEF Count
<1>1. /\ m \in Nat
      /\ \A id \in 1..Number(r, b) : /\ id \in Nat
                                     /\ id <= m => id \in 1..m /\ Name(r, b, id) = b.vars.names[id]
                                     /\ ~(id <= m) => /\ id - m \in 1..Count(r)
                                                      /\ Name(r, b, id) = r.vars.names[id - m]
      /\ Name(r, b, p) \in Names
  <2>1. /\ m \in Nat /\ Name(r, b, p) \in Names
        /\ \A id : id \in OwnIds(r, b) <=> id \in 1..Number(r, b) /\ ~(id <= m)
        /\ \A id \in OwnIds(r, b) : id - m \in 1..Count(r) /\ Name(r, b, id) = r.vars.names[id - m]
        /\ \A id \in 1..m : Name(r, b, id) = b.vars.names[id]
        /\ \A id \in 1..Number(r, b) : id \in Nat
    BY NumberTypes
  <2> HIDE DEF m
  <2>2. \A id \in 1..Number(r, b) : id <= m => id \in 1..m
    BY <2>1
  <2> QED
    BY <2>1, <2>2
<1> HIDE DEF m
<1>2. ASSUME NEW i \in 1..Number(r, b), NEW j \in 1..Number(r, b), i <= m, ~(j <= m), Name(r, b, i) = Name(r, b, j),
             Name(r, b, i) \in Names
      PROVE  FALSE
  <2>1. HasName(b.vars, Name(r, b, i))
    BY <1>0, <1>1, <1>2 DEF HasName
  <2>2. HasName(r.vars, Name(r, b, i))
    BY <1>0, <1>1, <1>2 DEF HasName
  <2> QED
    BY <1>2, <2>1, <2>2 DEF Apart
<1>3. CASE p <= m /\ q <= m
  <2>1. /\ p \in 1..Len(b.vars.names) /\ q \in 1..Len(b.vars.names)
        /\ b.vars.names[p] = b.vars.names[q]
    BY <1>0, <1>1, <1>3
  <2> QED
    BY <2>1, NamesAreDistinct
<1>4. CASE ~(p <= m) /\ ~(q <= m)
  <2>1. /\ p - m \in 1..Len(r.vars.names) /\ q - m \in 1..Len(r.vars.names)
        /\ r.vars.names[p - m] = r.vars.names[q - m]
    BY <1>0, <1>1, <1>4
  <2>2. p - m = q - m
    BY <2>1, NamesAreDistinct
  <2> QED
    BY <1>1, <2>2
<1> QED
  BY <1>1, <1>2, <1>3, <1>4

\* A name is a field of one other at most.
LEMMA OneParent ==
  ASSUME NEW n, NEW l, NEW m, Len(l) \in Nat, Len(m) \in Nat, IsField(n, l), IsField(n, m)
  PROVE  l = m
<1>1. Len(l) + 1 = Len(m) + 1 /\ SubSeq(n, 1, Len(l)) = l /\ SubSeq(n, 1, Len(m)) = m
  BY DEF IsField
<1>2. Len(l) = Len(m)
  <2>1. \A i, j \in Nat : i + 1 = j + 1 => i = j
    OBVIOUS
  <2> QED
    BY <1>1, <2>1
<1> QED
  BY <1>1, <1>2

LEMMA FieldOfOne ==
  ASSUME NEW r, NEW b, Sound(r.vars), Sound(b.vars), Apart(r, b),
         NEW p \in 1..Number(r, b), NEW q \in 1..Number(r, b), NEW n,
         IsField(n, Name(r, b, p)), IsField(n, Name(r, b, q))
  PROVE  p = q
<1>1. Len(Name(r, b, p)) \in Nat /\ Len(Name(r, b, q)) \in Nat
  BY NumberTypes
<1>2. Name(r, b, p) = Name(r, b, q)
  BY <1>1, OneParent
<1> QED
  BY <1>2, NamesTell

\* What a registry has under its numbers depends on its names only.
LEMMA SameNames ==
  ASSUME NEW r, NEW s, NEW b, s.vars.names = r.vars.names
  PROVE  /\ Count(s) = Count(r) /\ Number(s, b) = Number(r, b) /\ OwnIds(s, b) = OwnIds(r, b)
         /\ \A id : Name(s, b, id) = Name(r, b, id)
         /\ \A p, out : Kids(s, b, p, out) = Kids(r, b, p, out)
<1>1. Count(s) = Count(r) /\ Number(s, b) = Number(r, b) /\ OwnIds(s, b) = OwnIds(r, b)
  BY DEF Count, Number, OwnIds
<1>2. \A id : Name(s, b, id) = Name(r, b, id)
  BY DEF Name
<1>3. \A p, out : Kids(s, b, p, out) = Kids(r, b, p, out)
  BY <1>1, <1>2 DEF Kids
<1> QED
  BY <1>1, <1>2, <1>3

\* The fields of a name are a finite set of numbers.
LEMMA KidsAreNumbers ==
  ASSUME NEW r, NEW b, Sound(r.vars), Sound(b.vars), NEW p, NEW out
  PROVE  /\ Kids(r, b, p, out) \subseteq OwnIds(r, b) \ out
         /\ Kids(r, b, p, out) \subseteq 1..Number(r, b)
         /\ IsFiniteSet(Kids(r, b, p, out))
         /\ Cardinality(Kids(r, b, p, out)) \in Nat
<1> DEFINE S == Kids(r, b, p, out)
<1>1. S \subseteq OwnIds(r, b) \ out
  BY DEF Kids
<1>2. S \subseteq 1..Number(r, b) /\ Number(r, b) \in Nat
  BY <1>1, NumberTypes
<1> HIDE DEF S
<1>3. IsFiniteSet(1..Number(r, b))
  BY <1>2, FS_Interval
<1>4. IsFiniteSet(S)
  BY <1>2, <1>3, FS_Subset
<1>5. Cardinality(S) \in Nat
  BY <1>4, FS_CardinalityType
<1> QED
  BY <1>1, <1>2, <1>4, <1>5 DEF S

-------------------------------------------------------------------------------
(* Linking.                                                                *)

\* Registry s is r with another node for id.
IsSet(s, r, b, id, node) ==
  /\ Shaped(s) /\ HasNodes(s, b) /\ s.vars = r.vars
  /\ \A q \in 1..Number(r, b) : HasNode(s, b, q) <=> HasNode(r, b, q)
  /\ Node(s, b, id) = node
  /\ \A q \in 1..Number(r, b) : HasNode(r, b, q) /\ q # id => Node(s, b, q) = Node(r, b, q)

LEMMA SetNodeSets ==
  ASSUME NEW r, NEW b, Sound(r.vars), Sound(b.vars), Shaped(r), HasNodes(r, b),
         NEW id \in 1..Number(r, b), HasNode(r, b, id), NEW node \in Nodes
  PROVE  IsSet(SetNode(r, b, id, node), r, b, id, node)
<1> DEFINE s == SetNode(r, b, id, node)
           m == Count(b)
<1>1. /\ m \in Nat /\ Count(r) \in Nat /\ Number(r, b) = m + Count(r)
      /\ \A q \in 1..Number(r, b) : /\ q \in Nat /\ (q <= m => q \in 1..m)
                                    /\ ~(q <= m) => q - m \in 1..Count(r)
  BY NumberTypes
<1>2. /\ r = [vars |-> r.vars, nodes |-> r.nodes, map |-> r.map]
      /\ r.nodes \in Seq(Nodes) /\ Len(r.nodes) = Count(r)
      /\ DOMAIN r.map \subseteq 1..m /\ r.map \in [DOMAIN r.map -> Nodes]
  BY DEF Shaped, HasNodes
<1>3. CASE id <= m
  <2> DEFINE other == [r.map EXCEPT ![id] = node]
  <2>1. s = [r EXCEPT !.map = other]
    BY <1>3 DEF SetNode
  <2>2. id \in DOMAIN r.map
    BY <1>1, <1>3 DEF HasNode
  <2>3. /\ DOMAIN other = DOMAIN r.map /\ other \in [DOMAIN other -> Nodes]
        /\ other[id] = node
        /\ \A q \in DOMAIN r.map : q # id => other[q] = r.map[q]
    BY <1>2, <2>2
  <2> HIDE DEF other, s
  <2>4. Shaped(s) /\ s.vars = r.vars /\ s.nodes = r.nodes /\ s.map = other
    BY <1>2, <2>1 DEF Shaped
  <2>5. Count(s) = Count(r)
    BY <2>4 DEF Count
  <2>6. HasNodes(s, b)
    BY <1>2, <2>3, <2>4, <2>5 DEF HasNodes
  <2>7. \A q : HasNode(s, b, q) <=> HasNode(r, b, q)
    BY <2>3, <2>4 DEF HasNode
  <2>8. Node(s, b, id) = node
    BY <1>3, <2>3, <2>4 DEF Node
  <2>9. \A q \in 1..Number(r, b) : HasNode(r, b, q) /\ q # id => Node(s, b, q) = Node(r, b, q)
    BY <1>1, <2>3, <2>4 DEF Node, HasNode
  <2> QED
    BY <2>4, <2>6, <2>7, <2>8, <2>9 DEF IsSet, s
<1>4. CASE ~(id <= m)
  <2> DEFINE other == [r.nodes EXCEPT ![id - m] = node]
  <2>1. s = [r EXCEPT !.nodes = other]
    BY <1>4 DEF SetNode
  <2>2. id - m \in 1..Len(r.nodes)
    BY <1>1, <1>2, <1>4
  <2>3. /\ other \in Seq(Nodes) /\ Len(other) = Len(r.nodes)
        /\ other[id - m] = node
        /\ \A k \in 1..Len(r.nodes) : k # id - m => other[k] = r.nodes[k]
    BY <1>2, <2>2
  <2> HIDE DEF other, s
  <2>4. Shaped(s) /\ s.vars = r.vars /\ s.nodes = other /\ s.map = r.map
    BY <1>2, <2>1 DEF Shaped
  <2>5. Count(s) = Count(r)
    BY <2>4 DEF Count
  <2>6. HasNodes(s, b)
    BY <1>2, <2>3, <2>4, <2>5 DEF HasNodes
  <2>7. \A q : HasNode(s, b, q) <=> HasNode(r, b, q)
    BY <2>4 DEF HasNode
  <2>8. Node(s, b, id) = node
    BY <1>4, <2>3, <2>4 DEF Node
  <2>9. ASSUME NEW q \in 1..Number(r, b), q # id PROVE Node(s, b, q) = Node(r, b, q)
    <3>1. CASE q <= m
      BY <2>4, <3>1 DEF Node
    <3>2. CASE ~(q <= m)
      <4>1. q - m \in 1..Len(r.nodes) /\ q - m # id - m
        BY <1>1, <1>2, <1>4, <2>9, <3>2
      <4>2. other[q - m] = r.nodes[q - m]
        BY <2>3, <4>1
      <4> QED
        BY <2>4, <3>2, <4>2 DEF Node
    <3> QED
      BY <3>1, <3>2
  <2> QED
    BY <2>4, <2>6, <2>7, <2>8, <2>9 DEF IsSet, s
<1> QED
  BY <1>3, <1>4

\* What a node of p begins with in a registry that has none yet.
CopyOf(b, p) == [type |-> b.nodes[p].type, number |-> b.nodes[p].number, child |-> NoId, sibling |-> NoId]

NodeOrCopy(r, b, p) == IF HasNode(r, b, p) THEN Node(r, b, p) ELSE CopyOf(b, p)

\* The nodes of a main registry.
HasTypes(b) ==
  \A p \in 1..Count(b) :
    b.nodes[p].type \in Types /\ b.nodes[p].number \in Nat /\ (b.nodes[p].type = "struct" <=> b.nodes[p].number # 0)

\* Registry s is r with a node for p.
IsMapped(s, r, b, p) ==
  /\ Shaped(s) /\ HasNodes(s, b) /\ s.vars = r.vars
  /\ \A q \in 1..Number(r, b) : HasNode(s, b, q) <=> HasNode(r, b, q) \/ q = p
  /\ Node(s, b, p) = NodeOrCopy(r, b, p)
  /\ \A q \in 1..Number(r, b) : HasNode(r, b, q) => Node(s, b, q) = Node(r, b, q)

LEMMA MapNodeMaps ==
  ASSUME NEW r, NEW b, Sound(r.vars), Sound(b.vars), Shaped(r), HasNodes(r, b), HasTypes(b),
         NEW p \in 1..Number(r, b)
  PROVE  IsMapped(MapNode(r, b, p), r, b, p)
<1> DEFINE s == MapNode(r, b, p)
<1>1. CASE HasNode(r, b, p)
  <2>1. s = r
    BY <1>1 DEF MapNode
  <2> HIDE DEF s
  <2>2. NodeOrCopy(r, b, p) = Node(r, b, p)
    BY <1>1 DEF NodeOrCopy
  <2> QED
    BY <1>1, <2>1, <2>2 DEF IsMapped, s
<1>2. CASE ~HasNode(r, b, p)
  <2> DEFINE copied == [i \in DOMAIN r.map \union {p} |-> IF i = p THEN CopyOf(b, p) ELSE r.map[i]]
  <2>1. s = [r EXCEPT !.map = copied]
    BY <1>2 DEF MapNode, CopyOf
  <2>2. /\ r = [vars |-> r.vars, nodes |-> r.nodes, map |-> r.map]
        /\ r.nodes \in Seq(Nodes) /\ Len(r.nodes) = Count(r)
        /\ DOMAIN r.map \subseteq 1..Count(b) /\ r.map \in [DOMAIN r.map -> Nodes]
    BY DEF Shaped, HasNodes
  <2>3. p <= Count(b) /\ p \notin DOMAIN r.map /\ p \in 1..Count(b)
    <3>1. /\ Count(b) \in Nat /\ Count(r) \in Nat /\ Number(r, b) = Count(b) + Count(r)
          /\ \A q \in 1..Number(r, b) : q \in Nat
      BY NumberTypes
    <3>2. ~(p > Count(b)) /\ p \notin DOMAIN r.map
      BY <1>2 DEF HasNode
    <3> QED
      BY <3>1, <3>2
  <2>4. CopyOf(b, p) \in Nodes
    BY <2>3 DEF HasTypes, CopyOf, Nodes, NoId
  <2>5. /\ DOMAIN copied = DOMAIN r.map \union {p} /\ copied \in [DOMAIN copied -> Nodes]
        /\ copied[p] = CopyOf(b, p)
        /\ \A i \in DOMAIN r.map : copied[i] = r.map[i]
    <3>1. DOMAIN copied = DOMAIN r.map \union {p}
      OBVIOUS
    <3>2. \A i \in DOMAIN r.map \union {p} : copied[i] \in Nodes
      BY <2>2, <2>4
    <3>3. copied = [i \in DOMAIN copied |-> copied[i]]
      BY <3>1
    <3>4. copied[p] = CopyOf(b, p) /\ \A i \in DOMAIN r.map : copied[i] = r.map[i]
      BY <2>3
    <3> HIDE DEF copied
    <3> QED
      BY <3>1, <3>2, <3>3, <3>4
  <2> HIDE DEF copied, s
  <2>6. Shaped(s) /\ s.vars = r.vars /\ s.nodes = r.nodes /\ s.map = copied
    BY <2>1, <2>2 DEF Shaped
  <2>7. Count(s) = Count(r)
    BY <2>6 DEF Count
  <2>8. HasNodes(s, b)
    BY <2>2, <2>3, <2>5, <2>6, <2>7 DEF HasNodes
  <2>9. \A q : HasNode(s, b, q) <=> HasNode(r, b, q) \/ q = p
    BY <2>5, <2>6 DEF HasNode
  <2>10. Node(s, b, p) = NodeOrCopy(r, b, p)
    BY <1>2, <2>3, <2>5, <2>6 DEF Node, NodeOrCopy
  <2>11. ASSUME NEW q \in 1..Number(r, b), HasNode(r, b, q) PROVE Node(s, b, q) = Node(r, b, q)
    <3>1. CASE q <= Count(b)
      <4>1. q \in DOMAIN r.map
        <5>1. q \in Nat /\ Count(b) \in Nat
          BY NumberTypes
        <5> QED
          BY <2>11, <3>1, <5>1 DEF HasNode
      <4> QED
        BY <2>5, <2>6, <3>1, <4>1 DEF Node
    <3>2. CASE ~(q <= Count(b))
      BY <2>6, <3>2 DEF Node
    <3> QED
      BY <3>1, <3>2
  <2> QED
    BY <2>6, <2>8, <2>9, <2>10, <2>11 DEF IsMapped, s
<1> QED
  BY <1>1, <1>2

\* Registry l is r after id was linked as the first field of p.
IsJoined(l, r, b, p, id) ==
  /\ Shaped(l) /\ HasNodes(l, b) /\ l.vars = r.vars
  /\ \A q \in 1..Number(r, b) : HasNode(l, b, q) <=> HasNode(r, b, q) \/ q = p
  /\ Node(l, b, p) = [NodeOrCopy(r, b, p) EXCEPT !.child = id, !.type = "struct", !.number = @ + 1]
  /\ Node(l, b, id) = [Node(r, b, id) EXCEPT !.sibling = NodeOrCopy(r, b, p).child]
  /\ \A q \in 1..Number(r, b) : HasNode(r, b, q) /\ q # p /\ q # id => Node(l, b, q) = Node(r, b, q)

LEMMA NodeTypes ==
  ASSUME NEW r, NEW b, Sound(r.vars), Sound(b.vars), HasNodes(r, b), NEW p \in 1..Number(r, b), HasNode(r, b, p)
  PROVE  Node(r, b, p) \in Nodes
<1>1. /\ Count(b) \in Nat /\ Count(r) \in Nat /\ Number(r, b) = Count(b) + Count(r) /\ p \in Nat
      /\ ~(p <= Count(b)) => p - Count(b) \in 1..Count(r)
  BY NumberTypes
<1>2. /\ r.nodes \in Seq(Nodes) /\ Len(r.nodes) = Count(r) /\ r.map \in [DOMAIN r.map -> Nodes]
  BY DEF HasNodes
<1>3. CASE p <= Count(b)
  BY <1>1, <1>2, <1>3 DEF HasNode, Node
<1>4. CASE ~(p <= Count(b))
  BY <1>1, <1>2, <1>4 DEF Node
<1> QED
  BY <1>3, <1>4

LEMMA LinkJoins ==
  ASSUME NEW r, NEW b, Sound(r.vars), Sound(b.vars), Shaped(r), HasNodes(r, b), HasTypes(b),
         NEW p \in 1..Number(r, b), NEW id \in OwnIds(r, b), p # id
  PROVE  IsJoined(Link(r, b, p, id), r, b, p, id)
<1> DEFINE m == MapNode(r, b, p)
           node == Node(m, b, p)
           first == [Node(m, b, id) EXCEPT !.sibling = node.child]
           s == SetNode(m, b, id, first)
           second == [node EXCEPT !.child = id, !.type = "struct", !.number = @ + 1]
           l == SetNode(s, b, p, second)
<1>1. id \in 1..Number(r, b) /\ id \in Nat /\ p \in Nat /\ p # 0 /\ ~(id <= Count(b)) /\ Count(b) \in Nat
  BY NumberTypes
<1>2. Link(r, b, p, id) = l
  BY <1>1 DEF Link, NoId
<1>3. IsMapped(m, r, b, p)
  BY MapNodeMaps
<1> HIDE DEF m, l
<1>4. Number(m, b) = Number(r, b) /\ Sound(m.vars) /\ Shaped(m) /\ HasNodes(m, b) /\ m.vars = r.vars
  BY <1>3, SameNames DEF IsMapped
<1>5. HasNode(m, b, id) /\ HasNode(m, b, p) /\ HasNode(r, b, id)
  BY <1>1, <1>3 DEF IsMapped, HasNode
<1>6. Node(m, b, id) \in Nodes /\ node \in Nodes
  BY <1>1, <1>4, <1>5, NodeTypes
<1>7. /\ Node(m, b, id) = Node(r, b, id)
      /\ node = NodeOrCopy(r, b, p)
  BY <1>1, <1>3, <1>5 DEF IsMapped
<1> HIDE DEF node
<1>8. first \in Nodes /\ second \in Nodes
  <2>1. \A n \in Nodes : \A c \in Nat : [n EXCEPT !.sibling = c] \in Nodes
    BY DEF Nodes
  <2>2. ASSUME NEW n \in Nodes, NEW c \in Nat
        PROVE  [n EXCEPT !.child = c, !.type = "struct", !.number = @ + 1] \in Nodes
    <3>1. n.number \in Nat
      BY DEF Nodes
    <3>2. n.number + 1 \in Nat
      BY <3>1
    <3>3. \A k \in Nat : [n EXCEPT !.child = c, !.type = "struct", !.number = k] \in Nodes
      BY DEF Nodes, Types
    <3>4. [n EXCEPT !.child = c, !.type = "struct", !.number = @ + 1]
            = [n EXCEPT !.child = c, !.type = "struct", !.number = n.number + 1]
      BY DEF Nodes
    <3> QED
      BY <3>2, <3>3, <3>4
  <2>3. node.child \in Nat
    BY <1>6 DEF Nodes
  <2> QED
    BY <1>1, <1>6, <2>1, <2>2, <2>3
<1> HIDE DEF first, second
<1>9. IsSet(s, m, b, id, first)
  BY <1>1, <1>4, <1>5, <1>8, SetNodeSets
<1> HIDE DEF s
<1>10. Number(s, b) = Number(r, b) /\ Sound(s.vars) /\ Shaped(s) /\ HasNodes(s, b) /\ s.vars = m.vars
  BY <1>4, <1>9, SameNames DEF IsSet
<1>11. HasNode(s, b, p)
  BY <1>4, <1>5, <1>9 DEF IsSet
<1>12. IsSet(l, s, b, p, second)
  BY <1>8, <1>10, <1>11, SetNodeSets DEF l
<1>13. Shaped(l) /\ HasNodes(l, b) /\ l.vars = r.vars
  BY <1>4, <1>10, <1>12 DEF IsSet
<1>14. \A q \in 1..Number(r, b) : HasNode(l, b, q) <=> HasNode(r, b, q) \/ q = p
  BY <1>3, <1>4, <1>9, <1>10, <1>12 DEF IsSet, IsMapped
<1>15. Node(l, b, p) = second /\ Node(l, b, id) = first
  <2>1. HasNode(s, b, id)
    BY <1>1, <1>4, <1>5, <1>9 DEF IsSet
  <2> QED
    BY <1>1, <1>9, <1>10, <1>12, <2>1 DEF IsSet
<1>16. ASSUME NEW q \in 1..Number(r, b), HasNode(r, b, q), q # p, q # id PROVE Node(l, b, q) = Node(r, b, q)
  <2>1. HasNode(m, b, q) /\ Node(m, b, q) = Node(r, b, q)
    BY <1>3, <1>16 DEF IsMapped
  <2>2. HasNode(s, b, q) /\ Node(s, b, q) = Node(m, b, q)
    BY <1>4, <1>9, <1>16, <2>1 DEF IsSet
  <2>3. Node(l, b, q) = Node(s, b, q)
    BY <1>10, <1>12, <1>16, <2>2 DEF IsSet
  <2> QED
    BY <2>1, <2>2, <2>3
<1>17. second = [NodeOrCopy(r, b, p) EXCEPT !.child = id, !.type = "struct", !.number = @ + 1]
  BY <1>7 DEF second
<1>18. first = [Node(r, b, id) EXCEPT !.sibling = NodeOrCopy(r, b, p).child]
  BY <1>7 DEF first
<1> QED
  BY <1>2, <1>13, <1>14, <1>15, <1>16, <1>17, <1>18 DEF IsJoined

\* A name that has its place among the linked ones, behind all fields of its parent, is linked.
LEMMA LinkLinks ==
  ASSUME NEW r, NEW b, Sound(r.vars), Sound(b.vars), Apart(r, b), Shaped(r), HasTypes(b),
         NEW out, IsLinked(r, b, out), NEW id \in OwnIds(r, b), id \in out,
         NEW p \in 1..Number(r, b), IsField(Name(r, b, id), Name(r, b, p)),
         \A c \in Kids(r, b, p, out) : c < id
  PROVE  IsLinked(Link(r, b, p, id), b, out \ {id})
<1> DEFINE l == Link(r, b, p, id)
           rest == out \ {id}
           old(q) == Kids(r, b, q, out)
           new(q) == Kids(l, b, q, rest)
           of == NodeOrCopy(r, b, p)
<1>1. /\ id \in 1..Number(r, b) /\ id \in Nat /\ ~(id <= Count(b)) /\ Count(b) \in Nat
      /\ Len(Name(r, b, p)) \in Nat
      /\ \A q \in 1..Number(r, b) : q \in Nat /\ (q \in OwnIds(r, b) <=> ~(q <= Count(b)))
  BY NumberTypes
<1>2. p # id
  BY <1>1 DEF IsField
<1>3. HasNodes(r, b)
  BY DEF IsLinked
<1>4. IsJoined(l, r, b, p, id)
  BY <1>2, <1>3, LinkJoins
<1> HIDE DEF l
<1>5. /\ Count(l) = Count(r) /\ Number(l, b) = Number(r, b) /\ OwnIds(l, b) = OwnIds(r, b)
      /\ \A q : Name(l, b, q) = Name(r, b, q)
      /\ \A q, o : Kids(l, b, q, o) = Kids(r, b, q, o)
  <2>1. l.vars.names = r.vars.names
    BY <1>4 DEF IsJoined
  <2>2. Count(l) = Count(r) /\ \A q : Name(l, b, q) = Name(r, b, q)
    BY <2>1 DEF Count, Name
  <2>3. Number(l, b) = Number(r, b) /\ OwnIds(l, b) = OwnIds(r, b)
    BY <2>2 DEF Number, OwnIds
  <2>4. ASSUME NEW q, NEW o PROVE Kids(l, b, q, o) = Kids(r, b, q, o)
    BY <2>2, <2>3 DEF Kids
  <2> QED
    BY <2>2, <2>3, <2>4
<1>6. /\ new(p) = old(p) \union {id} /\ id \notin old(p)
      /\ \A q \in 1..Number(r, b) : q # p => new(q) = old(q)
      /\ \A q \in 1..Number(r, b) : old(q) \subseteq OwnIds(r, b) /\ id \notin old(q)
  <2>1. \A q \in 1..Number(r, b) : IsField(Name(r, b, id), Name(r, b, q)) => q = p
    BY FieldOfOne
  <2>2. \A q \in 1..Number(r, b) : new(q) = {c \in OwnIds(r, b) \ rest : IsField(Name(r, b, c), Name(r, b, q))}
    BY <1>5 DEF Kids
  <2>3. \A q \in 1..Number(r, b) : old(q) = {c \in OwnIds(r, b) \ out : IsField(Name(r, b, c), Name(r, b, q))}
    BY DEF Kids
  <2>4. OwnIds(r, b) \ rest = (OwnIds(r, b) \ out) \union {id}
    OBVIOUS
  <2> HIDE DEF new, old, rest
  <2>5. new(p) = old(p) \union {id}
    BY <2>2, <2>3, <2>4
  <2>6. \A q \in 1..Number(r, b) : q # p => new(q) = old(q)
    BY <2>1, <2>2, <2>3, <2>4
  <2> QED
    BY <2>3, <2>5, <2>6
<1>7. \A q \in 1..Number(r, b) :
        /\ HasNode(r, b, q) => Node(r, b, q) \in Nodes
        /\ q \in OwnIds(r, b) => HasNode(r, b, q)
        /\ ~HasNode(r, b, q) => q \in 1..Count(b)
  <2>1. \A q \in 1..Number(r, b) : HasNode(r, b, q) => Node(r, b, q) \in Nodes
    BY <1>3, NodeTypes
  <2> QED
    BY <1>1, <2>1 DEF HasNode
<1>8. \A q \in 1..Number(r, b) :
        IF HasNode(r, b, q)
        THEN /\ IsNewest(Node(r, b, q).child, old(q))
             /\ Node(r, b, q).number = ChildsOfBase(b, q) + Cardinality(old(q))
             /\ Node(r, b, q).type = "struct" <=> Node(r, b, q).number # 0
             /\ Node(r, b, q).sibling # NoId
                  => Node(r, b, q).sibling \in OwnIds(r, b) /\ Node(r, b, q).sibling < q
        ELSE old(q) = {}
  BY DEF IsLinked
<1>9. \A q \in 1..Number(r, b) : \A c \in old(q) : IsNewest(Node(r, b, c).sibling, {d \in old(q) : d < c})
  BY DEF IsLinked
<1>10. IsFiniteSet(old(p)) /\ Cardinality(old(p)) \in Nat
  BY KidsAreNumbers
<1>11. Cardinality(old(p) \union {id}) = Cardinality(old(p)) + 1
  BY <1>6, <1>10, FS_AddElement
<1>12. \A c \in old(p) : c < id
  OBVIOUS
<1> HIDE DEF old, new, rest
<1>13. /\ of \in Nodes
       /\ IsNewest(of.child, old(p))
       /\ of.number = ChildsOfBase(b, p) + Cardinality(old(p))
       /\ of.sibling # NoId => of.sibling \in OwnIds(r, b) /\ of.sibling < p
       /\ HasNode(r, b, p) => of = Node(r, b, p)
  <2>1. CASE HasNode(r, b, p)
    <3>1. of = Node(r, b, p)
      BY <2>1 DEF NodeOrCopy
    <3> HIDE DEF of
    <3> QED
      BY <1>7, <1>8, <2>1, <3>1
  <2>2. CASE ~HasNode(r, b, p)
    <3>1. of = CopyOf(b, p) /\ p \in 1..Count(b) /\ p <= Count(b) /\ old(p) = {}
      BY <1>1, <1>7, <1>8, <2>2 DEF NodeOrCopy
    <3> HIDE DEF of
    <3>2. Cardinality(old(p)) = 0
      BY <3>1, FS_EmptySet
    <3>3. b.nodes[p].type \in Types /\ b.nodes[p].number \in Nat
      BY <3>1 DEF HasTypes
    <3>4. /\ of.type = b.nodes[p].type /\ of.number = b.nodes[p].number
          /\ of.child = NoId /\ of.sibling = NoId /\ of \in Nodes
      BY <3>1, <3>3 DEF CopyOf, Nodes, NoId
    <3>5. ChildsOfBase(b, p) = b.nodes[p].number
      BY <3>1 DEF ChildsOfBase
    <3> QED
      BY <2>2, <3>1, <3>2, <3>3, <3>4, <3>5 DEF IsNewest
  <2> QED
    BY <2>1, <2>2
<1> HIDE DEF of
<1>14. /\ Node(l, b, p).child = id /\ Node(l, b, p).type = "struct"
       /\ Node(l, b, p).number = of.number + 1 /\ Node(l, b, p).sibling = of.sibling
  <2>1. \A n \in Nodes : LET t == [n EXCEPT !.child = id, !.type = "struct", !.number = @ + 1]
                         IN  t.child = id /\ t.type = "struct" /\ t.number = n.number + 1 /\ t.sibling = n.sibling
    BY DEF Nodes
  <2>2. Node(l, b, p) = [of EXCEPT !.child = id, !.type = "struct", !.number = @ + 1]
    BY <1>4 DEF IsJoined, of
  <2> QED
    BY <1>13, <2>1, <2>2
<1>15. /\ Node(l, b, id).sibling = of.child /\ Node(l, b, id).child = Node(r, b, id).child
       /\ Node(l, b, id).number = Node(r, b, id).number /\ Node(l, b, id).type = Node(r, b, id).type
  <2>1. \A n \in Nodes : \A c \in Nat : LET t == [n EXCEPT !.sibling = c]
                         IN  t.child = n.child /\ t.type = n.type /\ t.number = n.number /\ t.sibling = c
    BY DEF Nodes
  <2>2. Node(l, b, id) = [Node(r, b, id) EXCEPT !.sibling = of.child]
    BY <1>4 DEF IsJoined, of
  <2>3. Node(r, b, id) \in Nodes /\ of.child \in Nat
    BY <1>1, <1>7, <1>13 DEF Nodes
  <2> QED
    BY <2>1, <2>2, <2>3
<1>16. ASSUME NEW q \in 1..Number(r, b), HasNode(r, b, q), q # p, q # id PROVE Node(l, b, q) = Node(r, b, q)
  BY <1>4, <1>16 DEF IsJoined
<1>17. ASSUME NEW q \in 1..Number(r, b)
       PROVE  IF HasNode(l, b, q)
              THEN /\ IsNewest(Node(l, b, q).child, new(q))
                   /\ Node(l, b, q).number = ChildsOfBase(b, q) + Cardinality(new(q))
                   /\ Node(l, b, q).type = "struct" <=> Node(l, b, q).number # 0
                   /\ Node(l, b, q).sibling # NoId
                        => Node(l, b, q).sibling \in OwnIds(r, b) /\ Node(l, b, q).sibling < q
              ELSE new(q) = {}
  <2>0. HasNode(l, b, q) <=> HasNode(r, b, q) \/ q = p
    BY <1>4, <1>17 DEF IsJoined
  <2>1. CASE q = p
    <3>1. new(q) = old(p) \union {id}
      BY <1>6, <2>1
    <3>2. IsNewest(id, new(q))
      <4>1. \A c \in old(p) : c <= id
        <5>1. \A c \in old(p) : c \in Nat
          <6>1. \A c \in OwnIds(r, b) : c \in 1..Number(r, b)
            BY NumberTypes
          <6> QED
            BY <1>1, <1>6, <6>1
        <5> QED
          BY <1>1, <1>12, <5>1
      <4>2. id <= id
        BY <1>1
      <4> QED
        BY <3>1, <4>1, <4>2 DEF IsNewest
    <3>3. /\ of.number \in Nat /\ Node(l, b, q).number = of.number + 1
          /\ of.number = ChildsOfBase(b, q) + Cardinality(old(p))
          /\ Cardinality(new(q)) = Cardinality(old(p)) + 1
      BY <1>11, <1>13, <1>14, <2>1, <3>1 DEF Nodes
    <3>4. ChildsOfBase(b, q) \in Nat
      <4>1. CASE q <= Count(b)
        <5>1. q \in 1..Count(b)
          BY <1>1, <1>17, <4>1
        <5> QED
          BY <4>1, <5>1 DEF ChildsOfBase, HasTypes
      <4>2. CASE ~(q <= Count(b))
        BY <4>2 DEF ChildsOfBase
      <4> QED
        BY <4>1, <4>2
    <3>5. Node(l, b, q).number = ChildsOfBase(b, q) + Cardinality(new(q)) /\ Node(l, b, q).number # 0
      BY <1>10, <3>3, <3>4
    <3> QED
      BY <1>13, <1>14, <2>0, <2>1, <3>2, <3>5
  <2>2. CASE q = id
    <3>1. new(q) = old(q) /\ HasNode(r, b, q)
      BY <1>1, <1>2, <1>6, <1>7, <2>2
    <3>2. of.child # NoId => of.child \in OwnIds(r, b) /\ of.child < id
      <4>1. of.child # NoId => of.child \in old(p)
        BY <1>13 DEF IsNewest
      <4> QED
        BY <1>6, <1>12, <4>1
    <3> QED
      BY <1>8, <1>15, <2>0, <2>2, <3>1, <3>2
  <2>3. CASE q # p /\ q # id
    <3>1. new(q) = old(q) /\ (HasNode(l, b, q) <=> HasNode(r, b, q))
      BY <1>6, <2>0, <2>3
    <3>2. HasNode(r, b, q) => Node(l, b, q) = Node(r, b, q)
      BY <1>16, <2>3
    <3> QED
      BY <1>8, <3>1, <3>2
  <2> QED
    BY <2>1, <2>2, <2>3
<1>18. ASSUME NEW q \in 1..Number(r, b), NEW c \in new(q)
       PROVE  IsNewest(Node(l, b, c).sibling, {d \in new(q) : d < c})
  <2>1. ASSUME NEW k \in OwnIds(r, b), k # id PROVE Node(l, b, k).sibling = Node(r, b, k).sibling
    <3>1. k \in 1..Number(r, b) /\ HasNode(r, b, k)
      BY <1>7, <2>1, NumberTypes
    <3>2. CASE k = p
      BY <1>13, <1>14, <3>1, <3>2
    <3>3. CASE k # p
      BY <1>16, <2>1, <3>1, <3>3
    <3> QED
      BY <3>2, <3>3
  <2>2. CASE q = p /\ c = id
    <3>1. {d \in new(q) : d < c} = old(p)
      BY <1>1, <1>6, <1>12, <2>2
    <3> QED
      BY <1>13, <1>15, <2>2, <3>1
  <2>3. CASE ~(q = p /\ c = id)
    <3>1. c \in old(q) /\ c # id /\ c \in OwnIds(r, b)
      BY <1>6, <1>18, <2>3
    <3>2. {d \in new(q) : d < c} = {d \in old(q) : d < c}
      <4>1. CASE q = p
        <5>1. ~(id < c) /\ new(q) = old(q) \union {id}
          <6>1. c \in Nat /\ c < id
            BY <1>12, <3>1, <4>1, NumberTypes
          <6> QED
            BY <1>1, <1>6, <4>1, <6>1
        <5> QED
          BY <5>1
      <4>2. CASE q # p
        BY <1>6, <4>2
      <4> QED
        BY <4>1, <4>2
    <3>3. Node(l, b, c).sibling = Node(r, b, c).sibling
      BY <2>1, <3>1
    <3>4. IsNewest(Node(r, b, c).sibling, {d \in old(q) : d < c})
      BY <1>9, <3>1
    <3> QED
      BY <3>2, <3>3, <3>4
  <2> QED
    BY <2>2, <2>3
<1>19. HasParents(l, b, rest)
  <2>1. HasParents(r, b, out)
    BY DEF IsLinked
  <2> QED
    BY <1>5, <2>1 DEF HasParents, rest
<1>20. HasNodes(l, b)
  BY <1>4 DEF IsJoined
<1> QED
  BY <1>5, <1>17, <1>18, <1>19, <1>20 DEF IsLinked, l, new, rest

-------------------------------------------------------------------------------
(* Registering.                                                            *)

LEMMA Beginnings ==
  ASSUME NEW name \in Names, NEW k \in 1..Len(name)
  PROVE  /\ Len(SubSeq(name, 1, k)) = k
         /\ k < Len(name) => IsField(SubSeq(name, 1, k + 1), SubSeq(name, 1, k))
         /\ SubSeq(name, 1, Len(name)) = name
<1> DEFINE S == {name[i] : i \in 1..Len(name)}
<1>1. name \in Seq(S) /\ Len(name) \in Nat
  BY NamesAreSequences
<1> HIDE DEF S
<1>2. ASSUME NEW j \in 1..Len(name)
      PROVE  /\ SubSeq(name, 1, j) \in Seq(S) /\ Len(SubSeq(name, 1, j)) = j
             /\ \A i \in 1..j : SubSeq(name, 1, j)[i] = name[i]
  BY <1>1
<1>3. ASSUME k < Len(name) PROVE SubSeq(SubSeq(name, 1, k + 1), 1, k) = SubSeq(name, 1, k)
  <2> DEFINE t == SubSeq(name, 1, k + 1)
             u == SubSeq(name, 1, k)
             v == SubSeq(t, 1, k)
  <2>1. k + 1 \in 1..Len(name) /\ k \in 1..(k + 1)
    BY <1>1, <1>3
  <2>2. t \in Seq(S) /\ Len(t) = k + 1 /\ \A i \in 1..(k + 1) : t[i] = name[i]
    BY <1>2, <2>1
  <2>3. u \in Seq(S) /\ Len(u) = k /\ \A i \in 1..k : u[i] = name[i]
    BY <1>2
  <2> HIDE DEF t, u
  <2>4. v \in Seq(S) /\ Len(v) = k /\ \A i \in 1..k : v[i] = t[i]
    BY <2>1, <2>2
  <2>5. \A i \in 1..k : v[i] = u[i]
    BY <2>2, <2>3, <2>4
  <2> HIDE DEF v
  <2>6. v = u
    BY <2>3, <2>4, <2>5
  <2> QED
    BY <2>6 DEF t, u, v
<1>4. SubSeq(name, 1, Len(name)) = name
  <2> DEFINE w == SubSeq(name, 1, Len(name))
  <2>1. Len(name) \in 1..Len(name)
    BY <1>1
  <2>2. w \in Seq(S) /\ Len(w) = Len(name) /\ \A i \in 1..Len(name) : w[i] = name[i]
    BY <1>2, <2>1
  <2> HIDE DEF w
  <2>3. w = name
    BY <1>1, <2>2
  <2> QED
    BY <2>3 DEF w
<1>5. Len(SubSeq(name, 1, k)) = k
  BY <1>2
<1>6. ASSUME k < Len(name) PROVE Len(SubSeq(name, 1, k + 1)) = k + 1
  BY <1>1, <1>2, <1>6
<1> QED
  BY <1>3, <1>4, <1>5, <1>6 DEF IsField

\* Registry i is r with one more name, behind the others.
IsAdded(i, r, b, name) ==
  LET n == Number(r, b) + 1
  IN  /\ Number(i, b) = n
      /\ \A c : c \in OwnIds(i, b) <=> c \in OwnIds(r, b) \/ c = n
      /\ \A c : c \in 1..Number(i, b) <=> c \in 1..Number(r, b) \/ c = n
      /\ Name(i, b, n) = name
      /\ \A c \in 1..Number(r, b) : Name(i, b, c) = Name(r, b, c)

LEMMA AddedBehind ==
  ASSUME NEW r, NEW i, NEW b, Sound(r.vars), Sound(b.vars), NEW name,
         i.vars.names = Append(r.vars.names, name)
  PROVE  IsAdded(i, r, b, name)
<1>1. Count(b) \in Nat /\ Count(r) \in Nat /\ Number(r, b) = Count(b) + Count(r)
  BY NumberTypes
<1>2. r.vars.names \in Seq(Names) /\ Count(r) = Len(r.vars.names)
  BY DEF Sound, Count
<1>3. /\ Len(i.vars.names) = Count(r) + 1 /\ i.vars.names[Count(r) + 1] = name
      /\ \A k \in 1..Count(r) : i.vars.names[k] = r.vars.names[k]
  <2> DEFINE l == r.vars.names
  <2>1. l \in Seq(Names) /\ i.vars.names = Append(l, name) /\ Count(r) = Len(l)
    BY <1>2
  <2> HIDE DEF l
  <2>2. /\ Len(Append(l, name)) = Len(l) + 1 /\ Append(l, name)[Len(l) + 1] = name
        /\ \A k \in 1..Len(l) : Append(l, name)[k] = l[k]
    BY <2>1
  <2> QED
    BY <2>1, <2>2 DEF l
<1>4. Count(i) = Count(r) + 1
  BY <1>3 DEF Count
<1>5. Number(i, b) = Number(r, b) + 1
  BY <1>1, <1>4 DEF Number
<1>6. \A c : c \in OwnIds(i, b) <=> c \in OwnIds(r, b) \/ c = Number(r, b) + 1
  <2>1. \A m, k \in Nat : \A c : c \in (m + 1)..((m + k) + 1) <=> c \in (m + 1)..(m + k) \/ c = (m + k) + 1
    OBVIOUS
  <2>2. OwnIds(i, b) = (Count(b) + 1)..((Count(b) + Count(r)) + 1)
    BY <1>1, <1>5 DEF OwnIds
  <2>3. OwnIds(r, b) = (Count(b) + 1)..(Count(b) + Count(r))
    BY <1>1 DEF OwnIds
  <2> QED
    BY <1>1, <2>1, <2>2, <2>3
<1>7. \A c : c \in 1..Number(i, b) <=> c \in 1..Number(r, b) \/ c = Number(r, b) + 1
  BY <1>1, <1>5
<1>8. Name(i, b, Number(r, b) + 1) = name
  <2>1. ~(Number(r, b) + 1 <= Count(b)) /\ (Number(r, b) + 1) - Count(b) = Count(r) + 1
    BY <1>1
  <2>2. Name(i, b, Number(r, b) + 1) = i.vars.names[(Number(r, b) + 1) - Count(b)]
    BY <2>1 DEF Name
  <2> QED
    BY <1>3, <2>1, <2>2
<1>9. ASSUME NEW c \in 1..Number(r, b) PROVE Name(i, b, c) = Name(r, b, c)
  <2>1. CASE c <= Count(b)
    BY <2>1 DEF Name
  <2>2. CASE ~(c <= Count(b))
    <3>1. c - Count(b) \in 1..Count(r)
      BY <1>1, <2>2
    <3> QED
      BY <1>3, <2>2, <3>1 DEF Name
  <2> QED
    BY <2>1, <2>2
<1> QED
  BY <1>5, <1>6, <1>7, <1>8, <1>9 DEF IsAdded

\* A name that is added has no fields that are linked, and is not linked itself.
LEMMA InsertLinks ==
  ASSUME NEW r, NEW b, Built(r, b), Sound(b.vars), NEW out, IsLinked(r, b, out), out \subseteq OwnIds(r, b),
         NEW name \in Names, Search(r, b, name) = NoId
  PROVE  LET i == InsertNode(r, name)
         IN  /\ IsAdded(i, r, b, name)
             /\ IsLinked(i, b, out \union {Number(i, b)})
<1> DEFINE i == InsertNode(r, name)
           n == Number(r, b) + 1
           more == out \union {n}
           fresh == [type |-> "text", number |-> 0, child |-> NoId, sibling |-> NoId]
           nodes == Append(r.nodes, fresh)
<1>1. /\ Count(b) \in Nat /\ Count(r) \in Nat /\ Number(r, b) = Count(b) + Count(r)
      /\ n \in Nat /\ ~(n <= Count(b)) /\ n \notin 1..Number(r, b)
      /\ \A c \in OwnIds(r, b) : c \in 1..Number(r, b) /\ ~(c <= Count(b))
      /\ \A c \in 1..Number(r, b) : c \in Nat /\ Name(r, b, c) \in Names /\ Len(Name(r, b, c)) \in Nat \ {0}
      /\ \A c \in 1..Number(r, b) : c > Count(b) => c - Count(b) \in 1..Count(r)
  BY NumberTypes DEF Built
<1>2. /\ r = [vars |-> r.vars, nodes |-> r.nodes, map |-> r.map] /\ Sound(r.vars)
      /\ r.nodes \in Seq(Nodes) /\ Len(r.nodes) = Count(r)
      /\ DOMAIN r.map \subseteq 1..Count(b) /\ r.map \in [DOMAIN r.map -> Nodes]
  BY DEF Built, Shaped, IsLinked, HasNodes
<1>3. i.vars.names = Append(r.vars.names, name)
  BY InsertNodeAdds
<1>4. fresh \in Nodes
  BY DEF Nodes, Types, NoId
<1>5. /\ nodes \in Seq(Nodes) /\ Len(nodes) = Count(r) + 1 /\ nodes[Count(r) + 1] = fresh
      /\ \A k \in 1..Count(r) : nodes[k] = r.nodes[k]
  <2> HIDE DEF fresh
  <2> QED
    BY <1>1, <1>2, <1>4
<1>6. i = [r EXCEPT !.vars = AddName(r.vars, name), !.nodes = nodes]
  BY DEF InsertNode
<1> HIDE DEF i, nodes
<1>7. i.nodes = nodes /\ i.map = r.map
  BY <1>2, <1>6
<1>8. IsAdded(i, r, b, name)
  BY <1>2, <1>3, AddedBehind
<1>9. Count(i) = Count(r) + 1 /\ Number(i, b) = n
  <2>1. r.vars.names \in Seq(Names)
    BY <1>2 DEF Sound
  <2> QED
    BY <1>3, <1>8, <2>1 DEF Count, IsAdded
<1>10. HasNodes(i, b)
  BY <1>2, <1>5, <1>7, <1>9 DEF HasNodes
<1>11. ASSUME NEW q \in 1..Number(r, b)
       PROVE  /\ HasNode(i, b, q) <=> HasNode(r, b, q)
              /\ Node(i, b, q) = Node(r, b, q)
  <2>1. HasNode(i, b, q) <=> HasNode(r, b, q)
    BY <1>7 DEF HasNode
  <2>2. CASE q <= Count(b)
    BY <1>7, <2>1, <2>2 DEF Node
  <2>3. CASE ~(q <= Count(b))
    <3>1. q - Count(b) \in 1..Count(r)
      BY <1>1, <2>3
    <3> QED
      BY <1>5, <1>7, <2>1, <2>3, <3>1 DEF Node
  <2> QED
    BY <2>2, <2>3, <2>1
<1>12. HasNode(i, b, n) /\ Node(i, b, n) = fresh
  <2>1. n > Count(b) /\ n - Count(b) = Count(r) + 1
    BY <1>1
  <2> QED
    BY <1>1, <1>5, <1>7, <2>1 DEF HasNode, Node
<1>13. ASSUME NEW q \in 1..Number(r, b) PROVE Kids(i, b, q, more) = Kids(r, b, q, out)
  <2>1. \A c : c \in OwnIds(i, b) \ more <=> c \in OwnIds(r, b) \ out
    BY <1>1, <1>8 DEF IsAdded
  <2>2. \A c \in OwnIds(r, b) : Name(i, b, c) = Name(r, b, c)
    BY <1>1, <1>8 DEF IsAdded
  <2>3. Name(i, b, q) = Name(r, b, q)
    BY <1>8 DEF IsAdded
  <2> HIDE DEF more
  <2> QED
    BY <2>1, <2>2, <2>3 DEF Kids
<1>14. \A q \in 1..Number(r, b) : Name(r, b, q) # name
  <2>1. Search(r, b, name) = NoId /\ ~HasName(r.vars, name) /\ ~HasName(b.vars, name)
    <3>1. ASSUME HasName(r.vars, name) \/ HasName(b.vars, name) PROVE FALSE
      BY <1>1, <1>2, <3>1, SearchFinds DEF NoId
    <3> QED
      BY <3>1
  <2>2. /\ \A q \in OwnIds(r, b) : q - Count(b) \in 1..Len(r.vars.names) /\ Name(r, b, q) = r.vars.names[q - Count(b)]
        /\ \A q \in 1..Count(b) : q \in 1..Len(b.vars.names) /\ Name(r, b, q) = b.vars.names[q]
        /\ \A q \in 1..Number(r, b) : q \in OwnIds(r, b) \/ q \in 1..Count(b)
    <3>1. /\ \A q \in OwnIds(r, b) : q - Count(b) \in 1..Count(r) /\ Name(r, b, q) = r.vars.names[q - Count(b)]
          /\ \A q \in 1..Count(b) : Name(r, b, q) = b.vars.names[q]
          /\ Count(b) \in Nat
          /\ \A q \in 1..Number(r, b) : q \in Nat /\ (q \in OwnIds(r, b) <=> ~(q <= Count(b)))
      BY <1>2, NumberTypes
    <3>2. Count(r) = Len(r.vars.names) /\ Count(b) = Len(b.vars.names)
      BY DEF Count
    <3>3. \A q \in 1..Number(r, b) : q <= Count(b) => q \in 1..Count(b)
      BY <3>1
    <3> QED
      BY <3>1, <3>2, <3>3
  <2> QED
    BY <2>1, <2>2 DEF HasName
<1>15. HasParents(r, b, out)
  BY DEF IsLinked
<1>16. Kids(i, b, n, more) = {}
  <2>1. ASSUME NEW c \in OwnIds(r, b) \ out, IsField(Name(r, b, c), name) PROVE FALSE
    <3>1. Len(name) \in Nat \ {0}
      BY NamesAreOrdered
    <3>2. Len(Name(r, b, c)) > 1
      BY <2>1, <3>1 DEF IsField
    <3>3. PICK p \in 1..Number(r, b) : IsField(Name(r, b, c), Name(r, b, p))
      BY <1>15, <2>1, <3>2 DEF HasParents
    <3>4. Name(r, b, p) = name
      BY <1>1, <2>1, <3>1, <3>3, OneParent
    <3> QED
      BY <1>14, <3>4
  <2>2. \A c : c \in OwnIds(i, b) \ more => c \in OwnIds(r, b) \ out /\ Name(i, b, c) = Name(r, b, c)
    BY <1>1, <1>8 DEF IsAdded
  <2>3. Name(i, b, n) = name
    BY <1>8 DEF IsAdded
  <2> HIDE DEF more, n
  <2> QED
    BY <2>1, <2>2, <2>3 DEF Kids
<1>17. ASSUME NEW q \in 1..Number(i, b)
       PROVE  IF HasNode(i, b, q)
              THEN /\ IsNewest(Node(i, b, q).child, Kids(i, b, q, more))
                   /\ Node(i, b, q).number = ChildsOfBase(b, q) + Cardinality(Kids(i, b, q, more))
                   /\ Node(i, b, q).type = "struct" <=> Node(i, b, q).number # 0
                   /\ Node(i, b, q).sibling # NoId
                        => Node(i, b, q).sibling \in OwnIds(i, b) /\ Node(i, b, q).sibling < q
              ELSE Kids(i, b, q, more) = {}
  <2>1. CASE q \in 1..Number(r, b)
    <3>1. IF HasNode(r, b, q)
          THEN /\ IsNewest(Node(r, b, q).child, Kids(r, b, q, out))
               /\ Node(r, b, q).number = ChildsOfBase(b, q) + Cardinality(Kids(r, b, q, out))
               /\ Node(r, b, q).type = "struct" <=> Node(r, b, q).number # 0
               /\ Node(r, b, q).sibling # NoId => Node(r, b, q).sibling \in OwnIds(r, b) /\ Node(r, b, q).sibling < q
          ELSE Kids(r, b, q, out) = {}
      BY <2>1 DEF IsLinked
    <3>2. \A c \in OwnIds(r, b) : c \in OwnIds(i, b)
      BY <1>8 DEF IsAdded
    <3> HIDE DEF more, n
    <3> QED
      BY <1>11, <1>13, <2>1, <3>1, <3>2
  <2>2. CASE q = n
    <3>1. Cardinality(Kids(i, b, q, more)) = 0
      BY <1>16, <2>2, FS_EmptySet
    <3>2. ChildsOfBase(b, q) = 0
      BY <1>1, <2>2 DEF ChildsOfBase
    <3>3. /\ Node(i, b, q).child = NoId /\ Node(i, b, q).number = 0
          /\ Node(i, b, q).type = "text" /\ Node(i, b, q).sibling = NoId
      BY <1>12, <2>2
    <3> QED
      BY <1>12, <1>16, <2>2, <3>1, <3>2, <3>3 DEF IsNewest
  <2> QED
    BY <1>8, <2>1, <2>2 DEF IsAdded
<1>18. ASSUME NEW q \in 1..Number(i, b), NEW c \in Kids(i, b, q, more)
       PROVE  IsNewest(Node(i, b, c).sibling, {d \in Kids(i, b, q, more) : d < c})
  <2>1. q \in 1..Number(r, b)
    BY <1>8, <1>16 DEF IsAdded
  <2>2. Kids(i, b, q, more) = Kids(r, b, q, out)
    BY <1>13, <2>1
  <2>3. c \in Kids(r, b, q, out) /\ c \in 1..Number(r, b)
    BY <1>1, <2>2 DEF Kids
  <2>4. IsNewest(Node(r, b, c).sibling, {d \in Kids(r, b, q, out) : d < c})
    BY <2>1, <2>3 DEF IsLinked
  <2>5. Node(i, b, c) = Node(r, b, c)
    BY <1>11, <2>3
  <2> QED
    BY <2>2, <2>4, <2>5
<1>19. HasParents(i, b, more)
  <2>1. SUFFICES ASSUME NEW c \in OwnIds(i, b) \ more, Len(Name(i, b, c)) > 1
                 PROVE  \E p \in 1..Number(i, b) : IsField(Name(i, b, c), Name(i, b, p))
    BY DEF HasParents
  <2>2. c \in OwnIds(r, b) \ out /\ Name(i, b, c) = Name(r, b, c)
    BY <1>1, <1>8 DEF IsAdded
  <2>3. PICK p \in 1..Number(r, b) : IsField(Name(r, b, c), Name(r, b, p))
    BY <1>15, <2>1, <2>2 DEF HasParents
  <2>4. p \in 1..Number(i, b) /\ Name(i, b, p) = Name(r, b, p)
    BY <1>8 DEF IsAdded
  <2> QED
    BY <2>2, <2>3, <2>4
<1>20. IsLinked(i, b, more)
  BY <1>10, <1>17, <1>18, <1>19 DEF IsLinked
<1> QED
  BY <1>8, <1>9, <1>20 DEF i

\* A name of one component is a field of none.
LEMMA FirstLinks ==
  ASSUME NEW r, NEW b, Sound(r.vars), Sound(b.vars), NEW out, IsLinked(r, b, out),
         NEW id \in OwnIds(r, b), Len(Name(r, b, id)) = 1
  PROVE  IsLinked(r, b, out \ {id})
<1> DEFINE rest == out \ {id}
<1>1. \A q \in 1..Number(r, b) : ~IsField(Name(r, b, id), Name(r, b, q))
  <2>1. \A q \in 1..Number(r, b) : Len(Name(r, b, q)) \in Nat \ {0}
    BY NumberTypes
  <2> QED
    BY <2>1 DEF IsField
<1>2. \A q \in 1..Number(r, b) : Kids(r, b, q, rest) = Kids(r, b, q, out)
  <2>1. ASSUME NEW q \in 1..Number(r, b) PROVE Kids(r, b, q, rest) = Kids(r, b, q, out)
    BY <1>1 DEF Kids
  <2> QED
    BY <2>1
<1>3. HasParents(r, b, rest)
  <2>1. HasParents(r, b, out)
    BY DEF IsLinked
  <2>2. ASSUME NEW c \in OwnIds(r, b) \ rest, Len(Name(r, b, c)) > 1
        PROVE  \E q \in 1..Number(r, b) : IsField(Name(r, b, c), Name(r, b, q))
    <3>1. c # id
      <4>1. ~(1 > 1)
        OBVIOUS
      <4> QED
        BY <2>2, <4>1
    <3>2. c \in OwnIds(r, b) \ out
      BY <2>2, <3>1
    <3> QED
      BY <2>1, <2>2, <3>2 DEF HasParents
  <2> QED
    BY <2>2 DEF HasParents
<1> HIDE DEF rest
<1> QED
  BY <1>2, <1>3 DEF IsLinked, rest

\* Where the loop of Registrate is after k turns: the full name is registered and not yet linked.
Underway(acc, b, name, full, k) ==
  /\ IsLinked(acc.r, b, {full})
  /\ full \in OwnIds(acc.r, b) /\ Name(acc.r, b, full) = name
  /\ IF k = 0
     THEN acc.parent = NoId
     ELSE acc.parent \in 1..Number(acc.r, b) /\ Name(acc.r, b, acc.parent) = SubSeq(name, 1, k)
  /\ \A c \in OwnIds(acc.r, b) : c > full => Len(Name(acc.r, b, c)) <= k

LEMMA PrefixLinks ==
  ASSUME NEW acc, NEW b, Going(acc, b), Sound(b.vars), HasTypes(b), NEW name \in Names, NEW full,
         NEW k \in 1..(Len(name) - 1), Underway(acc, b, name, full, k - 1)
  PROVE  Underway(RegistratePrefix(acc, b, name, k), b, name, full, k)
<1> DEFINE prefix == SubSeq(name, 1, k)
           id == Search(acc.r, b, prefix)
           i == InsertNode(acc.r, prefix)
           n == Number(i, b)
           l == Link(i, b, acc.parent, n)
           next == RegistratePrefix(acc, b, name, k)
<1>1. next = IF id # NoId THEN [acc EXCEPT !.parent = id] ELSE [r |-> l, parent |-> n]
  BY DEF RegistratePrefix
<1>2. acc = [r |-> acc.r, parent |-> acc.parent] /\ Built(acc.r, b) /\ Sound(acc.r.vars) /\ Apart(acc.r, b)
  BY DEF Going, Built
<1>3. /\ Len(name) \in Nat /\ k \in Nat /\ k # 0 /\ k \in 1..Len(name) /\ k < Len(name)
      /\ prefix \in Names /\ Len(prefix) = k
  BY NamesAreOrdered, NamesAreClosed, Beginnings
<1>4. /\ Number(acc.r, b) \in Nat /\ Count(b) \in Nat
      /\ \A c \in OwnIds(acc.r, b) : c \in 1..Number(acc.r, b) /\ Len(Name(acc.r, b, c)) \in Nat
      /\ \A c \in 1..Number(acc.r, b) : c \in Nat
  BY <1>2, NumberTypes
<1>5. /\ IsLinked(acc.r, b, {full})
      /\ full \in OwnIds(acc.r, b) /\ Name(acc.r, b, full) = name
      /\ \A c \in OwnIds(acc.r, b) : c > full => Len(Name(acc.r, b, c)) <= k - 1
      /\ k - 1 = 0 => acc.parent = NoId
      /\ k - 1 # 0 => /\ acc.parent \in 1..Number(acc.r, b)
                      /\ Name(acc.r, b, acc.parent) = SubSeq(name, 1, k - 1)
  BY DEF Underway
<1>6. CASE id # NoId
  <2>1. id \in 1..Number(acc.r, b) /\ Name(acc.r, b, id) = prefix
    <3>1. /\ \A c \in OwnIds(acc.r, b) : Name(acc.r, b, c) = acc.r.vars.names[c - Count(b)]
          /\ \A c \in 1..Count(b) : c \in 1..Number(acc.r, b) /\ Name(acc.r, b, c) = b.vars.names[c]
          /\ OwnIds(acc.r, b) = (Count(b) + 1)..(Count(b) + Count(acc.r))
      BY <1>2, NumberTypes DEF OwnIds
    <3>2. \/ id \in OwnIds(acc.r, b) /\ acc.r.vars.names[id - Count(b)] = prefix
          \/ id \in 1..Count(b) /\ b.vars.names[id] = prefix
      <4> HIDE DEF prefix
      <4> QED
        BY <1>2, <1>3, <1>6, <3>1, SearchFinds
    <3> QED
      BY <1>4, <3>1, <3>2
  <2> HIDE DEF id, next
  <2>2. next.r = acc.r /\ next.parent = id
    BY <1>1, <1>2, <1>6
  <2>3. \A c \in OwnIds(acc.r, b) : c > full => Len(Name(acc.r, b, c)) <= k
    BY <1>3, <1>4, <1>5
  <2> QED
    BY <1>3, <1>5, <2>1, <2>2, <2>3 DEF Underway, next
<1>7. CASE id = NoId
  <2> DEFINE out == {full} \union {n}
  <2>1. IsAdded(i, acc.r, b, prefix) /\ IsLinked(i, b, out) /\ Built(i, b) /\ Sound(i.vars) /\ Apart(i, b) /\ Shaped(i)
    <3>1. Built(i, b)
      BY <1>2, <1>3, <1>7, InsertNodeAdds
    <3>2. {full} \subseteq OwnIds(acc.r, b)
      BY <1>5
    <3>3. IsAdded(i, acc.r, b, prefix) /\ IsLinked(i, b, {full} \union {Number(i, b)})
      <4> HIDE DEF prefix
      <4> QED
        BY <1>2, <1>3, <1>5, <1>7, <3>2, InsertLinks
    <3> HIDE DEF i
    <3> QED
      BY <3>1, <3>3 DEF Built
  <2>2. /\ n = Number(acc.r, b) + 1
        /\ OwnIds(i, b) = OwnIds(acc.r, b) \union {n}
        /\ 1..Number(i, b) = 1..Number(acc.r, b) \union {n}
        /\ Name(i, b, n) = prefix
        /\ \A c \in 1..Number(acc.r, b) : Name(i, b, c) = Name(acc.r, b, c)
    BY <2>1 DEF IsAdded
  <2> HIDE DEF i, n
  <2>3. /\ n \in OwnIds(i, b) /\ n \in out /\ n \in Nat /\ n # full
        /\ full \in OwnIds(i, b) /\ Name(i, b, full) = name /\ out \ {n} = {full}
    BY <1>4, <1>5, <2>2
  <2>4. IsLinked(l, b, {full}) /\ l.vars = i.vars
    <3>1. CASE k = 1
      <4>1. l = i
        BY <1>5, <3>1 DEF Link
      <4>2. Len(Name(i, b, n)) = 1
        BY <1>3, <2>2, <3>1
      <4>3. IsLinked(i, b, out \ {n})
        BY <2>1, <2>3, <4>2, FirstLinks
      <4> QED
        BY <2>3, <4>1, <4>3
    <3>2. CASE k # 1
      <4>1. k - 1 \in 1..Len(name) /\ k - 1 < Len(name) /\ (k - 1) + 1 = k /\ k - 1 # 0
        BY <1>3, <3>2
      <4>2. IsField(prefix, SubSeq(name, 1, k - 1))
        BY <4>1, Beginnings
      <4> DEFINE p == acc.parent
      <4>3. p \in 1..Number(i, b) /\ IsField(Name(i, b, n), Name(i, b, p))
        BY <1>5, <2>2, <4>1, <4>2
      <4>4. \A c \in Kids(i, b, p, out) : c < n
        <5>1. \A c \in Kids(i, b, p, out) : c \in OwnIds(acc.r, b)
          BY <2>2, <2>3 DEF Kids
        <5> QED
          BY <1>4, <2>2, <5>1
      <4> HIDE DEF p, out
      <4>5. IsLinked(Link(i, b, p, n), b, out \ {n})
        BY <2>1, <2>3, <4>3, <4>4, LinkLinks
      <4>6. Link(i, b, p, n).vars = i.vars
        BY <2>1, LinkedIsBuilt
      <4> QED
        BY <2>3, <4>5, <4>6 DEF p
    <3> QED
      BY <3>1, <3>2
  <2> HIDE DEF l
  <2>5. /\ Count(l) = Count(i) /\ Number(l, b) = Number(i, b) /\ OwnIds(l, b) = OwnIds(i, b)
        /\ \A c : Name(l, b, c) = Name(i, b, c)
    <3>1. l.vars.names = i.vars.names
      BY <2>4
    <3>2. Count(l) = Count(i) /\ \A c : Name(l, b, c) = Name(i, b, c)
      BY <3>1 DEF Count, Name
    <3> QED
      BY <3>2 DEF Number, OwnIds
  <2>6. \A c \in OwnIds(i, b) : c > full => Len(Name(i, b, c)) <= k
    <3>1. ASSUME NEW c \in OwnIds(acc.r, b), c > full PROVE Len(Name(i, b, c)) <= k
      <4>1. Name(i, b, c) = Name(acc.r, b, c) /\ Len(Name(acc.r, b, c)) <= k - 1 /\ Len(Name(acc.r, b, c)) \in Nat
        BY <1>4, <1>5, <2>2, <3>1
      <4> QED
        BY <1>3, <4>1
    <3>2. Len(Name(i, b, n)) <= k
      BY <1>3, <2>2
    <3> QED
      BY <2>2, <3>1, <3>2
  <2>7. n \in 1..Number(l, b) /\ Name(l, b, n) = prefix
    BY <2>2, <2>5
  <2> HIDE DEF id, next
  <2>8. next.r = l /\ next.parent = n
    BY <1>1, <1>7
  <2> QED
    BY <1>3, <2>3, <2>4, <2>5, <2>6, <2>7, <2>8 DEF Underway, next
<1> QED
  BY <1>6, <1>7

\* Whatever name is registered, with the beginnings it lacks, all that is registered is linked.
LEMMA RegistrateLinks ==
  ASSUME NEW r, NEW b, Built(r, b), Sound(b.vars), HasTypes(b), IsLinked(r, b, {}), NEW name \in Names
  PROVE  IsLinked(Registrate(r, b, name), b, {})
<1>1. CASE Search(r, b, name) # NoId
  <2>1. Registrate(r, b, name) = r
    BY <1>1, Zenon DEF Registrate
  <2> QED
    BY <2>1
<1>2. CASE Search(r, b, name) = NoId
  <2> DEFINE i == InsertNode(r, name)
             full == Number(i, b)
             n == Len(name) - 1
  <2>1. PICK e : /\ e[0] = [r |-> i, parent |-> NoId]
                 /\ \A k \in 1..(Len(name) - 1) : e[k] = RegistratePrefix(e[k - 1], b, name, k)
                 /\ Registrate(r, b, name) = Link(e[n].r, b, e[n].parent, full)
    BY <1>2, RegistrateTurns
  <2>2. n \in Nat /\ Len(name) \in Nat /\ Len(name) \in 1..Len(name) /\ n + 1 = Len(name)
    BY NamesAreOrdered
  <2>3. \A m \in Nat : m <= n => Going(e[m], b)
    BY <1>2, <2>1, PrefixesAreRegistered
  <2>4. IsAdded(i, r, b, name) /\ IsLinked(i, b, {full}) /\ Built(i, b)
    <3>1. IsLinked(i, b, {} \union {full})
      BY <1>2, InsertLinks
    <3>2. IsAdded(i, r, b, name) /\ Built(i, b)
      BY <1>2, InsertLinks, InsertNodeAdds
    <3> QED
      BY <3>1, <3>2
  <2> DEFINE S == {m \in Nat : m <= n => Underway(e[m], b, name, full, m)}
  <2>5. 0 \in S
    <3>1. e[0].r = i /\ e[0].parent = NoId
      BY <2>1
    <3>2. full \in OwnIds(i, b) /\ Name(i, b, full) = name
      BY <2>4 DEF IsAdded
    <3>3. \A c \in OwnIds(i, b) : ~(c > full)
      <4>1. /\ Number(i, b) \in Nat
            /\ \A c \in OwnIds(i, b) : c \in 1..Number(i, b)
        BY <2>4, NumberTypes DEF Built
      <4> QED
        BY <4>1
    <3> HIDE DEF i, full, n
    <3>4. Underway(e[0], b, name, full, 0)
      BY <2>4, <3>1, <3>2, <3>3 DEF Underway
    <3> QED
      BY <3>4
  <2>6. ASSUME NEW m \in Nat, m \in S PROVE m + 1 \in S
    <3> HIDE DEF i, full
    <3> SUFFICES ASSUME m + 1 <= n PROVE Underway(e[m + 1], b, name, full, m + 1)
      OBVIOUS
    <3>1. Underway(e[m], b, name, full, m) /\ m <= n
      BY <2>2, <2>6
    <3>2. m + 1 \in 1..(Len(name) - 1) /\ (m + 1) - 1 = m
      BY <2>2
    <3>3. Going(e[m], b)
      BY <2>3, <3>1
    <3>4. e[m + 1] = RegistratePrefix(e[m], b, name, m + 1)
      BY <2>1, <3>2
    <3>5. Underway(e[m], b, name, full, (m + 1) - 1)
      BY <3>1, <3>2
    <3> QED
      BY <3>2, <3>3, <3>4, <3>5, PrefixLinks
  <2> HIDE DEF S, i, full
  <2>7. Underway(e[n], b, name, full, n)
    <3>1. n \in S
      BY <2>2, <2>5, <2>6, NaturalSet
    <3> QED
      BY <2>2, <3>1 DEF S
  <2> DEFINE s == e[n].r
             p == e[n].parent
  <2>8. Built(s, b) /\ Sound(s.vars) /\ Apart(s, b) /\ Shaped(s)
    <3>1. n \in Nat /\ n <= n
      BY <2>2
    <3>2. Going(e[n], b)
      BY <2>3, <3>1
    <3> QED
      BY <3>2 DEF Going, Built
  <2>9. /\ IsLinked(s, b, {full}) /\ full \in OwnIds(s, b) /\ Name(s, b, full) = name
        /\ n = 0 => p = NoId
        /\ n # 0 => p \in 1..Number(s, b) /\ Name(s, b, p) = SubSeq(name, 1, n)
        /\ \A c \in OwnIds(s, b) : c > full => Len(Name(s, b, c)) <= n
    BY <2>7 DEF Underway
  <2>10. Registrate(r, b, name) = Link(s, b, p, full)
    BY <2>1
  <2> HIDE DEF s, p
  <2>11. full \in {full} /\ {full} \ {full} = {}
    OBVIOUS
  <2>12. CASE n = 0
    <3>1. Link(s, b, p, full) = s
      BY <2>9, <2>12 DEF Link
    <3>2. Len(Name(s, b, full)) = 1
      <4>1. Len(name) = 1
        <5>1. \A k \in Nat : k - 1 = 0 => k = 1
          OBVIOUS
        <5> QED
          BY <2>2, <2>12, <5>1
      <4> QED
        BY <2>9, <4>1
    <3>3. IsLinked(s, b, {full} \ {full})
      BY <2>8, <2>9, <3>2, FirstLinks
    <3> QED
      BY <2>10, <2>11, <3>1, <3>3
  <2>13. CASE n # 0
    <3>1. n \in 1..Len(name) /\ n < Len(name)
      BY <2>2, <2>13
    <3>2. IsField(name, SubSeq(name, 1, n))
      <4>1. IsField(SubSeq(name, 1, n + 1), SubSeq(name, 1, n)) /\ SubSeq(name, 1, Len(name)) = name
        BY <3>1, Beginnings
      <4> QED
        BY <2>2, <4>1
    <3>3. p \in 1..Number(s, b) /\ IsField(Name(s, b, full), Name(s, b, p))
      BY <2>9, <2>13, <3>2
    <3>4. ASSUME NEW c \in Kids(s, b, p, {full}) PROVE c < full
      <4>1. /\ c \in OwnIds(s, b) /\ c # full
            /\ Len(Name(s, b, c)) = Len(Name(s, b, p)) + 1
        BY <3>4 DEF Kids, IsField
      <4>2. Len(Name(s, b, p)) = n
        BY <2>9, <2>13, <3>1, Beginnings
      <4>3. c \in Nat /\ full \in Nat
        BY <2>8, <2>9, <4>1, NumberTypes
      <4>4. ~(c > full)
        BY <2>2, <2>9, <4>1, <4>2
      <4> QED
        BY <4>1, <4>3, <4>4
    <3>5. IsLinked(Link(s, b, p, full), b, {full} \ {full})
      BY <2>8, <2>9, <2>11, <3>3, <3>4, LinkLinks
    <3> QED
      BY <2>10, <2>11, <3>5
  <2> QED
    BY <2>12, <2>13
<1> QED
  BY <1>1, <1>2

LEMMA EmptyIsLinked ==
  ASSUME NEW b, Sound(b.vars)
  PROVE  IsLinked(Empty, b, {})
<1>1. Count(Empty) = 0 /\ Empty.nodes = <<>> /\ Empty.map = <<>> /\ Sound(Empty.vars)
  BY EmptyIsSound DEF Empty, Count, EmptyIndex
<1>2. Number(Empty, b) = Count(b) /\ Count(b) \in Nat /\ OwnIds(Empty, b) = {}
  <2>1. Count(b) \in Nat /\ Number(Empty, b) = Count(b) + Count(Empty)
    BY <1>1, NumberTypes
  <2> QED
    BY <1>1, <2>1 DEF OwnIds
<1>3. \A p : Kids(Empty, b, p, {}) = {}
  BY <1>2 DEF Kids
<1>4. DOMAIN Empty.map = {}
  BY <1>1
<1>5. HasNodes(Empty, b)
  BY <1>1, <1>4 DEF HasNodes
<1>6. \A p \in 1..Number(Empty, b) : ~HasNode(Empty, b, p)
  BY <1>2, <1>4 DEF HasNode
<1>7. HasParents(Empty, b, {})
  BY <1>2 DEF HasParents
<1> QED
  BY <1>3, <1>5, <1>6, <1>7 DEF IsLinked

LEMMA CreateLinks ==
  ASSUME NEW b, Sound(b.vars), HasTypes(b)
  PROVE  IsLinked(Create(Autos, b), b, {})
<1>1. PICK e : /\ e[0] = Empty
               /\ \A k \in 1..Len(Autos) : e[k] = Registrate(e[k - 1], b, Autos[k])
               /\ Create(Autos, b) = e[Len(Autos)]
  BY CreateTurns
<1> DEFINE S == {m \in Nat : m <= Len(Autos) => Built(e[m], b) /\ IsLinked(e[m], b, {})}
<1>2. Len(Autos) \in Nat /\ \A k \in 1..Len(Autos) : Autos[k] \in Names
  BY AutosArePlain
<1>3. 0 \in S
  BY <1>1, EmptyIsBuilt, EmptyIsLinked
<1>4. ASSUME NEW m \in Nat, m \in S PROVE m + 1 \in S
  <2> SUFFICES ASSUME m + 1 <= Len(Autos) PROVE Built(e[m + 1], b) /\ IsLinked(e[m + 1], b, {})
    OBVIOUS
  <2>1. Built(e[m], b) /\ IsLinked(e[m], b, {}) /\ m + 1 \in 1..Len(Autos) /\ (m + 1) - 1 = m
    BY <1>2, <1>4
  <2>2. e[m + 1] = Registrate(e[m], b, Autos[m + 1]) /\ Autos[m + 1] \in Names
    BY <1>1, <1>2, <2>1
  <2> QED
    BY <2>1, <2>2, RegistrateKeeps, RegistrateLinks
<1>5. Len(Autos) \in S
  <2> HIDE DEF S
  <2> QED
    BY <1>2, <1>3, <1>4, NaturalSet
<1> QED
  BY <1>1, <1>2, <1>5

-------------------------------------------------------------------------------
(* Chains.                                                                 *)

\* The numbers a chain may come to.
Links(r, b) == {NoId} \union {i \in 1..Number(r, b) : HasNode(r, b, i)}

ChainTurn(r, b, g, c) == IF c = NoId THEN <<>> ELSE <<c>> \o g[Node(r, b, c).sibling]

\* Chains end, as every number is followed by a smaller one.
LEMMA ChainEnds ==
  ASSUME NEW r, NEW b, Sound(r.vars), Sound(b.vars), NEW out, IsLinked(r, b, out)
  PROVE  \E g : /\ \A c \in Links(r, b) : g[c] = ChainTurn(r, b, g, c)
                /\ \A p : Chain(r, b, p) = g[Node(r, b, p).child]
<1> DEFINE D == Links(r, b)
           N == Number(r, b)
           Below(m) == {c \in D : c <= m}
           Runs(g, m) == g = [c \in Below(m) |-> ChainTurn(r, b, g, c)]
           S == {m \in Nat : \E g : Runs(g, m)}
<1>1. /\ N \in Nat /\ Count(b) \in Nat /\ D \subseteq Nat /\ 0 \in D /\ \A c \in D : c <= N
      /\ \A c \in OwnIds(r, b) : c \in D
  <2>1. /\ N \in Nat /\ Count(b) \in Nat /\ \A c \in 1..N : c \in Nat /\ c <= N
        /\ \A c \in OwnIds(r, b) : c \in 1..N /\ c > Count(b)
    <3>1. /\ N \in Nat /\ Count(b) \in Nat
          /\ \A c \in OwnIds(r, b) : c \in 1..N /\ ~(c <= Count(b))
      BY NumberTypes
    <3> QED
      BY <3>1
  <2>2. 0 <= N
    BY <2>1
  <2> QED
    BY <2>1, <2>2 DEF Links, NoId, HasNode
<1>2. \A c \in D : c # NoId => Node(r, b, c).sibling \in D /\ Node(r, b, c).sibling < c
  <2>1. ASSUME NEW c \in D, c # NoId PROVE Node(r, b, c).sibling \in D /\ Node(r, b, c).sibling < c
    <3>1. c \in 1..N /\ HasNode(r, b, c)
      BY <2>1 DEF Links
    <3>2. CASE Node(r, b, c).sibling = NoId
      BY <1>1, <3>1, <3>2 DEF NoId
    <3>3. CASE Node(r, b, c).sibling # NoId
      <4>1. Node(r, b, c).sibling \in OwnIds(r, b) /\ Node(r, b, c).sibling < c
        BY <3>1, <3>3 DEF IsLinked
      <4> QED
        BY <1>1, <4>1
    <3> QED
      BY <3>2, <3>3
  <2> QED
    BY <2>1
<1> HIDE DEF D, N
<1>3. 0 \in S
  <2> DEFINE g == [c \in {0} |-> <<>>]
  <2>1. Below(0) = {0}
    <3>1. \A c \in Nat : c <= 0 <=> c = 0
      OBVIOUS
    <3>2. \A c \in D : c \in Nat
      BY <1>1
    <3> QED
      BY <1>1, <3>1, <3>2
  <2>2. g = [c \in {0} |-> ChainTurn(r, b, g, c)]
    BY DEF ChainTurn, NoId
  <2> HIDE DEF g
  <2>3. Runs(g, 0)
    BY <2>1, <2>2
  <2> QED
    BY <2>3
<1>4. ASSUME NEW m \in Nat, m \in S PROVE m + 1 \in S
  <2>1. PICK g : Runs(g, m)
    BY <1>4
  <2> DEFINE h == [c \in Below(m + 1) |-> IF c <= m THEN g[c] ELSE ChainTurn(r, b, g, c)]
  <2>2. ASSUME NEW c \in Below(m + 1) PROVE h[c] = ChainTurn(r, b, h, c)
    <3>1. c \in D /\ c \in Nat /\ (c <= m \/ c = m + 1)
      BY <1>1
    <3>2. c # NoId => h[Node(r, b, c).sibling] = g[Node(r, b, c).sibling]
      <4>1. SUFFICES ASSUME c # NoId PROVE h[Node(r, b, c).sibling] = g[Node(r, b, c).sibling]
        OBVIOUS
      <4> DEFINE d == Node(r, b, c).sibling
      <4>2. d \in D /\ d < c
        BY <1>2, <3>1, <4>1
      <4> HIDE DEF d
      <4>3. d \in Nat /\ d <= m /\ d <= m + 1
        BY <1>1, <3>1, <4>2
      <4>4. h[d] = g[d]
        BY <4>2, <4>3
      <4> QED
        BY <4>4 DEF d
    <3>3. ChainTurn(r, b, h, c) = ChainTurn(r, b, g, c)
      <4> HIDE DEF h
      <4> QED
        BY <3>2 DEF ChainTurn
    <3>4. CASE c <= m
      <4>1. h[c] = g[c]
        BY <3>4
      <4>2. c \in Below(m)
        BY <3>1, <3>4
      <4> HIDE DEF h, Below
      <4>3. g[c] = ChainTurn(r, b, g, c)
        BY <2>1, <4>2
      <4> QED
        BY <3>3, <4>1, <4>3
    <3>5. CASE ~(c <= m)
      <4>1. h[c] = ChainTurn(r, b, g, c)
        BY <3>5
      <4> QED
        BY <3>3, <4>1
    <3> QED
      BY <3>4, <3>5
  <2>3. h = [c \in Below(m + 1) |-> h[c]]
    OBVIOUS
  <2> HIDE DEF h, Below
  <2>4. Runs(h, m + 1)
    BY <2>2, <2>3
  <2> QED
    BY <2>4
<1>5. PICK g : Runs(g, N)
  <2> HIDE DEF S
  <2>1. N \in S
    BY <1>1, <1>3, <1>4, NaturalSet
  <2> QED
    BY <2>1 DEF S
<1>6. Below(N) = D
  BY <1>1
<1> DEFINE e == CHOOSE f : f = [c \in {NoId} \union {i \in 1..Number(r, b) : HasNode(r, b, i)} |->
                   IF c = NoId THEN <<>> ELSE <<c>> \o f[Node(r, b, c).sibling]]
<1>7. \A p : Chain(r, b, p) = e[Node(r, b, p).child]
  BY Zenon DEF Chain
<1>8. e = CHOOSE f : f = [c \in D |-> ChainTurn(r, b, f, c)]
  BY Zenon DEF D, Links, ChainTurn
<1>9. g = [c \in D |-> ChainTurn(r, b, g, c)]
  BY <1>5, <1>6
<1> HIDE DEF e
<1>10. e = [c \in D |-> ChainTurn(r, b, e, c)]
  BY <1>8, <1>9
<1>11. \A c \in D : e[c] = ChainTurn(r, b, e, c)
  BY <1>10
<1> QED
  BY <1>7, <1>11 DEF D

LEMMA EmptyLists == IsListing(<<>>, {})
<1>1. <<>> \in Seq({}) /\ Len(<<>>) = 0
  OBVIOUS
<1>2. 1..Len(<<>>) = {}
  BY <1>1
<1> QED
  BY <1>1, <1>2 DEF IsListing

\* Two listings of sets that have nothing in common make one of both.
LEMMA ListsTogether ==
  ASSUME NEW s, NEW t, NEW S, NEW T, IsListing(s, S), IsListing(t, T), S \intersect T = {}
  PROVE  IsListing(s \o t, S \union T)
<1> DEFINE u == s \o t
           k == Len(s)
           l == Len(t)
<1>1. /\ s \in Seq(S) /\ t \in Seq(T)
      /\ \A i, j \in 1..k : s[i] = s[j] => i = j
      /\ \A i, j \in 1..l : t[i] = t[j] => i = j
      /\ \A c \in S : \E i \in 1..k : s[i] = c
      /\ \A c \in T : \E i \in 1..l : t[i] = c
  BY DEF IsListing
<1>2. k \in Nat /\ l \in Nat
  BY <1>1
<1>3. s \in Seq(S \union T) /\ t \in Seq(S \union T)
  BY <1>1
<1>4. /\ u \in Seq(S \union T) /\ Len(u) = k + l
      /\ \A i \in 1..k : u[i] = s[i]
      /\ \A i \in 1..(k + l) : ~(i <= k) => u[i] = t[i - k]
  BY <1>3
<1>5. /\ \A i \in 1..k : s[i] \in S
      /\ \A i \in 1..l : t[i] \in T
  BY <1>1
<1> HIDE DEF u, k, l
<1>6. \A i \in 1..(k + l) : /\ i \in Nat
                            /\ i <= k => i \in 1..k
                            /\ ~(i <= k) => i - k \in 1..l
  BY <1>2
<1>7. ASSUME NEW i \in 1..(k + l), NEW j \in 1..(k + l), u[i] = u[j] PROVE i = j
  <2>1. CASE i <= k /\ j <= k
    BY <1>1, <1>4, <1>6, <1>7, <2>1
  <2>2. CASE ~(i <= k) /\ ~(j <= k)
    <3>1. /\ i - k \in 1..l /\ j - k \in 1..l
          /\ u[i] = t[i - k] /\ u[j] = t[j - k]
      BY <1>4, <1>6, <2>2
    <3>2. t[i - k] = t[j - k]
      BY <1>7, <3>1
    <3>3. i - k = j - k
      BY <1>1, <3>1, <3>2
    <3> QED
      BY <1>2, <1>6, <3>3
  <2>3. CASE i <= k /\ ~(j <= k)
    <3>1. u[i] \in S /\ u[j] \in T
      BY <1>4, <1>5, <1>6, <2>3
    <3> QED
      BY <1>7, <3>1
  <2>4. CASE ~(i <= k) /\ j <= k
    <3>1. u[i] \in T /\ u[j] \in S
      BY <1>4, <1>5, <1>6, <2>4
    <3> QED
      BY <1>7, <3>1
  <2> QED
    BY <2>1, <2>2, <2>3, <2>4
<1>8. ASSUME NEW c \in S \union T PROVE \E i \in 1..(k + l) : u[i] = c
  <2>1. CASE c \in S
    <3>1. PICK i \in 1..k : s[i] = c
      BY <1>1, <2>1
    <3>2. i \in 1..(k + l)
      BY <1>2
    <3> QED
      BY <1>4, <3>1, <3>2
  <2>2. CASE c \in T
    <3>1. PICK i \in 1..l : t[i] = c
      BY <1>1, <2>2
    <3>2. k + i \in 1..(k + l) /\ ~(k + i <= k) /\ (k + i) - k = i
      BY <1>2
    <3>3. u[k + i] = t[i]
      BY <1>4, <3>2
    <3> QED
      BY <3>1, <3>2, <3>3
  <2> QED
    BY <2>1, <2>2
<1> QED
  BY <1>4, <1>7, <1>8 DEF IsListing, u

LEMMA OneListed ==
  ASSUME NEW c
  PROVE  IsListing(<<c>>, {c})
BY DEF IsListing

\* A listing is as long as its set is large.
LEMMA ListingCounts ==
  ASSUME NEW s, NEW S, IsListing(s, S)
  PROVE  Len(s) \in Nat /\ IsFiniteSet(S) /\ Cardinality(S) = Len(s)
<1>1. /\ s \in Seq(S) /\ Len(s) \in Nat
      /\ \A i, j \in 1..Len(s) : s[i] = s[j] => i = j
      /\ \A c \in S : \E i \in 1..Len(s) : s[i] = c
  BY DEF IsListing
<1>2. s \in [1..Len(s) -> S]
  BY <1>1
<1>3. s \in Bijection(1..Len(s), S)
  BY <1>1, <1>2 DEF Bijection, Injection, Surjection, IsInjective
<1>4. ExistsBijection(1..Len(s), S)
  BY <1>3 DEF ExistsBijection
<1> QED
  BY <1>1, <1>4, FS_CountingElements, FS_NatBijection

\* The chain of a name is its fields, each once.
LEMMA ChainLists ==
  ASSUME NEW r, NEW b, Sound(r.vars), Sound(b.vars), IsLinked(r, b, {}),
         NEW p \in 1..Number(r, b), HasNode(r, b, p)
  PROVE  IsListing(Chain(r, b, p), Kids(r, b, p, {}))
<1> DEFINE K == Kids(r, b, p, {})
           Upto(c) == {d \in K : d <= c}
           sibling(c) == Node(r, b, c).sibling
<1>1. PICK g : /\ \A c \in Links(r, b) : g[c] = ChainTurn(r, b, g, c)
               /\ \A q : Chain(r, b, q) = g[Node(r, b, q).child]
  BY ChainEnds
<1>2. /\ K \subseteq Nat \ {0} /\ K \subseteq Links(r, b)
  <2>1. K \subseteq OwnIds(r, b)
    BY KidsAreNumbers
  <2>2. \A c \in OwnIds(r, b) : c \in 1..Number(r, b) /\ ~(c <= Count(b)) /\ c \in Nat /\ c # 0 /\ Count(b) \in Nat
    <3>1. \A c \in OwnIds(r, b) : c \in 1..Number(r, b) /\ ~(c <= Count(b))
      BY NumberTypes
    <3>2. Count(b) \in Nat /\ Number(r, b) \in Nat
      BY NumberTypes
    <3> QED
      BY <3>1, <3>2
  <2>3. \A c \in OwnIds(r, b) : c > Count(b)
    BY <2>2
  <2> QED
    BY <2>1, <2>2, <2>3 DEF Links, HasNode
<1>3. \A c \in K : IsNewest(sibling(c), {d \in K : d < c})
  BY DEF IsLinked
<1>4. IsNewest(Node(r, b, p).child, K)
  BY DEF IsLinked
<1> HIDE DEF K
<1>5. g[NoId] = <<>>
  BY <1>1 DEF Links, ChainTurn
<1>6. \A c \in K : g[c] = <<c>> \o g[sibling(c)]
  BY <1>1, <1>2 DEF ChainTurn, NoId
<1> HIDE DEF sibling
<1> DEFINE S == {m \in Nat : \A c \in K : c <= m => IsListing(g[c], Upto(c))}
<1>7. 0 \in S
  BY <1>2
<1>8. ASSUME NEW m \in Nat, m \in S PROVE m + 1 \in S
  <2>1. SUFFICES ASSUME NEW c \in K, c = m + 1 PROVE IsListing(g[c], Upto(c))
    <3>1. ASSUME NEW c \in K, c <= m + 1 PROVE IsListing(g[c], Upto(c))
      <4>1. c <= m \/ c = m + 1
        BY <1>2, <3>1
      <4> QED
        BY <1>8, <2>1, <4>1
    <3> QED
      BY <3>1
  <2>2. IsListing(g[sibling(c)], {d \in K : d < c})
    <3>1. CASE {d \in K : d < c} = {}
      BY <1>3, <1>5, <3>1, EmptyLists DEF IsNewest
    <3>2. CASE {d \in K : d < c} # {}
      <4>1. /\ sibling(c) \in K /\ sibling(c) < c
            /\ \A d \in K : d < c => d <= sibling(c)
        BY <1>3, <3>2 DEF IsNewest
      <4>2. sibling(c) \in Nat /\ c \in Nat /\ \A d \in K : d \in Nat
        BY <1>2, <4>1
      <4>3. sibling(c) <= m
        BY <2>1, <4>1, <4>2
      <4>4. \A d \in K : d <= sibling(c) <=> d < c
        BY <4>1, <4>2
      <4>5. Upto(sibling(c)) = {d \in K : d < c}
        BY <4>4
      <4>6. IsListing(g[sibling(c)], Upto(sibling(c)))
        BY <1>8, <4>1, <4>3
      <4> QED
        BY <4>5, <4>6
    <3> QED
      BY <3>1, <3>2
  <2>3. Upto(c) = {c} \union {d \in K : d < c} /\ {c} \intersect {d \in K : d < c} = {}
    <3>1. c \in Nat /\ \A d \in K : d \in Nat
      BY <1>2
    <3>2. ~(c < c) /\ \A d \in K : d <= c <=> d = c \/ d < c
      BY <3>1
    <3> QED
      BY <3>2
  <2>4. IsListing(<<c>> \o g[sibling(c)], {c} \union {d \in K : d < c})
    BY <2>2, <2>3, OneListed, ListsTogether
  <2>5. g[c] = <<c>> \o g[sibling(c)]
    BY <1>6
  <2> HIDE DEF Upto
  <2> QED
    BY <2>3, <2>4, <2>5
<1>9. \A c \in K : IsListing(g[c], Upto(c))
  <2> HIDE DEF S
  <2>1. \A m \in Nat : m \in S
    BY <1>7, <1>8, NaturalSet
  <2>2. \A c \in K : c \in S /\ c <= c
    BY <1>2, <2>1
  <2> QED
    BY <2>2 DEF S
<1> DEFINE f == Node(r, b, p).child
<1>10. IsListing(g[f], K)
  <2> HIDE DEF f
  <2>1. CASE K = {}
    BY <1>4, <1>5, <2>1, EmptyLists DEF IsNewest, f
  <2>2. CASE K # {}
    <3>1. f \in K /\ \A d \in K : d <= f
      BY <1>4, <2>2 DEF IsNewest, f
    <3>2. Upto(f) = K
      BY <3>1
    <3> QED
      BY <1>9, <3>1, <3>2
  <2> QED
    BY <2>1, <2>2
<1> QED
  BY <1>1, <1>10 DEF K

-------------------------------------------------------------------------------
(* What is written and read.                                               *)

\* Registry s is what Save writes of r.
LEMMA SavedNodes ==
  ASSUME NEW r, NEW b, Sound(r.vars), Sound(b.vars), HasNodes(r, b)
  PROVE  LET s == Saved(r, b)
         IN  /\ s.vars.names = r.vars.names
             /\ DOMAIN s.nodes = 1..Count(r) /\ DOMAIN s.map = DOMAIN r.map
             /\ \A q \in 1..Number(r, b) :
                  /\ HasNode(s, b, q) <=> HasNode(r, b, q)
                  /\ HasNode(r, b, q) => Node(s, b, q) = [type |-> Node(r, b, q).type, number |-> Node(r, b, q).number,
                                                          childs |-> Chain(r, b, q)]
<1> DEFINE s == Saved(r, b)
           written(id) == [type |-> Node(r, b, id).type, number |-> Node(r, b, id).number, childs |-> Chain(r, b, id)]
<1>1. /\ s.vars = OpenedIndex(r.vars)
      /\ s.nodes = [i \in DOMAIN r.nodes |-> written(Count(b) + i)]
      /\ s.map = [i \in DOMAIN r.map |-> written(i)]
  BY DEF Saved
<1>2. s.vars.names = r.vars.names
  BY <1>1, OpenedIsSound
<1>3. r.nodes \in Seq(Nodes) /\ Len(r.nodes) = Count(r) /\ DOMAIN r.nodes = 1..Count(r)
  BY DEF HasNodes
<1>4. /\ Count(b) \in Nat
      /\ \A q \in 1..Number(r, b) : q \in Nat /\ (~(q <= Count(b)) => q - Count(b) \in 1..Count(r))
  BY NumberTypes
<1> HIDE DEF s, written
<1>5. DOMAIN s.nodes = 1..Count(r) /\ DOMAIN s.map = DOMAIN r.map
  BY <1>1, <1>3
<1>6. ASSUME NEW q \in 1..Number(r, b)
      PROVE  /\ HasNode(s, b, q) <=> HasNode(r, b, q)
             /\ HasNode(r, b, q) => Node(s, b, q) = written(q)
  <2>1. HasNode(s, b, q) <=> HasNode(r, b, q)
    BY <1>5 DEF HasNode
  <2>2. ASSUME HasNode(r, b, q) PROVE Node(s, b, q) = written(q)
    <3>1. CASE q <= Count(b)
      <4>1. q \in DOMAIN r.map
        BY <1>4, <2>2, <3>1 DEF HasNode
      <4> QED
        BY <1>1, <3>1, <4>1 DEF Node
    <3>2. CASE ~(q <= Count(b))
      <4>1. q - Count(b) \in DOMAIN r.nodes /\ Count(b) + (q - Count(b)) = q
        BY <1>3, <1>4, <3>2
      <4>2. s.nodes[q - Count(b)] = written(Count(b) + (q - Count(b)))
        BY <1>1, <4>1
      <4> QED
        BY <3>2, <4>1, <4>2 DEF Node
    <3> QED
      BY <3>1, <3>2
  <2> QED
    BY <2>1, <2>2
<1> QED
  BY <1>2, <1>5, <1>6 DEF s, written

LEMMA SavedIsOpened ==
  ASSUME NEW r, NEW b, Sound(r.vars), Sound(b.vars), IsLinked(r, b, {})
  PROVE  IsOpened(Saved(r, b), b)
<1> DEFINE s == Saved(r, b)
<1>1. HasNodes(r, b) /\ HasParents(r, b, {})
  BY DEF IsLinked
<1>2. /\ s.vars.names = r.vars.names
      /\ DOMAIN s.nodes = 1..Count(r) /\ DOMAIN s.map = DOMAIN r.map
      /\ \A q \in 1..Number(r, b) :
           /\ HasNode(s, b, q) <=> HasNode(r, b, q)
           /\ HasNode(r, b, q) => Node(s, b, q) = [type |-> Node(r, b, q).type, number |-> Node(r, b, q).number,
                                                   childs |-> Chain(r, b, q)]
  BY <1>1, SavedNodes
<1> HIDE DEF s
<1>3. /\ Count(s) = Count(r) /\ Number(s, b) = Number(r, b) /\ OwnIds(s, b) = OwnIds(r, b)
      /\ \A id : Name(s, b, id) = Name(r, b, id)
      /\ \A p, out : Kids(s, b, p, out) = Kids(r, b, p, out)
  <2>1. s.vars.names = r.vars.names
    BY <1>2
  <2> QED
    BY <2>1, SameNames
<1>4. ASSUME NEW p \in 1..Number(r, b)
      PROVE  IF HasNode(s, b, p)
             THEN /\ IsListing(Node(s, b, p).childs, Kids(r, b, p, {}))
                  /\ Node(s, b, p).number = ChildsOfBase(b, p) + Len(Node(s, b, p).childs)
                  /\ Node(s, b, p).type \in Types
                  /\ Node(s, b, p).type = "struct" <=> Node(s, b, p).number # 0
             ELSE Kids(r, b, p, {}) = {}
  <2>1. CASE HasNode(r, b, p)
    <3>1. /\ Node(s, b, p).type = Node(r, b, p).type /\ Node(s, b, p).number = Node(r, b, p).number
          /\ Node(s, b, p).childs = Chain(r, b, p) /\ HasNode(s, b, p)
      BY <1>2, <2>1
    <3>2. IsListing(Chain(r, b, p), Kids(r, b, p, {}))
      BY <2>1, ChainLists
    <3>3. Cardinality(Kids(r, b, p, {})) = Len(Chain(r, b, p))
      BY <3>2, ListingCounts
    <3>4. /\ Node(r, b, p).number = ChildsOfBase(b, p) + Cardinality(Kids(r, b, p, {}))
          /\ Node(r, b, p).type = "struct" <=> Node(r, b, p).number # 0
      BY <2>1 DEF IsLinked
    <3>5. Node(r, b, p).type \in Types
      <4>1. Node(r, b, p) \in Nodes
        BY <1>1, <2>1, NodeTypes
      <4> QED
        BY <4>1 DEF Nodes
    <3> QED
      BY <3>1, <3>2, <3>3, <3>4, <3>5
  <2>2. CASE ~HasNode(r, b, p)
    <3>1. Kids(r, b, p, {}) = {}
      BY <2>2 DEF IsLinked
    <3> QED
      BY <1>2, <2>2, <3>1
  <2> QED
    BY <2>1, <2>2
<1>5. HasParents(s, b, {})
  BY <1>1, <1>3 DEF HasParents
<1>6. DOMAIN s.map \subseteq 1..Count(b)
  BY <1>1, <1>2 DEF HasNodes
<1> QED
  BY <1>2, <1>3, <1>4, <1>5, <1>6 DEF IsOpened, s

LEMMA CountOfEmpty == Count(Empty) = 0 /\ Sound(Empty.vars)
BY EmptyIsSound DEF Empty, Count, EmptyIndex

LEMMA EmptyIsOpened == IsOpened(Empty, Empty)
<1>1. Count(Empty) = 0 /\ Number(Empty, Empty) = 0 /\ OwnIds(Empty, Empty) = {}
  BY CountOfEmpty DEF Number, OwnIds
<1>2. DOMAIN Empty.nodes = {} /\ DOMAIN Empty.map = {} /\ 1..0 = {}
  BY DEF Empty
<1> QED
  BY <1>1, <1>2 DEF IsOpened, HasParents

\* The nodes of a main registry that was opened.
LEMMA MainNodes ==
  ASSUME NEW b, Sound(b.vars), IsOpened(b, Empty)
  PROVE  /\ HasTypes(b)
         /\ Number(b, Empty) = Count(b)
         /\ \A p \in 1..Count(b) :
              /\ Name(b, Empty, p) = b.vars.names[p]
              /\ IsListing(b.nodes[p].childs, Kids(b, Empty, p, {}))
              /\ b.nodes[p].number = Len(b.nodes[p].childs)
<1>1. Count(Empty) = 0 /\ Count(b) \in Nat /\ Number(b, Empty) = Count(b)
  <2>1. Count(b) \in Nat /\ Number(b, Empty) = Count(Empty) + Count(b)
    BY CountOfEmpty, NumberTypes
  <2> QED
    BY <2>1, CountOfEmpty
<1>2. ASSUME NEW p \in 1..Count(b)
      PROVE  /\ HasNode(b, Empty, p) /\ Node(b, Empty, p) = b.nodes[p]
             /\ ChildsOfBase(Empty, p) = 0 /\ Name(b, Empty, p) = b.vars.names[p]
  <2>1. p > 0 /\ ~(p <= 0) /\ p - 0 = p
    BY <1>1
  <2> QED
    BY <1>1, <2>1 DEF HasNode, Node, ChildsOfBase, Name
<1>3. ASSUME NEW p \in 1..Count(b)
      PROVE  /\ IsListing(b.nodes[p].childs, Kids(b, Empty, p, {}))
             /\ b.nodes[p].number = 0 + Len(b.nodes[p].childs)
             /\ b.nodes[p].type \in Types
             /\ b.nodes[p].type = "struct" <=> b.nodes[p].number # 0
  BY <1>1, <1>2 DEF IsOpened
<1>4. \A p \in 1..Count(b) : Len(b.nodes[p].childs) \in Nat
  BY <1>3, ListingCounts
<1>5. \A p \in 1..Count(b) : b.nodes[p].number = Len(b.nodes[p].childs)
  BY <1>3, <1>4
<1>6. HasTypes(b)
  BY <1>3, <1>4, <1>5 DEF HasTypes
<1> QED
  BY <1>1, <1>2, <1>3, <1>5, <1>6

\* All numbers of the fields of a name, in the registry and in its base.
FieldIds(r, b, id) == {c \in 1..Number(r, b) : IsField(Name(r, b, c), Name(r, b, id))}

LEMMA FieldsAndBase ==
  ASSUME NEW r, NEW b, Sound(r.vars), Sound(b.vars), Apart(r, b), IsOpened(b, Empty), NEW id \in 1..Number(r, b)
  PROVE  /\ id <= Count(b) => /\ FieldIds(r, b, id) = Kids(r, b, id, {}) \union Kids(b, Empty, id, {})
                              /\ Kids(r, b, id, {}) \intersect Kids(b, Empty, id, {}) = {}
         /\ ~(id <= Count(b)) => FieldIds(r, b, id) = Kids(r, b, id, {})
<1>1. /\ Count(b) \in Nat /\ id \in Nat
      /\ \A c : c \in OwnIds(r, b) <=> c \in 1..Number(r, b) /\ ~(c <= Count(b))
      /\ \A c \in 1..Count(b) : c \in 1..Number(r, b) /\ Name(r, b, c) = b.vars.names[c]
      /\ \A c \in 1..Number(r, b) : c \in Nat /\ Len(Name(r, b, c)) \in Nat \ {0}
  BY NumberTypes
<1>2. Number(b, Empty) = Count(b) /\ \A c \in 1..Count(b) : Name(b, Empty, c) = b.vars.names[c]
  BY MainNodes
<1>3. \A c \in 1..Count(b) : Name(b, Empty, c) = Name(r, b, c)
  BY <1>1, <1>2
<1>4. OwnIds(b, Empty) = 1..Count(b)
  BY <1>2, CountOfEmpty DEF OwnIds
<1>5. \A c \in 1..Count(b) : ~(c \in OwnIds(r, b))
  BY <1>1
<1>6. \A c \in 1..Number(r, b) : c <= Count(b) => c \in 1..Count(b)
  BY <1>1
<1>7. Kids(r, b, id, {}) = {c \in 1..Number(r, b) : ~(c <= Count(b)) /\ IsField(Name(r, b, c), Name(r, b, id))}
  BY <1>1 DEF Kids
<1>8. ASSUME id <= Count(b)
      PROVE  /\ FieldIds(r, b, id) = Kids(r, b, id, {}) \union Kids(b, Empty, id, {})
             /\ Kids(r, b, id, {}) \intersect Kids(b, Empty, id, {}) = {}
  <2>1. id \in 1..Count(b)
    BY <1>6, <1>8
  <2>2. Kids(b, Empty, id, {}) = {c \in 1..Count(b) : IsField(Name(r, b, c), Name(r, b, id))}
    BY <1>3, <1>4, <2>1 DEF Kids
  <2>3. \A c \in 1..Count(b) : c <= Count(b) /\ c \in 1..Number(r, b)
    BY <1>1
  <2> QED
    BY <1>6, <1>7, <2>2, <2>3 DEF FieldIds
<1>9. ASSUME ~(id <= Count(b)) PROVE FieldIds(r, b, id) = Kids(r, b, id, {})
  <2>1. ASSUME NEW c \in 1..Number(r, b), c <= Count(b), IsField(Name(r, b, c), Name(r, b, id)) PROVE FALSE
    <3>1. c \in 1..Count(b) /\ c \in OwnIds(b, Empty) \ {}
      BY <1>4, <1>6, <2>1
    <3>2. Len(Name(b, Empty, c)) > 1
      <4>1. Len(Name(r, b, c)) = Len(Name(r, b, id)) + 1 /\ Len(Name(r, b, id)) \in Nat \ {0}
        BY <1>1, <2>1 DEF IsField
      <4>2. Len(Name(r, b, c)) > 1
        BY <4>1
      <4> QED
        BY <1>3, <3>1, <4>2
    <3>3. PICK p \in 1..Count(b) : IsField(Name(b, Empty, c), Name(b, Empty, p))
      BY <1>2, <3>1, <3>2 DEF IsOpened, HasParents
    <3>4. p \in 1..Number(r, b) /\ IsField(Name(r, b, c), Name(r, b, p))
      BY <1>1, <1>3, <3>1, <3>3
    <3>5. p = id
      BY <2>1, <3>4, FieldOfOne
    <3> QED
      BY <1>1, <1>9, <3>5
  <2> QED
    BY <1>7, <2>1 DEF FieldIds
<1> QED
  BY <1>8, <1>9

LEMMA RegisteredNames ==
  ASSUME NEW r, NEW b, Sound(r.vars), Sound(b.vars)
  PROVE  Registered(r, b) = {Name(r, b, c) : c \in 1..Number(r, b)}
<1>0. Count(b) = Len(b.vars.names) /\ Count(r) = Len(r.vars.names)
  BY DEF Count
<1>1. /\ Count(b) \in Nat /\ Count(r) \in Nat /\ Number(r, b) = Count(b) + Count(r)
      /\ \A id \in OwnIds(r, b) : /\ id - Count(b) \in 1..Count(r) /\ id \in 1..Number(r, b)
                                  /\ Name(r, b, id) = r.vars.names[id - Count(b)]
      /\ \A id \in 1..Count(b) : id \in 1..Number(r, b) /\ Name(r, b, id) = b.vars.names[id]
      /\ \A id : id \in OwnIds(r, b) <=> id \in 1..Number(r, b) /\ ~(id <= Count(b))
  BY NumberTypes
<1>2. DOMAIN b.vars.names = 1..Count(b) /\ DOMAIN r.vars.names = 1..Count(r)
  <2>1. r.vars.names \in Seq(Names) /\ b.vars.names \in Seq(Names)
    BY DEF Sound
  <2>2. DOMAIN b.vars.names = 1..Len(b.vars.names) /\ DOMAIN r.vars.names = 1..Len(r.vars.names)
    BY <2>1
  <2> QED
    BY <1>0, <2>2
<1>3. ASSUME NEW k \in 1..Count(r) PROVE Count(b) + k \in 1..Number(r, b) /\ Name(r, b, Count(b) + k) = r.vars.names[k]
  <2>1. Count(b) \in Nat /\ Count(r) \in Nat /\ Number(r, b) = Count(b) + Count(r)
    BY <1>1
  <2>2. Count(b) + k \in 1..Number(r, b) /\ ~(Count(b) + k <= Count(b)) /\ (Count(b) + k) - Count(b) = k
    BY <2>1
  <2>3. Count(b) + k \in OwnIds(r, b)
    BY <1>1, <2>2
  <2>4. Name(r, b, Count(b) + k) = r.vars.names[(Count(b) + k) - Count(b)]
    BY <1>1, <2>3
  <2> QED
    BY <2>2, <2>4
<1>4. \A id \in 1..Number(r, b) : id \in OwnIds(r, b) \/ id \in 1..Count(b)
  <2>1. \A id \in 1..Number(r, b) : id <= Count(b) => id \in 1..Count(b)
    BY <1>1
  <2> QED
    BY <1>1, <2>1
<1>5. /\ ToSet(b.vars.names) = {b.vars.names[k] : k \in 1..Count(b)}
      /\ ToSet(r.vars.names) = {r.vars.names[k] : k \in 1..Count(r)}
  BY <1>2 DEF ToSet
<1>6. ASSUME NEW n, n \in Registered(r, b) PROVE n \in {Name(r, b, c) : c \in 1..Number(r, b)}
  <2>1. CASE n \in ToSet(b.vars.names)
    <3>1. PICK k \in 1..Count(b) : n = b.vars.names[k]
      BY <1>5, <2>1
    <3>2. k \in 1..Number(r, b) /\ Name(r, b, k) = b.vars.names[k]
      BY <1>1
    <3> QED
      BY <3>1, <3>2
  <2>2. CASE n \in ToSet(r.vars.names)
    BY <1>3, <1>5, <2>2
  <2> QED
    BY <1>6, <2>1, <2>2 DEF Registered
<1>7. ASSUME NEW c \in 1..Number(r, b) PROVE Name(r, b, c) \in Registered(r, b)
  BY <1>1, <1>4, <1>5 DEF Registered
<1> QED
  BY <1>6, <1>7

\* A listing of the numbers of the fields is a listing of their names.
LEMMA NamesListed ==
  ASSUME NEW r, NEW b, Sound(r.vars), Sound(b.vars), Apart(r, b), NEW id \in 1..Number(r, b),
         NEW f, IsListing(f, FieldIds(r, b, id)), NEW t,
         t = [k \in 1..Len(f) |-> Name(r, b, f[k])]
  PROVE  /\ Lists(t, FieldsOf(Name(r, b, id), Registered(r, b)))
         /\ FieldsOf(Name(r, b, id), Registered(r, b)) # {} <=> Len(f) # 0
<1> DEFINE Q == FieldIds(r, b, id)
           F == FieldsOf(Name(r, b, id), Registered(r, b))
<1>1. F = {Name(r, b, c) : c \in Q}
  BY RegisteredNames DEF FieldsOf, FieldIds, IsField
<1>2. \A c, d \in Q : Name(r, b, c) = Name(r, b, d) => c = d
  BY NamesTell DEF FieldIds
<1>3. /\ f \in Seq(Q) /\ Len(f) \in Nat
      /\ \A i, j \in 1..Len(f) : f[i] = f[j] => i = j
      /\ \A c \in Q : \E i \in 1..Len(f) : f[i] = c
  BY DEF IsListing
<1> HIDE DEF Q, F
<1>4. \A i \in 1..Len(f) : f[i] \in Q
  BY <1>3
<1>5. t \in Seq(F) /\ Len(t) = Len(f) /\ \A i \in 1..Len(f) : t[i] = Name(r, b, f[i])
  <2>1. \A i \in 1..Len(f) : Name(r, b, f[i]) \in F
    BY <1>1, <1>4
  <2> QED
    BY <1>3, <2>1
<1>6. \A i, j \in 1..Len(t) : t[i] = t[j] => i = j
  BY <1>2, <1>3, <1>4, <1>5
<1>7. \A n \in F : \E i \in 1..Len(t) : t[i] = n
  BY <1>1, <1>3, <1>5
<1>8. IsListing(t, F)
  BY <1>5, <1>6, <1>7 DEF IsListing
<1>9. Len(t) = Cardinality(F)
  BY <1>8, ListingCounts
<1>10. ToSet(t) = F
  <2>1. DOMAIN t = 1..Len(t) /\ \A i \in 1..Len(t) : t[i] \in F
    BY <1>5
  <2> QED
    BY <1>7, <2>1 DEF ToSet
<1>11. F # {} <=> Len(f) # 0
  <2>1. Len(f) = 0 => 1..Len(f) = {}
    OBVIOUS
  <2>2. Len(f) # 0 => 1 \in 1..Len(f)
    BY <1>3
  <2> QED
    BY <1>5, <1>7, <2>1, <2>2, <1>1, <1>4
<1> QED
  BY <1>9, <1>10, <1>11 DEF Lists, F

\* Sequence f is what the server reads as the fields of id.
IsReading(f, r, b, id) ==
  /\ IsListing(f, FieldIds(r, b, id))
  /\ FieldsCountRO(r, b, id) = Len(f)
  /\ \A k \in 1..Len(f) : FieldIdRO(r, b, id, k) = f[k]
  /\ TypeRO(r, b, id) = "struct" <=> Len(f) # 0

\* The fields of a name of the registry itself, and of one of the base that has none here, are one list;
\* those of a name of the base that has some here are two.
LEMMA FieldsAreRead ==
  ASSUME NEW r, NEW b, Sound(r.vars), Sound(b.vars), Apart(r, b), IsOpened(r, b), IsOpened(b, Empty),
         NEW id \in 1..Number(r, b)
  PROVE  \E f : IsReading(f, r, b, id)
<1>1. Count(b) \in Nat /\ id \in Nat /\ (id <= Count(b) => id \in 1..Count(b))
  BY NumberTypes
<1>2. IF HasNode(r, b, id)
      THEN /\ IsListing(Node(r, b, id).childs, Kids(r, b, id, {}))
           /\ Node(r, b, id).number = ChildsOfBase(b, id) + Len(Node(r, b, id).childs)
           /\ Node(r, b, id).type = "struct" <=> Node(r, b, id).number # 0
      ELSE Kids(r, b, id, {}) = {}
  BY DEF IsOpened
<1>3. CASE ~(id <= Count(b))
  <2> DEFINE f == r.nodes[id - Count(b)].childs
  <2>1. HasNode(r, b, id) /\ id > Count(b) /\ Node(r, b, id) = r.nodes[id - Count(b)] /\ ChildsOfBase(b, id) = 0
    BY <1>1, <1>3 DEF HasNode, Node, ChildsOfBase
  <2>2. FieldIds(r, b, id) = Kids(r, b, id, {})
    BY <1>3, FieldsAndBase
  <2>3. IsListing(f, FieldIds(r, b, id)) /\ r.nodes[id - Count(b)].number = 0 + Len(f)
    BY <1>2, <2>1, <2>2
  <2>4. Len(f) \in Nat
    BY <2>3, ListingCounts
  <2>5. r.nodes[id - Count(b)].number = Len(f)
    BY <2>3, <2>4
  <2>6. FieldsCountRO(r, b, id) = Len(f)
    BY <1>3, <2>5 DEF FieldsCountRO
  <2>7. \A k \in 1..Len(f) : FieldIdRO(r, b, id, k) = f[k]
    BY <2>1 DEF FieldIdRO
  <2>8. TypeRO(r, b, id) = "struct" <=> Len(f) # 0
    BY <1>2, <1>3, <2>1, <2>5 DEF TypeRO
  <2> QED
    BY <2>3, <2>6, <2>7, <2>8 DEF IsReading
<1>4. ASSUME id <= Count(b)
      PROVE  /\ id \in 1..Count(b) /\ ~(id > Count(b)) /\ ChildsOfBase(b, id) = b.nodes[id].number
             /\ IsListing(b.nodes[id].childs, Kids(b, Empty, id, {}))
             /\ b.nodes[id].number = Len(b.nodes[id].childs)
             /\ b.nodes[id].type = "struct" <=> b.nodes[id].number # 0
             /\ Len(b.nodes[id].childs) \in Nat
  <2>1. id \in 1..Count(b) /\ ~(id > Count(b)) /\ ChildsOfBase(b, id) = b.nodes[id].number
    BY <1>1, <1>4 DEF ChildsOfBase
  <2>2. /\ IsListing(b.nodes[id].childs, Kids(b, Empty, id, {}))
        /\ b.nodes[id].number = Len(b.nodes[id].childs)
        /\ HasTypes(b)
    BY <2>1, MainNodes
  <2> QED
    BY <2>1, <2>2, ListingCounts DEF HasTypes
<1>5. CASE id <= Count(b) /\ id \notin DOMAIN r.map
  <2> DEFINE f == b.nodes[id].childs
  <2>1. ~HasNode(r, b, id)
    BY <1>4, <1>5 DEF HasNode
  <2>2. FieldIds(r, b, id) = Kids(b, Empty, id, {})
    <3>1. FieldIds(r, b, id) = Kids(r, b, id, {}) \union Kids(b, Empty, id, {})
      BY <1>5, FieldsAndBase
    <3> QED
      BY <1>2, <2>1, <3>1
  <2>3. IsListing(f, FieldIds(r, b, id)) /\ b.nodes[id].number = Len(f)
    BY <1>4, <1>5, <2>2
  <2>4. FieldsCountRO(r, b, id) = Len(f)
    BY <1>4, <1>5 DEF FieldsCountRO
  <2>5. \A k \in 1..Len(f) : FieldIdRO(r, b, id, k) = f[k]
    BY <1>4, <1>5 DEF FieldIdRO
  <2>6. TypeRO(r, b, id) = "struct" <=> Len(f) # 0
    BY <1>4, <1>5 DEF TypeRO
  <2> QED
    BY <2>3, <2>4, <2>5, <2>6 DEF IsReading
<1>6. CASE id <= Count(b) /\ id \in DOMAIN r.map
  <2> DEFINE s == r.map[id].childs
             t == b.nodes[id].childs
             f == s \o t
  <2>1. HasNode(r, b, id) /\ Node(r, b, id) = r.map[id]
    BY <1>6 DEF HasNode, Node
  <2>2. /\ FieldIds(r, b, id) = Kids(r, b, id, {}) \union Kids(b, Empty, id, {})
        /\ Kids(r, b, id, {}) \intersect Kids(b, Empty, id, {}) = {}
    BY <1>6, FieldsAndBase
  <2>3. IsListing(s, Kids(r, b, id, {})) /\ r.map[id].number = ChildsOfBase(b, id) + Len(s)
    BY <1>2, <2>1
  <2>4. IsListing(t, Kids(b, Empty, id, {})) /\ ChildsOfBase(b, id) = Len(t) /\ Len(t) \in Nat
    BY <1>4, <1>6
  <2>5. Len(s) \in Nat
    BY <2>3, ListingCounts
  <2>6. s \in Seq(Kids(r, b, id, {})) /\ t \in Seq(Kids(b, Empty, id, {}))
    BY <2>3, <2>4 DEF IsListing
  <2>7. IsListing(f, FieldIds(r, b, id))
    BY <2>2, <2>3, <2>4, ListsTogether
  <2> DEFINE U == Kids(r, b, id, {}) \union Kids(b, Empty, id, {})
  <2>8. s \in Seq(U) /\ t \in Seq(U)
    BY <2>6
  <2> HIDE DEF s, t, U
  <2>9. /\ Len(f) = Len(s) + Len(t)
        /\ \A k \in 1..Len(f) : f[k] = IF k <= Len(s) THEN s[k] ELSE t[k - Len(s)]
    BY <2>8
  <2>10. r.map[id].number - ChildsOfBase(b, id) = Len(s) /\ r.map[id].number = Len(f)
    BY <2>3, <2>4, <2>5, <2>9
  <2>11. FieldsCountRO(r, b, id) = Len(f)
    BY <1>6, <2>10 DEF FieldsCountRO
  <2>12. \A k \in 1..Len(f) : FieldIdRO(r, b, id, k) = IF k <= Len(s) THEN s[k] ELSE t[k - Len(s)]
    BY <1>4, <1>6, <2>10 DEF FieldIdRO, s, t
  <2>13. TypeRO(r, b, id) = "struct" <=> Len(f) # 0
    BY <1>2, <1>6, <2>1, <2>10 DEF TypeRO
  <2> QED
    BY <2>7, <2>9, <2>11, <2>12, <2>13 DEF IsReading
<1> QED
  BY <1>3, <1>5, <1>6

LEMMA OpenedIsRead ==
  ASSUME NEW r, NEW b, Sound(r.vars), Sound(b.vars), Apart(r, b), IsOpened(r, b), IsOpened(b, Empty)
  PROVE  IsRead(r, b)
<1> SUFFICES ASSUME NEW id \in 1..Number(r, b)
             PROVE  LET fields == FieldsOf(Name(r, b, id), Registered(r, b))
                    IN  /\ Lists([k \in 1..FieldsCountRO(r, b, id) |-> Name(r, b, FieldIdRO(r, b, id, k))], fields)
                        /\ TypeRO(r, b, id) = "struct" <=> fields # {}
  BY DEF IsRead
<1>1. PICK f : IsReading(f, r, b, id)
  BY FieldsAreRead
<1>2. /\ IsListing(f, FieldIds(r, b, id))
      /\ FieldsCountRO(r, b, id) = Len(f)
      /\ \A k \in 1..Len(f) : FieldIdRO(r, b, id, k) = f[k]
      /\ TypeRO(r, b, id) = "struct" <=> Len(f) # 0
  BY <1>1 DEF IsReading
<1>3. [k \in 1..FieldsCountRO(r, b, id) |-> Name(r, b, FieldIdRO(r, b, id, k))] = [k \in 1..Len(f) |-> Name(r, b, f[k])]
  BY <1>2
<1>4. /\ Lists([k \in 1..Len(f) |-> Name(r, b, f[k])], FieldsOf(Name(r, b, id), Registered(r, b)))
      /\ FieldsOf(Name(r, b, id), Registered(r, b)) # {} <=> Len(f) # 0
  BY <1>2, NamesListed
<1> QED
  BY <1>2, <1>3, <1>4

\* What the compiler has on a chain, the server reads from the file.
LEMMA SavedReadsSame ==
  ASSUME NEW r, NEW b, Sound(r.vars), Sound(b.vars), IsLinked(r, b, {}), NEW id \in 1..Number(r, b)
  PROVE  /\ FieldsCountRO(Saved(r, b), b, id) = FieldsCountRW(r, b, id)
         /\ \A k \in 1..FieldsCountRW(r, b, id) : FieldIdRO(Saved(r, b), b, id, k) = FieldIdRW(r, b, id, k)
<1> DEFINE s == Saved(r, b)
<1>1. HasNodes(r, b)
  BY DEF IsLinked
<1>2. /\ DOMAIN s.map = DOMAIN r.map
      /\ HasNode(s, b, id) <=> HasNode(r, b, id)
      /\ HasNode(r, b, id) => Node(s, b, id) = [type |-> Node(r, b, id).type, number |-> Node(r, b, id).number,
                                                childs |-> Chain(r, b, id)]
  BY <1>1, SavedNodes
<1> HIDE DEF s
<1>3. Count(b) \in Nat /\ id \in Nat
  BY NumberTypes
<1>4. CASE ~HasNode(r, b, id)
  <2>1. id <= Count(b) /\ ~(id > Count(b)) /\ id \notin DOMAIN s.map
    BY <1>2, <1>3, <1>4 DEF HasNode
  <2>2. FieldsCountRO(s, b, id) = ChildsOfBase(b, id) /\ FieldsCountRW(r, b, id) = ChildsOfBase(b, id)
    BY <1>4, <2>1 DEF FieldsCountRO, FieldsCountRW
  <2>3. \A k : FieldIdRO(s, b, id, k) = b.nodes[id].childs[k] /\ FieldIdRW(r, b, id, k) = b.nodes[id].childs[k]
    BY <1>4, <2>1 DEF FieldIdRO, FieldIdRW
  <2> QED
    BY <2>2, <2>3 DEF s
<1>5. CASE HasNode(r, b, id)
  <2>1. Node(s, b, id).number = Node(r, b, id).number /\ Node(s, b, id).childs = Chain(r, b, id)
    BY <1>2, <1>5
  <2>2. FieldsCountRW(r, b, id) = Node(r, b, id).number
    BY <1>5 DEF FieldsCountRW
  <2>3. CASE id <= Count(b)
    <3>1. ~(id > Count(b)) /\ id \in DOMAIN s.map /\ Node(s, b, id) = s.map[id]
      BY <1>2, <1>3, <1>5, <2>3 DEF HasNode, Node
    <3>2. FieldsCountRO(s, b, id) = FieldsCountRW(r, b, id)
      BY <2>1, <2>2, <2>3, <3>1 DEF FieldsCountRO
    <3>3. \A k : FieldIdRO(s, b, id, k) = FieldIdRW(r, b, id, k)
      BY <1>5, <2>1, <2>2, <3>1 DEF FieldIdRO, FieldIdRW
    <3> QED
      BY <3>2, <3>3 DEF s
  <2>4. CASE ~(id <= Count(b))
    <3>1. id > Count(b) /\ Node(s, b, id) = s.nodes[id - Count(b)] /\ ChildsOfBase(b, id) = 0
      BY <1>3, <2>4 DEF Node, ChildsOfBase
    <3>2. FieldsCountRO(s, b, id) = FieldsCountRW(r, b, id)
      BY <2>1, <2>2, <2>4, <3>1 DEF FieldsCountRO
    <3>3. Node(r, b, id).number \in Nat
      <4>1. Node(r, b, id) \in Nodes
        BY <1>1, <1>5, NodeTypes
      <4> QED
        BY <4>1 DEF Nodes
    <3>4. ASSUME NEW k \in 1..FieldsCountRW(r, b, id) PROVE FieldIdRO(s, b, id, k) = FieldIdRW(r, b, id, k)
      <4>1. k <= FieldsCountRW(r, b, id) - ChildsOfBase(b, id)
        BY <2>2, <3>1, <3>3
      <4>2. FieldIdRW(r, b, id, k) = Chain(r, b, id)[k]
        BY <1>5, <4>1 DEF FieldIdRW
      <4>3. FieldIdRO(s, b, id, k) = s.nodes[id - Count(b)].childs[k]
        BY <3>1 DEF FieldIdRO
      <4> QED
        BY <2>1, <3>1, <4>2, <4>3
    <3> QED
      BY <3>2, <3>4 DEF s
  <2> QED
    BY <2>3, <2>4
<1> QED
  BY <1>4, <1>5

LEMMA LinkedIsListed ==
  ASSUME NEW r, NEW b, Sound(r.vars), Sound(b.vars), Apart(r, b), IsLinked(r, b, {}), IsOpened(b, Empty)
  PROVE  IsBuilt(r, b)
<1> DEFINE s == Saved(r, b)
<1>1. HasNodes(r, b)
  BY DEF IsLinked
<1>2. s.vars.names = r.vars.names
  BY <1>1, SavedNodes
<1>3. IsOpened(s, b)
  BY SavedIsOpened
<1>4. Sound(s.vars)
  <2>1. s.vars = OpenedIndex(r.vars)
    BY DEF Saved
  <2> HIDE DEF s
  <2> QED
    BY <2>1, OpenedIsSound
<1>5. \A id \in 1..Number(r, b) :
        /\ FieldsCountRO(s, b, id) = FieldsCountRW(r, b, id)
        /\ \A k \in 1..FieldsCountRW(r, b, id) : FieldIdRO(s, b, id, k) = FieldIdRW(r, b, id, k)
  BY SavedReadsSame
<1> HIDE DEF s
<1>6. Apart(s, b)
  BY <1>2 DEF Apart, HasName
<1>7. IsRead(s, b)
  BY <1>3, <1>4, <1>6, OpenedIsRead
<1>8. Number(s, b) = Number(r, b) /\ \A id : Name(s, b, id) = Name(r, b, id)
  BY <1>2, SameNames
<1>9. Registered(s, b) = Registered(r, b)
  BY <1>2 DEF Registered
<1>10. ASSUME NEW id \in 1..Number(r, b), HasNode(r, b, id)
       PROVE  Len(Chain(r, b, id)) = FieldsCountRW(r, b, id) - ChildsOfBase(b, id)
  <2>1. IsListing(Chain(r, b, id), Kids(r, b, id, {}))
    BY <1>10, ChainLists
  <2>2. Cardinality(Kids(r, b, id, {})) = Len(Chain(r, b, id)) /\ Len(Chain(r, b, id)) \in Nat
    BY <2>1, ListingCounts
  <2>3. FieldsCountRW(r, b, id) = ChildsOfBase(b, id) + Cardinality(Kids(r, b, id, {}))
    BY <1>10 DEF IsLinked, FieldsCountRW
  <2>4. ChildsOfBase(b, id) \in Nat
    <3>1. id <= Count(b) => id \in 1..Count(b)
      BY NumberTypes
    <3>2. HasTypes(b)
      BY MainNodes
    <3> QED
      BY <3>1, <3>2 DEF HasTypes, ChildsOfBase
  <2> QED
    BY <2>2, <2>3, <2>4
<1>11. ASSUME NEW id \in 1..Number(r, b)
       PROVE  Lists([k \in 1..FieldsCountRW(r, b, id) |-> Name(r, b, FieldIdRW(r, b, id, k))],
                    FieldsOf(Name(r, b, id), Registered(r, b)))
  <2>1. Lists([k \in 1..FieldsCountRO(s, b, id) |-> Name(s, b, FieldIdRO(s, b, id, k))],
              FieldsOf(Name(s, b, id), Registered(s, b)))
    BY <1>7, <1>8 DEF IsRead
  <2>2. [k \in 1..FieldsCountRO(s, b, id) |-> Name(s, b, FieldIdRO(s, b, id, k))]
          = [k \in 1..FieldsCountRW(r, b, id) |-> Name(r, b, FieldIdRW(r, b, id, k))]
    BY <1>5, <1>8
  <2> QED
    BY <1>8, <1>9, <2>1, <2>2
<1> QED
  BY <1>10, <1>11 DEF IsBuilt

LEMMA BeginningsRegistered ==
  ASSUME NEW r, NEW b, Sound(r.vars), Sound(b.vars), HasParents(r, b, {}), HasParents(b, Empty, {}),
         NEW name \in Registered(r, b), Len(name) > 1
  PROVE  Front(name) \in Registered(r, b)
<1>1. /\ Registered(r, b) = {Name(r, b, c) : c \in 1..Number(r, b)}
      /\ Registered(b, Empty) = {Name(b, Empty, c) : c \in 1..Number(b, Empty)}
  BY RegisteredNames, CountOfEmpty
<1>2. PICK c \in 1..Number(r, b) : name = Name(r, b, c)
  BY <1>1
<1>3. /\ Number(b, Empty) = Count(b) /\ OwnIds(b, Empty) = 1..Count(b)
      /\ \A d \in 1..Count(b) : Name(b, Empty, d) = b.vars.names[d]
  <2>1. Count(b) \in Nat /\ Count(Empty) = 0 /\ Number(b, Empty) = Count(Empty) + Count(b)
    BY CountOfEmpty, NumberTypes
  <2>2. \A d \in 1..Count(b) : ~(d <= 0) /\ d - 0 = d
    BY <2>1
  <2> QED
    BY <2>1, <2>2 DEF Name, OwnIds
<1>4. /\ Count(b) \in Nat
      /\ \A id : id \in OwnIds(r, b) <=> id \in 1..Number(r, b) /\ ~(id <= Count(b))
      /\ \A id \in 1..Count(b) : id \in 1..Number(r, b) /\ Name(r, b, id) = b.vars.names[id]
      /\ \A id \in 1..Number(r, b) : (id <= Count(b) => id \in 1..Count(b)) /\ Len(Name(r, b, id)) \in Nat \ {0}
  BY NumberTypes
<1>5. PICK p \in 1..Number(r, b) : IsField(name, Name(r, b, p))
  <2>1. CASE ~(c <= Count(b))
    <3>1. c \in OwnIds(r, b) \ {}
      BY <1>4, <2>1
    <3> QED
      BY <1>2, <3>1 DEF HasParents
  <2>2. CASE c <= Count(b)
    <3>1. c \in 1..Count(b) /\ name = b.vars.names[c]
      BY <1>2, <1>4, <2>2
    <3>2. c \in OwnIds(b, Empty) \ {} /\ Name(b, Empty, c) = name
      BY <1>3, <3>1
    <3>3. PICK p \in 1..Number(b, Empty) : IsField(Name(b, Empty, c), Name(b, Empty, p))
      BY <3>2 DEF HasParents
    <3>4. p \in 1..Number(r, b) /\ Name(b, Empty, p) = Name(r, b, p)
      BY <1>3, <1>4, <3>3
    <3> QED
      BY <3>2, <3>3, <3>4
  <2> QED
    BY <2>1, <2>2
<1>6. Front(name) = Name(r, b, p)
  <2>1. Len(name) = Len(Name(r, b, p)) + 1 /\ SubSeq(name, 1, Len(Name(r, b, p))) = Name(r, b, p)
    BY <1>5 DEF IsField
  <2>2. Len(name) - 1 = Len(Name(r, b, p))
    BY <1>4, <2>1
  <2> QED
    BY <2>1, <2>2 DEF Front
<1> QED
  BY <1>1, <1>6

-------------------------------------------------------------------------------
(* Fields of what is compiled, served and cached.                          *)

LEMMA FieldsInit == Init => FieldsAreLinked
<1> SUFFICES ASSUME Init PROVE FieldsAreLinked
  OBVIOUS
<1>1. IsLinked(Empty, Empty, {}) /\ IsOpened(Empty, Empty)
  BY EmptyIsLinked, CountOfEmpty, EmptyIsOpened
<1> QED
  BY <1>1 DEF Init, FieldsAreLinked, Base

LEMMA FieldsStep == RegistriesAreSound /\ FieldsAreLinked /\ [Next]_vars => FieldsAreLinked'
<1> SUFFICES ASSUME RegistriesAreSound, FieldsAreLinked, [Next]_vars PROVE FieldsAreLinked'
  OBVIOUS
<1>0. /\ IsLinked(Empty, Empty, {}) /\ IsOpened(Empty, Empty) /\ Sound(Empty.vars)
      /\ Sound(main.vars) /\ IsOpened(main, Empty) /\ Built(rw, Base) /\ Sound(rw.vars) /\ IsLinked(rw, Base, {})
      /\ Sound(Base.vars) /\ IsOpened(Base, Empty)
  BY EmptyIsLinked, CountOfEmpty, EmptyIsOpened DEF RegistriesAreSound, FieldsAreLinked, Base, Built
<1>1. ASSUME NEW kind \in {"main", "inf"}, StartBuild(kind) PROVE FieldsAreLinked'
  <2> DEFINE b == IF kind = "inf" THEN main ELSE Empty
  <2>1. /\ job' = kind /\ rw' = Create(Autos, b)
        /\ UNCHANGED <<main, ext, inf>>
    BY <1>1 DEF StartBuild, server
  <2>2. Sound(b.vars) /\ IsOpened(b, Empty)
    BY <1>0
  <2>3. Base' = b
    BY <2>1 DEF Base
  <2> HIDE DEF b
  <2>4. HasTypes(b)
    BY <2>2, MainNodes
  <2>5. IsLinked(rw, Base, {})'
    BY <2>1, <2>2, <2>3, <2>4, CreateLinks
  <2> QED
    BY <2>1, <2>5 DEF FieldsAreLinked
<1>2. ASSUME NEW name \in Names, Register(name) PROVE FieldsAreLinked'
  <2>1. rw' = Registrate(rw, Base, name) /\ UNCHANGED <<job, main, ext, inf>>
    BY <1>2 DEF Register, server
  <2>2. Base' = Base
    BY <2>1 DEF Base
  <2>3. HasTypes(Base)
    BY <1>0, MainNodes
  <2>4. IsLinked(rw, Base, {})'
    BY <1>0, <2>1, <2>2, <2>3, RegistrateLinks
  <2> QED
    BY <2>1, <2>4 DEF FieldsAreLinked
<1>3. ASSUME InstallMain PROVE FieldsAreLinked'
  <2>1. /\ job = "main" /\ job' = "none" /\ rw' = Empty
        /\ main' = Saved(rw, Empty) /\ ext' = Closed /\ inf' = inf
    BY <1>3 DEF InstallMain
  <2>2. Base = Empty /\ Base' = Empty
    BY <2>1 DEF Base
  <2>3. IsOpened(Saved(rw, Empty), Empty)
    BY <1>0, <2>2, SavedIsOpened
  <2> QED
    BY <1>0, <2>1, <2>2, <2>3 DEF FieldsAreLinked
<1>4. ASSUME SaveInf PROVE FieldsAreLinked'
  <2>1. /\ job = "inf" /\ job' = "none" /\ rw' = Empty
        /\ inf' = Saved(rw, main) /\ UNCHANGED <<main, ext>>
    BY <1>4 DEF SaveInf, server
  <2>2. Base = main /\ Base' = Empty
    BY <2>1 DEF Base
  <2>3. IsOpened(Saved(rw, main), main) /\ Saved(rw, main).baseSum = main
    BY <1>0, <2>2, SavedIsOpened DEF Saved
  <2> QED
    BY <1>0, <2>1, <2>2, <2>3 DEF FieldsAreLinked
<1>5. ASSUME UNCHANGED <<job, rw, main>>, ext' \in {ext, Loaded}, inf' \in {inf, Loaded}
      PROVE  FieldsAreLinked'
  <2>1. Base' = Base
    BY <1>5 DEF Base
  <2>2. Loaded # Closed => Loaded = inf /\ inf # Closed /\ inf.baseSum = main
    BY DEF Loaded, Fits
  <2>3. ext' # Closed => IsOpened(ext', main)
    BY <1>5, <2>2 DEF FieldsAreLinked
  <2>4. inf' # Closed => IsOpened(inf', inf'.baseSum)
    BY <1>5, <2>2 DEF FieldsAreLinked
  <2> QED
    BY <1>5, <2>1, <2>3, <2>4 DEF FieldsAreLinked
<1>6. ASSUME NEW name \in Names, NEW value \in Values, SetSession(name, value) \/ UpdateSession(name, value)
      PROVE  FieldsAreLinked'
  BY <1>5, <1>6 DEF SetSession, UpdateSession, compiler
<1>7. ASSUME NEW name \in Names, NEW value \in Values, NEW by \in {"main", "inf"}, Request(name, value, by)
      PROVE  FieldsAreLinked'
  BY <1>5, <1>7 DEF Request, compiler
<1>8. CASE UNCHANGED vars
  BY <1>5, <1>8 DEF vars, compiler, server
<1> QED
  BY <1>1, <1>2, <1>3, <1>4, <1>6, <1>7, <1>8 DEF Next

LEMMA FieldsAgree == RegistriesAreSound /\ FieldsAreLinked => FieldsAreNames
<1> SUFFICES ASSUME RegistriesAreSound, FieldsAreLinked PROVE FieldsAreNames
  OBVIOUS
<1>1. /\ Sound(Empty.vars) /\ IsOpened(Empty, Empty)
      /\ Sound(main.vars) /\ IsOpened(main, Empty) /\ Built(rw, Base) /\ Sound(rw.vars) /\ IsLinked(rw, Base, {})
      /\ Apart(rw, Base) /\ Sound(Base.vars) /\ IsOpened(Base, Empty)
  BY CountOfEmpty, EmptyIsOpened DEF RegistriesAreSound, FieldsAreLinked, Base, Built
<1>2. \A r : Apart(r, Empty)
  BY EmptyIsBuilt DEF Apart, HasName
<1>3. IsBuilt(rw, Base)
  BY <1>1, LinkedIsListed
<1>4. IsRead(main, Empty)
  BY <1>1, <1>2, OpenedIsRead
<1>5. ext # Closed => IsRead(ext, main)
  <2> SUFFICES ASSUME ext # Closed PROVE IsRead(ext, main)
    OBVIOUS
  <2>1. Sound(ext.vars) /\ Apart(ext, main) /\ IsOpened(ext, main)
    BY DEF RegistriesAreSound, FieldsAreLinked, Sits
  <2> QED
    BY <1>1, <2>1, OpenedIsRead
<1>6. ASSUME NEW name \in Registered(rw, Base), Len(name) > 1 PROVE Front(name) \in Registered(rw, Base)
  <2>1. HasParents(rw, Base, {}) /\ HasParents(Base, Empty, {})
    BY <1>1 DEF IsLinked, IsOpened
  <2> QED
    BY <1>1, <1>6, <2>1, BeginningsRegistered
<1> QED
  BY <1>3, <1>4, <1>5, <1>6 DEF FieldsAreNames

\* The fields of a variable are the registered names that extend it by a component, each once, in whatever
\* order the names were registered: while a registry is compiled, where they are a chain, and when the
\* server reads the file the chains were written to.
THEOREM FieldsHold == Spec => []FieldsAreNames
<1>1. Spec => []FieldsAreLinked
  BY FieldsInit, FieldsStep, RegistriesHold, PTL DEF Spec
<1> QED
  BY <1>1, FieldsAgree, RegistriesHold, PTL
===============================================================================
