---------------------------- MODULE FlagsStorage ----------------------------
(***************************************************************************)
(* NanoLib::FlagsStorage: the flags of the answers of a session, packed.   *)
(* A storage v is three vectors: v.index, the sorted pattern identifiers;  *)
(* v.shifts, parallel to it, the (capacity in bits, offset in bytes) of a  *)
(* pattern's region; and v.data, the bytes, a byte being the set of its    *)
(* bits that are 1.                                                        *)
(*                                                                         *)
(* A region that has to grow gets its new bytes at the END of data while   *)
(* its offset stays (pre_allocate_int): it then reaches into the regions   *)
(* that lie behind it.  The promise of FlagMap is kept up to the first     *)
(* write that makes a region reach another one (Crowded).                  *)
(***************************************************************************)
EXTENDS Integers, Sequences

CONSTANTS Keys,      \* pattern identifiers
          Indices    \* numbers of the answers of a pattern

ASSUME KeysAssumption == Keys \subseteq Nat
ASSUME IndicesAssumption == Indices \subseteq Nat

VARIABLES flags,     \* the storage of the session in memory
          image      \* the storage of the copy of the session in the cache

vars == <<flags, image>>
-----------------------------------------------------------------------------
Bits == 0 .. 7
Byte(i) == i \div 8
Bit(i) == i % 8

Empty == [index |-> <<>>, shifts |-> <<>>, data |-> <<>>]

Size(v) == Len(v.index)

(* Where std::lower_bound may stop: the keys before p are the smaller ones. *)
LowerBound(v, k) ==
  {p \in 1 .. Size(v) + 1 : \A n \in 1 .. Size(v) : n < p <=> v.index[n] < k}

(* find() has stopped at p: is the key there?                              *)
Found(v, k, p) == p <= Size(v) /\ v.index[p] = k

(* s with e put before position p.                                         *)
Insert(s, p, e) ==
  [n \in 1 .. Len(s) + 1 |-> IF n < p THEN s[n] ELSE IF n = p THEN e ELSE s[n - 1]]

(* Mutant: the keys are moved up and the regions are not.                  *)
AddMovesKeysOnly(v, k, p) ==
  IF Found(v, k, p) THEN v
  ELSE [index  |-> Insert(v.index, p, k),
        shifts |-> Append(v.shifts, <<0, Len(v.data)>>),
        data   |-> v.data]

(* add(): a new key gets an empty region at the end of data.               *)
Add(v, k, p) ==
  IF Found(v, k, p) THEN v
  ELSE [index  |-> Insert(v.index, p, k),
        shifts |-> Insert(v.shifts, p, <<0, Len(v.data)>>),
        data   |-> v.data]

ZeroBytes(n) == [b \in 1 .. n |-> {}]

(* Mutant: the size in bytes is rounded down and the capacity is not.      *)
GrowRoundedDown(v, p, size) ==
  [index  |-> v.index,
   shifts |-> [v.shifts EXCEPT ![p] = <<8 * ((size + 7) \div 8), @[2]>>],
   data   |-> v.data \o ZeroBytes(size \div 8)]

(* pre_allocate_int(): so many bytes more at the end, all of them zero;    *)
(* the capacity of the region is what was just allocated.                  *)
Grow(v, p, size) ==
  [index  |-> v.index,
   shifts |-> [v.shifts EXCEPT ![p] = <<8 * ((size + 7) \div 8), @[2]>>],
   data   |-> v.data \o ZeroBytes((size + 7) \div 8)]

Reserve(v, p, i) == IF v.shifts[p][1] <= i THEN Grow(v, p, i + 1) ELSE v

(* The byte of data that holds flag i of the region at position p.         *)
Cell(v, p, i) == v.shifts[p][2] + Byte(i) + 1

Write(v, p, i, flag) ==
  [index  |-> v.index,
   shifts |-> v.shifts,
   data   |-> [v.data EXCEPT ![Cell(v, p, i)] =
                 IF flag THEN @ \union {Bit(i)} ELSE @ \ {Bit(i)}]]

(* set() and unset(): flag i of pattern k becomes flag.                    *)
Set(k, i, flag) ==
  \E p \in LowerBound(flags, k) :
     /\ flags' = Write(Reserve(Add(flags, k, p), p, i), p, i, flag)
     /\ UNCHANGED image

(* What get() can answer: it does not look at the capacity, and past the   *)
(* end of data it reads whatever is there.                                 *)
Get(v, k, i) ==
  LET at == {p \in LowerBound(v, k) : Found(v, k, p)}
      c  == Cell(v, CHOOSE p \in at : TRUE, i)
  IN  IF at = {} THEN {FALSE}
      ELSE IF c <= Len(v.data) THEN {Bit(i) \in v.data[c]}
      ELSE BOOLEAN

Save == image' = flags /\ UNCHANGED flags

Load == flags' = image /\ UNCHANGED image

Reset == flags' = Empty /\ UNCHANGED image
-----------------------------------------------------------------------------
Init == flags = Empty /\ image = Empty

Next == \/ \E k \in Keys, i \in Indices, flag \in BOOLEAN : Set(k, i, flag)
        \/ Save \/ Load \/ Reset

Spec == Init /\ [][Next]_vars
-----------------------------------------------------------------------------
Storage == [index : Seq(Keys), shifts : Seq(Nat \X Nat), data : Seq(SUBSET Bits)]

(* The vectors stay parallel and the keys sorted: lower_bound, which find() *)
(* relies on, is only defined on a sorted vector.                          *)
WellFormed(v) ==
  /\ v \in Storage
  /\ Len(v.shifts) = Size(v)
  /\ \A p, q \in 1 .. Size(v) : p < q => v.index[p] < v.index[q]

TypeOK == WellFormed(flags) /\ WellFormed(image)

(* Every region is whole bytes of data: what set() writes after add() and   *)
(* pre_allocate_int() is never outside the array, whatever the answer.      *)
Inside(v) ==
  \A p \in 1 .. Size(v) :
     /\ v.shifts[p][1] % 8 = 0
     /\ v.shifts[p][2] + v.shifts[p][1] \div 8 <= Len(v.data)

RegionsInside == Inside(flags) /\ Inside(image)

(* The bytes of data that the region at position p has by its capacity.    *)
Bytes(v, p) == v.shifts[p][2] + 1 .. v.shifts[p][2] + v.shifts[p][1] \div 8

(* Every pattern has bytes of its own, and what nobody has is zero.        *)
Apart(v) ==
  /\ \A p \in 1 .. Size(v) : Bytes(v, p) # {}
  /\ \A p, q \in 1 .. Size(v) : p # q => Bytes(v, p) \cap Bytes(v, q) = {}
  /\ \A c \in 1 .. Len(v.data) :
        v.data[c] # {} => \E p \in 1 .. Size(v) : c \in Bytes(v, p)

(* The region of k has to grow for flag i, and the first byte of another   *)
(* region is among those it then takes.                                    *)
Crowded(v, k, i) ==
  \E p, q \in 1 .. Size(v) :
     /\ v.index[p] = k
     /\ v.shifts[p][1] <= i
     /\ v.shifts[q][2] \in v.shifts[p][2] + 1 .. v.shifts[p][2] + Byte(i)

Crowding ==
  \E k \in Keys, i \in Indices, flag \in BOOLEAN :
     Crowded(flags, k, i) /\ Set(k, i, flag)

HasRoom(v, k, i) ==
  \E p \in 1 .. Size(v) : v.index[p] = k /\ i < v.shifts[p][1]

(* The flags that are up: those get() reports, within their own region.    *)
Up(v) ==
  {f \in Keys \X Indices : HasRoom(v, f[1], f[2]) /\ Get(v, f[1], f[2]) = {TRUE}}

Map == INSTANCE FlagMap WITH fired <- Up(flags), stored <- Up(image)

AllApart == Apart(flags) /\ Apart(image)

(* The packed flags are independent bits as long as regions are apart:      *)
(* raising, lowering, saving and loading then do to the bits get() reports  *)
(* what they do to a set of flags, whether regions grow or not.  Regions    *)
(* are apart at first, and they are so until a write is Crowded, exactly.   *)
FlagsApart ==
  /\ AllApart /\ Map!Init
  /\ [][AllApart => IF Crowding THEN ~AllApart'
                    ELSE AllApart' /\ [Map!Next]_(Map!vars)]_vars
=============================================================================
