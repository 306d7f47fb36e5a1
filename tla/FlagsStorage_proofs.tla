------------------------- MODULE FlagsStorage_proofs -------------------------
(***************************************************************************)
(* Theorems about FlagsStorage, for all patterns and any number of answers: *)
(* the vectors are well formed and no write leaves data; and the packed    *)
(* flags are those of FlagMap, whether regions grow or not, up to the      *)
(* first write by which a region reaches another one.                      *)
(***************************************************************************)
EXTENDS FlagsStorage, SequenceTheorems, TLAPS

(* Inserting into a sequence: what is where afterwards.                    *)
LEMMA InsertProperties ==
  ASSUME NEW S, NEW s \in Seq(S), NEW p \in 1 .. Len(s) + 1, NEW e \in S
  PROVE  /\ Insert(s, p, e) \in Seq(S)
         /\ Len(Insert(s, p, e)) = Len(s) + 1
         /\ \A n \in 1 .. Len(s) + 1 :
              Insert(s, p, e)[n] = IF n < p THEN s[n] ELSE IF n = p THEN e ELSE s[n - 1]
<1>1. Len(s) \in Nat
  OBVIOUS
<1>2. \A n \in 1 .. Len(s) + 1 :
        (IF n < p THEN s[n] ELSE IF n = p THEN e ELSE s[n - 1]) \in S
  <2> TAKE n \in 1 .. Len(s) + 1
  <2>1. CASE n < p
    BY <2>1, <1>1, ElementOfSeq
  <2>2. CASE n = p
    BY <2>2
  <2>3. CASE n > p
    BY <2>3, <1>1, ElementOfSeq
  <2> QED
    BY <2>1, <2>2, <2>3, <1>1
<1>3. Insert(s, p, e) \in Seq(S)
  BY <1>1, <1>2, IsASeq DEF Insert
<1>4. DOMAIN Insert(s, p, e) = 1 .. Len(s) + 1
  BY DEF Insert
<1>5. Len(Insert(s, p, e)) = Len(s) + 1
  BY <1>1, <1>3, <1>4, LenProperties
<1> QED
  BY <1>3, <1>5 DEF Insert

(* Inserting an element where it belongs keeps a sequence sorted.          *)
LEMMA InsertSorted ==
  ASSUME NEW s \in Seq(Nat), NEW p \in 1 .. Len(s) + 1, NEW e \in Nat,
         \A m, n \in 1 .. Len(s) : m < n => s[m] < s[n],
         \A n \in 1 .. Len(s) : IF n < p THEN s[n] < e ELSE e < s[n]
  PROVE  \A a, b \in 1 .. Len(s) + 1 :
           a < b => Insert(s, p, e)[a] < Insert(s, p, e)[b]
<1> DEFINE t == Insert(s, p, e)
<1>1. /\ Len(s) \in Nat
      /\ \A n \in 1 .. Len(s) : s[n] \in Nat
      /\ \A n \in 1 .. Len(s) + 1 :
           t[n] = IF n < p THEN s[n] ELSE IF n = p THEN e ELSE s[n - 1]
  BY DEF Insert
<1> HIDE DEF t
<1> SUFFICES ASSUME NEW a \in 1 .. Len(s) + 1, NEW b \in 1 .. Len(s) + 1, a < b
             PROVE  t[a] < t[b]
  BY DEF t
<1>2. CASE b <= p
  BY <1>1, <1>2
<1>3. CASE b > p /\ a < p
  <2>1. t[a] = s[a] /\ t[b] = s[b - 1] /\ a \in 1 .. Len(s) /\ b - 1 \in 1 .. Len(s)
    BY <1>1, <1>3
  <2>2. s[a] < e /\ e < s[b - 1]
    BY <2>1, <1>3, <1>1
  <2> QED
    BY <2>1, <2>2, <1>1
<1>4. CASE b > p /\ a >= p
  <2>1. t[b] = s[b - 1] /\ b - 1 \in 1 .. Len(s) /\ a \in 1 .. Len(s)
    BY <1>1, <1>4
  <2>2. CASE a = p
    <3>1. t[a] = e /\ e < s[b - 1]
      BY <2>1, <2>2, <1>1, <1>4
    <3> QED
      BY <3>1, <2>1
  <2>3. CASE a > p
    <3>1. t[a] = s[a - 1] /\ a - 1 \in 1 .. Len(s) /\ a - 1 < b - 1
      BY <2>1, <2>3, <1>1
    <3> QED
      BY <3>1, <2>1
  <2> QED
    BY <2>2, <2>3, <1>4
<1> QED
  BY <1>2, <1>3, <1>4

(* add() keeps the vectors well formed and every region inside data, and   *)
(* leaves the key at the place find() gave.                                *)
LEMMA AddKeeps ==
  ASSUME NEW v, WellFormed(v), NEW k \in Keys, NEW p \in LowerBound(v, k)
  PROVE  /\ WellFormed(Add(v, k, p))
         /\ Found(Add(v, k, p), k, p)
         /\ Inside(v) => Inside(Add(v, k, p))
<1> DEFINE w == Add(v, k, p)
<1>1. CASE Found(v, k, p)
  BY <1>1 DEF Add
<1>2. CASE ~Found(v, k, p)
  <2>1. /\ v.index \in Seq(Keys) /\ v.shifts \in Seq(Nat \X Nat)
        /\ v.data \in Seq(SUBSET Bits) /\ Len(v.shifts) = Size(v)
        /\ Size(v) \in Nat /\ Len(v.data) \in Nat /\ Len(v.index) = Size(v)
    BY DEF WellFormed, Storage, Size
  <2>2. p \in 1 .. Size(v) + 1
    BY DEF LowerBound
  <2>3. /\ w.index = Insert(v.index, p, k)
        /\ w.shifts = Insert(v.shifts, p, <<0, Len(v.data)>>)
        /\ w.data = v.data
        /\ w = [index |-> w.index, shifts |-> w.shifts, data |-> w.data]
    BY <1>2 DEF Add
  <2> HIDE DEF w
  <2>a. p \in 1 .. Len(v.index) + 1 /\ p \in 1 .. Len(v.shifts) + 1
    BY <2>1, <2>2
  <2>4. /\ w.index \in Seq(Keys)
        /\ Len(w.index) = Size(v) + 1
    <3>1. /\ Insert(v.index, p, k) \in Seq(Keys)
          /\ Len(Insert(v.index, p, k)) = Len(v.index) + 1
      BY <2>1, <2>a, InsertProperties
    <3> QED
      BY <3>1, <2>1, <2>3
  <2>5. /\ w.shifts \in Seq(Nat \X Nat)
        /\ Len(w.shifts) = Size(v) + 1
        /\ \A n \in 1 .. Size(v) + 1 :
             w.shifts[n] = IF n < p THEN v.shifts[n]
                           ELSE IF n = p THEN <<0, Len(v.data)>> ELSE v.shifts[n - 1]
    <3> DEFINE r == <<0, Len(v.data)>>
               T == Nat \X Nat
    <3>1. r \in T /\ v.shifts \in Seq(T)
      BY <2>1
    <3>2. w.shifts = Insert(v.shifts, p, r)
      BY <2>3
    <3> HIDE DEF r, T
    <3>3. /\ Insert(v.shifts, p, r) \in Seq(T)
          /\ Len(Insert(v.shifts, p, r)) = Len(v.shifts) + 1
      BY <2>a, <3>1, InsertProperties
    <3>4. \A n \in 1 .. Len(v.shifts) + 1 :
            Insert(v.shifts, p, r)[n] = IF n < p THEN v.shifts[n]
                                        ELSE IF n = p THEN r ELSE v.shifts[n - 1]
      BY DEF Insert
    <3> QED
      BY <3>2, <3>3, <3>4, <2>1 DEF r, T
  <2>6. w \in Storage
    BY <2>1, <2>3, <2>4, <2>5 DEF Storage
  <2>7. \A a, b \in 1 .. Size(w) : a < b => w.index[a] < w.index[b]
    <3>1. v.index \in Seq(Nat) /\ k \in Nat
      BY <2>1, KeysAssumption, SeqMonotonic
    <3>2. \A m, n \in 1 .. Len(v.index) : m < n => v.index[m] < v.index[n]
      BY <2>1 DEF WellFormed
    <3>3. \A n \in 1 .. Len(v.index) :
            IF n < p THEN v.index[n] < k ELSE k < v.index[n]
      <4> TAKE n \in 1 .. Len(v.index)
      <4>1. n < p <=> v.index[n] < k
        BY <2>1 DEF LowerBound
      <4>2. v.index[n] \in Nat
        BY <3>1
      <4>3. ASSUME p \in 1 .. Len(v.index)
            PROVE  v.index[p] \in Nat /\ k < v.index[p]
        <5>1. v.index[p] \in Nat
          BY <4>3, <3>1
        <5>2. v.index[p] # k
          BY <1>2, <4>3, <2>1 DEF Found
        <5>3. p < p <=> v.index[p] < k
          BY <4>3, <2>1 DEF LowerBound
        <5>4. p \in Int /\ k \in Nat
          BY <4>3, <3>1
        <5>5. ~(v.index[p] < k)
          BY <5>3, <5>4
        <5> QED
          BY <5>1, <5>2, <5>4, <5>5
      <4>4. CASE n < p
        BY <4>1, <4>4
      <4>5. CASE n = p
        BY <4>3, <4>5
      <4>6. CASE n > p
        <5>1. p \in 1 .. Len(v.index)
          BY <4>6, <2>1, <2>2
        <5>2. v.index[p] < v.index[n]
          BY <4>6, <5>1, <3>2
        <5>3. ~(n < p) /\ k < v.index[p] /\ v.index[p] \in Nat
          BY <4>3, <4>6, <5>1
        <5>4. k < v.index[n]
          BY <4>2, <5>2, <5>3, <3>1
        <5> QED
          BY <5>3, <5>4
      <4> QED
        BY <4>4, <4>5, <4>6, <2>2, <2>1
    <3>4. \A a, b \in 1 .. Len(v.index) + 1 :
            a < b => Insert(v.index, p, k)[a] < Insert(v.index, p, k)[b]
      BY <3>1, <3>2, <3>3, <2>a, InsertSorted
    <3> QED
      BY <3>4, <2>1, <2>3, <2>4 DEF Size
  <2>8. WellFormed(w)
    BY <2>4, <2>5, <2>6, <2>7 DEF WellFormed, Size
  <2>9. Found(w, k, p)
    BY <2>1, <2>2, <2>3, <2>4 DEF Found, Size, Insert
  <2>10. ASSUME Inside(v) PROVE Inside(w)
    <3>1. Size(w) = Size(v) + 1
      BY <2>4 DEF Size
    <3>2. SUFFICES ASSUME NEW n \in 1 .. Size(w)
                   PROVE  /\ w.shifts[n][1] % 8 = 0
                          /\ w.shifts[n][2] + w.shifts[n][1] \div 8 <= Len(w.data)
      BY DEF Inside
    <3>3. CASE n = p
      <4>1. w.shifts[n] = <<0, Len(v.data)>>
        BY <3>3, <2>1, <2>2, <2>5
      <4> QED
        BY <4>1, <2>1, <2>3
    <3>4. CASE n < p
      <4>1. w.shifts[n] = v.shifts[n] /\ n \in 1 .. Size(v)
        BY <3>4, <2>1, <2>2, <2>5, <3>1
      <4> QED
        BY <4>1, <2>3, <2>10 DEF Inside
    <3>5. CASE n > p
      <4>1. n - 1 \in 1 .. Size(v) /\ w.shifts[n] = v.shifts[n - 1]
        <5>1. n \in 1 .. Size(v) + 1 /\ ~(n < p) /\ n # p /\ n - 1 \in 1 .. Size(v)
          BY <3>5, <2>1, <2>2, <3>1
        <5> QED
          BY <5>1, <2>5
      <4> QED
        BY <4>1, <2>3, <2>10 DEF Inside
    <3> QED
      BY <3>3, <3>4, <3>5, <3>1, <2>1, <2>2
  <2> QED
    BY <2>8, <2>9, <2>10 DEF w
<1> QED
  BY <1>1, <1>2

(* So many zero bytes put after data.                                      *)
LEMMA MoreBytes ==
  ASSUME NEW d \in Seq(SUBSET Bits), NEW n \in Nat
  PROVE  /\ d \o ZeroBytes(n) \in Seq(SUBSET Bits)
         /\ Len(d \o ZeroBytes(n)) = Len(d) + n
         /\ \A c \in 1 .. Len(d) : (d \o ZeroBytes(n))[c] = d[c]
         /\ \A c \in 1 .. n : (d \o ZeroBytes(n))[Len(d) + c] = {}
<1>1. ZeroBytes(n) \in Seq(SUBSET Bits) /\ Len(ZeroBytes(n)) = n
  BY DEF ZeroBytes
<1>2. \A c \in 1 .. n : ZeroBytes(n)[c] = {}
  BY DEF ZeroBytes
<1>3. Len(d) \in Nat
  OBVIOUS
<1> DEFINE z == ZeroBytes(n)
           T == SUBSET Bits
<1> HIDE DEF z, T
<1>4. d \in Seq(T) /\ z \in Seq(T) /\ Len(z) = n
  BY <1>1 DEF z, T
<1>5. /\ d \o z \in Seq(T)
      /\ Len(d \o z) = Len(d) + Len(z)
      /\ \A c \in 1 .. Len(d) + Len(z) :
           (d \o z)[c] = IF c <= Len(d) THEN d[c] ELSE z[c - Len(d)]
  BY <1>4, ConcatProperties
<1>6. \A c \in 1 .. Len(d) : (d \o z)[c] = d[c]
  BY <1>3, <1>4, <1>5
<1>7. ASSUME NEW c \in 1 .. n PROVE (d \o z)[Len(d) + c] = {}
  <2>1. (d \o z)[Len(d) + c] = z[c]
    BY <1>3, <1>4, <1>5
  <2> QED
    BY <2>1, <1>2 DEF z
<1> QED
  BY <1>4, <1>5, <1>6, <1>7 DEF z, T

(* A region of whole bytes inside data whose capacity is above i has the   *)
(* byte of flag i.                                                         *)
LEMMA CellInside ==
  ASSUME NEW i \in Nat, NEW cap \in Nat, NEW off \in Nat, NEW len \in Nat,
         cap % 8 = 0, i < cap, off + cap \div 8 <= len
  PROVE  off + i \div 8 + 1 \in 1 .. len
<1>1. i \div 8 + 1 <= cap \div 8 /\ i \div 8 \in Nat /\ cap \div 8 \in Nat
  OBVIOUS
<1> QED
  BY <1>1

(* It stays inside when data grows.                                        *)
LEMMA StaysInside ==
  ASSUME NEW cap \in Nat, NEW off \in Nat, NEW len \in Nat, NEW n \in Nat,
         off + cap \div 8 <= len
  PROVE  off + cap \div 8 <= len + n
<1>1. cap \div 8 \in Nat
  OBVIOUS
<1> QED
  BY <1>1

LEMMA RoundedUp ==
  ASSUME NEW i \in Nat
  PROVE  /\ (i + 1 + 7) \div 8 \in Nat
         /\ i < 8 * ((i + 1 + 7) \div 8)
         /\ (8 * ((i + 1 + 7) \div 8)) % 8 = 0
         /\ (8 * ((i + 1 + 7) \div 8)) \div 8 = (i + 1 + 7) \div 8
OBVIOUS

(* pre_allocate_int() keeps the vectors well formed and gives the region a *)
(* byte for flag i, inside data.                                           *)
LEMMA ReserveKeeps ==
  ASSUME NEW v, WellFormed(v), NEW p \in 1 .. Size(v), NEW i \in Nat
  PROVE  /\ WellFormed(Reserve(v, p, i))
         /\ Reserve(v, p, i).index = v.index
         /\ Inside(v) => /\ Inside(Reserve(v, p, i))
                         /\ Cell(Reserve(v, p, i), p, i) \in
                              1 .. Len(Reserve(v, p, i).data)
<1>1. /\ v.index \in Seq(Keys) /\ v.shifts \in Seq(Nat \X Nat)
      /\ v.data \in Seq(SUBSET Bits) /\ Len(v.shifts) = Size(v)
      /\ Size(v) \in Nat /\ Len(v.data) \in Nat /\ Len(v.index) = Size(v)
      /\ v = [index |-> v.index, shifts |-> v.shifts, data |-> v.data]
  BY DEF WellFormed, Storage, Size
<1>2. \A n \in 1 .. Size(v) : v.shifts[n][1] \in Nat /\ v.shifts[n][2] \in Nat
  <2> TAKE n \in 1 .. Size(v)
  <2>1. v.shifts[n] \in Nat \X Nat
    BY <1>1, ElementOfSeq
  <2> QED
    BY <2>1
<1>3. CASE ~(v.shifts[p][1] <= i)
  <2>1. Reserve(v, p, i) = v
    BY <1>3 DEF Reserve
  <2>2. ASSUME Inside(v) PROVE Cell(v, p, i) \in 1 .. Len(v.data)
    <3>1. /\ v.shifts[p][1] % 8 = 0
          /\ v.shifts[p][2] + v.shifts[p][1] \div 8 <= Len(v.data)
      BY <2>2 DEF Inside
    <3>2. v.shifts[p][2] + i \div 8 + 1 \in 1 .. Len(v.data)
      <4> DEFINE cap == v.shifts[p][1]
                 off == v.shifts[p][2]
                 len == Len(v.data)
      <4>1. cap \in Nat /\ off \in Nat /\ len \in Nat /\ i < cap
        BY <1>1, <1>2, <1>3
      <4>2. cap % 8 = 0 /\ off + cap \div 8 <= len
        BY <3>1
      <4> HIDE DEF cap, off, len
      <4>3. off + i \div 8 + 1 \in 1 .. len
        BY <4>1, <4>2, CellInside
      <4> QED
        BY <4>3 DEF off, len
    <3> QED
      BY <3>2 DEF Cell, Byte
  <2> QED
    BY <2>1, <2>2
<1>4. CASE v.shifts[p][1] <= i
  <2> DEFINE n == (i + 1 + 7) \div 8
             w == Reserve(v, p, i)
             r == <<8 * n, v.shifts[p][2]>>
             T == Nat \X Nat
  <2>1. n \in Nat /\ i < 8 * n /\ (8 * n) % 8 = 0 /\ (8 * n) \div 8 = n
    BY RoundedUp
  <2>2. /\ w.index = v.index
        /\ w.shifts = [v.shifts EXCEPT ![p] = r]
        /\ w.data = v.data \o ZeroBytes(n)
        /\ w = [index |-> w.index, shifts |-> w.shifts, data |-> w.data]
    BY <1>1, <1>4 DEF Reserve, Grow
  <2>3. r \in T /\ v.shifts \in Seq(T) /\ r[1] = 8 * n /\ r[2] = v.shifts[p][2]
    <3>1. 8 * n \in Nat
      BY <2>1
    <3>2. v.shifts[p][2] \in Nat
      BY <1>2
    <3> HIDE DEF n
    <3> QED
      BY <1>1, <3>1, <3>2
  <2> HIDE DEF n, w, r
  <2>4. /\ w.data \in Seq(SUBSET Bits)
        /\ Len(w.data) = Len(v.data) + n
    <3>1. /\ v.data \o ZeroBytes(n) \in Seq(SUBSET Bits)
          /\ Len(v.data \o ZeroBytes(n)) = Len(v.data) + n
      BY <1>1, <2>1, MoreBytes, Zenon
    <3> QED
      BY <3>1, <2>2
  <2>5. /\ w.shifts \in Seq(T)
        /\ Len(w.shifts) = Size(v)
        /\ \A m \in 1 .. Size(v) : w.shifts[m] = IF m = p THEN r ELSE v.shifts[m]
    <3> HIDE DEF T
    <3> QED
      BY <1>1, <2>2, <2>3, ExceptSeq
  <2>6. WellFormed(w)
    BY <1>1, <2>2, <2>4, <2>5 DEF WellFormed, Storage, Size
  <2>7. ASSUME Inside(v) PROVE Inside(w) /\ Cell(w, p, i) \in 1 .. Len(w.data)
    <3>1. Size(w) = Size(v)
      BY <2>2 DEF Size
    <3>2. ASSUME NEW m \in 1 .. Size(w)
          PROVE  /\ w.shifts[m][1] % 8 = 0
                 /\ w.shifts[m][2] + w.shifts[m][1] \div 8 <= Len(w.data)
      <4>1. CASE m = p
        <5>1. w.shifts[m][1] = 8 * n /\ w.shifts[m][2] = v.shifts[p][2]
          BY <4>1, <2>3, <2>5, <3>1
        <5>2. v.shifts[p][2] <= Len(v.data)
          BY <1>1, <1>2, <2>7 DEF Inside
        <5> QED
          BY <5>1, <5>2, <1>1, <1>2, <2>1, <2>4
      <4>2. CASE m # p
        <5>1. /\ w.shifts[m] = v.shifts[m]
              /\ v.shifts[m][1] % 8 = 0
              /\ v.shifts[m][2] + v.shifts[m][1] \div 8 <= Len(v.data)
          BY <4>2, <2>5, <2>7, <3>1 DEF Inside
        <5> DEFINE cap == v.shifts[m][1]
                   off == v.shifts[m][2]
                   len == Len(v.data)
        <5>2. cap \in Nat /\ off \in Nat /\ len \in Nat /\ off + cap \div 8 <= len
          BY <5>1, <1>1, <1>2, <3>1
        <5> HIDE DEF cap, off, len
        <5>3. off + cap \div 8 <= len + n
          BY <5>2, <2>1, StaysInside
        <5> QED
          BY <5>1, <5>3, <2>4 DEF cap, off, len
      <4> QED
        BY <4>1, <4>2
    <3>3. Inside(w)
      BY <3>2 DEF Inside
    <3>4. w.shifts[p][1] = 8 * n /\ w.shifts[p][2] = v.shifts[p][2]
      BY <2>3, <2>5
    <3>5. w.shifts[p][2] + n <= Len(w.data)
      BY <3>1, <3>2, <3>4, <2>1
    <3>6. v.shifts[p][2] + i \div 8 + 1 \in 1 .. Len(w.data)
      <4> DEFINE cap == 8 * n
                 off == v.shifts[p][2]
                 len == Len(w.data)
      <4>1. cap \in Nat /\ off \in Nat /\ len \in Nat /\ i < cap
        BY <1>1, <1>2, <2>1, <2>4
      <4>2. cap % 8 = 0 /\ off + cap \div 8 <= len
        BY <2>1, <3>4, <3>5
      <4> HIDE DEF cap, off, len
      <4>3. off + i \div 8 + 1 \in 1 .. len
        BY <4>1, <4>2, CellInside
      <4> QED
        BY <4>3 DEF off, len
    <3> QED
      BY <3>3, <3>4, <3>6 DEF Cell, Byte
  <2> QED
    BY <2>2, <2>6, <2>7 DEF w
<1> QED
  BY <1>3, <1>4

(* The write of set() changes one byte and no region.                      *)
LEMMA WriteKeeps ==
  ASSUME NEW v, WellFormed(v), NEW p, NEW i \in Nat, NEW flag \in BOOLEAN,
         Cell(v, p, i) \in 1 .. Len(v.data)
  PROVE  /\ WellFormed(Write(v, p, i, flag))
         /\ Inside(v) => Inside(Write(v, p, i, flag))
         /\ Write(v, p, i, flag).index = v.index
         /\ Write(v, p, i, flag).shifts = v.shifts
         /\ Len(Write(v, p, i, flag).data) = Len(v.data)
         /\ \A c \in 1 .. Len(v.data) :
              c # Cell(v, p, i) => Write(v, p, i, flag).data[c] = v.data[c]
         /\ \A j : (j \in Write(v, p, i, flag).data[Cell(v, p, i)]) <=>
                     \/ j = Bit(i) /\ flag
                     \/ j # Bit(i) /\ j \in v.data[Cell(v, p, i)]
<1> DEFINE w == Write(v, p, i, flag)
           c == Cell(v, p, i)
           b == IF flag THEN v.data[c] \union {Bit(i)} ELSE v.data[c] \ {Bit(i)}
           T == SUBSET Bits
<1>1. /\ v.index \in Seq(Keys) /\ v.shifts \in Seq(Nat \X Nat) /\ v.data \in Seq(T)
      /\ Len(v.shifts) = Size(v) /\ Len(v.data) \in Nat
  BY DEF WellFormed, Storage
<1>2. /\ w.index = v.index /\ w.shifts = v.shifts
      /\ w.data = [v.data EXCEPT ![c] = b]
      /\ w = [index |-> w.index, shifts |-> w.shifts, data |-> w.data]
  BY DEF Write
<1>3. b \in T
  <2>1. Bit(i) \in Bits
    BY DEF Bit, Bits
  <2>2. v.data[c] \in T
    BY <1>1, ElementOfSeq
  <2> QED
    BY <2>1, <2>2
<1> HIDE DEF w, b, T
<1>4. /\ w.data \in Seq(T)
      /\ Len(w.data) = Len(v.data)
      /\ \A n \in 1 .. Len(v.data) : w.data[n] = IF n = c THEN b ELSE v.data[n]
  BY <1>1, <1>2, <1>3, ExceptSeq
<1>5. WellFormed(w)
  BY <1>1, <1>2, <1>4 DEF WellFormed, Storage, Size, T
<1>6. Inside(v) => Inside(w)
  BY <1>2, <1>4 DEF Inside, Size
<1>7. \A j : (j \in b) <=>
                  \/ j = Bit(i) /\ flag
                  \/ j # Bit(i) /\ j \in v.data[c]
  <2> TAKE j
  <2>1. CASE flag
    <3>1. b = v.data[c] \union {Bit(i)}
      BY <2>1 DEF b
    <3>2. (j \in b) <=> j = Bit(i) \/ j \in v.data[c]
      BY <3>1
    <3>3. CASE j = Bit(i)
      BY <2>1, <3>2, <3>3, Zenon
    <3>4. CASE j # Bit(i)
      BY <3>2, <3>4
    <3> QED
      BY <3>3, <3>4
  <2>2. CASE ~flag
    <3>1. b = v.data[c] \ {Bit(i)}
      BY <2>2 DEF b
    <3>2. (j \in b) <=> j # Bit(i) /\ j \in v.data[c]
      BY <3>1
    <3> QED
      BY <2>2, <3>2
  <2> QED
    BY <2>1, <2>2
<1>8. \A j : (j \in w.data[c]) <=>
                  \/ j = Bit(i) /\ flag
                  \/ j # Bit(i) /\ j \in v.data[c]
  BY <1>4, <1>7
<1>9. \A m \in 1 .. Len(v.data) : m # c => w.data[m] = v.data[m]
  BY <1>4
<1> HIDE DEF c
<1>10. c = Cell(v, p, i)
  BY DEF c
<1>11. \A m \in 1 .. Len(v.data) : m # Cell(v, p, i) => w.data[m] = v.data[m]
  BY <1>9, <1>10
<1>12. \A j : (j \in w.data[Cell(v, p, i)]) <=>
                     \/ j = Bit(i) /\ flag
                     \/ j # Bit(i) /\ j \in v.data[Cell(v, p, i)]
  BY <1>8, <1>10, Zenon
<1> QED
  BY <1>2, <1>4, <1>5, <1>6, <1>11, <1>12, Zenon DEF w

(* set() as a whole.                                                       *)
LEMMA SetKeeps ==
  ASSUME NEW v, WellFormed(v), Inside(v), NEW k \in Keys, NEW i \in Indices,
         NEW flag \in BOOLEAN, NEW p \in LowerBound(v, k)
  PROVE  LET w == Write(Reserve(Add(v, k, p), p, i), p, i, flag)
         IN  WellFormed(w) /\ Inside(w)
<1> DEFINE a == Add(v, k, p)
           r == Reserve(a, p, i)
<1>1. WellFormed(a) /\ Inside(a) /\ Found(a, k, p)
  BY AddKeeps
<1>2. p \in 1 .. Size(a) /\ i \in Nat
  BY <1>1, IndicesAssumption DEF Found, LowerBound, WellFormed, Storage, Size
<1> HIDE DEF a
<1>3. WellFormed(r) /\ Inside(r) /\ Cell(r, p, i) \in 1 .. Len(r.data)
  BY <1>1, <1>2, ReserveKeeps
<1> HIDE DEF r
<1> QED
  BY <1>2, <1>3, WriteKeeps DEF a, r
-----------------------------------------------------------------------------
(* The three vectors of the session in memory and of its copy in the cache *)
(* are parallel, sorted and whole after every sequence of set, unset,      *)
(* save, load and reset, and set() never writes outside data.              *)
THEOREM VectorsAreSound == Spec => [](TypeOK /\ RegionsInside)
<1> DEFINE IInv == TypeOK /\ RegionsInside
<1>1. Init => IInv
  <2>1. WellFormed(Empty) /\ Inside(Empty)
    BY EmptySeq DEF WellFormed, Inside, Storage, Empty, Size
  <2> QED
    BY <2>1 DEF Init, TypeOK, RegionsInside
<1>2. IInv /\ [Next]_vars => IInv'
  <2> SUFFICES ASSUME IInv, [Next]_vars PROVE IInv'
    OBVIOUS
  <2>0. WellFormed(flags) /\ Inside(flags) /\ WellFormed(image) /\ Inside(image)
    BY DEF TypeOK, RegionsInside
  <2> SUFFICES WellFormed(flags') /\ Inside(flags') /\ WellFormed(image') /\ Inside(image')
    BY DEF TypeOK, RegionsInside, WellFormed, Inside, Storage, Size
  <2>1. ASSUME NEW k \in Keys, NEW i \in Indices, NEW flag \in BOOLEAN, Set(k, i, flag)
        PROVE  WellFormed(flags') /\ Inside(flags') /\ WellFormed(image') /\ Inside(image')
    <3>1. PICK p \in LowerBound(flags, k) :
            flags' = Write(Reserve(Add(flags, k, p), p, i), p, i, flag)
      BY <2>1 DEF Set
    <3>2. WellFormed(flags') /\ Inside(flags')
      BY <2>0, <3>1, SetKeeps
    <3> QED
      BY <2>0, <2>1, <3>2 DEF Set
  <2>2. CASE Save
    BY <2>0, <2>2 DEF Save
  <2>3. CASE Load
    BY <2>0, <2>3 DEF Load
  <2>4. CASE Reset
    <3>1. WellFormed(Empty) /\ Inside(Empty)
      BY EmptySeq DEF WellFormed, Inside, Storage, Empty, Size
    <3> QED
      BY <2>0, <2>4, <3>1 DEF Reset
  <2>5. CASE UNCHANGED vars
    BY <2>0, <2>5 DEF vars
  <2> QED
    BY <2>1, <2>2, <2>3, <2>4, <2>5 DEF Next
<1> QED
  BY <1>1, <1>2, PTL DEF Spec
-----------------------------------------------------------------------------
(* A storage whose regions share no byte; a region that add() has just     *)
(* made may still be empty.                                                *)
Tidy(v) ==
  /\ WellFormed(v) /\ Inside(v)
  /\ \A p, q \in 1 .. Size(v) : \A c \in Bytes(v, p) \cap Bytes(v, q) : p = q
  /\ \A c \in 1 .. Len(v.data) :
        v.data[c] # {} => \E p \in 1 .. Size(v) : c \in Bytes(v, p)

(* Flag i of pattern k is up in the region of the pattern.                 *)
Held(v, k, i) ==
  \E p \in 1 .. Size(v) :
     v.index[p] = k /\ i < v.shifts[p][1] /\ Bit(i) \in v.data[Cell(v, p, i)]

LEMMA BytesAndBits ==
  /\ \A i \in Nat : Byte(i) \in Nat /\ Bit(i) \in 0 .. 7 /\ i = 8 * Byte(i) + Bit(i)
  /\ \A i, cap \in Nat : cap % 8 = 0 => (i < cap <=> Byte(i) < cap \div 8)
  /\ \A i \in Nat : (i + 1 + 7) \div 8 = Byte(i) + 1
BY DEF Byte, Bit

(* Regions as numbers of bytes.                                            *)
LEMMA RegionTypes ==
  ASSUME NEW v, WellFormed(v), Inside(v)
  PROVE  /\ Size(v) \in Nat /\ Len(v.data) \in Nat
         /\ \A p \in 1 .. Size(v) :
               /\ v.shifts[p][1] \in Nat /\ v.shifts[p][2] \in Nat
               /\ v.shifts[p][1] \div 8 \in Nat /\ v.shifts[p][1] % 8 = 0
               /\ v.shifts[p][2] + v.shifts[p][1] \div 8 <= Len(v.data)
               /\ Bytes(v, p) \subseteq 1 .. Len(v.data)
<1>1. Size(v) \in Nat /\ Len(v.data) \in Nat /\ Len(v.shifts) = Size(v) /\ v.shifts \in Seq(Nat \X Nat)
  BY DEF WellFormed, Storage, Size
<1> SUFFICES ASSUME NEW p \in 1 .. Size(v)
             PROVE  /\ v.shifts[p][1] \in Nat /\ v.shifts[p][2] \in Nat
                    /\ v.shifts[p][1] \div 8 \in Nat /\ v.shifts[p][1] % 8 = 0
                    /\ v.shifts[p][2] + v.shifts[p][1] \div 8 <= Len(v.data)
                    /\ Bytes(v, p) \subseteq 1 .. Len(v.data)
  BY <1>1
<1>2. v.shifts[p] \in Nat \X Nat
  BY <1>1, ElementOfSeq
<1>3. v.shifts[p][1] \in Nat /\ v.shifts[p][2] \in Nat
  BY <1>2
<1>4. v.shifts[p][1] % 8 = 0 /\ v.shifts[p][2] + v.shifts[p][1] \div 8 <= Len(v.data)
  BY DEF Inside
<1>5. v.shifts[p][1] \div 8 \in Nat
  BY <1>3
<1>6. Bytes(v, p) \subseteq 1 .. Len(v.data)
  <2> DEFINE off == v.shifts[p][2]
             n == v.shifts[p][1] \div 8
             len == Len(v.data)
  <2>1. off \in Nat /\ n \in Nat /\ len \in Nat /\ off + n <= len
    BY <1>1, <1>3, <1>4, <1>5
  <2>2. Bytes(v, p) = off + 1 .. off + n
    BY DEF Bytes
  <2> HIDE DEF off, n, len
  <2>3. off + 1 .. off + n \subseteq 1 .. len
    BY <2>1
  <2> QED
    BY <2>2, <2>3 DEF len
<1> QED
  BY <1>1, <1>3, <1>4, <1>5, <1>6

(* The byte of a flag that has room is one of its region's.                *)
LEMMA CellOfRegion ==
  ASSUME NEW v, WellFormed(v), Inside(v), NEW p \in 1 .. Size(v), NEW i \in Nat
  PROVE  /\ Cell(v, p, i) \in Nat
         /\ i < v.shifts[p][1] <=> Cell(v, p, i) \in Bytes(v, p)
<1>1. /\ v.shifts[p][1] \in Nat /\ v.shifts[p][2] \in Nat
      /\ v.shifts[p][1] \div 8 \in Nat /\ v.shifts[p][1] % 8 = 0
  BY RegionTypes
<1>2. i < v.shifts[p][1] <=> Byte(i) < v.shifts[p][1] \div 8
  BY <1>1, BytesAndBits
<1>3. Byte(i) \in Nat
  BY BytesAndBits
<1> QED
  BY <1>1, <1>2, <1>3 DEF Cell, Bytes

(* A key is found where it is.                                             *)
LEMMA FindsKey ==
  ASSUME NEW v, WellFormed(v), NEW k \in Keys
  PROVE  \A p \in 1 .. Size(v) :
           v.index[p] = k => /\ p \in LowerBound(v, k)
                             /\ Found(v, k, p)
                             /\ \A q \in LowerBound(v, k) : Found(v, k, q) => q = p
<1>1. /\ Size(v) \in Nat
      /\ \A n \in 1 .. Size(v) : v.index[n] \in Nat
      /\ \A m, n \in 1 .. Size(v) : m < n => v.index[m] < v.index[n]
  <2>1. v.index \in Seq(Keys) /\ Size(v) = Len(v.index)
    BY DEF WellFormed, Storage, Size
  <2>2. ASSUME NEW n \in 1 .. Size(v) PROVE v.index[n] \in Nat
    BY <2>1, KeysAssumption, ElementOfSeq
  <2>3. Size(v) \in Nat
    BY <2>1
  <2> QED
    BY <2>2, <2>3 DEF WellFormed
<1> TAKE p \in 1 .. Size(v)
<1> HAVE v.index[p] = k
<1>2. ASSUME NEW n \in 1 .. Size(v)
      PROVE  n < p <=> v.index[n] < k
  <2>1. n < p => v.index[n] < k
    BY <1>1
  <2>2. p < n => k < v.index[n]
    BY <1>1
  <2>3. n = p => v.index[n] = k
    OBVIOUS
  <2> QED
    BY <1>1, <2>1, <2>2, <2>3
<1>3. p \in LowerBound(v, k)
  BY <1>1, <1>2 DEF LowerBound
<1>4. ASSUME NEW q \in LowerBound(v, k), Found(v, k, q)
      PROVE  q = p
  <2>1. q \in 1 .. Size(v) /\ v.index[q] = k
    BY <1>1, <1>4 DEF Found, LowerBound
  <2> QED
    BY <1>1, <2>1
<1>5. Found(v, k, p)
  BY <1>1 DEF Found
<1> QED
  BY <1>3, <1>4, <1>5, Zenon

(* What get() answers about a flag that has room.                          *)
LEMMA GetIsHeld ==
  ASSUME NEW v, WellFormed(v), Inside(v), NEW k \in Keys, NEW i \in Nat
  PROVE  HasRoom(v, k, i) /\ Get(v, k, i) = {TRUE} <=> Held(v, k, i)
<1> DEFINE at == {p \in LowerBound(v, k) : Found(v, k, p)}
<1>1. SUFFICES ASSUME NEW p \in 1 .. Size(v), v.index[p] = k, i < v.shifts[p][1]
               PROVE  (Get(v, k, i) = {TRUE}) <=> Held(v, k, i)
  BY DEF HasRoom, Held
<1>2. /\ p \in at
      /\ \A q \in at : q = p
      /\ \A q \in 1 .. Size(v) : v.index[q] = k => q = p
  BY <1>1, FindsKey
<1>3. (CHOOSE q \in at : TRUE) = p /\ at # {}
  BY <1>2
<1>4. Cell(v, p, i) <= Len(v.data)
  <2>1. Cell(v, p, i) \in Bytes(v, p) /\ Bytes(v, p) \subseteq 1 .. Len(v.data) /\ Len(v.data) \in Nat
    BY <1>1, CellOfRegion, RegionTypes
  <2> QED
    BY <2>1
<1>5. Get(v, k, i) = {(Bit(i) \in v.data[Cell(v, p, i)])}
  <2>1. Get(v, k, i) = IF at = {} THEN {FALSE}
                       ELSE IF Cell(v, CHOOSE q \in at : TRUE, i) <= Len(v.data)
                       THEN {(Bit(i) \in v.data[Cell(v, CHOOSE q \in at : TRUE, i)])}
                       ELSE BOOLEAN
    BY Zenon DEF Get
  <2> HIDE DEF at
  <2> QED
    BY <1>3, <1>4, <2>1, Zenon
<1>6. Held(v, k, i) <=> Bit(i) \in v.data[Cell(v, p, i)]
  BY <1>1, <1>2 DEF Held
<1> QED
  BY <1>5, <1>6

LEMMA UpIsHeld ==
  ASSUME NEW v, WellFormed(v), Inside(v)
  PROVE  Up(v) = {f \in Keys \X Indices : Held(v, f[1], f[2])}
<1>1. ASSUME NEW f \in Keys \X Indices
      PROVE  HasRoom(v, f[1], f[2]) /\ Get(v, f[1], f[2]) = {TRUE} <=> Held(v, f[1], f[2])
  <2>1. f[1] \in Keys /\ f[2] \in Nat
    BY IndicesAssumption
  <2> QED
    BY <2>1, GetIsHeld
<1> QED
  BY <1>1 DEF Up

LEMMA ApartIsTidy ==
  ASSUME NEW v, WellFormed(v), Inside(v)
  PROVE  Apart(v) <=> Tidy(v) /\ \A p \in 1 .. Size(v) : Bytes(v, p) # {}
BY DEF Apart, Tidy

(* A key that is not there yet: its region is new, and the others move up. *)
Old(p, n) == IF n < p THEN n ELSE n - 1
New(p, n) == IF n < p THEN n ELSE n + 1

LEMMA AddShape ==
  ASSUME NEW v, WellFormed(v), NEW k \in Keys, NEW p \in LowerBound(v, k), ~Found(v, k, p),
         NEW a, a = Add(v, k, p)
  PROVE  /\ p \in 1 .. Size(a) /\ Size(a) = Size(v) + 1 /\ Size(v) \in Nat
         /\ a.data = v.data
         /\ a.index[p] = k /\ a.shifts[p] = <<0, Len(v.data)>>
         /\ \A n \in 1 .. Size(a) :
              n # p => /\ Old(p, n) \in 1 .. Size(v)
                       /\ a.index[n] = v.index[Old(p, n)] /\ a.shifts[n] = v.shifts[Old(p, n)]
         /\ \A n \in 1 .. Size(v) :
              /\ New(p, n) \in 1 .. Size(a) /\ New(p, n) # p
              /\ a.index[New(p, n)] = v.index[n] /\ a.shifts[New(p, n)] = v.shifts[n]
         /\ \A m, n \in 1 .. Size(a) : m # p /\ n # p /\ Old(p, m) = Old(p, n) => m = n
<1> DEFINE N == Size(v)
<1>1. N \in Nat /\ p \in 1 .. N + 1 /\ Len(v.shifts) = N /\ Len(v.index) = N
  BY DEF WellFormed, Storage, Size, LowerBound
<1>2. /\ a.index = Insert(v.index, p, k)
      /\ a.shifts = Insert(v.shifts, p, <<0, Len(v.data)>>)
      /\ a.data = v.data
  BY DEF Add
<1>3. Size(a) = N + 1
  <2>1. v.index \in Seq(Keys) /\ p \in 1 .. Len(v.index) + 1
    BY <1>1 DEF WellFormed, Storage
  <2>2. Len(Insert(v.index, p, k)) = Len(v.index) + 1
    BY <2>1, InsertProperties
  <2> QED
    BY <1>1, <1>2, <2>2 DEF Size
<1>4. \A n \in 1 .. N + 1 :
        /\ a.index[n] = IF n < p THEN v.index[n] ELSE IF n = p THEN k ELSE v.index[n - 1]
        /\ a.shifts[n] = IF n < p THEN v.shifts[n]
                         ELSE IF n = p THEN <<0, Len(v.data)>> ELSE v.shifts[n - 1]
  BY <1>1, <1>2 DEF Insert
<1> HIDE DEF N
<1>5. \A n \in 1 .. N + 1 :
        n # p => Old(p, n) \in 1 .. N /\ a.index[n] = v.index[Old(p, n)] /\ a.shifts[n] = v.shifts[Old(p, n)]
  BY <1>1, <1>4 DEF Old
<1>6. \A n \in 1 .. N : New(p, n) \in 1 .. N + 1 /\ New(p, n) # p /\ Old(p, New(p, n)) = n
  BY <1>1 DEF Old, New
<1>7. \A n \in 1 .. N :
        /\ New(p, n) \in 1 .. N + 1 /\ New(p, n) # p
        /\ a.index[New(p, n)] = v.index[n] /\ a.shifts[New(p, n)] = v.shifts[n]
  BY <1>5, <1>6
<1>8. \A m, n \in 1 .. N + 1 : m # p /\ n # p /\ Old(p, m) = Old(p, n) => m = n
  BY <1>1 DEF Old
<1>9. a.index[p] = k /\ a.shifts[p] = <<0, Len(v.data)>>
  BY <1>1, <1>4
<1> QED
  BY <1>1, <1>2, <1>3, <1>5, <1>7, <1>8, <1>9, Zenon DEF N

(* add() disturbs no flag.                                                 *)
LEMMA AddIsTidy ==
  ASSUME NEW v, Tidy(v), NEW k \in Keys, NEW p \in LowerBound(v, k)
  PROVE  LET a == Add(v, k, p)
         IN  /\ Tidy(a)
             /\ \A l \in Keys, j \in Nat : Held(a, l, j) <=> Held(v, l, j)
<1> DEFINE a == Add(v, k, p)
<1>1. CASE Found(v, k, p)
  BY <1>1 DEF Add
<1>2. CASE ~Found(v, k, p)
  <2>1. WellFormed(v) /\ Inside(v)
    BY DEF Tidy
  <2>2. WellFormed(a) /\ Inside(a) /\ a = Add(v, k, p)
    BY <2>1, AddKeeps
  <2> HIDE DEF a
  <2>3. /\ p \in 1 .. Size(a)
        /\ a.data = v.data
        /\ a.index[p] = k /\ a.shifts[p] = <<0, Len(v.data)>>
        /\ \A n \in 1 .. Size(a) :
             n # p => /\ Old(p, n) \in 1 .. Size(v)
                      /\ a.index[n] = v.index[Old(p, n)] /\ a.shifts[n] = v.shifts[Old(p, n)]
        /\ \A n \in 1 .. Size(v) :
             /\ New(p, n) \in 1 .. Size(a) /\ New(p, n) # p
             /\ a.index[New(p, n)] = v.index[n] /\ a.shifts[New(p, n)] = v.shifts[n]
        /\ \A m, n \in 1 .. Size(a) : m # p /\ n # p /\ Old(p, m) = Old(p, n) => m = n
    BY <1>2, <2>1, <2>2, AddShape
  <2>4. a.shifts[p][1] = 0 /\ Bytes(a, p) = {}
    <3>1. a.shifts[p][1] = 0 /\ a.shifts[p][2] = Len(v.data) /\ Len(v.data) \in Nat
      BY <2>1, <2>3, RegionTypes
    <3> QED
      BY <3>1 DEF Bytes
  <2>5. \A n \in 1 .. Size(a) : n # p => Bytes(a, n) = Bytes(v, Old(p, n))
    BY <2>3 DEF Bytes
  <2>6. \A n \in 1 .. Size(v) : Bytes(a, New(p, n)) = Bytes(v, n)
    BY <2>3 DEF Bytes
  <2>7. ASSUME NEW m \in 1 .. Size(a), NEW n \in 1 .. Size(a),
               NEW c \in Bytes(a, m) \cap Bytes(a, n)
        PROVE  m = n
    <3>1. m # p /\ n # p
      BY <2>4
    <3>2. c \in Bytes(v, Old(p, m)) \cap Bytes(v, Old(p, n)) /\ Old(p, m) \in 1 .. Size(v) /\ Old(p, n) \in 1 .. Size(v)
      BY <2>3, <2>5, <3>1
    <3>3. Old(p, m) = Old(p, n)
      BY <3>2 DEF Tidy
    <3> QED
      BY <2>3, <3>1, <3>3
  <2>8. ASSUME NEW c \in 1 .. Len(a.data), a.data[c] # {}
        PROVE  \E n \in 1 .. Size(a) : c \in Bytes(a, n)
    <3>1. PICK n \in 1 .. Size(v) : c \in Bytes(v, n)
      BY <2>3, <2>8 DEF Tidy
    <3> QED
      BY <2>3, <2>6, <3>1
  <2>9. Tidy(a)
    BY <2>2, <2>7, <2>8 DEF Tidy
  <2>10. ASSUME NEW l \in Keys, NEW j \in Nat
         PROVE  Held(a, l, j) <=> Held(v, l, j)
    <3>1. ASSUME Held(a, l, j) PROVE Held(v, l, j)
      <4>1. PICK n \in 1 .. Size(a) : a.index[n] = l /\ j < a.shifts[n][1] /\ Bit(j) \in a.data[Cell(a, n, j)]
        BY <3>1 DEF Held
      <4>2. n # p
        BY <2>4, <4>1
      <4>3. /\ Old(p, n) \in 1 .. Size(v) /\ v.index[Old(p, n)] = l /\ j < v.shifts[Old(p, n)][1]
            /\ Bit(j) \in v.data[Cell(v, Old(p, n), j)]
        BY <2>3, <4>1, <4>2 DEF Cell
      <4> QED
        BY <4>3 DEF Held
    <3>2. ASSUME Held(v, l, j) PROVE Held(a, l, j)
      <4>1. PICK n \in 1 .. Size(v) : v.index[n] = l /\ j < v.shifts[n][1] /\ Bit(j) \in v.data[Cell(v, n, j)]
        BY <3>2 DEF Held
      <4>2. /\ New(p, n) \in 1 .. Size(a) /\ a.index[New(p, n)] = l /\ j < a.shifts[New(p, n)][1]
            /\ Bit(j) \in a.data[Cell(a, New(p, n), j)]
        BY <2>3, <4>1 DEF Cell
      <4> QED
        BY <4>2 DEF Held
    <3> QED
      BY <3>1, <3>2
  <2> QED
    BY <2>9, <2>10 DEF a
<1> QED
  BY <1>1, <1>2

(* Where the other regions lie when the region of k has to grow for i: in  *)
(* front of it as a whole, or behind all it then takes.                    *)
Free(a, p, i) ==
  \A q \in 1 .. Size(a) :
     q # p => \/ a.shifts[q][2] + a.shifts[q][1] \div 8 <= a.shifts[p][2]
              \/ a.shifts[q][2] > a.shifts[p][2] + Byte(i)

LEMMA AddIsFree ==
  ASSUME NEW v, WellFormed(v), Inside(v), Apart(v), NEW k \in Keys, NEW i \in Nat,
         NEW p \in LowerBound(v, k), ~Crowded(v, k, i)
  PROVE  LET a == Add(v, k, p)
         IN  /\ p \in 1 .. Size(a) /\ a.index[p] = k
             /\ a.shifts[p][1] <= i => Free(a, p, i)
             /\ \A q \in 1 .. Size(a) : q # p => Bytes(a, q) # {}
             /\ a.shifts[p][1] > i => Bytes(a, p) # {}
<1> DEFINE a == Add(v, k, p)
<1>1. CASE Found(v, k, p)
  <2>1. a = v /\ p \in 1 .. Size(v) /\ v.index[p] = k
    BY <1>1 DEF Add, Found, LowerBound
  <2>2. ASSUME NEW q \in 1 .. Size(v), q # p, v.shifts[p][1] <= i
        PROVE  \/ v.shifts[q][2] + v.shifts[q][1] \div 8 <= v.shifts[p][2]
               \/ v.shifts[q][2] > v.shifts[p][2] + Byte(i)
    <3> DEFINE o == v.shifts[p][2]
               n == v.shifts[p][1] \div 8
               s == v.shifts[q][2]
               m == v.shifts[q][1] \div 8
    <3>1. o \in Nat /\ n \in Nat /\ s \in Nat /\ m \in Nat /\ Byte(i) \in Nat
      BY <2>1, RegionTypes, BytesAndBits
    <3>2. Bytes(v, p) = o + 1 .. o + n /\ Bytes(v, q) = s + 1 .. s + m
      BY DEF Bytes
    <3>3. ~(s \in o + 1 .. o + Byte(i))
      BY <2>1, <2>2 DEF Crowded
    <3>4. (o + 1 .. o + n) \cap (s + 1 .. s + m) = {} /\ o + 1 .. o + n # {}
      BY <2>1, <2>2, <3>2 DEF Apart
    <3> HIDE DEF o, n, s, m
    <3>5. n > 0
      BY <3>1, <3>4
    <3>6. CASE s > o
      BY <3>1, <3>3, <3>6 DEF o, s
    <3>7. CASE s <= o
      <4>1. ~(o + 1 \in s + 1 .. s + m)
        BY <3>1, <3>4, <3>5
      <4>2. s + m <= o
        BY <3>1, <3>7, <4>1
      <4> QED
        BY <4>2 DEF o, s, m
    <3> QED
      BY <3>1, <3>6, <3>7
  <2> QED
    BY <2>1, <2>2 DEF Free, Apart
<1>2. CASE ~Found(v, k, p)
  <2>a. a = Add(v, k, p)
    OBVIOUS
  <2> HIDE DEF a
  <2>1. /\ p \in 1 .. Size(a)
        /\ a.index[p] = k /\ a.shifts[p] = <<0, Len(v.data)>>
        /\ \A n \in 1 .. Size(a) :
             n # p => Old(p, n) \in 1 .. Size(v) /\ a.shifts[n] = v.shifts[Old(p, n)]
    BY <1>2, <2>a, AddShape
  <2>2. a.shifts[p][1] = 0 /\ a.shifts[p][2] = Len(v.data)
    BY <2>1
  <2>3. ASSUME NEW q \in 1 .. Size(a), q # p
        PROVE  /\ a.shifts[q][2] + a.shifts[q][1] \div 8 <= a.shifts[p][2]
               /\ Bytes(a, q) # {}
    <3>1. Old(p, q) \in 1 .. Size(v) /\ a.shifts[q] = v.shifts[Old(p, q)]
      BY <2>1, <2>3
    <3>2. v.shifts[Old(p, q)][2] + v.shifts[Old(p, q)][1] \div 8 <= Len(v.data) /\ Bytes(v, Old(p, q)) # {}
      BY <3>1 DEF Inside, Apart
    <3>3. Bytes(a, q) = Bytes(v, Old(p, q))
      BY <3>1 DEF Bytes
    <3> QED
      BY <2>2, <3>1, <3>2, <3>3
  <2>4. ~(a.shifts[p][1] > i)
    BY <2>2
  <2> QED
    BY <2>1, <2>3, <2>4 DEF Free, a
<1> QED
  BY <1>1, <1>2

(* pre_allocate_int(): what the region takes was nobody's, so it is zero.  *)
LEMMA ReserveIsTidy ==
  ASSUME NEW a, Tidy(a), NEW p \in 1 .. Size(a), NEW i \in Nat,
         a.shifts[p][1] <= i => Free(a, p, i),
         NEW r, r = Reserve(a, p, i)
  PROVE  /\ Tidy(r)
         /\ r.index = a.index /\ Size(r) = Size(a)
         /\ i < r.shifts[p][1]
         /\ \A q \in 1 .. Size(a) : q # p => Bytes(r, q) = Bytes(a, q)
         /\ \A l \in Keys, j \in Nat : Held(r, l, j) <=> Held(a, l, j)
<1>1. /\ WellFormed(a) /\ Inside(a) /\ Size(a) \in Nat /\ Len(a.data) \in Nat
      /\ a.shifts \in Seq(Nat \X Nat) /\ Len(a.shifts) = Size(a) /\ a.data \in Seq(SUBSET Bits)
      /\ \A q \in 1 .. Size(a) :
            /\ a.shifts[q][1] \in Nat /\ a.shifts[q][2] \in Nat /\ a.shifts[q][1] \div 8 \in Nat
            /\ Bytes(a, q) \subseteq 1 .. Len(a.data)
  <2>1. WellFormed(a) /\ Inside(a)
    BY DEF Tidy
  <2> QED
    BY <2>1, RegionTypes DEF WellFormed, Storage
<1>2. CASE ~(a.shifts[p][1] <= i)
  <2>1. r = a
    BY <1>2 DEF Reserve
  <2>2. i < a.shifts[p][1]
    BY <1>1, <1>2
  <2> QED
    BY <2>1, <2>2
<1>3. CASE a.shifts[p][1] <= i
  <2> DEFINE n == Byte(i) + 1
             o == a.shifts[p][2]
             L == Len(a.data)
  <2>1. /\ Byte(i) \in Nat /\ n \in Nat /\ o \in Nat /\ L \in Nat
        /\ a.shifts[p][1] \div 8 <= n /\ i < 8 * n /\ (8 * n) \div 8 = n /\ 8 * n \in Nat
    <3>1. Byte(i) \in Nat /\ o \in Nat /\ L \in Nat
      BY <1>1, BytesAndBits
    <3>2. Bit(i) \in 0 .. 7 /\ i = 8 * Byte(i) + Bit(i)
      BY BytesAndBits
    <3>3. a.shifts[p][1] \div 8 <= n
      <4>1. a.shifts[p][1] \in Nat /\ a.shifts[p][1] % 8 = 0
        BY <1>1, RegionTypes
      <4>2. ~(i < a.shifts[p][1])
        BY <1>3, <4>1
      <4>3. ~(Byte(i) < a.shifts[p][1] \div 8)
        BY <4>1, <4>2, BytesAndBits
      <4>4. a.shifts[p][1] \div 8 \in Nat
        BY <1>1
      <4> HIDE DEF n
      <4>5. a.shifts[p][1] \div 8 <= Byte(i)
        BY <3>1, <4>3, <4>4
      <4> QED
        BY <3>1, <4>4, <4>5 DEF n
    <3> QED
      BY <3>1, <3>2, <3>3
  <2>2. /\ r.index = a.index
        /\ r.shifts = [a.shifts EXCEPT ![p] = <<8 * n, o>>]
        /\ r.data = a.data \o ZeroBytes(n)
    <3>1. (i + 1 + 7) \div 8 = n
      BY BytesAndBits
    <3>2. r = Grow(a, p, i + 1)
      BY <1>3 DEF Reserve
    <3> HIDE DEF n, o, L
    <3>3. /\ r.index = a.index
          /\ r.shifts = [a.shifts EXCEPT ![p] = <<8 * ((i + 1 + 7) \div 8), a.shifts[p][2]>>]
          /\ r.data = a.data \o ZeroBytes((i + 1 + 7) \div 8)
      <4>1. r = Grow(a, p, i + 1)
        BY <3>2
      <4> USE DEF Grow
      <4>2. r.index = a.index
        BY <4>1
      <4>3. r.shifts = [a.shifts EXCEPT ![p] = <<8 * ((i + 1 + 7) \div 8), a.shifts[p][2]>>]
        BY <4>1
      <4>4. r.data = a.data \o ZeroBytes((i + 1 + 7) \div 8)
        <5>1. \A size : Grow(a, p, size).data = a.data \o ZeroBytes((size + 7) \div 8)
          BY Zenon
        <5> QED
          BY <4>1, <5>1
      <4> QED
        BY <4>2, <4>3, <4>4
    <3> QED
      BY <3>1, <3>3, Zenon DEF o
  <2> HIDE DEF n, o, L
  <2>3. WellFormed(r) /\ Inside(r) /\ Size(r) = Size(a)
    BY <1>1, <2>2, ReserveKeeps DEF Size
  <2>4. /\ r.shifts[p][1] = 8 * n /\ r.shifts[p][2] = o
        /\ \A q \in 1 .. Size(a) : q # p => r.shifts[q] = a.shifts[q]
    <3> DEFINE x == <<8 * n, o>>
    <3>1. DOMAIN a.shifts = 1 .. Size(a)
      BY <1>1
    <3>2. x[1] = 8 * n /\ x[2] = o /\ r.shifts = [a.shifts EXCEPT ![p] = x]
      BY <2>2
    <3> HIDE DEF x
    <3>3. r.shifts[p] = x /\ \A q \in 1 .. Size(a) : q # p => r.shifts[q] = a.shifts[q]
      BY <3>1, <3>2
    <3> QED
      BY <3>2, <3>3
  <2>5. /\ Len(r.data) = L + n
        /\ \A c \in 1 .. L : r.data[c] = a.data[c]
        /\ \A c \in L + 1 .. L + n : r.data[c] = {}
    <3>1. /\ Len(a.data \o ZeroBytes(n)) = Len(a.data) + n
          /\ \A c \in 1 .. Len(a.data) : (a.data \o ZeroBytes(n))[c] = a.data[c]
          /\ \A c \in 1 .. n : (a.data \o ZeroBytes(n))[Len(a.data) + c] = {}
      BY <1>1, <2>1, MoreBytes, Zenon
    <3>2. /\ Len(r.data) = L + n
          /\ \A c \in 1 .. L : r.data[c] = a.data[c]
          /\ \A c \in 1 .. n : r.data[L + c] = {}
      BY <2>2, <3>1, Zenon DEF L
    <3>3. \A c \in L + 1 .. L + n : c - L \in 1 .. n /\ L + (c - L) = c
      BY <2>1
    <3>4. ASSUME NEW c \in L + 1 .. L + n PROVE r.data[c] = {}
      <4>1. r.data[L + (c - L)] = {}
        BY <3>2, <3>3
      <4> QED
        BY <3>3, <4>1
    <3> QED
      BY <3>2, <3>4
  <2>6. Bytes(r, p) = o + 1 .. o + n /\ Bytes(a, p) \subseteq Bytes(r, p)
    <3>1. Bytes(r, p) = o + 1 .. o + n
      BY <2>1, <2>4 DEF Bytes
    <3>2. Bytes(a, p) = o + 1 .. o + a.shifts[p][1] \div 8
      BY DEF Bytes, o
    <3>3. a.shifts[p][1] \div 8 \in Nat
      BY <1>1
    <3> QED
      BY <2>1, <3>1, <3>2, <3>3
  <2>7. \A q \in 1 .. Size(a) : q # p => Bytes(r, q) = Bytes(a, q)
    BY <2>4 DEF Bytes
  <2>8. ASSUME NEW q \in 1 .. Size(a), q # p PROVE Bytes(r, p) \cap Bytes(a, q) = {}
    <3> DEFINE s == a.shifts[q][2]
               m == a.shifts[q][1] \div 8
    <3>1. s \in Nat /\ m \in Nat /\ Bytes(a, q) = s + 1 .. s + m
      BY <1>1 DEF Bytes
    <3>2. s + m <= o \/ s > o + Byte(i)
      BY <1>3, <2>8 DEF Free, o
    <3> HIDE DEF s, m
    <3>3. (o + 1 .. o + n) \cap (s + 1 .. s + m) = {}
      <4> DEFINE b == Byte(i)
      <4>1. n = b + 1 /\ b \in Nat /\ (s + m <= o \/ s > o + b)
        BY <2>1, <3>2 DEF n
      <4> HIDE DEF b
      <4> QED
        BY <2>1, <3>1, <4>1
    <3> QED
      BY <2>6, <3>1, <3>3
  <2>9. \A q \in 1 .. Size(a) : \A c \in Bytes(r, p) \cap Bytes(a, q) : q = p
    BY <2>8
  <2>10. ASSUME NEW q \in 1 .. Size(a), NEW t \in 1 .. Size(a), NEW c \in Bytes(r, q) \cap Bytes(r, t)
         PROVE  q = t
    <3>1. CASE q = p
      BY <2>7, <2>9, <2>10, <3>1
    <3>2. CASE t = p
      BY <2>7, <2>9, <2>10, <3>2
    <3>3. CASE q # p /\ t # p
      BY <2>7, <2>10, <3>3 DEF Tidy
    <3> QED
      BY <3>1, <3>2, <3>3
  <2>11. ASSUME NEW c \in 1 .. Len(r.data), r.data[c] # {}
         PROVE  c \in 1 .. L /\ \E q \in 1 .. Size(a) : c \in Bytes(a, q)
    <3>1. c \in 1 .. L
      <4>1. c \in 1 .. L + n /\ c \notin L + 1 .. L + n
        BY <2>5, <2>11
      <4> QED
        BY <2>1, <4>1
    <3>2. a.data[c] # {} /\ c \in 1 .. Len(a.data)
      BY <2>5, <2>11, <3>1 DEF L
    <3> QED
      BY <3>1, <3>2 DEF Tidy
  <2>12. ASSUME NEW c \in 1 .. Len(r.data), r.data[c] # {}
         PROVE  \E q \in 1 .. Size(a) : c \in Bytes(r, q)
    <3>1. PICK q \in 1 .. Size(a) : c \in Bytes(a, q)
      BY <2>11, <2>12
    <3> QED
      BY <2>6, <2>7, <3>1
  <2>13. Tidy(r)
    BY <2>3, <2>10, <2>12 DEF Tidy
  <2>14. \A q \in 1 .. Size(a), j \in Nat : Cell(r, q, j) = Cell(a, q, j)
    BY <2>4 DEF Cell, o
  (* the flags of one region *)
  <2>15. ASSUME NEW q \in 1 .. Size(a), NEW j \in Nat
         PROVE  j < r.shifts[q][1] /\ Bit(j) \in r.data[Cell(r, q, j)] <=>
                j < a.shifts[q][1] /\ Bit(j) \in a.data[Cell(a, q, j)]
    <3> DEFINE c == Cell(a, q, j)
    <3>1. j < a.shifts[q][1] <=> c \in Bytes(a, q)
      BY <1>1, CellOfRegion
    <3>2. j < r.shifts[q][1] <=> c \in Bytes(r, q)
      BY <2>3, <2>14, CellOfRegion
    <3>3. c \in Bytes(a, q) => r.data[c] = a.data[c] /\ c \in Bytes(r, q)
      <4>1. Bytes(a, q) \subseteq 1 .. L /\ Bytes(a, q) \subseteq Bytes(r, q)
        BY <1>1, <2>6, <2>7 DEF L
      <4> QED
        BY <2>5, <4>1
    <3>4. ASSUME c \in Bytes(r, q), c \notin Bytes(a, q) PROVE r.data[c] = {}
      <4>1. q = p
        BY <2>7, <3>4
      <4>2. c \in 1 .. Len(r.data)
        BY <2>3, <3>4, RegionTypes
      <4>3. ASSUME r.data[c] # {} PROVE FALSE
        <5>1. PICK t \in 1 .. Size(a) : c \in Bytes(a, t)
          BY <2>11, <4>2, <4>3
        <5>2. t = p
          BY <2>9, <3>4, <4>1, <5>1
        <5> QED
          BY <3>4, <4>1, <5>1, <5>2
      <4> QED
        BY <4>3
    <3> HIDE DEF c
    <3>5. j < r.shifts[q][1] /\ Bit(j) \in r.data[c] <=> j < a.shifts[q][1] /\ Bit(j) \in a.data[c]
      BY <3>1, <3>2, <3>3, <3>4
    <3> QED
      BY <2>14, <3>5 DEF c
  <2>16. ASSUME NEW l \in Keys, NEW j \in Nat
         PROVE  Held(r, l, j) <=> Held(a, l, j)
    BY <2>2, <2>3, <2>15 DEF Held
  <2>17. i < r.shifts[p][1]
    BY <2>1, <2>4
  <2> QED
    BY <2>2, <2>3, <2>7, <2>13, <2>16, <2>17
<1> QED
  BY <1>2, <1>3

(* Writing a flag that has room moves that flag only.                      *)
LEMMA WriteSetsFlag ==
  ASSUME NEW r, Tidy(r), NEW k \in Keys, NEW i \in Nat, NEW flag \in BOOLEAN,
         NEW p \in 1 .. Size(r), r.index[p] = k, i < r.shifts[p][1],
         NEW w, w = Write(r, p, i, flag)
  PROVE  /\ Tidy(w) /\ Size(w) = Size(r)
         /\ \A q \in 1 .. Size(r) : Bytes(w, q) = Bytes(r, q)
         /\ \A l \in Keys, j \in Nat :
               Held(w, l, j) <=> IF l = k /\ j = i THEN flag ELSE Held(r, l, j)
<1> DEFINE c == Cell(r, p, i)
<1>1. WellFormed(r) /\ Inside(r) /\ c \in Bytes(r, p) /\ c \in 1 .. Len(r.data)
  <2>1. WellFormed(r) /\ Inside(r)
    BY DEF Tidy
  <2>2. c \in Bytes(r, p) /\ Bytes(r, p) \subseteq 1 .. Len(r.data)
    BY <2>1, CellOfRegion, RegionTypes
  <2> QED
    BY <2>1, <2>2
<1>2. /\ w.index = r.index /\ w.shifts = r.shifts
      /\ w.data = [r.data EXCEPT ![c] = IF flag THEN @ \union {Bit(i)} ELSE @ \ {Bit(i)}]
  BY DEF Write
<1>3. WellFormed(w) /\ Inside(w)
  BY <1>1, WriteKeeps
<1>4. /\ Len(w.data) = Len(r.data)
      /\ \A b \in 1 .. Len(r.data) : b # c => w.data[b] = r.data[b]
      /\ w.data[c] = IF flag THEN r.data[c] \union {Bit(i)} ELSE r.data[c] \ {Bit(i)}
  <2>1. r.data \in Seq(SUBSET Bits)
    BY <1>1 DEF WellFormed, Storage
  <2>2. DOMAIN r.data = 1 .. Len(r.data)
    BY <2>1
  <2>3. Len(w.data) = Len(r.data)
    BY <1>1, WriteKeeps
  <2> HIDE DEF c
  <2> QED
    BY <1>1, <1>2, <2>2, <2>3
<1>5. /\ \A q \in 1 .. Size(r) : Bytes(w, q) = Bytes(r, q)
      /\ \A q \in 1 .. Size(r), j \in Nat : Cell(w, q, j) = Cell(r, q, j)
      /\ Size(w) = Size(r)
  BY <1>2 DEF Bytes, Cell, Size
<1>6. Tidy(w)
  <2>1. ASSUME NEW b \in 1 .. Len(w.data), w.data[b] # {}
        PROVE  \E q \in 1 .. Size(r) : b \in Bytes(r, q)
    <3>1. CASE b = c
      BY <1>1, <3>1
    <3>2. CASE b # c
      BY <1>4, <2>1, <3>2 DEF Tidy
    <3> QED
      BY <3>1, <3>2
  <2> QED
    BY <1>3, <1>5, <2>1 DEF Tidy
<1>7. ASSUME NEW q \in 1 .. Size(r), NEW j \in Nat, j < r.shifts[q][1]
      PROVE  Bit(j) \in w.data[Cell(r, q, j)] <=>
               IF q = p /\ j = i THEN flag ELSE Bit(j) \in r.data[Cell(r, q, j)]
  <2>1. Cell(r, q, j) \in Bytes(r, q) /\ Cell(r, q, j) \in 1 .. Len(r.data)
    <3>1. Cell(r, q, j) \in Bytes(r, q) /\ Bytes(r, q) \subseteq 1 .. Len(r.data)
      BY <1>1, <1>7, CellOfRegion, RegionTypes
    <3> QED
      BY <3>1
  <2>2. CASE Cell(r, q, j) # c
    BY <1>4, <2>1, <2>2
  <2>3. CASE Cell(r, q, j) = c
    <3>1. q = p
      BY <1>1, <2>1, <2>3 DEF Tidy
    <3>2. Byte(j) = Byte(i)
      <4>1. r.shifts[p][2] \in Nat /\ Byte(j) \in Nat /\ Byte(i) \in Nat
        BY <1>1, RegionTypes, BytesAndBits
      <4>2. r.shifts[p][2] + Byte(j) + 1 = r.shifts[p][2] + Byte(i) + 1
        BY <2>3, <3>1 DEF Cell
      <4> QED
        BY <4>1, <4>2
    <3>3. Bit(j) = Bit(i) <=> j = i
      <4>1. /\ i = 8 * Byte(i) + Bit(i) /\ j = 8 * Byte(j) + Bit(j)
            /\ Byte(i) \in Nat /\ Bit(i) \in 0 .. 7 /\ Bit(j) \in 0 .. 7
        BY BytesAndBits
      <4> QED
        BY <3>2, <4>1
    <3>4. CASE flag
      <4>1. w.data[c] = r.data[c] \union {Bit(i)}
        BY <1>4, <3>4
      <4>2. Bit(j) \in w.data[c] <=> Bit(j) = Bit(i) \/ Bit(j) \in r.data[c]
        BY <4>1
      <4> QED
        BY <2>3, <3>1, <3>3, <3>4, <4>2, Zenon
    <3>5. CASE ~flag
      <4>1. w.data[c] = r.data[c] \ {Bit(i)}
        BY <1>4, <3>5
      <4>2. Bit(j) \in w.data[c] <=> Bit(j) # Bit(i) /\ Bit(j) \in r.data[c]
        BY <4>1
      <4> QED
        BY <2>3, <3>1, <3>3, <3>5, <4>2, Zenon
    <3> QED
      BY <3>4, <3>5
  <2> QED
    BY <2>2, <2>3
<1>8. ASSUME NEW l \in Keys, NEW j \in Nat
      PROVE  Held(w, l, j) <=> IF l = k /\ j = i THEN flag ELSE Held(r, l, j)
  <2>1. \A q \in 1 .. Size(r) : r.index[q] = k => q = p
    BY <1>1, FindsKey
  <2>2. Held(w, l, j) <=> \E q \in 1 .. Size(r) :
          r.index[q] = l /\ j < r.shifts[q][1] /\ Bit(j) \in w.data[Cell(r, q, j)]
    BY <1>2, <1>5 DEF Held
  <2>3. CASE l = k /\ j = i
    <3>1. Held(w, l, j) <=> Bit(j) \in w.data[Cell(r, p, j)]
      BY <2>1, <2>2, <2>3
    <3> QED
      BY <1>7, <2>3, <3>1
  <2>4. CASE ~(l = k /\ j = i)
    <3>1. \A q \in 1 .. Size(r) : r.index[q] = l /\ j < r.shifts[q][1] =>
            (Bit(j) \in w.data[Cell(r, q, j)] <=> Bit(j) \in r.data[Cell(r, q, j)])
      BY <1>7, <2>4
    <3> QED
      BY <2>2, <2>4, <3>1 DEF Held
  <2> QED
    BY <2>3, <2>4
<1> QED
  BY <1>5, <1>6, <1>8

(* set() and unset(), when no region reaches another: regions stay apart   *)
(* and the flag is the only one that moves.                                *)
LEMMA ApartSet ==
  ASSUME WellFormed(flags), Inside(flags), Apart(flags), NEW k \in Keys, NEW i \in Indices,
         NEW flag \in BOOLEAN, Set(k, i, flag), ~Crowded(flags, k, i)
  PROVE  /\ WellFormed(flags') /\ Inside(flags') /\ Apart(flags')
         /\ Up(flags') = IF flag THEN Up(flags) \union {<<k, i>>} ELSE Up(flags) \ {<<k, i>>}
<1>1. PICK p \in LowerBound(flags, k) :
        flags' = Write(Reserve(Add(flags, k, p), p, i), p, i, flag)
  BY DEF Set
<1> DEFINE a == Add(flags, k, p)
           r == Reserve(a, p, i)
<1>2. i \in Nat
  BY IndicesAssumption
<1>3. Tidy(flags)
  BY ApartIsTidy
<1>4. /\ Tidy(a)
      /\ \A l \in Keys, j \in Nat : Held(a, l, j) <=> Held(flags, l, j)
  BY <1>3, AddIsTidy
<1>5. /\ p \in 1 .. Size(a) /\ a.index[p] = k
      /\ a.shifts[p][1] <= i => Free(a, p, i)
      /\ \A q \in 1 .. Size(a) : q # p => Bytes(a, q) # {}
  BY <1>2, AddIsFree
<1> HIDE DEF a
<1>6. r = Reserve(a, p, i)
  OBVIOUS
<1> HIDE DEF r
<1>7. /\ Tidy(r)
      /\ r.index = a.index /\ Size(r) = Size(a)
      /\ i < r.shifts[p][1]
      /\ \A q \in 1 .. Size(a) : q # p => Bytes(r, q) = Bytes(a, q)
      /\ \A l \in Keys, j \in Nat : Held(r, l, j) <=> Held(a, l, j)
  BY <1>2, <1>4, <1>5, <1>6, ReserveIsTidy
<1>8. flags' = Write(r, p, i, flag)
  BY <1>1 DEF r, a
<1>9. /\ Tidy(flags') /\ Size(flags') = Size(r)
      /\ \A q \in 1 .. Size(r) : Bytes(flags', q) = Bytes(r, q)
      /\ \A l \in Keys, j \in Nat :
            Held(flags', l, j) <=> IF l = k /\ j = i THEN flag ELSE Held(r, l, j)
  <2>1. p \in 1 .. Size(r) /\ r.index[p] = k
    BY <1>5, <1>7
  <2> QED
    BY <1>2, <1>7, <1>8, <2>1, WriteSetsFlag
<1>10. Bytes(r, p) # {}
  <2>1. WellFormed(r) /\ Inside(r) /\ p \in 1 .. Size(r)
    BY <1>5, <1>7 DEF Tidy
  <2>2. Cell(r, p, i) \in Bytes(r, p)
    BY <1>2, <1>7, <2>1, CellOfRegion
  <2> QED
    BY <2>2
<1>11. WellFormed(flags') /\ Inside(flags')
  BY <1>9 DEF Tidy
<1>12. Apart(flags')
  <2>1. \A q \in 1 .. Size(flags') : Bytes(flags', q) # {}
    BY <1>5, <1>7, <1>9, <1>10
  <2> QED
    BY <1>9, <1>11, <2>1, ApartIsTidy
<1>13. ASSUME NEW f \in Keys \X Indices
       PROVE  Held(flags', f[1], f[2]) <=> IF f = <<k, i>> THEN flag ELSE Held(flags, f[1], f[2])
  <2>1. /\ f[1] \in Keys /\ f[2] \in Indices
        /\ f = <<k, i>> <=> f[1] = k /\ f[2] = i
    OBVIOUS
  <2>2. f[2] \in Nat
    BY <2>1, IndicesAssumption
  <2> QED
    BY <1>4, <1>7, <1>9, <2>1, <2>2
<1>14. /\ Up(flags) = {f \in Keys \X Indices : Held(flags, f[1], f[2])}
       /\ Up(flags') = {f \in Keys \X Indices : Held(flags', f[1], f[2])}
  BY <1>11, UpIsHeld
<1>15. CASE flag
  BY <1>11, <1>12, <1>13, <1>14, <1>15
<1>16. CASE ~flag
  BY <1>11, <1>12, <1>13, <1>14, <1>16
<1> QED
  BY <1>15, <1>16

(* A region that reaches another one shares a byte with it from then on.   *)
LEMMA CrowdedSet ==
  ASSUME WellFormed(flags), Inside(flags), Apart(flags), NEW k \in Keys, NEW i \in Indices,
         NEW flag \in BOOLEAN, Set(k, i, flag), Crowded(flags, k, i)
  PROVE  ~Apart(flags')
<1>1. PICK p \in LowerBound(flags, k) :
        flags' = Write(Reserve(Add(flags, k, p), p, i), p, i, flag)
  BY DEF Set
<1>2. PICK t \in 1 .. Size(flags), q \in 1 .. Size(flags) :
        /\ flags.index[t] = k
        /\ flags.shifts[t][1] <= i
        /\ flags.shifts[q][2] \in flags.shifts[t][2] + 1 .. flags.shifts[t][2] + Byte(i)
  BY DEF Crowded
<1>3. Size(flags) \in Nat /\ i \in Nat
  BY RegionTypes, IndicesAssumption
<1>4. p = t
  <2>1. t \in LowerBound(flags, k) /\ p \in 1 .. Size(flags) + 1 /\ t \in 1 .. Size(flags)
    BY <1>2, FindsKey DEF LowerBound
  <2>2. ~(t < p)
    <3>1. t < p <=> flags.index[t] < k
      BY DEF LowerBound
    <3>2. flags.index[t] = k /\ k \in Nat
      BY <1>2, KeysAssumption
    <3> QED
      BY <3>1, <3>2
  <2>3. ~(p < t)
    <3> SUFFICES ASSUME p < t PROVE FALSE
      OBVIOUS
    <3>1. p \in 1 .. Size(flags)
      BY <1>3, <2>1
    <3>2. p < t <=> flags.index[p] < k
      BY <2>1, <3>1 DEF LowerBound
    <3>3. p < p <=> flags.index[p] < k
      BY <3>1 DEF LowerBound
    <3> QED
      BY <1>3, <3>1, <3>2, <3>3
  <2> QED
    BY <1>3, <2>1, <2>2, <2>3
<1> DEFINE o == flags.shifts[p][2]
           s == flags.shifts[q][2]
           m == flags.shifts[q][1] \div 8
           b == Byte(i)
           x == <<8 * ((i + 1 + 7) \div 8), flags.shifts[p][2]>>
<1>5. /\ o \in Nat /\ s \in Nat /\ m \in Nat /\ b \in Nat /\ s \in o + 1 .. o + b
      /\ Bytes(flags, q) = s + 1 .. s + m /\ Bytes(flags, q) # {}
  BY <1>2, <1>3, <1>4, RegionTypes, BytesAndBits DEF Bytes, Apart
<1>6. q # p
  <2> HIDE DEF b
  <2> QED
    BY <1>5
<1>7. flags'.shifts = [flags.shifts EXCEPT ![p] = x]
  <2>1. Found(flags, k, p)
    BY <1>2, <1>4, FindsKey
  <2>2. Add(flags, k, p) = flags
    BY <2>1 DEF Add
  <2>3. Reserve(flags, p, i) = Grow(flags, p, i + 1)
    BY <1>2, <1>4 DEF Reserve
  <2>4. Grow(flags, p, i + 1).shifts = [flags.shifts EXCEPT ![p] = x]
    BY DEF Grow
  <2> HIDE DEF x
  <2> QED
    BY <1>1, <2>2, <2>3, <2>4 DEF Write
<1>8. /\ x[2] = o /\ x[1] \div 8 = b + 1
  <2>1. (i + 1 + 7) \div 8 = b + 1
    BY <1>3, BytesAndBits
  <2> HIDE DEF b
  <2> QED
    BY <1>5, <2>1
<1>9. /\ flags'.shifts[p] = x /\ flags'.shifts[q] = flags.shifts[q]
      /\ Size(flags') = Size(flags)
  <2>1. DOMAIN flags.shifts = 1 .. Size(flags)
    BY <1>3 DEF WellFormed, Storage
  <2>2. flags'.index = flags.index
    BY <1>1, <1>2, <1>4, FindsKey DEF Write, Reserve, Grow, Add
  <2> HIDE DEF x
  <2> QED
    BY <1>4, <1>6, <1>7, <2>1, <2>2 DEF Size
<1> HIDE DEF x
<1>10. Bytes(flags', p) = o + 1 .. o + (b + 1) /\ Bytes(flags', q) = s + 1 .. s + m
  BY <1>8, <1>9 DEF Bytes
<1>11. s + 1 \in Bytes(flags', p) /\ s + 1 \in Bytes(flags', q)
  <2> HIDE DEF o, s, m, b
  <2> QED
    BY <1>5, <1>10
<1> QED
  BY <1>4, <1>6, <1>9, <1>11 DEF Apart

LEMMA EmptyIsApart ==
  WellFormed(Empty) /\ Inside(Empty) /\ Apart(Empty) /\ Up(Empty) = {}
<1>1. WellFormed(Empty) /\ Inside(Empty) /\ Apart(Empty)
  BY EmptySeq DEF WellFormed, Inside, Apart, Storage, Empty, Size
<1>2. \A k, i : ~HasRoom(Empty, k, i)
  BY DEF HasRoom, Empty, Size
<1> QED
  BY <1>1, <1>2 DEF Up
-----------------------------------------------------------------------------
(* Whatever the patterns and the numbers of their answers: as long as no   *)
(* write has made a region reach another one, a flag that is raised,       *)
(* lowered, saved or loaded disturbs no flag of any answer, also when its  *)
(* region grows; and regions are apart until such a write, and not after.  *)
THEOREM FlagsAreIndependent == Spec => FlagsApart
<1> DEFINE Step == AllApart => IF Crowding THEN ~AllApart'
                               ELSE AllApart' /\ [Map!Next]_(Map!vars)
           IInv == TypeOK /\ RegionsInside
<1>1. Init => AllApart /\ Map!Init
  BY EmptyIsApart DEF Init, AllApart, Map!Init
<1>2. IInv /\ [Next]_vars => [Step]_vars
  <2> SUFFICES ASSUME IInv, AllApart, Next
               PROVE  IF Crowding THEN ~AllApart' ELSE AllApart' /\ [Map!Next]_(Map!vars)
    OBVIOUS
  <2>0. /\ WellFormed(flags) /\ Inside(flags) /\ Apart(flags)
        /\ WellFormed(image) /\ Inside(image) /\ Apart(image)
    BY DEF TypeOK, RegionsInside, AllApart
  <2>1. CASE Crowding
    <3>1. PICK k \in Keys, i \in Indices, flag \in BOOLEAN :
            Crowded(flags, k, i) /\ Set(k, i, flag)
      BY <2>1 DEF Crowding
    <3>2. ~Apart(flags')
      BY <2>0, <3>1, CrowdedSet
    <3> QED
      BY <2>1, <3>2 DEF AllApart, Apart
  <2>2. CASE ~Crowding
    <3> SUFFICES Apart(flags') /\ Apart(image') /\ [Map!Next]_(Map!vars)
      BY <2>2 DEF AllApart, Apart, Bytes, Size
    <3>1. ASSUME NEW k \in Keys, NEW i \in Indices, NEW flag \in BOOLEAN, Set(k, i, flag)
          PROVE  Apart(flags') /\ Apart(image') /\ Map!Next
      <4>1. ~Crowded(flags, k, i)
        BY <2>2, <3>1 DEF Crowding
      <4>2. /\ Apart(flags') /\ image' = image
            /\ Up(flags') = IF flag THEN Up(flags) \union {<<k, i>>} ELSE Up(flags) \ {<<k, i>>}
        BY <2>0, <3>1, <4>1, ApartSet DEF Set
      <4>3. Map!Raise(k, i) \/ Map!Lower(k, i)
        BY <4>2 DEF Map!Raise, Map!Lower
      <4> QED
        BY <2>0, <4>2, <4>3 DEF Map!Next
    <3>2. CASE Save
      BY <2>0, <3>2 DEF Save, Map!Save, Map!Next
    <3>3. CASE Load
      BY <2>0, <3>3 DEF Load, Map!Load, Map!Next
    <3>4. CASE Reset
      BY <2>0, <3>4, EmptyIsApart DEF Reset, Map!Reset, Map!Next
    <3> QED
      BY <3>1, <3>2, <3>3, <3>4 DEF Next
  <2> QED
    BY <2>1, <2>2
<1>3. Spec => []IInv
  BY VectorsAreSound
<1> QED
  BY <1>1, <1>2, <1>3, PTL DEF Spec, FlagsApart
=============================================================================
