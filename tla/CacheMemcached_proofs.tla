---------------------- MODULE CacheMemcached_proofs ------------------------
(***************************************************************************)
(* The cache never answers with a torn value, and implements the register, *)
(* for any number of keys, processes, values and seconds, provided a base  *)
(* is used once.                                                           *)
(***************************************************************************)
EXTENDS CacheMemcached, TLAPS

\* A part before a part of a value is a part of it too.
LEMMA PartsDownClosed ==
  ASSUME NEW v \in Values, NEW i \in Indices, NEW j \in PartsOf(v), i <= j
  PROVE  i \in PartsOf(v)
<1>1. /\ i \in Nat /\ j \in Nat /\ ValueMax \in Nat /\ Size[v] \in Nat
  BY SizeAssumption DEF Indices, PartsOf
<1>2. i * ValueMax <= j * ValueMax
  BY <1>1
<1>3. i * ValueMax < Size[v]
  BY <1>1, <1>2 DEF PartsOf
<1> QED
  BY <1>3 DEF PartsOf

\* What is cut into parts is of the right type, the last part included.
LEMMA PartType ==
  ASSUME NEW v \in Values, NEW i \in PartsOf(v)
  PROVE  Part(v, i) \in Parts /\ i \in Indices /\ i + 1 \in 0..MaxParts
<1>1. /\ i \in Nat /\ i \in Indices /\ ValueMax \in Nat \ {0} /\ Size[v] \in Nat
      /\ i * ValueMax < Size[v] /\ MaxParts \in Nat
  BY SizeAssumption DEF Indices, PartsOf
<1>2. i * ValueMax \in Nat /\ (i + 1) * ValueMax = i * ValueMax + ValueMax
  BY <1>1
<1>3. PartSize(v, i) \in 0..ValueMax
  BY <1>1, <1>2 DEF PartSize
<1> QED
  BY <1>1, <1>3 DEF Part, Parts, Indices

LEMMA TypeInit == Init => TypeOK
  BY SizeAssumption DEF Init, TypeOK, Seconds, Bases, Indices, NoOp

LEMMA TypeStep == TypeOK /\ [Next]_vars => TypeOK'
<1> SUFFICES ASSUME TypeOK, [Next]_vars PROVE TypeOK'
  OBVIOUS
<1> USE DEF TypeOK
<1>1. ASSUME NEW p \in Procs, NEW k \in Keys, NEW v \in Values, StartInsert(p, k, v)
      PROVE  TypeOK'
  <2>1. Base(k, p, second) \in Bases
    BY DEF Base, Bases
  <2>2. [kind |-> "insert", key |-> k, val |-> v, base |-> Base(k, p, second),
         next |-> 0] \in InsertOps
    BY <2>1, SizeAssumption DEF InsertOps
  <2>3. author' \in [Bases -> Values \cup {Miss}]
    BY <1>1, <2>1 DEF StartInsert
  <2> QED
    BY <1>1, <2>2, <2>3 DEF StartInsert, Become
<1>2. ASSUME NEW p \in Procs, PartsLeft(p)
      PROVE  /\ op[p] \in InsertOps
             /\ [parts EXCEPT ![op[p].base][op[p].next] = Part(op[p].val, op[p].next)]
                  \in [Bases -> [Indices -> Parts \cup {Miss}]]
             /\ [op[p] EXCEPT !.next = @ + 1] \in InsertOps
  <2>1. op[p] \in InsertOps
    BY <1>2 DEF PartsLeft, NoOp, GetOps
  <2>2. op[p].val \in Values /\ op[p].next \in PartsOf(op[p].val)
    BY <1>2, <2>1 DEF PartsLeft, InsertOps
  <2>3. /\ Part(op[p].val, op[p].next) \in Parts
        /\ op[p].next \in Indices /\ op[p].next + 1 \in 0..MaxParts
    BY <2>2, PartType
  <2> QED
    BY <2>1, <2>3 DEF InsertOps
<1>3. ASSUME NEW p \in Procs, SetPart(p) PROVE TypeOK'
  BY <1>2, <1>3 DEF SetPart, Become
<1>4. ASSUME NEW p \in Procs, SetPartFails(p) PROVE TypeOK'
  BY <1>2, <1>4 DEF SetPartFails, Become
<1>5. ASSUME NEW p \in Procs, SetControl(p) PROVE TypeOK'
  <2>1. op[p] \in InsertOps
    BY <1>5 DEF SetControl, NoOp, GetOps
  <2>2. NewControl(p) \in ShortRecords \cup ControlRecords
    BY <2>1, SizeAssumption
    DEF NewControl, InsertOps, Short, Control, ShortRecords, ControlRecords
  <2> QED
    BY <1>5, <2>1, <2>2 DEF SetControl, Become, InsertOps
<1>6. ASSUME NEW p \in Procs, NEW k \in Keys, StartGet(p, k) PROVE TypeOK'
  <2>1. CASE ctl[k] = Miss
    BY <1>6, <2>1 DEF StartGet, Become, Answered, NotFound, Results
  <2>2. CASE ctl[k] # Miss /\ ~ctl[k].long
    <3>1. ctl[k].val \in Values
      BY <2>2 DEF ShortRecords, ControlRecords
    <3> QED
      BY <1>6, <2>2, <3>1 DEF StartGet, Become, Answered, Whole, Results
  <2>3. CASE ctl[k] # Miss /\ ctl[k].long
    <3>1. ctl[k] \in ControlRecords
      BY <2>3 DEF ShortRecords
    <3>2. op' = [op EXCEPT ![p] = [kind |-> "get", count |-> ctl[k].count,
                    full |-> ctl[k].full, base |-> ctl[k].base, buffer |-> <<>>,
                    size |-> 0]]
      BY <1>6, <2>3 DEF StartGet, Become
    <3>3. [kind |-> "get", count |-> ctl[k].count, full |-> ctl[k].full,
           base |-> ctl[k].base, buffer |-> <<>>, size |-> 0] \in GetOps
      BY <3>1 DEF ControlRecords, GetOps
    <3> QED
      BY <1>6, <3>2, <3>3 DEF StartGet
  <2> QED
    BY <2>1, <2>2, <2>3
<1>7. ASSUME NEW p \in Procs, GetPart(p) PROVE TypeOK'
  <2>1. op[p] \in GetOps
    BY <1>7 DEF GetPart, NoOp, InsertOps
  <2> DEFINE part == parts[op[p].base][Len(op[p].buffer)]
  <2>2. op[p].base \in Bases /\ Len(op[p].buffer) \in Indices
    <3>1. /\ op[p].base \in Bases /\ op[p].buffer \in Seq(Parts)
          /\ op[p].count \in 0..MaxParts
      BY <2>1 DEF GetOps
    <3>2. Len(op[p].buffer) \in Nat /\ Len(op[p].buffer) < op[p].count
      BY <1>7, <3>1 DEF GetPart
    <3> QED
      BY <3>1, <3>2, SizeAssumption DEF Indices
  <2>3. part \in Parts \cup {Miss}
    BY <2>2
  <2>4. CASE part = Miss
    BY <1>7, <2>4 DEF GetPart, Become, Answered, NotFound, Results
  <2>5. CASE part # Miss
    <3>1. /\ part \in Parts /\ part.size \in Nat
      BY <2>3, <2>5, SizeAssumption DEF Parts
    <3>2. /\ Append(op[p].buffer, part) \in Seq(Parts)
          /\ op[p].size + part.size \in Nat
      BY <2>1, <3>1 DEF GetOps
    <3>3. [op[p] EXCEPT !.buffer = Append(@, part), !.size = @ + part.size] \in GetOps
      BY <2>1, <3>2 DEF GetOps
    <3> QED
      BY <1>7, <2>5, <3>3 DEF GetPart, Become
  <2> QED
    BY <2>4, <2>5
<1>8. ASSUME NEW p \in Procs, FinishGet(p) PROVE TypeOK'
  <2>1. op[p] \in GetOps
    BY <1>8 DEF FinishGet, NoOp, InsertOps
  <2> QED
    BY <1>8, <2>1
    DEF FinishGet, Become, Answered, NotFound, Joined, Results, GetOps
<1>9. ASSUME NEW p \in Procs, NEW k \in Keys, Delete(p, k) PROVE TypeOK'
  BY <1>9 DEF Delete
<1>10. ASSUME NEW p \in Procs, Crash(p) PROVE TypeOK'
  BY <1>10 DEF Crash, Become
<1>11. ASSUME NEW k \in Keys, EvictControl(k) PROVE TypeOK'
  BY <1>11 DEF EvictControl
<1>12. ASSUME NEW b \in Bases, NEW i \in Indices, EvictPart(b, i) PROVE TypeOK'
  BY <1>12 DEF EvictPart
<1>13. CASE Tick
  BY <1>13, SizeAssumption DEF Tick, Seconds
<1>14. CASE UNCHANGED vars
  BY <1>14 DEF vars
<1> QED
  BY <1>1, <1>3, <1>4, <1>5, <1>6, <1>7, <1>8, <1>9, <1>10, <1>11, <1>12, <1>13, <1>14
  DEF Next

\* Type correctness of the cache protocol.
THEOREM TypeCorrect == Spec => []TypeOK
  BY TypeInit, TypeStep, PTL DEF Spec

-----------------------------------------------------------------------------
\* A base that has an author keeps it.
LEMMA AuthorKept ==
  ASSUME UniqueBases, TypeOK, [Next]_vars, NEW b \in Bases, author[b] # Miss
  PROVE  author'[b] = author[b]
<1>1. ASSUME NEW p \in Procs, NEW k \in Keys, NEW v \in Values, StartInsert(p, k, v)
      PROVE  author'[b] = author[b]
  BY <1>1 DEF StartInsert, TypeOK
<1>2. CASE UNCHANGED author
  BY <1>2
<1> QED
  BY <1>1, <1>2 DEF Next, vars, SetPart, SetPartFails, SetControl, StartGet, GetPart,
     FinishGet, Delete, Crash, EvictControl, EvictPart, Tick

LEMMA ConsistentInit == Init => Consistent
  BY DEF Init, Consistent, PartsMatch, ControlsMatch, InsertsMatch, GetsMatch,
     NeverTorn, NoOp, Bases

LEMMA PartsMatchStep ==
  ASSUME UniqueBases, TypeOK, Consistent, [Next]_vars
  PROVE  PartsMatch'
<1> SUFFICES ASSUME NEW b \in Bases, NEW i \in Indices, parts'[b][i] # Miss
             PROVE  author'[b] # Miss /\ parts'[b][i] = Part(author'[b], i)
  BY DEF PartsMatch
<1>1. CASE parts'[b][i] = parts[b][i]
  BY <1>1, AuthorKept DEF Consistent, PartsMatch
<1>2. ASSUME NEW p \in Procs, PartsLeft(p), UNCHANGED author,
             parts' = [parts EXCEPT ![op[p].base][op[p].next] = Part(op[p].val, op[p].next)]
      PROVE  author'[b] # Miss /\ parts'[b][i] = Part(author'[b], i)
  <2>1. op[p] \in InsertOps
    BY <1>2 DEF PartsLeft, TypeOK, NoOp, GetOps
  <2>2. /\ op[p].base \in Bases /\ op[p].val \in Values
        /\ op[p].next \in Indices
        /\ author[op[p].base] = op[p].val
    BY <1>2, <2>1 DEF PartsLeft, InsertOps, Consistent, InsertsMatch, PartsOf
  <2>3. CASE b = op[p].base /\ i = op[p].next
    BY <1>2, <2>2, <2>3, MissAssumption DEF TypeOK
  <2>4. CASE ~(b = op[p].base /\ i = op[p].next)
    <3>1. parts'[b][i] = parts[b][i]
      BY <1>2, <2>2, <2>4 DEF TypeOK
    <3> QED
      BY <1>1, <3>1
  <2> QED
    BY <2>3, <2>4
<1>3. ASSUME NEW c \in Bases, NEW j \in Indices, EvictPart(c, j)
      PROVE  parts'[b][i] = parts[b][i]
  BY <1>3 DEF EvictPart, TypeOK
<1>4. CASE UNCHANGED parts
  BY <1>1, <1>4
<1> QED
  BY <1>1, <1>2, <1>3, <1>4 DEF Next, vars, StartInsert, SetPart, SetPartFails,
     SetControl, StartGet, GetPart, FinishGet, Delete, Crash, EvictControl, Tick

LEMMA ControlsMatchStep ==
  ASSUME UniqueBases, TypeOK, Consistent, [Next]_vars
  PROVE  ControlsMatch'
<1> SUFFICES ASSUME NEW k \in Keys, ctl'[k] # Miss, ctl'[k].long
             PROVE  /\ author'[ctl'[k].base] # Miss
                    /\ Covers(ctl'[k].count, author'[ctl'[k].base])
  BY DEF ControlsMatch, Covers
<1>1. CASE ctl'[k] = ctl[k]
  <2>1. ctl[k].base \in Bases
    BY <1>1 DEF TypeOK, ShortRecords, ControlRecords
  <2> QED
    BY <1>1, <2>1, AuthorKept DEF Consistent, ControlsMatch
<1>2. ASSUME NEW p \in Procs, SetControl(p), ctl' # ctl
      PROVE  /\ author'[ctl'[k].base] # Miss
             /\ Covers(ctl'[k].count, author'[ctl'[k].base])
  <2>1. op[p] \in InsertOps
    BY <1>2 DEF SetControl, TypeOK, NoOp, GetOps
  <2>2. ctl' = [ctl EXCEPT ![op[p].key] = NewControl(p)] /\ author' = author
    BY <1>2 DEF SetControl
  <2>3. CASE k # op[p].key
    BY <1>1, <2>2, <2>3 DEF TypeOK
  <2>4. CASE k = op[p].key
    <3>1. ctl'[k] = NewControl(p)
      BY <2>2, <2>4 DEF TypeOK
    <3>2. /\ IsLong(op[p].val)
          /\ ctl'[k].count = op[p].next /\ ctl'[k].base = op[p].base
      BY <3>1 DEF NewControl, Short, Control
    <3>3. /\ op[p].val \in Values /\ op[p].next \in 0..MaxParts
          /\ author[op[p].base] = op[p].val
          /\ \A i \in Indices : i < op[p].next => i \in PartsOf(op[p].val)
          /\ op[p].next \notin PartsOf(op[p].val)
      BY <1>2, <2>1, <3>2
      DEF SetControl, PartsLeft, InsertOps, Consistent, InsertsMatch
    <3>4. ASSUME NEW i \in PartsOf(op[p].val)
          PROVE  i < op[p].next
      <4>1. i \in Nat /\ i \in Indices /\ i < MaxParts /\ MaxParts \in Nat
        BY SizeAssumption DEF PartsOf, Indices
      <4>2. ASSUME op[p].next <= i PROVE FALSE
        <5>1. op[p].next \in Indices
          BY <3>3, <4>1, <4>2 DEF Indices
        <5> QED
          BY <3>3, <4>2, <5>1, PartsDownClosed
      <4> QED
        BY <3>3, <4>1, <4>2
    <3> QED
      BY <2>2, <3>2, <3>3, <3>4, MissAssumption DEF Covers, PartsOf
  <2> QED
    BY <2>3, <2>4
<1>3. ASSUME NEW p \in Procs, NEW l \in Keys, Delete(p, l)
      PROVE  ctl'[k] = ctl[k]
  BY <1>3 DEF Delete, TypeOK
<1>4. ASSUME NEW l \in Keys, EvictControl(l)
      PROVE  ctl'[k] = ctl[k]
  BY <1>4 DEF EvictControl, TypeOK
<1>5. CASE UNCHANGED ctl
  BY <1>1, <1>5
<1> QED
  BY <1>1, <1>2, <1>3, <1>4, <1>5 DEF Next, vars, StartInsert, SetPart, SetPartFails,
     SetControl, StartGet, GetPart, FinishGet, Crash, EvictPart, Tick

LEMMA InsertsMatchStep ==
  ASSUME UniqueBases, TypeOK, Consistent, [Next]_vars
  PROVE  InsertsMatch'
<1> SUFFICES ASSUME NEW q \in Procs, op'[q].kind = "insert", IsLong(op'[q].val)
             PROVE  /\ author'[op'[q].base] = op'[q].val
                    /\ \A i \in Indices : i < op'[q].next => i \in PartsOf(op'[q].val)
  BY DEF InsertsMatch, IsLong, PartsOf
<1>1. CASE op'[q] = op[q]
  <2>1. op[q] \in InsertOps
    BY <1>1 DEF TypeOK, NoOp, GetOps
  <2> QED
    BY <1>1, <2>1, AuthorKept, MissAssumption
    DEF Consistent, InsertsMatch, InsertOps
<1>2. ASSUME NEW p \in Procs, NEW k \in Keys, NEW v \in Values, StartInsert(p, k, v)
      PROVE  /\ author'[op'[q].base] = op'[q].val
             /\ \A i \in Indices : i < op'[q].next => i \in PartsOf(op'[q].val)
  <2>1. CASE p # q
    BY <1>1, <1>2, <2>1 DEF StartInsert, Become, TypeOK
  <2>2. CASE p = q
    <3>1. op'[q] = [kind |-> "insert", key |-> k, val |-> v,
                    base |-> Base(k, p, second), next |-> 0]
      BY <1>2, <2>2 DEF StartInsert, Become, TypeOK
    <3>2. Base(k, p, second) \in Bases
      BY DEF TypeOK, Base, Bases
    <3>3. author'[Base(k, p, second)] = v
      BY <1>2, <3>1, <3>2 DEF StartInsert, TypeOK
    <3> QED
      BY <3>1, <3>3 DEF Indices
  <2> QED
    BY <2>1, <2>2
<1>3. ASSUME NEW p \in Procs, SetPart(p)
      PROVE  /\ author'[op'[q].base] = op'[q].val
             /\ \A i \in Indices : i < op'[q].next => i \in PartsOf(op'[q].val)
  <2>1. CASE p # q
    BY <1>1, <1>3, <2>1 DEF SetPart, Become, TypeOK
  <2>2. CASE p = q
    <3>1. op[q] \in InsertOps
      BY <1>3, <2>2 DEF SetPart, PartsLeft, TypeOK, NoOp, GetOps
    <3>2. /\ op'[q].base = op[q].base /\ op'[q].val = op[q].val
          /\ op'[q].next = op[q].next + 1 /\ author' = author
      BY <1>3, <2>2, <3>1 DEF SetPart, Become, TypeOK, InsertOps
    <3>3. /\ op[q].next \in PartsOf(op[q].val) /\ op[q].next \in Nat
          /\ author[op[q].base] = op[q].val
          /\ \A i \in Indices : i < op[q].next => i \in PartsOf(op[q].val)
      BY <1>3, <2>2, <3>1
      DEF SetPart, PartsLeft, InsertOps, Consistent, InsertsMatch
    <3> QED
      BY <3>2, <3>3 DEF Indices
  <2> QED
    BY <2>1, <2>2
<1>4. ASSUME NEW p \in Procs, UNCHANGED author,
             op' = [op EXCEPT ![p] = op'[p]], op'[p].kind # "insert"
      PROVE  /\ author'[op'[q].base] = op'[q].val
             /\ \A i \in Indices : i < op'[q].next => i \in PartsOf(op'[q].val)
  BY <1>1, <1>4 DEF TypeOK
<1>5. ASSUME NEW p \in Procs, \/ SetPartFails(p) \/ SetControl(p) \/ GetPart(p)
                              \/ FinishGet(p) \/ Crash(p)
                              \/ \E k \in Keys : StartGet(p, k)
      PROVE  /\ UNCHANGED author
             /\ op' = [op EXCEPT ![p] = op'[p]] /\ op'[p].kind # "insert"
  <2>1. CASE SetPartFails(p) \/ SetControl(p) \/ FinishGet(p) \/ Crash(p)
    BY <2>1 DEF SetPartFails, SetControl, FinishGet, Crash, Become, TypeOK, NoOp, Answered
  <2>2. CASE GetPart(p)
    <3>1. op[p] \in GetOps
      BY <2>2 DEF GetPart, TypeOK, NoOp, InsertOps
    <3> QED
      BY <2>2, <3>1 DEF GetPart, Become, TypeOK, Answered, GetOps
  <2>3. ASSUME NEW k \in Keys, StartGet(p, k)
        PROVE  /\ UNCHANGED author
               /\ op' = [op EXCEPT ![p] = op'[p]] /\ op'[p].kind # "insert"
    BY <2>3 DEF StartGet, Become, TypeOK, Answered
  <2> QED
    BY <1>5, <2>1, <2>2, <2>3
<1>6. CASE UNCHANGED op
  BY <1>1, <1>6
<1> QED
  BY <1>2, <1>3, <1>4, <1>5, <1>6 DEF Next, vars, Delete, EvictControl, EvictPart, Tick

LEMMA GetsMatchStep ==
  ASSUME UniqueBases, TypeOK, Consistent, [Next]_vars
  PROVE  GetsMatch'
<1> DEFINE Agrees(o) == /\ author[o.base] # Miss
                        /\ Covers(o.count, author[o.base])
                        /\ Len(o.buffer) <= o.count
                        /\ \A j \in 1..Len(o.buffer) :
                             o.buffer[j] = Part(author[o.base], j - 1)
<1>1. ASSUME NEW q \in Procs, op'[q].kind = "get"
      PROVE  op'[q].base \in Bases /\ Agrees(op'[q])
  <2>1. CASE op'[q] = op[q]
    <3>1. op[q] \in GetOps
      BY <1>1, <2>1 DEF TypeOK, NoOp, InsertOps
    <3> QED
      BY <1>1, <2>1, <3>1 DEF Consistent, GetsMatch, GetOps
  <2>2. ASSUME NEW p \in Procs, NEW k \in Keys, StartGet(p, k), p = q
        PROVE  op'[q].base \in Bases /\ Agrees(op'[q])
    <3>1. /\ ctl[k] # Miss /\ ctl[k].long
          /\ op'[q] = [kind |-> "get", count |-> ctl[k].count, full |-> ctl[k].full,
                       base |-> ctl[k].base, buffer |-> <<>>, size |-> 0]
      BY <1>1, <2>2 DEF StartGet, Become, TypeOK, Answered
    <3>2. ctl[k] \in ControlRecords
      BY <3>1 DEF TypeOK, ShortRecords
    <3>3. /\ op'[q].base = ctl[k].base /\ op'[q].count = ctl[k].count
          /\ op'[q].buffer = <<>> /\ Len(op'[q].buffer) = 0
      BY <3>1
    <3>4. /\ author[ctl[k].base] # Miss
          /\ Covers(ctl[k].count, author[ctl[k].base])
      BY <3>1 DEF Consistent, ControlsMatch
    <3>5. ctl[k].base \in Bases /\ ctl[k].count \in 0..MaxParts
      BY <3>2 DEF ControlRecords
    <3> QED
      BY <3>3, <3>4, <3>5, SizeAssumption
  <2>3. ASSUME NEW p \in Procs, GetPart(p), p = q
        PROVE  op'[q].base \in Bases /\ Agrees(op'[q])
    <3> DEFINE n    == Len(op[q].buffer)
               part == parts[op[q].base][n]
    <3>1. op[q] \in GetOps /\ op[q].kind = "get"
      BY <2>3 DEF GetPart, TypeOK, NoOp, InsertOps
    <3>2. /\ part # Miss
          /\ op'[q] = [op[q] EXCEPT !.buffer = Append(@, part), !.size = @ + part.size]
      BY <1>1, <2>3 DEF GetPart, Become, TypeOK, Answered
    <3>3. /\ op'[q].base = op[q].base /\ op'[q].count = op[q].count
          /\ op'[q].buffer = Append(op[q].buffer, part)
      BY <3>1, <3>2 DEF GetOps
    <3>4. /\ op[q].buffer \in Seq(Parts) /\ n \in Nat /\ n < op[q].count
          /\ op[q].count \in 0..MaxParts /\ op[q].base \in Bases
      BY <2>3, <3>1 DEF GetPart, GetOps
    <3>5. n \in Indices
      BY <3>4, SizeAssumption DEF Indices
    <3>6. part = Part(author[op[q].base], n)
      BY <3>2, <3>4, <3>5 DEF Consistent, PartsMatch
    <3>7. Agrees(op[q])
      BY <3>1 DEF Consistent, GetsMatch
    <3>8. /\ Len(op'[q].buffer) = n + 1
          /\ \A j \in 1..n : op'[q].buffer[j] = op[q].buffer[j]
          /\ op'[q].buffer[n + 1] = part
      BY <3>3, <3>4
    <3>9. ASSUME NEW j \in 1..Len(op'[q].buffer)
          PROVE  op'[q].buffer[j] = Part(author[op'[q].base], j - 1)
      <4>1. CASE j \in 1..n
        BY <4>1, <3>3, <3>7, <3>8
      <4>2. CASE j = n + 1
        BY <4>2, <3>3, <3>4, <3>6, <3>8
      <4> QED
        BY <4>1, <4>2, <3>4, <3>8
    <3> QED
      BY <3>3, <3>4, <3>7, <3>8, <3>9
  <2>4. ASSUME NEW p \in Procs, op' = [op EXCEPT ![p] = op'[p]], op'[p].kind # "get"
        PROVE  op'[q] = op[q]
    BY <1>1, <2>4 DEF TypeOK
  <2>5. ASSUME NEW p \in Procs, \/ SetPart(p) \/ SetPartFails(p) \/ SetControl(p)
                                \/ FinishGet(p) \/ Crash(p)
                                \/ \E k \in Keys, v \in Values : StartInsert(p, k, v)
        PROVE  op' = [op EXCEPT ![p] = op'[p]] /\ op'[p].kind # "get"
    BY <2>5 DEF SetPart, PartsLeft, SetPartFails, SetControl, FinishGet, Crash,
       StartInsert, Become, TypeOK, NoOp, Answered, InsertOps, GetOps
  <2>6. ASSUME NEW p \in Procs, p # q, GetPart(p) \/ \E k \in Keys : StartGet(p, k)
        PROVE  op'[q] = op[q]
    BY <2>6 DEF GetPart, StartGet, Become, TypeOK
  <2>7. CASE UNCHANGED op
    BY <2>1, <2>7
  <2> QED
    BY <2>1, <2>2, <2>3, <2>4, <2>5, <2>6, <2>7
    DEF Next, vars, Delete, EvictControl, EvictPart, Tick
<1> QED
  BY <1>1, AuthorKept DEF GetsMatch, Covers

LEMMA NeverTornStep ==
  ASSUME UniqueBases, TypeOK, Consistent, [Next]_vars
  PROVE  NeverTorn'
<1> SUFFICES ASSUME NEW q \in Procs, op'[q].kind = "answered", op'[q].result.long
             PROVE  \E v \in Values : IsValue(op'[q].result.buffer, v)
  BY DEF NeverTorn, IsValue, PartsOf, Part, PartSize
<1>1. CASE op'[q] = op[q]
  BY <1>1 DEF Consistent, NeverTorn
<1>2. ASSUME NEW p \in Procs, FinishGet(p), p = q
      PROVE  \E v \in Values : IsValue(op'[q].result.buffer, v)
  <2>1. op[q] \in GetOps /\ op[q].kind = "get"
    BY <1>2 DEF FinishGet, TypeOK, NoOp, InsertOps
  <2>2. op'[q].result = Joined(op[q].buffer, op[q].full)
    BY <1>2 DEF FinishGet, Become, TypeOK, Answered, NotFound
  <2>3. /\ op'[q].result.buffer = op[q].buffer
        /\ Len(op[q].buffer) = op[q].count
    BY <1>2, <2>2 DEF Joined, FinishGet
  <2>4. /\ author[op[q].base] \in Values
        /\ Covers(op[q].count, author[op[q].base])
        /\ \A j \in 1..Len(op[q].buffer) :
             op[q].buffer[j] = Part(author[op[q].base], j - 1)
    BY <2>1 DEF Consistent, GetsMatch, TypeOK, GetOps
  <2>5. IsValue(op[q].buffer, author[op[q].base])
    BY <2>3, <2>4 DEF IsValue, Covers
  <2> QED
    BY <2>3, <2>4, <2>5
<1>3. ASSUME NEW p \in Procs, op' = [op EXCEPT ![p] = op'[p]],
             op'[p].kind = "answered" => ~op'[p].result.long
      PROVE  op'[q] = op[q]
  BY <1>3 DEF TypeOK
<1>4. ASSUME NEW p \in Procs, \/ SetPart(p) \/ SetPartFails(p) \/ SetControl(p) \/ Crash(p)
                              \/ \E k \in Keys, v \in Values : StartInsert(p, k, v)
      PROVE  op' = [op EXCEPT ![p] = op'[p]] /\ op'[p].kind # "answered"
  BY <1>4 DEF SetPart, PartsLeft, SetPartFails, SetControl, Crash, StartInsert, Become,
     TypeOK, NoOp, InsertOps, GetOps
<1>5. ASSUME NEW p \in Procs, NEW k \in Keys, StartGet(p, k)
      PROVE  /\ op' = [op EXCEPT ![p] = op'[p]]
             /\ op'[p].kind = "answered" => ~op'[p].result.long
  BY <1>5 DEF StartGet, Become, TypeOK, Answered, NotFound, Whole
<1>6. ASSUME NEW p \in Procs, GetPart(p)
      PROVE  /\ op' = [op EXCEPT ![p] = op'[p]]
             /\ op'[p].kind = "answered" => ~op'[p].result.long
  <2>1. op[p] \in GetOps
    BY <1>6 DEF GetPart, TypeOK, NoOp, InsertOps
  <2> QED
    BY <1>6, <2>1 DEF GetPart, Become, TypeOK, Answered, NotFound, GetOps
<1>7. ASSUME NEW p \in Procs, FinishGet(p), p # q
      PROVE  op'[q] = op[q]
  BY <1>7 DEF FinishGet, Become, TypeOK
<1>8. CASE UNCHANGED op
  BY <1>1, <1>8
<1> QED
  BY <1>1, <1>2, <1>3, <1>4, <1>5, <1>6, <1>7, <1>8
  DEF Next, vars, Delete, EvictControl, EvictPart, Tick

\* The invariant that carries the argument: while a base belongs to one value,
\* everything that mentions the base agrees with that value.
THEOREM AlwaysConsistent == UniqueBases => (Spec => []Consistent)
<1>1. Init => Consistent
  BY ConsistentInit
<1>2. UniqueBases /\ TypeOK /\ Consistent /\ [Next]_vars => Consistent'
  BY PartsMatchStep, ControlsMatchStep, InsertsMatchStep, GetsMatchStep, NeverTornStep
  DEF Consistent
<1>3. ASSUME UniqueBases PROVE TypeOK /\ Consistent /\ [Next]_vars => Consistent'
  BY <1>2, <1>3
<1>4. ASSUME UniqueBases PROVE Spec => []Consistent
  BY <1>1, <1>3, <1>4, TypeCorrect, PTL DEF Spec
<1> QED
  BY <1>4

\* GetData never answers with a mix of two values, if no process caches a long
\* value twice under one key within one second.
THEOREM NoTornAnswer == UniqueBases => (Spec => []NeverTorn)
<1>1. Consistent => NeverTorn
  BY DEF Consistent
<1> QED
  BY <1>1, AlwaysConsistent, PTL

-----------------------------------------------------------------------------
(* The buffer *)

\* What the first n parts of v take: all of them but the last are full.
Copied(n, v) == IF n * ValueMax < Size[v] THEN n * ValueMax ELSE Size[v]

\* A control record, and a get that goes by it, have the size of the value the
\* base belongs to, and a get has copied that value's first parts.
SizesMatch ==
  /\ \A k \in Keys : ctl[k] # Miss /\ ctl[k].long => ctl[k].full = Size[author[ctl[k].base]]
  /\ \A p \in Procs :
       op[p].kind = "get"
         => /\ op[p].full = Size[author[op[p].base]]
            /\ op[p].size = Copied(Len(op[p].buffer), author[op[p].base])

\* One more part.
LEMMA CopiedNext ==
  ASSUME NEW v \in Values, NEW n \in PartsOf(v)
  PROVE  Copied(n, v) + PartSize(v, n) = Copied(n + 1, v)
<1>1. /\ n \in Nat /\ ValueMax \in Nat \ {0} /\ Size[v] \in Nat /\ n * ValueMax < Size[v]
  BY SizeAssumption DEF PartsOf, Indices
<1>2. n * ValueMax \in Nat /\ (n + 1) * ValueMax = n * ValueMax + ValueMax
  BY <1>1
<1> QED
  BY <1>1, <1>2 DEF Copied, PartSize

LEMMA SizesMatchStep ==
  ASSUME UniqueBases, TypeOK, Consistent, SizesMatch, [Next]_vars
  PROVE  SizesMatch'
<1>1. ASSUME NEW k \in Keys, ctl'[k] # Miss, ctl'[k].long
      PROVE  /\ ctl'[k].base \in Bases /\ author[ctl'[k].base] # Miss
             /\ ctl'[k].full = Size[author[ctl'[k].base]]
  <2>1. CASE ctl'[k] = ctl[k]
    <3>1. ctl[k].base \in Bases
      BY <1>1, <2>1 DEF TypeOK, ShortRecords, ControlRecords
    <3> QED
      BY <1>1, <2>1, <3>1 DEF SizesMatch, Consistent, ControlsMatch
  <2>2. ASSUME NEW p \in Procs, SetControl(p), ctl'[k] # ctl[k]
        PROVE  /\ ctl'[k].base \in Bases /\ author[ctl'[k].base] # Miss
               /\ ctl'[k].full = Size[author[ctl'[k].base]]
    <3>1. op[p] \in InsertOps /\ op[p].kind = "insert"
      BY <2>2 DEF SetControl, TypeOK, NoOp, GetOps
    <3>2. ctl'[k] = NewControl(p)
      BY <2>2 DEF SetControl, TypeOK
    <3>3. /\ IsLong(op[p].val)
          /\ ctl'[k].full = Size[op[p].val] /\ ctl'[k].base = op[p].base
      BY <1>1, <3>2 DEF NewControl, Short, Control
    <3>4. author[op[p].base] = op[p].val /\ op[p].val \in Values /\ op[p].base \in Bases
      BY <3>1, <3>3 DEF Consistent, InsertsMatch, InsertOps
    <3> QED
      BY <3>3, <3>4, MissAssumption
  <2>3. ASSUME NEW p \in Procs, NEW l \in Keys, Delete(p, l)
        PROVE  ctl'[k] = ctl[k]
    BY <1>1, <2>3 DEF Delete, TypeOK
  <2>4. ASSUME NEW l \in Keys, EvictControl(l)
        PROVE  ctl'[k] = ctl[k]
    BY <1>1, <2>4 DEF EvictControl, TypeOK
  <2>5. CASE UNCHANGED ctl
    BY <2>1, <2>5
  <2> QED
    BY <2>1, <2>2, <2>3, <2>4, <2>5 DEF Next, vars, StartInsert, SetPart, SetPartFails,
       StartGet, GetPart, FinishGet, Crash, EvictPart, Tick
<1> DEFINE Agrees(o) == /\ o.full = Size[author[o.base]]
                        /\ o.size = Copied(Len(o.buffer), author[o.base])
<1>2. ASSUME NEW q \in Procs, op'[q].kind = "get"
      PROVE  op'[q].base \in Bases /\ author[op'[q].base] # Miss /\ Agrees(op'[q])
  <2>1. CASE op'[q] = op[q]
    <3>1. op[q] \in GetOps
      BY <1>2, <2>1 DEF TypeOK, NoOp, InsertOps
    <3> QED
      BY <1>2, <2>1, <3>1 DEF Consistent, GetsMatch, GetOps, SizesMatch
  <2>2. ASSUME NEW k \in Keys, StartGet(q, k)
        PROVE  op'[q].base \in Bases /\ author[op'[q].base] # Miss /\ Agrees(op'[q])
    <3>1. /\ ctl[k] # Miss /\ ctl[k].long
          /\ op'[q] = [kind |-> "get", count |-> ctl[k].count, full |-> ctl[k].full,
                       base |-> ctl[k].base, buffer |-> <<>>, size |-> 0]
      BY <1>2, <2>2 DEF StartGet, Become, TypeOK, Answered
    <3>2. ctl[k] \in ControlRecords
      BY <3>1 DEF TypeOK, ShortRecords
    <3>3. /\ op'[q].base = ctl[k].base /\ op'[q].full = ctl[k].full
          /\ op'[q].size = 0 /\ Len(op'[q].buffer) = 0
      BY <3>1
    <3>4. /\ author[ctl[k].base] # Miss /\ ctl[k].full = Size[author[ctl[k].base]]
          /\ ctl[k].base \in Bases
      BY <3>1, <3>2 DEF Consistent, ControlsMatch, SizesMatch, ControlRecords
    <3>5. author[ctl[k].base] \in Values
      BY <3>4 DEF TypeOK
    <3>6. Copied(0, author[ctl[k].base]) = 0
      BY <3>5, SizeAssumption DEF Copied
    <3> QED
      BY <3>3, <3>4, <3>6
  <2>3. ASSUME GetPart(q)
        PROVE  op'[q].base \in Bases /\ author[op'[q].base] # Miss /\ Agrees(op'[q])
    <3> DEFINE n    == Len(op[q].buffer)
               v    == author[op[q].base]
               part == parts[op[q].base][n]
    <3>1. op[q] \in GetOps /\ op[q].kind = "get"
      BY <2>3 DEF GetPart, TypeOK, NoOp, InsertOps
    <3>2. /\ part # Miss
          /\ op'[q] = [op[q] EXCEPT !.buffer = Append(@, part), !.size = @ + part.size]
      BY <1>2, <2>3 DEF GetPart, Become, TypeOK, Answered
    <3>3. /\ op[q].buffer \in Seq(Parts) /\ n \in Nat /\ n < op[q].count
          /\ op[q].count \in 0..MaxParts /\ op[q].base \in Bases
      BY <2>3, <3>1 DEF GetPart, GetOps
    <3>4. /\ op'[q].base = op[q].base /\ op'[q].full = op[q].full
          /\ op'[q].size = op[q].size + part.size
          /\ op'[q].buffer = Append(op[q].buffer, part)
      BY <3>1, <3>2 DEF GetOps
    <3>5. Len(op'[q].buffer) = n + 1
      BY <3>3, <3>4
    <3>6. n \in Indices
      BY <3>3, SizeAssumption DEF Indices
    <3>7. v # Miss /\ part = Part(v, n) /\ Covers(op[q].count, v)
      BY <3>1, <3>2, <3>3, <3>6 DEF Consistent, PartsMatch, GetsMatch
    <3>8. v \in Values /\ n \in PartsOf(v)
      BY <3>3, <3>6, <3>7 DEF TypeOK, Covers
    <3>9. op[q].full = Size[v] /\ op[q].size = Copied(n, v)
      BY <3>1 DEF SizesMatch
    <3>10. op'[q].size = Copied(n + 1, v)
      BY <3>4, <3>7, <3>8, <3>9, CopiedNext DEF Part
    <3> QED
      BY <3>3, <3>4, <3>5, <3>7, <3>9, <3>10
  <2>4. ASSUME NEW p \in Procs, op' = [op EXCEPT ![p] = op'[p]], op'[p].kind # "get"
        PROVE  op'[q] = op[q]
    BY <1>2, <2>4 DEF TypeOK
  <2>5. ASSUME NEW p \in Procs, \/ SetPart(p) \/ SetPartFails(p) \/ SetControl(p)
                                \/ FinishGet(p) \/ Crash(p)
                                \/ \E k \in Keys, v \in Values : StartInsert(p, k, v)
        PROVE  op' = [op EXCEPT ![p] = op'[p]] /\ op'[p].kind # "get"
    BY <2>5 DEF SetPart, PartsLeft, SetPartFails, SetControl, FinishGet, Crash,
       StartInsert, Become, TypeOK, NoOp, Answered, InsertOps, GetOps
  <2>6. ASSUME NEW p \in Procs, p # q, GetPart(p) \/ \E k \in Keys : StartGet(p, k)
        PROVE  op'[q] = op[q]
    BY <2>6 DEF GetPart, StartGet, Become, TypeOK
  <2>7. CASE UNCHANGED op
    BY <2>1, <2>7
  <2> QED
    BY <2>1, <2>2, <2>3, <2>4, <2>5, <2>6, <2>7
    DEF Next, vars, Delete, EvictControl, EvictPart, Tick
<1> QED
  BY <1>1, <1>2, AuthorKept DEF SizesMatch, Copied

\* A get never writes past the end of the buffer it allocated by the control
\* record, if no process caches a long value twice under one key in one second.
THEOREM CopiesFit == UniqueBases => (Spec => []CopyFits)
<1>1. Init => SizesMatch
  BY DEF Init, SizesMatch, NoOp
<1>2. TypeOK /\ Consistent /\ SizesMatch => CopyFits
  <2> SUFFICES ASSUME TypeOK, Consistent, SizesMatch, NEW p \in Procs, op[p].kind = "get"
               PROVE  op[p].size <= op[p].full
    BY DEF CopyFits
  <2> DEFINE v == author[op[p].base]
  <2>1. op[p] \in GetOps
    BY DEF TypeOK, NoOp, InsertOps
  <2>2. v \in Values /\ Len(op[p].buffer) \in Nat
    BY <2>1 DEF Consistent, GetsMatch, TypeOK, GetOps
  <2>3. Copied(Len(op[p].buffer), v) <= Size[v]
    BY <2>2, SizeAssumption DEF Copied
  <2> QED
    BY <2>3 DEF SizesMatch
<1>3. ASSUME UniqueBases
      PROVE  TypeOK /\ Consistent /\ SizesMatch /\ [Next]_vars => SizesMatch'
  BY <1>3, SizesMatchStep
<1>4. ASSUME UniqueBases PROVE Spec => []CopyFits
  <2>1. Spec => []Consistent
    BY <1>4, AlwaysConsistent
  <2> QED
    BY <1>1, <1>2, <1>3, <1>4, <2>1, TypeCorrect, PTL DEF Spec
<1> QED
  BY <1>4

-----------------------------------------------------------------------------
(* Refinement *)

\* The value a get is about to answer with, read off its first part.
LEMMA AnswerIsAuthor ==
  ASSUME TypeOK, Consistent, NEW q \in Procs, FinishGet(q), op[q].size = op[q].full
  PROVE  Answer(op'[q].result) \in {author[op[q].base], Miss}
<1>1. op[q] \in GetOps /\ op[q].kind = "get"
  BY DEF FinishGet, TypeOK, NoOp, InsertOps
<1>2. op'[q].result = Joined(op[q].buffer, op[q].full)
  BY DEF FinishGet, Become, TypeOK, Answered
<1>3. /\ op[q].buffer \in Seq(Parts)
      /\ \A j \in 1..Len(op[q].buffer) : op[q].buffer[j] = Part(author[op[q].base], j - 1)
  BY <1>1 DEF Consistent, GetsMatch, GetOps
<1>4. CASE op[q].buffer = <<>>
  BY <1>2, <1>4 DEF Answer, Joined
<1>5. CASE op[q].buffer # <<>>
  <2>1. 1 \in 1..Len(op[q].buffer)
    BY <1>3, <1>5
  <2>2. Answer(op'[q].result) = author[op[q].base]
    <3>1. op[q].buffer[1].of = author[op[q].base]
      <4>1. op[q].buffer[1] = Part(author[op[q].base], 1 - 1)
        BY <1>3, <2>1
      <4>2. Part(author[op[q].base], 1 - 1).of = author[op[q].base]
        BY DEF Part
      <4> QED
        BY <4>1, <4>2
    <3>2. /\ op'[q].result.long /\ op'[q].result.buffer = op[q].buffer
      BY <1>2 DEF Joined
    <3> QED
      BY <1>5, <3>1, <3>2 DEF Answer
  <2> QED
    BY <2>2
<1> QED
  BY <1>4, <1>5

LEMMA RegisterInit == Init => Register!Init
  BY DEF Init, Register!Init, Register!Idle, Named, View, NoOp

\* A step that leaves the control records, the authors of bases in use and the
\* operations alone is invisible.
LEMMA NamedKept ==
  ASSUME UniqueBases, TypeOK, Consistent, [Next]_vars, NEW k \in Keys, ctl'[k] = ctl[k]
  PROVE  Named(k)' = Named(k)
<1>1. ctl[k] # Miss /\ ctl[k].long => ctl[k].base \in Bases /\ author[ctl[k].base] # Miss
  BY DEF TypeOK, ShortRecords, ControlRecords, Consistent, ControlsMatch
<1> QED
  BY <1>1, AuthorKept DEF Named

LEMMA ViewKept ==
  ASSUME UniqueBases, TypeOK, Consistent, [Next]_vars, NEW q \in Procs, op'[q] = op[q]
  PROVE  View(q)' = View(q)
<1>1. op[q].kind = "get" => op[q].base \in Bases /\ author[op[q].base] # Miss
  BY DEF TypeOK, GetOps, InsertOps, NoOp, Consistent, GetsMatch
<1> QED
  BY <1>1, AuthorKept DEF View, Answer

\* The actions of the register, on the refinement mapping, for one process or key
\* that a step of the cache touches.
LEMMA StepKeepsCells ==
  ASSUME UniqueBases, TypeOK, Consistent, [Next]_vars, UNCHANGED ctl
  PROVE  [k \in Keys |-> Named(k)'] = [k \in Keys |-> Named(k)]
  BY NamedKept

LEMMA StepKeepsViews ==
  ASSUME UniqueBases, TypeOK, Consistent, [Next]_vars, UNCHANGED op
  PROVE  [p \in Procs |-> View(p)'] = [p \in Procs |-> View(p)]
  BY ViewKept

LEMMA OneCellChanges ==
  ASSUME UniqueBases, TypeOK, Consistent, [Next]_vars, NEW k \in Keys,
         ctl' = [ctl EXCEPT ![k] = ctl'[k]]
  PROVE  [l \in Keys |-> Named(l)'] = [[l \in Keys |-> Named(l)] EXCEPT ![k] = Named(k)']
<1>1. \A l \in Keys : l # k => ctl'[l] = ctl[l]
  BY DEF TypeOK
<1> QED
  BY <1>1, NamedKept

LEMMA OneViewChanges ==
  ASSUME UniqueBases, TypeOK, Consistent, [Next]_vars, NEW p \in Procs,
         op' = [op EXCEPT ![p] = op'[p]]
  PROVE  [q \in Procs |-> View(q)'] = [[q \in Procs |-> View(q)] EXCEPT ![p] = View(p)']
<1>1. \A q \in Procs : q # p => op'[q] = op[q]
  BY DEF TypeOK
<1> QED
  BY <1>1, ViewKept

\* Every step of the cache is a step of the register or invisible.
LEMMA RegisterStep ==
  ASSUME UniqueBases, TypeOK, Consistent, [Next]_vars
  PROVE  [Register!Next]_(Register!vars)
<1> USE DEF Register!vars
<1>1. CASE UNCHANGED <<ctl, op>>
  BY <1>1, StepKeepsCells, StepKeepsViews
<1>2. ASSUME NEW p \in Procs, UNCHANGED ctl, op' = [op EXCEPT ![p] = op'[p]],
             View(p)' = [at |-> "idle", val |-> Miss]
      PROVE  Register!Next
  BY <1>2, StepKeepsCells, OneViewChanges
  DEF Register!Next, Register!Forget, Register!Idle
<1>3. ASSUME NEW p \in Procs,
             \/ SetPart(p) \/ SetPartFails(p) \/ Crash(p)
             \/ \E k \in Keys, v \in Values : StartInsert(p, k, v)
      PROVE  Register!Next
  <2>1. /\ UNCHANGED ctl /\ op' = [op EXCEPT ![p] = op'[p]]
        /\ op'[p].kind \in {"idle", "insert"}
    BY <1>3 DEF SetPart, PartsLeft, SetPartFails, Crash, StartInsert, Become,
       TypeOK, NoOp, InsertOps, GetOps
  <2> QED
    BY <1>2, <2>1 DEF View
<1>4. ASSUME NEW p \in Procs, SetControl(p)
      PROVE  [Register!Next]_(Register!vars)
  <2>1. op[p] \in InsertOps /\ op[p].kind = "insert"
    BY <1>4 DEF SetControl, TypeOK, NoOp, GetOps
  <2>2. op' = [op EXCEPT ![p] = op'[p]] /\ View(p) = View(p)'
    BY <1>4, <2>1 DEF SetControl, Become, TypeOK, NoOp, View
  <2>3. [q \in Procs |-> View(q)'] = [q \in Procs |-> View(q)]
    BY <2>2, OneViewChanges
  <2>4. CASE UNCHANGED ctl
    BY <2>3, <2>4, StepKeepsCells
  <2>5. CASE ctl' = [ctl EXCEPT ![op[p].key] = NewControl(p)]
    <3>1. op[p].key \in Keys /\ op[p].val \in Values /\ op[p].base \in Bases
      BY <2>1 DEF InsertOps
    <3>2. PICK k \in Keys, v \in Values, b \in Bases :
            k = op[p].key /\ v = op[p].val /\ b = op[p].base
      BY <3>1
    <3>3. ctl'[k] = NewControl(p)
      BY <2>5, <3>2 DEF TypeOK
    <3>4. ASSUME IsLong(v) PROVE Named(k)' = v
      <4>1. NewControl(p) \in [long : {TRUE}, count : Nat, full : Nat,
                               base : Keys \X Procs \X Nat]
        BY <2>1, <3>2, <3>4, SizeAssumption
        DEF NewControl, Control, InsertOps, Bases, Seconds
      <4>2. author'[b] = v
        BY <1>4, <2>1, <3>2, <3>4 DEF SetControl, Consistent, InsertsMatch
      <4>3. NewControl(p).long /\ NewControl(p).base = b
        BY <3>2, <3>4 DEF NewControl, Control
      <4> QED
        BY <3>3, <4>1, <4>2, <4>3, MissAssumption DEF Named
    <3>5. ASSUME ~IsLong(v) PROVE Named(k)' = v
      <4>1. /\ NewControl(p) \in [long : {FALSE}, val : Values]
            /\ ~NewControl(p).long /\ NewControl(p).val = v
        BY <3>2, <3>5 DEF NewControl, Short
      <4> QED
        BY <3>3, <4>1, MissAssumption DEF Named
    <3>6. Named(k)' = v
      BY <3>4, <3>5
    <3>7. ctl' = [ctl EXCEPT ![k] = ctl'[k]]
      BY <2>5, <3>2, <3>3
    <3> QED
      BY <2>3, <3>6, <3>7, OneCellChanges DEF Register!Next, Register!Put
  <2> QED
    BY <1>4, <2>4, <2>5 DEF SetControl
<1>5. ASSUME NEW p \in Procs, NEW k \in Keys, StartGet(p, k)
      PROVE  Register!Next
  <2>1. UNCHANGED <<ctl, author>> /\ op' = [op EXCEPT ![p] = op'[p]]
    BY <1>5 DEF StartGet, Become, TypeOK
  <2>2. CASE ctl[k] = Miss
    <3>1. View(p)' = [at |-> "answered", val |-> Named(k)]
      BY <1>5, <2>2 DEF StartGet, Become, TypeOK, View, Answered, NotFound, Answer, Named
    <3> QED
      BY <2>1, <3>1, StepKeepsCells, OneViewChanges DEF Register!Next, Register!LookAndAnswer
  <2>3. CASE ctl[k] # Miss /\ ~ctl[k].long
    <3>1. View(p)' = [at |-> "answered", val |-> Named(k)]
      BY <1>5, <2>3 DEF StartGet, Become, TypeOK, View, Answered, Whole, Answer, Named
    <3> QED
      BY <2>1, <3>1, StepKeepsCells, OneViewChanges DEF Register!Next, Register!LookAndAnswer
  <2>4. CASE ctl[k] # Miss /\ ctl[k].long
    <3>1. op'[p] = [kind |-> "get", count |-> ctl[k].count, full |-> ctl[k].full,
                    base |-> ctl[k].base, buffer |-> <<>>, size |-> 0]
      BY <1>5, <2>4 DEF StartGet, Become, TypeOK
    <3>2. View(p)' = [at |-> "reading", val |-> Named(k)]
      BY <2>1, <2>4, <3>1 DEF View, Named
    <3> QED
      BY <2>1, <3>2, StepKeepsCells, OneViewChanges DEF Register!Next, Register!Look
  <2> QED
    BY <2>2, <2>3, <2>4
<1>6. ASSUME NEW p \in Procs, UNCHANGED ctl, op' = [op EXCEPT ![p] = op'[p]],
             op[p].kind = "get", op'[p].kind = "answered",
             Answer(op'[p].result) \in {author[op[p].base], Miss}
      PROVE  Register!Next
  <2>1. op[p].base \in Bases
    BY <1>6 DEF TypeOK, GetOps, InsertOps, NoOp
  <2>2. /\ View(p) = [at |-> "reading", val |-> author[op[p].base]]
        /\ View(p)' = [at |-> "answered", val |-> Answer(op'[p].result)]
    BY <1>6 DEF View, Answer
  <2>3. Answer(op'[p].result) \in Values \cup {Miss}
    BY <1>6, <2>1 DEF TypeOK
  <2>4. [q \in Procs |-> View(q)'] = [[q \in Procs |-> View(q)] EXCEPT ![p] = View(p)']
    BY <1>6, OneViewChanges
  <2>5. PICK v \in Values \cup {Miss} : v = Answer(op'[p].result)
    BY <2>3
  <2>6. Register!Answer(p, v)
    BY <1>6, <2>2, <2>4, <2>5, StepKeepsCells DEF Register!Answer
  <2> QED
    BY <2>6 DEF Register!Next
<1>7. ASSUME NEW p \in Procs, GetPart(p)
      PROVE  [Register!Next]_(Register!vars)
  <2> DEFINE part == parts[op[p].base][Len(op[p].buffer)]
  <2>1. op[p] \in GetOps /\ op[p].kind = "get"
    BY <1>7 DEF GetPart, TypeOK, NoOp, InsertOps
  <2>2. UNCHANGED <<ctl, author>> /\ op' = [op EXCEPT ![p] = op'[p]]
    BY <1>7 DEF GetPart, Become, TypeOK
  <2>3. CASE part = Miss
    <3>1. op'[p] = Answered(NotFound)
      BY <1>7, <2>3 DEF GetPart, Become, TypeOK
    <3> QED
      BY <1>6, <2>1, <2>2, <3>1 DEF Answered, NotFound, Answer
  <2>4. CASE part # Miss
    <3>1. op'[p] = [op[p] EXCEPT !.buffer = Append(@, part), !.size = @ + part.size]
      BY <1>7, <2>4 DEF GetPart, Become, TypeOK
    <3>2. op'[p].kind = "get" /\ op'[p].base = op[p].base
      BY <2>1, <3>1 DEF GetOps
    <3>3. View(p)' = View(p)
      BY <2>1, <2>2, <3>2 DEF View
    <3> QED
      BY <2>2, <3>3, StepKeepsCells, OneViewChanges
  <2> QED
    BY <2>3, <2>4
<1>8. ASSUME NEW p \in Procs, FinishGet(p)
      PROVE  Register!Next
  <2>1. op[p].kind = "get"
    BY <1>8 DEF FinishGet
  <2>2. /\ UNCHANGED <<ctl, author>> /\ op' = [op EXCEPT ![p] = op'[p]]
        /\ op'[p].kind = "answered"
    BY <1>8 DEF FinishGet, Become, TypeOK, Answered
  <2>3. Answer(op'[p].result) \in {author[op[p].base], Miss}
    <3>1. CASE op[p].size = op[p].full
      BY <1>8, <3>1, AnswerIsAuthor
    <3>2. CASE op[p].size # op[p].full
      BY <1>8, <3>2 DEF FinishGet, Become, TypeOK, Answered, NotFound, Answer
    <3> QED
      BY <3>1, <3>2
  <2> QED
    BY <1>6, <2>1, <2>2, <2>3
<1>9. ASSUME NEW k \in Keys, UNCHANGED op, ctl' = [ctl EXCEPT ![k] = Miss]
      PROVE  Register!Next
  <2>1. ctl'[k] = Miss
    BY <1>9 DEF TypeOK
  <2>2. ctl' = [ctl EXCEPT ![k] = ctl'[k]] /\ Named(k)' = Miss
    BY <1>9, <2>1 DEF Named
  <2> QED
    BY <1>9, <2>2, OneCellChanges, StepKeepsViews DEF Register!Next, Register!Lose
<1>10. ASSUME NEW p \in Procs, NEW k \in Keys, Delete(p, k)
       PROVE  [Register!Next]_(Register!vars)
  BY <1>1, <1>9, <1>10 DEF Delete
<1>11. ASSUME NEW k \in Keys, EvictControl(k)
       PROVE  Register!Next
  BY <1>9, <1>11 DEF EvictControl
<1>12. (\E b \in Bases, i \in Indices : EvictPart(b, i)) \/ Tick
         => [Register!Next]_(Register!vars)
  BY <1>1 DEF EvictPart, Tick
<1>13. UNCHANGED vars => [Register!Next]_(Register!vars)
  BY <1>1 DEF vars
<1> QED
  BY <1>3, <1>4, <1>5, <1>7, <1>8, <1>10, <1>11, <1>12, <1>13 DEF Next

\* The chunked protocol implements the register: whatever is evicted, lost or
\* interrupted, a get answers with the value its key had when the get began, or
\* with a miss.
THEOREM CacheIsRegister == UniqueBases => (Spec => ImplementsRegister)
<1>1. ASSUME UniqueBases PROVE TypeOK /\ Consistent /\ [Next]_vars => [Register!Next]_(Register!vars)
  BY <1>1, RegisterStep
<1>2. ASSUME UniqueBases PROVE Spec => []Consistent
  BY <1>2, AlwaysConsistent
<1>3. ASSUME UniqueBases PROVE Spec => ImplementsRegister
  BY <1>1, <1>2, <1>3, RegisterInit, TypeCorrect, PTL
  DEF Spec, ImplementsRegister, Register!Spec
<1> QED
  BY <1>3
=============================================================================
