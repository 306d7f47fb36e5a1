------------------------ MODULE ProcessServer_proofs ------------------------
(***************************************************************************)
(* For any number of processes, any configuration files and any number of  *)
(* reloads and failed forks: the slots of the master are its children, its *)
(* counters are its slots, and it starts filters below the limit only.     *)
(***************************************************************************)
EXTENDS ProcessServer, FiniteSetTheorems, WellFoundedInduction, TLAPS

\* A set of slots has a first one.
LEMMA FirstOf ==
  ASSUME NEW S \in SUBSET Nat, S # {}
  PROVE  \E i \in S : \A j \in S : i <= j
<1>1. PICK i \in S : \A j \in S : ~(<<j, i>> \in OpToRel(<, Nat))
  BY NatLessThanWellFounded, WFMin
<1>2. \A j \in S : ~(j < i)
  BY <1>1 DEF OpToRel
<1>3. \A j \in S : j \in Nat
  OBVIOUS
<1>4. \A j \in S : i <= j
  BY <1>2, <1>3
<1> QED BY <1>4

-----------------------------------------------------------------------------
(* Types                                                                   *)

\* The slots with a child, and those the master believes spare.
Slots(fs)  == {i \in DOMAIN fs : fs[i].pid \in Pids}
Spares(fs) == {i \in Slots(fs) : fs[i].avail}

LEMMA Constants ==
  /\ NoProc \in Proc
  /\ FreeSlot \in Slot /\ FreeSlot.pid = 0 /\ 0 \notin Pids /\ -1 \notin Pids
  /\ \A c \in RawConfig : CheckValues(c) \in RawConfig
<1>1. InitialConfig.listen \in Addresses
  BY ConfigAssumption DEF RawConfig
<1>2. NoProc \in Proc
  BY <1>1, BoundAssumption DEF NoProc, Proc
<1>3. 0 \notin Pids /\ -1 \notin Pids
  BY PidsAssumption
<1>4. \A c \in RawConfig : CheckValues(c) \in RawConfig
  BY ConfigAssumption DEF RawConfig, CheckValues
<1> QED BY <1>2, <1>3, <1>4 DEF FreeSlot, Slot

\* There are finitely many slots.
LEMMA SlotsFinite ==
  ASSUME NEW fs \in Seq(Slot), NEW S \in SUBSET (DOMAIN fs)
  PROVE  IsFiniteSet(S) /\ Cardinality(S) \in Nat /\ S \in SUBSET Nat
<1>1. DOMAIN fs = 1..Len(fs) /\ Len(fs) \in Nat
  OBVIOUS
<1>2. IsFiniteSet(DOMAIN fs)
  BY <1>1, FS_Interval
<1>3. S \in SUBSET Nat
  BY <1>1
<1> QED BY <1>2, <1>3, FS_Subset, FS_CardinalityType

\* What is said of the counters, of the slots as an argument.
LEMMA Counters ==
  /\ Accounting <=> /\ num_filters = Cardinality(Slots(filters)) + forkFailures
                    /\ spare_filters = Cardinality(Spares(filters)) + forkFailures
  /\ Accounting' <=> /\ num_filters' = Cardinality(Slots(filters')) + forkFailures'
                     /\ spare_filters' = Cardinality(Spares(filters')) + forkFailures'
<1>1. {i \in DOMAIN filters : Occupied(i)} = Slots(filters)
  BY DEF Occupied, Slots
<1>2. {i \in DOMAIN filters : Occupied(i) /\ filters[i].avail} = Spares(filters)
  BY DEF Occupied, Slots, Spares
<1>3. {i \in DOMAIN filters : Occupied(i)}' = Slots(filters')
  BY DEF Occupied, Slots
<1>4. {i \in DOMAIN filters : Occupied(i) /\ filters[i].avail}' = Spares(filters')
  BY DEF Occupied, Slots, Spares
<1> QED BY <1>1, <1>2, <1>3, <1>4 DEF Accounting

LEMMA BackloggedType ==
  ASSUME NEW b, NEW ps, pending \in [Addresses -> Nat]
  PROVE  Backlogged(b, ps) \in [Addresses -> Nat]
BY DEF Backlogged

-----------------------------------------------------------------------------
(* The slots are the children and the counters are the slots               *)

Pool == TypeOK /\ ChildrenHaveSlots /\ Accounting

\* When slots are freed, what is left is counted by subtraction.
LEMMA SlotsFreed ==
  ASSUME NEW fs \in Seq(Slot), NEW G \in SUBSET Slots(fs), NEW gs,
         gs = [i \in DOMAIN fs |-> IF i \in G THEN FreeSlot ELSE fs[i]]
  PROVE  /\ gs \in Seq(Slot)
         /\ Cardinality(Slots(gs)) = Cardinality(Slots(fs)) - Cardinality(G)
         /\ Cardinality(Spares(gs)) = Cardinality(Spares(fs)) - Cardinality({i \in G : fs[i].avail})
         /\ Cardinality(G) \in Nat /\ Cardinality({i \in G : fs[i].avail}) \in Nat
         /\ Cardinality(Slots(gs)) \in Nat /\ Cardinality(Spares(gs)) \in Nat
<1> DEFINE A == {i \in G : fs[i].avail}
<1>1. gs \in Seq(Slot) /\ DOMAIN gs = DOMAIN fs
  BY Constants
<1>2. Slots(gs) = Slots(fs) \ G
  BY <1>1, Constants DEF Slots
<1>3. Spares(gs) = Spares(fs) \ A
  BY <1>1, <1>2, Constants DEF Spares, Slots
<1>4. G \subseteq DOMAIN fs /\ A \subseteq DOMAIN fs /\ Slots(fs) \subseteq DOMAIN fs /\ Spares(fs) \subseteq DOMAIN fs
  BY DEF Slots, Spares
<1>5. Slots(fs) \cap G = G /\ Spares(fs) \cap A = A
  BY DEF Slots, Spares
<1>6. Slots(gs) \subseteq DOMAIN gs /\ Spares(gs) \subseteq DOMAIN gs
  BY DEF Slots, Spares
<1> QED BY <1>1, <1>2, <1>3, <1>4, <1>5, <1>6, SlotsFinite, FS_Difference

\* One slot is filled, with a child or with what a failed fork returned.
LEMMA SlotFilled ==
  ASSUME filters \in Seq(Slot), NEW i \in DOMAIN filters, filters[i].pid \notin Pids,
         NEW e \in Slot, e.avail = TRUE,
         filters' = [filters EXCEPT ![i] = e]
  PROVE  /\ filters' \in Seq(Slot)
         /\ e.pid \in Pids => /\ Cardinality(Slots(filters')) = Cardinality(Slots(filters)) + 1
                               /\ Cardinality(Spares(filters')) = Cardinality(Spares(filters)) + 1
         /\ e.pid \notin Pids => /\ Cardinality(Slots(filters')) = Cardinality(Slots(filters))
                                  /\ Cardinality(Spares(filters')) = Cardinality(Spares(filters))
<1>1. filters' \in Seq(Slot) /\ DOMAIN filters' = DOMAIN filters
  BY DEF Slot
<1>2. i \notin Slots(filters) /\ i \notin Spares(filters)
  BY DEF Slots, Spares
<1>3. Slots(filters) \subseteq DOMAIN filters /\ Spares(filters) \subseteq DOMAIN filters
  BY DEF Slots, Spares
<1>4. CASE e.pid \in Pids
  <2>1. Slots(filters') = Slots(filters) \cup {i}
    BY <1>1, <1>4 DEF Slots
  <2>2. Spares(filters') = Spares(filters) \cup {i}
    BY <1>1, <1>4, <2>1 DEF Spares, Slots
  <2> QED BY <1>1, <1>2, <1>3, <1>4, <2>1, <2>2, SlotsFinite, FS_AddElement
<1>5. CASE e.pid \notin Pids
  <2>1. Slots(filters') = Slots(filters)
    BY <1>1, <1>2, <1>5 DEF Slots
  <2>2. Spares(filters') = Spares(filters)
    BY <1>1, <1>2, <1>5, <2>1 DEF Spares, Slots
  <2> QED BY <1>1, <1>3, <1>5, <2>1, <2>2, SlotsFinite
<1> QED BY <1>4, <1>5

LEMMA FirstFreeIsFree ==
  ASSUME TypeOK, FreeSlots # {}
  PROVE  FirstFree \in DOMAIN filters /\ filters[FirstFree].pid \notin Pids
<1>1. FreeSlots \in SUBSET Nat
  BY SlotsFinite DEF TypeOK, FreeSlots
<1>2. \E i \in FreeSlots : \A j \in FreeSlots : i <= j
  BY <1>1, FirstOf
<1>3. FirstFree \in FreeSlots
  BY <1>2 DEF FirstFree
<1> QED BY <1>3 DEF FreeSlots, Occupied

\* A step that leaves the slots alone and makes children of children.
LEMMA SlotsKept ==
  ASSUME Pool, TypeOK', filters' = filters, num_filters' = num_filters, spare_filters' = spare_filters,
         forkFailures' = forkFailures, phase' = "dead" \/ (phase # "dead" /\ Children' = Children)
  PROVE  Pool'
<1>1. Accounting'
  BY Counters DEF Pool
<1>2. ChildrenHaveSlots'
  BY DEF Pool, ChildrenHaveSlots, Occupied
<1> QED BY <1>1, <1>2 DEF Pool

LEMMA LoopTopKeeps == ASSUME Pool, LoopTop PROVE Pool'
<1> DEFINE gone == {i \in DOMAIN filters : Buried(i)}
<1>1. CASE BuryChilds
  <2>1. gone \in SUBSET Slots(filters)
    BY DEF Buried, Occupied, Slots
  <2>2. filters' = [i \in DOMAIN filters |-> IF i \in gone THEN FreeSlot ELSE filters[i]]
    BY <1>1 DEF BuryChilds
  <2>3. /\ filters' \in Seq(Slot)
        /\ num_filters' = Cardinality(Slots(filters')) + forkFailures
        /\ spare_filters' = Cardinality(Spares(filters')) + forkFailures
        /\ num_filters' \in Nat /\ spare_filters' \in Nat
    <3>1. /\ num_filters' = num_filters - Cardinality(gone)
          /\ spare_filters' = spare_filters - Cardinality({i \in gone : filters[i].avail})
      BY <1>1 DEF BuryChilds
    <3>2. /\ num_filters = Cardinality(Slots(filters)) + forkFailures
          /\ spare_filters = Cardinality(Spares(filters)) + forkFailures
      BY Counters DEF Pool
    <3>3. filters \in Seq(Slot) /\ forkFailures \in Nat /\ num_filters \in Nat /\ spare_filters \in Nat
      BY DEF Pool, TypeOK
    <3>4. Slots(filters) \subseteq DOMAIN filters /\ Spares(filters) \subseteq DOMAIN filters
      BY DEF Slots, Spares
    <3>5. Cardinality(Slots(filters)) \in Nat /\ Cardinality(Spares(filters)) \in Nat
      BY <3>3, <3>4, SlotsFinite
    <3> DEFINE A == {i \in gone : filters[i].avail}
    <3>6. /\ filters' \in Seq(Slot)
          /\ Cardinality(Slots(filters')) = Cardinality(Slots(filters)) - Cardinality(gone)
          /\ Cardinality(Spares(filters')) = Cardinality(Spares(filters)) - Cardinality(A)
          /\ Cardinality(gone) \in Nat /\ Cardinality(A) \in Nat
          /\ Cardinality(Slots(filters')) \in Nat /\ Cardinality(Spares(filters')) \in Nat
      <4> HIDE DEF gone
      <4> QED BY <2>1, <2>2, <3>3, SlotsFreed
    <3>7. num_filters' = num_filters - Cardinality(gone) /\ spare_filters' = spare_filters - Cardinality(A)
      BY <3>1
    <3> HIDE DEF gone, A
    <3>8. num_filters' = Cardinality(Slots(filters')) + forkFailures
      BY <3>2, <3>3, <3>5, <3>6, <3>7
    <3>9. spare_filters' = Cardinality(Spares(filters')) + forkFailures
      BY <3>2, <3>3, <3>5, <3>6, <3>7
    <3> QED BY <3>3, <3>6, <3>8, <3>9
  <2>4. procs' = [p \in Pids |-> IF p \in Zombies THEN NoProc ELSE procs[p]]
    BY <1>1 DEF BuryChilds
  <2>5. TypeOK'
    <3>1. procs' \in [Pids -> Proc]
      BY <2>4, Constants DEF Pool, TypeOK
    <3>2. delayed' \in BOOLEAN /\ childs_exited' \in BOOLEAN
      BY <1>1 DEF BuryChilds, Pool, TypeOK
    <3>3. /\ phase' \in {"bury", "spawn", "check", "reread", "spare", "stopped", "dead"}
          /\ UNCHANGED <<config, bound, pipe, pipeOpen, start, reread_configuration,
                 restart_filters, pending, bounds>>
      BY DEF LoopTop
    <3> QED BY <2>3, <3>1, <3>2, <3>3 DEF Pool, TypeOK, bounds
  <2>6. Accounting'
    BY <2>3, Counters DEF LoopTop, bounds
  <2>7. ChildrenHaveSlots'
    <3>1. phase # "dead"
      BY DEF LoopTop
    <3>2. DOMAIN filters' = DOMAIN filters
      BY <2>2
    <3>3. ASSUME NEW p \in Pids PROVE (p \in Children)' <=> p \in Running
      BY <2>4, <3>3 DEF Children, Running, Zombies, NoProc
    <3>4. ASSUME NEW p \in Pids, p \in Running PROVE \E i \in DOMAIN filters' : filters'[i].pid = p
      <4>1. PICK i \in DOMAIN filters : filters[i].pid = p
        BY <3>1, <3>4 DEF Pool, ChildrenHaveSlots, Children
      <4>2. p \notin Zombies
        BY <3>4 DEF Running, Zombies
      <4>3. i \notin gone
        BY <4>1, <4>2 DEF Buried
      <4> QED BY <2>2, <3>2, <4>1, <4>3
    <3>5. ASSUME NEW p \in Pids, NEW i \in DOMAIN filters', filters'[i].pid = p
          PROVE  i \in DOMAIN filters /\ filters[i].pid = p /\ p \in Running
      <4>1. i \notin gone /\ filters[i].pid = p
        BY <2>2, <3>5, Constants
      <4>2. p \notin Zombies
        BY <3>2, <4>1 DEF Buried, Occupied
      <4>3. p \in Children
        BY <3>1, <3>2, <4>1 DEF Pool, ChildrenHaveSlots
      <4> QED BY <3>2, <4>1, <4>2, <4>3 DEF Children
    <3>6. ASSUME NEW i \in DOMAIN filters', NEW j \in DOMAIN filters', Occupied(i)',
                 filters'[i].pid = filters'[j].pid
          PROVE  i = j
      <4>1. filters'[i].pid \in Pids
        BY <3>6 DEF Occupied
      <4>2. /\ i \in DOMAIN filters /\ filters[i].pid = filters'[i].pid
            /\ j \in DOMAIN filters /\ filters[j].pid = filters'[i].pid
        BY <3>5, <3>6, <4>1
      <4> QED BY <3>1, <4>1, <4>2 DEF Pool, ChildrenHaveSlots, Occupied
    <3>7. \A p \in Pids : (p \in Children)' <=> \E i \in DOMAIN filters' : filters'[i].pid = p
      BY <3>3, <3>4, <3>5
    <3>8. \A i, j \in DOMAIN filters' : Occupied(i)' /\ filters'[i].pid = filters'[j].pid => i = j
      BY <3>6
    <3> QED BY <3>7, <3>8 DEF ChildrenHaveSlots
  <2> QED BY <2>5, <2>6, <2>7 DEF Pool
<1>2. CASE ~BuryChilds
  <2>1. UNCHANGED <<num_filters, spare_filters, filters, delayed, procs, childs_exited>>
    BY <1>2 DEF LoopTop
  <2>2. TypeOK'
    BY <2>1 DEF Pool, TypeOK, LoopTop, bounds
  <2>3. phase # "dead" /\ Children' = Children
    BY <2>1 DEF LoopTop, Children, Running, Zombies
  <2> QED BY <2>1, <2>2, <2>3, SlotsKept DEF LoopTop, bounds
<1> QED BY <1>1, <1>2

\* A status changes what is believed of one slot.
LEMMA StatusApplied ==
  ASSUME Pool, NEW s \in Status, ApplyStatus(s)
  PROVE  /\ filters' \in Seq(Slot) /\ DOMAIN filters' = DOMAIN filters
         /\ \A i \in DOMAIN filters : filters'[i].pid = filters[i].pid
         /\ \A i \in DOMAIN filters : filters[i].pid # s.pid => filters'[i] = filters[i]
         /\ \A i \in DOMAIN filters : phase # "dead" /\ filters[i].pid = s.pid => filters'[i].avail = s.avail
         /\ Cardinality(Slots(filters')) = Cardinality(Slots(filters))
         /\ spare_filters' \in Nat
         /\ spare_filters' = Cardinality(Spares(filters')) + forkFailures
<1> DEFINE hit == {i \in DOMAIN filters : filters[i].pid = s.pid}
<1>0. /\ filters \in Seq(Slot) /\ forkFailures \in Nat /\ spare_filters \in Nat
      /\ spare_filters = Cardinality(Spares(filters)) + forkFailures
      /\ s.pid \in Pids /\ s.avail \in BOOLEAN
  BY Counters DEF Pool, TypeOK, Status
<1>1. CASE hit = {}
  <2>1. filters' = filters /\ spare_filters' = spare_filters
    BY <1>1 DEF ApplyStatus
  <2> QED BY <1>0, <1>1, <2>1
<1>2. CASE hit # {}
  <2> DEFINE i == CHOOSE k \in hit : \A j \in hit : k <= j
  <2>1. i \in hit
    <3>1. hit \in SUBSET Nat
      BY <1>0, SlotsFinite
    <3> QED BY <1>2, <3>1, FirstOf
  <2>2. /\ filters' = [filters EXCEPT ![i] = [pid |-> s.pid, avail |-> s.avail, used |-> filters[i].used \/ ~s.avail]]
        /\ spare_filters' = IF s.avail = filters[i].avail THEN spare_filters
                            ELSE IF s.avail THEN spare_filters + 1 ELSE spare_filters - 1
    BY <1>2 DEF ApplyStatus
  <2>3. i \in DOMAIN filters /\ filters[i].pid = s.pid
    BY <2>1
  <2> HIDE DEF i
  <2>4. /\ filters' \in Seq(Slot) /\ DOMAIN filters' = DOMAIN filters
        /\ \A k \in DOMAIN filters : filters'[k].pid = filters[k].pid
        /\ \A k \in DOMAIN filters : k # i => filters'[k] = filters[k]
        /\ filters'[i].avail = s.avail /\ filters[i].avail \in BOOLEAN
    <3> DEFINE e == [pid |-> s.pid, avail |-> s.avail, used |-> filters[i].used \/ ~s.avail]
    <3>1. filters[i] \in Slot
      BY <1>0, <2>3
    <3>2. e \in Slot /\ e.pid = s.pid /\ e.avail = s.avail
      BY <1>0, <3>1 DEF Slot
    <3>3. filters' = [filters EXCEPT ![i] = e]
      BY <2>2
    <3> HIDE DEF e
    <3> QED BY <1>0, <2>3, <3>1, <3>2, <3>3 DEF Slot
  <2>5. Slots(filters') = Slots(filters) /\ i \in Slots(filters)
    BY <1>0, <2>3, <2>4 DEF Slots
  <2>6. Spares(filters) \subseteq DOMAIN filters
    BY DEF Spares, Slots
  <2>6a. IsFiniteSet(Spares(filters)) /\ Cardinality(Spares(filters)) \in Nat
    BY <1>0, <2>6, SlotsFinite
  <2>7. ASSUME s.avail = filters[i].avail
       PROVE  spare_filters' \in Nat /\ spare_filters' = Cardinality(Spares(filters')) + forkFailures
    <3>1. Spares(filters') = Spares(filters)
      BY <2>4, <2>5, <2>7 DEF Spares, Slots
    <3>2. spare_filters' = spare_filters
      BY <2>2, <2>7
    <3> QED BY <1>0, <3>1, <3>2
  <2>8. ASSUME s.avail /\ ~filters[i].avail
       PROVE  spare_filters' \in Nat /\ spare_filters' = Cardinality(Spares(filters')) + forkFailures
    <3>1. Spares(filters') = Spares(filters) \cup {i} /\ i \notin Spares(filters)
      BY <2>4, <2>5, <2>8 DEF Spares, Slots
    <3>2. spare_filters' = spare_filters + 1
      BY <2>2, <2>8
    <3>3. Cardinality(Spares(filters')) = Cardinality(Spares(filters)) + 1
      BY <2>6a, <3>1, FS_AddElement
    <3> QED BY <1>0, <2>6a, <3>2, <3>3
  <2>9. ASSUME ~s.avail /\ filters[i].avail
       PROVE  spare_filters' \in Nat /\ spare_filters' = Cardinality(Spares(filters')) + forkFailures
    <3>1. Spares(filters') = Spares(filters) \ {i} /\ i \in Spares(filters)
      BY <2>4, <2>5, <2>9 DEF Spares, Slots
    <3>2. spare_filters' = spare_filters - 1
      BY <2>2, <2>9
    <3>3. Cardinality(Spares(filters')) = Cardinality(Spares(filters)) - 1
      BY <2>6a, <3>1, FS_RemoveElement
    <3>4. Cardinality(Spares(filters')) \in Nat
      BY <2>6a, <3>1, FS_RemoveElement, FS_CardinalityType
    <3> QED BY <1>0, <2>6a, <3>2, <3>3, <3>4
  <2>10. spare_filters' \in Nat /\ spare_filters' = Cardinality(Spares(filters')) + forkFailures
    BY <1>0, <2>4, <2>7, <2>8, <2>9
  <2>11. \A k \in DOMAIN filters : filters[k].pid # s.pid => filters'[k] = filters[k]
    BY <2>3, <2>4
  <2>12. \A k \in DOMAIN filters : phase # "dead" /\ filters[k].pid = s.pid => filters'[k].avail = s.avail
    <3>1. ASSUME NEW k \in DOMAIN filters, phase # "dead", filters[k].pid = s.pid PROVE k = i
      BY <1>0, <2>3, <3>1 DEF Pool, ChildrenHaveSlots, Occupied
    <3> QED BY <2>4, <3>1
  <2> QED BY <2>4, <2>5, <2>10, <2>11, <2>12
<1> QED BY <1>1, <1>2

LEMMA CheckKeeps == ASSUME Pool, CheckFilterStatuses PROVE Pool'
<1>1. pipe \in Seq(Status) /\ (pipe # <<>> => Head(pipe) \in Status /\ Tail(pipe) \in Seq(Status))
  BY DEF Pool, TypeOK
<1>2. CASE pipe = <<>>
  <2>1. UNCHANGED <<pipe, filters, spare_filters>>
    BY <1>2 DEF CheckFilterStatuses
  <2>2. TypeOK'
    BY <2>1 DEF CheckFilterStatuses, Pool, TypeOK, flags, bounds
  <2> QED BY <2>1, <2>2, SlotsKept DEF CheckFilterStatuses, flags, bounds, Children, Running, Zombies
<1>3. CASE pipe # <<>>
  <2>1. ApplyStatus(Head(pipe)) /\ pipe' = Tail(pipe)
    BY <1>3 DEF CheckFilterStatuses
  <2>2. /\ filters' \in Seq(Slot) /\ DOMAIN filters' = DOMAIN filters
        /\ \A i \in DOMAIN filters : filters'[i].pid = filters[i].pid
        /\ Cardinality(Slots(filters')) = Cardinality(Slots(filters))
        /\ spare_filters' \in Nat
        /\ spare_filters' = Cardinality(Spares(filters')) + forkFailures
    BY <1>1, <1>3, <2>1, StatusApplied
  <2>3. TypeOK'
    BY <1>1, <1>3, <2>1, <2>2 DEF CheckFilterStatuses, Pool, TypeOK, flags, bounds
  <2>4. Accounting'
    BY <2>2, Counters DEF CheckFilterStatuses, Pool, bounds
  <2>5. ChildrenHaveSlots'
    BY <2>2 DEF CheckFilterStatuses, Pool, ChildrenHaveSlots, Occupied, Children, Running, Zombies, flags
  <2> QED BY <2>3, <2>4, <2>5 DEF Pool
<1> QED BY <1>2, <1>3

LEMMA SpawnKeeps ==
  ASSUME Pool, (\E p \in Pids : SpawnFilter(p)) \/ SpawnFails
  PROVE  Pool'
<1>1. phase = "spawn" /\ MaySpawn
  BY DEF SpawnFilter, SpawnFails
<1>2. FirstFree \in DOMAIN filters /\ filters[FirstFree].pid \notin Pids /\ filters \in Seq(Slot)
  BY <1>1, FirstFreeIsFree DEF MaySpawn, Pool, TypeOK
<1>3. /\ num_filters \in Nat /\ spare_filters \in Nat /\ start \in Nat /\ start > 0 /\ forkFailures \in Nat
      /\ num_filters = Cardinality(Slots(filters)) + forkFailures
      /\ spare_filters = Cardinality(Spares(filters)) + forkFailures
  BY <1>1, Counters DEF MaySpawn, Pool, TypeOK
<1>4. Cardinality(Slots(filters)) \in Nat /\ Cardinality(Spares(filters)) \in Nat
  BY <1>2, SlotsFinite DEF Slots, Spares
<1>5. ASSUME NEW p \in Pids, SpawnFilter(p) PROVE Pool'
  <2>1. filters' = [filters EXCEPT ![FirstFree] = [pid |-> p, avail |-> TRUE, used |-> FALSE]]
    BY <1>5 DEF SpawnFilter, FillSlot
  <2>2. /\ num_filters' = num_filters + 1 /\ spare_filters' = spare_filters + 1 /\ start' = start - 1
        /\ forkFailures' = forkFailures /\ phase' = "check"
        /\ procs' = [procs EXCEPT ![p] = [NoProc EXCEPT !.st = "starting", !.linked = TRUE, !.sock = bound]]
        /\ procs[p].st = "none"
    BY <1>5 DEF SpawnFilter, FillSlot
  <2>3. /\ filters' \in Seq(Slot)
        /\ Cardinality(Slots(filters')) = Cardinality(Slots(filters)) + 1
        /\ Cardinality(Spares(filters')) = Cardinality(Spares(filters)) + 1
    <3> DEFINE e == [pid |-> p, avail |-> TRUE, used |-> FALSE]
    <3>1. e \in Slot /\ e.avail = TRUE /\ e.pid \in Pids
      BY DEF Slot
    <3>2. filters' = [filters EXCEPT ![FirstFree] = e]
      BY <2>1
    <3> HIDE DEF e
    <3>3. FirstFree \in DOMAIN filters /\ filters[FirstFree].pid \notin Pids
      BY <1>2
    <3> QED BY <1>2, <3>1, <3>2, <3>3, SlotFilled
  <2>4. TypeOK'
    <3>1. procs' \in [Pids -> Proc]
      <4>1. [NoProc EXCEPT !.st = "starting", !.linked = TRUE, !.sock = bound] \in Proc
        BY Constants DEF Proc, Pool, TypeOK
      <4> QED BY <2>2, <4>1 DEF Pool, TypeOK
    <3>2. num_filters' \in Nat /\ spare_filters' \in Nat /\ start' \in Nat /\ forkFailures' \in Nat
      BY <1>3, <2>2
    <3>3. UNCHANGED <<config, bound, pipe, pipeOpen, pending, signals>>
      BY <1>5 DEF SpawnFilter, FillSlot
    <3>4. /\ delayed' \in BOOLEAN /\ childs_exited' \in BOOLEAN
          /\ reread_configuration' \in BOOLEAN /\ restart_filters' \in BOOLEAN
      BY <1>5 DEF SpawnFilter, FillSlot, flags, Pool, TypeOK
    <3>5. /\ phase' \in {"bury", "spawn", "check", "reread", "spare", "stopped", "dead"}
          /\ config' \in RawConfig /\ bound' \in Addresses /\ pipe' \in Seq(Status)
          /\ pipeOpen' \in BOOLEAN /\ pending' \in [Addresses -> Nat] /\ signals' \in Nat
      BY <2>2, <3>3 DEF Pool, TypeOK
    <3> QED BY <2>2, <2>3, <3>1, <3>2, <3>3, <3>4, <3>5, Zenon DEF TypeOK
  <2>5. Accounting'
    <3>1. num_filters' = Cardinality(Slots(filters')) + forkFailures'
      BY <1>3, <1>4, <2>2, <2>3
    <3>2. spare_filters' = Cardinality(Spares(filters')) + forkFailures'
      BY <1>3, <1>4, <2>2, <2>3
    <3> QED BY <3>1, <3>2, Counters
  <2>6. ChildrenHaveSlots'
    <3>1. p \notin Children /\ \A i \in DOMAIN filters : filters[i].pid # p
      BY <1>1, <2>2 DEF Pool, ChildrenHaveSlots, Children, Running, Zombies
    <3>2. Children' = Children \cup {p}
      BY <2>2 DEF Children, Running, Zombies, Pool, TypeOK
    <3>3. /\ DOMAIN filters' = DOMAIN filters /\ filters'[FirstFree].pid = p
          /\ \A i \in DOMAIN filters : i # FirstFree => filters'[i] = filters[i]
      BY <1>2, <2>1
    <3>4. \A q \in Pids : q \in Children <=> \E i \in DOMAIN filters : filters[i].pid = q
      BY <1>1 DEF Pool, ChildrenHaveSlots
    <3>5. \A q \in Pids : q \in Children' <=> \E i \in DOMAIN filters' : filters'[i].pid = q
      BY <1>2, <3>1, <3>2, <3>3, <3>4
    <3>6. \A i, j \in DOMAIN filters' : Occupied(i)' /\ filters'[i].pid = filters'[j].pid => i = j
      BY <1>1, <1>2, <3>1, <3>3 DEF Pool, ChildrenHaveSlots, Occupied
    <3> QED BY <3>5, <3>6 DEF ChildrenHaveSlots
  <2> QED BY <2>4, <2>5, <2>6 DEF Pool
<1>6. ASSUME SpawnFails PROVE Pool'
  <2>1. filters' = [filters EXCEPT ![FirstFree] = [pid |-> -1, avail |-> TRUE, used |-> FALSE]]
    BY <1>6 DEF SpawnFails, FillSlot
  <2>2. /\ num_filters' = num_filters + 1 /\ spare_filters' = spare_filters + 1 /\ start' = start - 1
        /\ forkFailures' = forkFailures + 1 /\ phase' = "check" /\ procs' = procs
    BY <1>6 DEF SpawnFails, FillSlot
  <2>3. /\ filters' \in Seq(Slot)
        /\ Cardinality(Slots(filters')) = Cardinality(Slots(filters))
        /\ Cardinality(Spares(filters')) = Cardinality(Spares(filters))
    <3> DEFINE e == [pid |-> -1, avail |-> TRUE, used |-> FALSE]
    <3>1. e \in Slot /\ e.avail = TRUE /\ e.pid \notin Pids
      BY Constants DEF Slot
    <3>2. filters' = [filters EXCEPT ![FirstFree] = e]
      BY <2>1
    <3> HIDE DEF e
    <3>3. FirstFree \in DOMAIN filters /\ filters[FirstFree].pid \notin Pids
      BY <1>2
    <3> QED BY <1>2, <3>1, <3>2, <3>3, SlotFilled
  <2>4. TypeOK'
    BY <1>3, <1>6, <2>2, <2>3 DEF SpawnFails, FillSlot, Pool, TypeOK, flags
  <2>5. Accounting'
    <3>1. num_filters' = Cardinality(Slots(filters')) + forkFailures'
      BY <1>3, <1>4, <2>2, <2>3
    <3>2. spare_filters' = Cardinality(Spares(filters')) + forkFailures'
      BY <1>3, <1>4, <2>2, <2>3
    <3> QED BY <3>1, <3>2, Counters
  <2>6. ChildrenHaveSlots'
    <3>1. /\ DOMAIN filters' = DOMAIN filters /\ filters'[FirstFree].pid = -1
          /\ \A i \in DOMAIN filters : i # FirstFree => filters'[i] = filters[i]
      BY <1>2, <2>1
    <3>2. Children' = Children
      BY <2>2 DEF Children, Running, Zombies
    <3> QED BY <1>1, <1>2, <3>1, <3>2, Constants DEF Pool, ChildrenHaveSlots, Occupied
  <2> QED BY <2>4, <2>5, <2>6 DEF Pool
<1> QED BY <1>5, <1>6

\* Slots that are added are free.
LEMMA SlotsAdded ==
  ASSUME filters \in Seq(Slot), NEW n \in Nat, n >= Len(filters),
         filters' = [i \in 1..n |-> IF i \in DOMAIN filters THEN filters[i] ELSE FreeSlot]
  PROVE  /\ filters' \in Seq(Slot) /\ DOMAIN filters' = 1..n /\ DOMAIN filters \subseteq DOMAIN filters'
         /\ \A i \in DOMAIN filters : filters'[i] = filters[i]
         /\ \A i \in DOMAIN filters' : filters'[i].pid \in Pids => i \in DOMAIN filters
         /\ Slots(filters') = Slots(filters) /\ Spares(filters') = Spares(filters)
<1>1. filters' \in Seq(Slot) /\ DOMAIN filters' = 1..n
  BY Constants
<1>2. DOMAIN filters = 1..Len(filters) /\ Len(filters) \in Nat
  OBVIOUS
<1>3. DOMAIN filters \subseteq DOMAIN filters'
  BY <1>1, <1>2
<1>4. \A i \in DOMAIN filters : filters'[i] = filters[i]
  BY <1>1, <1>3
<1>5. \A i \in DOMAIN filters' : filters'[i].pid \in Pids => i \in DOMAIN filters
  BY <1>1, Constants
<1>6. Slots(filters') = Slots(filters)
  BY <1>3, <1>4, <1>5 DEF Slots
<1>7. Spares(filters') = Spares(filters)
  BY <1>3, <1>4, <1>6 DEF Spares, Slots
<1> QED BY <1>1, <1>3, <1>4, <1>5, <1>6, <1>7

\* A hangup makes no new child and buries none.
LEMMA HupKeeps ==
  ASSUME TypeOK, NEW killed \in SUBSET {p \in Pids : procs[p].st = "starting"}
  PROVE  /\ HupFilters(killed) \in [Pids -> Proc]
         /\ \A p \in Pids : HupFilters(killed)[p].st = "none" <=> procs[p].st = "none"
<1>1. \A p \in Pids : procs[p] \in Proc
  BY DEF TypeOK
<1>2. \A p \in Pids : /\ [procs[p] EXCEPT !.st = "zombie", !.error = TRUE] \in Proc
                      /\ [procs[p] EXCEPT !.graceful = TRUE] \in Proc
  BY <1>1 DEF Proc
<1>3. \A p \in Pids : HupFilters(killed)[p] \in Proc
  BY <1>1, <1>2 DEF HupFilters
<1>4. \A p \in Pids : HupFilters(killed)[p].st = "none" <=> procs[p].st = "none"
  BY <1>1 DEF HupFilters, Proc
<1> QED BY <1>3, <1>4 DEF HupFilters

\* The children are those whose process there is.
LEMMA ChildrenAre ==
  /\ TypeOK => Children = {p \in Pids : procs[p].st # "none"}
  /\ TypeOK' => Children' = {p \in Pids : procs'[p].st # "none"}
BY DEF TypeOK, Children, Running, Zombies, Proc

\* What a reload does to the slots and the processes.
Reloaded ==
  /\ filters' \in Seq(Slot) /\ config' \in RawConfig /\ bound' \in Addresses /\ pipe' \in Seq(Status)
  /\ pipeOpen' \in BOOLEAN /\ pending' \in [Addresses -> Nat] /\ procs' \in [Pids -> Proc]
  /\ \A p \in Pids : procs'[p].st = "none" <=> procs[p].st = "none"
  /\ DOMAIN filters \subseteq DOMAIN filters'
  /\ \A i \in DOMAIN filters : filters'[i] = filters[i]
  /\ \A i \in DOMAIN filters' : filters'[i].pid \in Pids => i \in DOMAIN filters
  /\ Slots(filters') = Slots(filters) /\ Spares(filters') = Spares(filters)

LEMMA RereadKeeps == ASSUME Pool, RereadConfig PROVE Pool'
<1>1. PICK killed \in SUBSET {p \in Pids : procs[p].st = "starting"} :
        LET hupped == IF restart_filters THEN HupFilters(killed) ELSE procs
        IN  /\ childs_exited' = (childs_exited \/ killed # {})
            /\ \/ \E f \in ConfigFiles, binds, ok \in BOOLEAN : LoadConfig(CheckValues(f), hupped, binds, ok)
               \/ /\ procs' = hupped
                  /\ pending' = Backlogged(bound, hupped)
                  /\ UNCHANGED <<bound, config, filters, pipeOpen, pipe>>
  <2>1. (IF restart_filters THEN SUBSET {p \in Pids : procs[p].st = "starting"} ELSE {{}})
           \subseteq SUBSET {p \in Pids : procs[p].st = "starting"}
    OBVIOUS
  <2> QED BY <2>1 DEF RereadConfig
<1> DEFINE hupped == IF restart_filters THEN HupFilters(killed) ELSE procs
<1>2. /\ hupped \in [Pids -> Proc]
      /\ \A p \in Pids : hupped[p].st = "none" <=> procs[p].st = "none"
  BY HupKeeps DEF Pool, TypeOK
<1>3. /\ childs_exited' = (childs_exited \/ killed # {})
      /\ \/ \E f \in ConfigFiles, binds, ok \in BOOLEAN : LoadConfig(CheckValues(f), hupped, binds, ok)
         \/ /\ procs' = hupped
            /\ pending' = Backlogged(bound, hupped)
            /\ UNCHANGED <<bound, config, filters, pipeOpen, pipe>>
  BY <1>1
<1> HIDE DEF hupped
<1>4. /\ phase = "reread" /\ phase' = "spare" /\ reread_configuration' = FALSE /\ restart_filters' = FALSE
      /\ UNCHANGED <<num_filters, spare_filters, start, delayed, signals, forkFailures>>
  BY DEF RereadConfig, counters, bounds
<1>5. Reloaded
  <2>1. ASSUME NEW f \in ConfigFiles, NEW binds \in BOOLEAN, NEW ok \in BOOLEAN,
               LoadConfig(CheckValues(f), hupped, binds, ok)
        PROVE  Reloaded
    <3> DEFINE c == CheckValues(f)
               restart == restart_filters \/ NewListen(c, binds) # bound
               n == IF c.max > Len(filters) THEN c.max ELSE Len(filters)
    <3>1. c \in RawConfig
      BY Constants, ConfigAssumption
    <3>2. c.max \in Nat /\ c.listen \in Addresses
      BY <3>1 DEF RawConfig
    <3>3. NewListen(c, binds) \in Addresses
      BY <3>2 DEF NewListen, Pool, TypeOK
    <3>4. filters \in Seq(Slot) /\ n \in Nat /\ n >= Len(filters)
      BY <3>2 DEF Pool, TypeOK
    <3>5. /\ filters' \in Seq(Slot) /\ DOMAIN filters \subseteq DOMAIN filters'
          /\ \A i \in DOMAIN filters : filters'[i] = filters[i]
          /\ \A i \in DOMAIN filters' : filters'[i].pid \in Pids => i \in DOMAIN filters
          /\ Slots(filters') = Slots(filters) /\ Spares(filters') = Spares(filters)
      <4>1. filters' = [i \in 1..n |-> IF i \in DOMAIN filters THEN filters[i] ELSE FreeSlot]
        BY <2>1 DEF LoadConfig
      <4> HIDE DEF n
      <4> QED BY <3>4, <4>1, SlotsAdded
    <3>6. /\ bound' = NewListen(c, binds) /\ config' = c
          /\ pipeOpen' = (restart => ok)
          /\ pipe' = IF restart THEN <<>> ELSE pipe
          /\ procs' = [p \in Pids |-> [hupped[p] EXCEPT !.linked = @ /\ ~restart]]
          /\ pending' = Backlogged(NewListen(c, binds), procs')
      BY <2>1 DEF LoadConfig
    <3> HIDE DEF c, restart, n
    <3>7. procs' \in [Pids -> Proc] /\ \A p \in Pids : procs'[p].st = hupped[p].st
      <4>1. ASSUME NEW p \in Pids
            PROVE  procs'[p] \in Proc /\ procs'[p].st = hupped[p].st
        <5>1. hupped[p] \in Proc
          BY <1>2
        <5> DEFINE b == hupped[p].linked /\ ~restart
        <5>2. b \in BOOLEAN
          OBVIOUS
        <5>3. procs'[p] = [hupped[p] EXCEPT !.linked = b]
          BY <3>6
        <5> HIDE DEF b
        <5> QED BY <5>1, <5>2, <5>3 DEF Proc
      <4>2. procs' = [p \in Pids |-> procs'[p]]
        BY <3>6
      <4> QED BY <4>1, <4>2
    <3>8. pending' \in [Addresses -> Nat]
      BY <3>6, BackloggedType DEF Pool, TypeOK
    <3>9. pipe' \in Seq(Status) /\ pipeOpen' \in BOOLEAN
      BY <3>6 DEF Pool, TypeOK
    <3> QED BY <1>2, <3>1, <3>3, <3>5, <3>6, <3>7, <3>8, <3>9 DEF Reloaded
  <2>2. ASSUME procs' = hupped, pending' = Backlogged(bound, hupped), UNCHANGED <<bound, config, filters, pipeOpen, pipe>>
        PROVE  Reloaded
    <3>1. pending' \in [Addresses -> Nat]
      BY <2>2, BackloggedType DEF Pool, TypeOK
    <3>2. \A i \in DOMAIN filters : filters[i].pid \in Pids => i \in DOMAIN filters
      OBVIOUS
    <3> QED BY <1>2, <2>2, <3>1, <3>2 DEF Pool, TypeOK, Reloaded
  <2> QED BY <1>3, <2>1, <2>2
<1>6. TypeOK'
  BY <1>3, <1>4, <1>5 DEF Pool, TypeOK, Reloaded
<1>7. Accounting'
  BY <1>4, <1>5, Counters DEF Pool, Reloaded
<1>8. ChildrenHaveSlots'
  <2>1. Children' = Children
    BY <1>5, <1>6, ChildrenAre DEF Pool, Reloaded
  <2> QED BY <1>4, <1>5, <2>1 DEF Pool, ChildrenHaveSlots, Occupied, Reloaded
<1> QED BY <1>6, <1>7, <1>8 DEF Pool

\* A step of one filter: it may start to serve, or end, and stays a child until it is buried.
LEMMA FilterKeeps ==
  ASSUME Pool, NEW p \in Pids, Started(p) \/ Filter(p)
  PROVE  Pool'
<1>1. procs[p] \in Proc /\ procs[p].st # "none" /\ procs \in [Pids -> Proc]
  BY DEF Pool, TypeOK, Started, Filter, IdleTurn, Accept, Finish, Crash
<1>2. FilterUnchanged
  BY DEF Started, Filter, IdleTurn, Accept, Finish, Crash
<1>3. PICK q \in Proc : procs' = [procs EXCEPT ![p] = q] /\ q.st # "none"
  <2>1. ASSUME NEW leave, EndTurn(p, leave)
        PROVE  \E q \in Proc : procs' = [procs EXCEPT ![p] = q] /\ q.st # "none"
    <3>1. CASE leave \/ procs[p].count + 1 >= MaxRequests
      <4>1. procs' = [procs EXCEPT ![p] = [procs[p] EXCEPT !.st = "zombie"]]
        BY <2>1, <3>1 DEF EndTurn
      <4>2. [procs[p] EXCEPT !.st = "zombie"] \in Proc /\ [procs[p] EXCEPT !.st = "zombie"].st # "none"
        BY <1>1 DEF Proc
      <4> QED BY <4>1, <4>2
    <3>2. CASE ~(leave \/ procs[p].count + 1 >= MaxRequests)
      <4> DEFINE q == [procs[p] EXCEPT !.st = "idle", !.count = procs[p].count + 1]
      <4>1. procs' = [procs EXCEPT ![p] = q]
        BY <1>1, <2>1, <3>2 DEF EndTurn
      <4>2. procs[p].count \in Nat /\ procs[p].count + 1 \in 0..MaxRequests
        BY <1>1, <3>2, BoundAssumption DEF Proc
      <4>3. q \in Proc /\ q.st # "none"
        BY <1>1, <4>2 DEF Proc
      <4> QED BY <4>1, <4>3
    <3> QED BY <3>1, <3>2
  <2>2. ASSUME Started(p)
        PROVE  \E q \in Proc : procs' = [procs EXCEPT ![p] = q] /\ q.st # "none"
    <3>1. procs' = [procs EXCEPT ![p] = [procs[p] EXCEPT !.st = "idle"]]
      BY <2>2 DEF Started
    <3>2. [procs[p] EXCEPT !.st = "idle"] \in Proc /\ [procs[p] EXCEPT !.st = "idle"].st # "none"
      BY <1>1 DEF Proc
    <3> QED BY <3>1, <3>2
  <2>3. ASSUME Accept(p)
        PROVE  \E q \in Proc : procs' = [procs EXCEPT ![p] = q] /\ q.st # "none"
    <3> DEFINE g == procs[p].graceful \/ ~CanReport(p)
               q == [procs[p] EXCEPT !.st = "serving", !.graceful = g]
    <3>1. procs' = [procs EXCEPT ![p] = q]
      BY <1>1, <2>3 DEF Accept
    <3>2. g \in BOOLEAN
      OBVIOUS
    <3>3. q \in Proc /\ q.st # "none"
      <4> HIDE DEF g
      <4> QED BY <1>1, <3>2 DEF Proc
    <3> QED BY <3>1, <3>3
  <2>4. ASSUME Crash(p)
        PROVE  \E q \in Proc : procs' = [procs EXCEPT ![p] = q] /\ q.st # "none"
    <3> DEFINE q == [procs[p] EXCEPT !.st = "zombie", !.error = TRUE]
    <3>1. procs' = [procs EXCEPT ![p] = q]
      BY <1>1, <2>4 DEF Crash
    <3>2. q \in Proc /\ q.st # "none"
      BY <1>1 DEF Proc
    <3> QED BY <3>1, <3>2
  <2> QED BY <2>1, <2>2, <2>3, <2>4 DEF Filter, IdleTurn, Finish
<1>4. pipe' \in Seq(Status)
  <2>1. ASSUME NEW avail \in BOOLEAN, Report(p, avail) PROVE pipe' \in Seq(Status)
    <3> DEFINE s == [pid |-> p, avail |-> avail]
    <3>1. s \in Status /\ pipe \in Seq(Status)
      BY DEF Status, Pool, TypeOK
    <3>2. pipe' = pipe \/ pipe' = Append(pipe, s)
      BY <2>1 DEF Report
    <3> HIDE DEF s
    <3> QED BY <3>1, <3>2
  <2> QED BY <2>1 DEF Started, Filter, IdleTurn, Accept, Finish, Crash, Pool, TypeOK
<1>5. pending' \in [Addresses -> Nat]
  <2>1. ASSUME Accept(p) PROVE pending' \in [Addresses -> Nat]
    <3>1. procs[p].sock \in Addresses
      BY <1>1 DEF Proc
    <3> QED BY <2>1, <3>1 DEF Accept, Pool, TypeOK
  <2>2. ASSUME NEW leave, EndTurn(p, leave) PROVE pending' \in [Addresses -> Nat]
    <3>1. pending' = pending \/ pending' = Backlogged(bound, procs')
      BY <2>2 DEF EndTurn
    <3> QED BY <3>1, BackloggedType DEF Pool, TypeOK
  <2>3. ASSUME Started(p) \/ Crash(p) PROVE pending' \in [Addresses -> Nat]
    <3>1. pending' = pending \/ pending' = Backlogged(bound, procs')
      BY <2>3 DEF Started, Crash
    <3> QED BY <3>1, BackloggedType DEF Pool, TypeOK
  <2> QED BY <2>1, <2>2, <2>3 DEF Filter, IdleTurn, Finish
<1>6. childs_exited' \in BOOLEAN
  BY DEF Started, Filter, IdleTurn, Accept, Finish, Crash, EndTurn, Pool, TypeOK
<1>7. procs' \in [Pids -> Proc] /\ \A r \in Pids : procs'[r].st = "none" <=> procs[r].st = "none"
  BY <1>1, <1>3
<1>8. TypeOK'
  BY <1>2, <1>4, <1>5, <1>6, <1>7 DEF Pool, TypeOK, FilterUnchanged, counters, bounds
<1>9. Children' = Children
  BY <1>7, <1>8, ChildrenAre DEF Pool
<1>10. UNCHANGED <<filters, num_filters, spare_filters, forkFailures, phase>>
  BY <1>2 DEF FilterUnchanged, counters, bounds
<1>11. Accounting'
  BY <1>10, Counters DEF Pool
<1>12. ChildrenHaveSlots'
  BY <1>9, <1>10 DEF Pool, ChildrenHaveSlots, Occupied
<1> QED BY <1>8, <1>11, <1>12 DEF Pool

\* The steps that touch neither slots nor processes, and the end of the master.
LEMMA OthersKeep ==
  ASSUME Pool, \/ NoSpawn \/ NoReread \/ KeepSpare \/ ClockPasses \/ Death
               \/ (\E hup \in BOOLEAN : Signal(hup)) \/ (\E a \in Addresses : Connect(a))
               \/ UNCHANGED vars
  PROVE  Pool'
<1>1. CASE Death
  <2>1. TypeOK'
    BY <1>1, Constants DEF Death, Pool, TypeOK, counters, flags, bounds
  <2> QED BY <1>1, <2>1, SlotsKept DEF Death, counters, bounds
<1>2. CASE NoSpawn \/ NoReread \/ ClockPasses \/ UNCHANGED vars
  <2>1. TypeOK'
    BY <1>2 DEF NoSpawn, NoReread, ClockPasses, vars, Pool, TypeOK, counters, flags, bounds
  <2>2. UNCHANGED <<filters, num_filters, spare_filters, forkFailures, procs>> /\ (phase' = "dead" <=> phase = "dead")
    BY <1>2 DEF NoSpawn, NoReread, ClockPasses, vars, counters, flags, bounds
  <2> QED BY <2>1, <2>2, SlotsKept DEF Children, Running, Zombies
<1>3. CASE KeepSpare
  <2>1. TypeOK'
    BY <1>3 DEF KeepSpare, Pool, TypeOK, flags, bounds
  <2>2. UNCHANGED <<filters, num_filters, spare_filters, forkFailures, procs>> /\ phase # "dead"
    BY <1>3 DEF KeepSpare, bounds
  <2> QED BY <2>1, <2>2, SlotsKept DEF Children, Running, Zombies
<1>4. ASSUME NEW hup \in BOOLEAN, Signal(hup) PROVE Pool'
  <2>1. TypeOK'
    BY <1>4 DEF Signal, Pool, TypeOK, counters
  <2>2. UNCHANGED <<filters, num_filters, spare_filters, forkFailures, procs, phase>> /\ phase # "dead"
    BY <1>4 DEF Signal, counters, MasterAlive
  <2> QED BY <2>1, <2>2, SlotsKept DEF Children, Running, Zombies
<1>5. ASSUME NEW a \in Addresses, Connect(a) PROVE Pool'
  <2>1. TypeOK'
    BY <1>5 DEF Connect, FilterUnchanged, Pool, TypeOK, counters, bounds
  <2>2. UNCHANGED <<filters, num_filters, spare_filters, forkFailures, procs, phase>> /\ phase # "dead"
    BY <1>5 DEF Connect, FilterUnchanged, counters, bounds, MasterAlive
  <2> QED BY <2>1, <2>2, SlotsKept DEF Children, Running, Zombies
<1> QED BY <1>1, <1>2, <1>3, <1>4, <1>5

LEMMA PoolInit == Init => Pool
<1> SUFFICES ASSUME Init PROVE Pool
  OBVIOUS
<1>1. config \in RawConfig /\ config.max \in Nat /\ config.start \in Nat /\ config.listen \in Addresses
  <2>1. config \in RawConfig
    BY ConfigAssumption, Constants DEF Init
  <2> QED BY <2>1 DEF RawConfig
<1>2. /\ phase = "bury" /\ bound = config.listen /\ pipe = <<>> /\ pipeOpen = TRUE
      /\ filters = [i \in 1..config.max |-> FreeSlot]
      /\ num_filters = 0 /\ spare_filters = 0 /\ start = config.start /\ signals = 0 /\ forkFailures = 0
  BY DEF Init
<1>3. /\ delayed = FALSE /\ childs_exited = FALSE /\ reread_configuration = FALSE /\ restart_filters = FALSE
      /\ procs = [p \in Pids |-> NoProc] /\ pending = [a \in Addresses |-> 0]
  BY DEF Init
<1>4. filters \in Seq(Slot) /\ \A i \in DOMAIN filters : filters[i].pid \notin Pids
  BY <1>1, <1>2, Constants
<1>5. TypeOK
  <2>1. procs \in [Pids -> Proc] /\ pending \in [Addresses -> Nat]
    BY <1>3, Constants
  <2>2. pipe \in Seq(Status) /\ filters \in Seq(Slot)
    BY <1>2, <1>4
  <2>3. num_filters \in Nat /\ spare_filters \in Nat /\ start \in Nat /\ signals \in Nat /\ forkFailures \in Nat
    BY <1>1, <1>2
  <2>4. /\ delayed \in BOOLEAN /\ childs_exited \in BOOLEAN /\ reread_configuration \in BOOLEAN
        /\ restart_filters \in BOOLEAN /\ pipeOpen \in BOOLEAN
    BY <1>2, <1>3
  <2>5. phase \in {"bury", "spawn", "check", "reread", "spare", "stopped", "dead"} /\ bound \in Addresses
    BY <1>1, <1>2
  <2> QED BY <1>1, <2>1, <2>2, <2>3, <2>4, <2>5 DEF TypeOK
<1>6. Accounting
  <2>1. Slots(filters) = {} /\ Spares(filters) = {}
    BY <1>4 DEF Slots, Spares
  <2>2. Cardinality(Slots(filters)) = 0 /\ Cardinality(Spares(filters)) = 0
    BY <2>1, FS_EmptySet
  <2>3. /\ num_filters = Cardinality(Slots(filters)) + forkFailures
        /\ spare_filters = Cardinality(Spares(filters)) + forkFailures
    BY <1>2, <2>2
  <2> QED BY <2>3, Counters
<1>7. Children = {}
  BY Constants DEF Init, Children, Running, Zombies, NoProc
<1>8. ChildrenHaveSlots
  BY <1>4, <1>7 DEF ChildrenHaveSlots, Occupied
<1> QED BY <1>5, <1>6, <1>8 DEF Pool

LEMMA PoolStep == Pool /\ [Next]_vars => Pool'
BY LoopTopKeeps, SpawnKeeps, CheckKeeps, RereadKeeps, FilterKeeps, OthersKeep DEF Next, Master

\* For any number of processes, reloads and failed forks, in any order of deaths, statuses and signals:
\* every child of the master has one slot, and a slot with a pid a child that is not yet waited for.
THEOREM SlotsAreChildren == Spec => [](TypeOK /\ ChildrenHaveSlots)
<1>1. Pool => TypeOK /\ ChildrenHaveSlots
  BY DEF Pool
<1> QED BY <1>1, PoolInit, PoolStep, PTL DEF Spec

\* The same for the types alone: the counters of the master, which it also decreases, never fall below zero.
THEOREM TypeCorrect == Spec => []TypeOK
<1>1. TypeOK /\ ChildrenHaveSlots => TypeOK
  OBVIOUS
<1> QED BY <1>1, SlotsAreChildren, PTL

\* The counters the master decides by are the numbers of its slots and of those it believes spare, plus
\* the forks that have failed.
THEOREM CountersAreSlots == Spec => []Accounting
<1>1. Pool => Accounting
  BY DEF Pool
<1> QED BY <1>1, PoolInit, PoolStep, PTL DEF Spec

-----------------------------------------------------------------------------
(* Starts                                                                  *)

\* There are at most as many children as slots in use.
LEMMA ChildrenFitSlots ==
  ASSUME Pool, phase # "dead"
  PROVE  Cardinality(Children) \in Nat /\ Cardinality(Children) <= num_filters
<1>1. filters \in Seq(Slot) /\ forkFailures \in Nat /\ num_filters = Cardinality(Slots(filters)) + forkFailures
  BY Counters DEF Pool, TypeOK
<1>2. IsFiniteSet(Slots(filters)) /\ Cardinality(Slots(filters)) \in Nat
  BY <1>1, SlotsFinite DEF Slots
<1> DEFINE pidOf == [i \in Slots(filters) |-> filters[i].pid]
<1>3. pidOf \in Surjection(Slots(filters), Children)
  <2>1. ASSUME NEW i \in Slots(filters) PROVE filters[i].pid \in Children
    BY DEF Slots, Pool, ChildrenHaveSlots
  <2>2. ASSUME NEW p \in Children PROVE \E i \in Slots(filters) : pidOf[i] = p
    BY <2>2 DEF Slots, Pool, ChildrenHaveSlots, Children, Running, Zombies
  <2> QED BY <2>1, <2>2 DEF Surjection
<1>4. IsFiniteSet(Children) /\ Cardinality(Children) <= Cardinality(Slots(filters))
  <2> HIDE DEF pidOf
  <2> QED BY <1>2, <1>3, FS_Surjection
<1>5. Cardinality(Children) \in Nat
  BY <1>4, FS_CardinalityType
<1> QED BY <1>1, <1>2, <1>4, <1>5

\* Only spawn_filter starts a process.
LEMMA OnlySpawnStarts ==
  ASSUME Pool, [Next]_vars, NEW p \in Pids, procs[p].st = "none", procs'[p].st = "starting"
  PROVE  phase = "spawn" /\ MaySpawn
<1>1. procs[p] \in Proc /\ procs \in [Pids -> Proc]
  BY DEF Pool, TypeOK
<1>2. ASSUME NEW q \in Pids, Started(q) \/ Filter(q) PROVE FALSE
  <2>1. q # p
    BY <1>2 DEF Started, Filter, IdleTurn, Accept, Finish, Crash
  <2>2. procs'[p] = procs[p]
    BY <1>1, <1>2, <2>1 DEF Started, Filter, IdleTurn, Accept, Finish, Crash, EndTurn
  <2> QED BY <2>2
<1>3. ASSUME LoopTop PROVE FALSE
  BY <1>1, <1>3 DEF LoopTop, BuryChilds, NoProc
<1>4. ASSUME RereadConfig PROVE FALSE
  <2>1. PICK killed \in SUBSET {r \in Pids : procs[r].st = "starting"} :
          LET hupped == IF restart_filters THEN HupFilters(killed) ELSE procs
          IN  \/ \E f \in ConfigFiles, binds, ok \in BOOLEAN : LoadConfig(CheckValues(f), hupped, binds, ok)
              \/ procs' = hupped
    <3>1. (IF restart_filters THEN SUBSET {r \in Pids : procs[r].st = "starting"} ELSE {{}})
             \subseteq SUBSET {r \in Pids : procs[r].st = "starting"}
      OBVIOUS
    <3> QED BY <1>4, <3>1 DEF RereadConfig
  <2> DEFINE hupped == IF restart_filters THEN HupFilters(killed) ELSE procs
  <2>2. hupped[p].st = "none" /\ hupped[p] \in Proc
    BY <1>1, HupKeeps DEF Pool
  <2>3. procs'[p].st = hupped[p].st
    <3>1. ASSUME NEW f, NEW binds, NEW ok, LoadConfig(CheckValues(f), hupped, binds, ok) PROVE procs'[p].st = hupped[p].st
      <4>1. \E b : procs'[p] = [hupped[p] EXCEPT !.linked = b]
        BY <3>1 DEF LoadConfig
      <4> QED BY <2>2, <4>1 DEF Proc
    <3> QED BY <2>1, <3>1
  <2> QED BY <2>2, <2>3
<1>5. ASSUME Death PROVE FALSE
  BY <1>5 DEF Death, NoProc
<1>6. ASSUME \/ SpawnFails \/ NoSpawn \/ CheckFilterStatuses \/ NoReread \/ KeepSpare \/ ClockPasses
             \/ (\E hup \in BOOLEAN : Signal(hup)) \/ (\E a \in Addresses : Connect(a)) \/ UNCHANGED vars
      PROVE  procs' = procs
  BY <1>6 DEF SpawnFails, FillSlot, NoSpawn, CheckFilterStatuses, NoReread, KeepSpare, ClockPasses, Signal, Connect, vars
<1>7. ASSUME NEW q \in Pids, SpawnFilter(q) PROVE phase = "spawn" /\ MaySpawn
  BY <1>7 DEF SpawnFilter
<1> QED BY <1>2, <1>3, <1>4, <1>5, <1>6, <1>7 DEF Next, Master

\* A filter is only started while fewer than MaxFilters children live, also after a reload has lowered
\* the limit below the slots in use.
THEOREM SpawnsBelowLimit == Spec => StartsBelowLimit
<1>1. Pool /\ [Next]_vars => \A p \in Pids : procs[p].st = "none" /\ procs'[p].st = "starting"
                                               => Cardinality(Children) < config.max
  <2> SUFFICES ASSUME Pool, [Next]_vars, NEW p \in Pids, procs[p].st = "none", procs'[p].st = "starting"
               PROVE  Cardinality(Children) < config.max
    OBVIOUS
  <2>1. phase = "spawn" /\ num_filters < config.max
    BY OnlySpawnStarts DEF MaySpawn
  <2>2. Cardinality(Children) \in Nat /\ Cardinality(Children) <= num_filters
    BY <2>1, ChildrenFitSlots
  <2>3. num_filters \in Nat /\ config.max \in Nat
    BY DEF Pool, TypeOK, RawConfig
  <2> QED BY <2>1, <2>2, <2>3
<1> QED BY <1>1, PoolInit, PoolStep, PTL DEF Spec, StartsBelowLimit

-----------------------------------------------------------------------------
(* What the master will know of a filter                                   *)

\* LastWord with the pipe and the slots as arguments.
Said(pp, p) == {k \in DOMAIN pp : pp[k].pid = p}
BelievedSpare(fs, p) == \E i \in DOMAIN fs : fs[i].pid = p /\ fs[i].avail
Word(pp, fs, p) ==
  IF Said(pp, p) # {} THEN pp[CHOOSE k \in Said(pp, p) : \A l \in Said(pp, p) : l <= k].avail
  ELSE BelievedSpare(fs, p)

LEMMA WordIs ==
  /\ \A p : LastWord(p) = Word(pipe, filters, p)
  /\ \A p : LastWord(p)' = Word(pipe', filters', p)
<1>1. \A p : LastWord(p) = Word(pipe, filters, p)
  BY DEF LastWord, Word, Said, BelievedSpare
<1>2. \A p : LastWord(p)' = Word(pipe', filters', p)
  BY DEF LastWord, Word, Said, BelievedSpare
<1> QED BY <1>1, <1>2

\* The records of a filter have a last one.
LEMMA LastSaid ==
  ASSUME NEW pp \in Seq(Status), NEW p, Said(pp, p) # {}
  PROVE  \E k \in Said(pp, p) : \A l \in Said(pp, p) : l <= k
<1>1. Len(pp) \in Nat /\ \A k \in Said(pp, p) : k \in Nat /\ k <= Len(pp)
  BY DEF Said
<1> DEFINE S == {Len(pp) - k : k \in Said(pp, p)}
<1>2. S \in SUBSET Nat /\ S # {}
  BY <1>1
<1>3. PICK n \in S : \A m \in S : n <= m
  <2> HIDE DEF S
  <2> QED BY <1>2, FirstOf
<1>4. PICK k \in Said(pp, p) : n = Len(pp) - k
  OBVIOUS
<1>5. ASSUME NEW l \in Said(pp, p) PROVE l <= k
  <2>1. Len(pp) - l \in S
    OBVIOUS
  <2>2. Len(pp) - k <= Len(pp) - l
    BY <1>3, <1>4, <2>1
  <2> QED BY <1>1, <2>2
<1> QED BY <1>5

\* The last record of a filter is its word.
LEMMA WordSaid ==
  ASSUME NEW pp \in Seq(Status), NEW fs, NEW p,
         NEW k \in Said(pp, p), \A l \in Said(pp, p) : l <= k
  PROVE  Word(pp, fs, p) = pp[k].avail
<1> DEFINE c == CHOOSE j \in Said(pp, p) : \A l \in Said(pp, p) : l <= j
<1>1. c \in Said(pp, p) /\ \A l \in Said(pp, p) : l <= c
  OBVIOUS
<1>2. \A l \in Said(pp, p) : l \in Nat
  BY DEF Said
<1>3. c = k
  BY <1>1, <1>2
<1>4. Word(pp, fs, p) = pp[c].avail
  BY DEF Word
<1> QED BY <1>3, <1>4

LEMMA WordUnsaid ==
  ASSUME NEW pp, NEW fs, NEW p, Said(pp, p) = {}
  PROVE  Word(pp, fs, p) = BelievedSpare(fs, p)
BY DEF Word

\* The same records, and the same belief about a filter, are the same word.
LEMMA WordKept ==
  ASSUME NEW pp, NEW fs, NEW gs, NEW p, BelievedSpare(fs, p) <=> BelievedSpare(gs, p)
  PROVE  Word(pp, fs, p) <=> Word(pp, gs, p)
<1>1. CASE Said(pp, p) = {}
  BY <1>1, WordUnsaid
<1>2. CASE Said(pp, p) # {}
  BY <1>2 DEF Word
<1> QED BY <1>1, <1>2

\* A record of a filter becomes its word; one of another filter changes nothing.
LEMMA WordAppended ==
  ASSUME NEW pp \in Seq(Status), NEW fs, NEW s \in Status
  PROVE  /\ Word(Append(pp, s), fs, s.pid) = s.avail
         /\ \A p : p # s.pid => Word(Append(pp, s), fs, p) = Word(pp, fs, p)
<1> DEFINE qq == Append(pp, s)
<1>1. /\ qq \in Seq(Status) /\ Len(qq) = Len(pp) + 1 /\ Len(pp) \in Nat
      /\ qq[Len(pp) + 1] = s /\ \A k \in DOMAIN pp : k \in DOMAIN qq /\ qq[k] = pp[k]
      /\ \A k \in DOMAIN qq : k \in Nat /\ (k \in DOMAIN pp \/ k = Len(pp) + 1) /\ k <= Len(pp) + 1
      /\ Len(pp) + 1 \in DOMAIN qq
  OBVIOUS
<1> HIDE DEF qq
<1>2. Word(qq, fs, s.pid) = s.avail
  <2>1. Len(pp) + 1 \in Said(qq, s.pid) /\ \A l \in Said(qq, s.pid) : l <= Len(pp) + 1
    BY <1>1 DEF Said
  <2> QED BY <1>1, <2>1, WordSaid
<1>3. ASSUME NEW p, p # s.pid PROVE Word(qq, fs, p) = Word(pp, fs, p)
  <2>1. Said(qq, p) = Said(pp, p)
    BY <1>1, <1>3 DEF Said
  <2>2. CASE Said(pp, p) = {}
    BY <2>1, <2>2, WordUnsaid
  <2>3. CASE Said(pp, p) # {}
    <3>1. PICK k \in Said(pp, p) : \A l \in Said(pp, p) : l <= k
      BY <2>3, LastSaid
    <3>2. Word(pp, fs, p) = pp[k].avail
      BY <3>1, WordSaid
    <3>3. Word(qq, fs, p) = qq[k].avail
      BY <1>1, <2>1, <3>1, WordSaid
    <3> QED BY <1>1, <3>2, <3>3 DEF Said
  <2> QED BY <2>2, <2>3
<1> QED BY <1>2, <1>3 DEF qq

\* Once the master has read a record, the word of its filter is the same.
LEMMA WordRead ==
  ASSUME NEW pp \in Seq(Status), pp # <<>>, NEW fs, NEW gs, NEW p,
         p = Head(pp).pid => (BelievedSpare(gs, p) <=> Head(pp).avail),
         p # Head(pp).pid => (BelievedSpare(gs, p) <=> BelievedSpare(fs, p))
  PROVE  Word(Tail(pp), gs, p) <=> Word(pp, fs, p)
<1> DEFINE qq == Tail(pp)
<1>1. /\ qq \in Seq(Status) /\ Len(qq) = Len(pp) - 1 /\ Len(pp) \in Nat /\ Len(pp) > 0
      /\ DOMAIN pp = 1..Len(pp) /\ DOMAIN qq = 1..(Len(pp) - 1)
      /\ Head(pp) = pp[1] /\ \A k \in DOMAIN qq : qq[k] = pp[k + 1]
  OBVIOUS
<1> HIDE DEF qq
<1>2. \A k \in Said(qq, p) : k + 1 \in Said(pp, p) /\ qq[k].avail = pp[k + 1].avail
  BY <1>1 DEF Said
<1>3. \A k \in Said(pp, p) : k = 1 \/ (k > 1 /\ k - 1 \in Said(qq, p))
  <2> SUFFICES ASSUME NEW k \in Said(pp, p), k # 1 PROVE k > 1 /\ k - 1 \in Said(qq, p)
    OBVIOUS
  <2>1. k \in 1..Len(pp) /\ pp[k].pid = p
    BY <1>1 DEF Said
  <2>2. k - 1 \in DOMAIN qq /\ qq[k - 1] = pp[(k - 1) + 1] /\ (k - 1) + 1 = k /\ k > 1
    BY <1>1, <2>1
  <2> QED BY <2>1, <2>2 DEF Said
<1>4. CASE Said(qq, p) # {}
  <2>1. PICK k \in Said(qq, p) : \A l \in Said(qq, p) : l <= k
    BY <1>1, <1>4, LastSaid
  <2>2. Word(qq, gs, p) = qq[k].avail
    BY <1>1, <2>1, WordSaid
  <2>3. ASSUME NEW l \in Said(pp, p) PROVE l <= k + 1
    <3>1. l \in Nat /\ k \in Nat
      BY <1>1 DEF Said
    <3>2. l = 1 \/ l - 1 <= k
      BY <1>3, <2>1
    <3> QED BY <3>1, <3>2
  <2>4. Word(pp, fs, p) = pp[k + 1].avail
    BY <1>2, <2>3, WordSaid
  <2> QED BY <1>2, <2>2, <2>4 DEF qq
<1>5. CASE Said(qq, p) = {} /\ p = Head(pp).pid
  <2>1. 1 \in Said(pp, p) /\ \A l \in Said(pp, p) : l <= 1
    BY <1>1, <1>3, <1>5 DEF Said
  <2>2. Word(pp, fs, p) = pp[1].avail
    BY <2>1, WordSaid
  <2> QED BY <1>1, <1>5, <2>2, WordUnsaid DEF qq
<1>6. CASE Said(qq, p) = {} /\ p # Head(pp).pid
  <2>1. Said(pp, p) = {}
    BY <1>1, <1>3, <1>6 DEF Said
  <2> QED BY <1>6, <2>1, WordUnsaid DEF qq
<1> QED BY <1>4, <1>5, <1>6

\* Agreement is kept where a filter that stays, linked and not leaving, keeps what it does and its word.
LEMMA AgreeKept ==
  ASSUME StatusesAgree,
         \A p \in Running' : procs'[p].linked /\ ~procs'[p].graceful =>
           /\ p \in Running /\ procs[p].linked /\ ~procs[p].graceful
           /\ procs'[p].st = "serving" <=> procs[p].st = "serving"
           /\ Word(pipe', filters', p) <=> Word(pipe, filters, p)
  PROVE  StatusesAgree'
<1> SUFFICES ASSUME NEW p \in Running', procs'[p].linked, ~procs'[p].graceful
             PROVE  LastWord(p)' <=> procs'[p].st # "serving"
  BY DEF StatusesAgree
<1>1. /\ p \in Running /\ procs[p].linked /\ ~procs[p].graceful
      /\ procs'[p].st = "serving" <=> procs[p].st = "serving"
      /\ Word(pipe', filters', p) <=> Word(pipe, filters, p)
  OBVIOUS
<1>2. LastWord(p) <=> procs[p].st # "serving"
  BY <1>1 DEF StatusesAgree
<1>3. LastWord(p) = Word(pipe, filters, p) /\ LastWord(p)' = Word(pipe', filters', p)
  BY WordIs
<1> QED BY <1>1, <1>2, <1>3

LEMMA LoopTopAgrees == ASSUME Pool, StatusesAgree, LoopTop PROVE StatusesAgree'
<1>1. pipe' = pipe /\ procs \in [Pids -> Proc]
  BY DEF LoopTop, Pool, TypeOK
<1>2. CASE BuryChilds
  <2>1. filters' = [i \in DOMAIN filters |-> IF Buried(i) THEN FreeSlot ELSE filters[i]]
    BY <1>2 DEF BuryChilds
  <2>2. procs' = [p \in Pids |-> IF p \in Zombies THEN NoProc ELSE procs[p]]
    BY <1>2 DEF BuryChilds
  <2>3. ASSUME NEW p \in Running' PROVE p \in Running /\ procs'[p] = procs[p]
    BY <2>2, <2>3 DEF Running, NoProc
  <2>4. ASSUME NEW p \in Running' PROVE BelievedSpare(filters, p) <=> BelievedSpare(filters', p)
    <3>1. p \in Pids /\ p \notin Zombies
      BY <2>3 DEF Running, Zombies
    <3>2. ASSUME NEW i \in DOMAIN filters, filters[i].pid = p PROVE filters'[i] = filters[i]
      BY <2>1, <3>1, <3>2 DEF Buried
    <3>3. ASSUME NEW i \in DOMAIN filters', filters'[i].pid = p PROVE filters'[i] = filters[i]
      BY <2>1, <3>1, <3>3, Constants
    <3>4. DOMAIN filters' = DOMAIN filters
      BY <2>1
    <3> QED BY <3>2, <3>3, <3>4 DEF BelievedSpare
  <2>5. ASSUME NEW p \in Running' PROVE Word(pipe', filters', p) <=> Word(pipe, filters, p)
    BY <1>1, <2>4, WordKept
  <2> QED BY <2>3, <2>5, AgreeKept
<1>3. CASE ~BuryChilds
  <2>1. UNCHANGED <<filters, procs>>
    BY <1>3 DEF LoopTop
  <2> QED BY <1>1, <2>1, AgreeKept DEF Running
<1> QED BY <1>2, <1>3

LEMMA CheckAgrees == ASSUME Pool, StatusesAgree, CheckFilterStatuses PROVE StatusesAgree'
<1>1. procs' = procs /\ phase = "check" /\ pipe \in Seq(Status)
  BY DEF CheckFilterStatuses, Pool, TypeOK
<1>2. CASE pipe = <<>>
  <2>1. UNCHANGED <<pipe, filters>>
    BY <1>2 DEF CheckFilterStatuses
  <2> QED BY <1>1, <2>1, AgreeKept DEF Running
<1>3. CASE pipe # <<>>
  <2> DEFINE s == Head(pipe)
  <2>1. ApplyStatus(s) /\ pipe' = Tail(pipe) /\ s \in Status
    BY <1>1, <1>3 DEF CheckFilterStatuses
  <2> HIDE DEF s
  <2>2. /\ DOMAIN filters' = DOMAIN filters
        /\ \A i \in DOMAIN filters : filters'[i].pid = filters[i].pid
        /\ \A i \in DOMAIN filters : filters[i].pid # s.pid => filters'[i] = filters[i]
        /\ \A i \in DOMAIN filters : filters[i].pid = s.pid => filters'[i].avail = s.avail
    BY <1>1, <2>1, StatusApplied
  <2>3. ASSUME NEW p \in Running' PROVE Word(pipe', filters', p) <=> Word(pipe, filters, p)
    <3>1. p \in Children /\ p \in Pids
      BY <1>1 DEF Running, Children
    <3>2. \E i \in DOMAIN filters : filters[i].pid = p
      BY <1>1, <3>1 DEF Pool, ChildrenHaveSlots
    <3>3. p = s.pid => (BelievedSpare(filters', p) <=> s.avail)
      BY <2>2, <3>2 DEF BelievedSpare
    <3>4. p # s.pid => (BelievedSpare(filters', p) <=> BelievedSpare(filters, p))
      BY <2>2 DEF BelievedSpare
    <3> QED BY <1>1, <1>3, <2>1, <3>3, <3>4, WordRead DEF s
  <2> QED BY <1>1, <2>3, AgreeKept DEF Running
<1> QED BY <1>2, <1>3

LEMMA SpawnAgrees ==
  ASSUME Pool, StatusesAgree, (\E p \in Pids : SpawnFilter(p)) \/ SpawnFails
  PROVE  StatusesAgree'
<1>1. phase = "spawn" /\ MaySpawn /\ pipe' = pipe
  BY DEF SpawnFilter, SpawnFails, FillSlot
<1>2. FirstFree \in DOMAIN filters /\ filters[FirstFree].pid \notin Pids /\ filters \in Seq(Slot)
  BY <1>1, FirstFreeIsFree DEF MaySpawn, Pool, TypeOK
<1>3. ASSUME NEW n, filters' = [filters EXCEPT ![FirstFree] = [pid |-> n, avail |-> TRUE, used |-> FALSE]],
             NEW p \in Pids, p # n
      PROVE  Word(pipe', filters', p) <=> Word(pipe, filters, p)
  <2>1. /\ DOMAIN filters' = DOMAIN filters /\ filters'[FirstFree].pid = n
        /\ \A i \in DOMAIN filters : i # FirstFree => filters'[i] = filters[i]
    BY <1>2, <1>3
  <2>2. BelievedSpare(filters, p) <=> BelievedSpare(filters', p)
    BY <1>2, <1>3, <2>1 DEF BelievedSpare
  <2> QED BY <1>1, <2>2, WordKept
<1>4. ASSUME NEW p \in Pids, SpawnFilter(p) PROVE StatusesAgree'
  <2>1. /\ filters' = [filters EXCEPT ![FirstFree] = [pid |-> p, avail |-> TRUE, used |-> FALSE]]
        /\ procs' = [procs EXCEPT ![p] = [NoProc EXCEPT !.st = "starting", !.linked = TRUE, !.sock = bound]]
        /\ \A k \in DOMAIN pipe : pipe[k].pid # p
    BY <1>4 DEF SpawnFilter, FillSlot
  <2>2. procs'[p].st = "starting" /\ \A q \in Pids : q # p => procs'[q] = procs[q]
    BY <2>1 DEF NoProc, Pool, TypeOK
  <2>3. LastWord(p)'
    <3>1. FirstFree \in DOMAIN filters' /\ filters'[FirstFree].pid = p /\ filters'[FirstFree].avail
      BY <1>2, <2>1
    <3>2. Said(pipe', p) = {}
      BY <1>1, <2>1 DEF Said
    <3>3. BelievedSpare(filters', p)
      BY <3>1 DEF BelievedSpare
    <3> QED BY <3>2, <3>3, WordUnsaid, WordIs
  <2>4. ASSUME NEW q \in Running', q # p, procs'[q].linked, ~procs'[q].graceful
        PROVE  LastWord(q)' <=> procs'[q].st # "serving"
    <3>1. q \in Pids /\ procs'[q] = procs[q] /\ q \in Running
      BY <2>2, <2>4 DEF Running
    <3>2. LastWord(q)' <=> LastWord(q)
      BY <1>3, <2>1, <2>4, <3>1, WordIs
    <3> QED BY <2>4, <3>1, <3>2 DEF StatusesAgree
  <2> QED BY <2>2, <2>3, <2>4 DEF StatusesAgree
<1>5. ASSUME SpawnFails PROVE StatusesAgree'
  <2>1. /\ filters' = [filters EXCEPT ![FirstFree] = [pid |-> -1, avail |-> TRUE, used |-> FALSE]]
        /\ procs' = procs
    BY <1>5 DEF SpawnFails, FillSlot
  <2>2. \A p \in Pids : p # -1
    BY Constants
  <2>3. \A p \in Pids : Word(pipe', filters', p) <=> Word(pipe, filters, p)
    BY <1>3, <2>1, <2>2
  <2> QED BY <2>1, <2>3, AgreeKept DEF Running
<1> QED BY <1>4, <1>5

LEMMA RereadAgrees == ASSUME Pool, StatusesAgree, RereadConfig PROVE StatusesAgree'
<1>0. filters \in Seq(Slot) /\ procs \in [Pids -> Proc]
  BY DEF Pool, TypeOK
<1>1. PICK killed \in SUBSET {p \in Pids : procs[p].st = "starting"} :
        LET hupped == IF restart_filters THEN HupFilters(killed) ELSE procs
        IN  \/ \E f \in ConfigFiles, binds, ok \in BOOLEAN : LoadConfig(CheckValues(f), hupped, binds, ok)
            \/ procs' = hupped /\ UNCHANGED <<filters, pipe>>
  <2>1. (IF restart_filters THEN SUBSET {p \in Pids : procs[p].st = "starting"} ELSE {{}})
           \subseteq SUBSET {p \in Pids : procs[p].st = "starting"}
    OBVIOUS
  <2> QED BY <2>1 DEF RereadConfig
<1> DEFINE hupped == IF restart_filters THEN HupFilters(killed) ELSE procs
<1>2. \/ \E f \in ConfigFiles, binds, ok \in BOOLEAN : LoadConfig(CheckValues(f), hupped, binds, ok)
      \/ procs' = hupped /\ UNCHANGED <<filters, pipe>>
  BY <1>1
<1>3. hupped \in [Pids -> Proc]
  BY HupKeeps DEF Pool, TypeOK
<1>4. ASSUME NEW p \in Pids, hupped[p].st \in {"starting", "idle", "serving"}, ~hupped[p].graceful
      PROVE  hupped[p] = procs[p]
  <2>1. ASSUME restart_filters PROVE hupped[p] = procs[p]
    <3>1. hupped[p] = HupFilters(killed)[p]
      BY <2>1
    <3> HIDE DEF hupped
    <3> QED BY <1>0, <1>4, <3>1 DEF HupFilters, Proc
  <2> QED BY <2>1
<1> HIDE DEF hupped
<1>5. ASSUME NEW f \in ConfigFiles, NEW binds \in BOOLEAN, NEW ok \in BOOLEAN,
               LoadConfig(CheckValues(f), hupped, binds, ok)
      PROVE  StatusesAgree'
  <2> DEFINE c == CheckValues(f)
             restart == restart_filters \/ NewListen(c, binds) # bound
             n == IF c.max > Len(filters) THEN c.max ELSE Len(filters)
  <2>1. c.max \in Nat
    BY Constants, ConfigAssumption DEF RawConfig
  <2>2. /\ pipe' = IF restart THEN <<>> ELSE pipe
        /\ procs' = [p \in Pids |-> [hupped[p] EXCEPT !.linked = @ /\ ~restart]]
        /\ filters' = [i \in 1..n |-> IF i \in DOMAIN filters THEN filters[i] ELSE FreeSlot]
    BY <1>5 DEF LoadConfig
  <2>3. n \in Nat /\ n >= Len(filters)
    BY <1>0, <2>1
  <2> HIDE DEF c, restart, n
  <2>4. /\ DOMAIN filters \subseteq DOMAIN filters' /\ \A i \in DOMAIN filters : filters'[i] = filters[i]
        /\ \A i \in DOMAIN filters' : filters'[i].pid \in Pids => i \in DOMAIN filters
    BY <1>0, <2>2, <2>3, SlotsAdded
  <2>5. \A p \in Pids : BelievedSpare(filters, p) <=> BelievedSpare(filters', p)
    BY <2>4 DEF BelievedSpare
  <2>6. ASSUME NEW p \in Pids
        PROVE  /\ procs'[p].st = hupped[p].st /\ procs'[p].graceful = hupped[p].graceful
               /\ procs'[p].linked => ~restart /\ hupped[p].linked
    <3> DEFINE b == hupped[p].linked /\ ~restart
    <3>1. procs'[p] = [hupped[p] EXCEPT !.linked = b] /\ hupped[p] \in Proc
      BY <1>3, <2>2
    <3>2. procs'[p].linked = b /\ procs'[p].st = hupped[p].st /\ procs'[p].graceful = hupped[p].graceful
      <4> HIDE DEF b
      <4> QED BY <3>1 DEF Proc
    <3> QED BY <3>2
  <2>7. ASSUME NEW p \in Running', procs'[p].linked, ~procs'[p].graceful
        PROVE  /\ p \in Running /\ procs[p].linked /\ ~procs[p].graceful
               /\ procs'[p].st = "serving" <=> procs[p].st = "serving"
               /\ Word(pipe', filters', p) <=> Word(pipe, filters, p)
    <3>1. p \in Pids /\ hupped[p].st \in {"starting", "idle", "serving"} /\ ~hupped[p].graceful
      BY <2>6, <2>7 DEF Running
    <3>2. hupped[p] = procs[p] /\ ~restart /\ hupped[p].linked
      BY <1>4, <2>6, <2>7, <3>1
    <3>3. Word(pipe', filters', p) <=> Word(pipe, filters, p)
      BY <2>2, <2>5, <3>1, <3>2, WordKept
    <3> QED BY <2>6, <3>1, <3>2, <3>3 DEF Running
  <2> QED BY <2>7, AgreeKept
<1>6. ASSUME procs' = hupped, UNCHANGED <<filters, pipe>> PROVE StatusesAgree'
  <2>1. ASSUME NEW p \in Running', ~procs'[p].graceful PROVE p \in Running /\ procs'[p] = procs[p]
    BY <1>4, <1>6, <2>1 DEF Running
  <2> QED BY <1>6, <2>1, AgreeKept
<1> QED BY <1>2, <1>5, <1>6

\* What a filter says is what it does; one that cannot say it leaves.
LEMMA FilterAgrees ==
  ASSUME Pool, StatusesAgree, NEW p \in Pids, Started(p) \/ Filter(p)
  PROVE  StatusesAgree'
<1>1. procs \in [Pids -> Proc] /\ procs[p] \in Proc /\ pipe \in Seq(Status) /\ filters' = filters
  BY DEF Pool, TypeOK, Started, Filter, IdleTurn, Accept, Finish, Crash, FilterUnchanged
<1>2. \A q \in Pids : q # p => procs'[q] = procs[q]
  BY <1>1 DEF Started, Filter, IdleTurn, Accept, Finish, Crash, EndTurn
<1>3. ASSUME NEW avail \in BOOLEAN, Report(p, avail)
      PROVE  /\ \A q \in Pids : q # p => Word(pipe', filters', q) = Word(pipe, filters, q)
             /\ CanReport(p) => Word(pipe', filters', p) = avail
  <2> DEFINE s == [pid |-> p, avail |-> avail]
  <2>1. s \in Status /\ s.pid = p /\ s.avail = avail
    BY DEF Status
  <2>2. pipe' = IF CanReport(p) THEN Append(pipe, s) ELSE pipe
    BY <1>3 DEF Report
  <2> HIDE DEF s
  <2> QED BY <1>1, <2>1, <2>2, WordAppended
<1>4. \A q \in Pids : q # p => Word(pipe', filters', q) = Word(pipe, filters, q)
  <2>1. Report(p, TRUE) \/ Report(p, FALSE) \/ pipe' = pipe
    BY DEF Started, Filter, IdleTurn, Accept, Finish, Crash
  <2> QED BY <1>1, <1>3, <2>1
<1>5. ASSUME NEW q \in Running', q # p, procs'[q].linked, ~procs'[q].graceful
      PROVE  LastWord(q)' <=> procs'[q].st # "serving"
  <2>1. q \in Running /\ procs'[q] = procs[q] /\ q \in Pids
    BY <1>2, <1>5 DEF Running
  <2>2. LastWord(q)' <=> LastWord(q)
    BY <1>4, <1>5, <2>1, WordIs
  <2> QED BY <1>5, <2>1, <2>2 DEF StatusesAgree
<1>6. ASSUME p \in Running', procs'[p].linked, ~procs'[p].graceful
      PROVE  LastWord(p)' <=> procs'[p].st # "serving"
  <2>1. procs'[p].st \in {"starting", "idle", "serving"}
    BY <1>6 DEF Running
  <2>2. ASSUME NEW leave, EndTurn(p, leave)
        PROVE  ~leave /\ procs'[p].st = "idle"
    BY <1>1, <2>1, <2>2 DEF EndTurn, Proc
  <2>3. CASE Accept(p)
    <3> DEFINE g == procs[p].graceful \/ ~CanReport(p)
    <3>1. procs' = [procs EXCEPT ![p] = [procs[p] EXCEPT !.st = "serving", !.graceful = g]]
      BY <1>1, <2>3 DEF Accept
    <3>2. procs'[p].st = "serving" /\ procs'[p].graceful = g
      <4> HIDE DEF g
      <4> QED BY <1>1, <3>1 DEF Proc
    <3>3. CanReport(p)
      BY <1>6, <3>2
    <3>4. Report(p, FALSE)
      BY <2>3 DEF Accept
    <3> QED BY <1>3, <3>2, <3>3, <3>4, WordIs
  <2>4. CASE Finish(p)
    <3>1. EndTurn(p, procs[p].graceful \/ ~CanReport(p)) /\ Report(p, TRUE)
      BY <2>4 DEF Finish
    <3>2. CanReport(p) /\ procs'[p].st = "idle"
      BY <2>2, <3>1
    <3> QED BY <1>3, <3>1, <3>2, WordIs
  <2>5. CASE Started(p) \/ IdleTurn(p)
    <3>1. pipe' = pipe /\ procs[p].st \in {"starting", "idle"}
      BY <2>5 DEF Started, IdleTurn
    <3>2. CASE Started(p)
      <4>1. procs' = [procs EXCEPT ![p] = [procs[p] EXCEPT !.st = "idle"]]
        BY <3>2 DEF Started
      <4>2. procs'[p].st = "idle" /\ procs'[p].linked = procs[p].linked /\ procs'[p].graceful = procs[p].graceful
        BY <1>1, <4>1 DEF Proc
      <4>3. p \in Running /\ LastWord(p)
        BY <1>6, <3>1, <4>2 DEF StatusesAgree, Running
      <4> QED BY <1>1, <3>1, <4>2, <4>3, WordIs
    <3>3. CASE IdleTurn(p)
      <4>1. EndTurn(p, procs[p].graceful)
        BY <3>3 DEF IdleTurn
      <4>2. procs'[p].st = "idle"
        BY <2>2, <4>1
      <4>3. procs' = [procs EXCEPT ![p] = [procs[p] EXCEPT !.st = "idle", !.count = procs[p].count + 1]]
        <5>1. procs' # [procs EXCEPT ![p] = [procs[p] EXCEPT !.st = "zombie"]]
          BY <1>1, <4>2 DEF Proc
        <5> QED BY <1>1, <4>1, <5>1 DEF EndTurn
      <4>4. procs'[p].linked = procs[p].linked /\ procs'[p].graceful = procs[p].graceful
        BY <1>1, <4>3 DEF Proc
      <4>5. p \in Running /\ LastWord(p)
        BY <1>6, <3>1, <4>4 DEF StatusesAgree, Running
      <4> QED BY <1>1, <3>1, <4>2, <4>5, WordIs
    <3> QED BY <2>5, <3>2, <3>3
  <2>6. CASE Crash(p)
    <3>1. procs' = [procs EXCEPT ![p] = [procs[p] EXCEPT !.st = "zombie", !.error = TRUE]]
      BY <1>1, <2>6 DEF Crash
    <3> QED BY <1>1, <2>1, <3>1 DEF Proc
  <2> QED BY <2>3, <2>4, <2>5, <2>6 DEF Filter
<1> QED BY <1>5, <1>6 DEF StatusesAgree

\* What the master will know of a filter once it has read the pipe is what the filter does, however many
\* records are on their way, unless the filter is leaving or the pipe was replaced.
THEOREM MasterWillKnow == Spec => []StatusesAgree
<1>1. Init => StatusesAgree
  BY DEF Init, StatusesAgree, Running, NoProc
<1>2. ASSUME Pool, StatusesAgree, [Next]_vars PROVE StatusesAgree'
  <2>1. ASSUME \/ NoSpawn \/ NoReread \/ KeepSpare \/ ClockPasses
               \/ (\E hup \in BOOLEAN : Signal(hup)) \/ (\E a \in Addresses : Connect(a)) \/ UNCHANGED vars
        PROVE  StatusesAgree'
    <3>1. UNCHANGED <<pipe, filters, procs>>
      BY <2>1 DEF NoSpawn, NoReread, KeepSpare, ClockPasses, Signal, Connect, FilterUnchanged, vars
    <3>2. Running' = Running
      BY <3>1 DEF Running
    <3>3. \A p : Word(pipe', filters', p) <=> Word(pipe, filters, p)
      BY <3>1
    <3> QED BY <3>1, <3>2, <3>3, <1>2, AgreeKept
  <2>2. ASSUME Death PROVE StatusesAgree'
    BY <2>2 DEF Death, StatusesAgree, Running, NoProc
  <2> QED BY <1>2, <2>1, <2>2, LoopTopAgrees, CheckAgrees, SpawnAgrees, RereadAgrees, FilterAgrees DEF Next, Master
<1> QED BY <1>1, <1>2, PoolInit, PoolStep, PTL DEF Spec

=============================================================================
