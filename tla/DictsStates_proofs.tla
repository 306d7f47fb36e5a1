------------------------- MODULE DictsStates_proofs -------------------------
(***************************************************************************)
(* For any dictionaries, lines, references and lengths of the log: a udict *)
(* never runs dry, and a candidate that is given up leaves the             *)
(* dictionaries as it found them.  For one search in a request and events  *)
(* that take from udicts only: a sudict hands out every line once.         *)
(***************************************************************************)
EXTENDS DictsStates, RandomBox, FiniteSetTheorems, TLAPS

\* What the log holds of a dictionary.
LinesIn(log, d) == { l \in Lines : \E i \in DOMAIN log : log[i] = <<d, l>> }

LEMMA SetBoxIs ==
  ASSUME NEW states \in States, NEW d \in Dicts, NEW box \in SUBSET Lines
  PROVE  /\ SetBox(states, d, box) \in States
         /\ Available(SetBox(states, d, box), d) = box
         /\ \A e \in Dicts : e # d => Available(SetBox(states, d, box), e) = Available(states, e)
<1>1. PICK D \in SUBSET Dicts : states \in [D -> SUBSET Lines]
  BY DEF States
<1>2. /\ DOMAIN SetBox(states, d, box) = D \cup {d}
      /\ SetBox(states, d, box)[d] = box
      /\ \A e \in D : e # d => SetBox(states, d, box)[e] = states[e]
      /\ SetBox(states, d, box) \in [D \cup {d} -> SUBSET Lines]
  BY <1>1 DEF SetBox
<1>3. SetBox(states, d, box) \in States
  BY <1>1, <1>2 DEF States
<1> QED BY <1>1, <1>2, <1>3 DEF Available

LEMMA AvailableType ==
  /\ \A states \in States : \A d \in Dicts : Available(states, d) \in SUBSET Lines
  /\ <<>> \in States /\ \A d \in Dicts : Available(<<>>, d) = Lines
  /\ \A states \in States : AllAvailable(states) \in [Dicts -> SUBSET Lines]
<1>1. ASSUME NEW states \in States, NEW d \in Dicts PROVE Available(states, d) \in SUBSET Lines
  BY DEF States, Available
<1>2. DOMAIN <<>> = {} /\ <<>> \in [{} -> SUBSET Lines]
  OBVIOUS
<1>3. <<>> \in States /\ \A d \in Dicts : Available(<<>>, d) = Lines
  BY <1>2 DEF States, Available
<1>4. \A states \in States : AllAvailable(states) \in [Dicts -> SUBSET Lines]
  BY <1>1 DEF AllAvailable
<1> QED BY <1>1, <1>3, <1>4

\* The types that matter here; the length of the log and the searches left are of no account.
Typed == /\ vStates \in States /\ cached \in States
         /\ vLog \in Seq(Taken)
         /\ before \in [Dicts -> SUBSET Lines] /\ left \in Int

\* A line is taken: it leaves its box, and the box starts again if a udict has no other.
LEMMA Taking ==
  ASSUME Typed, NEW d \in Dicts, NEW kind, NEW l \in Lines, CanTake(d, kind, l), Take(d, kind, l)
  PROVE  /\ vStates' \in States /\ vLog' \in Seq(Taken)
         /\ \A e \in Dicts : e # d => Available(vStates', e) = Available(vStates, e)
         /\ Available(vStates, d) \subseteq Available(vStates', d) \cup {l}
         /\ kind = "udict" => Available(vStates', d) # {}
         /\ kind # "udict" => Available(vStates', d) = Available(vStates, d) \ {l} /\ l \in Available(vStates, d)
         /\ ~Restarts(d, kind, l) => Available(vStates', d) = Available(vStates, d) \ {l} /\ l \in Available(vStates, d)
         /\ LinesIn(vLog', d) = LinesIn(vLog, d) \cup {l}
         /\ \A e \in Dicts : e # d => LinesIn(vLog', e) = LinesIn(vLog, e)
<1> DEFINE a == Available(vStates, d)
           box == Refill(kind, Refill(kind, a) \ {l})
<1>1. a \in SUBSET Lines /\ Lines # {} /\ l \in Refill(kind, a)
  BY AvailableType, DictsAssumption DEF Typed, CanTake
<1>2. vStates' = SetBox(vStates, d, box)
  BY DEF Take, After
<1>3. box \in SUBSET Lines
  BY <1>1 DEF Refill
<1> HIDE DEF a
<1>4. /\ a \subseteq box \cup {l}
      /\ kind = "udict" => box # {}
      /\ kind # "udict" => box = a \ {l} /\ l \in a
      /\ ~(kind = "udict" /\ a \in {{}, {l}}) => box = a \ {l} /\ l \in a
  BY <1>1 DEF Refill
<1> HIDE DEF box
<1>5. /\ vStates' \in States /\ Available(vStates', d) = box
      /\ \A e \in Dicts : e # d => Available(vStates', e) = Available(vStates, e)
  BY <1>2, <1>3, SetBoxIs DEF Typed
<1>6. /\ vLog' \in Seq(Taken) /\ LinesIn(vLog', d) = LinesIn(vLog, d) \cup {l}
      /\ \A e \in Dicts : e # d => LinesIn(vLog', e) = LinesIn(vLog, e)
  <2>1. vLog \in Seq(Taken) /\ <<d, l>> \in Taken /\ vLog' = Append(vLog, <<d, l>>)
    BY DEF Typed, Taken, Take
  <2>2. /\ vLog' \in Seq(Taken) /\ DOMAIN vLog \subseteq DOMAIN vLog'
        /\ \A i \in DOMAIN vLog : vLog'[i] = vLog[i]
        /\ \A i \in DOMAIN vLog' : i \in DOMAIN vLog \/ vLog'[i] = <<d, l>>
        /\ \E i \in DOMAIN vLog' : vLog'[i] = <<d, l>>
    BY <2>1
  <2>3. ASSUME NEW e \in Dicts, NEW m \in Lines
        PROVE  m \in LinesIn(vLog', e) <=> m \in LinesIn(vLog, e) \/ <<e, m>> = <<d, l>>
    BY <2>2 DEF LinesIn
  <2>4. \A e \in Dicts : LinesIn(vLog', e) \subseteq Lines /\ LinesIn(vLog, e) \subseteq Lines
    BY DEF LinesIn
  <2> QED BY <2>2, <2>3, <2>4
<1> QED BY <1>4, <1>5, <1>6 DEF a, Restarts

\* A rollback gives back lines of the log, all of them if no dictionary of it was dropped.
LEMMA RollingBack ==
  ASSUME Typed, RollbackLastChanges
  PROVE  /\ vStates' \in States /\ vLog' \in Seq(Taken)
         /\ \A d \in Dicts : /\ Available(vStates, d) \subseteq Available(vStates', d)
                             /\ Available(vStates', d) \subseteq Available(vStates, d) \cup LinesIn(vLog, d)
                             /\ LinesIn(vLog', d) \subseteq LinesIn(vLog, d)
                             /\ ~Orphaned => Available(vStates', d) = Available(vStates, d) \cup LinesIn(vLog, d)
<1>1. PICK D \in SUBSET Dicts : vStates \in [D -> SUBSET Lines]
  BY DEF Typed, States
<1>2. vStates' = [d \in D |-> vStates[d] \cup { l \in Lines : <<d, l>> \in Reached }]
  BY <1>1 DEF RollbackLastChanges
<1>3. vStates' \in [D -> SUBSET Lines]
  BY <1>1, <1>2
<1>4. vStates' \in States
  BY <1>3 DEF States
<1>5. vLog' \in Seq(Taken) /\ (vLog' = <<>> \/ vLog' = vLog)
  BY DEF RollbackLastChanges, Typed
<1>6. \A t \in Reached : t \in Logged
  BY DEF Reached, Logged
<1>7. ~Orphaned => Reached = Logged
  <2> SUFFICES ASSUME ~Orphaned PROVE Reached = Logged
    OBVIOUS
  <2>1. \A k \in DOMAIN vLog : vLog[k][1] \in DOMAIN vStates
    BY DEF Orphaned, Logged
  <2>2. vLog \in Seq(Taken)
    BY DEF Typed
  <2>3. \A j \in DOMAIN vLog : \A k \in 1 .. j : k \in DOMAIN vLog
    BY <2>2
  <2> QED BY <2>1, <2>3 DEF Reached, Logged
<1>8. ASSUME NEW d \in Dicts
      PROVE  /\ Available(vStates, d) \subseteq Available(vStates', d)
             /\ Available(vStates', d) \subseteq Available(vStates, d) \cup LinesIn(vLog, d)
             /\ LinesIn(vLog', d) \subseteq LinesIn(vLog, d)
             /\ ~Orphaned => Available(vStates', d) = Available(vStates, d) \cup LinesIn(vLog, d)
  <2>1. \A l \in Lines : <<d, l>> \in Logged <=> l \in LinesIn(vLog, d)
    BY DEF Logged, LinesIn
  <2>2. LinesIn(vLog', d) \subseteq LinesIn(vLog, d) /\ LinesIn(vLog, d) \subseteq Lines
    BY <1>5 DEF LinesIn
  <2>3. CASE d \in D
    <3>1. /\ Available(vStates', d) = vStates[d] \cup { l \in Lines : <<d, l>> \in Reached }
          /\ Available(vStates, d) = vStates[d]
      BY <1>1, <1>2, <2>3 DEF Available
    <3> QED BY <1>6, <1>7, <2>1, <2>2, <3>1
  <2>4. CASE d \notin D
    <3>1. Available(vStates', d) = Lines /\ Available(vStates, d) = Lines
      BY <1>1, <1>2, <2>4 DEF Available
    <3> QED BY <2>2, <3>1
  <2> QED BY <2>3, <2>4
<1> QED BY <1>4, <1>5, <1>8

-----------------------------------------------------------------------------
(* What a candidate may do, and a udict always has lines                   *)

\* What the candidate may still give back is what it found.
CandidateUndoable ==
  stage = "candidate" =>
    \A d \in Dicts :
      /\ before[d] \subseteq Available(vStates, d) \cup LinesIn(vLog, d)
      /\ ~refilled => Available(vStates, d) \cup LinesIn(vLog, d)
                        = before[d] \cup { l \in Lines : <<d, l>> \in logged }

Undoable == Typed /\ UdictHasLines /\ CandidateUndoable

LEMMA LogSays == \A d \in Dicts : LinesIn(vLog, d) = { l \in Lines : <<d, l>> \in Logged }
BY DEF LinesIn, Logged

\* The references of questions and events are of dictionaries and kinds.
LEMMA UsesTyped == \A u \in Uses \cup EventUses : u \in Dicts \X Kinds /\ u[2] \in KindsOf(u[1])
<1>1. \A u \in Uses \cup EventUses : u \in Dicts \X Kinds
  BY DictsAssumption
<1>2. ASSUME NEW u \in Uses \cup EventUses PROVE u[2] \in KindsOf(u[1])
  BY <1>2 DEF KindsOf
<1> QED BY <1>1, <1>2

\* A udict that has lines still has some after a step that takes no line of it for another kind.
LEMMA LinesLeft ==
  ASSUME UdictHasLines, NEW d0 \in Dicts, NEW kind \in KindsOf(d0), cached' = cached,
         \A e \in Dicts : e # d0 => Available(vStates', e) = Available(vStates, e),
         kind = "udict" => Available(vStates', d0) # {}
  PROVE  UdictHasLines'
<1> SUFFICES ASSUME NEW d \in Dicts, KindsOf(d) = {"udict"}
             PROVE  Available(vStates', d) # {} /\ Available(cached', d) # {}
  BY DEF UdictHasLines
<1>1. Available(vStates, d) # {} /\ Available(cached, d) # {}
  BY DEF UdictHasLines
<1> QED BY <1>1

LEMMA UndoableInit == Init => Undoable
<1> SUFFICES ASSUME Init PROVE Undoable
  OBVIOUS
<1>1. /\ vStates = <<>> /\ cached = <<>> /\ vLog = <<>> /\ stage = "idle" /\ left = 0
      /\ before = AllAvailable(<<>>)
  BY DEF Init
<1>2. Typed
  <2>1. before \in [Dicts -> SUBSET Lines] /\ vStates \in States /\ cached \in States
    BY <1>1, AvailableType
  <2>2. vLog \in Seq(Taken) /\ left \in Int
    BY <1>1
  <2> QED BY <2>1, <2>2 DEF Typed
<1>3. UdictHasLines
  BY <1>1, AvailableType, DictsAssumption DEF UdictHasLines
<1>4. CandidateUndoable
  BY <1>1 DEF CandidateUndoable
<1> QED BY <1>2, <1>3, <1>4 DEF Undoable

\* Steps that move between the states of the request, the cache and memory.
LEMMA MovesKeep ==
  ASSUME Undoable, Load \/ SameDicts \/ Drop \/ CandidateSucceeds \/ EndSearch \/ Save \/ Abandon \/ UNCHANGED vars
  PROVE  Undoable'
<1>1. /\ vStates' \in {vStates, cached, <<>>} /\ cached' \in {cached, vStates}
      /\ vLog' = vLog \/ vLog' = <<>>
      /\ before' = before \/ before' = AllAvailable(<<>>)
  BY DEF Load, SameDicts, Drop, CandidateSucceeds, EndSearch, Save, Abandon, NoCandidate, vars, history
<1>2. Typed'
  <2>1. left' \in Int
    BY DictsAssumption DEF Load, SameDicts, Drop, CandidateSucceeds, EndSearch, Save, Abandon, vars, Undoable, Typed
  <2>2. before' \in [Dicts -> SUBSET Lines]
    BY <1>1, AvailableType DEF Undoable, Typed
  <2>3. vLog' \in Seq(Taken)
    <3>1. vLog \in Seq(Taken) /\ <<>> \in Seq(Taken)
      BY DEF Undoable, Typed
    <3>2. vLog' = vLog \/ vLog' = <<>>
      BY <1>1
    <3> QED BY <3>1, <3>2, Zenon
  <2>4. vStates' \in States /\ cached' \in States
    BY <1>1, AvailableType DEF Undoable, Typed
  <2> QED BY <2>1, <2>2, <2>3, <2>4 DEF Typed
<1>3. UdictHasLines'
  <2> SUFFICES ASSUME NEW d \in Dicts, KindsOf(d) = {"udict"}
               PROVE  Available(vStates', d) # {} /\ Available(cached', d) # {}
    BY DEF UdictHasLines
  <2>1. Available(vStates, d) # {} /\ Available(cached, d) # {} /\ Available(<<>>, d) # {}
    BY AvailableType, DictsAssumption DEF Undoable, UdictHasLines
  <2> QED BY <1>1, <2>1
<1>4. CandidateUndoable'
  <2>1. CASE UNCHANGED vars
    BY <2>1 DEF vars, history, Undoable, CandidateUndoable, LinesIn
  <2>2. CASE ~UNCHANGED vars
    BY <2>2 DEF Load, SameDicts, Drop, CandidateSucceeds, EndSearch, Save, Abandon, CandidateUndoable
  <2> QED BY <2>1, <2>2
<1> QED BY <1>2, <1>3, <1>4 DEF Undoable

LEMMA TakesKeep ==
  ASSUME Undoable,
         \/ \E u \in EventUses, l \in Lines : EventTakes(u[1], u[2], l)
         \/ \E u \in Uses, l \in Lines : CandidateTakes(u[1], u[2], l)
  PROVE  Undoable'
<1>1. PICK u \in Uses \cup EventUses, l \in Lines : EventTakes(u[1], u[2], l) \/ CandidateTakes(u[1], u[2], l)
  OBVIOUS
<1> DEFINE d == u[1]
           kind == u[2]
<1>2. d \in Dicts /\ kind \in KindsOf(d)
  BY UsesTyped
<1>3. CanTake(d, kind, l) /\ Take(d, kind, l) /\ UNCHANGED <<cached, before, logged, left>> /\ stage' = stage
  BY <1>1 DEF EventTakes, CandidateTakes
<1> HIDE DEF d, kind
<1>4. /\ vStates' \in States /\ vLog' \in Seq(Taken)
      /\ \A e \in Dicts : e # d => Available(vStates', e) = Available(vStates, e)
      /\ Available(vStates, d) \subseteq Available(vStates', d) \cup {l}
      /\ kind = "udict" => Available(vStates', d) # {}
      /\ ~Restarts(d, kind, l) => Available(vStates', d) = Available(vStates, d) \ {l} /\ l \in Available(vStates, d)
      /\ LinesIn(vLog', d) = LinesIn(vLog, d) \cup {l}
      /\ \A e \in Dicts : e # d => LinesIn(vLog', e) = LinesIn(vLog, e)
  BY <1>2, <1>3, Taking DEF Undoable
<1>5. Typed'
  BY <1>3, <1>4 DEF Undoable, Typed
<1>6. UdictHasLines'
  BY <1>2, <1>3, <1>4, LinesLeft DEF Undoable
<1>7. CandidateUndoable'
  <2> SUFFICES ASSUME stage = "candidate", NEW e \in Dicts
               PROVE  /\ before[e] \subseteq Available(vStates', e) \cup LinesIn(vLog', e)
                      /\ ~refilled' => Available(vStates', e) \cup LinesIn(vLog', e)
                                         = before[e] \cup { m \in Lines : <<e, m>> \in logged }
    BY <1>3 DEF CandidateUndoable
  <2>1. /\ before[e] \subseteq Available(vStates, e) \cup LinesIn(vLog, e)
        /\ ~refilled => Available(vStates, e) \cup LinesIn(vLog, e)
                          = before[e] \cup { m \in Lines : <<e, m>> \in logged }
    BY DEF Undoable, CandidateUndoable
  <2>2. refilled' = (refilled \/ Restarts(d, kind, l))
    BY <1>1 DEF EventTakes, CandidateTakes, d, kind
  <2>3. CASE e # d
    BY <1>4, <2>1, <2>2, <2>3
  <2>4. CASE e = d
    <3>1. before[d] \subseteq Available(vStates', d) \cup LinesIn(vLog', d)
      BY <1>4, <2>1, <2>4
    <3>2. ASSUME ~refilled'
          PROVE  Available(vStates', d) \cup LinesIn(vLog', d) = Available(vStates, d) \cup LinesIn(vLog, d)
      BY <1>4, <2>2, <3>2
    <3> QED BY <2>1, <2>2, <2>4, <3>1, <3>2
  <2> QED BY <2>3, <2>4
<1> QED BY <1>5, <1>6, <1>7 DEF Undoable

LEMMA SearchKeeps ==
  ASSUME Undoable, StartCandidate \/ CandidateFails \/ GroupFails \/ (\E d \in Dicts : Estimate(d))
  PROVE  Undoable'
<1>1. CASE StartCandidate
  <2>1. /\ UNCHANGED <<vStates, vLog, cached, left>> /\ logged' = Logged /\ before' = AllAvailable(vStates)
    BY <1>1 DEF StartCandidate
  <2>2. Typed'
    BY <2>1, AvailableType DEF Undoable, Typed
  <2>3. UdictHasLines'
    BY <2>1 DEF Undoable, UdictHasLines
  <2>4. ASSUME NEW d \in Dicts
        PROVE  before'[d] = Available(vStates', d) /\ LinesIn(vLog', d) = { l \in Lines : <<d, l>> \in logged' }
    BY <2>1, LogSays DEF AllAvailable
  <2>5. CandidateUndoable'
    BY <2>4 DEF CandidateUndoable
  <2> QED BY <2>2, <2>3, <2>5 DEF Undoable
<1>2. CASE CandidateFails \/ GroupFails
  <2>1. /\ RollbackLastChanges /\ cached' = cached /\ stage' = "search" /\ left' = left
        /\ before' = before \/ before' = AllAvailable(<<>>)
    BY <1>2 DEF CandidateFails, GroupFails, NoCandidate, history
  <2>2. /\ vStates' \in States /\ vLog' \in Seq(Taken)
        /\ \A d \in Dicts : Available(vStates, d) \subseteq Available(vStates', d)
    BY <2>1, RollingBack DEF Undoable
  <2>3. Typed'
    BY <2>1, <2>2, AvailableType DEF Undoable, Typed
  <2>4. UdictHasLines'
    <3> SUFFICES ASSUME NEW d \in Dicts, KindsOf(d) = {"udict"}
                 PROVE  Available(vStates', d) # {} /\ Available(cached', d) # {}
      BY DEF UdictHasLines
    <3>1. Available(vStates, d) # {} /\ Available(cached, d) # {}
      BY DEF Undoable, UdictHasLines
    <3> QED BY <2>1, <2>2, <3>1
  <2>5. CandidateUndoable'
    BY <2>1 DEF CandidateUndoable
  <2> QED BY <2>3, <2>4, <2>5 DEF Undoable
<1>3. ASSUME NEW d \in Dicts, Estimate(d) PROVE Undoable'
  <2>1. /\ stage = "search" /\ vStates' = SetBox(vStates, d, Lines) /\ <<d, "udict">> \in Uses
        /\ UNCHANGED <<vLog, cached, stage, before, left>>
    BY <1>3 DEF Estimate, history
  <2>2. /\ vStates' \in States /\ Available(vStates', d) = Lines
        /\ \A e \in Dicts : e # d => Available(vStates', e) = Available(vStates, e)
    BY <2>1, SetBoxIs DEF Undoable, Typed
  <2>3. Typed'
    BY <2>1, <2>2 DEF Undoable, Typed
  <2>4. UdictHasLines'
    <3>1. "udict" \in KindsOf(d)
      <4> DEFINE u == <<d, "udict">>
      <4>1. u \in Uses /\ u[1] = d /\ u[2] = "udict"
        BY <2>1
      <4> HIDE DEF u
      <4> QED BY <4>1, UsesTyped
    <3> QED BY <2>1, <2>2, <3>1, LinesLeft, DictsAssumption DEF Undoable
  <2>5. CandidateUndoable'
    BY <2>1 DEF CandidateUndoable
  <2> QED BY <2>3, <2>4, <2>5 DEF Undoable
<1> QED BY <1>1, <1>2, <1>3

LEMMA UndoableStep == Undoable /\ [Next]_vars => Undoable'
BY MovesKeep, TakesKeep, SearchKeeps DEF Next

\* A dictionary that is only used as a udict has a line left whenever one is asked of it, however many
\* dictionaries, lines and requests there are.
THEOREM UdictsHaveLines == Spec => []UdictHasLines
<1>1. Undoable => UdictHasLines
  BY DEF Undoable
<1> QED BY <1>1, UndoableInit, UndoableStep, PTL DEF Spec

LEMMA GivingUp ==
  ASSUME Undoable, [Next]_vars, GivesUp
  PROVE  CandidateFails
<1>1. left' = left /\ left \in Int /\ stage = "candidate" /\ stage' = "search"
  BY DEF GivesUp, Undoable, Typed
<1>2. left - 1 # left
  BY <1>1
<1>3. stage' # stage
  BY <1>1
<1>4. ~CandidateSucceeds
  BY <1>1, <1>2 DEF CandidateSucceeds
<1>5. /\ ~Load /\ ~SameDicts /\ ~Drop /\ ~StartCandidate /\ ~GroupFails /\ ~EndSearch /\ ~Save
      /\ ~(\E d \in Dicts : Estimate(d)) /\ ~UNCHANGED vars
  BY <1>1 DEF vars, Load, SameDicts, Drop, StartCandidate, GroupFails, EndSearch, Save, Estimate
<1>6. ~Abandon
  BY <1>1 DEF Abandon
<1>7. /\ ~\E u \in EventUses, l \in Lines : EventTakes(u[1], u[2], l)
      /\ ~\E u \in Uses, l \in Lines : CandidateTakes(u[1], u[2], l)
  BY <1>3 DEF EventTakes, CandidateTakes
<1> QED BY <1>4, <1>5, <1>6, <1>7 DEF Next

\* A candidate that is given up makes no line unavailable, whatever it took and however often a udict
\* started again, unless the rollback stops at a dictionary that was dropped.
THEOREM NoLineIsLost == Spec => NothingLost
<1>1. Undoable /\ [Next]_vars =>
        (GivesUp /\ ~Orphaned => \A d \in Dicts : before[d] \subseteq Available(vStates', d))
  <2> SUFFICES ASSUME Undoable, [Next]_vars, GivesUp, ~Orphaned, NEW d \in Dicts
               PROVE  before[d] \subseteq Available(vStates', d)
    OBVIOUS
  <2>1. RollbackLastChanges /\ stage = "candidate"
    BY GivingUp DEF CandidateFails
  <2>2. Available(vStates', d) = Available(vStates, d) \cup LinesIn(vLog, d)
    BY <2>1, RollingBack DEF Undoable
  <2>3. before[d] \subseteq Available(vStates, d) \cup LinesIn(vLog, d)
    BY <2>1 DEF Undoable, CandidateUndoable
  <2> QED BY <2>2, <2>3
<1> QED BY <1>1, UndoableInit, UndoableStep, PTL DEF Spec, NothingLost

\* A candidate that is given up and made no udict start again leaves the dictionaries as it found them,
\* but for the lines that were in the log before it, which go back as well.
THEOREM FailuresAreUndone == Spec => FailureUndone
<1>1. Undoable /\ [Next]_vars =>
        (GivesUp /\ ~refilled /\ ~Orphaned =>
           \A d \in Dicts : Available(vStates', d) = before[d] \cup { l \in Lines : <<d, l>> \in logged })
  <2> SUFFICES ASSUME Undoable, [Next]_vars, GivesUp, ~refilled, ~Orphaned, NEW d \in Dicts
               PROVE  Available(vStates', d) = before[d] \cup { l \in Lines : <<d, l>> \in logged }
    OBVIOUS
  <2>1. RollbackLastChanges /\ stage = "candidate"
    BY GivingUp DEF CandidateFails
  <2>2. Available(vStates', d) = Available(vStates, d) \cup LinesIn(vLog, d)
    BY <2>1, RollingBack DEF Undoable
  <2>3. Available(vStates, d) \cup LinesIn(vLog, d) = before[d] \cup { l \in Lines : <<d, l>> \in logged }
    BY <2>1 DEF Undoable, CandidateUndoable
  <2> QED BY <2>2, <2>3
<1> QED BY <1>1, UndoableInit, UndoableStep, PTL DEF Spec, FailureUndone

-----------------------------------------------------------------------------
(* A sudict hands out every line once                                      *)

\* What makes it so: a request does one search, and the answers of events take from udicts.
OneSearch == Searches = 1 /\ \A u \in EventUses : u[2] = "udict"

SudictOnly(d) == KindsOf(d) = {"sudict"}

\* While there is a search to do, no line that was given away can still be rolled back; what the
\* candidate took is not available.
Given(d, l) ==
  /\ <<d, l>> \in usedCached => l \notin Available(cached, d)
  /\ stage # "idle" /\ <<d, l>> \in used => l \notin Available(vStates, d)
  /\ stage # "idle" /\ left = 1 /\ <<d, l>> \in used => l \notin LinesIn(vLog, d)
  /\ stage = "candidate" /\ <<d, l>> \in drawn => l \notin Available(vStates, d)

GivenStay ==
  /\ left \in {0, 1}
  /\ stage = "candidate" => left = 1
  /\ \A d \in Dicts, l \in Lines : SudictOnly(d) => Given(d, l)

LEMMA GivenStayMoves ==
  ASSUME OneSearch, Undoable, GivenStay,
         \/ Load \/ SameDicts \/ Drop \/ StartCandidate \/ CandidateSucceeds \/ EndSearch \/ Save \/ Abandon
         \/ UNCHANGED vars
  PROVE  GivenStay'
<1>1. left' \in {0, 1} /\ (stage' = "candidate" => left' = 1)
  BY DEF OneSearch, GivenStay, Load, SameDicts, Drop, StartCandidate, CandidateSucceeds, EndSearch, Save, Abandon, vars
<1>2. ASSUME NEW d \in Dicts, NEW l \in Lines, SudictOnly(d)
      PROVE  Given(d, l)'
  <2>1. Given(d, l)
    BY <1>2 DEF GivenStay, Given
  <2>2. CASE Load
    <3>1. vLog' = <<>> /\ vStates' = cached /\ cached' = cached /\ used' = usedCached /\ usedCached' = usedCached /\ stage' = "events"
      BY <2>2 DEF Load
    <3>2. l \notin LinesIn(<<>>, d)
      BY DEF LinesIn
    <3> QED BY <2>1, <3>1, <3>2 DEF Given
  <2>3. CASE Drop
    BY <2>1, <2>3 DEF Given, Drop
  <2>4. CASE SameDicts \/ EndSearch \/ StartCandidate
    BY <2>1, <2>4 DEF Given, SameDicts, EndSearch, StartCandidate, history
  <2>5. CASE CandidateSucceeds
    <3>1. left' = 0
      BY <2>5 DEF CandidateSucceeds, GivenStay
    <3> QED BY <2>1, <2>5, <3>1 DEF Given, CandidateSucceeds
  <2>6. CASE Save \/ Abandon
    BY <2>1, <2>6 DEF Given, Save, Abandon
  <2>7. CASE UNCHANGED vars
    BY <2>1, <2>7 DEF Given, vars, history
  <2> QED BY <2>2, <2>3, <2>4, <2>5, <2>6, <2>7
<1> QED BY <1>1, <1>2 DEF GivenStay, Given

LEMMA GivenStayTakes ==
  ASSUME OneSearch, Undoable, GivenStay,
         \/ \E u \in EventUses, l \in Lines : EventTakes(u[1], u[2], l)
         \/ \E u \in Uses, l \in Lines : CandidateTakes(u[1], u[2], l)
  PROVE  GivenStay'
<1>1. PICK u \in Uses \cup EventUses, m \in Lines :
        \/ u \in EventUses /\ EventTakes(u[1], u[2], m)
        \/ CandidateTakes(u[1], u[2], m)
  OBVIOUS
<1> DEFINE c == u[1]
           kind == u[2]
<1>2. c \in Dicts /\ kind \in KindsOf(c)
  BY UsesTyped
<1>3. /\ CanTake(c, kind, m) /\ Take(c, kind, m) /\ UNCHANGED <<cached, usedCached, left, stage>>
      /\ stage \in {"events", "candidate"}
      /\ \/ kind = "udict" /\ used' = used \cup Sudict(c, kind, m) /\ drawn' = drawn
         \/ used' = used /\ drawn' = drawn \cup Sudict(c, kind, m)
  BY <1>1 DEF EventTakes, CandidateTakes, OneSearch
<1> HIDE DEF c, kind
<1>4. /\ \A e \in Dicts : e # c => Available(vStates', e) = Available(vStates, e)
      /\ kind # "udict" => Available(vStates', c) = Available(vStates, c) \ {m} /\ m \in Available(vStates, c)
      /\ LinesIn(vLog', c) = LinesIn(vLog, c) \cup {m}
      /\ \A e \in Dicts : e # c => LinesIn(vLog', e) = LinesIn(vLog, e)
  BY <1>2, <1>3, Taking DEF Undoable
<1>5. ASSUME NEW d \in Dicts, NEW l \in Lines, SudictOnly(d)
      PROVE  Given(d, l)'
  <2>1. Given(d, l)
    BY <1>5 DEF GivenStay, Given
  <2>2. d = c => kind = "sudict"
    BY <1>2, <1>5 DEF SudictOnly
  <2>3. Sudict(c, kind, m) = IF kind = "sudict" THEN {<<c, m>>} ELSE {}
    BY DEF Sudict
  <2>4. CASE d # c
    <3>1. <<d, l>> \notin Sudict(c, kind, m)
      BY <2>3, <2>4
    <3> QED BY <1>3, <1>4, <2>1, <2>4, <3>1 DEF Given
  <2>5. CASE d = c
    <3>1. used' = used /\ drawn' = drawn \cup {<<c, m>>}
      BY <1>3, <2>2, <2>3, <2>5
    <3>2. /\ Available(vStates', d) = Available(vStates, d) \ {m} /\ m \in Available(vStates, d)
          /\ LinesIn(vLog', d) = LinesIn(vLog, d) \cup {m}
      BY <1>4, <2>2, <2>5
    <3> QED BY <1>3, <2>1, <2>5, <3>1, <3>2 DEF Given
  <2> QED BY <2>4, <2>5
<1> QED BY <1>3, <1>5 DEF GivenStay, Given

LEMMA GivenStayRolls ==
  ASSUME OneSearch, Undoable, GivenStay, CandidateFails \/ GroupFails \/ (\E d \in Dicts : Estimate(d))
  PROVE  GivenStay'
<1>1. CASE CandidateFails \/ GroupFails
  <2>1. /\ RollbackLastChanges /\ UNCHANGED <<cached, left, used, usedCached>> /\ stage' = "search"
        /\ stage \in {"candidate", "search"} /\ left = 1
    BY <1>1 DEF CandidateFails, GroupFails, history, GivenStay
  <2>2. ASSUME NEW d \in Dicts, NEW l \in Lines, SudictOnly(d)
        PROVE  Given(d, l)'
    <3>1. Given(d, l)
      BY <2>2 DEF GivenStay, Given
    <3>2. /\ Available(vStates', d) \subseteq Available(vStates, d) \cup LinesIn(vLog, d)
          /\ LinesIn(vLog', d) \subseteq LinesIn(vLog, d)
      BY <2>1, RollingBack DEF Undoable
    <3> QED BY <2>1, <3>1, <3>2 DEF Given
  <2> QED BY <2>1, <2>2 DEF GivenStay, Given
<1>2. ASSUME NEW c \in Dicts, Estimate(c) PROVE GivenStay'
  <2>1. /\ vStates' = SetBox(vStates, c, Lines) /\ <<c, "udict">> \in Uses /\ UNCHANGED <<vLog, cached, stage, left, history>>
    BY <1>2 DEF Estimate
  <2>2. \A e \in Dicts : e # c => Available(vStates', e) = Available(vStates, e)
    BY <2>1, SetBoxIs DEF Undoable, Typed
  <2>3. "udict" \in KindsOf(c)
    <3> DEFINE u == <<c, "udict">>
    <3>1. u \in Uses /\ u[1] = c /\ u[2] = "udict"
      BY <2>1
    <3> HIDE DEF u
    <3> QED BY <3>1, UsesTyped
  <2>4. ASSUME NEW d \in Dicts, NEW l \in Lines, SudictOnly(d)
        PROVE  Given(d, l)'
    <3>1. Given(d, l) /\ d # c
      BY <2>3, <2>4 DEF GivenStay, Given, SudictOnly
    <3> QED BY <2>1, <2>2, <3>1 DEF Given, history
  <2> QED BY <2>1, <2>4 DEF GivenStay, Given
<1> QED BY <1>1, <1>2

\* With one search in a request and events that take from udicts only, a sudict line that was given to
\* the user is not available again until the dictionaries change, whatever candidates were rolled back.
THEOREM SudictLinesOnce == ASSUME OneSearch PROVE Spec => []SudictOnce
<1>1. Init => GivenStay
  BY DEF Init, GivenStay, Given
<1>2. Undoable /\ GivenStay /\ [Next]_vars => GivenStay'
  BY GivenStayMoves, GivenStayTakes, GivenStayRolls DEF Next
<1>3. GivenStay => SudictOnce
  BY DEF GivenStay, Given, SudictOnce, SudictOnly
<1> QED BY <1>1, <1>2, <1>3, UndoableInit, UndoableStep, PTL DEF Spec

-------------------------------------------------------------------------------
(* The box of a dictionary, which is a set of lines above.  For a          *)
(* dictionary of any size, the mask and the queue of its random box hold   *)
(* the same numbers, and the box implements DrawBox.                       *)

\* Any set of line numbers is finite, and all of them are Size many.
LEMMA NumsFinite ==
  /\ Cardinality(Nums) = Size
  /\ \A S \in SUBSET Nums : IsFiniteSet(S) /\ Cardinality(S) \in Nat
<1>1. IsFiniteSet(Nums) /\ Cardinality(Nums) = Size
  BY SizeAssumption, FS_Interval DEF Nums
<1>2. ASSUME NEW S \in SUBSET Nums
      PROVE  IsFiniteSet(S) /\ Cardinality(S) \in Nat
  BY <1>1, FS_Subset, FS_CardinalityType
<1> QED BY <1>1, <1>2

\* What the queue built by Refresh looks like.
LEMMA ShuffleFacts ==
  ASSUME NEW m \in SUBSET Nums, NEW q \in Shuffles(m)
  PROVE  /\ q \in Seq(Nums)
         /\ Len(q) = Cardinality(m)
         /\ \A i, j \in DOMAIN q : q[i] = q[j] => i = j
         /\ m = { q[i] : i \in Len(q) - Cardinality(m) + 1 .. Len(q) }
<1>1. Cardinality(m) \in Nat
  BY NumsFinite
<1> DEFINE c == Cardinality(m)
<1>2. q \in [1 .. c -> m] /\ \A n \in m : \E i \in DOMAIN q : q[i] = n
  BY DEF Shuffles
<1> HIDE DEF c
<1>3. c \in Nat
  BY <1>1 DEF c
<1>4. q \in Seq(Nums) /\ Len(q) = c
  BY <1>2, <1>3
<1>5. Len(q) - c + 1 .. Len(q) = 1 .. c
  BY <1>3, <1>4
<1>6. m = { q[i] : i \in Len(q) - c + 1 .. Len(q) }
  <2>1. DOMAIN q = 1 .. c
    BY <1>2
  <2> QED BY <1>2, <1>5, <2>1
<1>7. \A i, j \in DOMAIN q : q[i] = q[j] => i = j
  BY DEF Shuffles
<1> QED BY <1>4, <1>6, <1>7 DEF c

\* Rebuilding the queue establishes the invariant whatever was there before.
LEMMA RefreshEstablishes ==
  ASSUME vMask' \in SUBSET Nums, vQueue' \in Shuffles(vMask'),
         vLeftInBox' = Cardinality(vMask')
  PROVE  /\ vQueue' \in Seq(Nums)
         /\ vLeftInBox' \in 0 .. Len(vQueue')
         /\ QueueIsMask'
         /\ RemainingAmount'
<1>1. /\ vQueue' \in Seq(Nums)
      /\ Len(vQueue') = Cardinality(vMask')
      /\ \A i, j \in DOMAIN vQueue' : vQueue'[i] = vQueue'[j] => i = j
      /\ vMask' = { vQueue'[i] :
                      i \in Len(vQueue') - Cardinality(vMask') + 1 .. Len(vQueue') }
  BY ShuffleFacts
<1>2. Cardinality(vMask') \in Nat
  BY NumsFinite
<1>3. vLeftInBox' \in 0 .. Len(vQueue')
  BY <1>1, <1>2
<1>4. QueueIsMask'
  BY <1>1 DEF QueueIsMask, Undrawn
<1> QED BY <1>1, <1>3, <1>4 DEF RemainingAmount

\* A plain draw hands out a number of the mask and consumes the queue and the
\* mask alike.
LEMMA DrawConsumes ==
  ASSUME BoxInv, TakeFromBox
  PROVE  /\ out' \in vMask
         /\ vMask' = vMask \ {out'}
         /\ BoxInv'
<1> DEFINE len == Len(vQueue)
           at == len - vLeftInBox + 1
<1> USE DEF BoxInv
<1>1. /\ len \in Nat /\ vLeftInBox \in 1 .. len /\ at \in 1 .. len
      /\ vQueue \in [1 .. len -> Nums]
  BY DEF BoxTypeOK, TakeFromBox
<1>2. /\ out' = vQueue[at] /\ vMask' = vMask \ {vQueue[at]}
      /\ vLeftInBox' = vLeftInBox - 1 /\ vQueue' = vQueue /\ saved' = saved
  BY DEF TakeFromBox
<1> HIDE DEF len, at
<1>3. Undrawn = at .. len /\ Undrawn' = at + 1 .. len
  BY <1>1, <1>2 DEF Undrawn, len, at
<1>4. out' \in vMask
  BY <1>1, <1>2, <1>3 DEF QueueIsMask
<1>5. QueueIsMask'
  <2>1. \A i \in at + 1 .. len : vQueue[i] # vQueue[at]
    BY <1>1 DEF QueueIsMask
  <2>2. at .. len = {at} \cup (at + 1 .. len)
    BY <1>1
  <2>3. vMask = {vQueue[at]} \cup { vQueue[i] : i \in at + 1 .. len }
    BY <1>3, <2>2 DEF QueueIsMask
  <2>4. vMask' = { vQueue[i] : i \in at + 1 .. len }
    BY <1>2, <2>1, <2>3
  <2> QED BY <1>2, <1>3, <2>4 DEF QueueIsMask
<1>6. RemainingAmount'
  <2>1. IsFiniteSet(vMask)
    BY NumsFinite DEF BoxTypeOK
  <2>2. Cardinality(vMask \ {out'}) = Cardinality(vMask) - 1
    BY <1>4, <2>1, FS_RemoveElement
  <2> QED BY <1>2, <2>2 DEF RemainingAmount
<1>7. BoxTypeOK'
  BY <1>1, <1>2 DEF BoxTypeOK, len
<1> QED BY <1>2, <1>4, <1>5, <1>6, <1>7
-----------------------------------------------------------------------------
LEMMA BoxInvInit == InitBox => BoxInv
<1> SUFFICES ASSUME InitBox PROVE BoxInv
  OBVIOUS
<1>1. /\ vQueue \in Seq(Nums)
      /\ Len(vQueue) = Cardinality(Nums)
      /\ \A i, j \in DOMAIN vQueue : vQueue[i] = vQueue[j] => i = j
      /\ Nums = { vQueue[i] : i \in Len(vQueue) - Cardinality(Nums) + 1 .. Len(vQueue) }
  BY ShuffleFacts DEF InitBox
<1>2. Cardinality(Nums) = Size
  BY NumsFinite
<1>3. QueueIsMask
  BY <1>1, <1>2 DEF QueueIsMask, Undrawn, InitBox
<1>4. BoxTypeOK
  BY <1>1, <1>2, SizeAssumption DEF BoxTypeOK, InitBox
<1> QED BY <1>2, <1>3, <1>4 DEF BoxInv, RemainingAmount, InitBox

LEMMA BoxInvNext == BoxInv /\ [NextBox]_boxVars => BoxInv'
<1> SUFFICES ASSUME BoxInv, [NextBox]_boxVars PROVE BoxInv'
  OBVIOUS
<1> DEFINE Rebuilt == /\ vMask' \in SUBSET Nums
                      /\ Refresh(vMask')
                      /\ UNCHANGED <<out, saved>>
<1>1. ASSUME Rebuilt PROVE BoxInv'
  <2>1. /\ vQueue' \in Seq(Nums) /\ vLeftInBox' \in 0 .. Len(vQueue')
        /\ QueueIsMask' /\ RemainingAmount'
    BY <1>1, RefreshEstablishes DEF Refresh
  <2> QED BY <1>1, <2>1 DEF BoxInv, BoxTypeOK
<1>2. CASE TakeFromBox
  BY <1>2, DrawConsumes
<1>3. CASE TakeFromEmptyBox
  BY <1>3 DEF TakeFromEmptyBox, BoxInv, BoxTypeOK, QueueIsMask, Undrawn, RemainingAmount
<1>4. CASE Reset
  BY <1>1, <1>4 DEF Reset, Refresh
<1>5. CASE SaveBox
  BY <1>5 DEF SaveBox, BoxInv, BoxTypeOK, QueueIsMask, Undrawn, RemainingAmount
<1>6. CASE LoadBox
  BY <1>1, <1>6 DEF LoadBox, Refresh, BoxInv, BoxTypeOK
<1>7. ASSUME NEW n \in Nums, TakeNumber(n) PROVE BoxInv'
  BY <1>1, <1>7 DEF TakeNumber, Refresh, BoxInv, BoxTypeOK
<1>8. ASSUME NEW n \in Nums, RetriveToBox(n) PROVE BoxInv'
  BY <1>1, <1>8 DEF RetriveToBox, Refresh, BoxInv, BoxTypeOK
<1>9. CASE UNCHANGED boxVars
  BY <1>9 DEF boxVars, BoxInv, BoxTypeOK, QueueIsMask, Undrawn, RemainingAmount
<1> QED BY <1>2, <1>3, <1>4, <1>5, <1>6, <1>7, <1>8, <1>9 DEF NextBox

\* For every size, the mask and what is left of the queue hold the same
\* numbers, each once, and the remaining amount counts them (Refresh and both
\* TakeFromBox of NanoRandomBox.cpp).
THEOREM BoxAlwaysAgrees == RandomBoxSpec => [](BoxTypeOK /\ QueueIsMask /\ RemainingAmount)
<1>1. RandomBoxSpec => []BoxInv
  BY BoxInvInit, BoxInvNext, PTL DEF RandomBoxSpec
<1>2. BoxInv => BoxTypeOK /\ QueueIsMask /\ RemainingAmount
  BY DEF BoxInv
<1> QED BY <1>1, <1>2, PTL

\* The counter that decides whether a box is empty is the number of the lines
\* inside, for every size.
THEOREM CounterIsRight == RandomBoxSpec => []RemainingAmount
<1>1. BoxTypeOK /\ QueueIsMask /\ RemainingAmount => RemainingAmount
  OBVIOUS
<1> QED BY <1>1, BoxAlwaysAgrees, PTL
-----------------------------------------------------------------------------
LEMMA BoxInitRefines == InitBox => Box!Init
BY DEF InitBox, Box!Init, Nums, Box!Nums

LEMMA BoxNextRefines == BoxInv /\ [NextBox]_boxVars => [Box!Next]_(Box!vars)
<1> SUFFICES ASSUME BoxInv, [NextBox]_boxVars PROVE [Box!Next]_(Box!vars)
  OBVIOUS
<1> USE DEF Box!Next, Box!Nums, Nums
<1>1. CASE TakeFromBox
  <2>1. out' \in vMask /\ vMask' = vMask \ {out'}
    BY <1>1, DrawConsumes
  <2>2. Box!Draw
    BY <1>1, <2>1 DEF TakeFromBox, Box!Draw
  <2> QED BY <2>2
<1>2. CASE TakeFromEmptyBox
  <2>1. vMask = {}
    <3>1. IsFiniteSet(vMask)
      BY NumsFinite DEF BoxInv, BoxTypeOK
    <3>2. Cardinality(vMask) = 0
      BY <1>2 DEF TakeFromEmptyBox, BoxInv, RemainingAmount
    <3> QED BY <3>1, <3>2, FS_EmptySet
  <2>2. Box!Refuse
    BY <1>2, <2>1 DEF TakeFromEmptyBox, Box!Refuse
  <2> QED BY <2>2
<1>3. CASE Reset
  BY <1>3 DEF Reset, Refresh, Box!Refill
<1>4. CASE SaveBox
  BY <1>4 DEF SaveBox, Box!Store
<1>5. CASE LoadBox
  BY <1>5 DEF LoadBox, Refresh, Box!Reload
<1>6. ASSUME NEW n \in Nums, TakeNumber(n) PROVE Box!Next
  BY <1>6 DEF TakeNumber, Refresh, Box!Remove
<1>7. ASSUME NEW n \in Nums, RetriveToBox(n) PROVE Box!Next
  BY <1>7 DEF RetriveToBox, Refresh, Box!Return
<1>8. CASE UNCHANGED boxVars
  BY <1>8 DEF boxVars, Box!vars
<1> QED BY <1>1, <1>2, <1>3, <1>4, <1>5, <1>6, <1>7, <1>8 DEF NextBox

\* For every size, a random box is a DrawBox: it never hands out a number that
\* it does not hold, nor refuses while it holds one.
THEOREM BoxKeepsItsPromise == RandomBoxSpec => BoxSpec
<1>1. RandomBoxSpec => []BoxInv
  BY BoxInvInit, BoxInvNext, PTL DEF RandomBoxSpec
<1>2. InitBox /\ []BoxInv /\ [][NextBox]_boxVars => Box!Init /\ [][Box!Next]_(Box!vars)
  BY BoxInitRefines, BoxNextRefines, PTL
<1> QED BY <1>1, <1>2, PTL DEF RandomBoxSpec, BoxSpec, Box!Spec
=============================================================================
