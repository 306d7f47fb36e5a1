----------------------- MODULE AnswerSelection_proofs -----------------------
(***************************************************************************)
(* For any patterns, answers, modifiers and weights: the three lists of a  *)
(* group, shuffled and sorted, give an answer that AnswerPolicy allows,    *)
(* and an answer with the modifier Uniq is given once in a session.        *)
(***************************************************************************)
EXTENDS AnswerSelection, FiniteSetTheorems, SequenceTheorems, TLAPS

-----------------------------------------------------------------------------
(* Lists *)

In(q) == { q[i] : i \in DOMAIN q }
OnceEach(q) == \A i, j \in DOMAIN q : q[i] = q[j] => i = j

\* How a list of answers that wait for their turn is sorted.
LowLast(q) == \A i, j \in DOMAIN q : i < j =>
                /\ q[i] \in Last => q[j] \in Last
                /\ q[j] \notin Last => Modifier[q[i]] >= Modifier[q[j]]

LEMMA ModifierType == \A a \in Answers : Modifier[a] \in Int
BY SelectionAssumption

\* A shuffled list has every answer of the set, once.
LEMMA ShuffleIs ==
  ASSUME NEW S \in SUBSET Answers, NEW q \in Shuffles(S)
  PROVE  q \in Seq(Answers) /\ In(q) = S /\ OnceEach(q)
<1>1. IsFiniteSet(S) /\ Cardinality(S) \in Nat
  BY SelectionAssumption, FS_Subset, FS_CardinalityType
<1>2. q \in [1 .. Cardinality(S) -> S] /\ OnceEach(q)
  BY DEF Shuffles, OnceEach
<1>3. q \in Injection(1 .. Cardinality(S), S)
  BY <1>2 DEF Injection, IsInjective, OnceEach
<1>4. Cardinality(1 .. Cardinality(S)) = Cardinality(S)
  BY <1>1, FS_Interval
<1>5. q \in Surjection(1 .. Cardinality(S), S)
  BY <1>1, <1>3, <1>4, FS_Injection
<1>6. In(q) = S
  BY <1>2, <1>5 DEF Surjection, In
<1>7. q \in Seq(Answers)
  BY <1>1, <1>2
<1> QED BY <1>2, <1>6, <1>7

\* Two lists one after the other: high priority first.
LEMMA LUniqOrderIs ==
  ASSUME NEW S \in SUBSET Answers, NEW q \in LUniqOrders(S)
  PROVE  q \in Seq(Answers) /\ In(q) = S /\ OnceEach(q) /\ LowLast(q)
<1>1. PICK high \in Orders(S \ Last), low \in Shuffles(S \cap Last) : q = high \o low
  <2>1. PICK lists \in Orders(S \ Last) \X Shuffles(S \cap Last) : q = lists[1] \o lists[2]
    BY DEF LUniqOrders
  <2> QED BY <2>1
<1>2. /\ high \in Seq(Answers) /\ In(high) = S \ Last /\ OnceEach(high) /\ Sorted(high)
      /\ low \in Seq(Answers) /\ In(low) = S \cap Last /\ OnceEach(low)
  <2>1. high \in Shuffles(S \ Last) /\ Sorted(high)
    BY DEF Orders
  <2> QED BY <2>1, ShuffleIs
<1>3. /\ q \in Seq(Answers) /\ Len(q) = Len(high) + Len(low)
      /\ \A i \in 1 .. Len(high) + Len(low) : q[i] = IF i <= Len(high) THEN high[i] ELSE low[i - Len(high)]
  BY <1>1, <1>2, ConcatProperties
<1>4. /\ DOMAIN q = 1 .. Len(high) + Len(low) /\ DOMAIN high = 1 .. Len(high) /\ DOMAIN low = 1 .. Len(low)
      /\ Len(high) \in Nat /\ Len(low) \in Nat
  BY <1>2, <1>3
<1>5. /\ \A i \in DOMAIN high : i \in DOMAIN q /\ q[i] = high[i] /\ q[i] \in S \ Last
      /\ \A i \in DOMAIN low : i + Len(high) \in DOMAIN q /\ q[i + Len(high)] = low[i]
      /\ \A i \in DOMAIN low : low[i] \in S \cap Last
  BY <1>2, <1>3, <1>4 DEF In
<1>6. \A i \in DOMAIN q : \/ i \in DOMAIN high
                          \/ i > Len(high) /\ i - Len(high) \in DOMAIN low /\ q[i] = low[i - Len(high)]
  BY <1>3, <1>4
<1>7. In(q) = S
  <2>1. ASSUME NEW a \in S PROVE a \in In(q)
    <3>1. CASE a \in Last
      <4>1. PICK i \in DOMAIN low : low[i] = a
        BY <1>2, <3>1 DEF In
      <4> QED BY <1>5, <4>1 DEF In
    <3>2. CASE a \notin Last
      <4>1. PICK i \in DOMAIN high : high[i] = a
        BY <1>2, <3>2 DEF In
      <4> QED BY <1>5, <4>1 DEF In
    <3> QED BY <3>1, <3>2
  <2>2. ASSUME NEW i \in DOMAIN q PROVE q[i] \in S
    BY <1>5, <1>6
  <2> QED BY <2>1, <2>2 DEF In
<1>8. OnceEach(q)
  <2> SUFFICES ASSUME NEW i \in DOMAIN q, NEW j \in DOMAIN q, q[i] = q[j] PROVE i = j
    BY DEF OnceEach
  <2>1. CASE i \in DOMAIN high /\ j \in DOMAIN high
    BY <1>2, <1>5, <2>1 DEF OnceEach
  <2>2. CASE i \notin DOMAIN high /\ j \notin DOMAIN high
    <3>1. i - Len(high) = j - Len(high)
      BY <1>2, <1>6, <2>2 DEF OnceEach
    <3>2. i \in Int /\ j \in Int
      BY <1>4
    <3> QED BY <1>4, <3>1, <3>2
  <2>3. CASE (i \in DOMAIN high) # (j \in DOMAIN high)
    BY <1>5, <1>6, <2>3
  <2> QED BY <2>1, <2>2, <2>3
<1>9. LowLast(q)
  <2> SUFFICES ASSUME NEW i \in DOMAIN q, NEW j \in DOMAIN q, i < j
               PROVE  /\ q[i] \in Last => q[j] \in Last
                      /\ q[j] \notin Last => Modifier[q[i]] >= Modifier[q[j]]
    BY DEF LowLast
  <2>1. q[i] \in Last => i \notin DOMAIN high
    BY <1>5
  <2>2. i \notin DOMAIN high => j \notin DOMAIN high
    BY <1>4, <1>6
  <2>3. j \notin DOMAIN high => q[j] \in Last
    BY <1>5, <1>6
  <2>4. q[j] \notin Last => i \in DOMAIN high /\ j \in DOMAIN high
    BY <2>2, <2>3
  <2>5. q[j] \notin Last => Modifier[q[i]] >= Modifier[q[j]]
    BY <1>2, <1>5, <2>4 DEF Sorted
  <2> QED BY <2>1, <2>2, <2>3, <2>5
<1> QED BY <1>3, <1>7, <1>8, <1>9

\* What is true of a list stays true when its head is taken off.
LEMMA TailIs ==
  ASSUME NEW q \in Seq(Answers), q # <<>>
  PROVE  /\ Tail(q) \in Seq(Answers) /\ Head(q) \in Answers
         /\ In(q) = In(Tail(q)) \cup {Head(q)}
         /\ Sorted(q) => Sorted(Tail(q)) /\ \A a \in In(q) : Modifier[a] <= Modifier[Head(q)]
         /\ OnceEach(q) => OnceEach(Tail(q))
         /\ LowLast(q) => /\ LowLast(Tail(q))
                          /\ \A a \in In(q) : a \notin Last => Head(q) \notin Last /\ Modifier[a] <= Modifier[Head(q)]
<1>1. /\ Tail(q) \in Seq(Answers) /\ Head(q) = q[1] /\ 1 \in DOMAIN q /\ Head(q) \in Answers
      /\ DOMAIN q = 1 .. Len(q) /\ DOMAIN Tail(q) = 1 .. Len(q) - 1 /\ Len(q) \in Nat
      /\ \A i \in 1 .. Len(q) - 1 : Tail(q)[i] = q[i + 1]
  OBVIOUS
<1>2. \A i \in DOMAIN Tail(q) : i \in Nat /\ i + 1 \in DOMAIN q /\ Tail(q)[i] = q[i + 1]
  BY <1>1
<1>3. \A i \in DOMAIN q : i \in Nat /\ (i = 1 \/ (i > 1 /\ i - 1 \in DOMAIN Tail(q) /\ Tail(q)[i - 1] = q[i]))
  BY <1>1
<1>4. In(q) = In(Tail(q)) \cup {Head(q)}
  <2>1. \A i \in DOMAIN q : q[i] \in In(Tail(q)) \cup {Head(q)}
    BY <1>1, <1>3 DEF In
  <2>2. \A i \in DOMAIN Tail(q) : Tail(q)[i] \in In(q)
    BY <1>2 DEF In
  <2>3. Head(q) \in In(q)
    BY <1>1 DEF In
  <2> QED BY <2>1, <2>2, <2>3 DEF In
<1>5. Sorted(q) => Sorted(Tail(q))
  BY <1>2 DEF Sorted
<1>6. OnceEach(q) => OnceEach(Tail(q))
  BY <1>2 DEF OnceEach
<1>7. LowLast(q) => LowLast(Tail(q))
  BY <1>2 DEF LowLast
<1>8. ASSUME Sorted(q), NEW a \in In(q) PROVE Modifier[a] <= Modifier[Head(q)]
  <2>1. PICK i \in DOMAIN q : a = q[i]
    BY DEF In
  <2>2. Modifier[q[i]] \in Int /\ Modifier[q[1]] \in Int
    BY <1>1, ModifierType
  <2> QED BY <1>1, <1>3, <1>8, <2>1, <2>2 DEF Sorted
<1>9. ASSUME LowLast(q), NEW a \in In(q), a \notin Last
      PROVE  Head(q) \notin Last /\ Modifier[a] <= Modifier[Head(q)]
  <2>1. PICK i \in DOMAIN q : a = q[i]
    BY DEF In
  <2>2. Modifier[q[i]] \in Int /\ Modifier[q[1]] \in Int
    BY <1>1, ModifierType
  <2> QED BY <1>1, <1>3, <1>9, <2>1, <2>2 DEF LowLast
<1> QED BY <1>1, <1>4, <1>5, <1>6, <1>7, <1>8, <1>9

-----------------------------------------------------------------------------
(* What AnswerPolicy allows, said of the groups                            *)

Best(S) == { a \in S : \A b \in S : Modifier[b] <= Modifier[a] }

\* An answer with the modifier Uniq that was given.
Spent(a) == a \in Uniq \ LUniq /\ Flagged(a)

\* What can be given, and which of it decides.
Can == { a \in buildable : ~Spent(a) }
Heaviest == { a \in Can : \A b \in Can : weight[PatternOf[b]] <= weight[PatternOf[a]] }
FreshOnes == Heaviest \ ((vAnswersFlags \cap Marked) \cup Last)
Turns == Heaviest \cap vAnswersFlags \cap LUniq
LowOnes == (Heaviest \cap Last) \ (vAnswersFlags \cap Marked)

\* The policy by the flags as they were when the request came, which they are until a trial.
Allowed == IF FreshOnes # {} THEN Best(FreshOnes)
           ELSE IF Turns \ Last # {} THEN Best(Turns \ Last)
           ELSE IF Turns # {} THEN Turns
           ELSE Best(LowOnes)

LEMMA AllowedIs == cleared = {} => Policy!Allowed(buildable) = Allowed
<1> SUFFICES ASSUME cleared = {} PROVE Policy!Allowed(buildable) = Allowed
  OBVIOUS
<1>1. Policy!UsedUp = vAnswersFlags \cap Marked /\ Policy!Waiting = vAnswersFlags \cap LUniq
  BY DEF Policy!UsedUp, Policy!Waiting, Policy!Marked, Marked
<1>2. buildable \ (Policy!UsedUp \ Policy!Waiting) = Can
  BY <1>1 DEF Can, Spent, Flagged, Marked
<1>3. Policy!Heaviest(Can) = Heaviest
  BY DEF Policy!Heaviest, Heaviest
<1>4. /\ Policy!Fresh(Heaviest) = FreshOnes /\ Heaviest \cap Policy!Waiting = Turns
      /\ Policy!Low(Heaviest) = LowOnes
  BY <1>1 DEF Policy!Fresh, FreshOnes, Turns, Policy!Low, LowOnes
<1>5. \A S : Policy!Best(S) = Best(S)
  BY DEF Policy!Best, Best
<1> QED BY <1>2, <1>3, <1>4, <1>5 DEF Policy!Allowed, Allowed

LEMMA AllowedWillBe == (cleared = {} => Policy!Allowed(buildable) = Allowed)'
BY AllowedIs, PTL

Typed ==
  /\ vAnswersFlags \subseteq Answers
  /\ DOMAIN weight \subseteq Patterns /\ weight \in [DOMAIN weight -> Nat]
  /\ matched \subseteq DOMAIN weight
  /\ passing \subseteq Of(DOMAIN weight) /\ buildable \subseteq passing
  /\ order \in Seq(Answers)

\* No answer of a group that is done can be given.
GroupsDone == \A a \in buildable : PatternOf[a] \in matched \/ Spent(a)

\* If one answer of the group can be given, the group decides.
LEMMA GroupDecides ==
  ASSUME Typed, GroupsDone, NEW h \in Can, h \in Of(Group)
  PROVE  Heaviest = Can \cap Of(Group)
<1>1. \A a \in buildable : a \in Answers /\ PatternOf[a] \in DOMAIN weight
  BY DEF Typed, Of
<1>2. \A a \in Can : a \in buildable /\ PatternOf[a] \in matched /\ weight[PatternOf[a]] \in Nat
  BY <1>1 DEF Can, GroupsDone, Typed
<1>3. \A p \in matched : weight[p] \in Nat
  BY DEF Typed
<1>4. PatternOf[h] \in Group /\ PatternOf[h] \in matched
  BY DEF Of, Group
<1>5. ASSUME NEW a \in Can \cap Of(Group), NEW b \in Can PROVE weight[PatternOf[b]] <= weight[PatternOf[a]]
  BY <1>2 DEF Of, Group
<1>6. ASSUME NEW a \in Heaviest PROVE a \in Of(Group)
  <2>1. a \in Can /\ weight[PatternOf[h]] <= weight[PatternOf[a]]
    BY DEF Heaviest
  <2>2. ASSUME NEW q \in matched PROVE weight[q] <= weight[PatternOf[a]]
    <3>1. weight[q] <= weight[PatternOf[h]]
      BY <1>4 DEF Group
    <3> QED BY <1>2, <1>3, <1>4, <2>1, <3>1
  <2> QED BY <1>1, <1>2, <2>1, <2>2 DEF Of, Group
<1>7. Heaviest \subseteq Can
  BY DEF Heaviest
<1>8. ASSUME NEW a \in Can \cap Of(Group) PROVE a \in Heaviest
  BY <1>5 DEF Heaviest
<1> QED BY <1>6, <1>7, <1>8

\* The three lists are what the policy calls fresh, waiting and low.
LEMMA ListsAre ==
  ASSUME Typed, GroupsDone, NEW h \in buildable, h \in vAnswers \cup vLUniqAnswers \cup vLastAnswers
  PROVE  /\ FreshOnes = buildable \cap vAnswers
         /\ Turns = buildable \cap vLUniqAnswers
         /\ LowOnes = buildable \cap vLastAnswers
<1>1. h \in Can /\ h \in Of(Group)
  BY DEF Can, Spent, Marked, Flagged, vAnswers, vLUniqAnswers, vLastAnswers
<1>2. Heaviest = Can \cap Of(Group)
  BY <1>1, GroupDecides
<1>3. buildable \subseteq passing
  BY DEF Typed
<1>4. FreshOnes = buildable \cap vAnswers
  BY <1>2, <1>3 DEF FreshOnes, Can, Spent, Marked, Flagged, vAnswers
<1>5. Turns = buildable \cap vLUniqAnswers
  BY <1>2, <1>3 DEF Turns, Can, Spent, Marked, Flagged, vLUniqAnswers
<1>6. LowOnes = buildable \cap vLastAnswers
  BY <1>2, <1>3 DEF LowOnes, Can, Spent, Marked, Flagged, vLastAnswers
<1> QED BY <1>4, <1>5, <1>6

\* With nothing left to match, nothing is allowed.
LEMMA NothingAllowed == GroupsDone /\ matched = {} => Allowed = {}
<1> SUFFICES ASSUME GroupsDone, matched = {} PROVE Allowed = {}
  OBVIOUS
<1>1. Can = {}
  BY DEF GroupsDone, Can
<1>2. Heaviest = {}
  BY <1>1 DEF Heaviest
<1>3. FreshOnes = {} /\ Turns = {} /\ LowOnes = {}
  BY <1>2 DEF FreshOnes, Turns, LowOnes
<1> QED BY <1>3 DEF Allowed, Best

\* A spent answer is never allowed.
LEMMA AllowedIsNew == \A a \in Allowed : a \in buildable /\ ~Spent(a)
<1>1. Heaviest \subseteq Can
  BY DEF Heaviest
<1>2. FreshOnes \subseteq Can /\ Turns \subseteq Can /\ LowOnes \subseteq Can
  BY <1>1 DEF FreshOnes, Turns, LowOnes
<1>3. \A S : Best(S) \subseteq S
  BY DEF Best
<1>4. Allowed \subseteq Can
  BY <1>2, <1>3 DEF Allowed
<1> QED BY <1>4 DEF Can

-----------------------------------------------------------------------------
(* The invariant of CreateAnswer                                           *)

\* What has not been tried of a list is still in the order.
Left(list) == In(order) \subseteq list /\ \A a \in buildable : a \in list => a \in In(order)
NoneOf(list) == \A a \in buildable : a \notin list

MayReturn(a) == IF a \in vAnswersFlags \cap LUniq
                THEN { b \in (vAnswersFlags \cap LUniq) \ {a} : PatternOf[b] = PatternOf[a] }
                ELSE {}

Searching ==
  /\ stage \in Stages
  /\ stage # "update" => cleared = {}
  /\ stage \in {"collect", "answers", "luniq", "last"} => GroupsDone
  /\ stage = "answers" => Left(vAnswers) /\ Sorted(order)
  /\ stage = "luniq" => NoneOf(vAnswers) /\ Left(vLUniqAnswers) /\ LowLast(order) /\ OnceEach(order)
  /\ stage = "last" => NoneOf(vAnswers) /\ NoneOf(vLUniqAnswers) /\ Left(vLastAnswers) /\ Sorted(order)
  /\ stage = "trial" => answer \in Allowed /\ In(order) \subseteq MayReturn(answer)

\* What is about to be given, with the answers whose turn comes again, which have lost their flags.
Deciding ==
  stage = "update" =>
    /\ answer \in Answers => answer \in Policy!Allowed(buildable) /\ cleared \subseteq Policy!MayReturn(answer)
                             /\ ~Spent(answer)
    /\ answer \notin Answers => answer = None /\ cleared = {} /\ Policy!Allowed(buildable) = {}
    /\ cleared \cap vAnswersFlags = {}

\* What is remembered of the answers with the modifier Uniq.
Remembered == \A a \in Uniq \ LUniq : /\ a \in given => a \in vAnswersFlags
                                      /\ a \in vAnswersFlags => a \in given \/ a = Zero

Selecting == Typed /\ Searching /\ Deciding /\ Remembered

\* A step that leaves the flags and the request alone leaves the groups, the lists and what is allowed.
LEMMA SameRequest ==
  ASSUME UNCHANGED <<vAnswersFlags, request>>
  PROVE  /\ UNCHANGED <<vAnswersFlags, matched, weight, passing, buildable>>
         /\ Group' = Group /\ vAnswers' = vAnswers /\ vLUniqAnswers' = vLUniqAnswers
         /\ vLastAnswers' = vLastAnswers /\ Allowed' = Allowed /\ Can' = Can
         /\ (GroupsDone' <=> GroupsDone) /\ (\A a : MayReturn(a)' = MayReturn(a))
         /\ (\A a : Spent(a)' <=> Spent(a))
<1>1. UNCHANGED <<vAnswersFlags, matched, weight, passing, buildable>>
  BY DEF request, offered
<1>2. \A a : Spent(a)' <=> Spent(a)
  BY <1>1 DEF Spent, Flagged
<1>3. Group' = Group
  BY <1>1 DEF Group
<1>4. vAnswers' = vAnswers /\ vLUniqAnswers' = vLUniqAnswers /\ vLastAnswers' = vLastAnswers
  BY <1>1, <1>3 DEF vAnswers, vLUniqAnswers, vLastAnswers, Flagged
<1>5. Can' = Can
  BY <1>1, <1>2 DEF Can
<1>6. Heaviest' = Heaviest
  BY <1>1, <1>5 DEF Heaviest
<1>7. FreshOnes' = FreshOnes /\ Turns' = Turns /\ LowOnes' = LowOnes
  BY <1>1, <1>6 DEF FreshOnes, Turns, LowOnes
<1>8. Allowed' = Allowed
  BY <1>7 DEF Allowed, Best
<1>9. GroupsDone' <=> GroupsDone
  BY <1>1, <1>2 DEF GroupsDone
<1>10. \A a : MayReturn(a)' = MayReturn(a)
  BY <1>1 DEF MayReturn
<1> QED BY <1>1, <1>2, <1>3, <1>4, <1>5, <1>8, <1>9, <1>10

LEMMA ListsTyped == /\ vAnswers \in SUBSET Answers /\ vLUniqAnswers \in SUBSET Answers
                    /\ vLastAnswers \in SUBSET Answers
BY DEF vAnswers, vLUniqAnswers, vLastAnswers, Of

LEMMA OrderIs ==
  ASSUME NEW S \in SUBSET Answers, NEW q \in Orders(S)
  PROVE  q \in Seq(Answers) /\ In(q) = S /\ Sorted(q)
BY ShuffleIs DEF Orders

\* Steps that take up a list.
LEMMA ListsKeep ==
  ASSUME Selecting, Collect \/ StartLUniq \/ StartLast
  PROVE  Selecting'
<1>1. UNCHANGED <<vAnswersFlags, request, answer, cleared, given>> /\ stage' # "update" /\ stage # "update"
  BY DEF Collect, StartLUniq, StartLast, NothingBuilt, history
<1>2. UNCHANGED <<vAnswersFlags, request>>
  BY <1>1
<1>3. Deciding' /\ Remembered'
  BY <1>1 DEF Deciding, Remembered, Selecting
<1>4. CASE Collect
  <2>1. order' \in Orders(vAnswers) /\ stage = "collect" /\ stage' = "answers"
    BY <1>4 DEF Collect
  <2>2. order' \in Seq(Answers) /\ In(order') = vAnswers /\ Sorted(order')
    BY <2>1, ListsTyped, OrderIs
  <2>3. Typed'
    BY <1>2, <2>2, SameRequest DEF Selecting, Typed
  <2>4. Searching'
    BY <1>1, <1>2, <2>1, <2>2, SameRequest DEF Selecting, Searching, Left, Stages
  <2> QED BY <1>3, <2>3, <2>4 DEF Selecting
<1>5. CASE StartLUniq
  <2>1. order = <<>> /\ order' \in LUniqOrders(vLUniqAnswers) /\ stage = "answers" /\ stage' = "luniq"
    BY <1>5 DEF StartLUniq, NothingBuilt
  <2>2. order' \in Seq(Answers) /\ In(order') = vLUniqAnswers /\ LowLast(order') /\ OnceEach(order')
    BY <2>1, ListsTyped, LUniqOrderIs
  <2>3. Typed'
    BY <1>2, <2>2, SameRequest DEF Selecting, Typed
  <2>4. NoneOf(vAnswers)
    BY <2>1 DEF Selecting, Searching, Left, NoneOf, In
  <2>5. Searching'
    BY <1>1, <1>2, <2>1, <2>2, <2>4, SameRequest DEF Selecting, Searching, Left, NoneOf, Stages
  <2> QED BY <1>3, <2>3, <2>5 DEF Selecting
<1>6. CASE StartLast
  <2>1. order = <<>> /\ order' \in Orders(vLastAnswers) /\ stage = "luniq" /\ stage' = "last"
    BY <1>6 DEF StartLast, NothingBuilt
  <2>2. order' \in Seq(Answers) /\ In(order') = vLastAnswers /\ Sorted(order')
    BY <2>1, ListsTyped, OrderIs
  <2>3. Typed'
    BY <1>2, <2>2, SameRequest DEF Selecting, Typed
  <2>4. NoneOf(vAnswers) /\ NoneOf(vLUniqAnswers)
    BY <2>1 DEF Selecting, Searching, Left, NoneOf, In
  <2>5. Searching'
    BY <1>1, <1>2, <2>1, <2>2, <2>4, SameRequest DEF Selecting, Searching, Left, NoneOf, Stages
  <2> QED BY <1>3, <2>3, <2>5 DEF Selecting
<1> QED BY <1>4, <1>5, <1>6

LEMMA TryNextKeeps == ASSUME Selecting, TryNext PROVE Selecting'
<1>1. /\ stage \in {"answers", "luniq", "last"} /\ stage' = stage /\ order # <<>> /\ Head(order) \notin buildable
      /\ order' = Tail(order) /\ UNCHANGED <<vAnswersFlags, request, answer, cleared, given>>
  BY DEF TryNext, history
<1>2. UNCHANGED <<vAnswersFlags, request>>
  BY <1>1
<1>3. order \in Seq(Answers)
  BY DEF Selecting, Typed
<1>4. /\ order' \in Seq(Answers) /\ In(order) = In(order') \cup {Head(order)}
      /\ Sorted(order) => Sorted(order')
      /\ OnceEach(order) => OnceEach(order')
      /\ LowLast(order) => LowLast(order')
  BY <1>1, <1>3, TailIs
<1>5. \A list : Left(list) => In(order') \subseteq list /\ \A a \in buildable : a \in list => a \in In(order')
  BY <1>1, <1>4 DEF Left
<1>6. Typed'
  BY <1>2, <1>4, SameRequest DEF Selecting, Typed
<1>7. Searching'
  BY <1>1, <1>2, <1>4, <1>5, SameRequest DEF Selecting, Searching, Left, NoneOf
<1>8. Deciding' /\ Remembered'
  BY <1>1 DEF Deciding, Remembered, Selecting
<1> QED BY <1>6, <1>7, <1>8 DEF Selecting

LEMMA BuildKeeps == ASSUME Selecting, Build PROVE Selecting'
<1>1. /\ stage \in {"answers", "last"} /\ stage' = "update" /\ order # <<>> /\ Head(order) \in buildable
      /\ answer' = Head(order) /\ order' = <<>> /\ UNCHANGED <<vAnswersFlags, request, cleared, given>>
      /\ cleared = {}
  BY DEF Build, history, Selecting, Searching
<1>2. UNCHANGED <<vAnswersFlags, request>>
  BY <1>1
<1> DEFINE h == Head(order)
<1>3. /\ h \in Answers /\ h \in In(order)
      /\ Sorted(order) => \A a \in In(order) : Modifier[a] <= Modifier[h]
  BY <1>1, TailIs DEF Selecting, Typed
<1>4. Typed /\ GroupsDone
  BY <1>1 DEF Selecting, Searching
<1> HIDE DEF h
<1>5. h \in Allowed
  <2>1. CASE stage = "answers"
    <3>1. h \in vAnswers /\ h \in buildable /\ Sorted(order) /\ Left(vAnswers)
      BY <1>1, <1>3, <2>1 DEF Selecting, Searching, Left, h
    <3>2. FreshOnes = buildable \cap vAnswers
      BY <1>4, <3>1, ListsAre
    <3>3. h \in Best(FreshOnes)
      BY <1>3, <3>1, <3>2 DEF Best, Left
    <3> QED BY <3>1, <3>2, <3>3 DEF Allowed
  <2>2. CASE stage = "last"
    <3>1. h \in vLastAnswers /\ h \in buildable /\ Sorted(order) /\ Left(vLastAnswers) /\ NoneOf(vAnswers) /\ NoneOf(vLUniqAnswers)
      BY <1>1, <1>3, <2>2 DEF Selecting, Searching, Left, h
    <3>2. FreshOnes = buildable \cap vAnswers /\ Turns = buildable \cap vLUniqAnswers /\ LowOnes = buildable \cap vLastAnswers
      BY <1>4, <3>1, ListsAre
    <3>3. FreshOnes = {} /\ Turns = {}
      BY <3>1, <3>2 DEF NoneOf
    <3>4. h \in Best(LowOnes)
      BY <1>3, <3>1, <3>2 DEF Best, Left
    <3> QED BY <3>3, <3>4 DEF Allowed
  <2> QED BY <1>1, <2>1, <2>2
<1>6. Policy!Allowed(buildable)' = Allowed'
  <2>1. cleared' = {}
    BY <1>1
  <2> QED BY <2>1, AllowedWillBe
<1>7. ~Spent(h)
  BY <1>5, AllowedIsNew
<1>8. Deciding'
  BY <1>1, <1>2, <1>3, <1>5, <1>6, <1>7, SameRequest DEF Deciding, h
<1>9. Typed'
  BY <1>1, <1>2, SameRequest DEF Selecting, Typed
<1>10. Searching'
  BY <1>1 DEF Searching, Stages
<1>11. Remembered'
  BY <1>1 DEF Remembered, Selecting
<1> QED BY <1>8, <1>9, <1>10, <1>11 DEF Selecting

LEMMA BuildLUniqKeeps == ASSUME Selecting, BuildLUniq PROVE Selecting'
<1>1. /\ stage = "luniq" /\ stage' = "trial" /\ order # <<>> /\ Head(order) \in buildable
      /\ answer' = Head(order) /\ UNCHANGED <<vAnswersFlags, request, cleared, given>>
      /\ \E n \in 1 .. Len(order) : EndsAt(order, n) /\ order' = SubSeq(order, 2, n)
  BY DEF BuildLUniq, history
<1>2. UNCHANGED <<vAnswersFlags, request>>
  BY <1>1
<1> DEFINE h == Head(order)
<1>3. PICK n \in 1 .. Len(order) : EndsAt(order, n) /\ order' = SubSeq(order, 2, n)
  BY <1>1
<1>4. order \in Seq(Answers) /\ Len(order) \in Nat /\ DOMAIN order = 1 .. Len(order) /\ h = order[1] /\ 1 \in DOMAIN order
  BY <1>1 DEF Selecting, Typed
<1>5. /\ h \in Answers /\ h \in In(order)
      /\ \A a \in In(order) : a \notin Last => h \notin Last /\ Modifier[a] <= Modifier[h]
  BY <1>1, TailIs DEF Selecting, Searching, Typed
<1>6. Typed /\ GroupsDone /\ NoneOf(vAnswers) /\ Left(vLUniqAnswers) /\ OnceEach(order)
  BY <1>1 DEF Selecting, Searching
<1>7. h \in vLUniqAnswers /\ h \in buildable
  BY <1>1, <1>5, <1>6 DEF Left
<1> HIDE DEF h
<1>8. FreshOnes = {} /\ Turns = buildable \cap vLUniqAnswers
  <2>1. FreshOnes = buildable \cap vAnswers /\ Turns = buildable \cap vLUniqAnswers
    BY <1>6, <1>7, ListsAre
  <2> QED BY <1>6, <2>1 DEF NoneOf
<1>9. h \in Allowed
  <2>1. CASE h \in Last
    <3>1. Turns \ Last = {}
      BY <1>5, <1>6, <1>8, <2>1 DEF Left
    <3> QED BY <1>7, <1>8, <3>1 DEF Allowed
  <2>2. CASE h \notin Last
    <3>1. h \in Best(Turns \ Last)
      BY <1>5, <1>6, <1>7, <1>8, <2>2 DEF Left, Best
    <3> QED BY <1>7, <1>8, <2>2, <3>1 DEF Allowed
  <2> QED BY <2>1, <2>2
<1>10. order' \in Seq(Answers) /\ \A i \in DOMAIN order' : i + 1 \in 2 .. n /\ order'[i] = order[i + 1]
  <2>1. n \in Int /\ \A i \in 2 .. n : order[i] \in Answers
    BY <1>4
  <2>2. /\ order' \in Seq(Answers)
        /\ Len(order') = IF 2 <= n THEN n - 2 + 1 ELSE 0
        /\ \A i \in 1 .. n - 2 + 1 : order'[i] = order[2 + i - 1]
    BY <1>3, <2>1, SubSeqProperties
  <2>3. \A i \in DOMAIN order' : i \in 1 .. n - 2 + 1 /\ 2 + i - 1 = i + 1 /\ i + 1 \in 2 .. n
    BY <2>1, <2>2
  <2> QED BY <2>2, <2>3
<1>11. In(order') \subseteq MayReturn(h)
  <2> SUFFICES ASSUME NEW i \in DOMAIN order' PROVE order'[i] \in MayReturn(h)
    BY DEF In
  <2>1. i + 1 \in 2 .. n /\ i + 1 \in DOMAIN order /\ order'[i] = order[i + 1] /\ i + 1 # 1 /\ i + 1 \in 1 .. n
    BY <1>3, <1>4, <1>10
  <2>2. order[i + 1] \in vLUniqAnswers
    BY <1>6, <2>1 DEF Left, In
  <2>3. order[i + 1] # h
    BY <1>4, <1>6, <2>1 DEF OnceEach
  <2>4. PatternOf[order[i + 1]] = PatternOf[h]
    BY <1>3, <1>4, <2>1 DEF EndsAt
  <2> QED BY <1>7, <2>1, <2>2, <2>3, <2>4 DEF MayReturn, vLUniqAnswers, Flagged
<1>12. Typed'
  BY <1>2, <1>10, SameRequest DEF Selecting, Typed
<1>13. Searching'
  BY <1>1, <1>2, <1>9, <1>11, SameRequest DEF Selecting, Searching, Stages, h
<1>14. Deciding' /\ Remembered'
  BY <1>1 DEF Deciding, Remembered, Selecting
<1> QED BY <1>12, <1>13, <1>14 DEF Selecting

LEMMA TrialKeeps ==
  ASSUME Selecting, NEW again \in SUBSET Answers, Trial(again)
  PROVE  Selecting' /\ vAnswersFlags' \cup cleared' = vAnswersFlags \cup cleared
<1>1. /\ stage = "trial" /\ stage' = "update" /\ again \subseteq In(order)
      /\ vAnswersFlags' = vAnswersFlags \ again /\ cleared' = again /\ order' = <<>>
      /\ UNCHANGED <<request, answer, given>> /\ cleared = {}
  BY DEF Trial, In, history, Selecting, Searching
<1>2. UNCHANGED <<matched, weight, passing, buildable, answer>>
  BY <1>1 DEF request, offered
<1>3. answer \in Allowed /\ again \subseteq MayReturn(answer)
  BY <1>1 DEF Selecting, Searching
<1>4. again \subseteq vAnswersFlags \cap LUniq
  BY <1>3 DEF MayReturn
<1>5. vAnswersFlags' \cup cleared' = vAnswersFlags \cup cleared /\ cleared' \cap vAnswersFlags' = {}
  BY <1>1, <1>4
<1>6. Policy!Allowed(buildable)' = Policy!Allowed(buildable)
  BY <1>2, <1>5 DEF Policy!Allowed, Policy!Heaviest, Policy!Fresh, Policy!Low, Policy!Best, Policy!Waiting,
                    Policy!UsedUp, Policy!Marked
<1>7. Policy!Allowed(buildable) = Allowed
  BY <1>1, AllowedIs
<1>8. Policy!MayReturn(answer)' = MayReturn(answer)
  BY <1>1, <1>2, <1>5 DEF Policy!MayReturn, Policy!Waiting, MayReturn
<1>9. answer \in buildable /\ ~Spent(answer) /\ answer \in Answers
  BY <1>3, AllowedIsNew DEF Selecting, Typed, Of
<1>10. ~Spent(answer)'
  BY <1>1, <1>2, <1>9 DEF Spent, Flagged
<1>11. Deciding'
  BY <1>1, <1>2, <1>3, <1>5, <1>6, <1>7, <1>8, <1>9, <1>10 DEF Deciding
<1>12. Typed'
  BY <1>1, <1>2 DEF Selecting, Typed
<1>13. Searching'
  BY <1>1 DEF Searching, Stages
<1>14. Remembered'
  BY <1>1, <1>4 DEF Selecting, Remembered
<1> QED BY <1>5, <1>11, <1>12, <1>13, <1>14 DEF Selecting

LEMMA NextGroupKeeps == ASSUME Selecting, NextGroup PROVE Selecting'
<1>1. /\ stage = "last" /\ stage' = "collect" /\ order = <<>> /\ matched' = matched \ Group
      /\ UNCHANGED <<vAnswersFlags, weight, passing, buildable, order, answer, cleared, given>>
  BY DEF NextGroup, offered, history
<1>2. NoneOf(vAnswers) /\ NoneOf(vLUniqAnswers) /\ NoneOf(vLastAnswers) /\ GroupsDone /\ cleared = {}
  BY <1>1 DEF Selecting, Searching, Left, NoneOf, In
<1>3. GroupsDone'
  <2> SUFFICES ASSUME NEW a \in buildable, PatternOf[a] \notin matched \ Group PROVE Spent(a)
    BY <1>1 DEF GroupsDone, Spent, Flagged
  <2>1. a \in passing /\ a \in Answers
    BY DEF Selecting, Typed, Of
  <2>2. CASE PatternOf[a] \notin matched
    BY <1>2, <2>2 DEF GroupsDone
  <2>3. CASE PatternOf[a] \in Group
    <3>1. a \in Of(Group) \cap passing
      BY <2>1, <2>3 DEF Of
    <3>2. a \notin vAnswers /\ a \notin vLUniqAnswers /\ a \notin vLastAnswers
      BY <1>2 DEF NoneOf
    <3> QED BY <3>1, <3>2 DEF vAnswers, vLUniqAnswers, vLastAnswers, Marked, Spent
  <2> QED BY <2>2, <2>3
<1>4. Typed'
  BY <1>1 DEF Selecting, Typed
<1>5. Searching'
  BY <1>1, <1>2, <1>3 DEF Searching, Stages
<1>6. Deciding' /\ Remembered'
  BY <1>1 DEF Deciding, Remembered, Selecting
<1> QED BY <1>4, <1>5, <1>6 DEF Selecting

LEMMA NotFoundKeeps == ASSUME Selecting, NotFound PROVE Selecting'
<1>1. /\ stage = "collect" /\ stage' = "update" /\ matched = {} /\ answer' = None
      /\ UNCHANGED <<vAnswersFlags, request, order, cleared, given>>
  BY DEF NotFound, history
<1>2. UNCHANGED <<vAnswersFlags, request>>
  BY <1>1
<1>3. Allowed = {} /\ cleared = {}
  BY <1>1, NothingAllowed DEF Selecting, Searching
<1>4. Policy!Allowed(buildable)' = Allowed'
  <2>1. cleared' = {}
    BY <1>1, <1>3
  <2> QED BY <2>1, AllowedWillBe
<1>5. Deciding'
  BY <1>1, <1>2, <1>3, <1>4, SameRequest, SelectionAssumption DEF Deciding
<1>6. Typed'
  BY <1>1, <1>2, SameRequest DEF Selecting, Typed
<1>7. Searching'
  BY <1>1 DEF Searching, Stages
<1>8. Remembered'
  BY <1>1 DEF Remembered, Selecting
<1> QED BY <1>5, <1>6, <1>7, <1>8 DEF Selecting

LEMMA AskKeeps ==
  ASSUME Selecting, NEW M \in SUBSET Patterns, NEW P \in SUBSET Of(M), NEW B \in SUBSET P, Ask(M, P, B)
  PROVE  Selecting'
<1>1. /\ stage = "idle" /\ stage' = "collect" /\ weight' \in [M -> Weights]
      /\ matched' = M /\ passing' = P /\ buildable' = B
      /\ UNCHANGED <<vAnswersFlags, order, answer, cleared, given>> /\ cleared = {}
  BY DEF Ask, history, Selecting, Searching
<1>2. Typed'
  <2>1. DOMAIN weight' = M /\ weight' \in [M -> Nat]
    BY <1>1, SelectionAssumption
  <2> QED BY <1>1, <2>1 DEF Selecting, Typed
<1>3. GroupsDone'
  BY <1>1 DEF GroupsDone, Of
<1>4. Searching'
  BY <1>1, <1>3 DEF Searching, Stages
<1>5. Deciding' /\ Remembered'
  BY <1>1 DEF Deciding, Remembered, Selecting
<1> QED BY <1>2, <1>4, <1>5 DEF Selecting

LEMMA UpdateKeeps == ASSUME Selecting, Update PROVE Selecting'
<1>1. /\ stage = "update" /\ stage' = "idle" /\ vAnswersFlags' = vAnswersFlags \cup {Recorded(answer)}
      /\ given' = given \cup ({answer} \cap Marked) /\ cleared' = {}
      /\ weight' = <<>> /\ matched' = {} /\ passing' = {} /\ buildable' = {} /\ order' = order
  BY DEF Update
<1>2. answer = None \/ answer \in Answers
  BY <1>1 DEF Selecting, Deciding
<1>3. Recorded(answer) \in Answers /\ (answer \in Answers => Recorded(answer) = answer)
      /\ (answer = None => Recorded(answer) = Zero)
  BY <1>2, SelectionAssumption DEF Recorded
<1>4. Typed'
  <2>1. DOMAIN weight' = {} /\ weight' \in [{} -> Nat]
    BY <1>1
  <2> QED BY <1>1, <1>3, <2>1 DEF Selecting, Typed
<1>5. Searching' /\ Deciding'
  BY <1>1 DEF Searching, Deciding, Stages
<1>6. Remembered'
  <2>1. answer = None => answer \notin Marked
    BY SelectionAssumption DEF Marked
  <2> QED BY <1>1, <1>2, <1>3, <2>1 DEF Selecting, Remembered, Marked
<1> QED BY <1>4, <1>5, <1>6 DEF Selecting

LEMMA BetweenKeeps == ASSUME Selecting, EventFires \/ SetSession \/ UNCHANGED vars PROVE Selecting'
<1>1. CASE EventFires
  <2>1. /\ stage = "idle" /\ vAnswersFlags' = vAnswersFlags \cup {Zero}
        /\ UNCHANGED <<stage, matched, weight, passing, buildable, order, answer, cleared, given>>
    BY <1>1 DEF EventFires, Recorded, request, offered, history
  <2>2. Typed' /\ Searching' /\ Deciding' /\ Remembered'
    BY <2>1, SelectionAssumption DEF Selecting, Typed, Searching, Deciding, Remembered
  <2> QED BY <2>2 DEF Selecting
<1>2. CASE SetSession
  <2>1. /\ stage = "idle" /\ vAnswersFlags' = {} /\ given' = {}
        /\ UNCHANGED <<stage, matched, weight, passing, buildable, order, answer, cleared>>
    BY <1>2 DEF SetSession, request, offered
  <2>2. Typed' /\ Searching' /\ Deciding' /\ Remembered'
    BY <2>1 DEF Selecting, Typed, Searching, Deciding, Remembered
  <2> QED BY <2>2 DEF Selecting
<1>3. CASE UNCHANGED vars
  <2>1. UNCHANGED <<vAnswersFlags, request>> /\ UNCHANGED <<stage, order, answer, cleared, given>>
    BY <1>3 DEF vars, request, offered
  <2>2. Typed' /\ Remembered'
    BY <2>1, SameRequest DEF Selecting, Typed, Remembered
  <2>3. Searching'
    BY <2>1, SameRequest DEF Selecting, Searching, Left, NoneOf
  <2>4. Policy!Allowed(buildable)' = Policy!Allowed(buildable) /\ Policy!MayReturn(answer)' = Policy!MayReturn(answer)
    BY <2>1, SameRequest DEF Policy!Allowed, Policy!Heaviest, Policy!Fresh, Policy!Low, Policy!Best, Policy!Waiting,
                    Policy!UsedUp, Policy!Marked, Policy!MayReturn
  <2>5. Deciding'
    BY <2>1, <2>4, SameRequest DEF Selecting, Deciding
  <2> QED BY <2>2, <2>3, <2>5 DEF Selecting
<1> QED BY <1>1, <1>2, <1>3

LEMMA SelectingInit == Init => Selecting
<1> SUFFICES ASSUME Init PROVE Selecting
  OBVIOUS
<1>1. /\ vAnswersFlags = {} /\ stage = "idle" /\ weight = <<>> /\ matched = {} /\ passing = {} /\ buildable = {}
      /\ order = <<>> /\ given = {} /\ cleared = {}
  BY DEF Init
<1>2. Typed
  <2>1. DOMAIN weight = {} /\ weight \in [{} -> Nat] /\ order \in Seq(Answers)
    BY <1>1
  <2> QED BY <1>1, <2>1 DEF Typed
<1>3. Searching /\ Deciding /\ Remembered
  BY <1>1 DEF Searching, Deciding, Remembered, Stages
<1> QED BY <1>2, <1>3 DEF Selecting

LEMMA SelectingStep == Selecting /\ [Next]_vars => Selecting'
BY ListsKeep, TryNextKeeps, BuildKeeps, BuildLUniqKeeps, TrialKeeps, NextGroupKeeps, NotFoundKeeps, AskKeeps, UpdateKeeps,
   BetweenKeeps DEF Next

\* An answer with the modifier Uniq is marked as given exactly when it was given, for any patterns,
\* answers and requests; answer 0 of pattern 0 is apart.
THEOREM UniqIsRemembered == Spec => []UniqMatchesGiven
<1>1. Selecting => UniqMatchesGiven
  BY DEF Selecting, Remembered, UniqMatchesGiven
<1> QED BY <1>1, SelectingInit, SelectingStep, PTL DEF Spec

\* It is never given again in the session.
THEOREM UniqIsGivenOnce == Spec => UniqOnce
<1>1. Selecting /\ [Next]_vars => \A a \in Uniq \ LUniq : Gives(a) => a \notin given
  <2> SUFFICES ASSUME Selecting, NEW a \in Uniq \ LUniq, stage = "update", answer = a PROVE a \notin given
    BY DEF Gives
  <2>1. answer \in Answers
    BY SelectionAssumption
  <2>2. ~Spent(a)
    BY <2>1 DEF Selecting, Deciding
  <2> QED BY <2>2 DEF Selecting, Remembered, Spent, Flagged
<1> QED BY <1>1, SelectingInit, SelectingStep, PTL DEF Spec, UniqOnce

-----------------------------------------------------------------------------
(* CreateAnswer implements the policy                                      *)

\* The policy sees a request when it comes and when it is answered; what is between is a stutter.
LEMMA InsideIsStutter ==
  ASSUME Selecting, UNCHANGED <<weight, passing, buildable, reply>>, vAnswersFlags' \cup cleared' = vAnswersFlags \cup cleared,
         stage = "idle" <=> stage' = "idle"
  PROVE  UNCHANGED Policy!vars
BY DEF Policy!vars

LEMMA UpdateGives == ASSUME Selecting, Update PROVE Policy!Next
<1>1. /\ stage = "update" /\ stage' = "idle" /\ vAnswersFlags' = vAnswersFlags \cup {Recorded(answer)}
      /\ reply' = answer /\ cleared' = {} /\ weight' = <<>>
  BY DEF Update
<1>2. buildable \in SUBSET Answers
  BY DEF Selecting, Typed, Of
<1>3. buildable # None
  BY <1>2, SelectionAssumption
<1>4. CASE answer \in Answers
  <2>1. /\ answer \in Policy!Allowed(buildable) /\ cleared \subseteq Policy!MayReturn(answer)
        /\ cleared \cap vAnswersFlags = {}
    BY <1>1, <1>4 DEF Selecting, Deciding
  <2>2. Recorded(answer) = answer
    BY <1>4, SelectionAssumption DEF Recorded
  <2>3. vAnswersFlags' \cup cleared' = ((vAnswersFlags \cup cleared) \ cleared) \cup {answer}
    BY <1>1, <2>1, <2>2
  <2>4. \E back \in SUBSET Policy!MayReturn(answer) :
          vAnswersFlags' \cup cleared' = ((vAnswersFlags \cup cleared) \ back) \cup {answer}
    BY <2>1, <2>3
  <2>5. Policy!Give(answer)
    BY <1>1, <1>3, <2>1, <2>4 DEF Policy!Give
  <2> QED BY <1>4, <2>5 DEF Policy!Next
<1>5. CASE answer \notin Answers
  <2>1. answer = None /\ cleared = {} /\ Policy!Allowed(buildable) = {}
    BY <1>1, <1>5 DEF Selecting, Deciding
  <2>2. Recorded(answer) = Zero
    BY <2>1 DEF Recorded
  <2>3. Policy!GiveNothing
    BY <1>1, <1>3, <2>1, <2>2 DEF Policy!GiveNothing
  <2> QED BY <2>3 DEF Policy!Next
<1> QED BY <1>4, <1>5

LEMMA AskIsAsked ==
  ASSUME Selecting, NEW M \in SUBSET Patterns, NEW P \in SUBSET Of(M), NEW B \in SUBSET P, Ask(M, P, B)
  PROVE  Policy!Next
<1>1. /\ stage = "idle" /\ stage' = "collect" /\ weight' \in [M -> Weights] /\ buildable' = B
      /\ UNCHANGED <<vAnswersFlags, cleared, reply>>
  BY DEF Ask, history
<1>2. B \in SUBSET Answers /\ B \subseteq { a \in Answers : PatternOf[a] \in M }
  BY DEF Of
<1>3. B # None
  BY <1>2, SelectionAssumption
<1>4. Policy!Ask(M)
  BY <1>1, <1>2, <1>3 DEF Policy!Ask
<1> QED BY <1>4 DEF Policy!Next

LEMMA PolicyStep == Selecting /\ [Next]_vars => [Policy!Next]_(Policy!vars)
<1> SUFFICES ASSUME Selecting, [Next]_vars PROVE Policy!Next \/ UNCHANGED Policy!vars
  OBVIOUS
<1>1. ASSUME NEW M \in SUBSET Patterns, NEW P \in SUBSET Of(M), NEW B \in SUBSET P, Ask(M, P, B) PROVE Policy!Next
  BY <1>1, AskIsAsked
<1>2. CASE Collect \/ TryNext \/ Build \/ BuildLUniq \/ StartLUniq \/ StartLast \/ NextGroup \/ NotFound
  <2>1. UNCHANGED <<weight, passing, buildable, reply, vAnswersFlags, cleared>> /\ stage # "idle" /\ stage' # "idle"
    BY <1>2 DEF Collect, TryNext, Build, BuildLUniq, StartLUniq, StartLast, NothingBuilt, NextGroup, NotFound, request, offered,
                history
  <2> QED BY <2>1, InsideIsStutter
<1>3. ASSUME NEW again \in SUBSET Answers, Trial(again) PROVE UNCHANGED Policy!vars
  <2>1. UNCHANGED <<weight, passing, buildable, reply>> /\ stage # "idle" /\ stage' # "idle"
    BY <1>3 DEF Trial, request, offered, history
  <2>2. vAnswersFlags' \cup cleared' = vAnswersFlags \cup cleared
    BY <1>3, TrialKeeps
  <2> QED BY <2>1, <2>2, InsideIsStutter
<1>4. CASE Update
  BY <1>4, UpdateGives
<1>5. CASE EventFires
  <2>1. stage = "idle" /\ vAnswersFlags' = vAnswersFlags \cup {Zero} /\ UNCHANGED <<stage, weight, reply, cleared>>
    BY <1>5 DEF EventFires, Recorded, request, offered, history
  <2>2. Policy!EventFires
    BY <2>1 DEF Policy!EventFires
  <2> QED BY <2>2 DEF Policy!Next
<1>6. CASE SetSession
  <2>1. /\ stage = "idle" /\ vAnswersFlags' = {} /\ reply' = None /\ UNCHANGED <<stage, weight, cleared>> /\ cleared = {}
    BY <1>6 DEF SetSession, request, offered, Selecting, Searching
  <2>2. Policy!NewSession
    BY <2>1 DEF Policy!NewSession
  <2> QED BY <2>2 DEF Policy!Next
<1>7. CASE UNCHANGED vars
  BY <1>7 DEF vars, offered, history, Policy!vars
<1> QED BY <1>1, <1>2, <1>3, <1>4, <1>5, <1>6, <1>7 DEF Next

\* Whatever the lists, the shuffles and the answers that cannot be built, the answer given is one that
\* the policy allows, and a used up answer comes back only as the policy says.
THEOREM PolicyIsFollowed == Spec => ImplementsPolicy
<1>1. Init => Policy!Init
  BY DEF Init, Policy!Init
<1> QED BY <1>1, SelectingInit, SelectingStep, PolicyStep, PTL DEF Spec, ImplementsPolicy, Policy!Spec

=============================================================================
