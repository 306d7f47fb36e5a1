-------------------------- MODULE AnswerSelection --------------------------
(***************************************************************************)
(* How InfBFinder::CreateAnswer (ExtFinder.cpp) picks one pattern-answer   *)
(* for a request, and how Session::Update remembers that it was given.     *)
(* The matched patterns are taken group by group, heaviest first; within a *)
(* group three lists of answers are tried one after the other: the fresh   *)
(* ones, the ones with the LUniq modifier that were given already, and the *)
(* ones of low priority.  Each list is shuffled and sorted by the weight   *)
(* modifier, and the first answer that can be built is given.              *)
(*                                                                         *)
(* Whether an answer can be built (its variables, functions, dictionaries) *)
(* is data here: a set chosen with the request.                            *)
(***************************************************************************)
EXTENDS Integers, Sequences, FiniteSets

CONSTANTS
  Patterns, Answers, \* patterns and their pattern-answers
  PatternOf,         \* [Answers -> Patterns]
  Weights,           \* weights that a candidate may have
  Modifier,          \* [Answers -> Int], GetWeightModifier
  Uniq, LUniq, Last, \* the answers with these modifiers
  Zero,              \* answer 0 of pattern 0
  None               \* no answer

ASSUME SelectionAssumption ==
  /\ IsFiniteSet(Answers) /\ PatternOf \in [Answers -> Patterns]
  /\ Weights \subseteq Nat /\ Modifier \in [Answers -> Int]
  /\ Uniq \subseteq Answers /\ LUniq \subseteq Answers /\ Last \subseteq Answers
  /\ Zero \in Answers /\ None \notin Answers /\ \A S \in SUBSET Answers : S # None

VARIABLES
  vAnswersFlags, \* the flags of the session
  stage,         \* the part of CreateAnswer that runs
  weight,        \* weights of the candidates of the matched patterns
  matched,       \* matched patterns that are not yet done
  passing,       \* answers whose pattern-level conditions hold
  buildable,     \* answers that can be built
  order,         \* what is left of the list being tried
  answer,        \* the answer built, with its flag not yet set
  given,         \* history: Uniq and LUniq answers given in the session
  reply,         \* history: the last answer given
  cleared        \* history: flags cleared for the answer being given

vars == <<vAnswersFlags, stage, weight, matched, passing, buildable, order, answer,
          given, reply, cleared>>
offered == <<weight, passing, buildable>>
request == <<matched, offered>>
history == <<given, reply>>

Stages == {"idle", "collect", "answers", "luniq", "trial", "last", "update"}

Of(S)  == { a \in Answers : PatternOf[a] \in S }
Marked == Uniq \cup LUniq
Flagged(a) == a \in vAnswersFlags

Init == /\ vAnswersFlags = {} /\ stage = "idle"
        /\ weight = <<>> /\ matched = {} /\ passing = {} /\ buildable = {}
        /\ order = <<>> /\ answer = None
        /\ given = {} /\ reply = None /\ cleared = {}

-----------------------------------------------------------------------------
(* The three lists of a group *)

\* The patterns that have the weight of the heaviest one left.
Group == { p \in matched : \A q \in matched : weight[q] <= weight[p] }

\* Mutant: a given answer with the modifier Uniq is not passed over.
vAnswersNotUniq == { a \in Of(Group) \cap passing :
                       ~(a \in LUniq /\ Flagged(a)) /\ a \notin Last }

vAnswers == { a \in Of(Group) \cap passing :
                ~(a \in Marked /\ Flagged(a)) /\ a \notin Last }
vLUniqAnswers == { a \in Of(Group) \cap passing : a \in LUniq /\ Flagged(a) }
vLastAnswers == { a \in Of(Group) \cap passing :
                    ~(a \in Marked /\ Flagged(a)) /\ a \in Last }

Shuffles(S) == { q \in [1 .. Cardinality(S) -> S] :
                   \A i, j \in DOMAIN q : q[i] = q[j] => i = j }

\* Mutant: the list is left as it was shuffled.
SortedNot(q) == TRUE

\* The stable sort by the weight modifier, greatest first.
Sorted(q) == \A i, j \in DOMAIN q : i < j => Modifier[q[i]] >= Modifier[q[j]]

Orders(S) == { q \in Shuffles(S) : Sorted(q) }

\* Low priority answers come last, and they are not sorted.
LUniqOrders(S) == { lists[1] \o lists[2] : lists \in Orders(S \ Last) \X Shuffles(S \cap Last) }

-----------------------------------------------------------------------------
(* CreateAnswer *)

\* The patterns matched by the request with their weights, and which of their
\* answers may be used.
Ask(M, P, B) ==
  /\ stage = "idle" /\ stage' = "collect"
  /\ B \subseteq P
  /\ weight' \in [M -> Weights]
  /\ matched' = M /\ passing' = P /\ buildable' = B
  /\ UNCHANGED <<vAnswersFlags, order, answer, cleared>> /\ UNCHANGED history

Collect == /\ stage = "collect" /\ matched # {}
           /\ stage' = "answers" /\ order' \in Orders(vAnswers)
           /\ UNCHANGED <<vAnswersFlags, request, answer, cleared>> /\ UNCHANGED history

\* The head of the list cannot be built.
TryNext == /\ stage \in {"answers", "luniq", "last"}
           /\ order # <<>> /\ Head(order) \notin buildable
           /\ order' = Tail(order)
           /\ UNCHANGED <<vAnswersFlags, stage, request, answer, cleared>>
           /\ UNCHANGED history

Build == /\ stage \in {"answers", "last"}
         /\ order # <<>> /\ Head(order) \in buildable
         /\ answer' = Head(order) /\ order' = <<>>
         /\ stage' = "update"
         /\ UNCHANGED <<vAnswersFlags, request, cleared>> /\ UNCHANGED history

\* The answers of the pattern of the first one end at n, or those of another
\* pattern come in between.
EndsAt(q, n) == /\ \A i \in 1 .. n : PatternOf[q[i]] = PatternOf[q[1]]
                /\ n < Len(q) => PatternOf[q[n + 1]] # PatternOf[q[1]]

\* The answers that follow the built one in the list, up to the first one of
\* another pattern, are its neighbours.
BuildLUniq ==
  /\ stage = "luniq"
  /\ order # <<>> /\ Head(order) \in buildable
  /\ answer' = Head(order)
  /\ \E n \in 1 .. Len(order) : EndsAt(order, n) /\ order' = SubSeq(order, 2, n)
  /\ stage' = "trial"
  /\ UNCHANGED <<vAnswersFlags, request, cleared>> /\ UNCHANGED history

\* The neighbours are built on a copy of the session, which has lost what the
\* answer just took; the flags of those that succeed are cleared.
Trial(again) ==
  LET neighbours == { order[i] : i \in DOMAIN order }
  IN /\ stage = "trial" /\ stage' = "update"
     /\ again \subseteq neighbours
     /\ vAnswersFlags' = vAnswersFlags \ again
     /\ cleared' = again
     /\ order' = <<>>
     /\ UNCHANGED <<request, answer>> /\ UNCHANGED history

NothingBuilt(from, to, lists) ==
  /\ stage = from /\ order = <<>>
  /\ stage' = to /\ order' \in lists
  /\ UNCHANGED <<vAnswersFlags, request, answer, cleared>> /\ UNCHANGED history

StartLUniq == NothingBuilt("answers", "luniq", LUniqOrders(vLUniqAnswers))
StartLast  == NothingBuilt("luniq", "last", Orders(vLastAnswers))

NextGroup == /\ stage = "last" /\ order = <<>>
             /\ matched' = matched \ Group
             /\ stage' = "collect"
             /\ UNCHANGED <<vAnswersFlags, offered, order, answer, cleared>>
             /\ UNCHANGED history

NotFound == /\ stage = "collect" /\ matched = {}
            /\ stage' = "update" /\ answer' = None
            /\ UNCHANGED <<vAnswersFlags, request, order, cleared>> /\ UNCHANGED history

-----------------------------------------------------------------------------
(* Session::Update *)

\* The numbers in an answer that was not found, or that is an event's, are 0.
Recorded(a) == IF a = None THEN Zero ELSE a

\* Mutant: the flag of the answer is left as it is.
UpdateNoFlag ==
  /\ stage = "update" /\ stage' = "idle"
  /\ given' = given \cup ({answer} \cap Marked)
  /\ reply' = answer
  /\ answer' = None /\ cleared' = {}
  /\ weight' = <<>> /\ matched' = {} /\ passing' = {} /\ buildable' = {}
  /\ UNCHANGED <<vAnswersFlags, order>>

Update ==
  /\ stage = "update" /\ stage' = "idle"
  /\ vAnswersFlags' = vAnswersFlags \cup {Recorded(answer)}
  /\ given' = given \cup ({answer} \cap Marked)
  /\ reply' = answer
  /\ answer' = None /\ cleared' = {}
  /\ weight' = <<>> /\ matched' = {} /\ passing' = {} /\ buildable' = {}
  /\ UNCHANGED order

\* ProcessEvent: the answer of an event, a reply included, has no numbers.
EventFires == /\ stage = "idle"
              /\ vAnswersFlags' = vAnswersFlags \cup {Recorded(None)}
              /\ UNCHANGED <<stage, request, order, answer, cleared>> /\ UNCHANGED history

\* CmdSetSession: Session::Reset.
SetSession == /\ stage = "idle"
              /\ vAnswersFlags' = {} /\ given' = {} /\ reply' = None
              /\ UNCHANGED <<stage, request, order, answer, cleared>>

Next == \/ \E M \in SUBSET Patterns :
             \E P \in SUBSET Of(M) : \E B \in SUBSET P : Ask(M, P, B)
        \/ Collect \/ TryNext \/ Build \/ StartLUniq \/ BuildLUniq
        \/ \E again \in SUBSET Answers : Trial(again)
        \/ StartLast \/ NextGroup \/ NotFound \/ Update
        \/ EventFires \/ SetSession

Spec == Init /\ [][Next]_vars
-----------------------------------------------------------------------------
TypeOK == /\ vAnswersFlags \subseteq Answers
          /\ stage \in Stages
          /\ weight \in UNION { [M -> Weights] : M \in SUBSET Patterns }
          /\ matched \subseteq DOMAIN weight
          /\ passing \subseteq Answers /\ buildable \subseteq passing
          /\ order \in Seq(Answers)
          /\ answer \in Answers \cup {None} /\ reply \in Answers \cup {None}
          /\ given \subseteq Marked
          /\ cleared \subseteq LUniq

\* An answer with the modifier Uniq is marked as given exactly when it was
\* given: it can come once in a session and is never lost (String.hpp:319).
\* Answer 0 of pattern 0 is apart: every answer without numbers marks it.
UniqMatchesGiven == \A a \in Uniq \ (LUniq \cup {Zero}) : a \in vAnswersFlags <=> a \in given

Gives(a) == stage = "update" /\ stage' = "idle" /\ answer = a

\* The same seen from the outside: it is never given again.
UniqOnce == [][\A a \in Uniq \ LUniq : Gives(a) => a \notin given]_vars

\* Whatever the order of the lists and the rolls of the dice, the answer is one
\* that AnswerPolicy allows, and a used up answer becomes available again only
\* as AnswerPolicy says.
Policy == INSTANCE AnswerPolicy WITH
            flags <- vAnswersFlags \cup cleared,
            offer <- IF stage = "idle" THEN None ELSE buildable
ImplementsPolicy == Policy!Spec
=============================================================================
