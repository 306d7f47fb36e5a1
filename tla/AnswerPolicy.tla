---------------------------- MODULE AnswerPolicy ----------------------------
(***************************************************************************)
(* Which pattern-answer a request may get, said in one step: the heaviest  *)
(* group of matched patterns that offers anything decides; in it an answer *)
(* that is neither used up nor of low priority comes first, then an answer *)
(* that only waits for its turn, then an answer of low priority.  A used   *)
(* up answer comes back only when an answer of its own pattern that was    *)
(* waiting for its turn is repeated.                                       *)
(***************************************************************************)
EXTENDS Integers

CONSTANTS
  Patterns, Answers, \* patterns and their pattern-answers
  PatternOf,         \* the pattern of an answer
  Weights,           \* weights that a matched pattern may have
  Modifier,          \* the weight modifier of an answer
  Uniq, LUniq, Last, \* the answers with these modifiers
  Zero,              \* the answer whose pattern and number are both 0
  None               \* no answer

VARIABLES
  flags,   \* answers that are used up
  weight,  \* weights of the patterns that the request matched
  offer,   \* answers that can be built for the request, or None between requests
  reply    \* the answer given last

vars == <<flags, weight, offer, reply>>

Init == flags = {} /\ weight = <<>> /\ offer = None /\ reply = None

\* Answers of the heaviest patterns among those of S.
Heaviest(S) == { a \in S : \A b \in S : weight[PatternOf[b]] <= weight[PatternOf[a]] }

Best(S) == { a \in S : \A b \in S : Modifier[b] <= Modifier[a] }

Marked   == Uniq \cup LUniq
UsedUp   == flags \cap Marked
Waiting  == flags \cap LUniq
Fresh(S) == S \ (UsedUp \cup Last)
Low(S)   == (S \cap Last) \ UsedUp

\* Answers that a request may get when exactly those of S can be built.
Allowed(S) ==
  LET can   == S \ (UsedUp \ Waiting)
      group == Heaviest(can)
      turns == group \cap Waiting
  IN IF Fresh(group) # {} THEN Best(Fresh(group))
     ELSE IF turns \ Last # {} THEN Best(turns \ Last)
     ELSE IF turns # {} THEN turns
     ELSE Best(Low(group))

\* The answers whose turn comes again with a.
MayReturn(a) == IF a \in Waiting
                THEN { b \in Waiting \ {a} : PatternOf[b] = PatternOf[a] }
                ELSE {}

Ask(M) == /\ offer = None
          /\ weight' \in [M -> Weights]
          /\ offer' # None
          /\ offer' \subseteq { a \in Answers : PatternOf[a] \in M }
          /\ UNCHANGED <<flags, reply>>

Give(a) == /\ offer # None /\ a \in Allowed(offer)
           /\ \E back \in SUBSET MayReturn(a) : flags' = (flags \ back) \cup {a}
           /\ reply' = a /\ offer' = None /\ weight' = <<>>

\* Nothing that can be built is left; the reply without an answer and a fired
\* event mark the answer Zero.
GiveNothing == /\ offer # None /\ Allowed(offer) = {}
               /\ flags' = flags \cup {Zero}
               /\ reply' = None /\ offer' = None /\ weight' = <<>>

EventFires == offer = None /\ flags' = flags \cup {Zero} /\ UNCHANGED <<weight, offer, reply>>

NewSession == offer = None /\ flags' = {} /\ reply' = None /\ UNCHANGED <<weight, offer>>

Next == \/ \E M \in SUBSET Patterns : Ask(M)
        \/ \E a \in Answers : Give(a)
        \/ GiveNothing \/ EventFires \/ NewSession

Spec == Init /\ [][Next]_vars
=============================================================================
