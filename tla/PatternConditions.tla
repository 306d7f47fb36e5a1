-------------------------- MODULE PatternConditions --------------------------
(***************************************************************************)
(* Conditions of the pattern level (If, Elsif, Else, Endif, Switch, Case,  *)
(* Default, Endswitch) from the source line to the answer they guard.      *)
(*                                                                         *)
(* The compiler reads a pattern line by line: it keeps a stack of the      *)
(* operators that are open and numbers every line it accepts; an answer    *)
(* gets the number at the top of the stack (StringParser.cpp, Parser.cpp). *)
(* The server walks the numbered list, which has no nesting any more, and  *)
(* finds out which numbers have passed (MatchedPattern::TestTLCS); results *)
(* are cached for the search (TLCSCache).  Here an author writes one line  *)
(* a step, and an answer may stand after each of them; one step of the     *)
(* walk is one line.  The recursion of TestTLCS is the sequence frames.    *)
(***************************************************************************)
EXTENDS Naturals, Sequences, SequencesExt, FiniteSets, TLCSCache

CONSTANTS MaxLines,      \* bound: lines with conditions in a pattern
          MaxSearched,   \* bound: only patterns of so many lines are searched with others
          MaxSearches,   \* bound: calls of CreateAnswer
          Questions      \* questions of a pattern

ASSUME BoundsAreNat == MaxLines \in Nat /\ MaxSearched \in Nat /\ MaxSearches \in Nat

\* Pattern questions matched by one search: this pattern, one whose two conditions have any results,
\* and one without conditions.
Patterns == {"own", "other", "plain"}

Openers == {"If", "Switch"}
Closers == {"Endif", "Endswitch"}
Types == Openers \union Closers \union {"Elsif", "Else", "Case", "Default"}

\* A line as the author writes it; Case compares the argument of the switch with its label.
Lines == {line \in [type : Types, label : BOOLEAN] : line.type = "Case" \/ line.label}

NoTLCS == 0     \* static_cast<unsigned int>( -1 ) of SetTLCS

VARIABLES
  strict,     \* aStrictMode of the compiler
  phase,      \* "parsing", "rejected", "compiled", "search", "testing", "failed"
  tlcs,       \* vTLCS: the accepted lines, with the switch a Case belongs to
  trace,      \* vTLCS_stack.vTLCS after 0, 1, 2 ... accepted lines
  switches,   \* vTLCS_stack.vSwitch
  truth,      \* what the condition or argument of each line evaluates to in this search
  other,      \* results of the conditions of the other pattern
  searches,   \* calls of CreateAnswer so far
  question,   \* question of the candidate whose conditions are tested
  n,          \* line TestTLCS has come to
  frames,     \* its nested calls
  passed,     \* aPassed
  interpreted,\* lines whose condition was evaluated
  cache,      \* vTLCSCache
  judged      \* pattern of the candidate tested last and what the cache says of its conditions

source == <<strict, tlcs, trace, switches>>
search == <<truth, other, searches>>
walk == <<question, n, frames, passed, interpreted>>
vars == <<source, phase, search, walk, cache, judged>>

NotJudged == [of |-> "plain", ok |-> <<>>]

stack == Last(trace)
Top == Last(stack).type
TopIn(types) == stack # <<>> /\ Top \in types

\* Number an answer written after i accepted lines is given (Answer.SetTLCS).
AnswerTLCS(i) == IF trace[i + 1] = <<>> THEN NoTLCS ELSE Last(trace[i + 1]).id

Init ==
  /\ strict \in BOOLEAN
  /\ phase = "parsing"
  /\ tlcs = <<>> /\ trace = << <<>> >> /\ switches = <<>>
  /\ truth = <<>> /\ other = <<>> /\ searches = 0
  /\ question \in Questions /\ n = 1 /\ frames = <<>> /\ passed = <<>> /\ interpreted = {}
  /\ cache = ClearedCache /\ judged = NotJudged

-------------------------------------------------------------------------------
(* The compiler *)

\* What must stand at the top of the stack for a line to be accepted.
\* Mutant: Endif closes whatever is open.
InContextAnyEndif(type) ==
  \/ type = "If"
  \/ type \in {"Elsif", "Else"} /\ TopIn({"If", "Elsif"})
  \/ type = "Endif" /\ stack # <<>>
  \/ type = "Switch" /\ ~TopIn({"Switch"})
  \/ type = "Case" /\ switches # <<>> /\ TopIn({"Switch", "Case"})
  \/ type = "Default" /\ switches # <<>> /\ TopIn({"Case"})
  \/ type = "Endswitch" /\ switches # <<>> /\ TopIn({"Case", "Default"})

InContext(type) ==
  \/ type = "If"
  \/ type \in {"Elsif", "Else"} /\ TopIn({"If", "Elsif"})
  \/ type = "Endif" /\ TopIn({"If", "Elsif", "Else"})
  \/ type = "Switch" /\ ~TopIn({"Switch"})
  \/ type = "Case" /\ switches # <<>> /\ TopIn({"Switch", "Case"})
  \/ type = "Default" /\ switches # <<>> /\ TopIn({"Case"})
  \/ type = "Endswitch" /\ switches # <<>> /\ TopIn({"Case", "Default"})

\* The stack after line id: an opener is pushed, a closer pops, a branch takes the place of the one before
\* it.  A switch has no number of its own.
StackAfter(s, type, id) ==
  IF type \in Openers
  THEN Append(s, [id |-> IF type = "If" THEN id ELSE NoTLCS, type |-> type])
  ELSE IF type \in Closers
       THEN Front(s)
       ELSE Append(Front(s), [id |-> id, type |-> type])

\* Mutant: Endswitch leaves its argument, and the next Case of the outer switch looks at it.
SwitchesAfterKeeps(type, id) == IF type = "Switch" THEN Append(switches, id) ELSE switches

\* The arguments of the switches that are open.
SwitchesAfter(type, id) ==
  IF type = "Switch"
  THEN Append(switches, id)
  ELSE IF type = "Endswitch" THEN Front(switches) ELSE switches

\* ParseTLCS_If ... ParseTLCS_Endswitch on a line that is accepted.
Accept(line) ==
  LET id == Len(tlcs) + 1
  IN  /\ phase = "parsing"
      /\ id <= MaxLines
      /\ InContext(line.type)
      /\ tlcs' = Append(tlcs, [type |-> line.type, label |-> line.label,
                               arg |-> IF line.type = "Case" THEN Last(switches) ELSE NoTLCS])
      /\ trace' = Append(trace, StackAfter(stack, line.type, id))
      /\ switches' = SwitchesAfter(line.type, id)
      /\ UNCHANGED <<strict, phase, search, walk, cache, judged>>

\* A line that is malformed or out of place ends the compilation, or is skipped when errors are ignored;
\* one that is no operator at all ends it in any case.
ParseError ==
  /\ phase = "parsing"
  /\ phase' \in IF strict THEN {"rejected"} ELSE {"parsing", "rejected"}
  /\ UNCHANGED <<source, search, walk, cache, judged>>

\* The end of the pattern: everything that was opened must be closed, errors ignored or not.
EndPattern ==
  /\ phase = "parsing"
  /\ phase' = IF stack = <<>> THEN "compiled" ELSE "rejected"
  /\ UNCHANGED <<source, search, walk, cache, judged>>

-------------------------------------------------------------------------------
(* The search *)

\* Else, Default and the closers have no condition.
HasCondition(i) == tlcs[i].type \in Openers \union {"Elsif", "Case"}
Values == {f \in [1..Len(tlcs) -> BOOLEAN] : \A i \in 1..Len(tlcs) : HasCondition(i) \/ f[i]}

\* CreateAnswer is called: for the user base, the main base, the ellipsis, and by the next request.
\* Patterns of different bases have the same numbers, and variables have changed in between.
StartSearch ==
  /\ phase \in {"compiled", "search"}
  /\ searches < (IF Len(tlcs) <= MaxSearched THEN MaxSearches ELSE 1)
  /\ searches' = searches + 1
  /\ truth' \in Values
  /\ other' \in IF Len(tlcs) <= MaxSearched THEN [1..2 -> BOOLEAN] ELSE {<<TRUE, TRUE>>}
  /\ cache' = Clear(cache)
  /\ judged' = NotJudged
  /\ phase' = "search"
  /\ UNCHANGED <<source, walk>>

\* TestTLCS of a candidate of this pattern: without conditions nothing is cached and everything passes.
TestOwn(q) ==
  /\ phase = "search"
  /\ judged = NotJudged \/ Len(tlcs) <= MaxSearched
  /\ tlcs # <<>>
  /\ question' = q
  /\ n' = 1 /\ frames' = <<>> /\ interpreted' = {}
  /\ passed' = [i \in 1..Len(tlcs) |-> FALSE]
  /\ phase' = "testing"
  /\ UNCHANGED <<source, search, cache, judged>>

\* InterpretTLCS: a Switch has no items, so its result is empty, and an empty result is false.
IsTrue(i) ==
  \/ tlcs[i].type \in {"If", "Elsif"} /\ truth[i]
  \/ tlcs[i].type = "Case" /\ truth[tlcs[i].arg] = tlcs[i].label

\* The result of the branch whose condition was looked at is kept in the frame.
Branch(f, ok) == [f EXCEPT !.ok = ok, !.allPrevFailed = @ /\ ~ok]

\* A block at line n: a call of TestTLCS, or the next turn of the loop of the one that is running.
TestOpen ==
  LET parentOk == frames = <<>> \/ Last(frames).ok
      ok == parentOk /\ IsTrue(n)
  IN  /\ phase = "testing" /\ n <= Len(tlcs) /\ tlcs[n].type \in Openers
      /\ frames' = Append(frames, [block |-> tlcs[n].type, parentOk |-> parentOk,
                                   ok |-> ok, allPrevFailed |-> ~ok])
      /\ passed' = [passed EXCEPT ![n] = ok]
      /\ interpreted' = IF parentOk THEN interpreted \union {n} ELSE interpreted
      /\ n' = n + 1
      /\ UNCHANGED <<source, phase, search, question, cache, judged>>

\* Mutant: a branch does not look at the ones before it.
ReachedAlone(f) == f.parentOk

\* aParentOk && all_prev_failed.
Reached(f) == f.parentOk /\ f.allPrevFailed

\* Elsif and Case; Else and Default have no condition to evaluate.  Outside a block nothing is tested,
\* which is an error.
TestBranch ==
  LET f == Last(frames)
      isElse == tlcs[n].type \in {"Else", "Default"}
      ok == Reached(f) /\ (isElse \/ IsTrue(n))
  IN  /\ phase = "testing" /\ n <= Len(tlcs) /\ tlcs[n].type \notin Openers \union Closers
      /\ IF frames = <<>>
         THEN /\ phase' = "failed"
              /\ UNCHANGED <<frames, passed, interpreted, n>>
         ELSE /\ frames' = Append(Front(frames), Branch(f, ok))
              /\ passed' = [passed EXCEPT ![n] = ok]
              /\ interpreted' = IF Reached(f) /\ ~isElse THEN interpreted \union {n} ELSE interpreted
              /\ n' = n + 1
              /\ phase' = phase
      /\ UNCHANGED <<source, search, question, cache, judged>>

\* Endif and Endswitch end the block they belong to, and no other.
TestClose ==
  LET block == IF tlcs[n].type = "Endif" THEN "If" ELSE "Switch"
  IN  /\ phase = "testing" /\ n <= Len(tlcs) /\ tlcs[n].type \in Closers
      /\ IF frames # <<>> /\ Last(frames).block = block
         THEN frames' = Front(frames) /\ n' = n + 1 /\ phase' = phase
         ELSE UNCHANGED <<frames, n>> /\ phase' = "failed"
      /\ UNCHANGED <<source, search, question, passed, interpreted, cache, judged>>

\* The end of the walk: the results go into the cache, and are read from there.
TestEnd ==
  LET key == <<"own", question>>
      c == Put(cache, key, passed)
  IN  /\ phase = "testing" /\ n > Len(tlcs)
      /\ cache' = c
      /\ judged' = [of |-> "own", ok |-> [i \in 1..Len(tlcs) |-> CachedOk(c, key, i)]]
      /\ phase' = "search"
      /\ UNCHANGED <<source, search, walk>>

\* TestTLCS of a candidate of the other pattern, whose conditions have the results other.
TestOther(q) ==
  LET key == <<"other", q>>
      c == Put(cache, key, other)
  IN  /\ phase = "search" /\ Len(tlcs) <= MaxSearched
      /\ cache' = c
      /\ judged' = [of |-> "other", ok |-> [i \in 1..Len(other) |-> CachedOk(c, key, i)]]
      /\ UNCHANGED <<source, phase, search, walk>>

\* InterpretExtendAnswer: an answer of the candidate with pattern p goes on with an answer of the other
\* pattern.  The results are looked for, and kept, under the key of the candidate.
Extend(p, q) ==
  /\ phase = "search" /\ Len(tlcs) <= MaxSearched
  /\ p = "plain" \/ InCache(cache, <<p, q>>)
  /\ cache' = Put(cache, <<p, q>>, other)
  /\ UNCHANGED <<source, phase, search, walk, judged>>

Next ==
  \/ \E line \in Lines : Accept(line)
  \/ ParseError
  \/ EndPattern
  \/ StartSearch
  \/ \E q \in Questions : TestOwn(q) \/ TestOther(q)
  \/ \E q \in Questions, p \in Patterns : Extend(p, q)
  \/ TestOpen \/ TestBranch \/ TestClose \/ TestEnd

Spec == Init /\ [][Next]_vars

-------------------------------------------------------------------------------
(* What the language promises, said of the lines and not of the stack: blocks are found by counting. *)

\* Blocks that are open after line i.
Depth(i) == Cardinality({k \in 1..i : tlcs[k].type \in Openers}) - Cardinality({k \in 1..i : tlcs[k].type \in Closers})

\* Lines i and j, i before j or the same, are in one block: it was not closed in between.
SameBlock(i, j) == i <= j /\ Depth(i) = Depth(j) /\ \A k \in i..j : Depth(k) >= Depth(i)

Branches == {i \in 1..Len(tlcs) : tlcs[i].type \notin Closers \union {"Switch"}}

\* Branches of its block that stand before a branch or a switch.
Before(b) == {c \in Branches : c < b /\ SameBlock(c, b)}

\* The condition holds; a Case looks at the switch of its own block.
Holds(b) ==
  CASE tlcs[b].type \in {"Else", "Default"} -> TRUE
    [] tlcs[b].type = "Case" ->
         LET s == CHOOSE k \in 1..b : tlcs[k].type = "Switch" /\ SameBlock(k, b)
         IN  truth[s] = tlcs[b].label
    [] OTHER -> truth[b]

\* A branch is chosen in its block when it is the first whose condition holds.
Chosen(b) == Holds(b) /\ \A c \in Before(b) : ~Holds(c)

\* Branches in whose scope what follows line i stands.
Around(i) == {b \in Branches : /\ b <= i
                               /\ \A k \in b..i : Depth(k) >= Depth(b)
                               /\ \A k \in (b + 1)..i : k \in Branches => Depth(k) # Depth(b)}

\* What follows line i stands in the head of switch s, before its first case, or in a block there.  The
\* language has no use for that place: an answer there is always given, a block there never.
InHead(s, i) == /\ tlcs[s].type = "Switch"
                /\ \A k \in s..i : Depth(k) >= Depth(s)
                /\ \A b \in Branches : s < b /\ b <= i => Depth(b) # Depth(s)

\* Line i is looked at: every branch around it is chosen, and no earlier one of its own block holds.
IsReached(i) == /\ \A b \in Around(i - 1) \ Before(i) : Chosen(b)
                /\ \A c \in Before(i) : ~Holds(c)
                /\ \A s \in 1..(i - 1) : ~InHead(s, i)

\* The results of this pattern's conditions have just been read from the cache.
Judged == phase = "search" /\ judged.of = "own" /\ judged.ok # <<>>

-------------------------------------------------------------------------------
(* Properties *)

\* Types of the state.
TypeOK ==
  /\ strict \in BOOLEAN
  /\ phase \in {"parsing", "rejected", "compiled", "search", "testing", "failed"}
  /\ Len(trace) = Len(tlcs) + 1
  /\ \A i \in 1..Len(tlcs) : tlcs[i] \in [type : Types, label : BOOLEAN, arg : 0..Len(tlcs)]
  /\ \A i \in 1..Len(trace) : \A k \in 1..Len(trace[i]) :
       trace[i][k] \in [id : 0..Len(tlcs), type : Types \ Closers]
  /\ n \in 1..(Len(tlcs) + 1) /\ interpreted \subseteq 1..Len(tlcs)
  /\ \A k \in 1..Len(frames) : frames[k] \in [block : Openers, parentOk : BOOLEAN, ok : BOOLEAN, allPrevFailed : BOOLEAN]

\* What the compiler accepts, with errors ignored or not, the server can walk: TestTLCS never finds a
\* branch outside a block or the end of another block.
CompiledIsWalked == phase # "failed"

\* An answer may be given exactly when every branch around it is the first of its block whose condition
\* holds, whatever lines were skipped, and however blocks are nested; the head of a switch excepted.
AnswersFollowBranches ==
  Judged => \A i \in 1..Len(tlcs) :
    (\A s \in 1..i : ~InHead(s, i)) =>
      ((AnswerTLCS(i) = NoTLCS \/ judged.ok[AnswerTLCS(i)]) <=> \A b \in Around(i) : Chosen(b))

\* A condition is evaluated (and does what its functions do) only if its line is reached, and then it is.
ReachedIsInterpreted ==
  phase = "testing" /\ n > Len(tlcs) =>
    interpreted = {i \in 1..Len(tlcs) : HasCondition(i) /\ IsReached(i)}

\* A candidate is judged by the conditions of its own pattern with the values of its own search, though
\* user base, main base and the next request use the same keys and extended answers fill the cache too.
JudgedByOwn ==
  /\ phase = "search" /\ judged.of = "own" => judged.ok = passed
  /\ phase = "search" /\ judged.of = "other" => judged.ok = other
===============================================================================
