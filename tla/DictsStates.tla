---------------------------- MODULE DictsStates ----------------------------
(***************************************************************************)
(* The state of the udict and sudict dictionaries of one session while one *)
(* filter serves its requests: DictsStates of Session.cpp, driven as       *)
(* InfEngineServer::CmdRequest and ExtFinder drive it.  A udict hands out  *)
(* every line once and then starts again; a sudict hands out every line    *)
(* once.  Lines are taken by the events of the request, by the words of    *)
(* the user that matched a dictionary, and by the dictionaries inside an   *)
(* answer; a candidate that comes to nothing gives its lines back through  *)
(* a log.  Boxes are those of RandomBox, here the sets DrawBox makes them. *)
(***************************************************************************)
EXTENDS Integers, Sequences, FiniteSets

CONSTANTS
  Dicts,       \* dictionaries of the base
  Lines,       \* their line numbers
  Uses,        \* <<dict, kind>>: how questions and answers refer to them
  EventUses,   \* the same for the answers of event patterns
  Searches,    \* successful searches a request may do: 2 with the skip
               \* unknown logic or when the best of two requests is wanted
  DictsChange, \* whether the user dictionaries may be compiled anew
  MaxLog       \* bound of the model: lines taken within a request

Kinds == {"udict", "sudict"}

ASSUME DictsAssumption ==
  /\ Lines # {} /\ IsFiniteSet(Lines)
  /\ Uses \subseteq Dicts \X Kinds /\ EventUses \subseteq Dicts \X Kinds
  /\ Searches \in Nat \ {0} /\ MaxLog \in Nat /\ DictsChange \in BOOLEAN

VARIABLES
  vStates,   \* dict |-> lines in its box, for the dictionaries used so far
  vLog,      \* the lines taken since the session was loaded, or rolled back
  cached,    \* vStates of the session in the cache
  stage,     \* where the request is
  left,      \* searches it may still do
  before,    \* history: what was available when the candidate was started
  logged,    \* history: the lines that were in the log already
  refilled,  \* history: a udict started again since then
  drawn,     \* history: what the candidate took from sudicts
  used,      \* history: sudict lines of this and of earlier saved requests
  usedCached \* history: sudict lines of the saved requests

vars == <<vStates, vLog, cached, stage, left, before, logged, refilled, drawn, used, usedCached>>
history == <<before, logged, refilled, drawn, used, usedCached>>

States == UNION { [D -> SUBSET Lines] : D \in SUBSET Dicts }
Taken  == Dicts \X Lines

\* GetRemainingAmount and IsUsed: a dictionary that is not known is untouched.
Available(states, d) == IF d \in DOMAIN states THEN states[d] ELSE Lines
AllAvailable(states) == [d \in Dicts |-> Available(states, d)]

\* A udict that is found empty before or after a take starts again.
Refill(kind, box) == IF kind = "udict" /\ box = {} THEN Lines ELSE box

\* FindDictState, or AddDictState, and the new content of the box.
SetBox(states, d, box) ==
  [e \in DOMAIN states \cup {d} |-> IF e = d THEN box ELSE states[e]]

\* Mutant: the udict is not looked at again after the take.
AfterNoRefill(states, d, kind, l) ==
  SetBox(states, d, Refill(kind, Available(states, d)) \ {l})

\* The states after line l of d was taken by a reference of that kind.
After(states, d, kind, l) ==
  SetBox(states, d, Refill(kind, Refill(kind, Available(states, d)) \ {l}))

\* The histories of a candidate when none is tried.
NoCandidate == /\ before' = AllAvailable(<<>>)
               /\ logged' = {} /\ refilled' = FALSE /\ drawn' = {}

Init == /\ vStates = <<>> /\ cached = <<>>
        /\ vLog = <<>>
        /\ stage = "idle" /\ left = 0
        /\ before = AllAvailable(<<>>)
        /\ logged = {} /\ refilled = FALSE
        /\ drawn = {} /\ used = {} /\ usedCached = {}

-----------------------------------------------------------------------------
(* Taking lines and giving them back *)

\* GetRandomDictLineId may return l; RemoveLineIdFromDict takes it after IsUsed.
CanTake(d, kind, l) == /\ l \in Refill(kind, Available(vStates, d))
                       /\ Len(vLog) < MaxLog

Take(d, kind, l) == /\ vStates' = After(vStates, d, kind, l)
                    /\ vLog' = Append(vLog, <<d, l>>)

\* The box was full again before or after the take.
Restarts(d, kind, l) == kind = "udict" /\ Available(vStates, d) \in {{}, {l}}

Sudict(d, kind, l) == IF kind = "sudict" THEN {<<d, l>>} ELSE {}

Logged == { vLog[i] : i \in DOMAIN vLog }

\* The entries that RollbackLastChanges reaches: it stops with an error, which
\* no caller looks at, before the first dictionary that is no longer known.
Reached == { vLog[i] : i \in { j \in DOMAIN vLog :
                                 \A k \in 1 .. j : vLog[k][1] \in DOMAIN vStates } }

\* Mutant: the log is emptied before it is walked.
RollbackForgets == vLog' = <<>> /\ UNCHANGED vStates

\* Mutant: the boxes are filled instead.
RollbackFills ==
  /\ vStates' = [d \in DOMAIN vStates |-> Lines]
  /\ vLog' = <<>>

RollbackLastChanges ==
  /\ vStates' = [d \in DOMAIN vStates |->
                   vStates[d] \cup { l \in Lines : <<d, l>> \in Reached }]
  /\ vLog' = IF \A i \in DOMAIN vLog : vLog[i][1] \in DOMAIN vStates
             THEN <<>> ELSE vLog

-----------------------------------------------------------------------------
(* The request *)

\* Mutant: the log of the previous request is still there.
LoadKeepsLog ==
  /\ stage = "idle"
  /\ vStates' = cached /\ vLog' = vLog
  /\ stage' = "events" /\ left' = Searches
  /\ used' = usedCached
  /\ UNCHANGED <<cached, before, logged, refilled, drawn, usedCached>>

Load ==
  /\ stage = "idle"
  /\ vStates' = cached /\ vLog' = <<>>
  /\ stage' = "events" /\ left' = Searches
  /\ used' = usedCached
  /\ UNCHANGED <<cached, before, logged, refilled, drawn, usedCached>>

\* An event answer takes a line.  An event that finds its sudict empty is given
\* up, but nothing that it took before is given back.
EventTakes(d, kind, l) ==
  /\ stage = "events" /\ CanTake(d, kind, l)
  /\ Take(d, kind, l)
  /\ used' = used \cup Sudict(d, kind, l)
  /\ UNCHANGED <<cached, stage, left, before, logged, refilled, drawn, usedCached>>

\* The user dictionaries are those the session was saved with ...
SameDicts == /\ stage = "events" /\ stage' = "search"
             /\ UNCHANGED <<vStates, vLog, cached, left, history>>

\* ... or others, and every state is dropped; the log is not.
Drop == /\ stage = "events" /\ DictsChange
        /\ vStates' = <<>> /\ stage' = "search"
        /\ used' = {}
        /\ UNCHANGED <<vLog, cached, left, before, logged, refilled, drawn, usedCached>>

\* GenerateVariationNumber fills a udict that it finds empty, outside the log.
Estimate(d) ==
  /\ stage = "search" /\ left > 0
  /\ <<d, "udict">> \in Uses
  /\ Available(vStates, d) = {}
  /\ vStates' = SetBox(vStates, d, Lines)
  /\ UNCHANGED <<vLog, cached, stage, left, history>>

StartCandidate ==
  /\ stage = "search" /\ left > 0
  /\ stage' = "candidate"
  /\ before' = AllAvailable(vStates) /\ logged' = Logged
  /\ refilled' = FALSE /\ drawn' = {}
  /\ UNCHANGED <<vStates, vLog, cached, left, used, usedCached>>

\* A word that matched a dictionary of the question, or a dictionary of the
\* answer, takes a line for the candidate.
CandidateTakes(d, kind, l) ==
  /\ stage = "candidate" /\ CanTake(d, kind, l)
  /\ Take(d, kind, l)
  /\ refilled' = (refilled \/ Restarts(d, kind, l))
  /\ drawn' = drawn \cup Sudict(d, kind, l)
  /\ UNCHANGED <<cached, stage, left, before, logged, used, usedCached>>

\* A matched word was used before, the answer needs an empty sudict, or it
\* comes to nothing for another reason.
CandidateFails ==
  /\ stage = "candidate" /\ stage' = "search"
  /\ RollbackLastChanges
  /\ NoCandidate
  /\ UNCHANGED <<cached, left, used, usedCached>>

CandidateSucceeds ==
  /\ stage = "candidate" /\ stage' = "search"
  /\ left' = left - 1
  /\ used' = used \cup drawn
  /\ NoCandidate
  /\ UNCHANGED <<vStates, vLog, cached, usedCached>>

\* No candidate of a group gave an answer, possibly without one being tried.
GroupFails == /\ stage = "search" /\ left > 0
              /\ RollbackLastChanges
              /\ UNCHANGED <<cached, stage, left, history>>

EndSearch == /\ stage = "search" /\ stage' = "answered"
             /\ UNCHANGED <<vStates, vLog, cached, left, history>>

Save == /\ stage = "answered" /\ stage' = "idle"
        /\ cached' = vStates /\ usedCached' = used
        /\ UNCHANGED <<vStates, vLog, left, before, logged, refilled, drawn, used>>

\* An error, or a session that keeps itself out of the cache.
Abandon == /\ stage # "idle" /\ stage' = "idle"
           /\ NoCandidate
           /\ UNCHANGED <<vStates, vLog, cached, left, used, usedCached>>

Next == \/ Load \/ SameDicts \/ Drop
        \/ StartCandidate \/ CandidateFails \/ CandidateSucceeds
        \/ GroupFails \/ EndSearch \/ Save \/ Abandon
        \/ \E d \in Dicts : Estimate(d)
        \/ \E u \in EventUses, l \in Lines : EventTakes(u[1], u[2], l)
        \/ \E u \in Uses, l \in Lines : CandidateTakes(u[1], u[2], l)

Spec == Init /\ [][Next]_vars
-----------------------------------------------------------------------------
TypeOK == /\ vStates \in States /\ cached \in States
          /\ vLog \in Seq(Taken) /\ Len(vLog) <= MaxLog
          /\ stage \in {"idle", "events", "search", "candidate", "answered"}
          /\ left \in 0 .. Searches
          /\ before \in [Dicts -> SUBSET Lines]
          /\ logged \subseteq Taken /\ refilled \in BOOLEAN
          /\ drawn \subseteq Taken /\ used \subseteq Taken /\ usedCached \subseteq Taken

KindsOf(d) == { u[2] : u \in { v \in Uses \cup EventUses : v[1] = d } }

\* A dictionary that is only used as a udict always has a line left, in memory
\* and in the cache, so GetRandomDictLineId never answers a udict with a
\* failure, which InterpretDict makes an internal error.
UdictHasLines ==
  \A d \in Dicts : KindsOf(d) = {"udict"} =>
    Available(vStates, d) # {} /\ Available(cached, d) # {}

\* A sudict line that was given to the user is not available again, neither to
\* the rest of the request nor to a later request, until the dictionaries
\* change, however many candidates failed and were rolled back in between.
SudictOnce ==
  \A d \in Dicts : KindsOf(d) = {"sudict"} =>
    \A l \in Lines :
      /\ <<d, l>> \in usedCached => l \notin Available(cached, d)
      /\ <<d, l>> \in used /\ stage # "idle" => l \notin Available(vStates, d)

\* The current step gives a candidate up.
GivesUp == stage = "candidate" /\ stage' = "search" /\ left' = left

\* The log names a dictionary that is not known any more: new user dictionaries
\* drop the states and not the log (Session.cpp:148).
Orphaned == \E t \in Logged : t[1] \notin DOMAIN vStates

\* A candidate that is given up makes no line unavailable that was available
\* when it was started, whatever it took and however often a udict started
\* again, unless the rollback stops at an orphaned entry.
NothingLost ==
  [][GivesUp /\ ~Orphaned =>
       \A d \in Dicts : before[d] \subseteq Available(vStates', d)]_vars

\* A candidate that is given up and made no udict start again leaves the
\* dictionaries as it found them (ExtFinder.cpp:343, 356, 381: the changes made
\* while the candidate was processed are undone), but for the lines that were
\* in the log before, drawn by the event of the request: they go back as well.
FailureUndone ==
  [][GivesUp /\ ~refilled /\ ~Orphaned =>
       \A d \in Dicts : Available(vStates', d)
                          = before[d] \cup { l \in Lines : <<d, l>> \in logged }]_vars
=============================================================================
