---------------------------- MODULE SessionServer ----------------------------
(***************************************************************************)
(* The command handlers of InfEngineServer: filter processes that serve    *)
(* sessions and infs kept in a cache all of them share.                    *)
(*                                                                         *)
(* A filter owns one session object (vUserSession) and one slot for an     *)
(* inf (the ext base) and uses them for every command it handles, whoever  *)
(* sent it.  A command is a few accesses to the cache with local work in   *)
(* between; every access is a step (CacheMemcached shows that one access   *)
(* is atomic).  A filter may crash or be killed at any step, the cache may *)
(* drop anything, and the base may be replaced by a newer one.             *)
(*                                                                         *)
(* The values of a session are abstracted to who put them there: vars is   *)
(* the set of the sessions whose values it holds, dicts the set of <<s, d>> *)
(* such that a state of a dictionary of d was made for s, where d is the   *)
(* main base or the profile of an inf, and count the request counter.      *)
(***************************************************************************)
EXTENDS Integers, FiniteSets

CONSTANTS Filters, Sessions, Infs, Profiles,
          InfOf,          \* the inf of a session
          LastVersion,    \* the base is replaced LastVersion - 1 times
          VarsSum,        \* version of the base -> checksum of its variables
          FunctionsSum,   \* version of the base -> checksum of its functions
          Drawn,          \* which dictionaries have udict items: Main, User
          Serial,         \* a session sends no command before the last reply
          MaxCount,       \* bound: requests served for one session
          MaxFaults,      \* bound: crashes, errors and losses
          None, Main, User

Versions == 1 .. LastVersion

ASSUME InfOfAssumption == InfOf \in [Sessions -> Infs]
ASSUME BoundsAssumption == LastVersion \in Nat \ {0} /\ MaxCount \in Nat /\ MaxFaults \in Nat
ASSUME SumsAssumption == VarsSum \in [Versions -> Int] /\ FunctionsSum \in [Versions -> Int]
ASSUME DrawnAssumption == Drawn \subseteq {Main, User}
ASSUME OriginsAssumption == Main \notin Profiles /\ None \notin Profiles

VARIABLES
  infs,      \* cache: inf -> [made, profile], made being the version of the base
  sessions,  \* cache: session -> [sum, ids, vars, dicts, dsum, count]
  newest,    \* the version of the base on disk
  base,      \* filter -> the version of the base it has open
  pc,        \* filter -> the cache access it does next
  job,       \* filter -> the command it handles
  mem,       \* filter -> vUserSession
  ext,       \* filter -> the profile in the ext base
  events,    \* filter -> whose events filled vEventInstructions
  missed,    \* session -> what its client knows to be missing
  waiting,   \* session -> its client wants an answer
  served,    \* session -> requests answered since the session was set
  faults     \* how many faults have happened

cache   == <<infs, sessions>>
process == <<base, pc, job, mem, ext, events>>
client  == <<missed, waiting, served>>
vars    == <<cache, newest, process, client, faults>>
-----------------------------------------------------------------------------
Origins == Profiles \union {Main}

Session == [sum : Int, ids : Int, vars : SUBSET Sessions,
            dicts : SUBSET (Sessions \X Origins),
            dsum : Profiles \union {None}, count : Nat]

Memory == [ids : Int, vars : SUBSET Sessions, dicts : SUBSET (Sessions \X Origins),
           dsum : Profiles \union {None}, count : Nat]

Inf == [made : Versions, profile : Profiles]

Job == [cmd : {"request", "set", "update"}, session : Sessions, found : BOOLEAN]

(* vUserSession of a process that has just started.  It is a global object: *)
(* the checksum, which no constructor sets, is zero.                        *)
Fresh == [ids |-> 0, vars |-> {}, dicts |-> {}, dsum |-> None, count |-> 0]

(* Mutant: the values stay.                                                *)
ResetKeepsVars(m) == [m EXCEPT !.count = 0]

(* Session::Reset(): the values go; the states of the dictionaries and     *)
(* their checksum stay.                                                    *)
Reset(m) == [ids |-> m.ids, vars |-> {}, dicts |-> m.dicts, dsum |-> m.dsum, count |-> 0]

(* Session::SetTextValue() with what the client of s sent.                 *)
Valued(m, s) == [m EXCEPT !.vars = m.vars \union {s}]

(* auto_request_counter goes up.                                           *)
Counted(m) == [m EXCEPT !.count = m.count + 1]

(* Mutant: the checksum of the user dictionaries is not written back.      *)
CheckedNotSet(m, profile) ==
  IF m.dsum = profile THEN m ELSE [m EXCEPT !.dicts = {}]

(* A request drops the states of the dictionaries when those of the inf    *)
(* are not the ones they were made for.                                    *)
Checked(m, profile) ==
  IF m.dsum = profile THEN m ELSE [m EXCEPT !.dicts = {}, !.dsum = profile]

(* Mutant: the arguments are swapped.                                      *)
DrawSwapped(m, s, d) == [m EXCEPT !.dicts = m.dicts \union (d \X {s})]

(* Lines are drawn from dictionaries of d.                                 *)
Draw(m, s, d) == [m EXCEPT !.dicts = m.dicts \union ({s} \X d)]

(* Answers to events use the main base only.                               *)
EventDraws == SUBSET (Drawn \cap {Main})

(* A search draws from the main base and from the inf.                     *)
SearchDraws(profile) ==
  {{IF d = Main THEN Main ELSE profile : d \in D} : D \in SUBSET Drawn}

Idle(f) == pc[f] = "idle"

(* Nothing keeps two commands about one session apart but their sender.    *)
MaySend(s) == Serial => \A f \in Filters : ~Idle(f) => job[f].session # s

(* The checks of OpenExtBase(): the registries the inf was compiled with.  *)
Fits(inf, v) == /\ FunctionsSum[inf.made] = FunctionsSum[v]
                /\ VarsSum[inf.made] = VarsSum[v]

(* LoadUserBase(): open the inf in the cache as the ext base; one made     *)
(* with other registries is deleted from the cache next.                   *)
LoadUserBase(f, i, then) ==
  LET good == infs[i] # None /\ Fits(infs[i], base[f])
  IN  /\ ext' = [ext EXCEPT ![f] = IF good THEN infs[i].profile ELSE None]
      /\ pc' = [pc EXCEPT ![f] = IF infs[i] = None \/ good THEN then ELSE "delinf"]

(* Mutant: the checksum of the registry is not looked at.                  *)
LoadableAny(f, s) == sessions[s] # None

(* Session::Load(): the session was saved with the registry in use.        *)
Loadable(f, s) == sessions[s] # None /\ sessions[s].sum = VarsSum[base[f]]

(* Mutant: the counter is not among what is loaded.                        *)
LoadedNotCount(s) == [ids |-> sessions[s].ids, vars |-> sessions[s].vars,
                      dicts |-> sessions[s].dicts, dsum |-> sessions[s].dsum,
                      count |-> 0]

(* What the session in the cache turns vUserSession into.                  *)
Loaded(s) == [ids |-> sessions[s].ids, vars |-> sessions[s].vars,
              dicts |-> sessions[s].dicts, dsum |-> sessions[s].dsum,
              count |-> sessions[s].count]

(* The session is not there, or has to be deleted first.                   *)
NotLoaded(f, s) ==
  /\ ~Loadable(f, s)
  /\ mem' = [mem EXCEPT ![f] = Reset(mem[f])]
  /\ job' = [job EXCEPT ![f].found = FALSE]
  /\ pc' = [pc EXCEPT ![f] = IF sessions[s] = None THEN "reply" ELSE "delses"]
  /\ UNCHANGED <<ext, events>>

NewJob(cmd, s) == [cmd |-> cmd, session |-> s, found |-> TRUE]
-----------------------------------------------------------------------------
(* CmdSetInf(): compile the inf and put it into the cache, for the client  *)
(* of session s.                                                           *)
SetInf(f, s, p) ==
  /\ Idle(f) /\ MaySend(s)
  /\ infs' = [infs EXCEPT ![InfOf[s]] = [made |-> base[f], profile |-> p]]
  /\ missed' = [missed EXCEPT ![s] = @ \ {"inf"}]
  /\ UNCHANGED <<sessions, newest, process, waiting, served, faults>>

(* CmdSetSession(): the values come from the client, the event SetSession  *)
(* is processed, then the session is saved.                                *)
SetSession(f, s) ==
  /\ Idle(f) /\ MaySend(s)
  /\ job' = [job EXCEPT ![f] = NewJob("set", s)]
  /\ \E d \in EventDraws :
       mem' = [mem EXCEPT ![f] =
                 Draw(Valued([Reset(mem[f]) EXCEPT !.ids = VarsSum[base[f]]], s), s, d)]
  /\ events' = [events EXCEPT ![f] = s]
  /\ LoadUserBase(f, InfOf[s], "save")
  /\ UNCHANGED <<cache, newest, base, client, faults>>

(* CmdUpdateSession() starts by loading the session.                       *)
UpdateSession(f, s) ==
  /\ Idle(f) /\ MaySend(s)
  /\ job' = [job EXCEPT ![f] = NewJob("update", s)]
  /\ pc' = [pc EXCEPT ![f] = "getses"]
  /\ UNCHANGED <<cache, newest, base, mem, ext, events, client, faults>>

(* CmdRequest() starts by loading the inf.                                 *)
Request(f, s) ==
  /\ Idle(f) /\ MaySend(s)
  /\ waiting[s] \/ served[s] < MaxCount
  /\ job' = [job EXCEPT ![f] = NewJob("request", s)]
  /\ waiting' = [waiting EXCEPT ![s] = TRUE]
  /\ LoadUserBase(f, InfOf[s], "getses")
  /\ UNCHANGED <<cache, newest, base, mem, events, missed, served, faults>>

(* CmdPurgeSession() and CmdPurgeInf(): one deletion.                      *)
PurgeSession(f, s) ==
  /\ Idle(f) /\ MaySend(s) /\ faults < MaxFaults
  /\ sessions' = [sessions EXCEPT ![s] = None]
  /\ faults' = faults + 1
  /\ UNCHANGED <<infs, newest, process, client>>

PurgeInf(f, i) ==
  /\ Idle(f) /\ faults < MaxFaults
  /\ infs' = [infs EXCEPT ![i] = None]
  /\ faults' = faults + 1
  /\ UNCHANGED <<sessions, newest, process, client>>
-----------------------------------------------------------------------------
(* LoadUserBase() deletes the inf it could not open.                       *)
DeleteInf(f) ==
  /\ pc[f] = "delinf"
  /\ infs' = [infs EXCEPT ![InfOf[job[f].session]] = None]
  /\ pc' = [pc EXCEPT ![f] = IF job[f].cmd = "request" THEN "getses" ELSE "save"]
  /\ UNCHANGED <<sessions, newest, base, job, mem, ext, events, client, faults>>

(* CmdUpdateSession(): new values, the event UpdateSession, and the inf of *)
(* the session is loaded while the event is processed.                     *)
Updated(f, s) ==
  /\ Loadable(f, s)
  /\ \E d \in EventDraws :
       mem' = [mem EXCEPT ![f] = Draw(Valued(Loaded(s), s), s, d)]
  /\ events' = [events EXCEPT ![f] = s]
  /\ LoadUserBase(f, InfOf[s], "save")
  /\ UNCHANGED job

(* CmdRequest(): the event Request may be the whole answer; otherwise the  *)
(* dictionaries are checked and an answer is searched.  The counter goes   *)
(* up and the session is saved unless it disables the cache.  Without the  *)
(* inf there is no answer and nothing is saved.                            *)
Answered(f, s) ==
  /\ Loadable(f, s)
  /\ \E d \in EventDraws :
       LET m == Draw(Loaded(s), s, d)
       IN  \/ /\ ext[f] = None
              /\ mem' = [mem EXCEPT ![f] = m]
              /\ pc' = [pc EXCEPT ![f] = "reply"]
           \/ /\ ext[f] # None
              /\ \/ mem' = [mem EXCEPT ![f] = Counted(m)]
                 \/ \E D \in SearchDraws(ext[f]) :
                      mem' = [mem EXCEPT ![f] =
                                Counted(Draw(Checked(Valued(m, s), ext[f]), s, D))]
              /\ \E then \in {"save", "reply"} : pc' = [pc EXCEPT ![f] = then]
  /\ events' = [events EXCEPT ![f] = s]
  /\ UNCHANGED <<job, ext>>

GetSession(f) ==
  LET s == job[f].session
  IN  /\ pc[f] = "getses"
      /\ \/ NotLoaded(f, s)
         \/ job[f].cmd = "update" /\ Updated(f, s)
         \/ job[f].cmd = "request" /\ Answered(f, s)
      /\ UNCHANGED <<cache, newest, base, client, faults>>

(* The session saved with other variables is deleted.                      *)
DeleteSession(f) ==
  /\ pc[f] = "delses"
  /\ sessions' = [sessions EXCEPT ![job[f].session] = None]
  /\ pc' = [pc EXCEPT ![f] = "reply"]
  /\ UNCHANGED <<infs, newest, base, job, mem, ext, events, client, faults>>

(* Session::Save().                                                        *)
SaveSession(f) ==
  LET s == job[f].session
      m == mem[f]
  IN  /\ pc[f] = "save"
      /\ sessions' = [sessions EXCEPT ![s] =
                        [sum |-> VarsSum[base[f]], ids |-> m.ids, vars |-> m.vars,
                         dicts |-> m.dicts, dsum |-> m.dsum, count |-> m.count]]
      /\ served' = [served EXCEPT ![s] = CASE job[f].cmd = "set" -> 0
                                           [] job[f].cmd = "update" -> @
                                           [] job[f].cmd = "request" -> @ + 1]
      /\ pc' = [pc EXCEPT ![f] = "reply"]
      /\ UNCHANGED <<infs, newest, base, job, mem, ext, events, missed, waiting, faults>>

(* Mutant: a session that was not found is not reported.                   *)
MaskWithoutSession(f) == IF ext[f] = None THEN {"inf"} ELSE {}

(* misseddatamask of the reply to a request.                               *)
Mask(f) == (IF ext[f] = None THEN {"inf"} ELSE {})
             \union (IF job[f].found THEN {} ELSE {"session"})

(* The reply is the answer to a request, not only its missing parts.       *)
HasAnswer(f) == job[f].cmd = "request" /\ job[f].found /\ ext[f] # None

(* The reply reaches the client.                                           *)
Reply(f) ==
  LET s == job[f].session
  IN  /\ pc[f] = "reply"
      /\ pc' = [pc EXCEPT ![f] = "idle"]
      /\ job' = [job EXCEPT ![f] = None]
      /\ missed' = [missed EXCEPT ![s] = CASE job[f].cmd = "set" -> @ \ {"session"}
                                           [] job[f].cmd = "update" -> @
                                           [] job[f].cmd = "request" -> Mask(f)]
      /\ waiting' = [waiting EXCEPT ![s] = @ /\ ~HasAnswer(f)]
      /\ UNCHANGED <<cache, newest, base, mem, ext, events, served, faults>>
-----------------------------------------------------------------------------
(* A handler that fails replies with an error; vUserSession stays as it is. *)
Fail(f) ==
  /\ ~Idle(f) /\ faults < MaxFaults
  /\ pc' = [pc EXCEPT ![f] = "idle"]
  /\ job' = [job EXCEPT ![f] = None]
  /\ faults' = faults + 1
  /\ UNCHANGED <<cache, newest, base, mem, ext, events, client>>

(* A new process in the place of filter f.                                 *)
Start(f) ==
  /\ base' = [base EXCEPT ![f] = newest]
  /\ pc' = [pc EXCEPT ![f] = "idle"]
  /\ job' = [job EXCEPT ![f] = None]
  /\ mem' = [mem EXCEPT ![f] = Fresh]
  /\ ext' = [ext EXCEPT ![f] = None]
  /\ events' = [events EXCEPT ![f] = None]
  /\ UNCHANGED <<cache, newest, client>>

(* A crash, a timeout or a kill: the client gets no reply.                 *)
Crash(f) == faults < MaxFaults /\ faults' = faults + 1 /\ Start(f)

(* The process server lets an idle filter of the old base go.              *)
Restart(f) == Idle(f) /\ base[f] # newest /\ Start(f) /\ UNCHANGED faults

(* memcached drops a value.                                                *)
Evict ==
  /\ faults < MaxFaults
  /\ \/ /\ \E s \in Sessions : sessions' = [sessions EXCEPT ![s] = None]
        /\ UNCHANGED infs
     \/ /\ \E i \in Infs : infs' = [infs EXCEPT ![i] = None]
        /\ UNCHANGED sessions
  /\ faults' = faults + 1
  /\ UNCHANGED <<newest, process, client>>

(* A newer base is installed.                                              *)
Upgrade ==
  /\ newest < LastVersion
  /\ newest' = newest + 1
  /\ UNCHANGED <<cache, process, client, faults>>
-----------------------------------------------------------------------------
Init ==
  /\ infs = [i \in Infs |-> None] /\ sessions = [s \in Sessions |-> None]
  /\ newest = 1 /\ base = [f \in Filters |-> 1]
  /\ pc = [f \in Filters |-> "idle"]
  /\ job = [f \in Filters |-> None]
  /\ mem = [f \in Filters |-> Fresh]
  /\ ext = [f \in Filters |-> None] /\ events = [f \in Filters |-> None]
  /\ missed = [s \in Sessions |-> {}] /\ waiting = [s \in Sessions |-> FALSE]
  /\ served = [s \in Sessions |-> 0] /\ faults = 0

(* The rest of a command once it has been accepted.                        *)
Handle(f) == \/ DeleteInf(f) \/ GetSession(f) \/ DeleteSession(f)
             \/ SaveSession(f) \/ Reply(f)

Next ==
  \/ \E f \in Filters :
       \/ Handle(f) \/ Fail(f) \/ Crash(f) \/ Restart(f)
       \/ \E s \in Sessions : \/ SetSession(f, s) \/ UpdateSession(f, s)
                               \/ Request(f, s) \/ PurgeSession(f, s)
                               \/ \E p \in Profiles : SetInf(f, s, p)
       \/ \E i \in Infs : PurgeInf(f, i)
  \/ Evict
  \/ Upgrade

Spec == Init /\ [][Next]_vars

(* What the client of a waiting session sends after a reply: the inf first, *)
(* then the session, then the request again.                               *)
SendInf(s) == /\ "inf" \in missed[s]
              /\ \E f \in Filters, p \in Profiles : SetInf(f, s, p)

SendSession(s) == /\ waiting[s] /\ missed[s] = {"session"}
                  /\ \E f \in Filters : SetSession(f, s)

AskAgain(s) == /\ waiting[s] /\ missed[s] = {}
               /\ \E f \in Filters : Request(f, s)

(* An accepted command is handled to its end.  Connections wait in the     *)
(* backlog of the listening socket in the order they came, so one that     *)
(* could be accepted again and again is; and a filter that is idle again   *)
(* and again is replaced after an upgrade.                                 *)
Fairness ==
  /\ \A f \in Filters : WF_vars(Handle(f)) /\ SF_vars(Restart(f))
  /\ \A s \in Sessions :
       SF_vars(SendInf(s)) /\ SF_vars(SendSession(s)) /\ SF_vars(AskAgain(s))

(* Clients that send what they were told is missing and nothing else.      *)
ClientNext == \E s \in Sessions :
  \/ ~waiting[s] /\ \E f \in Filters : Request(f, s)
  \/ SendInf(s) \/ SendSession(s) \/ AskAgain(s)

FairNext == \/ \E f \in Filters : Handle(f) \/ Fail(f) \/ Crash(f) \/ Restart(f)
            \/ ClientNext \/ Evict \/ Upgrade

FairSpec == Init /\ [][FairNext]_vars /\ Fairness
-----------------------------------------------------------------------------
TypeOK ==
  /\ infs \in [Infs -> Inf \union {None}]
  /\ sessions \in [Sessions -> Session \union {None}]
  /\ newest \in Versions /\ base \in [Filters -> Versions]
  /\ pc \in [Filters -> {"idle", "delinf", "getses", "delses", "save", "reply"}]
  /\ job \in [Filters -> Job \union {None}]
  /\ \A f \in Filters : ~Idle(f) => job[f] \in Job
  /\ mem \in [Filters -> Memory]
  /\ ext \in [Filters -> Profiles \union {None}]
  /\ events \in [Filters -> Sessions \union {None}]
  /\ missed \in [Sessions -> SUBSET {"inf", "session"}]
  /\ waiting \in [Sessions -> BOOLEAN]
  /\ served \in [Sessions -> Nat] /\ faults \in 0 .. MaxFaults

(* Values of one user never reach the session of another, although every   *)
(* filter uses one session object for all of them.                         *)
VarsAreOwn ==
  \A s \in Sessions : sessions[s] # None => sessions[s].vars \subseteq {s}

(* The same for the states of the dictionaries, which Session::Reset       *)
(* leaves: this does not hold (section 5 of the README).                   *)
DictsAreOwn ==
  \A s \in Sessions :
     sessions[s] # None => \A o \in sessions[s].dicts : o[1] = s

(* A state of a dictionary of an inf is only kept beside the checksum of   *)
(* the profile it was made for, so the check of the next request drops it  *)
(* when the inf has changed: line numbers of an old dictionary are never   *)
(* used with a new one.                                                    *)
UserDictsFresh ==
  LET MadeFor(m) == \A o \in m.dicts : o[2] \in {Main, m.dsum}
  IN  /\ \A f \in Filters : MadeFor(mem[f])
      /\ \A s \in Sessions : sessions[s] # None => MadeFor(sessions[s])

(* The identifiers of the variables of a session are only used with the    *)
(* registry they were given by: those of a session that was saved by a     *)
(* filter with another base never get into a new copy of it.               *)
IdsFit ==
  /\ \A f \in Filters : pc[f] = "save" => mem[f].ids = VarsSum[base[f]]
  /\ \A s \in Sessions : sessions[s] # None => sessions[s].ids = sessions[s].sum

(* The request counter of a cached session is the number of the requests   *)
(* that were answered and saved since the session was set.                 *)
CountIsServed ==
  \A s \in Sessions : sessions[s] # None => sessions[s].count = served[s]

(* What a filter deletes because it does not fit is something that does    *)
(* not fit.  This does not hold: it may have been replaced since it was    *)
(* read (section 5 of the README).                                         *)
DeletesOnlyBad ==
  [][\A f \in Filters :
       /\ DeleteInf(f) => LET i == InfOf[job[f].session]
                          IN  infs[i] # None => ~Fits(infs[i], base[f])
       /\ DeleteSession(f) => ~Loadable(f, job[f].session)]_vars

(* The instructions of events that go with an answer were made for the     *)
(* session of the request.  This does not hold when the session was not    *)
(* found (section 5 of the README).                                        *)
EventsAreOwn ==
  \A f \in Filters :
     pc[f] = "reply" /\ job[f].cmd = "request" => events[f] \in {None, job[f].session}

(* A session or an inf that was lost, or that an upgrade made unusable, is *)
(* reported to the client and sent again, and its request is answered.     *)
Recovers == \A s \in Sessions : waiting[s] ~> ~waiting[s]
=============================================================================
