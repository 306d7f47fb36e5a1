--------------------------- MODULE ProcessServer ---------------------------
(***************************************************************************)
(* The process server (ap-process-server.c) keeps a pool of forked         *)
(* InfServer processes, the "filters".  All filters accept on one          *)
(* inherited listening socket and report TAKEN/AVAIL on one inherited      *)
(* status pipe; the master counts them, starts more when none is spare,    *)
(* buries the dead, and rereads its configuration on a signal.             *)
(*                                                                         *)
(* The master is single threaded: its loop is the sequence of phases       *)
(* "bury", "spawn", "check", "reread", "spare", one action each, and the   *)
(* filters, the signals and the clients run in between.                    *)
(*                                                                         *)
(* Abstractions.  A listening socket is named by its address: only one     *)
(* socket can be bound to an address at a time.  A filter's inherited end  *)
(* of the status pipe is `linked' as long as the master still holds the    *)
(* other end.  Time is the one bit the master looks at: is start_time      *)
(* still in the future.  A pid is reused only when no status record of its *)
(* previous owner is left in the pipe.                                     *)
(***************************************************************************)
EXTENDS Integers, Sequences, FiniteSets

CONSTANTS
  Pids,            \* process ids the kernel may hand out
  Addresses,       \* addresses a Listen line may name
  InitialConfig,   \* the configuration file read at start
  ConfigFiles,     \* contents the file may have when it is reread
  DefaultMax,      \* DEFAULT_MAX_FILTERS
  MaxRequests,     \* MaxRequestsNumber of the filters, at least 1
  PipeCapacity,    \* status records the pipe holds before a writer times out
  Backlog,         \* bound: connections waiting on one socket
  MaxSignals,      \* bound: SIGHUP and SIGUSR1 the master receives
  MaxForkFailures  \* bound: forks that fail

RawConfig == [max : Nat, start : Nat, spare : Nat, listen : Addresses]

\* Zero is the pid of a free slot, -1 what a failed fork leaves in one.
ASSUME PidsAssumption == IsFiniteSet(Pids) /\ Pids \cap {0, -1} = {}
ASSUME ConfigAssumption == /\ InitialConfig \in RawConfig
                           /\ ConfigFiles \subseteq RawConfig
                           /\ DefaultMax \in Nat \ {0}
ASSUME BoundAssumption == /\ MaxRequests \in Nat \ {0}
                          /\ PipeCapacity \in Nat
                          /\ Backlog \in Nat
                          /\ MaxSignals \in Nat
                          /\ MaxForkFailures \in Nat

VARIABLES
  phase,           \* where the master's loop is
  config,          \* STATE.config
  bound,           \* the address STATE.listen_fd is bound to
  pipe,            \* records in the status pipe, oldest first
  pipeOpen,        \* STATE.status_fd[0] >= 0
  filters,         \* STATE.filters; its length is STATE.filters_alloc
  num_filters, spare_filters, start,
  delayed,         \* start_time is not yet in the past
  childs_exited, reread_configuration, restart_filters,  \* set by signals
  procs,           \* the filter processes, by pid
  pending,         \* connections waiting to be accepted, by address
  signals,         \* SIGHUP and SIGUSR1 received so far
  forkFailures     \* forks that have failed so far

counters == <<num_filters, spare_filters, start>>
flags    == <<childs_exited, reread_configuration, restart_filters>>
bounds   == <<signals, forkFailures>>
vars == <<phase, config, bound, pipe, pipeOpen, filters, counters, delayed,
          flags, procs, pending, bounds>>

FreeSlot == [pid |-> 0, avail |-> FALSE, used |-> FALSE]
Slot == [pid : Pids \cup {0, -1}, avail : BOOLEAN, used : BOOLEAN]
Status == [pid : Pids, avail : BOOLEAN]

\* "none": no such process; "starting": forked, has not yet installed its
\* SIGHUP handler; "idle": in select; "serving": has accepted a connection;
\* "zombie": dead and not yet waited for, with or without an error status.
NoProc == [st |-> "none", graceful |-> FALSE, linked |-> FALSE,
           sock |-> CHOOSE a \in Addresses : TRUE, count |-> 0, error |-> FALSE]
Proc == [st : {"none", "starting", "idle", "serving", "zombie"},
         graceful : BOOLEAN, linked : BOOLEAN, sock : Addresses,
         count : 0..MaxRequests, error : BOOLEAN]

Running == {p \in Pids : procs[p].st \in {"starting", "idle", "serving"}}
Zombies == {p \in Pids : procs[p].st = "zombie"}
Children == Running \cup Zombies

\* config_check_values: MinSpareFilters that is not below MaxFilters becomes
\* MaxFilters itself.
CheckValues(c) ==
  LET max == IF c.max > 0 THEN c.max ELSE DefaultMax
  IN  [max    |-> max,
       start  |-> IF c.start <= max THEN c.start ELSE max,
       spare  |-> IF c.spare < max THEN c.spare ELSE max,
       listen |-> c.listen]

\* A socket lives while the master or a running filter holds it; when its
\* last holder is gone the kernel resets the connections waiting on it.
Held(a, b, ps) ==
  \/ a = b
  \/ \E p \in Pids : ps[p].sock = a /\ ps[p].st \in {"starting", "idle", "serving"}
Backlogged(b, ps) == [a \in Addresses |-> IF Held(a, b, ps) THEN pending[a] ELSE 0]

Init ==
  /\ config = CheckValues(InitialConfig)
  /\ phase = "bury"
  /\ bound = config.listen
  /\ pipe = <<>> /\ pipeOpen = TRUE
  /\ filters = [i \in 1..config.max |-> FreeSlot]
  /\ num_filters = 0 /\ spare_filters = 0 /\ start = config.start
  /\ delayed = FALSE
  /\ childs_exited = FALSE /\ reread_configuration = FALSE /\ restart_filters = FALSE
  /\ procs = [p \in Pids |-> NoProc]
  /\ pending = [a \in Addresses |-> 0]
  /\ signals = 0 /\ forkFailures = 0

-----------------------------------------------------------------------------
(* The master *)

Occupied(i) == filters[i].pid \in Pids
Buried(i)   == Occupied(i) /\ filters[i].pid \in Zombies

\* Mutant: every buried filter is taken for a spare one.
BuryChildsAllSpare ==
  /\ childs_exited
  /\ LET gone == {i \in DOMAIN filters : Buried(i)}
     IN  /\ num_filters' = num_filters - Cardinality(gone)
         /\ spare_filters' = spare_filters - Cardinality(gone)
         /\ filters' = [i \in DOMAIN filters |->
                          IF i \in gone THEN FreeSlot ELSE filters[i]]
         /\ delayed' = delayed
  /\ procs' = [p \in Pids |-> IF p \in Zombies THEN NoProc ELSE procs[p]]
  /\ childs_exited' = (Running # {})

\* Mutant: a buried filter still counts.
BuryChildsUncounted ==
  /\ childs_exited
  /\ LET gone == {i \in DOMAIN filters : Buried(i)}
     IN  /\ spare_filters' = spare_filters
                               - Cardinality({i \in gone : filters[i].avail})
         /\ filters' = [i \in DOMAIN filters |->
                          IF i \in gone THEN FreeSlot ELSE filters[i]]
         /\ UNCHANGED <<num_filters, delayed>>
  /\ procs' = [p \in Pids |-> IF p \in Zombies THEN NoProc ELSE procs[p]]
  /\ childs_exited' = (Running # {})

\* bury_childs, run at the top of the loop when SIGCHLD has been seen: every
\* zombie is waited for and its slot cleared.  childs_exited is reset only
\* when wait3 says there are no children left.  A filter that failed before it
\* took a connection delays the next start.
BuryChilds ==
  /\ childs_exited
  /\ LET gone == {i \in DOMAIN filters : Buried(i)}
     IN  /\ num_filters' = num_filters - Cardinality(gone)
         /\ spare_filters' = spare_filters
                               - Cardinality({i \in gone : filters[i].avail})
         /\ filters' = [i \in DOMAIN filters |->
                          IF i \in gone THEN FreeSlot ELSE filters[i]]
         /\ delayed' = (delayed \/ \E i \in gone : /\ ~filters[i].used
                                                    /\ procs[filters[i].pid].error)
  /\ procs' = [p \in Pids |-> IF p \in Zombies THEN NoProc ELSE procs[p]]
  /\ childs_exited' = (Running # {})

\* Mutant: a loop that is leaving no longer buries.
LoopTopForgets ==
  /\ phase = "bury"
  /\ \/ pipeOpen /\ BuryChilds
     \/ (childs_exited => ~pipeOpen) /\ UNCHANGED <<num_filters, spare_filters, filters,
                                                    delayed, procs, childs_exited>>
  /\ phase' = IF pipeOpen THEN "spawn"
              ELSE IF num_filters' > 0 THEN "bury" ELSE "stopped"
  /\ UNCHANGED <<config, bound, pipe, pipeOpen, start, reread_configuration,
                 restart_filters, pending, bounds>>

\* The top of main_loop: bury, then leave the loop for good if there is no
\* status pipe.  A loop that is leaving waits for the filters to end.
LoopTop ==
  /\ phase = "bury"
  /\ \/ BuryChilds
     \/ ~childs_exited /\ UNCHANGED <<num_filters, spare_filters, filters,
                                      delayed, procs, childs_exited>>
  /\ phase' = IF pipeOpen THEN "spawn"
              ELSE IF num_filters' > 0 THEN "bury" ELSE "stopped"
  /\ UNCHANGED <<config, bound, pipe, pipeOpen, start, reread_configuration,
                 restart_filters, pending, bounds>>

FreeSlots == {i \in DOMAIN filters : ~Occupied(i)}
FirstFree == CHOOSE i \in FreeSlots : \A j \in FreeSlots : i <= j

\* Mutant: the limit is the number of slots.
MaySpawnToSlots == start > 0 /\ num_filters < Len(filters) /\ ~delayed /\ FreeSlots # {}

MaySpawn == start > 0 /\ num_filters < config.max /\ ~delayed /\ FreeSlots # {}

\* What spawn_filter does after fork, whatever fork returned.
FillSlot(pid) ==
  /\ filters' = [filters EXCEPT ![FirstFree] =
                   [pid |-> pid, avail |-> TRUE, used |-> FALSE]]
  /\ start' = start - 1
  /\ num_filters' = num_filters + 1
  /\ spare_filters' = spare_filters + 1
  /\ delayed' = TRUE
  /\ phase' = "check"
  /\ UNCHANGED <<config, bound, pipe, pipeOpen, flags, pending, signals>>

SpawnFilter(p) ==
  /\ phase = "spawn" /\ MaySpawn
  /\ procs[p].st = "none"
  /\ \A k \in DOMAIN pipe : pipe[k].pid # p
  /\ procs' = [procs EXCEPT ![p] = [NoProc EXCEPT !.st = "starting",
                                                  !.linked = TRUE, !.sock = bound]]
  /\ FillSlot(p)
  /\ UNCHANGED forkFailures

\* fork returns -1: the error is logged, and the slot is filled all the same.
SpawnFails ==
  /\ phase = "spawn" /\ MaySpawn
  /\ forkFailures < MaxForkFailures
  /\ forkFailures' = forkFailures + 1
  /\ FillSlot(-1)
  /\ UNCHANGED procs

NoSpawn ==
  /\ phase = "spawn" /\ ~MaySpawn
  /\ phase' = "check"
  /\ UNCHANGED <<config, bound, pipe, pipeOpen, filters, counters, delayed,
                 flags, procs, pending, bounds>>

WatchesListen == start = 0 /\ spare_filters = 0 /\ num_filters < config.max

\* Mutant: every AVAIL counts, also of a filter that is believed spare.
ApplyStatusAlways(s) ==
  LET hit == {i \in DOMAIN filters : filters[i].pid = s.pid}
      i   == CHOOSE k \in hit : \A j \in hit : k <= j
  IN  IF hit = {} THEN UNCHANGED <<filters, spare_filters>>
      ELSE /\ filters' = [filters EXCEPT ![i].avail = s.avail,
                                         ![i].used = @ \/ ~s.avail]
           /\ spare_filters' = IF s.avail THEN spare_filters + 1 ELSE spare_filters - 1

\* Mutant: the slot does not learn that its filter is available again.
ApplyStatusForgets(s) ==
  LET hit == {i \in DOMAIN filters : filters[i].pid = s.pid}
      i   == CHOOSE k \in hit : \A j \in hit : k <= j
  IN  IF hit = {} \/ s.avail THEN UNCHANGED <<filters, spare_filters>>
      ELSE /\ filters' = [filters EXCEPT ![i].avail = FALSE, ![i].used = TRUE]
           /\ spare_filters' = spare_filters - (IF filters[i].avail THEN 1 ELSE 0)

\* The record at the head of the pipe updates the first slot with its pid; the
\* record of a filter that is already buried finds no slot.
ApplyStatus(s) ==
  LET hit == {i \in DOMAIN filters : filters[i].pid = s.pid}
      i   == CHOOSE k \in hit : \A j \in hit : k <= j
  IN  IF hit = {} THEN UNCHANGED <<filters, spare_filters>>
      ELSE /\ filters' = [filters EXCEPT ![i] = [pid |-> s.pid, avail |-> s.avail,
                                                 used |-> @.used \/ ~s.avail]]
           /\ spare_filters' = IF s.avail = filters[i].avail THEN spare_filters
                               ELSE IF s.avail THEN spare_filters + 1 ELSE spare_filters - 1

\* check_filter_statuses: one select, at most one record read, and a start
\* requested when a connection waits and nobody is spare.
CheckFilterStatuses ==
  /\ phase = "check"
  /\ IF pipe = <<>> THEN UNCHANGED <<pipe, filters, spare_filters>>
     ELSE ApplyStatus(Head(pipe)) /\ pipe' = Tail(pipe)
  /\ start' = IF WatchesListen /\ pending[bound] > 0 THEN start + 1 ELSE start
  /\ phase' = "reread"
  /\ UNCHANGED <<config, bound, pipeOpen, num_filters, delayed, flags, procs,
                 pending, bounds>>

\* hup_filters: SIGHUP ends a filter that has no handler yet, unless it has not
\* even left the master's program; the others leave after their current turn.
HupFilters(killed) ==
  [p \in Pids |-> IF p \in killed THEN [procs[p] EXCEPT !.st = "zombie", !.error = TRUE]
                  ELSE IF procs[p].st \in {"idle", "serving"}
                  THEN [procs[p] EXCEPT !.graceful = TRUE]
                  ELSE procs[p]]

\* init_listening_descriptor: an address equal to the configured one is not
\* bound again; one that is still held by a filter cannot be bound, another may
\* not, and any failure keeps the old descriptor.  Addresses are those of the
\* Internet: the path of a Unix socket is unlinked and bound though it is held.
NewListen(c, binds) ==
  IF c.listen = config.listen \/ ~binds \/ Held(c.listen, bound, procs) THEN bound ELSE c.listen

\* Mutant: the slots are cut to a lower MaxFilters, as the code that main_loop
\* leaves out would have it.
LoadConfigShrinks(c, hupped, binds, ok) ==
  LET restart == restart_filters \/ NewListen(c, binds) # bound
  IN  /\ bound' = NewListen(c, binds)
      /\ config' = c
      /\ filters' = [i \in 1..c.max |-> IF i \in DOMAIN filters THEN filters[i] ELSE FreeSlot]
      /\ pipeOpen' = (restart => ok)
      /\ pipe' = IF restart THEN <<>> ELSE pipe
      /\ procs' = [p \in Pids |-> [hupped[p] EXCEPT !.linked = @ /\ ~restart]]
      /\ pending' = Backlogged(NewListen(c, binds), procs')

\* reread_config after the handlers set the flags: the new file, or the old
\* configuration if it does not load.  A restart, or a new socket, replaces the
\* status pipe, which may fail; statuses already in the old one are lost.
LoadConfig(c, hupped, binds, ok) ==
  LET restart == restart_filters \/ NewListen(c, binds) # bound
  IN  /\ bound' = NewListen(c, binds)
      /\ config' = c
      /\ filters' = [i \in 1..(IF c.max > Len(filters) THEN c.max ELSE Len(filters)) |->
                       IF i \in DOMAIN filters THEN filters[i] ELSE FreeSlot]
      /\ pipeOpen' = (restart => ok)
      /\ pipe' = IF restart THEN <<>> ELSE pipe
      /\ procs' = [p \in Pids |-> [hupped[p] EXCEPT !.linked = @ /\ ~restart]]
      /\ pending' = Backlogged(NewListen(c, binds), procs')

RereadConfig ==
  /\ phase = "reread" /\ reread_configuration
  /\ \E killed \in IF restart_filters THEN SUBSET {p \in Pids : procs[p].st = "starting"}
                   ELSE {{}} :
       LET hupped == IF restart_filters THEN HupFilters(killed) ELSE procs
       IN  /\ childs_exited' = (childs_exited \/ killed # {})
           /\ \/ \E f \in ConfigFiles, binds, ok \in BOOLEAN : LoadConfig(CheckValues(f), hupped, binds, ok)
              \/ /\ procs' = hupped
                 /\ pending' = Backlogged(bound, hupped)
                 /\ UNCHANGED <<bound, config, filters, pipeOpen, pipe>>
  /\ reread_configuration' = FALSE /\ restart_filters' = FALSE
  /\ phase' = "spare"
  /\ UNCHANGED <<counters, delayed, bounds>>

NoReread ==
  /\ phase = "reread" /\ ~reread_configuration
  /\ phase' = "spare"
  /\ UNCHANGED <<config, bound, pipe, pipeOpen, filters, counters, delayed,
                 flags, procs, pending, bounds>>

\* Mutant: one spare filter fewer is kept.
KeepSpareLess ==
  /\ phase = "spare"
  /\ start' = IF /\ start = 0
                 /\ spare_filters + 1 < config.spare
                 /\ num_filters < Len(filters)
              THEN 1 ELSE start
  /\ phase' = "bury"
  /\ UNCHANGED <<config, bound, pipe, pipeOpen, filters, num_filters, spare_filters,
                 delayed, flags, procs, pending, bounds>>

\* The end of the loop body asks for one more filter when too few are spare; it
\* compares with the slots allocated, not with MaxFilters.
KeepSpare ==
  /\ phase = "spare"
  /\ start' = IF /\ start = 0
                 /\ spare_filters < config.spare
                 /\ num_filters < Len(filters)
              THEN 1 ELSE start
  /\ phase' = "bury"
  /\ UNCHANGED <<config, bound, pipe, pipeOpen, filters, num_filters, spare_filters,
                 delayed, flags, procs, pending, bounds>>

MasterAlive == phase \notin {"stopped", "dead"}

\* The clock passes start_time.
ClockPasses ==
  /\ MasterAlive /\ delayed
  /\ delayed' = FALSE
  /\ UNCHANGED <<phase, config, bound, pipe, pipeOpen, filters, counters, flags,
                 procs, pending, bounds>>

\* signal_hup_handler and signal_usr1_handler.
Signal(hup) ==
  /\ MasterAlive
  /\ signals < MaxSignals
  /\ signals' = signals + 1
  /\ reread_configuration' = TRUE
  /\ restart_filters' = (restart_filters \/ hup)
  /\ UNCHANGED <<phase, config, bound, pipe, pipeOpen, filters, counters, delayed,
                 childs_exited, procs, pending, forkFailures>>

\* signal_death_handler runs to the end wherever the loop is: the whole process
\* group gets SIGTERM and the master is gone.
Death ==
  /\ MasterAlive
  /\ phase' = "dead"
  /\ procs' = [p \in Pids |-> NoProc]
  /\ pending' = [a \in Addresses |-> 0]
  /\ UNCHANGED <<config, bound, pipe, pipeOpen, filters, counters, delayed, flags,
                 bounds>>

-----------------------------------------------------------------------------
(* The filters: cs_server_main *)

FilterUnchanged ==
  UNCHANGED <<phase, config, bound, pipeOpen, filters, counters, delayed,
              reread_configuration, restart_filters, bounds>>

\* The end of a turn of the filter's loop: it leaves on graceful_exit, or when it
\* has made MaxRequests turns, whether they served anything or not.
EndTurn(p, leave) ==
  IF leave \/ procs[p].count + 1 >= MaxRequests
  THEN /\ procs' = [procs EXCEPT ![p].st = "zombie"]
       /\ childs_exited' = TRUE
       /\ pending' = Backlogged(bound, procs')
  ELSE /\ procs' = [procs EXCEPT ![p].st = "idle", ![p].count = @ + 1]
       /\ UNCHANGED <<childs_exited, pending>>

\* nbwrite to the status pipe fails once the master has closed it, and times
\* out when it is full.
CanReport(p) == procs[p].linked /\ Len(pipe) < PipeCapacity
Report(p, avail) ==
  pipe' = IF CanReport(p) THEN Append(pipe, [pid |-> p, avail |-> avail]) ELSE pipe

\* exec has succeeded and the SIGHUP handler is in place.
Started(p) ==
  /\ procs[p].st = "starting"
  /\ procs' = [procs EXCEPT ![p].st = "idle"]
  /\ FilterUnchanged /\ UNCHANGED <<childs_exited, pending, pipe>>

\* Mutant: turns without a connection do not count towards MaxRequests.
IdleTurnUncounted(p) ==
  /\ procs[p].st = "idle"
  /\ pending[procs[p].sock] = 0 \/ procs[p].graceful
  /\ IF procs[p].graceful THEN EndTurn(p, TRUE)
     ELSE UNCHANGED <<procs, childs_exited, pending>>
  /\ FilterUnchanged /\ UNCHANGED pipe

\* select times out, is interrupted, or a sibling accepts first.
IdleTurn(p) ==
  /\ procs[p].st = "idle"
  /\ pending[procs[p].sock] = 0 \/ procs[p].graceful
  /\ EndTurn(p, procs[p].graceful)
  /\ FilterUnchanged /\ UNCHANGED pipe

\* accept succeeds: TAKEN is reported, and a filter that cannot report will
\* leave after this connection.
Accept(p) ==
  /\ procs[p].st = "idle"
  /\ pending[procs[p].sock] > 0
  /\ pending' = [pending EXCEPT ![procs[p].sock] = @ - 1]
  /\ procs' = [procs EXCEPT ![p].st = "serving",
                            ![p].graceful = @ \/ ~CanReport(p)]
  /\ Report(p, FALSE)
  /\ FilterUnchanged /\ UNCHANGED childs_exited

\* process_connection returns and AVAIL is reported.
Finish(p) ==
  /\ procs[p].st = "serving"
  /\ Report(p, TRUE)
  /\ EndTurn(p, procs[p].graceful \/ ~CanReport(p))
  /\ FilterUnchanged

\* A filter dies without a word: exec fails, the alarm ends it, it crashes, or
\* its select fails.
Crash(p) ==
  /\ procs[p].st \in {"starting", "idle", "serving"}
  /\ procs' = [procs EXCEPT ![p].st = "zombie", ![p].error = TRUE]
  /\ childs_exited' = TRUE
  /\ pending' = Backlogged(bound, procs')
  /\ FilterUnchanged /\ UNCHANGED pipe

\* A client connects to a socket that is still open.
Connect(a) ==
  /\ MasterAlive
  /\ Held(a, bound, procs)
  /\ pending[a] < Backlog
  /\ pending' = [pending EXCEPT ![a] = @ + 1]
  /\ FilterUnchanged /\ UNCHANGED <<childs_exited, procs, pipe>>

-----------------------------------------------------------------------------
Master == \/ LoopTop \/ (\E p \in Pids : SpawnFilter(p)) \/ SpawnFails \/ NoSpawn
          \/ CheckFilterStatuses \/ RereadConfig \/ NoReread \/ KeepSpare

Filter(p) == IdleTurn(p) \/ Accept(p) \/ Finish(p) \/ Crash(p)

Next == \/ Master
        \/ ClockPasses
        \/ \E hup \in BOOLEAN : Signal(hup)
        \/ Death
        \/ \E p \in Pids : Started(p) \/ Filter(p)
        \/ \E a \in Addresses : Connect(a)

Spec == Init /\ [][Next]_vars

\* The master's loop never blocks for long and time passes; a filter in select
\* takes its turn, the alarm bounds the service of a connection, and a child that
\* cannot start ends; nothing has to end a filter that waits.  A filter may
\* fail to start, or die before its turn, any number of times, but not for ever.
Fairness ==
  /\ WF_vars(Master)
  /\ WF_vars(ClockPasses)
  /\ \A p \in Pids : WF_vars(IdleTurn(p) \/ Accept(p) \/ Finish(p) \/ (procs[p].st # "idle" /\ Crash(p)))
  /\ SF_vars(\E p \in Pids : Started(p))
  /\ SF_vars(\E p \in Pids : IdleTurn(p) \/ Accept(p))

FairSpec == Spec /\ Fairness
-----------------------------------------------------------------------------
(* Properties *)

TypeOK ==
  /\ phase \in {"bury", "spawn", "check", "reread", "spare", "stopped", "dead"}
  /\ config \in RawConfig
  /\ bound \in Addresses
  /\ pipe \in Seq(Status) /\ pipeOpen \in BOOLEAN
  /\ filters \in Seq(Slot)
  /\ num_filters \in Nat /\ spare_filters \in Nat /\ start \in Nat
  /\ delayed \in BOOLEAN
  /\ childs_exited \in BOOLEAN
  /\ reread_configuration \in BOOLEAN /\ restart_filters \in BOOLEAN
  /\ procs \in [Pids -> Proc]
  /\ pending \in [Addresses -> Nat]
  /\ signals \in Nat /\ forkFailures \in Nat

\* Every child of the master sits in exactly one slot, and a slot with a pid
\* belongs to a child that has not been waited for: no filter is forgotten and
\* none is buried twice.
ChildrenHaveSlots ==
  phase # "dead" =>
    /\ \A p \in Pids : p \in Children <=> \E i \in DOMAIN filters : filters[i].pid = p
    /\ \A i, j \in DOMAIN filters :
         Occupied(i) /\ filters[i].pid = filters[j].pid => i = j

\* The counters the master decides by are the number of its slots in use and of
\* those it believes spare, plus one each for every fork that ever failed: a
\* failed fork is never taken back.
Accounting ==
  /\ num_filters = Cardinality({i \in DOMAIN filters : Occupied(i)}) + forkFailures
  /\ spare_filters = Cardinality({i \in DOMAIN filters : Occupied(i) /\ filters[i].avail})
                       + forkFailures

\* The last word on p that is still on its way to the master, or else the one it
\* has already recorded.
LastWord(p) ==
  LET said == {k \in DOMAIN pipe : pipe[k].pid = p}
  IN  IF said # {} THEN pipe[CHOOSE k \in said : \A l \in said : l <= k].avail
      ELSE \E i \in DOMAIN filters : filters[i].pid = p /\ filters[i].avail

\* What the master will know of a filter once it has read the pipe is what the
\* filter is doing, unless the filter is about to leave or the pipe was replaced.
StatusesAgree ==
  \A p \in Running : procs[p].linked /\ ~procs[p].graceful
                       => (LastWord(p) <=> procs[p].st # "serving")

\* A filter is only started below MaxFilters: lowering the limit lets the extra
\* filters finish but never adds one.
StartsBelowLimit ==
  [][\A p \in Pids : procs[p].st = "none" /\ procs'[p].st = "starting"
        => Cardinality(Children) < config.max]_vars

\* A connection waiting on the socket the master listens on is accepted, as long
\* as the master lives: some filter is idle on that socket, or the master learns
\* that none is spare and starts one.
WaitingIsServed ==
  \A a \in Addresses :
    (bound = a /\ pending[a] > 0)
      ~> (pending[a] < Backlog \/ bound # a \/ ~MasterAlive)

\* The master comes back to MinSpareFilters running filters whenever some have
\* ended or the file raised the number, as long as no fork has failed.
MinimumIsRunning ==
  (MasterAlive /\ Cardinality(Running) < config.spare)
    ~> (~MasterAlive \/ Cardinality(Running) >= config.spare)

\* A filter whose status pipe the master has replaced ends, so that the filters
\* that replace it come with the new socket and the new parameters.
OldFiltersLeave ==
  \A p \in Pids : (p \in Running /\ ~procs[p].linked) ~> (p \notin Running)

\* A master that has lost its status pipe ends once its filters have.
DrainEnds == ~pipeOpen ~> ~MasterAlive
=============================================================================
