# Verification of the SOVA dialogue engine

TLA+ models, TLC runs and TLAPS proofs for the parts of the engine (`src/`) whose behaviour depends on more than one
call, one process or one request. The code is the reference: every definition that models code is listed in
`PROJECT.json` under `map` with the lines it was translated from.

* [1. The system](#1-the-system) — inventory of its components
* [2. The modules](#2-the-modules) — what models what, and how
* [3. The runs](#3-the-runs) — what each one shows, its bounds, its fairness
* [4. The proofs](#4-the-proofs) — theorems, assumptions, invariants
* [5. Disagreements](#5-disagreements) — where the code does not do what it or its documents say
* [6. What is not modelled](#6-what-is-not-modelled)
* [7. Plan](#7-plan)

## 1. The system

A client opens a connection, sends one packet and gets one packet back. The *process server* owns the listening socket
and a pool of forked *InfServer* processes ("filters"), each of which accepts, handles one command at a time, and tells
the master over a pipe whether it is busy. All lasting data are in memcached, which the filters share: *infs* (compiled
user profiles) and *sessions* (variables, flags of answers given, states of dictionaries). The knowledge base, compiled
by *InfCompiler*, is mapped read-only by every filter.

```
 clients --packet--> listening socket --accept--> filter (InfServer) --set/get/delete--> memcached
                          ^                        |    |
                          | owned by               |    +-- base file (InfCompiler), read only
                     process server <--status pipe-+
                     (fork, signals, reload)
```

| Component | State | Operations | Interacts with | What is hard | What makes it correct |
|---|---|---|---|---|---|
| Process server, `ap-process-server.c` | slots, counters of filters and spare filters, configuration, listening socket, status pipe | one loop: bury, spawn, read statuses, reread, keep spare; signal handlers | filters through fork, pipe, signals and the socket | children, signals and statuses in any order; failing fork and bind; reload while filters work | slots are the children, counters are the slots, statuses reach the right slot, the limit is kept, connections are served |
| Filter side, `ap-server.c`, `readwrite.c` | connections handled, graceful flag | accept, handle, report TAKEN and AVAIL, leave | master, clients | a pipe that is full or closed, a hangup between two system calls | reports what it does, leaves when its pipe is gone |
| Memcached client, `CacheMemcached.cpp` | none of its own; records in memcached | InsertData, GetData, DeleteData | all filters through memcached | a long value is several records that others read, overwrite or lose in between | an answer is a value that was stored, in full |
| Sessions and handlers, `InfEngineServer.cpp`, `Session.cpp` | one session object and one ext base per filter; infs and sessions in the cache | SetInf, SetSession, UpdateSession, Request, Purge | cache, search, client | one object serves all users in turn; load, change and save are separate; losses and upgrades | nothing of one user reaches another, a lost part is asked for and sent again, identifiers belong to the registry in use |
| Dictionary states, `Session.cpp` (`DictsStates`) | boxes of lines left, log of lines taken | draw, take, reset, rollback, drop, save, load | search, events, `NanoRandomBox` | failed candidates, restarts of a udict, several users of one dictionary | a sudict line comes once, a udict never runs dry, a failed candidate leaves no trace |
| Random box, `NanoRandomBox.cpp` | mask, queue, counter | refresh, draw, take, return, reset, save, load | dictionary states | three views of one set, a lazily shuffled queue | they agree, and a draw is of a line inside |
| Selection of an answer, `ExtFinder.cpp` | lists of answers, flags | CreateAnswer, CreateAnswerFromEqualWeightCandidates | session flags, patterns | weights, Uniq, LUniq, Last, random order and retries on a copy of the session | the best answer that can be built, Uniq once |
| Flags, `FlagsStorage.hpp` | sorted keys, regions, packed bytes | set, unset, get, save, load, reset | session | insertion in the middle, growth of a region | one independent bit per answer |
| Conditions of patterns, `StringParser.cpp`, `Parser.cpp`, `MatchedPattern.cpp`, `TLCSCache.cpp` | compiler's stack of open blocks; numbered list of conditions; cache of results | parse a line, skip a bad one, end a pattern; TestTLCS, Find, Put, Clear | compilers write what the server walks; candidates share the cache | a list without nesting, walked by recursion; bad lines skipped one by one; shared keys | what is accepted can be walked, answers follow their branches, nobody is judged by the conditions of another |
| Variables, `Vars/Registry.cpp`, `Vars/Vector.cpp`, `NameIndex.cpp` | index of names, chains of fields, values by number | register, save, open, search, set, get, switch registry | compilers, sessions in the cache | numbers of two registries, one above the other; sessions outlive both; hash collisions | a name is found by its number and back, values stay under their names |
| InfServer process, `MainServer.cpp` | engine object, alarm | decode command, call handler, signals | process server, client | alarm in the middle of a command | a command that was cut off leaves no half result |
| Client library, `ClientLib.c`, `csDataPack.cpp`, `libclient.c` | session and inf identifiers, masks | init, send inf, send session, request | InfServer | timeouts, partial reads, retries | what is reported missing is sent |
| Finder, search engine, functions, text of the DL parser | index, patterns | pure, given base and session | handlers | data, not order | results as specified for the language |
| Compilers, `InfCompiler`, `EllipsisCompiler` | files | batch | InfServer through the base file | replaced under a running server | checksums tell bases apart |
| NanoLib, Utils, linguistic library | containers, files | library calls | all | - | - |

`PROJECT.json` lists every component with its sources and its status, and under `hazards` forty places of the code that
tests hardly reach, with the properties that cover them or the reason why none does.

## 2. The modules

### ProcessServer (`MCProcessServer`)

The master is single threaded, so its loop is a sequence of phases and one action per phase: `BuryChilds`, `LoopTop`
(leave, or forget the pipe), `SpawnFilter`/`SpawnFails`, `CheckFilterStatuses`, `RereadConfig`, `KeepSpare`. Filters run
between any two of them: `Started`, `IdleTurn`, `Accept`, `Finish`, `Report` inside them, `Crash`. `Signal` and `Death`
are the handlers, `Connect` a client, `ClockPasses` the moment after which `start_time` allows a fork. `filters`,
`num_filters`, `spare_filters`, `start`, `childs_exited` and so on are the fields of `STATE`; `procs` is what the kernel
knows of the children; `pipe` is the status pipe, a bounded sequence. Sockets are named by their address; binding another
one may fail for any reason (`NewListen`), and always does while an old filter holds it.

### CacheMemcached, abstracted by CacheRegister (`MCCacheMemcached`)

One step per memcached request. `StartInsert`, `SetPart`, `SetControl` are InsertData (parts first, control record last),
`StartGet`, `GetPart`, `FinishGet` GetData, `Delete` DeleteData. memcached itself is the two tables `ctl` and `parts`, and
loses records at any time (`EvictControl`, `EvictPart`); a set may fail, a process may `Crash`. Part keys are made of the
key, the pid and the second of `time()` (`Base`, `Tick`). `CacheRegister` is the promise: a register per key that may lose
its value, and reads that answer with what the register held at one moment, or with nothing.

### RandomBox, abstracted by DrawBox

All operations of `NanoRandomBox`: mask, queue and counter as in the code, the shuffle of `Refresh`, and `Save` and `Load`. What
`Save` writes is the set of the lines in the mask (`saved`), not its bytes, and `Load` gets what `Save` wrote: an image of a wrong
size is not among its inputs. `DrawBox` is the promise: a set from which a line is drawn.

### DictsStates (`MCDictsStates`)

The `DictsStates` class as the handlers and the search drive it within one request: load, event answers, the check of the
user dictionaries, candidates that take lines and fail or succeed, save. Boxes are the sets of `DrawBox`. The log is a
sequence of <<dictionary, line>>; `RollbackLastChanges` is the code's loop, its early return on an unknown dictionary
included. Why a candidate fails is a choice.

### AnswerSelection, abstracted by AnswerPolicy (`MCAnswerSelection`)

`CreateAnswer`: the group of heaviest patterns, three lists (fresh, waiting for their turn, low priority), shuffled and
sorted by the weight modifier, the first that can be built, the trial of the neighbours of an LUniq answer on a copy of
the session (`EndsAt`: the answers behind the one that was built, up to the first of another pattern), the next group; `Update` is
`Session::Update`. Which patterns match with which weights, which answers pass
the pattern-level conditions, and which can be built are chosen with the request. `AnswerPolicy` says in one step which
answers are allowed and which may become available again.

### FlagsStorage, abstracted by FlagMap

The three vectors (keys, regions, bytes), `find` as any position where `lower_bound` may stop, `Add` with its two
insertions, `Grow` with the arithmetic of `pre_allocate_int`, `Set`, `Get`, `Save`, `Load`, `Reset`. A byte is the set of
its bits. Reading past the data answers anything. `FlagMap` is the promise: independent bits, the flags `get` reports within the
region of their pattern (`Up`). The code bounds the number of answers nowhere and keeps the promise only as long as no region
has been made to reach another one (`Crowded`); `FlagsApart` says that it does keep it so long, and that nothing else ends it.

### SessionServer (`MCSessionServer`)

Several filters, one step per access to the cache. `mem[f]` is `vUserSession` of a filter: `vars` is the set of the
sessions whose values are in it, `dicts` whose lines and of which dictionaries its states are, `dsum` the checksum of the
user dictionaries, `ids` the registry its identifiers come from, `count` the request counter. `SetInf`, `SetSession`,
`UpdateSession`, `Request`, `PurgeSession`, `PurgeInf` are the commands; `DeleteInf`, `GetSession`, `DeleteSession`,
`SaveSession`, `Reply` the rest of them. `Fail` is any handler error, `Crash` a signal or the alarm, `Evict` a loss in
memcached, `Upgrade` a new base on disk, `Restart` a filter replaced after it. `FairNext` restricts the clients to those
that send what they are told is missing.

### PatternConditions, with TLCSCache

The compiler half: an author writes one line a step (`Accept`, `ParseError`, `EndPattern`); `trace` is the compiler's stack
`vTLCS` after every accepted line, `switches` its stack of switches, and an answer behind line `i` gets the number at the top
(`AnswerTLCS`). Without `strict` a line that is out of place is skipped, and one that is no operator rejects the pattern all the same. The server half: `StartSearch` chooses what every
condition evaluates to; `TestOwn`, `TestOpen`, `TestBranch`, `TestClose`, `TestEnd` are `TestTLCS`, one step a line, and the
sequence `frames` is its recursion. `TestOther` is a candidate of another pattern and `Extend` an answer that goes on with
another pattern's; both fill the same `TLCSCache`. Assumed: the evaluation of a condition has no runtime error and its value
stays the same during one `CreateAnswer`.

### Variables, over VarsRegistry and NameIndex (`MCVariables`)

`NameIndex` is the sorted index with its two binary searches, of names by hash and among equal hashes. `VarsRegistry` is
the registry as the compiler keeps it (nodes and chains of fields: `Link`, `MapNode`, `Registrate`), as it is saved (`Saved`),
and as the server reads it (`...RO`). `Variables` compiles the main base and infs name by name, installs them in the server
(`InstallMain`, `SaveInf`), and keeps a session by numbers: `SetTextValue`, `GetValue`, `SwitchRegistry` (`Accepts`), loads and saves
with the checks of checksums. Registered names are sequences of components. A checksum is the registry itself: collisions
of MD5 are left out, and so are options, default and temporary values and the limits of the index. That `SwitchRegistry` is never refused
follows from what the checksums of the two objects are defined to be, so no run asks it; that the inf behind the one object fits the
base behind the other is `OneMainBase`. A command is one step
here; how commands interleave and how the cache loses things is SessionServer's.

CacheMemcached is what justifies that one cache access is one step of SessionServer; RandomBox is what justifies that a box
is a set in DictsStates; FlagsStorage that flags are a set in AnswerSelection (until a pattern's ninth answer meets the flags of
another pattern, see section 5). Variables opens up what the one number `ids` of a session stands for in SessionServer.

## 3. The runs

A cfg only gives values to constants and names the specification and its properties. Every property of a passing run has a
mutant, an operator defined before the definition it changes and marked "Mutant:", under which TLC finds it violated.

| Run | Instance | Shows |
|---|---|---|
| pool_safety | 3 pids, 2 addresses, at most 2 filters, 1 reload to a lower limit or another socket, 1 failed fork | slots, counters, statuses and the limit agree with the processes |
| pool_reread | 2 pids, at most 1 filter, 1 reload or restart, crashes | connections are served, the minimum is restored, old filters leave, a master without its pipe ends |
| cache_unique | 2 processes, 1 key, 1 short and 2 long values of up to 2 parts, one of them a whole number of records | no value is torn, copies fit, the cache is a lossy register |
| random_box | 4 lines | mask, queue and counter agree; the box is a `DrawBox` |
| dicts | a udict (also drawn from by events), a sudict and a dictionary used as both, of 2 lines, 1 answer a request, user dictionaries that may change | sudict lines come once, udicts never run dry, failed candidates give back what they took |
| sel_policy | 2 patterns of any of 2 weights, 5 answers with every modifier and with two at once | Uniq once, flags are the answers given, every answer is allowed by `AnswerPolicy` |
| flags_bits | 2 patterns, the last bit of a byte and the first of the next | regions inside the data, growing ones too; independent flags until a region reaches another one, and not longer |
| ses_isolation | 1 filter, 2 sessions that share an inf, 2 profiles, 2 faults | no values of another session, no line numbers of another dictionary |
| ses_recovers | 2 filters, 1 session, 1 upgrade that changes variables, 2 faults | the client gets its answer; identifiers fit the registry; the counter counts |
| conditions | patterns of up to 7 lines of conditions, strict or not; up to 2 searches, with other patterns for those of up to 2 lines | the server can walk what the compiler accepts, answers follow the branches, conditions are evaluated if and only if they are reached, nobody uses the results of another |
| variables | 5 names, 3 of one hash, up to 3 compilations of main bases of 3 names and infs of 2 | fields are the registered names, numbers and names agree in all registries, values stay under their names, infs of an old base are not used |
| ses_dicts | violation | section 5 |

### Bounds, and why they are enough

* ProcessServer: `Pids`, `Backlog` (connections that wait), `PipeCapacity` (statuses before a writer times out), `MaxRequests`
  (accepts before a filter leaves), `MaxSignals`, `MaxForkFailures`. Three pids and two slots let a new filter take the
  slot of one that died while its last status is still in the pipe; a pipe of one or two records is full in every run; one signal is a
  reload in any phase, and after it the old and the new pipe exist side by side. The liveness run has two pids because a
  fair graph over three is too large with signals.
* CacheMemcached: two parts are enough to mix two values; two processes to interleave writers and readers; `MaxSecond` 1
  lets a process write in two seconds. `ValueMax` is two bytes and sizes are 1, 2 and 4: below the limit, exactly at it
  (one full part), and two full parts.
* RandomBox: four lines give queues that are partly used, refilled, and images saved in between. The proofs have no bound.
* DictsStates: `MaxLog` (lines taken in a request) is three, more than the two lines of a box, so a udict can start again
  within a candidate. `Searches` is 1: see section 6.
* AnswerSelection: two patterns of equal and of different weight, three answers in one and two in the other; a list of three
  has several neighbours behind the first, and answers of the other pattern may come in between.
* FlagsStorage: two keys in both orders; index 7 is the last bit of the first byte of a region and 8 the first of its second, so
  regions start with one byte or two, grow, and grow with and without another region behind them. The theorems have no bound.
* PatternConditions: seven lines hold an If with Elsif, Else and Endif around a Switch with a Case and its end, with bad lines
  skipped anywhere. Patterns of up to two lines are searched together
  with another of two conditions, so their regions in the cache could be mixed up; two searches let a result outlive its search.
  The walk and the cache are proved for any number of lines.
* Variables: a structure two levels deep with two fields on the first, registered in any order; the three names of one hash have
  one before and one behind them, and the middle of the search may fall on any. Three compilations are a main base, an inf and
  another of either.
* SessionServer: `MaxFaults` two: a loss and a crash, or two of either, at any step; `MaxCount` bounds the requests that are
  answered; `LastVersion` 2 is one upgrade. Two sessions and one inf let a filter switch user and inf in any step.
  `Serial` says that a client waits for its reply before it sends again.

Symmetry is used in safety runs only. `CHECK_DEADLOCK FALSE` stands in the pool runs, whose master may end, in
ses_recovers, where the client may have no more requests to make, in conditions, where a pattern may be rejected and searches are
bounded, and in variables, where compilations are.

### Fairness

* ProcessServer: weak fairness of the master's loop and of a filter's own steps (processes the kernel schedules; handlers
  end because InfServer arms an alarm, and a child that cannot start ends; nothing has to end a filter that waits), of the clock, and strong fairness of "some started process gets to run" and of "some waiting
  filter gets to take its turn", since filters may die before they come to serve one after the other but not for ever. None of signals, connects, crashes and failures.
* SessionServer: weak fairness of `Handle`, for the same reason. Strong fairness of what a client sends: connections are
  accepted in the order of the backlog, so one that could be accepted again and again is. Strong fairness of `Restart`: the
  master's hangup is seen by a filter at its next idle turn. Faults are not fair, and bounded.

## 4. The proofs

Eight modules hold proofs; each EXTENDS the module it is about and TLAPS (`DictsStates_proofs` also has the theorems of
RandomBox, which it extends beside DictsStates). They hold for every value of the constants.

| Theorem | Argument |
|---|---|
| `CacheMemcached_proofs!TypeCorrect` | `TypeOK` is inductive; the size of the last part needs the lemma that the parts of a value are an initial segment (`PartsDownClosed`) |
| `AlwaysConsistent`, `NoTornAnswer` | `NeverTorn` speaks of answers only and is not inductive. `Consistent` adds what an insert has written, what a control record names and what a get has read so far: everything under one base is of the one value its `author` is |
| `CopiesFit` | on top of `Consistent`, `SizesMatch`: a control record has the size of the value its base belongs to, and a get has copied `Copied(n, v)`, the first n parts of it (`CopiedNext`: one more part) |
| `CacheIsRegister` | from `Consistent`: storing a control record is `Put`, reading it is `Look`, the rest stutters or loses |
| `DictsStates_proofs!BoxAlwaysAgrees`, `CounterIsRight`, `BoxKeepsItsPromise` | the three views agree after every operation; a draw returns a line of the mask |
| `FlagsStorage_proofs!VectorsAreSound` | sortedness and regions inside the data are preserved by insertion, growth and writing, for any index |
| `FlagsAreIndependent` | as long as every region has bytes of its own and what nobody has is zero (`Apart`), a write that is not crowded changes one bit of one region, and its region grows over bytes that nobody has, which are zero (`ReserveIsTidy`, `WriteSetsFlag`); a crowded one leaves two regions with a byte in common (`CrowdedSet`). No index is bounded |
| `SessionServer_proofs!TypeCorrect`, `SessionsAreIsolated`, `DictStatesAreFresh`, `IdentifiersFit` | what is in the cache depends on what a filter is about to save. `IInv` says of a filter that is `Ready` to save that its session object holds the values of its job's session and the identifiers of its own registry, and of every cached session the same for its key; a filter that is not ready may hold anything of anyone, which `Reset` or the load removes before it can be saved |
| `CounterIsTrue` | `CInv`: no two filters handle commands of one session (`Alone`, from `Serial`), so the counter a filter has loaded is still the one that was served when it saves (`CountOK`) |
| `PatternConditions_proofs!AcceptedIsWalked` | the frames of the walk follow the compiler's stack: after line i they are the blocks of `trace[i + 1]` (`Nested`), and what the compiler demands of a line at the top of its stack (`Compiled`, `Switched`) is what the walk tests in its innermost frame |
| `CandidatesJudgedByOwn` | the walk is deterministic: every function `h` that follows the walk line by line (`IsWalk`) has come to where the search is (`Follows`), and what is stored under a key is what every such `h` ends with (`OwnStored`), so a second walk of a candidate finds what the first one has stored |
| `AnswersAreGuarded`, `ConditionsAreInterpreted` | the properties count openers and closers, the walk nests. The numbers the compiler gives are laid out in the accepted list so that both agree: what opens at a line and is not closed up to line i are the blocks of `trace[i + 1]`; a branch that is not taken is left at the line where the count comes back |
| `ProcessServer_proofs!TypeCorrect`, `SlotsAreChildren`, `CountersAreSlots` | `Pool` = `TypeOK`, `ChildrenHaveSlots` and `Accounting`, which are only inductive together: the master subtracts from its counters, and they stay naturals because they count slots |
| `SpawnsBelowLimit` | the master compares counters; slots in use map onto the children (`ChildrenFitSlots`), so there are never more children than `num_filters` |
| `MasterWillKnow` | `StatusesAgree` is inductive on top of `Pool`; lemmas say what a record that is appended to the pipe, and one that is read from it, does to the last word of every process |
| `DictsStates_proofs!UdictsHaveLines`, `NoLineIsLost`, `FailuresAreUndone` | `Undoable`: every line that was available when the candidate was started is available or in the log, and the rollback returns the log |
| `SudictLinesOnce` | with one search, no line that was given is in a log that can still be rolled back (`GivenStay`) |
| `AnswerSelection_proofs!UniqIsRemembered`, `UniqIsGivenOnce` | `Selecting`: an answer that was flagged when the request came is in no list, the trial works on a copy, and the answer that was built is the one whose flag `Update` sets |
| `PolicyIsFollowed` | from `Selecting`, answers of a list that were not tried are still in the order, and groups that are done offer nothing that can be built; then `Ask`, `Update`, `EventFires`, `SetSession` are steps of `AnswerPolicy` and all others stutter |
| `Variables_proofs!RegistriesHold`, `NamesAndNumbersAgree` | an index is sorted strictly by hash and order, and both searches by halving find the place of a name in such an index, by induction over the length of the range (`HalveFinds`, `FindROFinds`). `RegistriesAreSound` says of every registry there is - compiled, opened, cached - that its index is sound and holds each name once, that the automatic variables come first, and that an inf's names are none of its main base's; registering a name, with the beginnings it lacks, keeps that (`RegistrateKeeps`) |
| `SessionsKeepValues` | `ValuesAreSaid`: the values are sorted by number, so what is set is found (`SearchIndFinds`, `SetTextValueSets`), and they agree with what was said: under names of the main base always, under names of an inf if it is the only one the session was written under; a number above the main base's belongs to an inf, so it can overwrite no value of the main base |
| `FieldsHold` | `FieldsAreLinked`: of a registry that is compiled, the head of a chain is the field of this name that was linked last and every field is followed by the one linked before it, and the count is that of the base and the linked fields (`IsLinked`). A link therefore always goes to a smaller number, so chains end (`ChainEnds`) and list the fields each once (`ChainLists`). `Registrate` gives the full name its number before the beginnings it lacks, and links it behind them: until then the name is left out (`Underway`), and no other field of its parent can come in between (`PrefixLinks`, `LinkLinks`). `Save` writes the chains as lists (`SavedIsOpened`), and the reader puts those of an inf before those of its main base (`FieldsAreRead`) |
| `BasesAreOne` | that an inf that is open fits is part of `RegistriesAreSound`; that a session's infs were all compiled with the base whose checksum it has is inductive beside it (`InfsOfSession`): a session is only changed when its checksum and that of the inf are those of the open base |

Assumptions: the `ASSUME`s of the modules (finite sizes, distinct constants; of the names of variables that the beginnings of a name
are names, that names are sequences of components, that hash and order tell names apart, and that automatic variables are no
fields and distinct), which TLC evaluates in the runs. Some theorems have a hypothesis of their own: `UniqueBases` (a process stores at most one long value under a key within a second)
for the last four of the cache, `Serial` (a client waits for its
reply) for `CounterIsTrue`, and `OneSearch` (one search a request, events draw from udicts only) for `SudictLinesOnce`. Section 5
shows what happens without them.

Only model-checked: `WaitingIsServed`, `MinimumIsRunning`, `OldFiltersLeave`, `DrainEnds`, `Recovers` (liveness under fairness and ENABLED are out of the
prover's reach).

No module uses RECURSIVE operators. Where a theorem is about a recursive function (the halving searches, the registration of a name and
its beginnings, the creation of a registry, the chain of a node), the induction is over the least natural number that is not in a set
(`LeastNatural`, `NaturalSet` in Variables_proofs), and that the function exists at all is proved from its
definition (`HalveEnds`, `SearchIndEnds`, `RegistrateTurns`, `CreateTurns`, `ChainEnds`).

## 5. Disagreements

One has a standing run that shows the violation:

* **ses_dicts** — `Session::Reset` leaves the states of the dictionaries, so a new session starts with the lines
  drawn by the session its filter handled before.

Others were met while modelling. The properties of the passing runs are stated so that they hold beside them; where a
definition is named, TLC refutes it on the instance described.

* `MinimumIsRunning` with a fork that fails (pool_reread with `MaxForkFailures = 1`): `spawn_filter` counts a fork that failed as a
  running spare filter (ap-process-server.c:1091), and nothing takes it back: with a minimum of one the pool stays empty.
* FlagsStorage: a region that grows gets its bytes at the end of the data and keeps its offset (FlagsStorage.hpp:24). When another
  region lies behind it the two have bytes in common from then on, and the ninth answer of a pattern shares its flag with an answer of
  another pattern. `FlagsApart` says that this is the only way flags get mixed up, and that it does mix them up. `get` (line 64)
  does not look at the capacity of the region, so a ninth flag that was never set is read from the bytes behind; `Up` takes only
  what lies within.
* ProcessServer: `reread_config` copies the new Listen line even when the address could not be bound (ap-process-server.c:1330), and
  later reloads find it in the configuration and bind nothing (the first disjunct of `NewListen`): the master stays at the old address.
* `NeverTorn` with `UniqueBases = FALSE` (CacheMemcached; sizes `SameSizes`): two values of one process, key and second share
  part keys, and GetData compares only the total size (CacheMemcached.cpp:268).
* `CountIsServed` with `Serial = FALSE` and two filters: two requests of one session handled side by side are counted once.
* `DeletesOnlyBad` (two filters, two sessions, `SumsChange`): an unusable inf is deleted by its key in a second access
  (InfEngineServer.cpp:632), when a good one may stand there. The client is then asked for it again (`Recovers`).
* `EventsAreOwn` (the instance of ses_dicts): `vEventInstructions` is only cleared when an event is processed, so the reply to
  a request whose session is missing (InfEngineServer.cpp:514) carries the instructions made for the session before.
* DictsStates: the rollback of a candidate (Session.cpp:104) walks the log back to the load, not to the start of the
  candidate, so it also returns lines an event drew, or an earlier successful search; `FailureUndone` says which lines. It
  does not undo the restart of a udict (Session.cpp:90), hence `~refilled`. After `Drop` (Session.cpp:148) it
  stops at the first unknown dictionary and loses the rest, hence `~Orphaned`.
* AnswerSelection: an answer without numbers, of an event or not found, marks answer 0 of pattern 0 as given
  (Session.cpp:385, iAnswer.hpp:146), so `UniqMatchesGiven` leaves `Zero` out. With two patterns of one weight the neighbours
  whose flags are cleared depend on the shuffle (ExtFinder.cpp:598), so LUniq answers need not take turns; `AnswerPolicy`
  therefore lets any subset of the waiting answers of the pattern come back.
* PatternConditions: an answer in the head of a Switch, before its first Case, gets number -1 and is given whatever the blocks
  around it say, a false If too, and an If there is never reached: the test for the first Case can never hold
  (MatchedPattern.cpp:71). `AnswersFollowBranches` leaves the head out (`InHead`).
* PatternConditions: when a bad Switch line is skipped (Parser.cpp:808), its Case lines attach to the Switch around it, if there is one.
  The properties speak of the list that was accepted, not of what the author meant.
* PatternConditions: an answer that goes on with another pattern's (`Extend`, MatchedPattern.cpp:2862) looks up and stores results
  under the key of the candidate, so the pattern it refers to may be judged by the candidate's conditions. `JudgedByOwn` is about the
  candidate.
* Variables: only the checksum of the main registry is in a session (Vector.cpp:10), so a value that was set under a name of one inf may be
  read under another name after the inf was replaced; `ValuesUnderNames` excepts names of the inf of a session written under several.
* InfServer: the reply to init says that nothing is missing, always (MainServer.cpp:217 against ClientLib.h:407), and an update of a session
  that is not in the cache is answered with success (InfEngineServer.cpp:187). The next request reports what is missing, so `Recovers` holds.

## 6. What is not modelled

* Text: the DL parser beyond conditions and names of variables, search engine, synonyms, functions of the language, packing of packets,
  logs, reports. These are functions of data without state of their own; unit tests and sample bases suit them better.
* The finder and the building of answers: which candidates match and which answers can be built are choices.
* The process server with Unix sockets, whose path is unlinked and bound again while old filters still hold it
  (ap-process-server.c:734). Addresses of the model are those of the Internet.
* The error paths of `NanoRandomBox::Load`, an image that is too short: what is loaded was saved.
* Two candidates of one pattern in one list of answers: `AnswerSelection` has one candidate a pattern.
* Two searches within one request (skip-unknown logic, ellipsis): `Searches` is a parameter of DictsStates, but the rollback
  of the second search undoes the first, so its instance has one.
* The draws of the trial of LUniq neighbours, which share the matched pattern
  with the real session (ExtFinder.cpp:633).
* Values of variables beyond names: options, default and temporary values, instructions.
* Side by side requests of one client after its timeout (libclient.c:372): `Serial` says that clients wait.
* Two sessions and the repair of a shared inf as a liveness property: the fair graph is too large.
* Batch compilers, vendored linguistic code, deployment scripts.

The models cover a few thousand of some 170000 lines, and most of the rest is out of reach of a state machine that is worth
having: character tables and the vendored linguistic library (`ext/aip`: `tabJisX0208...`, `fstorage`), the hand-written parser
of the dialogue language (`StringParser.cpp` and `Parser.cpp`, ten thousand lines of text handling, of which the lines that keep state
between each other are modelled), the search over word indices (`Finder.cpp`), and the containers and text helpers of `NanoLib`. They
keep no state between calls, nothing runs beside them, and an order of calls cannot break them; a model would repeat their
tables and string operations line by line.

## 7. Plan

Done, in this order: process server, cache, box, dictionary states, selection, flags, sessions; proofs of cache, box, flags
and sessions; conditions, with the proof of the walk; variables, registries and the index of names; proofs of process server, dictionary
states and selection; of what the conditions promise for the answers; and of the numbers, values and fields of variables. Every safety
property a run checks is now a theorem.

Left, by worth:

1. **Client protocol**: MainServer with the client library - init, masks, timeouts, partial reads, retries, two requests of a client
   side by side. Abstract specification: one command, at most one effect, reported as it happened. To be composed with
   SessionServer's cache.
2. **Two searches a request**: the ellipsis and skip-unknown choice of GetInfAnswer in DictsStates and AnswerSelection, with the trial on a
   copy of the session as a third kind of candidate; event bindings (DLData.cpp) and ProcessEvent.
3. **Cores**: the state machine of the base, the ext base and the profile (CoreRO, CoreWR, InfProfile): open, check, close in
   every order.
4. **NanoLib**: RawHashTable as a refinement of a set; the finder's candidates (`InfBFinderExt::Search`) with its threads.
