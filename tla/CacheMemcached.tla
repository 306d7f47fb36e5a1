-------------------------- MODULE CacheMemcached ---------------------------
(***************************************************************************)
(* NanoLib::CacheMemcached stores a value in memcached under a key.  A     *)
(* value below ValueMax bytes is one record.  A longer one is cut into     *)
(* parts, each stored under its own key made of the key, the pid of the    *)
(* writer, the second of the write and the number of the part, and then    *)
(* named by a control record: the number of parts, the full size and the   *)
(* common beginning of the part keys, the "base".                          *)
(*                                                                         *)
(* Every memcached request is one step; between them other processes run,  *)
(* records are evicted and requests fail.  The bytes of a value are its    *)
(* parts, named by the value and the number.  memcached itself, which is   *)
(* not part of the repository, is the variables ctl and parts: an atomic   *)
(* set, get and delete per record, and losses at any time.                 *)
(***************************************************************************)
EXTENDS Integers, Sequences

CONSTANTS
  Keys,         \* keys of the cached objects
  Procs,        \* processes, by pid
  Values,       \* values that are cached
  Size,         \* their sizes in bytes
  ValueMax,     \* NANO_CACHE_MEMCACHED_VALUE_MAX_LENGTH
  MaxParts,     \* bound: no value has more parts
  MaxSecond,    \* bound: the last second of time()
  UniqueBases,  \* TRUE: a process caches a long value under one key at most once a second
  Miss          \* the answer that there is no such record

ASSUME SizeAssumption == /\ Size \in [Values -> Nat]
                         /\ ValueMax \in Nat \ {0}
                         /\ MaxParts \in Nat
                         /\ \A v \in Values : Size[v] <= MaxParts * ValueMax
                         /\ MaxSecond \in Nat
ASSUME MissAssumption ==
  /\ Miss \notin Values
  /\ Miss \notin [long : {FALSE}, val : Values]
  /\ Miss \notin [long : {TRUE}, count : Nat, full : Nat, base : Keys \X Procs \X Nat]
  /\ Miss \notin [of : Values, index : Nat, size : Nat]
ASSUME UniqueAssumption == UniqueBases \in BOOLEAN

VARIABLES
  ctl,     \* the records under the "<key>_ctl" keys
  parts,   \* the records under the part keys
  op,      \* the operation each process is in
  second,  \* time()
  author   \* history: the value last cut into parts under a base

vars == <<ctl, parts, op, second, author>>

Seconds == 0..MaxSecond
Indices == 0..(MaxParts - 1)
Base(k, p, s) == <<k, p, s>>
Bases == Keys \X Procs \X Seconds

\* The loop of InsertData: parts are written while part * ValueMax < size.
IsLong(v)      == Size[v] >= ValueMax
PartsOf(v)     == {i \in Indices : i * ValueMax < Size[v]}
\* Mutant: a part takes all that is left of the value.
PartSizeRest(v, i) == Size[v] - i * ValueMax
PartSize(v, i) == IF (i + 1) * ValueMax < Size[v] THEN ValueMax ELSE Size[v] - i * ValueMax
Part(v, i)     == [of |-> v, index |-> i, size |-> PartSize(v, i)]
Parts          == [of : Values, index : Indices, size : 0..ValueMax]

Short(v)         == [long |-> FALSE, val |-> v]
Control(n, s, b) == [long |-> TRUE, count |-> n, full |-> s, base |-> b]
ControlRecords   == [long : {TRUE}, count : 0..MaxParts, full : Nat, base : Bases]
ShortRecords     == [long : {FALSE}, val : Values]

NoOp        == [kind |-> "idle"]
Answered(r) == [kind |-> "answered", result |-> r]
\* The answer to a short get is the value itself, to a long one its parts.
Whole(v)    == [long |-> FALSE, val |-> v]
Joined(b, f) == [long |-> TRUE, buffer |-> b, full |-> f]
NotFound    == [long |-> FALSE, val |-> Miss]

Init ==
  /\ ctl = [k \in Keys |-> Miss]
  /\ parts = [b \in Bases |-> [i \in Indices |-> Miss]]
  /\ op = [p \in Procs |-> NoOp]
  /\ second = 0
  /\ author = [b \in Bases |-> Miss]

Ready(p) == op[p].kind \in {"idle", "answered"}
Become(p, state) == op' = [op EXCEPT ![p] = state]

-----------------------------------------------------------------------------
(* InsertData *)

\* Mutant: the second of the write is left out of the base.
StartInsertNoSecond(p, k, v) ==
  /\ Ready(p)
  /\ IF IsLong(v)
     THEN /\ UniqueBases => author[Base(k, p, second)] = Miss
          /\ author' = [author EXCEPT ![Base(k, p, 0)] = v]
     ELSE UNCHANGED author
  /\ Become(p, [kind |-> "insert", key |-> k, val |-> v, base |-> Base(k, p, 0), next |-> 0])
  /\ UNCHANGED <<ctl, parts, second>>

\* A short value goes straight to the control key; a long one gets a base from
\* the key, the pid and the clock.
StartInsert(p, k, v) ==
  /\ Ready(p)
  /\ IF IsLong(v)
     THEN /\ UniqueBases => author[Base(k, p, second)] = Miss
          /\ author' = [author EXCEPT ![Base(k, p, second)] = v]
     ELSE UNCHANGED author
  /\ Become(p, [kind |-> "insert", key |-> k, val |-> v,
                base |-> Base(k, p, second), next |-> 0])
  /\ UNCHANGED <<ctl, parts, second>>

\* Mutant: the loop stops one part short.
PartsLeftShort(p) == /\ op[p].kind = "insert"
                     /\ IsLong(op[p].val)
                     /\ op[p].next + 1 \in PartsOf(op[p].val)

PartsLeft(p) == /\ op[p].kind = "insert"
                /\ IsLong(op[p].val)
                /\ op[p].next \in PartsOf(op[p].val)

\* memcached_set of one part.
SetPart(p) ==
  /\ PartsLeft(p)
  /\ parts' = [parts EXCEPT ![op[p].base][op[p].next] = Part(op[p].val, op[p].next)]
  /\ Become(p, [op[p] EXCEPT !.next = @ + 1])
  /\ UNCHANGED <<ctl, second, author>>

\* memcached_set fails, or its answer is lost: the insert is given up and the
\* parts stay where they are.
SetPartFails(p) ==
  /\ PartsLeft(p)
  /\ \/ UNCHANGED parts
     \/ parts' = [parts EXCEPT ![op[p].base][op[p].next] = Part(op[p].val, op[p].next)]
  /\ Become(p, NoOp)
  /\ UNCHANGED <<ctl, second, author>>

\* Mutant: the control record names the size of all parts but the last.
NewControlShort(p) ==
  IF IsLong(op[p].val) THEN Control(op[p].next, (op[p].next - 1) * ValueMax, op[p].base)
                       ELSE Short(op[p].val)

NewControl(p) ==
  IF IsLong(op[p].val) THEN Control(op[p].next, Size[op[p].val], op[p].base)
                       ELSE Short(op[p].val)

\* The last memcached_set of an insert publishes the value, or fails likewise.
SetControl(p) ==
  /\ op[p].kind = "insert" /\ ~PartsLeft(p)
  /\ \/ ctl' = [ctl EXCEPT ![op[p].key] = NewControl(p)]
     \/ UNCHANGED ctl
  /\ Become(p, NoOp)
  /\ UNCHANGED <<parts, second, author>>

-----------------------------------------------------------------------------
(* GetData *)

\* The control key is read: a miss and a short value answer at once.
StartGet(p, k) ==
  /\ Ready(p)
  /\ Become(p, CASE ctl[k] = Miss -> Answered(NotFound)
                 [] ctl[k] # Miss /\ ~ctl[k].long -> Answered(Whole(ctl[k].val))
                 [] OTHER -> [kind |-> "get", count |-> ctl[k].count, full |-> ctl[k].full,
                              base |-> ctl[k].base, buffer |-> <<>>, size |-> 0])
  /\ UNCHANGED <<ctl, parts, second, author>>

\* The next part is read and copied; a lost part is a miss of the whole.
GetPart(p) ==
  /\ op[p].kind = "get"
  /\ Len(op[p].buffer) < op[p].count
  /\ LET part == parts[op[p].base][Len(op[p].buffer)]
     IN  Become(p, IF part = Miss THEN Answered(NotFound)
                   ELSE [op[p] EXCEPT !.buffer = Append(@, part), !.size = @ + part.size])
  /\ UNCHANGED <<ctl, parts, second, author>>

\* All parts are there: only their total size is compared with the control
\* record.
FinishGet(p) ==
  /\ op[p].kind = "get"
  /\ Len(op[p].buffer) = op[p].count
  /\ Become(p, IF op[p].size # op[p].full THEN Answered(NotFound)
               ELSE Answered(Joined(op[p].buffer, op[p].full)))
  /\ UNCHANGED <<ctl, parts, second, author>>

-----------------------------------------------------------------------------
\* DeleteData removes the control record; the parts are left to expire.
Delete(p, k) ==
  /\ Ready(p)
  /\ \/ ctl' = [ctl EXCEPT ![k] = Miss]
     \/ UNCHANGED ctl
  /\ UNCHANGED <<parts, op, second, author>>

\* The process ends inside an operation; its successor starts with nothing.
Crash(p) ==
  /\ op[p] # NoOp
  /\ Become(p, NoOp)
  /\ UNCHANGED <<ctl, parts, second, author>>

\* memcached expires a record or drops it for room.
EvictControl(k) ==
  /\ ctl[k] # Miss
  /\ ctl' = [ctl EXCEPT ![k] = Miss]
  /\ UNCHANGED <<parts, op, second, author>>

EvictPart(b, i) ==
  /\ parts[b][i] # Miss
  /\ parts' = [parts EXCEPT ![b][i] = Miss]
  /\ UNCHANGED <<ctl, op, second, author>>

Tick ==
  /\ second < MaxSecond
  /\ second' = second + 1
  /\ UNCHANGED <<ctl, parts, op, author>>

Next ==
  \/ \E p \in Procs :
       \/ \E k \in Keys : \/ \E v \in Values : StartInsert(p, k, v)
                          \/ StartGet(p, k)
                          \/ Delete(p, k)
       \/ SetPart(p) \/ SetPartFails(p) \/ SetControl(p)
       \/ GetPart(p) \/ FinishGet(p)
       \/ Crash(p)
  \/ \E k \in Keys : EvictControl(k)
  \/ \E b \in Bases, i \in Indices : EvictPart(b, i)
  \/ Tick

Spec == Init /\ [][Next]_vars

-----------------------------------------------------------------------------
(* Properties *)

InsertOps == [kind : {"insert"}, key : Keys, val : Values, base : Bases, next : 0..MaxParts]
GetOps == [kind : {"get"}, count : 0..MaxParts, full : Nat, base : Bases,
           buffer : Seq(Parts), size : Nat]
Results == [long : {FALSE}, val : Values \cup {Miss}]
             \cup [long : {TRUE}, buffer : Seq(Parts), full : Nat]

TypeOK ==
  /\ ctl \in [Keys -> ShortRecords \cup ControlRecords \cup {Miss}]
  /\ parts \in [Bases -> [Indices -> Parts \cup {Miss}]]
  /\ op \in [Procs -> {NoOp} \cup InsertOps \cup GetOps
                        \cup [kind : {"answered"}, result : Results]]
  /\ second \in Seconds
  /\ author \in [Bases -> Values \cup {Miss}]

\* The value a buffer of parts is, if it is one.
IsValue(buffer, v) ==
  /\ \A j \in 1..Len(buffer) : buffer[j] = Part(v, j - 1)
  /\ \A i \in Indices : i < Len(buffer) <=> i \in PartsOf(v)

\* A successful get of a long value answers with all parts of one value that
\* was inserted: whatever was overwritten, evicted or given up while the parts
\* were fetched one by one, nothing torn gets out.
NeverTorn ==
  \A p \in Procs :
    op[p].kind = "answered" /\ op[p].result.long
      => \E v \in Values : IsValue(op[p].result.buffer, v)

\* The buffer of fullsize bytes a get allocates is never written past its end.
CopyFits ==
  \A p \in Procs : op[p].kind = "get" => op[p].size <= op[p].full

\* Why nothing is torn: once a base is written it belongs to one value for ever,
\* its parts are that value's, and a control record naming it, an insert under
\* way or a get under way agrees with that value.
Covers(n, v) == \A i \in Indices : i < n <=> i \in PartsOf(v)

PartsMatch ==
  \A b \in Bases : \A i \in Indices :
    parts[b][i] # Miss => author[b] # Miss /\ parts[b][i] = Part(author[b], i)
ControlsMatch ==
  \A k \in Keys :
    ctl[k] # Miss /\ ctl[k].long
      => /\ author[ctl[k].base] # Miss
         /\ Covers(ctl[k].count, author[ctl[k].base])
InsertsMatch ==
  \A p \in Procs :
    op[p].kind = "insert" /\ IsLong(op[p].val)
      => /\ author[op[p].base] = op[p].val
         /\ \A i \in Indices : i < op[p].next => i \in PartsOf(op[p].val)
GetsMatch ==
  \A p \in Procs :
    op[p].kind = "get"
      => /\ author[op[p].base] # Miss
         /\ Covers(op[p].count, author[op[p].base])
         /\ Len(op[p].buffer) <= op[p].count
         /\ \A j \in 1..Len(op[p].buffer) :
              op[p].buffer[j] = Part(author[op[p].base], j - 1)
Consistent == PartsMatch /\ ControlsMatch /\ InsertsMatch /\ GetsMatch /\ NeverTorn

\* The register a key is: what its control record names, kept after the parts
\* are gone.
Named(k) == IF ctl[k] = Miss THEN Miss
            ELSE IF ctl[k].long THEN author[ctl[k].base] ELSE ctl[k].val

\* What a get has looked at, and what it has answered.
Answer(r) == IF ~r.long THEN r.val
             ELSE IF r.buffer = <<>> THEN Miss ELSE r.buffer[1].of
View(p) == CASE op[p].kind = "get" -> [at |-> "reading", val |-> author[op[p].base]]
             [] op[p].kind = "answered" -> [at |-> "answered", val |-> Answer(op[p].result)]
             [] OTHER -> [at |-> "idle", val |-> Miss]

\* Seen from outside, the chunked protocol is the register of CacheRegister: a
\* get answers with the value its key had when the get began, or with a miss.
Register == INSTANCE CacheRegister WITH
              cell <- [k \in Keys |-> Named(k)], view <- [p \in Procs |-> View(p)]
ImplementsRegister == Register!Spec
=============================================================================
