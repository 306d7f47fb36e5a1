------------------------------ MODULE Variables ------------------------------
(***************************************************************************)
(* Variables of a session, from the name a client, an author or a program  *)
(* uses to the value (InfEngine2/InfEngine/Vars/*, Session.cpp, and the    *)
(* commands of InfServer/InfEngineServer.cpp).                             *)
(*                                                                         *)
(* The values of a session are kept by number.  The numbers are given by   *)
(* the registry of the main base and, above them, by the registry of the   *)
(* inf that is loaded; main base and inf are compiled again while cached   *)
(* sessions stay.  The checksum of the main registry decides whether an    *)
(* inf and a session in the cache still fit.                               *)
(***************************************************************************)
EXTENDS VarsRegistry, FiniteSets

CONSTANTS Names,      \* names authors may register; their beginnings are in it
          Autos,       \* automatic variables, in the order of Create
          Values,     \* values of variables
          MaxBuilds,  \* bound: compilations
          MaxMain,    \* bound: a main registry with so many names gets no more
          MaxInf      \* bound: the same for an inf

ASSUME NamesAreClosed == \A name \in Names : \A k \in 1..(Len(name) - 1) : SubSeq(name, 1, k) \in Names

ASSUME NamesAreSequences == \A name \in Names : name \in Seq({name[k] : k \in 1..Len(name)})

\* ValidateName refuses an empty name.  The hash contains the length, and strncmp tells names of one length
\* apart.
ASSUME NamesAreOrdered ==
  /\ \A name \in Names : Len(name) \in Nat \ {0} /\ Hash(name) \in Nat /\ Order(name) \in Nat
  /\ \A m, n \in Names : Hash(m) = Hash(n) /\ Order(m) = Order(n) => m = n

\* The automatic variables are no fields of others, and no two have one name.
ASSUME AutosArePlain ==
  /\ Autos \in Seq(Names)
  /\ \A k \in 1..Len(Autos) : Len(Autos[k]) = 1
  /\ \A k, l \in 1..Len(Autos) : Autos[k] = Autos[l] => k = l

NoSession == [is |-> "no session"]
Closed == [is |-> "closed"]
NoValue == "no value"

VARIABLES
  job,      \* what is being compiled: "none", "main", "inf"
  rw,       \* RegistryRW of the compilation
  builds,   \* compilations so far
  main,     \* registry of the main base the server has open
  ext,      \* registry of the inf the server has open, or Closed
  registry, \* vVarsRegistry of the session object: "main" or "ext"
  inf,      \* the inf in the cache
  session,  \* the session in the cache: checksum, values by number
  said,     \* what was last set under each name in this session
  infs      \* registries of the infs under which the session was written
compiler == <<job, rw, builds>>
server == <<main, ext, registry>>
vars == <<compiler, server, inf, session, said, infs>>

Served == main # Empty

Base == IF job = "inf" THEN main ELSE Empty

Nothing == [name \in Names |-> NoValue]

Init ==
  /\ job = "none" /\ rw = Empty /\ builds = 0
  /\ main = Empty /\ ext = Closed /\ registry = "ext"
  /\ inf = Closed /\ session = NoSession /\ said = Nothing /\ infs = {}

-------------------------------------------------------------------------------
(* The compilers *)

\* The main base is compiled on its own, an inf by the server, on top of its main base.
StartBuild(kind) ==
  /\ job = "none" /\ builds < MaxBuilds
  /\ kind = "inf" => Served
  /\ job' = kind
  /\ builds' = builds + 1
  /\ rw' = Create(Autos, IF kind = "inf" THEN main ELSE Empty)
  /\ UNCHANGED <<server, inf, session, said, infs>>

Register(name) ==
  /\ job # "none"
  /\ Count(rw) < (IF job = "main" THEN MaxMain ELSE MaxInf)
  /\ rw' = Registrate(rw, Base, name)
  /\ UNCHANGED <<job, builds, server, inf, session, said, infs>>

\* The new main base is installed and the server started again; the cache lives on.
InstallMain ==
  /\ job = "main"
  /\ job' = "none" /\ rw' = Empty
  /\ main' = Saved(rw, Empty)
  /\ ext' = Closed /\ registry' = "ext"
  /\ UNCHANGED <<builds, inf, session, said, infs>>

\* InfProfileWR::Save: the compiled inf takes the place of the old one in the cache.
SaveInf ==
  /\ job = "inf"
  /\ job' = "none" /\ rw' = Empty
  /\ inf' = Saved(rw, main)
  /\ UNCHANGED <<builds, server, session, said, infs>>

-------------------------------------------------------------------------------
(* The values of a session *)

\* Vector::SearchInd: the place of id in the values, or where it would have to stand.
SearchInd(v, id) ==
  LET halve[p \in (1..Len(v)) \X (1..Len(v))] ==
        LET l == p[1]
            r == p[2]
            c == (l + r) \div 2
        IN  IF r - l <= 1
            THEN IF v[r].id = id THEN r ELSE IF v[l].id = id THEN l ELSE r
            ELSE IF v[c].id <= id THEN halve[<<c, r>>] ELSE halve[<<l, c>>]
  IN  IF v = <<>> \/ v[1].id > id
      THEN 1
      ELSE IF v[Len(v)].id < id THEN Len(v) + 1 ELSE halve[<<1, Len(v)>>]

IsAt(v, id, pos) == pos <= Len(v) /\ v[pos].id = id

\* Vector::SetTextValue by number; a value of a structure has the number of the structure.
SetTextValue(v, id, value) ==
  LET pos == SearchInd(v, id)
      new == [id |-> id, value |-> value]
  IN  IF IsAt(v, id, pos) THEN [v EXCEPT ![pos] = new] ELSE InsertAt(v, pos, new)

\* Vector::GetValue and GetStructValueAsText, without the default values of the base.
GetValue(v, id) ==
  LET pos == SearchInd(v, id)
  IN  IF IsAt(v, id, pos) THEN v[pos].value ELSE NoValue

-------------------------------------------------------------------------------
(* The commands of the server; SessionServer has their order and what else they do *)

NoSum == [is |-> "zeros"]

\* GetMainCheckSum of a registry object, when e is what the object of the inf has open.
MainCheckSum(object, e) == IF object = "main" \/ e # Closed THEN main ELSE NoSum

\* Vector::SwitchRegistry: the session goes over to another registry of the same main registry.
Accepts(object, e) == MainCheckSum(registry, e) \in {NoSum, MainCheckSum(object, e)}

\* RegistryRO::Open: an inf that was compiled with another main base is not opened.
Fits(i) == i # Closed /\ i.baseSum = main

\* Mutant: an inf is not checked.
LoadedUnchecked == inf

\* LoadUserBase: an inf that does not fit is deleted from the cache.
Loaded == IF Fits(inf) THEN inf ELSE Closed

\* The registry a command goes by.
Own(e) == IF e = Closed THEN Empty ELSE e
Id(e, name) == Search(Own(e), main, name)
MainId(name) == Search(main, Empty, name)

\* Mutant: the checksum is not looked at.
SessionIsThere == session # NoSession

\* Session::Load: the values are those of the main registry that is open.
SessionFits == session # NoSession /\ session.sum = main

\* Session::Save with one more value.
SaveWith(values, id, value) == session' = [sum |-> main, values |-> SetTextValue(values, id, value)]

\* Where the value was written, for inf variables.
Note(e, name, value) ==
  /\ said' = [said EXCEPT ![name] = value]
  /\ infs' = IF MainId(name) = NoId THEN infs \union {e} ELSE infs

Forgotten == session' = NoSession /\ said' = Nothing /\ infs' = {}

\* CmdSetSession, with one variable the client knows or not; the inf is loaded for the event.
SetSession(name, value) ==
  LET id == MainId(name)
  IN  /\ Served /\ Accepts("main", ext)
      /\ registry' = "main"
      /\ session' = [sum |-> main, values |-> IF id = NoId THEN <<>> ELSE SetTextValue(<<>>, id, value)]
      /\ said' = IF id = NoId THEN Nothing ELSE [Nothing EXCEPT ![name] = value]
      /\ infs' = {}
      /\ ext' = Loaded /\ inf' = Loaded
      /\ UNCHANGED <<compiler, main>>

\* CmdUpdateSession: a session of another main registry is deleted, and the answer is success.
UpdateSession(name, value) ==
  LET id == MainId(name)
  IN  /\ Served /\ Accepts("main", ext)
      /\ registry' = "main"
      /\ IF ~SessionFits
         THEN Forgotten /\ UNCHANGED <<ext, inf>>
         ELSE /\ IF id = NoId
                 THEN UNCHANGED <<session, said, infs>>
                 ELSE SaveWith(session.values, id, value) /\ Note(Closed, name, value)
              /\ ext' = Loaded /\ inf' = Loaded
      /\ UNCHANGED <<compiler, main>>

\* The object a request switches to, after LoadUserBase.
Target == IF Loaded = Closed THEN "main" ELSE "ext"

\* CmdRequest: with the inf and the session there, a variable is set by its number, that a client's name,
\* or the author of the inf, has from the registry of the inf, the author of the main base from that one's.
Request(name, value, by) ==
  LET id == IF by = "main" THEN MainId(name) ELSE Id(Loaded, name)
  IN  /\ Served /\ Accepts(Target, Loaded)
      /\ ext' = Loaded /\ inf' = Loaded
      /\ registry' = Target
      /\ IF ~SessionFits
         THEN Forgotten
         ELSE IF Loaded # Closed /\ id # NoId
              THEN SaveWith(session.values, id, value) /\ Note(Loaded, name, value)
              ELSE UNCHANGED <<session, said, infs>>
      /\ UNCHANGED <<compiler, main>>

Next ==
  \/ \E kind \in {"main", "inf"} : StartBuild(kind)
  \/ \E name \in Names : Register(name)
  \/ InstallMain
  \/ SaveInf
  \/ \E name \in Names, value \in Values : SetSession(name, value) \/ UpdateSession(name, value)
  \/ \E name \in Names, value \in Values, by \in {"main", "inf"} : Request(name, value, by)

Spec == Init /\ [][Next]_vars

-------------------------------------------------------------------------------
(* Properties *)

Registered(r, b) == ToSet(b.vars.names) \union ToSet(r.vars.names)

IsFound(r, b, name) ==
  LET id == Search(r, b, name)
  IN  IF name \in Registered(r, b) THEN id # NoId /\ Name(r, b, id) = name ELSE id = NoId

\* Names among known that are a component longer than name.
FieldsOf(name, known) == {n \in known : Len(n) = Len(name) + 1 /\ SubSeq(n, 1, Len(name)) = name}

Lists(seq, set) == Len(seq) = Cardinality(set) /\ ToSet(seq) = set

\* A registry as the compiler has it: the chains are as long as Save asserts, and are the fields.
IsBuilt(r, b) ==
  \A id \in 1..Number(r, b) :
    /\ HasNode(r, b, id) => Len(Chain(r, b, id)) = FieldsCountRW(r, b, id) - ChildsOfBase(b, id)
    /\ Lists([k \in 1..FieldsCountRW(r, b, id) |-> Name(r, b, FieldIdRW(r, b, id, k))],
             FieldsOf(Name(r, b, id), Registered(r, b)))

\* A registry as the server has it.
IsRead(r, b) ==
  \A id \in 1..Number(r, b) :
    LET fields == FieldsOf(Name(r, b, id), Registered(r, b))
    IN  /\ Lists([k \in 1..FieldsCountRO(r, b, id) |-> Name(r, b, FieldIdRO(r, b, id, k))], fields)
        /\ TypeRO(r, b, id) = "struct" <=> fields # {}

\* The fields of a variable are the registered names that extend it by a component, each once, in
\* whatever order the names came, in the main base and in an inf that adds fields to its variables; and
\* the server reads them from the file as they were when it was written.
FieldsAreNames ==
  /\ IsBuilt(rw, Base)
  /\ IsRead(main, Empty)
  /\ ext # Closed => IsRead(ext, main)
  /\ \A name \in Registered(rw, Base) : Len(name) > 1 => Front(name) \in Registered(rw, Base)

\* A registered name is found by its number and a number by its name, whatever hashes collide, in the
\* registry that is compiled and in those the server has; other names are not found.  What the main base
\* calls by a number the inf calls by the same, and the automatic variables have the numbers the program
\* has for them.
NumbersAgree ==
  /\ \A name \in Names : /\ IsFound(rw, Base, name)
                         /\ IsFound(Own(ext), main, name)
                         /\ MainId(name) \in {NoId, Id(ext, name)}
  /\ job # "none" => \A k \in 1..Len(Autos) : Search(rw, Base, Autos[k]) = k

\* Whatever was compiled or restarted in between, a session that is read from the cache has under every
\* name of the main base what was last set under this name, and nothing when nothing was; under a name of
\* the inf it has it as long as the session was written under no other inf.
ValuesUnderNames ==
  Served /\ SessionFits =>
    \A name \in Registered(Own(Loaded), main) :
      MainId(name) # NoId \/ infs \subseteq {Loaded} => GetValue(session.values, Id(Loaded, name)) = said[name]

\* Infs and sessions stay in the cache while the main base is compiled again and installed; an inf that is
\* open was nevertheless compiled with the main base that is open, and a session was only ever written under
\* infs of the main base it was saved for.
OneMainBase ==
  /\ ext # Closed => Fits(ext)
  /\ session # NoSession => \A i \in infs : i.baseSum = session.sum
===============================================================================
