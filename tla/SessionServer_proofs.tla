------------------------- MODULE SessionServer_proofs -------------------------
(***************************************************************************)
(* Theorems about SessionServer, for any number of filters, sessions, infs *)
(* and versions of the base, any faults and any interleaving, whether or   *)
(* not clients send their commands one at a time.                          *)
(***************************************************************************)
EXTENDS SessionServer, TLAPS

(* What the operations on the session object of a filter change.           *)
LEMMA MemoryOps ==
  ASSUME NEW m \in Memory, NEW s \in Sessions
  PROVE  /\ Reset(m) \in Memory /\ Reset(m).vars = {} /\ Reset(m).ids = m.ids
         /\ Reset(m).dicts = m.dicts /\ Reset(m).dsum = m.dsum
         /\ Valued(m, s) \in Memory /\ Valued(m, s).vars = m.vars \union {s}
         /\ Valued(m, s).ids = m.ids
         /\ Valued(m, s).dicts = m.dicts /\ Valued(m, s).dsum = m.dsum
         /\ Counted(m) \in Memory /\ Counted(m).vars = m.vars
         /\ Counted(m).ids = m.ids
         /\ Counted(m).dicts = m.dicts /\ Counted(m).dsum = m.dsum
<1>1. /\ m = [ids |-> m.ids, vars |-> m.vars, dicts |-> m.dicts,
              dsum |-> m.dsum, count |-> m.count]
      /\ m.ids \in Int /\ m.vars \subseteq Sessions
      /\ m.dicts \subseteq Sessions \X Origins
      /\ m.dsum \in Profiles \union {None} /\ m.count \in Nat
  BY DEF Memory
<1>2. Reset(m) = [ids |-> m.ids, vars |-> {}, dicts |-> m.dicts,
                  dsum |-> m.dsum, count |-> 0]
  BY DEF Memory, Reset
<1>3. Valued(m, s) = [ids |-> m.ids, vars |-> m.vars \union {s}, dicts |-> m.dicts,
                      dsum |-> m.dsum, count |-> m.count]
  BY <1>1 DEF Valued
<1>4. Counted(m) = [ids |-> m.ids, vars |-> m.vars, dicts |-> m.dicts,
                    dsum |-> m.dsum, count |-> m.count + 1]
  BY <1>1 DEF Counted
<1>5. /\ Reset(m) \in Memory /\ Reset(m).vars = {} /\ Reset(m).ids = m.ids
      /\ Reset(m).dicts = m.dicts /\ Reset(m).dsum = m.dsum
  BY <1>1, <1>2 DEF Memory
<1>6. /\ Valued(m, s) \in Memory /\ Valued(m, s).vars = m.vars \union {s}
      /\ Valued(m, s).ids = m.ids
      /\ Valued(m, s).dicts = m.dicts /\ Valued(m, s).dsum = m.dsum
  BY <1>1, <1>3 DEF Memory
<1>7. /\ Counted(m) \in Memory /\ Counted(m).vars = m.vars
      /\ Counted(m).ids = m.ids
      /\ Counted(m).dicts = m.dicts /\ Counted(m).dsum = m.dsum
  BY <1>1, <1>4 DEF Memory
<1> QED
  BY <1>5, <1>6, <1>7

LEMMA DrawOps ==
  ASSUME NEW m \in Memory, NEW s \in Sessions, NEW d \in SUBSET Origins
  PROVE  /\ Draw(m, s, d) \in Memory /\ Draw(m, s, d).vars = m.vars
         /\ Draw(m, s, d).ids = m.ids /\ Draw(m, s, d).dsum = m.dsum
         /\ \A o \in Draw(m, s, d).dicts : o \in m.dicts \/ o[2] \in d
<1>1. Draw(m, s, d) = [ids |-> m.ids, vars |-> m.vars,
                       dicts |-> m.dicts \union ({s} \X d),
                       dsum |-> m.dsum, count |-> m.count]
  BY DEF Draw, Memory
<1>2. {s} \X d \subseteq Sessions \X Origins
  OBVIOUS
<1> QED
  BY <1>1, <1>2 DEF Memory

LEMMA CheckedOps ==
  ASSUME NEW m \in Memory, NEW p \in Profiles
  PROVE  /\ Checked(m, p) \in Memory /\ Checked(m, p).vars = m.vars
         /\ Checked(m, p).ids = m.ids /\ Checked(m, p).dsum = p
         /\ Checked(m, p).dicts \subseteq m.dicts
         /\ m.dsum # p => Checked(m, p).dicts = {}
BY DEF Memory, Checked

LEMMA LoadedOps ==
  ASSUME NEW s \in Sessions, sessions[s] \in Session
  PROVE  /\ Loaded(s) \in Memory /\ Loaded(s).vars = sessions[s].vars
         /\ Loaded(s).ids = sessions[s].ids /\ Loaded(s).dsum = sessions[s].dsum
         /\ Loaded(s).dicts = sessions[s].dicts
BY DEF Memory, Session, Loaded

LEMMA DrawsAreOrigins ==
  /\ \A d \in EventDraws : d \in SUBSET Origins /\ d \subseteq {Main}
  /\ \A p \in Profiles : \A d \in SearchDraws(p) : d \in SUBSET Origins /\ d \subseteq {Main, p}
BY DEF EventDraws, SearchDraws, Origins
-----------------------------------------------------------------------------
(* What SetSession, UpdateSession and Request leave in the filter.         *)
LEMMA LoadUserBaseType ==
  ASSUME TypeOK, NEW f \in Filters, NEW s \in Sessions, NEW then,
         LoadUserBase(f, InfOf[s], then), then \in {"getses", "save"}
  PROVE  /\ ext' \in [Filters -> Profiles \union {None}]
         /\ pc' \in [Filters -> {"idle", "delinf", "getses", "delses", "save", "reply"}]
         /\ \A g \in Filters : g # f => pc'[g] = pc[g]
         /\ pc'[f] \in {then, "delinf"}
<1>1. InfOf[s] \in Infs /\ infs[InfOf[s]] \in Inf \union {None}
  BY InfOfAssumption DEF TypeOK
<1> DEFINE good == infs[InfOf[s]] # None /\ Fits(infs[InfOf[s]], base[f])
<1>2. good => infs[InfOf[s]].profile \in Profiles
  BY <1>1 DEF Inf
<1>3. /\ ext' = [ext EXCEPT ![f] = IF good THEN infs[InfOf[s]].profile ELSE None]
      /\ pc' = [pc EXCEPT ![f] = IF infs[InfOf[s]] = None \/ good THEN then ELSE "delinf"]
  BY DEF LoadUserBase
<1> HIDE DEF good
<1> QED
  BY <1>2, <1>3 DEF TypeOK

(* The types of all variables.                                             *)
THEOREM TypeCorrect == Spec => []TypeOK
<1>1. Init => TypeOK
  BY BoundsAssumption DEF Init, TypeOK, Idle, Versions, Fresh, Memory
<1>2. TypeOK /\ [Next]_vars => TypeOK'
  <2> SUFFICES ASSUME TypeOK, [Next]_vars PROVE TypeOK'
    OBVIOUS
  <2> USE DEF cache, process, client, Idle
  <2>1. ASSUME NEW f \in Filters, NEW s \in Sessions, NEW p \in Profiles, SetInf(f, s, p)
        PROVE  TypeOK'
    <3>1. [made |-> base[f], profile |-> p] \in Inf
      BY DEF TypeOK, Inf
    <3> QED
      BY <2>1, <3>1 DEF SetInf, TypeOK
  <2>2. ASSUME NEW f \in Filters, NEW s \in Sessions, SetSession(f, s)
        PROVE  TypeOK'
    <3>1. PICK d \in EventDraws :
            mem' = [mem EXCEPT ![f] =
                      Draw(Valued([Reset(mem[f]) EXCEPT !.ids = VarsSum[base[f]]], s), s, d)]
      BY <2>2 DEF SetSession
    <3>2. [Reset(mem[f]) EXCEPT !.ids = VarsSum[base[f]]] \in Memory
      BY SumsAssumption DEF Reset, TypeOK, Memory
    <3>3. mem' \in [Filters -> Memory]
      BY <3>1, <3>2, MemoryOps, DrawOps, DrawsAreOrigins DEF TypeOK
    <3>5. /\ ext' \in [Filters -> Profiles \union {None}]
          /\ pc' \in [Filters -> {"idle", "delinf", "getses", "delses", "save", "reply"}]
          /\ \A g \in Filters : g # f => pc'[g] = pc[g]
      BY <2>2, LoadUserBaseType DEF SetSession
    <3>4. /\ job' \in [Filters -> Job \union {None}] /\ events' \in [Filters -> Sessions \union {None}]
          /\ \A g \in Filters : pc'[g] # "idle" => job'[g] \in Job
      BY <2>2, <3>5 DEF SetSession, NewJob, Job, TypeOK
    <3> QED
      BY <2>2, <3>3, <3>4, <3>5 DEF SetSession, TypeOK
  <2>3. ASSUME NEW f \in Filters, NEW s \in Sessions, UpdateSession(f, s)
        PROVE  TypeOK'
    BY <2>3 DEF UpdateSession, NewJob, Job, TypeOK
  <2>4. ASSUME NEW f \in Filters, NEW s \in Sessions, Request(f, s)
        PROVE  TypeOK'
    <3>2. /\ ext' \in [Filters -> Profiles \union {None}]
          /\ pc' \in [Filters -> {"idle", "delinf", "getses", "delses", "save", "reply"}]
          /\ \A g \in Filters : g # f => pc'[g] = pc[g]
      BY <2>4, LoadUserBaseType DEF Request
    <3>1. /\ job' \in [Filters -> Job \union {None}] /\ waiting' \in [Sessions -> BOOLEAN]
          /\ \A g \in Filters : pc'[g] # "idle" => job'[g] \in Job
      BY <2>4, <3>2 DEF Request, NewJob, Job, TypeOK
    <3> QED
      BY <2>4, <3>1, <3>2 DEF Request, TypeOK
  <2>5. ASSUME NEW f \in Filters, NEW s \in Sessions, PurgeSession(f, s)
        PROVE  TypeOK'
    BY <2>5, BoundsAssumption DEF PurgeSession, TypeOK
  <2>6. ASSUME NEW f \in Filters, NEW i \in Infs, PurgeInf(f, i)
        PROVE  TypeOK'
    BY <2>6, BoundsAssumption DEF PurgeInf, TypeOK
  <2>7. ASSUME NEW f \in Filters, DeleteInf(f)
        PROVE  TypeOK'
    BY <2>7 DEF DeleteInf, TypeOK
  <2>8. ASSUME NEW f \in Filters, GetSession(f)
        PROVE  TypeOK'
    <3> DEFINE s == job[f].session
    <3>1. job[f] \in Job /\ s \in Sessions
      BY <2>8 DEF GetSession, TypeOK, Job
    <3>2. CASE NotLoaded(f, s)
      <4>1. Reset(mem[f]) \in Memory
        BY <3>1, MemoryOps DEF TypeOK
      <4>2. [job[f] EXCEPT !.found = FALSE] \in Job
        BY <3>1 DEF Job
      <4>3. /\ mem' = [mem EXCEPT ![f] = Reset(mem[f])]
            /\ job' = [job EXCEPT ![f] = [job[f] EXCEPT !.found = FALSE]]
        BY <3>1, <3>2 DEF NotLoaded, TypeOK
      <4> QED
        BY <2>8, <3>2, <4>1, <4>2, <4>3 DEF GetSession, NotLoaded, TypeOK
    <3>3. CASE ~NotLoaded(f, s)
      <4>1. Loadable(f, s) /\ sessions[s] \in Session /\ (Updated(f, s) \/ Answered(f, s))
        BY <2>8, <3>1, <3>3 DEF GetSession, Updated, Answered, Loadable, TypeOK
      <4>2. Loaded(s) \in Memory
        BY <3>1, <4>1, LoadedOps
      <4>3. CASE Updated(f, s)
        <5>1. PICK d \in EventDraws : mem' = [mem EXCEPT ![f] = Draw(Valued(Loaded(s), s), s, d)]
          BY <4>3 DEF Updated
        <5>2. mem' \in [Filters -> Memory]
          BY <3>1, <4>2, <5>1, MemoryOps, DrawOps, DrawsAreOrigins DEF TypeOK
        <5>3. /\ ext' \in [Filters -> Profiles \union {None}]
              /\ pc' \in [Filters -> {"idle", "delinf", "getses", "delses", "save", "reply"}]
              /\ \A g \in Filters : g # f => pc'[g] = pc[g]
          BY <3>1, <4>3, LoadUserBaseType DEF Updated
        <5>4. events' \in [Filters -> Sessions \union {None}] /\ job' = job
          BY <3>1, <4>3 DEF Updated, TypeOK
        <5> HIDE DEF s
        <5> QED
          BY <2>8, <3>1, <5>2, <5>3, <5>4 DEF GetSession, TypeOK
      <4>4. CASE Answered(f, s)
        <5>1. PICK d \in EventDraws :
                LET m == Draw(Loaded(s), s, d)
                IN  \/ /\ ext[f] = None
                       /\ mem' = [mem EXCEPT ![f] = m]
                       /\ pc' = [pc EXCEPT ![f] = "reply"]
                    \/ /\ ext[f] # None
                       /\ \/ mem' = [mem EXCEPT ![f] = Counted(m)]
                          \/ \E D \in SearchDraws(ext[f]) :
                               mem' = [mem EXCEPT ![f] =
                                         Counted(Draw(Checked(Valued(m, s), ext[f]), s, D))]
                       /\ \E then \in {"save", "reply"} : pc' = [pc EXCEPT ![f] = then]
          BY <4>4, Zenon DEF Answered
        <5> DEFINE m == Draw(Loaded(s), s, d)
        <5>2. m \in Memory
          BY <3>1, <4>2, DrawOps, DrawsAreOrigins
        <5> HIDE DEF m
        <5>3. mem' \in [Filters -> Memory]
          <6>1. CASE mem' = [mem EXCEPT ![f] = m] \/ mem' = [mem EXCEPT ![f] = Counted(m)]
            BY <3>1, <5>2, <6>1, MemoryOps DEF TypeOK
          <6>2. ASSUME ext[f] # None, NEW D \in SearchDraws(ext[f]),
                       mem' = [mem EXCEPT ![f] = Counted(Draw(Checked(Valued(m, s), ext[f]), s, D))]
                PROVE  mem' \in [Filters -> Memory]
            <7>1. ext[f] \in Profiles
              BY <6>2 DEF TypeOK
            <7>2. Checked(Valued(m, s), ext[f]) \in Memory
              BY <3>1, <5>2, <7>1, MemoryOps, CheckedOps
            <7>3. Draw(Checked(Valued(m, s), ext[f]), s, D) \in Memory
              BY <3>1, <7>1, <7>2, DrawOps, DrawsAreOrigins
            <7> QED
              BY <3>1, <6>2, <7>3, MemoryOps DEF TypeOK
          <6> QED
            BY <5>1, <6>1, <6>2 DEF m
        <5>4. /\ pc' \in [Filters -> {"idle", "delinf", "getses", "delses", "save", "reply"}]
              /\ \A g \in Filters : g # f => pc'[g] = pc[g]
          BY <5>1 DEF TypeOK
        <5>5. events' \in [Filters -> Sessions \union {None}] /\ job' = job /\ ext' = ext
          BY <3>1, <4>4 DEF Answered, TypeOK
        <5> HIDE DEF s
        <5> QED
          BY <2>8, <3>1, <5>3, <5>4, <5>5 DEF GetSession, TypeOK
      <4> QED
        BY <4>1, <4>3, <4>4
    <3> QED
      BY <3>2, <3>3
  <2>9. ASSUME NEW f \in Filters, DeleteSession(f)
        PROVE  TypeOK'
    BY <2>9 DEF DeleteSession, TypeOK
  <2>10. ASSUME NEW f \in Filters, SaveSession(f)
        PROVE  TypeOK'
    <3>1. job[f] \in Job /\ mem[f] \in Memory /\ VarsSum[base[f]] \in Int
      BY <2>10, SumsAssumption DEF SaveSession, TypeOK
    <3>2. sessions' \in [Sessions -> Session \union {None}]
      BY <2>10, <3>1 DEF SaveSession, TypeOK, Memory, Session
    <3>3. served' \in [Sessions -> Nat]
      BY <2>10, <3>1 DEF SaveSession, TypeOK, Job
    <3> QED
      BY <2>10, <3>2, <3>3 DEF SaveSession, TypeOK
  <2>11. ASSUME NEW f \in Filters, Reply(f)
        PROVE  TypeOK'
    <3>1. job[f] \in Job
      BY <2>11 DEF Reply, TypeOK
    <3>2. missed' \in [Sessions -> SUBSET {"inf", "session"}]
      BY <2>11, <3>1 DEF Reply, Mask, TypeOK, Job
    <3>3. waiting' \in [Sessions -> BOOLEAN]
      BY <2>11, <3>1 DEF Reply, HasAnswer, TypeOK, Job
    <3> QED
      BY <2>11, <3>2, <3>3 DEF Reply, TypeOK
  <2>12. ASSUME NEW f \in Filters, Fail(f)
        PROVE  TypeOK'
    BY <2>12, BoundsAssumption DEF Fail, TypeOK
  <2>13. ASSUME NEW f \in Filters, Start(f), faults' \in 0 .. MaxFaults
        PROVE  TypeOK'
    <3>1. Fresh \in Memory
      BY DEF Fresh, Memory
    <3> QED
      BY <2>13, <3>1 DEF Start, TypeOK
  <2>14. ASSUME NEW f \in Filters, Crash(f) \/ Restart(f)
        PROVE  TypeOK'
    <3>1. Start(f) /\ faults' \in 0 .. MaxFaults
      BY <2>14, BoundsAssumption DEF Crash, Restart, TypeOK
    <3> QED
      BY <3>1, <2>13
  <2>15. CASE Evict
    BY <2>15, BoundsAssumption DEF Evict, TypeOK
  <2>16. CASE Upgrade
    BY <2>16, BoundsAssumption DEF Upgrade, TypeOK, Versions
  <2>17. CASE UNCHANGED vars
    BY <2>17 DEF vars, TypeOK
  <2> QED
    BY <2>1, <2>2, <2>3, <2>4, <2>5, <2>6, <2>7, <2>8, <2>9, <2>10, <2>11, <2>12,
       <2>14, <2>15, <2>16, <2>17 DEF Next, Handle
<1> QED
  BY <1>1, <1>2, PTL DEF Spec
-----------------------------------------------------------------------------
(* The inductive invariant.  A session object is ready when the next       *)
(* access of its filter to the session in the cache is the save: it then   *)
(* holds the values of that session only, with the identifiers of the      *)
(* registry the filter has open.  The states of the dictionaries belong to *)
(* the checksum beside them at every moment, in memory and in the cache.   *)
Consistent(m) == \A o \in m.dicts : o[2] \in {Main, m.dsum}

Ready(f) == pc[f] = "save" \/ (pc[f] = "delinf" /\ job[f].cmd # "request")

FilterOK(f) ==
  /\ Consistent(mem[f])
  /\ Ready(f) => mem[f].vars \subseteq {job[f].session} /\ mem[f].ids = VarsSum[base[f]]

SessionOK(s) ==
  sessions[s] # None => /\ sessions[s].vars \subseteq {s}
                        /\ sessions[s].ids = sessions[s].sum
                        /\ Consistent(sessions[s])

IInv == (\A f \in Filters : FilterOK(f)) /\ (\A s \in Sessions : SessionOK(s))

(* A step of one filter that leaves the sessions in the cache alone.       *)
LEMMA OneFilterMoves ==
  ASSUME TypeOK, IInv, NEW f \in Filters, UNCHANGED sessions, FilterOK(f)',
         \A g \in Filters \ {f} : /\ pc'[g] = pc[g] /\ job'[g] = job[g]
                                /\ mem'[g] = mem[g] /\ base'[g] = base[g]
  PROVE  IInv'
<1>1. ASSUME NEW g \in Filters \ {f} PROVE FilterOK(g)'
  <2>1. FilterOK(g)
    BY DEF IInv
  <2> QED
    BY <2>1 DEF FilterOK, Ready, Consistent
<1>2. ASSUME NEW s \in Sessions PROVE SessionOK(s)'
  <2>1. SessionOK(s)
    BY DEF IInv
  <2> QED
    BY <2>1 DEF SessionOK, Consistent
<1> QED
  BY <1>1, <1>2 DEF IInv

(* A filter that is not ready to save only has to be consistent.           *)
LEMMA NotReady ==
  ASSUME NEW f \in Filters, Consistent(mem[f])', ~Ready(f)'
  PROVE  FilterOK(f)'
BY DEF FilterOK

(* What is drawn from the main base, or from the profile that the states   *)
(* were checked against, keeps the states consistent.                      *)
LEMMA DrawConsistent ==
  ASSUME NEW m \in Memory, NEW s \in Sessions, NEW d \in SUBSET Origins,
         d \subseteq {Main, m.dsum}, Consistent(m)
  PROVE  Consistent(Draw(m, s, d))
BY DrawOps DEF Consistent

LEMMA SetSessionKeeps ==
  ASSUME TypeOK, IInv, NEW f \in Filters, NEW s \in Sessions, SetSession(f, s)
  PROVE  IInv'
<1> DEFINE r == [Reset(mem[f]) EXCEPT !.ids = VarsSum[base[f]]]
<1>1. PICK d \in EventDraws : mem' = [mem EXCEPT ![f] = Draw(Valued(r, s), s, d)]
  BY DEF SetSession
<1>2. /\ r \in Memory /\ r.vars = {} /\ r.ids = VarsSum[base[f]]
      /\ r.dicts = mem[f].dicts /\ r.dsum = mem[f].dsum
  BY SumsAssumption DEF Reset, TypeOK, Memory
<1> HIDE DEF r
<1>3. Consistent(Valued(r, s)) /\ Valued(r, s) \in Memory
  <2>1. Consistent(mem[f])
    BY DEF IInv, FilterOK
  <2> QED
    BY <1>2, <2>1, MemoryOps DEF Consistent
<1>4. /\ mem'[f] = Draw(Valued(r, s), s, d)
      /\ \A g \in Filters \ {f} : mem'[g] = mem[g]
  BY <1>1 DEF TypeOK
<1>5. Consistent(mem'[f]) /\ mem'[f].vars = {s} /\ mem'[f].ids = VarsSum[base[f]]
  <2>1. d \in SUBSET Origins /\ d \subseteq {Main}
    BY DrawsAreOrigins
  <2>2. Consistent(Draw(Valued(r, s), s, d))
    BY <1>3, <2>1, DrawConsistent
  <2>3. Valued(r, s).vars = {s} /\ Valued(r, s).ids = VarsSum[base[f]]
    BY <1>2, MemoryOps
  <2> QED
    BY <1>3, <1>4, <2>1, <2>2, <2>3, DrawOps
<1>6. /\ job'[f].session = s /\ base' = base /\ sessions' = sessions
      /\ \A g \in Filters \ {f} : job'[g] = job[g] /\ pc'[g] = pc[g]
  BY LoadUserBaseType DEF SetSession, NewJob, TypeOK, cache
<1>7. FilterOK(f)'
  BY <1>5, <1>6 DEF FilterOK, Consistent
<1> QED
  BY <1>4, <1>6, <1>7, OneFilterMoves

LEMMA GetSessionKeeps ==
  ASSUME TypeOK, IInv, NEW f \in Filters, GetSession(f)
  PROVE  IInv'
<1> DEFINE s == job[f].session
<1>1. /\ job[f] \in Job /\ s \in Sessions
      /\ sessions' = sessions /\ base' = base
  BY DEF GetSession, TypeOK, Idle, Job, cache
<1> HIDE DEF s
<1>2. CASE NotLoaded(f, s)
  <2>1. /\ mem'[f] = Reset(mem[f]) /\ pc'[f] \in {"reply", "delses"}
        /\ \A g \in Filters \ {f} : pc'[g] = pc[g] /\ job'[g] = job[g] /\ mem'[g] = mem[g]
    BY <1>2 DEF NotLoaded, TypeOK
  <2>2. Consistent(mem[f]) /\ mem[f] \in Memory
    BY DEF IInv, FilterOK, TypeOK
  <2>3. Consistent(Reset(mem[f]))
    BY <1>1, <2>2, MemoryOps DEF Consistent
  <2>4. FilterOK(f)'
    BY <2>1, <2>3 DEF FilterOK, Ready, Consistent
  <2> QED
    BY <1>1, <2>1, <2>4, OneFilterMoves
<1>3. CASE ~NotLoaded(f, s)
  <2> DEFINE l == Loaded(s)
  <2>1. Loadable(f, s) /\ sessions[s] \in Session /\ sessions[s] # None
        /\ (\/ job[f].cmd = "update" /\ Updated(f, s)
            \/ job[f].cmd = "request" /\ Answered(f, s))
    BY <1>1, <1>3 DEF GetSession, Updated, Answered, Loadable, TypeOK, s
  <2>2. /\ l \in Memory /\ Consistent(l) /\ l.vars \subseteq {s}
        /\ l.ids = VarsSum[base[f]]
    <3>1. SessionOK(s)
      BY <1>1 DEF IInv
    <3>2. Consistent(sessions[s]) /\ sessions[s].vars \subseteq {s} /\ sessions[s].ids = sessions[s].sum
      BY <2>1, <3>1 DEF SessionOK
    <3>3. sessions[s].sum = VarsSum[base[f]]
      BY <2>1 DEF Loadable
    <3>4. /\ l \in Memory /\ l.vars = sessions[s].vars /\ l.ids = sessions[s].ids
          /\ l.dsum = sessions[s].dsum /\ l.dicts = sessions[s].dicts
      BY <1>1, <2>1, LoadedOps
    <3> QED
      BY <3>2, <3>3, <3>4 DEF Consistent
  <2> HIDE DEF l
  <2>3. ASSUME NEW m \in Memory, Consistent(m), m.vars \subseteq {s}, m.ids = VarsSum[base[f]],
               mem' = [mem EXCEPT ![f] = m], job' = job,
               \A g \in Filters \ {f} : pc'[g] = pc[g]
        PROVE  IInv'
    <3>1. mem'[f] = m /\ \A g \in Filters \ {f} : mem'[g] = mem[g]
      BY <2>3 DEF TypeOK
    <3>2. FilterOK(f)'
      BY <1>1, <2>3, <3>1 DEF FilterOK, Consistent, s
    <3> QED
      BY <1>1, <2>3, <3>1, <3>2, OneFilterMoves
  <2>4. CASE Updated(f, s)
    <3>1. PICK d \in EventDraws : mem' = [mem EXCEPT ![f] = Draw(Valued(l, s), s, d)]
      BY <2>4 DEF Updated, l
    <3>2. /\ Valued(l, s) \in Memory /\ Valued(l, s).vars \subseteq {s}
          /\ Valued(l, s).ids = VarsSum[base[f]] /\ Consistent(Valued(l, s))
      BY <1>1, <2>2, MemoryOps DEF Consistent
    <3>3. d \in SUBSET Origins /\ d \subseteq {Main}
      BY DrawsAreOrigins
    <3> DEFINE m == Draw(Valued(l, s), s, d)
    <3>4. m \in Memory /\ Consistent(m) /\ m.vars \subseteq {s} /\ m.ids = VarsSum[base[f]]
      BY <1>1, <3>2, <3>3, DrawOps, DrawConsistent
    <3> HIDE DEF m
    <3>5. job' = job /\ \A g \in Filters \ {f} : pc'[g] = pc[g]
      BY <1>1, <2>4, LoadUserBaseType DEF Updated
    <3> QED
      BY <2>3, <3>1, <3>4, <3>5 DEF m
  <2>5. CASE Answered(f, s)
    <3>1. PICK d \in EventDraws :
            LET m == Draw(l, s, d)
            IN  \/ /\ ext[f] = None
                   /\ mem' = [mem EXCEPT ![f] = m]
                   /\ pc' = [pc EXCEPT ![f] = "reply"]
                \/ /\ ext[f] # None
                   /\ \/ mem' = [mem EXCEPT ![f] = Counted(m)]
                      \/ \E D \in SearchDraws(ext[f]) :
                           mem' = [mem EXCEPT ![f] =
                                     Counted(Draw(Checked(Valued(m, s), ext[f]), s, D))]
                   /\ \E then \in {"save", "reply"} : pc' = [pc EXCEPT ![f] = then]
      BY <2>5, Zenon DEF Answered, l
    <3> DEFINE m == Draw(l, s, d)
    <3>2. m \in Memory /\ Consistent(m) /\ m.vars \subseteq {s} /\ m.ids = VarsSum[base[f]]
      <4>1. d \in SUBSET Origins /\ d \subseteq {Main}
        BY DrawsAreOrigins
      <4> QED
        BY <1>1, <2>2, <4>1, DrawOps, DrawConsistent
    <3> HIDE DEF m
    <3>3. job' = job /\ \A g \in Filters \ {f} : pc'[g] = pc[g]
      BY <2>5, <3>1 DEF Answered, TypeOK
    <3>4. CASE mem' = [mem EXCEPT ![f] = m]
      BY <2>3, <3>2, <3>3, <3>4
    <3>5. CASE mem' = [mem EXCEPT ![f] = Counted(m)]
      <4>1. /\ Counted(m) \in Memory /\ Consistent(Counted(m))
            /\ Counted(m).vars \subseteq {s} /\ Counted(m).ids = VarsSum[base[f]]
        BY <1>1, <3>2, MemoryOps DEF Consistent
      <4> QED
        BY <2>3, <3>3, <3>5, <4>1
    <3>6. ASSUME ext[f] # None, NEW D \in SearchDraws(ext[f]),
                 mem' = [mem EXCEPT ![f] = Counted(Draw(Checked(Valued(m, s), ext[f]), s, D))]
          PROVE  IInv'
      <4>1. ext[f] \in Profiles
        BY <3>6 DEF TypeOK
      <4>2. D \in SUBSET Origins /\ D \subseteq {Main, ext[f]}
        BY <4>1, <3>6, DrawsAreOrigins
      <4> DEFINE v == Valued(m, s)
                 c == Checked(v, ext[f])
                 e == Draw(c, s, D)
      <4>3. v \in Memory /\ Consistent(v) /\ v.vars \subseteq {s} /\ v.ids = VarsSum[base[f]]
        BY <1>1, <3>2, MemoryOps DEF Consistent
      <4> HIDE DEF v
      <4>4. /\ c \in Memory /\ Consistent(c) /\ c.vars \subseteq {s}
            /\ c.ids = VarsSum[base[f]] /\ c.dsum = ext[f]
        BY <4>1, <4>3, CheckedOps DEF Consistent
      <4> HIDE DEF c
      <4>5. e \in Memory /\ Consistent(e) /\ e.vars \subseteq {s} /\ e.ids = VarsSum[base[f]]
        BY <1>1, <4>2, <4>4, DrawOps, DrawConsistent
      <4> HIDE DEF e
      <4>6. /\ Counted(e) \in Memory /\ Consistent(Counted(e))
            /\ Counted(e).vars \subseteq {s} /\ Counted(e).ids = VarsSum[base[f]]
        BY <1>1, <4>5, MemoryOps DEF Consistent
      <4>7. mem' = [mem EXCEPT ![f] = Counted(e)]
        BY <3>6 DEF e, c, v
      <4> QED
        BY <2>3, <3>3, <4>6, <4>7
    <3> QED
      BY <3>1, <3>4, <3>5, <3>6 DEF m
  <2> QED
    BY <2>1, <2>4, <2>5
<1> QED
  BY <1>2, <1>3

LEMMA SaveSessionKeeps ==
  ASSUME TypeOK, IInv, NEW f \in Filters, SaveSession(f)
  PROVE  IInv'
<1> DEFINE s == job[f].session
<1>1. s \in Sessions
  BY DEF SaveSession, TypeOK, Idle, Job
<1>2. Consistent(mem[f]) /\ mem[f].vars \subseteq {s} /\ mem[f].ids = VarsSum[base[f]]
  BY DEF IInv, FilterOK, Ready, SaveSession
<1>3. ASSUME NEW q \in Sessions PROVE SessionOK(q)'
  <2>1. SessionOK(q)
    BY DEF IInv
  <2>2. q = s => sessions'[q] = [sum |-> VarsSum[base[f]], ids |-> mem[f].ids,
                                 vars |-> mem[f].vars, dicts |-> mem[f].dicts,
                                 dsum |-> mem[f].dsum, count |-> mem[f].count]
    BY DEF SaveSession, TypeOK
  <2>3. q # s => sessions'[q] = sessions[q]
    BY DEF SaveSession, TypeOK
  <2> QED
    BY <1>2, <2>1, <2>2, <2>3 DEF SessionOK, Consistent
<1>4. ASSUME NEW g \in Filters PROVE FilterOK(g)'
  <2>1. FilterOK(g)
    BY DEF IInv
  <2>2. /\ mem' = mem /\ job' = job /\ base' = base
        /\ pc'[g] = IF g = f THEN "reply" ELSE pc[g]
    BY DEF SaveSession, TypeOK
  <2> QED
    BY <2>1, <2>2 DEF FilterOK, Ready, Consistent
<1> QED
  BY <1>3, <1>4 DEF IInv

(* Whatever leaves the processes alone and only removes sessions.          *)
LEMMA LossKeeps ==
  ASSUME IInv, UNCHANGED <<pc, job, mem, base>>,
         \A s \in Sessions : sessions'[s] = sessions[s] \/ sessions'[s] = None
  PROVE  IInv'
<1>1. ASSUME NEW s \in Sessions PROVE SessionOK(s)'
  <2>1. SessionOK(s) /\ (sessions'[s] = sessions[s] \/ sessions'[s] = None)
    BY DEF IInv
  <2> QED
    BY <2>1 DEF SessionOK, Consistent
<1>2. ASSUME NEW f \in Filters PROVE FilterOK(f)'
  BY DEF IInv, FilterOK, Ready, Consistent
<1> QED
  BY <1>1, <1>2 DEF IInv

(* Every step keeps the invariant.                                         *)
LEMMA StepKeeps ==
  ASSUME TypeOK, IInv, [Next]_vars
  PROVE  IInv'
<1> USE DEF cache, process, client
<1>1. ASSUME NEW f \in Filters, NEW s \in Sessions, NEW p \in Profiles, SetInf(f, s, p)
      PROVE  IInv'
  BY <1>1, LossKeeps DEF SetInf
<1>2. ASSUME NEW f \in Filters, NEW s \in Sessions, SetSession(f, s)
      PROVE  IInv'
  BY <1>2, SetSessionKeeps
<1>3. ASSUME NEW f \in Filters, NEW s \in Sessions, UpdateSession(f, s)
      PROVE  IInv'
  <2>1. FilterOK(f)'
    BY <1>3 DEF UpdateSession, IInv, FilterOK, Ready, Consistent, TypeOK
  <2> QED
    BY <1>3, <2>1, OneFilterMoves DEF UpdateSession, TypeOK
<1>4. ASSUME NEW f \in Filters, NEW s \in Sessions, Request(f, s)
      PROVE  IInv'
  <2>1. /\ pc'[f] \in {"getses", "delinf"} /\ job'[f].cmd = "request"
        /\ \A g \in Filters \ {f} : pc'[g] = pc[g] /\ job'[g] = job[g]
    BY <1>4, LoadUserBaseType DEF Request, NewJob, TypeOK
  <2>2. FilterOK(f)'
    BY <1>4, <2>1 DEF Request, IInv, FilterOK, Ready, Consistent
  <2> QED
    BY <1>4, <2>1, <2>2, OneFilterMoves DEF Request
<1>5. ASSUME NEW f \in Filters, NEW s \in Sessions, PurgeSession(f, s)
      PROVE  IInv'
  BY <1>5, LossKeeps DEF PurgeSession, TypeOK
<1>6. ASSUME NEW f \in Filters, NEW i \in Infs, PurgeInf(f, i)
      PROVE  IInv'
  BY <1>6, LossKeeps DEF PurgeInf
<1>7. ASSUME NEW f \in Filters, DeleteInf(f)
      PROVE  IInv'
  <2>1. FilterOK(f)'
    BY <1>7 DEF DeleteInf, IInv, FilterOK, Ready, Consistent, TypeOK
  <2> QED
    BY <1>7, <2>1, OneFilterMoves DEF DeleteInf, TypeOK
<1>8. ASSUME NEW f \in Filters, GetSession(f)
      PROVE  IInv'
  BY <1>8, GetSessionKeeps
<1>9. ASSUME NEW f \in Filters, DeleteSession(f)
      PROVE  IInv'
  <2>1. ASSUME NEW s \in Sessions PROVE SessionOK(s)'
    BY <1>9 DEF DeleteSession, IInv, SessionOK, Consistent, TypeOK
  <2>2. ASSUME NEW g \in Filters PROVE FilterOK(g)'
    BY <1>9 DEF DeleteSession, IInv, FilterOK, Ready, Consistent, TypeOK
  <2> QED
    BY <2>1, <2>2 DEF IInv
<1>10. ASSUME NEW f \in Filters, SaveSession(f)
       PROVE  IInv'
  BY <1>10, SaveSessionKeeps
<1>11. ASSUME NEW f \in Filters, Reply(f) \/ Fail(f)
       PROVE  IInv'
  <2>1. /\ pc'[f] = "idle" /\ mem' = mem /\ base' = base /\ sessions' = sessions
        /\ \A g \in Filters \ {f} : pc'[g] = pc[g] /\ job'[g] = job[g]
    BY <1>11 DEF Reply, Fail, TypeOK
  <2>2. FilterOK(f)'
    BY <2>1 DEF IInv, FilterOK, Ready, Consistent
  <2> QED
    BY <2>1, <2>2, OneFilterMoves
<1>12. ASSUME NEW f \in Filters, Crash(f) \/ Restart(f)
       PROVE  IInv'
  <2>1. Start(f)
    BY <1>12 DEF Crash, Restart
  <2>2. FilterOK(f)'
    BY <2>1 DEF Start, FilterOK, Ready, Consistent, Fresh, TypeOK
  <2> QED
    BY <2>1, <2>2, OneFilterMoves DEF Start, TypeOK
<1>13. CASE Evict
  BY <1>13, LossKeeps DEF Evict, TypeOK
<1>14. CASE Upgrade
  BY <1>14, LossKeeps DEF Upgrade
<1>15. CASE UNCHANGED vars
  BY <1>15, LossKeeps DEF vars
<1> QED
  BY <1>1, <1>2, <1>3, <1>4, <1>5, <1>6, <1>7, <1>8, <1>9, <1>10, <1>11, <1>12,
     <1>13, <1>14, <1>15 DEF Next, Handle

(* A session in the cache holds values of its own user only, identified by *)
(* the registry whose checksum it carries, and no state of a dictionary    *)
(* outlives the profile it was made for.                                   *)
LEMMA Invariance == Spec => [](TypeOK /\ IInv)
<1>1. Init => IInv
  BY DEF Init, IInv, FilterOK, SessionOK, Ready, Consistent, Fresh
<1>2. TypeOK /\ IInv /\ [Next]_vars => IInv'
  BY StepKeeps
<1> QED
  BY <1>1, <1>2, TypeCorrect, PTL DEF Spec

(* No step of any filter ever puts a value of one session into another,    *)
(* although a filter keeps one session object for all of them and leaves   *)
(* it as it was when a command fails.                                      *)
THEOREM SessionsAreIsolated == Spec => []VarsAreOwn
<1>1. IInv => VarsAreOwn
  BY DEF IInv, SessionOK, VarsAreOwn
<1> QED
  BY <1>1, Invariance, PTL

(* The states of the dictionaries of an inf are never used with a profile  *)
(* of the inf other than the one they were made for.                       *)
THEOREM DictStatesAreFresh == Spec => []UserDictsFresh
<1>1. IInv => UserDictsFresh
  BY DEF IInv, FilterOK, SessionOK, Consistent, UserDictsFresh
<1> QED
  BY <1>1, Invariance, PTL

(* Identifiers of variables are only used with the registry that gave them, *)
(* with any number of versions of the base in service at once.             *)
THEOREM IdentifiersFit == Spec => []IdsFit
<1>1. IInv => IdsFit
  BY DEF IInv, FilterOK, Ready, SessionOK, IdsFit
<1> QED
  BY <1>1, Invariance, PTL
-------------------------------------------------------------------------------
(* The counter.  While clients wait for their replies, the filter that     *)
(* handles a command about a session is the only one that can count a      *)
(* request of it, so what it has loaded is still true when it saves.       *)
Count(f) == CASE job[f].cmd = "set" -> 0
              [] job[f].cmd = "update" -> served[job[f].session]
              [] job[f].cmd = "request" -> served[job[f].session] + 1

Alone == \A f, g \in Filters :
           ~Idle(f) /\ ~Idle(g) /\ job[f].session = job[g].session => f = g

CountOK(f) == Ready(f) => mem[f].count = Count(f)

CInv == Alone /\ (\A f \in Filters : CountOK(f)) /\ CountIsServed

(* The counter is changed by Reset and Counted only.                       *)
LEMMA CountOps ==
  ASSUME NEW m \in Memory, NEW s \in Sessions
  PROVE  /\ Reset(m).count = 0 /\ Valued(m, s).count = m.count
         /\ Counted(m).count = m.count + 1
         /\ \A d \in SUBSET Origins : Draw(m, s, d).count = m.count
         /\ \A p \in Profiles : Checked(m, p).count = m.count
BY DEF Memory, Reset, Valued, Counted, Draw, Checked

(* A filter takes a command of a session that no other filter handles.     *)
LEMMA TakenAlone ==
  ASSUME TypeOK, CInv, Serial, NEW f \in Filters, NEW s \in Sessions, Idle(f), MaySend(s),
         job'[f].session = s, UNCHANGED <<sessions, served>>, CountOK(f)',
         \A g \in Filters \ {f} : pc'[g] = pc[g] /\ job'[g] = job[g] /\ mem'[g] = mem[g]
  PROVE  CInv'
<1>1. Alone'
  <2> SUFFICES ASSUME NEW g \in Filters, NEW h \in Filters, pc'[g] # "idle", pc'[h] # "idle",
                      job'[g].session = job'[h].session
               PROVE  g = h
    BY DEF Alone, Idle
  <2>1. \A e \in Filters \ {f} : pc'[e] # "idle" => job'[e].session # s
    BY DEF MaySend, Idle
  <2> QED
    BY <2>1 DEF CInv, Alone, Idle
<1>2. ASSUME NEW g \in Filters \ {f} PROVE CountOK(g)'
  <2>1. CountOK(g)
    BY DEF CInv
  <2> QED
    BY <2>1 DEF CountOK, Ready, Count
<1> QED
  BY <1>1, <1>2 DEF CInv, CountIsServed

(* A step of the rest of a command: sessions are kept or removed.          *)
LEMMA HandledAlone ==
  ASSUME TypeOK, CInv, NEW f \in Filters, UNCHANGED served, CountOK(f)',
         pc[f] # "idle" \/ pc'[f] = "idle",
         pc'[f] # "idle" => job'[f].session = job[f].session,
         \A g \in Filters \ {f} : pc'[g] = pc[g] /\ job'[g] = job[g] /\ mem'[g] = mem[g],
         \A s \in Sessions : sessions'[s] = sessions[s] \/ sessions'[s] = None
  PROVE  CInv'
<1>1. Alone'
  BY DEF CInv, Alone, Idle
<1>2. ASSUME NEW g \in Filters \ {f} PROVE CountOK(g)'
  <2>1. CountOK(g)
    BY DEF CInv
  <2> QED
    BY <2>1 DEF CountOK, Ready, Count
<1> QED
  BY <1>1, <1>2 DEF CInv, CountIsServed

(* Whatever leaves the processes alone and only removes sessions.          *)
LEMMA LossKeepsCount ==
  ASSUME CInv, UNCHANGED <<pc, job, mem, served>>,
         \A s \in Sessions : sessions'[s] = sessions[s] \/ sessions'[s] = None
  PROVE  CInv'
<1>1. ASSUME NEW f \in Filters PROVE CountOK(f)'
  BY DEF CInv, CountOK, Ready, Count
<1> QED
  BY <1>1 DEF CInv, Alone, Idle, CountIsServed

LEMMA GetSessionCounts ==
  ASSUME TypeOK, CInv, NEW f \in Filters, GetSession(f)
  PROVE  CInv'
<1> DEFINE s == job[f].session
<1>1. /\ job[f] \in Job /\ s \in Sessions /\ pc[f] = "getses"
      /\ sessions' = sessions /\ served' = served
  BY DEF GetSession, TypeOK, Idle, Job, cache, client
<1> HIDE DEF s
<1>2. CASE NotLoaded(f, s)
  <2>1. /\ pc'[f] \in {"reply", "delses"} /\ job'[f].session = job[f].session
        /\ \A g \in Filters \ {f} : pc'[g] = pc[g] /\ job'[g] = job[g] /\ mem'[g] = mem[g]
    BY <1>1, <1>2 DEF NotLoaded, TypeOK, Job
  <2>2. CountOK(f)'
    BY <2>1 DEF CountOK, Ready
  <2> QED
    BY <1>1, <2>1, <2>2, HandledAlone
<1>3. CASE ~NotLoaded(f, s)
  <2> DEFINE l == Loaded(s)
  <2>1. Loadable(f, s) /\ sessions[s] \in Session /\ sessions[s] # None
        /\ (\/ job[f].cmd = "update" /\ Updated(f, s)
            \/ job[f].cmd = "request" /\ Answered(f, s))
    BY <1>1, <1>3 DEF GetSession, Updated, Answered, Loadable, TypeOK, s
  <2>2. l \in Memory /\ l.count = served[s] /\ served[s] \in Nat
    <3>1. l \in Memory /\ l.count = sessions[s].count
      BY <1>1, <2>1, LoadedOps DEF Loaded
    <3> QED
      BY <1>1, <2>1, <3>1 DEF CInv, CountIsServed, TypeOK
  <2> HIDE DEF l
  <2>3. ASSUME NEW m, mem' = [mem EXCEPT ![f] = m], job' = job,
               \A g \in Filters \ {f} : pc'[g] = pc[g], CountOK(f)'
        PROVE  CInv'
    <3>1. \A g \in Filters \ {f} : mem'[g] = mem[g]
      BY <2>3 DEF TypeOK
    <3> QED
      BY <1>1, <2>3, <3>1, HandledAlone
  <2>4. CASE job[f].cmd = "update" /\ Updated(f, s)
    <3>1. PICK d \in EventDraws : mem' = [mem EXCEPT ![f] = Draw(Valued(l, s), s, d)]
      BY <2>4 DEF Updated, l
    <3>2. d \in SUBSET Origins
      BY DrawsAreOrigins
    <3>3. Draw(Valued(l, s), s, d).count = served[s]
      BY <1>1, <2>2, <3>2, CountOps, MemoryOps
    <3>4. mem'[f].count = served[s] /\ job' = job
      BY <2>4, <3>1, <3>3 DEF TypeOK, Updated
    <3>5. CountOK(f)'
      BY <1>1, <2>4, <3>4 DEF CountOK, Count, s
    <3>6. \A g \in Filters \ {f} : pc'[g] = pc[g]
      BY <1>1, <2>4, LoadUserBaseType DEF Updated
    <3> QED
      BY <2>3, <3>1, <3>4, <3>5, <3>6
  <2>5. CASE job[f].cmd = "request" /\ Answered(f, s)
    <3>1. PICK d \in EventDraws :
            LET m == Draw(l, s, d)
            IN  \/ /\ ext[f] = None
                   /\ mem' = [mem EXCEPT ![f] = m]
                   /\ pc' = [pc EXCEPT ![f] = "reply"]
                \/ /\ ext[f] # None
                   /\ \/ mem' = [mem EXCEPT ![f] = Counted(m)]
                      \/ \E D \in SearchDraws(ext[f]) :
                           mem' = [mem EXCEPT ![f] =
                                     Counted(Draw(Checked(Valued(m, s), ext[f]), s, D))]
                   /\ \E then \in {"save", "reply"} : pc' = [pc EXCEPT ![f] = then]
      BY <2>5, Zenon DEF Answered, l
    <3> DEFINE m == Draw(l, s, d)
    <3>2. m \in Memory /\ m.count = served[s]
      <4>1. d \in SUBSET Origins
        BY DrawsAreOrigins
      <4> QED
        BY <1>1, <2>2, <4>1, DrawOps, CountOps
    <3> HIDE DEF m
    <3>3. /\ job' = job /\ pc'[f] \in {"save", "reply"}
          /\ \A g \in Filters \ {f} : pc'[g] = pc[g]
      BY <2>5, <3>1 DEF Answered, TypeOK
    <3>4. ASSUME NEW e, mem' = [mem EXCEPT ![f] = e], e.count = served[s] + 1
          PROVE  CInv'
      <4>1. mem'[f] = e
        BY <3>4 DEF TypeOK
      <4>2. CountOK(f)'
        BY <1>1, <2>5, <3>3, <3>4, <4>1 DEF CountOK, Count, s
      <4> QED
        BY <2>3, <3>3, <3>4, <4>2
    <3>5. CASE pc' = [pc EXCEPT ![f] = "reply"] /\ mem' = [mem EXCEPT ![f] = m]
      <4>1. CountOK(f)'
        BY <3>5 DEF CountOK, Ready, TypeOK
      <4> QED
        BY <2>3, <3>3, <3>5, <4>1
    <3>6. CASE mem' = [mem EXCEPT ![f] = Counted(m)]
      BY <1>1, <3>2, <3>4, <3>6, CountOps
    <3>7. ASSUME ext[f] # None, NEW D \in SearchDraws(ext[f]),
                 mem' = [mem EXCEPT ![f] = Counted(Draw(Checked(Valued(m, s), ext[f]), s, D))]
          PROVE  CInv'
      <4>1. ext[f] \in Profiles
        BY <3>7 DEF TypeOK
      <4>2. D \in SUBSET Origins
        BY <4>1, <3>7, DrawsAreOrigins
      <4> DEFINE v == Valued(m, s)
                 c == Checked(v, ext[f])
                 e == Draw(c, s, D)
      <4>3. v \in Memory /\ v.count = served[s]
        BY <1>1, <3>2, MemoryOps, CountOps
      <4> HIDE DEF v
      <4>4. c \in Memory /\ c.count = served[s]
        BY <1>1, <4>1, <4>3, CheckedOps, CountOps
      <4> HIDE DEF c
      <4>5. e \in Memory /\ e.count = served[s]
        BY <1>1, <4>2, <4>4, DrawOps, CountOps
      <4> HIDE DEF e
      <4>6. Counted(e).count = served[s] + 1
        BY <1>1, <4>5, CountOps
      <4>7. mem' = [mem EXCEPT ![f] = Counted(e)]
        BY <3>7 DEF e, c, v
      <4> QED
        BY <3>4, <4>6, <4>7
    <3> QED
      BY <3>1, <3>5, <3>6, <3>7 DEF m
  <2> QED
    BY <2>1, <2>4, <2>5
<1> QED
  BY <1>2, <1>3

LEMMA SaveSessionCounts ==
  ASSUME TypeOK, CInv, NEW f \in Filters, SaveSession(f)
  PROVE  CInv'
<1> DEFINE s == job[f].session
<1>1. /\ job[f] \in Job /\ s \in Sessions /\ pc[f] = "save"
  BY DEF SaveSession, TypeOK, Idle, Job
<1>2. mem[f].count = Count(f)
  BY <1>1 DEF CInv, CountOK, Ready
<1>3. served'[s] = Count(f) /\ \A q \in Sessions \ {s} : served'[q] = served[q]
  BY <1>1 DEF SaveSession, TypeOK, Count, Job
<1>4. ASSUME NEW q \in Sessions, sessions'[q] # None
      PROVE  sessions'[q].count = served'[q]
  <2>1. q = s => sessions'[q].count = mem[f].count
    BY DEF SaveSession, TypeOK
  <2>2. q # s => sessions'[q] = sessions[q]
    BY DEF SaveSession, TypeOK
  <2> QED
    BY <1>2, <1>3, <1>4, <2>1, <2>2 DEF CInv, CountIsServed
<1>5. mem' = mem /\ job' = job /\ pc' = [pc EXCEPT ![f] = "reply"]
  BY DEF SaveSession
<1>6. ASSUME NEW g \in Filters PROVE CountOK(g)'
  <2>1. CASE g = f
    BY <1>5, <2>1 DEF CountOK, Ready, TypeOK
  <2>2. CASE g # f /\ Ready(g)
    <3>1. pc[g] # "idle" /\ job[g] \in Job
      BY <2>2 DEF Ready, TypeOK, Idle
    <3>2. job[g].session # s /\ job[g].session \in Sessions
      BY <1>1, <2>2, <3>1 DEF CInv, Alone, Idle, Job
    <3>3. mem[g].count = Count(g)
      BY <2>2 DEF CInv, CountOK
    <3> QED
      BY <1>3, <1>5, <3>2, <3>3 DEF CountOK, Count
  <2>3. CASE g # f /\ ~Ready(g)
    BY <1>5, <2>3 DEF CountOK, Ready, TypeOK
  <2> QED
    BY <2>1, <2>2, <2>3
<1>7. Alone'
  BY <1>1, <1>5 DEF CInv, Alone, Idle, TypeOK
<1> QED
  BY <1>4, <1>6, <1>7 DEF CInv, CountIsServed

LEMMA StepCounts ==
  ASSUME Serial, TypeOK, CInv, [Next]_vars
  PROVE  CInv'
<1> USE DEF cache, process, client
<1>1. ASSUME NEW f \in Filters, NEW s \in Sessions, NEW p \in Profiles, SetInf(f, s, p)
      PROVE  CInv'
  BY <1>1, LossKeepsCount DEF SetInf
<1>2. ASSUME NEW f \in Filters, NEW s \in Sessions, SetSession(f, s)
      PROVE  CInv'
  <2> DEFINE r == [Reset(mem[f]) EXCEPT !.ids = VarsSum[base[f]]]
  <2>1. PICK d \in EventDraws : mem' = [mem EXCEPT ![f] = Draw(Valued(r, s), s, d)]
    BY <1>2 DEF SetSession
  <2>2. r \in Memory /\ r.count = 0 /\ d \in SUBSET Origins
    BY SumsAssumption, DrawsAreOrigins DEF Reset, TypeOK, Memory
  <2> HIDE DEF r
  <2>3. Draw(Valued(r, s), s, d).count = 0
    BY <2>2, CountOps, MemoryOps
  <2>4. mem'[f].count = 0 /\ \A g \in Filters \ {f} : mem'[g] = mem[g]
    BY <2>1, <2>3 DEF TypeOK
  <2>5. /\ job'[f].session = s /\ job'[f].cmd = "set"
        /\ \A g \in Filters \ {f} : job'[g] = job[g] /\ pc'[g] = pc[g]
    BY <1>2, LoadUserBaseType DEF SetSession, NewJob, TypeOK
  <2>6. CountOK(f)'
    BY <2>4, <2>5 DEF CountOK, Count
  <2> QED
    BY <1>2, <2>4, <2>5, <2>6, TakenAlone DEF SetSession
<1>3. ASSUME NEW f \in Filters, NEW s \in Sessions, UpdateSession(f, s)
      PROVE  CInv'
  <2>1. /\ job'[f].session = s /\ pc'[f] = "getses" /\ mem' = mem
        /\ \A g \in Filters \ {f} : job'[g] = job[g] /\ pc'[g] = pc[g]
    BY <1>3 DEF UpdateSession, NewJob, TypeOK
  <2>2. CountOK(f)'
    BY <2>1 DEF CountOK, Ready
  <2> QED
    BY <1>3, <2>1, <2>2, TakenAlone DEF UpdateSession
<1>4. ASSUME NEW f \in Filters, NEW s \in Sessions, Request(f, s)
      PROVE  CInv'
  <2>1. /\ pc'[f] \in {"getses", "delinf"} /\ job'[f].cmd = "request" /\ job'[f].session = s
        /\ \A g \in Filters \ {f} : pc'[g] = pc[g] /\ job'[g] = job[g]
    BY <1>4, LoadUserBaseType DEF Request, NewJob, TypeOK
  <2>2. CountOK(f)'
    BY <2>1 DEF CountOK, Ready
  <2> QED
    BY <1>4, <2>1, <2>2, TakenAlone DEF Request
<1>5. ASSUME NEW f \in Filters, NEW s \in Sessions, PurgeSession(f, s)
      PROVE  CInv'
  BY <1>5, LossKeepsCount DEF PurgeSession, TypeOK
<1>6. ASSUME NEW f \in Filters, NEW i \in Infs, PurgeInf(f, i)
      PROVE  CInv'
  BY <1>6, LossKeepsCount DEF PurgeInf
<1>7. ASSUME NEW f \in Filters, DeleteInf(f)
      PROVE  CInv'
  <2>1. /\ pc[f] = "delinf" /\ mem' = mem /\ job' = job /\ served' = served
        /\ sessions' = sessions
        /\ pc'[f] = IF job[f].cmd = "request" THEN "getses" ELSE "save"
        /\ \A g \in Filters \ {f} : pc'[g] = pc[g]
    BY <1>7 DEF DeleteInf, TypeOK
  <2>2. CountOK(f)'
    BY <2>1 DEF CInv, CountOK, Ready, Count
  <2> QED
    BY <2>1, <2>2, HandledAlone
<1>8. ASSUME NEW f \in Filters, GetSession(f)
      PROVE  CInv'
  BY <1>8, GetSessionCounts
<1>9. ASSUME NEW f \in Filters, DeleteSession(f)
      PROVE  CInv'
  <2>1. /\ pc[f] = "delses" /\ pc'[f] = "reply" /\ mem' = mem /\ job' = job
        /\ served' = served /\ \A g \in Filters \ {f} : pc'[g] = pc[g]
        /\ \A s \in Sessions : sessions'[s] = sessions[s] \/ sessions'[s] = None
    BY <1>9 DEF DeleteSession, TypeOK
  <2>2. CountOK(f)'
    BY <2>1 DEF CountOK, Ready
  <2> QED
    BY <2>1, <2>2, HandledAlone
<1>10. ASSUME NEW f \in Filters, SaveSession(f)
       PROVE  CInv'
  BY <1>10, SaveSessionCounts
<1>11. ASSUME NEW f \in Filters, Reply(f) \/ Fail(f)
       PROVE  CInv'
  <2>1. /\ pc'[f] = "idle" /\ mem' = mem /\ sessions' = sessions /\ served' = served
        /\ \A g \in Filters \ {f} : pc'[g] = pc[g] /\ job'[g] = job[g]
    BY <1>11 DEF Reply, Fail, TypeOK
  <2>2. CountOK(f)'
    BY <2>1 DEF CountOK, Ready
  <2> QED
    BY <2>1, <2>2, HandledAlone
<1>12. ASSUME NEW f \in Filters, Crash(f) \/ Restart(f)
       PROVE  CInv'
  <2>1. Start(f)
    BY <1>12 DEF Crash, Restart
  <2>2. /\ pc'[f] = "idle" /\ sessions' = sessions /\ served' = served
        /\ \A g \in Filters \ {f} : pc'[g] = pc[g] /\ job'[g] = job[g] /\ mem'[g] = mem[g]
    BY <2>1 DEF Start, TypeOK
  <2>3. CountOK(f)'
    BY <2>2 DEF CountOK, Ready
  <2> QED
    BY <2>2, <2>3, HandledAlone
<1>13. CASE Evict
  BY <1>13, LossKeepsCount DEF Evict, TypeOK
<1>14. CASE Upgrade
  BY <1>14, LossKeepsCount DEF Upgrade
<1>15. CASE UNCHANGED vars
  BY <1>15, LossKeepsCount DEF vars
<1> QED
  BY <1>1, <1>2, <1>3, <1>4, <1>5, <1>6, <1>7, <1>8, <1>9, <1>10, <1>11, <1>12,
     <1>13, <1>14, <1>15 DEF Next, Handle

(* If clients wait for their replies, the request counter of a session in  *)
(* the cache is the number of its requests that were answered and saved,   *)
(* whatever other filters do, crash or lose in between.                    *)
THEOREM CounterIsTrue == Serial => (Spec => []CountIsServed)
<1>1. Init => CInv
  BY DEF Init, CInv, Alone, Idle, CountOK, Ready, CountIsServed
<1>2. ASSUME Serial PROVE TypeOK /\ CInv /\ [Next]_vars => CInv'
  BY <1>2, StepCounts
<1>3. CInv => CountIsServed
  BY DEF CInv
<1>4. ASSUME Serial PROVE Spec => []CountIsServed
  BY <1>1, <1>2, <1>3, <1>4, TypeCorrect, PTL DEF Spec
<1> QED
  BY <1>4
===============================================================================
