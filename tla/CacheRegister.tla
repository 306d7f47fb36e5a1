--------------------------- MODULE CacheRegister ---------------------------
(***************************************************************************)
(* What the cache promises its users: for every key a register that may    *)
(* lose its value at any time.  A read looks at the register once and then *)
(* answers with what it saw or with a miss; it never answers with anything *)
(* that was not the value of the key at that moment.                       *)
(***************************************************************************)
CONSTANTS Keys, Procs, Values, Miss

VARIABLES
  cell,   \* what each key holds
  view    \* what each process is reading or has read

vars == <<cell, view>>

Idle == [at |-> "idle", val |-> Miss]
View == [at : {"idle", "reading", "answered"}, val : Values \cup {Miss}]

Init == /\ cell = [k \in Keys |-> Miss]
        /\ view = [p \in Procs |-> Idle]

Put(k, v) == cell' = [cell EXCEPT ![k] = v] /\ UNCHANGED view

\* A delete, an expiry or an eviction.
Lose(k) == cell' = [cell EXCEPT ![k] = Miss] /\ UNCHANGED view

Look(p, k) == /\ view' = [view EXCEPT ![p] = [at |-> "reading", val |-> cell[k]]]
              /\ UNCHANGED cell

\* A short answer is looked up and given in one step.
LookAndAnswer(p, k) ==
  /\ view' = [view EXCEPT ![p] = [at |-> "answered", val |-> cell[k]]]
  /\ UNCHANGED cell

Answer(p, v) == /\ view[p].at = "reading"
                /\ v \in {view[p].val, Miss}
                /\ view' = [view EXCEPT ![p] = [at |-> "answered", val |-> v]]
                /\ UNCHANGED cell

Forget(p) == view' = [view EXCEPT ![p] = Idle] /\ UNCHANGED cell

Next == \/ \E k \in Keys : Lose(k) \/ \E v \in Values : Put(k, v)
        \/ \E p \in Procs : \/ Forget(p)
                            \/ \E k \in Keys : Look(p, k) \/ LookAndAnswer(p, k)
                            \/ \E v \in Values \cup {Miss} : Answer(p, v)

Spec == Init /\ [][Next]_vars
=============================================================================
