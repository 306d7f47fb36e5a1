------------------------------ MODULE DrawBox ------------------------------
(***************************************************************************)
(* What a random box promises: it holds a set of numbers, a draw hands out *)
(* one of them and takes it away, and only a return, a refill or a reload  *)
(* makes it available again.                                               *)
(***************************************************************************)
EXTENDS Naturals

CONSTANTS Size,   \* the numbers are 0 .. Size - 1
          NoNum   \* the answer of an empty box

VARIABLES
  box,    \* the numbers that can still be drawn
  out,    \* the answer of the last draw
  stored  \* a saved box

vars == <<box, out, stored>>

Nums == 0 .. Size - 1

Init == box = Nums /\ out = NoNum /\ stored = Nums

Draw == /\ \E n \in box : out' = n /\ box' = box \ {n}
        /\ UNCHANGED stored
Refuse == box = {} /\ out' = NoNum /\ UNCHANGED <<box, stored>>
Remove(n) == box' = box \ {n} /\ UNCHANGED <<out, stored>>
Return(n) == box' = box \cup {n} /\ UNCHANGED <<out, stored>>
Refill == box' = Nums /\ UNCHANGED <<out, stored>>
Store == stored' = box /\ UNCHANGED <<box, out>>
Reload == box' = stored /\ UNCHANGED <<out, stored>>

Next == \/ Draw \/ Refuse \/ Refill \/ Store \/ Reload
        \/ \E n \in Nums : Remove(n) \/ Return(n)

Spec == Init /\ [][Next]_vars
=============================================================================
