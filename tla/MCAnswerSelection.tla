------------------------- MODULE MCAnswerSelection -------------------------
(***************************************************************************)
(* Two patterns: p, with an answer that comes once and two that take turns, *)
(* and q, with one of low priority that takes turns and another.           *)
(***************************************************************************)
EXTENDS AnswerSelection, TLC

CONSTANTS p, q, p1, p2, p3, q1, q2

OwnerOf(a) == IF a \in {q1, q2} THEN q ELSE p
Owner   == [a \in Answers |-> OwnerOf(a)]
PrefersP2   == [a \in Answers |-> IF a = p2 THEN 1 ELSE 0]
=============================================================================
