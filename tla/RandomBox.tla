----------------------------- MODULE RandomBox -----------------------------
(***************************************************************************)
(* NanoRandomBox: the box of not yet used line numbers behind every udict  *)
(* and sudict of a session.  It keeps its content twice: a bit mask, which *)
(* is what is saved and what a membership test reads, and a shuffled queue *)
(* whose last vLeftInBox entries are what a draw and the remaining amount  *)
(* read.  A plain draw only consumes the queue; every other operation      *)
(* rebuilds the queue from the mask.                                       *)
(***************************************************************************)
EXTENDS Integers, Sequences, FiniteSets

CONSTANTS Size,   \* number of lines of the dictionary, vMaskSize
          NoNum   \* static_cast<unsigned int>(-1)

ASSUME SizeAssumption == Size \in Nat /\ NoNum \notin 0 .. Size - 1

VARIABLES
  vMask,       \* the numbers whose bit is set
  vQueue,      \* the shuffled numbers
  vLeftInBox,  \* how many entries at the end of vQueue are not yet drawn
  out,         \* what the last TakeFromBox() returned
  saved        \* the mask a session keeps in the cache

boxVars == <<vMask, vQueue, vLeftInBox, out, saved>>

Nums == 0 .. Size - 1

\* The orders rand() can give the members of S.
Shuffles(S) ==
  { q \in [1 .. Cardinality(S) -> S] :
      /\ \A i, j \in DOMAIN q : q[i] = q[j] => i = j
      /\ \A n \in S : \E i \in DOMAIN q : q[i] = n }

\* The queue is rebuilt from the mask m, which becomes the mask.
Refresh(m) ==
  /\ vMask' = m
  /\ vQueue' \in Shuffles(m)
  /\ vLeftInBox' = Cardinality(m)

InitBox == /\ vMask = Nums
           /\ vQueue \in Shuffles(Nums)
           /\ vLeftInBox = Size
           /\ out = NoNum
           /\ saved = Nums

\* Mutant: the bit of the drawn number stays set.
TakeFromBoxKeepsBit ==
  LET num == vQueue[Len(vQueue) - vLeftInBox + 1]
  IN /\ vLeftInBox > 0
     /\ out' = num
     /\ vLeftInBox' = vLeftInBox - 1
     /\ UNCHANGED <<vMask, vQueue, saved>>

\* TakeFromBox(): the next entry of the queue; its bit is cleared.
TakeFromBox ==
  LET num == vQueue[Len(vQueue) - vLeftInBox + 1]
  IN /\ vLeftInBox > 0
     /\ out' = num
     /\ vMask' = vMask \ {num}
     /\ vLeftInBox' = vLeftInBox - 1
     /\ UNCHANGED <<vQueue, saved>>

TakeFromEmptyBox == /\ vLeftInBox = 0
                    /\ out' = NoNum
                    /\ UNCHANGED <<vMask, vQueue, vLeftInBox, saved>>

\* TakeFromBox( aNum ); a number beyond the range is refused.
TakeNumber(n) == n < Size /\ Refresh(vMask \ {n}) /\ UNCHANGED <<out, saved>>

\* Mutant: only the bit is set.
RetriveToMask(n) == vMask' = vMask \cup {n} /\ UNCHANGED <<vQueue, vLeftInBox, out, saved>>

RetriveToBox(n) == Refresh(vMask \cup {n}) /\ UNCHANGED <<out, saved>>

Reset == Refresh(Nums) /\ UNCHANGED <<out, saved>>

SaveBox == saved' = vMask /\ UNCHANGED <<vMask, vQueue, vLeftInBox, out>>

\* Mutant: the queue of the box that was in memory goes on being used.
LoadMask == vMask' = saved /\ UNCHANGED <<vQueue, vLeftInBox, out, saved>>

\* Only the mask is saved: whoever loads it shuffles anew.
LoadBox == Refresh(saved) /\ UNCHANGED <<out, saved>>

NextBox == \/ TakeFromBox \/ TakeFromEmptyBox \/ Reset \/ SaveBox \/ LoadBox
           \/ \E n \in Nums : TakeNumber(n) \/ RetriveToBox(n)

RandomBoxSpec == InitBox /\ [][NextBox]_boxVars
-----------------------------------------------------------------------------
BoxTypeOK == /\ vMask \subseteq Nums
             /\ vQueue \in Seq(Nums)
             /\ vLeftInBox \in 0 .. Len(vQueue)
             /\ out \in Nums \cup {NoNum}
             /\ saved \subseteq Nums

\* The part of the queue that is still to be drawn.
Undrawn == Len(vQueue) - vLeftInBox + 1 .. Len(vQueue)

\* The two copies of the content agree: what is left of the queue is the
\* mask, each number once (Refresh, TakeFromBox() and Load together).
QueueIsMask ==
  /\ \A i, j \in DOMAIN vQueue : vQueue[i] = vQueue[j] => i = j
  /\ vMask = { vQueue[i] : i \in Undrawn }

\* GetRemainingAmount and IsEmpty, which read vLeftInBox, tell how many
\* numbers IsInBox, which reads the mask, still accepts.
RemainingAmount == vLeftInBox = Cardinality(vMask)

BoxInv == BoxTypeOK /\ QueueIsMask /\ RemainingAmount

\* The box keeps its promise: a number that was handed out is not handed out
\* again before it is returned, the box is reset or an older box is loaded,
\* and a draw fails only when nothing is left.
Box == INSTANCE DrawBox WITH box <- vMask, stored <- saved
BoxSpec == Box!Spec
=============================================================================
