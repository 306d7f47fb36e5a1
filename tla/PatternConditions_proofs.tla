----------------------- MODULE PatternConditions_proofs -----------------------
(***************************************************************************)
(* What the compiler accepts is walked to its end, for patterns of every   *)
(* length: CompiledIsWalked is an invariant of PatternConditions.  A       *)
(* candidate is judged by its own conditions: JudgedByOwn.  And what the   *)
(* walk finds is what the lines say when blocks are found by counting:     *)
(* AnswersFollowBranches and ReachedIsInterpreted.                         *)
(*                                                                         *)
(* The compiler's stack and the nested calls of the walk are never in the  *)
(* same state, so the invariant compares the calls that are open at line n *)
(* with the stack the compiler had there: trace[n].  For the last two, it  *)
(* says of every level of that stack which line has placed it, and of the  *)
(* call of that level what it has found out: whether the block is in scope *)
(* (ParentFree), whether what follows its last branch is (Free), and       *)
(* whether no branch has held so far (Tried).                              *)
(***************************************************************************)
EXTENDS PatternConditions, SequenceTheorems, FiniteSetTheorems, TLAPS

Node == [id : Nat, type : Types \ Closers]
TLCS == [type : Types, label : BOOLEAN, arg : Nat]
Frame == [block : Openers, parentOk : BOOLEAN, ok : BOOLEAN, allPrevFailed : BOOLEAN]

\* The operator a block began with, from the line that is at the top of the stack for it.
BlockOf(type) == IF type \in {"If", "Elsif", "Else"} THEN "If" ELSE "Switch"

\* What acceptance says of the top of the stack, without the arguments of the switches.
Fits(type, s) ==
  /\ type \in {"Elsif", "Else", "Endif"} => s # <<>> /\ s[Len(s)].type \in {"If", "Elsif", "Else"}
  /\ type \in {"Case", "Default", "Endswitch"} => s # <<>> /\ s[Len(s)].type \in {"Switch", "Case", "Default"}

\* The stacks of the compiler: each line was accepted on the stack before it.
Compiled ==
  /\ tlcs \in Seq(TLCS)
  /\ trace \in Seq(Seq(Node))
  /\ Len(trace) = Len(tlcs) + 1
  /\ trace[1] = <<>>
  /\ \A i \in 1..Len(tlcs) : /\ Fits(tlcs[i].type, trace[i])
                             /\ trace[i + 1] = StackAfter(trace[i], tlcs[i].type, i)

\* The open calls at line n are the open blocks of the compiler.
Nested ==
  /\ n \in 1..(Len(tlcs) + 1)
  /\ frames \in Seq(Frame)
  /\ Len(frames) = Len(trace[n])
  /\ \A k \in 1..Len(frames) : frames[k].block = BlockOf(trace[n][k].type)

Switched == switches \in Seq(Nat)

IInv == Compiled /\ Switched /\ CompiledIsWalked /\ (phase = "testing" => Nested)

-------------------------------------------------------------------------------

\* The type of the top of a stack decides whether a line is accepted; the arguments do not matter.
LEMMA AcceptedFits ==
  ASSUME NEW type \in Types, InContext(type), trace \in Seq(Seq(Node)), trace # <<>>
  PROVE  Fits(type, stack)
  BY DEF InContext, Fits, TopIn, Top, stack, Last, Types, Openers, Closers

\* A sequence without its last element.
LEMMA FrontFacts ==
  ASSUME NEW S, NEW s \in Seq(S), s # <<>>
  PROVE  /\ Front(s) \in Seq(S)
         /\ Len(Front(s)) = Len(s) - 1
         /\ \A k \in 1..(Len(s) - 1) : Front(s)[k] = s[k]
<1>1. Len(s) \in Nat \ {0} /\ Front(s) = SubSeq(s, 1, Len(s) - 1)
  BY DEF Front
<1>2. SubSeq(s, 1, Len(s) - 1) = [k \in 1..(Len(s) - 1) |-> s[k]]
  BY <1>1
<1>3. Len(s) - 1 \in Nat /\ \A k \in 1..(Len(s) - 1) : s[k] \in S
  BY <1>1
<1>4. Front(s) \in Seq(S) /\ DOMAIN Front(s) = 1..(Len(s) - 1)
  BY <1>1, <1>2, <1>3
<1>5. Len(Front(s)) = Len(s) - 1
  BY <1>3, <1>4, LenProperties
<1>6. \A k \in 1..(Len(s) - 1) : Front(s)[k] = s[k]
  BY <1>1, <1>2
<1> QED
  BY <1>4, <1>5, <1>6

\* A stack stays one.
LEMMA StackType ==
  ASSUME NEW s \in Seq(Node), NEW type \in Types, NEW id \in Nat, Fits(type, s)
  PROVE  StackAfter(s, type, id) \in Seq(Node)
<1>1. NoTLCS \in Nat
  BY DEF NoTLCS
<1>2. s # <<>> => Front(s) \in Seq(Node)
  BY FrontFacts
<1>3. CASE type = "If"
  BY <1>3 DEF StackAfter, Node, Types, Closers, Openers
<1>4. CASE type = "Switch"
  BY <1>1, <1>4 DEF StackAfter, Node, Types, Closers, Openers
<1>5. CASE type \in Closers
  BY <1>2, <1>5 DEF StackAfter, Fits, Openers, Closers
<1>6. CASE type \notin Closers \union Openers
  <2>1. s # <<>> /\ [id |-> id, type |-> type] \in Node
    BY <1>6 DEF Fits, Node, Types, Closers, Openers
  <2> QED
    BY <1>2, <1>6, <2>1 DEF StackAfter, Closers, Openers
<1> QED
  BY <1>3, <1>4, <1>5, <1>6 DEF Types, Openers, Closers

\* Blocks of the stack after a line, one case for each kind of line.
LEMMA StackBlocks ==
  ASSUME NEW s \in Seq(Node), NEW type \in Types, NEW id \in Nat, Fits(type, s),
         NEW t \in Seq(Node), t = StackAfter(s, type, id)
  PROVE  /\ type \in Openers => /\ Len(t) = Len(s) + 1
                                /\ \A k \in 1..Len(s) : t[k] = s[k]
                                /\ t[Len(t)].type = type
         /\ type \in Closers => /\ s # <<>> /\ Len(t) = Len(s) - 1
                                /\ \A k \in 1..Len(t) : t[k] = s[k]
         /\ type \notin Openers \union Closers =>
              /\ s # <<>> /\ Len(t) = Len(s)
              /\ \A k \in 1..(Len(s) - 1) : t[k] = s[k]
              /\ t[Len(t)].type = type
<1>1. CASE type \in Openers
  BY <1>1 DEF StackAfter, Openers, Closers
<1>2. CASE type \in Closers
  <2>1. s # <<>> /\ t = Front(s)
    BY <1>2 DEF StackAfter, Openers, Closers, Fits
  <2> QED
    BY <1>2, <2>1, FrontFacts DEF Openers, Closers
<1>3. CASE type \notin Openers \union Closers
  <2>1. s # <<>> /\ t = Append(Front(s), [id |-> id, type |-> type])
    BY <1>3 DEF StackAfter, Openers, Closers, Fits, Types
  <2>2. Front(s) \in Seq(Node) /\ Len(Front(s)) = Len(s) - 1 /\ \A k \in 1..(Len(s) - 1) : Front(s)[k] = s[k]
    BY <2>1, FrontFacts
  <2> QED
    BY <1>3, <2>1, <2>2
<1> QED
  BY <1>1, <1>2, <1>3

-------------------------------------------------------------------------------

\* Accepting a line extends the stacks.
LEMMA AcceptKeeps ==
  ASSUME IInv, NEW line \in Lines, Accept(line)
  PROVE  Compiled' /\ Switched'
<1> DEFINE id == Len(tlcs) + 1
           tl == [type |-> line.type, label |-> line.label,
                  arg |-> IF line.type = "Case" THEN Last(switches) ELSE NoTLCS]
           st == StackAfter(stack, line.type, id)
<1>1. line.type \in Types /\ line.label \in BOOLEAN
  BY DEF Lines
<1>2. /\ tlcs \in Seq(TLCS) /\ trace \in Seq(Seq(Node)) /\ Len(trace) = id /\ trace # <<>>
      /\ stack = trace[id] /\ stack \in Seq(Node) /\ id \in Nat
  BY DEF IInv, Compiled, stack, Last
<1>3. Fits(line.type, stack)
  BY <1>1, <1>2, AcceptedFits DEF Accept
<1>4. tl \in TLCS
  <2>1. line.type = "Case" => Last(switches) \in Nat
    BY DEF Accept, InContext, IInv, Switched, Last
  <2> QED
    BY <1>1, <2>1 DEF TLCS, NoTLCS
<1>5. st \in Seq(Node)
  BY <1>1, <1>2, <1>3, StackType
<1>6. tlcs' = Append(tlcs, tl) /\ trace' = Append(trace, st)
  BY DEF Accept
<1>7. Compiled'
  <2> HIDE DEF tl, st
  <2>1. /\ tlcs' \in Seq(TLCS) /\ trace' \in Seq(Seq(Node)) /\ Len(trace') = Len(tlcs') + 1 /\ Len(tlcs') = id
        /\ \A i \in 1..Len(tlcs) : tlcs'[i] = tlcs[i] /\ trace'[i] = trace[i] /\ trace'[i + 1] = trace[i + 1]
        /\ trace'[1] = trace[1] /\ tlcs'[id] = tl /\ trace'[id] = stack /\ trace'[id + 1] = st
    BY <1>2, <1>4, <1>5, <1>6
  <2>2. \A i \in 1..Len(tlcs) : Fits(tlcs'[i].type, trace'[i]) /\ trace'[i + 1] = StackAfter(trace'[i], tlcs'[i].type, i)
    BY <2>1 DEF IInv, Compiled
  <2>3. tl.type = line.type /\ st = StackAfter(stack, line.type, id)
    BY DEF tl, st
  <2>4. Fits(tlcs'[id].type, trace'[id]) /\ trace'[id + 1] = StackAfter(trace'[id], tlcs'[id].type, id)
    BY <1>3, <2>1, <2>3
  <2>5. \A i \in 1..Len(tlcs') : i \in 1..Len(tlcs) \/ i = id
    BY <2>1, <1>2
  <2> QED
    BY <2>1, <2>2, <2>4, <2>5 DEF Compiled, IInv
<1>8. Switched'
  BY <1>1, <1>2 DEF Accept, IInv, Switched, Front, InContext, SwitchesAfter, Types, Openers, Closers
<1> QED
  BY <1>7, <1>8

\* One line of the walk: the compiler's stack after it has the blocks that are open then.
LEMMA WalkKeeps ==
  ASSUME IInv, phase = "testing", TestOpen \/ TestBranch \/ TestClose
  PROVE  Nested' /\ phase' = "testing"
<1> USE DEF IInv
<1> DEFINE type == tlcs[n].type
           s == trace[n]
           t == trace[n + 1]
<1>1. n \in 1..Len(tlcs) /\ n \in Nat /\ type \in Types /\ s \in Seq(Node) /\ t \in Seq(Node)
  <2>1. n \in 1..(Len(tlcs) + 1) /\ n <= Len(tlcs) /\ Len(tlcs) \in Nat
    BY DEF Compiled, Nested, TestOpen, TestBranch, TestClose
  <2>2. n \in 1..Len(tlcs) /\ n \in Nat /\ n \in 1..Len(trace) /\ n + 1 \in 1..Len(trace)
    BY <2>1 DEF Compiled
  <2>3. tlcs[n] \in TLCS /\ s \in Seq(Node) /\ t \in Seq(Node)
    BY <2>2 DEF Compiled
  <2> QED
    BY <2>2, <2>3 DEF TLCS
<1>2. Fits(type, s) /\ t = StackAfter(s, type, n)
  BY <1>1 DEF Compiled
<1>3. /\ frames \in Seq(Frame) /\ Len(frames) = Len(s)
      /\ \A k \in 1..Len(frames) : frames[k].block = BlockOf(s[k].type)
  BY DEF Nested
<1>4. tlcs' = tlcs /\ trace' = trace
  BY DEF TestOpen, TestBranch, TestClose, source
<1>5. n + 1 \in 1..(Len(tlcs) + 1) /\ Len(tlcs) \in Nat
  BY <1>1 DEF Compiled
<1>6. CASE TestOpen
  <2>1. PICK f \in Frame : frames' = Append(frames, f) /\ f.block = type
    <3> DEFINE po == frames = <<>> \/ Last(frames).ok
               ok == po /\ IsTrue(n)
               f == [block |-> tlcs[n].type, parentOk |-> po, ok |-> ok, allPrevFailed |-> ~ok]
    <3>1. type \in Openers /\ frames' = Append(frames, f)
      BY <1>6 DEF TestOpen
    <3>2. po \in BOOLEAN /\ ok \in BOOLEAN
      OBVIOUS
    <3>3. f \in Frame /\ f.block = type
      <4> HIDE DEF po, ok
      <4> QED
        BY <3>1, <3>2, Zenon DEF Frame
    <3> QED
      BY <3>1, <3>3
  <2>2. type \in Openers /\ n' = n + 1 /\ phase' = phase
    BY <1>6 DEF TestOpen
  <2>3. Len(t) = Len(s) + 1 /\ (\A k \in 1..Len(s) : t[k] = s[k]) /\ t[Len(t)].type = type
    BY <1>1, <1>2, <2>2, StackBlocks
  <2>4. BlockOf(type) = type
    BY <2>2 DEF BlockOf, Openers
  <2> HIDE DEF type, s, t
  <2>5. frames' \in Seq(Frame) /\ Len(frames') = Len(t)
    BY <1>1, <1>3, <2>1, <2>3
  <2>6. ASSUME NEW k \in 1..Len(frames') PROVE frames'[k].block = BlockOf(t[k].type)
    <3>1. Len(frames) \in Nat /\ Len(frames') = Len(frames) + 1 /\ k \in Nat
      BY <1>3, <2>1
    <3>2. CASE k <= Len(frames)
      <4>1. k \in 1..Len(frames) /\ frames'[k] = frames[k]
        BY <1>3, <2>1, <3>1, <3>2
      <4>2. t[k] = s[k]
        BY <1>3, <2>3, <4>1
      <4> QED
        BY <1>3, <4>1, <4>2
    <3>3. CASE k = Len(frames')
      <4>1. frames'[k] = f
        BY <1>3, <2>1, <3>1, <3>3
      <4>2. t[k].type = type
        BY <2>3, <2>5, <3>3
      <4> QED
        BY <2>1, <2>4, <4>1, <4>2
    <3> QED
      BY <3>1, <3>2, <3>3
  <2> QED
    BY <1>4, <1>5, <2>2, <2>5, <2>6 DEF Nested, t
<1>7. CASE TestBranch
  <2>1. type \in Types \ (Openers \union Closers)
    BY <1>1, <1>7 DEF TestBranch
  <2>2. /\ s # <<>> /\ Len(t) = Len(s) /\ (\A k \in 1..(Len(s) - 1) : t[k] = s[k]) /\ t[Len(t)].type = type
    BY <1>1, <1>2, <2>1, StackBlocks
  <2>3. frames # <<>> /\ Len(s) > 0
    BY <1>1, <1>3, <2>2
  <2>4. BlockOf(type) = BlockOf(s[Len(s)].type)
    BY <1>1, <1>2, <2>1, <2>2 DEF Fits, BlockOf, Types, Openers, Closers
  <2>5. PICK f \in Frame : frames' = Append(Front(frames), f) /\ f.block = frames[Len(frames)].block
    <3> DEFINE l == Last(frames)
               ok == Reached(l) /\ (tlcs[n].type \in {"Else", "Default"} \/ IsTrue(n))
    <3>1. frames' = Append(Front(frames), Branch(l, ok))
      BY <1>7, <2>3, Zenon DEF TestBranch
    <3>2. l \in Frame /\ l = frames[Len(frames)]
      BY <1>3, <2>3 DEF Last
    <3>3. ok \in BOOLEAN
      BY DEF Reached
    <3>4. Branch(l, ok) \in Frame /\ Branch(l, ok).block = l.block
      <4> HIDE DEF l, ok
      <4>1. Branch(l, ok) = [l EXCEPT !.ok = ok, !.allPrevFailed = l.allPrevFailed /\ ~ok]
        BY <3>2 DEF Branch, Frame
      <4>2. (l.allPrevFailed /\ ~ok) \in BOOLEAN
        OBVIOUS
      <4> DEFINE a == l.allPrevFailed /\ ~ok
      <4> HIDE DEF a
      <4>3. [l EXCEPT !.ok = ok, !.allPrevFailed = a] \in Frame /\ [l EXCEPT !.ok = ok, !.allPrevFailed = a].block = l.block
        BY <3>2, <3>3, <4>2 DEF Frame, a
      <4> QED
        BY <4>1, <4>3 DEF a
    <3> QED
      BY <3>1, <3>2, <3>4
  <2>6. n' = n + 1 /\ phase' = phase
    BY <1>7, <2>3 DEF TestBranch
  <2>7. Front(frames) \in Seq(Frame) /\ Len(Front(frames)) = Len(frames) - 1 /\ \A k \in 1..(Len(frames) - 1) : Front(frames)[k] = frames[k]
    BY <1>3, <2>3, FrontFacts
  <2> HIDE DEF type, s, t
  <2>8. frames' \in Seq(Frame) /\ Len(frames') = Len(t)
    BY <1>1, <1>3, <2>2, <2>3, <2>5, <2>7
  <2>9. ASSUME NEW k \in 1..Len(frames') PROVE frames'[k].block = BlockOf(t[k].type)
    <3>1. CASE k < Len(frames')
      BY <1>1, <1>3, <2>2, <2>3, <2>5, <2>7, <2>8, <3>1
    <3>2. CASE k = Len(frames')
      BY <1>1, <1>3, <2>2, <2>3, <2>4, <2>5, <2>7, <2>8, <3>2
    <3> QED
      BY <2>8, <3>1, <3>2
  <2> QED
    BY <1>4, <1>5, <2>6, <2>8, <2>9 DEF Nested, t
<1>8. CASE TestClose
  <2>1. type \in Closers
    BY <1>8 DEF TestClose
  <2>2. s # <<>> /\ Len(t) = Len(s) - 1 /\ \A k \in 1..Len(t) : t[k] = s[k]
    <3>1. type \in Closers => s # <<>> /\ Len(t) = Len(s) - 1 /\ \A k \in 1..Len(t) : t[k] = s[k]
      BY <1>1, <1>2, StackBlocks
    <3> QED
      BY <2>1, <3>1
  <2>3. frames # <<>> /\ frames[Len(frames)].block = BlockOf(s[Len(s)].type)
    BY <1>1, <1>3, <2>2
  <2>4. Last(frames).block = IF type = "Endif" THEN "If" ELSE "Switch"
    BY <1>2, <2>1, <2>2, <2>3 DEF Last, Fits, BlockOf, Closers
  <2>5. frames' = Front(frames) /\ n' = n + 1 /\ phase' = phase
    BY <1>8, <2>3, <2>4 DEF TestClose
  <2>6. Front(frames) \in Seq(Frame) /\ Len(Front(frames)) = Len(frames) - 1 /\ \A k \in 1..(Len(frames) - 1) : Front(frames)[k] = frames[k]
    BY <1>3, <2>3, FrontFacts
  <2> HIDE DEF type, s, t
  <2>7. frames' \in Seq(Frame) /\ Len(frames') = Len(t)
    BY <1>1, <1>3, <2>2, <2>5, <2>6
  <2>8. ASSUME NEW k \in 1..Len(frames') PROVE frames'[k].block = BlockOf(t[k].type)
    <3>1. Len(frames') = Len(frames) - 1 /\ Len(frames) \in Nat /\ Len(frames) = Len(s)
      BY <1>1, <1>3, <2>5, <2>6
    <3>2. k \in 1..Len(frames) /\ frames'[k] = frames[k]
      BY <2>5, <2>6, <3>1
    <3>3. t[k] = s[k]
      BY <2>2, <3>1
    <3> QED
      BY <1>3, <3>2, <3>3
  <2> QED
    BY <1>4, <1>5, <2>5, <2>7, <2>8 DEF Nested, t
<1> QED
  BY <1>6, <1>7, <1>8

\* Every step keeps the invariant.
LEMMA StepKeeps ==
  ASSUME IInv, [Next]_vars
  PROVE  IInv'
<1>1. ASSUME NEW line \in Lines, Accept(line) PROVE IInv'
  BY <1>1, AcceptKeeps DEF IInv, Accept, CompiledIsWalked
<1>2. CASE ParseError
  BY <1>2 DEF ParseError, IInv, CompiledIsWalked, Compiled, Switched, source
<1>3. CASE EndPattern
  BY <1>3 DEF EndPattern, IInv, CompiledIsWalked, Compiled, Switched, source
<1>4. CASE StartSearch
  BY <1>4 DEF StartSearch, IInv, CompiledIsWalked, Compiled, Switched, source
<1>5. ASSUME NEW q \in Questions, TestOwn(q) PROVE IInv'
  <2>1. Compiled' /\ Switched' /\ phase' = "testing" /\ n' = 1 /\ frames' = <<>> /\ trace' = trace /\ tlcs' = tlcs
    BY <1>5 DEF TestOwn, IInv, Compiled, Switched, source
  <2>2. tlcs # <<>>
    BY <1>5 DEF TestOwn
  <2>3. trace[1] = <<>>
    BY DEF IInv, Compiled
  <2> QED
    BY <2>1, <2>2, <2>3 DEF IInv, CompiledIsWalked, Nested, Compiled
<1>6. ASSUME NEW q \in Questions, TestOther(q) PROVE IInv'
  BY <1>6 DEF TestOther, IInv, CompiledIsWalked, Compiled, Switched, source, walk
<1>7. ASSUME NEW q \in Questions, NEW p \in Patterns, Extend(p, q) PROVE IInv'
  BY <1>7 DEF Extend, IInv, CompiledIsWalked, Compiled, Switched, source, walk
<1>8. CASE TestOpen \/ TestBranch \/ TestClose
  <2>1. phase = "testing"
    BY <1>8 DEF TestOpen, TestBranch, TestClose
  <2>2. Nested' /\ phase' = "testing"
    BY <1>8, <2>1, WalkKeeps
  <2>3. Compiled' /\ Switched'
    BY <1>8 DEF TestOpen, TestBranch, TestClose, IInv, Compiled, Switched, source
  <2> QED
    BY <2>2, <2>3 DEF IInv, CompiledIsWalked
<1>9. CASE TestEnd
  BY <1>9 DEF TestEnd, IInv, CompiledIsWalked, Compiled, Switched, source
<1>10. CASE UNCHANGED vars
  BY <1>10 DEF vars, IInv, CompiledIsWalked, Compiled, Switched, Nested, source, walk
<1> QED
  BY <1>1, <1>2, <1>3, <1>4, <1>5, <1>6, <1>7, <1>8, <1>9, <1>10 DEF Next

\* Whatever the author writes, the walk of an accepted pattern finds every block as the compiler did.
THEOREM AcceptedIsWalked == Spec => []CompiledIsWalked
<1>1. Init => IInv
  BY DEF Init, IInv, Compiled, Switched, CompiledIsWalked
<1>2. IInv /\ [Next]_vars => IInv'
  BY StepKeeps
<1>3. IInv => CompiledIsWalked
  BY DEF IInv
<1> QED
  BY <1>1, <1>2, <1>3, PTL DEF Spec

-------------------------------------------------------------------------------
(* The cache.  What the walk finds depends on the pattern and the values   *)
(* of the search only, so results of an earlier walk are those of a later  *)
(* one.  A walk is compared with every function h that follows it line by  *)
(* line.                                                                   *)

\* The open calls and results after line i, when they are w before it.
After(i, w) ==
  IF tlcs[i].type \in Openers
  THEN LET parentOk == w.frames = <<>> \/ Last(w.frames).ok
           ok == parentOk /\ IsTrue(i)
       IN  [frames |-> Append(w.frames, [block |-> tlcs[i].type, parentOk |-> parentOk,
                                         ok |-> ok, allPrevFailed |-> ~ok]),
            passed |-> [w.passed EXCEPT ![i] = ok]]
  ELSE IF tlcs[i].type \in Closers
       THEN [frames |-> Front(w.frames), passed |-> w.passed]
       ELSE LET f == Last(w.frames)
                ok == Reached(f) /\ (tlcs[i].type \in {"Else", "Default"} \/ IsTrue(i))
            IN  [frames |-> Append(Front(w.frames), Branch(f, ok)),
                 passed |-> [w.passed EXCEPT ![i] = ok]]

Now == [frames |-> frames, passed |-> passed]
Started == [frames |-> <<>>, passed |-> [i \in 1..Len(tlcs) |-> FALSE]]

\* h is the walk as far as line m.
IsWalk(h, m) == h[1] = Started /\ \A i \in 1..(m - 1) : h[i + 1] = After(i, h[i])

\* There is a walk, and it has come to where the search is.
Follows == \A m \in Nat : m = n => (\E h : IsWalk(h, m)) /\ (\A h : IsWalk(h, m) => h[m] = Now)

Results == [1..Len(tlcs) -> BOOLEAN]

\* The results under a key.
Stored(c, key, r) == /\ c.vIndex[key] \in Nat
                     /\ c.vIndex[key] + Len(r) <= Len(c.vOk)
                     /\ \A i \in 1..Len(r) : CachedOk(c, key, i) = r[i]

OwnStored(q) ==
  InCache(cache, <<"own", q>>) =>
    \E r \in Results : /\ Stored(cache, <<"own", q>>, r)
                       /\ \A h : IsWalk(h, Len(tlcs) + 1) => h[Len(tlcs) + 1].passed = r

OtherStored(q) == InCache(cache, <<"other", q>>) => Stored(cache, <<"other", q>>, other)

JInv ==
  /\ cache.vOk \in Seq(BOOLEAN) /\ other \in Seq(BOOLEAN) /\ question \in Questions
  /\ phase = "parsing" => cache = ClearedCache
  /\ \A q \in Questions : OwnStored(q) /\ OtherStored(q)
  /\ phase = "testing" => passed \in Results /\ Follows
  /\ JudgedByOwn

\* What is put into the cache leaves what is there.
LEMMA PutKeeps ==
  ASSUME NEW c, c.vOk \in Seq(BOOLEAN), NEW key, NEW results \in Seq(BOOLEAN),
         NEW k, InCache(c, k), NEW r \in Seq(BOOLEAN), Stored(c, k, r)
  PROVE  Stored(Put(c, key, results), k, r) /\ InCache(Put(c, key, results), k)
<1>1. CASE InCache(c, key)
  BY <1>1 DEF Put
<1>2. CASE ~InCache(c, key)
  <2> DEFINE d == Put(c, key, results)
  <2>1. d = [vIndex |-> [j \in DOMAIN c.vIndex \union {key} |-> IF j = key THEN Len(c.vOk) ELSE c.vIndex[j]],
             vOk |-> c.vOk \o results]
    BY <1>2 DEF Put
  <2>2. k # key /\ k \in DOMAIN c.vIndex
    BY <1>2 DEF InCache
  <2>3. k \in DOMAIN d.vIndex /\ d.vIndex[k] = c.vIndex[k] /\ d.vOk = c.vOk \o results
    BY <2>1, <2>2
  <2> HIDE DEF d
  <2>4. Len(d.vOk) = Len(c.vOk) + Len(results) /\ \A i \in 1..Len(c.vOk) : d.vOk[i] = c.vOk[i]
    BY <2>3
  <2>5. Len(r) \in Nat /\ Len(c.vOk) \in Nat /\ Len(results) \in Nat
    OBVIOUS
  <2>6. \A i \in 1..Len(r) : c.vIndex[k] + i \in 1..Len(c.vOk)
    BY <2>5 DEF Stored
  <2>7. Stored(d, k, r) /\ InCache(d, k)
    BY <2>3, <2>4, <2>5, <2>6 DEF Stored, CachedOk, InCache
  <2> QED
    BY <2>7 DEF d
<1> QED
  BY <1>1, <1>2

\* What is put under a new key can be read there, and nowhere else.
LEMMA PutStores ==
  ASSUME NEW c, c.vOk \in Seq(BOOLEAN), NEW key, ~InCache(c, key), NEW r \in Seq(BOOLEAN)
  PROVE  Stored(Put(c, key, r), key, r) /\ InCache(Put(c, key, r), key)
<1> DEFINE d == Put(c, key, r)
<1>1. d = [vIndex |-> [j \in DOMAIN c.vIndex \union {key} |-> IF j = key THEN Len(c.vOk) ELSE c.vIndex[j]],
           vOk |-> c.vOk \o r]
  BY DEF Put
<1>2. key \in DOMAIN d.vIndex /\ d.vIndex[key] = Len(c.vOk) /\ d.vOk = c.vOk \o r
  BY <1>1
<1> HIDE DEF d
<1>3. /\ Len(d.vOk) = Len(c.vOk) + Len(r) /\ Len(c.vOk) \in Nat /\ Len(r) \in Nat
      /\ \A i \in 1..Len(r) : d.vOk[Len(c.vOk) + i] = r[i]
  BY <1>2
<1>4. Stored(d, key, r) /\ InCache(d, key)
  BY <1>2, <1>3 DEF Stored, CachedOk, InCache
<1> QED
  BY <1>4 DEF d

LEMMA PutOthers ==
  ASSUME NEW c, c.vOk \in Seq(BOOLEAN), NEW key, NEW r \in Seq(BOOLEAN)
  PROVE  /\ Put(c, key, r).vOk \in Seq(BOOLEAN)
         /\ \A k : InCache(Put(c, key, r), k) => k = key \/ InCache(c, k)
<1>1. CASE InCache(c, key)
  BY <1>1 DEF Put
<1>2. CASE ~InCache(c, key)
  <2> DEFINE d == Put(c, key, r)
  <2>1. d = [vIndex |-> [j \in DOMAIN c.vIndex \union {key} |-> IF j = key THEN Len(c.vOk) ELSE c.vIndex[j]],
             vOk |-> c.vOk \o r]
    BY <1>2 DEF Put
  <2>2. DOMAIN d.vIndex = DOMAIN c.vIndex \union {key} /\ d.vOk = c.vOk \o r
    BY <2>1
  <2> HIDE DEF d
  <2>3. d.vOk \in Seq(BOOLEAN) /\ \A k : InCache(d, k) => k = key \/ InCache(c, k)
    BY <2>2 DEF InCache
  <2> QED
    BY <2>3 DEF d
<1> QED
  BY <1>1, <1>2

\* Results are those of the lines and of the values alone.
LEMMA SameWalks ==
  ASSUME tlcs' = tlcs, truth' = truth, NEW h, NEW m
  PROVE  IsWalk(h, m)' <=> IsWalk(h, m)
BY DEF IsWalk, After, Started, IsTrue

\* What the cache has stays right while the pattern and the values stay.
LEMMA StoredStays ==
  ASSUME JInv, Compiled, tlcs' = tlcs, truth' = truth, other' = other, NEW q \in Questions,
         NEW key, NEW results \in Seq(BOOLEAN), cache' = cache \/ cache' = Put(cache, key, results)
  PROVE  /\ cache'.vOk \in Seq(BOOLEAN)
         /\ InCache(cache, <<"own", q>>) \/ key # <<"own", q>> \/ cache' = cache => OwnStored(q)'
         /\ InCache(cache, <<"other", q>>) \/ key # <<"other", q>> \/ cache' = cache => OtherStored(q)'
<1>1. cache.vOk \in Seq(BOOLEAN) /\ other \in Seq(BOOLEAN) /\ OwnStored(q) /\ OtherStored(q)
  BY DEF JInv
<1>2. cache'.vOk \in Seq(BOOLEAN) /\ \A k : InCache(cache', k) => (k = key /\ cache' # cache) \/ InCache(cache, k)
  BY <1>1, PutOthers
<1>3. ASSUME InCache(cache, <<"own", q>>) PROVE OwnStored(q)'
  <2>1. PICK r \in Results : /\ Stored(cache, <<"own", q>>, r)
                             /\ \A h : IsWalk(h, Len(tlcs) + 1) => h[Len(tlcs) + 1].passed = r
    BY <1>1, <1>3 DEF OwnStored
  <2>2. CASE cache' = cache
    <3>1. \A h : IsWalk(h, Len(tlcs) + 1)' => h[Len(tlcs) + 1].passed = r
      BY <2>1, SameWalks
    <3> QED
      BY <2>1, <2>2, <3>1 DEF OwnStored, Results
  <2>3. CASE cache' = Put(cache, key, results)
    <3>1. Len(tlcs) \in Nat
      BY DEF Compiled
    <3>2. r \in Seq(BOOLEAN)
      BY <3>1 DEF Results
    <3> QED
      BY <1>1, <1>3, <2>1, <2>3, <3>2, SameWalks, PutKeeps DEF OwnStored, Results
  <2> QED
    BY <2>2, <2>3
<1>4. ASSUME InCache(cache, <<"other", q>>) PROVE OtherStored(q)'
  BY <1>1, <1>4, PutKeeps DEF OtherStored
<1>5. ~InCache(cache, <<"own", q>>) /\ (key # <<"own", q>> \/ cache' = cache) => OwnStored(q)'
  BY <1>2 DEF OwnStored
<1>6. ~InCache(cache, <<"other", q>>) /\ (key # <<"other", q>> \/ cache' = cache) => OtherStored(q)'
  BY <1>2 DEF OtherStored
<1> QED
  BY <1>2, <1>3, <1>4, <1>5, <1>6

\* A line of the walk is the one After says.
LEMMA LineIsAfter ==
  ASSUME IInv, JInv, phase = "testing", TestOpen \/ TestBranch \/ TestClose
  PROVE  /\ n \in 1..Len(tlcs) /\ n' = n + 1
         /\ Now' = After(n, Now)
         /\ passed' \in Results
<1>1. phase' = "testing"
  BY WalkKeeps
<1>2. n \in 1..Len(tlcs) /\ tlcs \in Seq(TLCS) /\ passed \in Results
  BY DEF IInv, Nested, Compiled, JInv, TestOpen, TestBranch, TestClose
<1>3. CASE TestOpen
  <2> DEFINE parentOk == frames = <<>> \/ Last(frames).ok
             ok == parentOk /\ IsTrue(n)
             f == [block |-> tlcs[n].type, parentOk |-> parentOk, ok |-> ok, allPrevFailed |-> ~ok]
  <2>1. /\ tlcs[n].type \in Openers /\ n' = n + 1
        /\ frames' = Append(frames, f) /\ passed' = [passed EXCEPT ![n] = ok]
    BY <1>3 DEF TestOpen
  <2>2. After(n, Now) = [frames |-> Append(frames, f), passed |-> [passed EXCEPT ![n] = ok]]
    BY <2>1 DEF After, Now
  <2>3. ok \in BOOLEAN
    OBVIOUS
  <2> HIDE DEF ok, f
  <2> QED
    BY <1>2, <2>1, <2>2, <2>3 DEF Now, Results
<1>4. CASE TestBranch
  <2> DEFINE f == Last(frames)
             ok == Reached(f) /\ (tlcs[n].type \in {"Else", "Default"} \/ IsTrue(n))
  <2>1. frames # <<>>
    BY <1>1, <1>4, Zenon DEF TestBranch
  <2>2. /\ tlcs[n].type \notin Openers \union Closers /\ n' = n + 1
        /\ frames' = Append(Front(frames), Branch(f, ok)) /\ passed' = [passed EXCEPT ![n] = ok]
    BY <1>4, <2>1, Zenon DEF TestBranch
  <2>3. After(n, Now) = [frames |-> Append(Front(frames), Branch(f, ok)), passed |-> [passed EXCEPT ![n] = ok]]
    BY <2>2 DEF After, Now
  <2>4. ok \in BOOLEAN
    BY DEF Reached
  <2> HIDE DEF ok, f
  <2> QED
    BY <1>2, <2>2, <2>3, <2>4 DEF Now, Results
<1>5. CASE TestClose
  <2>1. tlcs[n].type \in Closers \ Openers /\ n' = n + 1 /\ frames' = Front(frames) /\ passed' = passed
    BY <1>1, <1>5 DEF TestClose, Closers, Openers
  <2>2. After(n, Now) = [frames |-> Front(frames), passed |-> passed]
    BY <2>1 DEF After, Now
  <2> QED
    BY <1>2, <2>1, <2>2 DEF Now
<1> QED
  BY <1>3, <1>4, <1>5

\* The walk that is compared goes one line further.
LEMMA FollowsStays ==
  ASSUME IInv, JInv, phase = "testing", TestOpen \/ TestBranch \/ TestClose
  PROVE  Follows'
<1>1. n \in 1..Len(tlcs) /\ n' = n + 1 /\ Now' = After(n, Now)
  BY LineIsAfter
<1>2. tlcs' = tlcs /\ truth' = truth
  BY DEF TestOpen, TestBranch, TestClose, source, search
<1>3. Len(tlcs) \in Nat
  BY DEF IInv, Compiled
<1> SUFFICES ASSUME NEW k \in Nat, k + 1 = n'
             PROVE  (\E h : IsWalk(h, k + 1)') /\ (\A h : IsWalk(h, k + 1)' => h[k + 1] = Now')
  <2>1. n' \in Nat /\ \A m \in Nat : m = n' => m - 1 \in Nat /\ m = (m - 1) + 1
    BY <1>1, <1>3
  <2> QED
    BY <2>1 DEF Follows
<1>4. k = n /\ k >= 1 /\ Now' = After(k, Now)
  BY <1>1, <1>3
<1>5. (\E h : IsWalk(h, k)) /\ (\A h : IsWalk(h, k) => h[k] = Now)
  BY <1>4 DEF JInv, Follows
<1>6. \E h : IsWalk(h, k + 1)
  <2>1. PICK h : IsWalk(h, k)
    BY <1>5
  <2> DEFINE g == [i \in 1..(k + 1) |-> IF i <= k THEN h[i] ELSE After(k, h[k])]
  <2>2. g[1] = h[1] /\ \A i \in 1..k : g[i] = h[i]
    BY <1>4
  <2>3. g[k + 1] = After(k, h[k])
    BY <1>4
  <2> HIDE DEF g
  <2>4. ASSUME NEW i \in 1..k PROVE g[i + 1] = After(i, g[i])
    <3>1. CASE i = k
      BY <2>2, <2>3, <3>1
    <3>2. CASE i # k
      <4>1. i \in 1..(k - 1) /\ i + 1 \in 1..k
        BY <3>2
      <4>2. h[i + 1] = After(i, h[i])
        BY <2>1, <4>1 DEF IsWalk
      <4> QED
        BY <2>2, <4>1, <4>2
    <3> QED
      BY <3>1, <3>2
  <2>5. IsWalk(g, k + 1)
    BY <1>4, <2>1, <2>2, <2>4 DEF IsWalk
  <2> QED
    BY <2>5
<1>7. ASSUME NEW h, IsWalk(h, k + 1) PROVE h[k + 1] = Now'
  <2>1. IsWalk(h, k) /\ h[k + 1] = After(k, h[k])
    BY <1>4, <1>7 DEF IsWalk
  <2> QED
    BY <1>4, <1>5, <2>1
<1>8. \A h : IsWalk(h, k + 1)' <=> IsWalk(h, k + 1)
  BY <1>2, SameWalks
<1> QED
  BY <1>6, <1>7, <1>8

\* The end of a walk: what is judged by is what this walk has found, whoever has stored it.
LEMMA EndKeeps ==
  ASSUME IInv, JInv, TestEnd
  PROVE  JInv'
<1> DEFINE key == <<"own", question>>
           m == Len(tlcs) + 1
<1>1. /\ phase = "testing" /\ n = m /\ m \in Nat /\ tlcs \in Seq(TLCS)
      /\ passed \in Results /\ passed \in Seq(BOOLEAN) /\ Len(passed) = Len(tlcs)
      /\ cache.vOk \in Seq(BOOLEAN) /\ other \in Seq(BOOLEAN) /\ Compiled
      /\ question \in Questions
  <2>1. Compiled /\ Nested /\ passed \in Results /\ phase = "testing" /\ n > Len(tlcs)
    BY DEF TestEnd, IInv, JInv
  <2>2. n \in 1..m /\ Len(tlcs) \in Nat /\ tlcs \in Seq(TLCS)
    BY <2>1 DEF Compiled, Nested
  <2>3. passed \in Seq(BOOLEAN) /\ Len(passed) = Len(tlcs)
    BY <2>1, <2>2 DEF Results
  <2> QED
    BY <2>1, <2>2, <2>3 DEF JInv
<1>2. /\ cache' = Put(cache, key, passed) /\ phase' = "search"
      /\ judged' = [of |-> "own", ok |-> [i \in 1..Len(tlcs) |-> CachedOk(cache', key, i)]]
      /\ tlcs' = tlcs /\ truth' = truth /\ other' = other /\ passed' = passed
  BY DEF TestEnd, source, search, walk
<1>3. (\E h : IsWalk(h, m)) /\ (\A h : IsWalk(h, m) => h[m].passed = passed)
  BY <1>1 DEF JInv, Follows, Now
<1>4. Stored(cache', key, passed)
  <2>1. CASE InCache(cache, key)
    <3>1. PICK r \in Results : Stored(cache, key, r) /\ \A h : IsWalk(h, m) => h[m].passed = r
      BY <2>1 DEF JInv, OwnStored
    <3>2. r = passed
      BY <1>3, <3>1
    <3> QED
      BY <1>2, <2>1, <3>1, <3>2 DEF Put
  <2>2. CASE ~InCache(cache, key)
    BY <1>1, <1>2, <2>2, PutStores
  <2> QED
    BY <2>1, <2>2
<1>5. judged' = [of |-> "own", ok |-> passed]
  <2>1. \A i \in 1..Len(tlcs) : CachedOk(cache', key, i) = passed[i]
    BY <1>1, <1>4 DEF Stored
  <2>2. [i \in 1..Len(tlcs) |-> CachedOk(cache', key, i)] = passed
    BY <1>1, <2>1 DEF Results
  <2> QED
    BY <1>2, <2>2
<1>6. ASSUME NEW q \in Questions PROVE cache'.vOk \in Seq(BOOLEAN) /\ OwnStored(q)' /\ OtherStored(q)'
  <2>1. /\ cache'.vOk \in Seq(BOOLEAN)
        /\ InCache(cache, <<"own", q>>) \/ key # <<"own", q>> \/ cache' = cache => OwnStored(q)'
        /\ InCache(cache, <<"other", q>>) \/ key # <<"other", q>> \/ cache' = cache => OtherStored(q)'
    BY <1>1, <1>2, StoredStays
  <2>2. key # <<"other", q>>
    OBVIOUS
  <2>3. CASE key = <<"own", q>>
    <3>1. \A h : IsWalk(h, m)' => h[m].passed = passed
      BY <1>2, <1>3, SameWalks
    <3> QED
      BY <1>1, <1>2, <1>4, <2>1, <2>2, <2>3, <3>1 DEF OwnStored, Results
  <2> QED
    BY <2>1, <2>2, <2>3
<1>7. phase' = "search" /\ judged'.of = "own" /\ judged'.ok = passed' /\ question' = question
  BY <1>2, <1>5 DEF TestEnd, walk
<1>8. JudgedByOwn'
  BY <1>7 DEF JudgedByOwn
<1>9. cache'.vOk \in Seq(BOOLEAN)
  BY <1>1, <1>2, PutOthers
<1> QED
  BY <1>1, <1>2, <1>6, <1>7, <1>8, <1>9 DEF JInv

\* An empty cache.
LEMMA NothingStored ==
  ASSUME cache' = ClearedCache, NEW q \in Questions
  PROVE  OwnStored(q)' /\ OtherStored(q)' /\ cache'.vOk \in Seq(BOOLEAN)
BY DEF OwnStored, OtherStored, InCache, ClearedCache

LEMMA StepKeepsResults ==
  ASSUME IInv, JInv, [Next]_vars
  PROVE  JInv'
<1> USE DEF source, search, walk
<1>1. Compiled /\ other \in Seq(BOOLEAN) /\ cache.vOk \in Seq(BOOLEAN) /\ question \in Questions
  BY DEF IInv, JInv
<1>2. ASSUME tlcs' = tlcs, truth' = truth, UNCHANGED <<other, cache>>, NEW q \in Questions
      PROVE  OwnStored(q)' /\ OtherStored(q)'
  BY <1>1, <1>2, StoredStays
<1>3. ASSUME NEW line \in Lines, Accept(line) PROVE JInv'
  <2>1. /\ cache' = ClearedCache /\ phase' = "parsing" /\ judged' = judged
        /\ other' = other /\ question' = question
    BY <1>3 DEF Accept, JInv
  <2> QED
    BY <1>1, <2>1, NothingStored DEF JInv, JudgedByOwn
<1>4. CASE ParseError \/ EndPattern
  <2>1. /\ tlcs' = tlcs /\ truth' = truth /\ UNCHANGED <<other, cache, question>>
        /\ phase = "parsing" /\ phase' \in {"parsing", "rejected", "compiled"}
    BY <1>4 DEF ParseError, EndPattern
  <2> QED
    BY <1>1, <1>2, <2>1 DEF JInv, JudgedByOwn
<1>5. CASE StartSearch
  <2>1. /\ cache' = ClearedCache /\ phase' = "search" /\ judged' = NotJudged /\ question' = question
        /\ other' \in [1..2 -> BOOLEAN] \union {<<TRUE, TRUE>>}
    BY <1>5 DEF StartSearch, Clear
  <2>2. other' \in Seq(BOOLEAN)
    <3>1. [1..2 -> BOOLEAN] \subseteq Seq(BOOLEAN)
      OBVIOUS
    <3>2. <<TRUE, TRUE>> \in Seq(BOOLEAN)
      OBVIOUS
    <3> QED
      BY <2>1, <3>1, <3>2
  <2> QED
    BY <1>1, <2>1, <2>2, NothingStored DEF JInv, JudgedByOwn, NotJudged
<1>6. ASSUME NEW p \in Questions, TestOwn(p) PROVE JInv'
  <2>1. /\ tlcs' = tlcs /\ truth' = truth /\ UNCHANGED <<other, cache>> /\ question' = p
        /\ phase' = "testing" /\ n' = 1 /\ passed' \in Results /\ Now' = Started
    BY <1>6 DEF TestOwn, Now, Started, Results
  <2>2. \A h : IsWalk(h, 1)' <=> h[1] = Started
    BY <2>1 DEF IsWalk, Started
  <2>3. \E h : h[1] = Started
    <3>1. [i \in {1} |-> Started][1] = Started
      OBVIOUS
    <3> QED
      BY <3>1
  <2>4. (\E h : IsWalk(h, 1)') /\ (\A h : IsWalk(h, 1)' => h[1] = Now')
    BY <2>1, <2>2, <2>3
  <2>5. Follows'
    BY <2>1, <2>4 DEF Follows
  <2>6. passed' \in Results'
    BY <2>1 DEF Results
  <2> QED
    BY <1>1, <1>2, <2>1, <2>5, <2>6 DEF JInv, JudgedByOwn
<1>7. ASSUME NEW p \in Questions, TestOther(p) PROVE JInv'
  <2> DEFINE key == <<"other", p>>
  <2>1. /\ tlcs' = tlcs /\ truth' = truth /\ other' = other /\ question' = question
        /\ phase = "search" /\ phase' = "search" /\ cache' = Put(cache, key, other)
        /\ judged' = [of |-> "other", ok |-> [i \in 1..Len(other) |-> CachedOk(cache', key, i)]]
    BY <1>7 DEF TestOther
  <2>2. Stored(cache', key, other)
    <3>1. CASE InCache(cache, key)
      BY <2>1, <3>1 DEF Put, JInv, OtherStored
    <3>2. CASE ~InCache(cache, key)
      BY <1>1, <2>1, <3>2, PutStores
    <3> QED
      BY <3>1, <3>2
  <2>3. judged'.of = "other" /\ judged'.ok = other
    <3>1. [i \in 1..Len(other) |-> CachedOk(cache', key, i)] = other
      BY <1>1, <2>2 DEF Stored
    <3> QED
      BY <2>1, <3>1
  <2>4. ASSUME NEW q \in Questions PROVE cache'.vOk \in Seq(BOOLEAN) /\ OwnStored(q)' /\ OtherStored(q)'
    <3>1. /\ cache'.vOk \in Seq(BOOLEAN)
          /\ InCache(cache, <<"own", q>>) \/ key # <<"own", q>> \/ cache' = cache => OwnStored(q)'
          /\ InCache(cache, <<"other", q>>) \/ key # <<"other", q>> \/ cache' = cache => OtherStored(q)'
      BY <1>1, <2>1, StoredStays
    <3>2. key # <<"own", q>>
      OBVIOUS
    <3>3. key = <<"other", q>> => OtherStored(q)'
      BY <2>1, <2>2 DEF OtherStored
    <3> QED
      BY <3>1, <3>2, <3>3
  <2> QED
    BY <1>1, <2>1, <2>3, <2>4 DEF JInv, JudgedByOwn
<1>8. ASSUME NEW q \in Questions, NEW p \in Patterns, Extend(p, q) PROVE JInv'
  <2> DEFINE key == <<p, q>>
  <2>1. /\ tlcs' = tlcs /\ truth' = truth /\ UNCHANGED <<other, passed, question, judged>>
        /\ phase = "search" /\ phase' = "search" /\ cache' = Put(cache, key, other)
        /\ p = "plain" \/ InCache(cache, key)
    BY <1>8 DEF Extend
  <2>2. ASSUME NEW u \in Questions PROVE cache'.vOk \in Seq(BOOLEAN) /\ OwnStored(u)' /\ OtherStored(u)'
    <3>1. InCache(cache, key) => cache' = cache
      BY <2>1 DEF Put
    <3>2. p = "plain" => key # <<"own", u>> /\ key # <<"other", u>>
      OBVIOUS
    <3>3. /\ cache'.vOk \in Seq(BOOLEAN)
          /\ key # <<"own", u>> \/ cache' = cache => OwnStored(u)'
          /\ key # <<"other", u>> \/ cache' = cache => OtherStored(u)'
      BY <1>1, <2>1, StoredStays
    <3> QED
      BY <2>1, <3>1, <3>2, <3>3
  <2> QED
    BY <1>1, <2>1, <2>2 DEF JInv, JudgedByOwn
<1>9. CASE TestOpen \/ TestBranch \/ TestClose
  <2>1. phase = "testing"
    BY <1>9 DEF TestOpen, TestBranch, TestClose
  <2>2. phase' = "testing" /\ passed' \in Results /\ Follows'
    BY <1>9, <2>1, WalkKeeps, LineIsAfter, FollowsStays
  <2>3. tlcs' = tlcs /\ truth' = truth /\ UNCHANGED <<other, cache, question>>
    BY <1>9 DEF TestOpen, TestBranch, TestClose
  <2> QED
    BY <1>1, <1>2, <2>2, <2>3 DEF JInv, JudgedByOwn, Results
<1>10. CASE TestEnd
  BY <1>10, EndKeeps
<1>11. CASE UNCHANGED vars
  <2>1. Follows => Follows'
    <3>1. ASSUME NEW m \in Nat PROVE \A h : IsWalk(h, m)' <=> IsWalk(h, m)
      BY <1>11, SameWalks DEF vars
    <3>2. n' = n /\ Now' = Now
      BY <1>11 DEF vars, Now
    <3> QED
      BY <3>1, <3>2 DEF Follows
  <2> QED
    BY <1>1, <1>2, <1>11, <2>1 DEF vars, JInv, JudgedByOwn, Results
<1> QED
  BY <1>3, <1>4, <1>5, <1>6, <1>7, <1>8, <1>9, <1>10, <1>11 DEF Next

LEMMA InitKeeps == Init => IInv /\ JInv
<1>1. Init => IInv
  BY DEF Init, IInv, Compiled, Switched, CompiledIsWalked
<1>2. \A k : ~InCache(ClearedCache, k)
  BY DEF InCache, ClearedCache
<1>3. ClearedCache.vOk \in Seq(BOOLEAN) /\ <<>> \in Seq(BOOLEAN)
  BY DEF ClearedCache
<1>4. Init => JInv
  BY <1>2, <1>3 DEF Init, JInv, OwnStored, OtherStored, JudgedByOwn
<1> QED
  BY <1>1, <1>4

\* A candidate is judged by the conditions of its own pattern with the values of this search, for any
\* number of lines, questions and searches, though all candidates share one cache, candidates come back,
\* and answers of other patterns fill it too.
THEOREM CandidatesJudgedByOwn == Spec => []JudgedByOwn
<1>1. Init => IInv /\ JInv
  BY InitKeeps
<1>2. IInv /\ JInv /\ [Next]_vars => IInv' /\ JInv'
  BY StepKeeps, StepKeepsResults
<1>3. JInv => JudgedByOwn
  BY DEF JInv
<1> QED
  BY <1>1, <1>2, <1>3, PTL DEF Spec

-------------------------------------------------------------------------------
(* Blocks.  The properties find blocks by counting openers and closers, the *)
(* compiler and the walk by nesting.  Depth counts the stack; a level of    *)
(* the stack is placed by the last line of that depth.                      *)

\* Line j has placed level k of the stack after line i: its block is open since, and j is its last branch.
Places(j, k, i) ==
  /\ j \in 1..i /\ tlcs[j].type \notin Closers /\ Depth(j) = k
  /\ \A m \in j..i : Depth(m) >= k
  /\ \A m \in (j + 1)..i : tlcs[m].type \notin Closers => Depth(m) # k

Deep == \A i \in 0..Len(tlcs) : Depth(i) = Len(trace[i + 1])

Levels ==
  \A i \in 0..Len(tlcs) : \A k \in 1..Len(trace[i + 1]) :
    \E j \in 1..i : /\ Places(j, k, i)
                    /\ trace[i + 1][k].type = tlcs[j].type
                    /\ trace[i + 1][k].id = IF tlcs[j].type = "Switch" THEN NoTLCS ELSE j

\* The argument of a Case is the switch of its block.
CaseArgs ==
  \A b \in 1..Len(tlcs) :
    tlcs[b].type = "Case" => /\ tlcs[b].arg \in 1..b
                             /\ tlcs[tlcs[b].arg].type = "Switch"
                             /\ SameBlock(tlcs[b].arg, b)

\* The arguments on the compiler's second stack are the switches that are open, the inner ones last.
Arguments ==
  /\ \A m \in 1..Len(switches) : /\ switches[m] \in 1..Len(tlcs)
                                 /\ tlcs[switches[m]].type = "Switch"
                                 /\ \A i \in switches[m]..Len(tlcs) : Depth(i) >= Depth(switches[m])
                                 /\ BlockOf(stack[Depth(switches[m])].type) = "Switch"
  /\ \A m \in 1..Len(switches), l \in 1..Len(switches) : m < l => switches[m] < switches[l]
  /\ \A k \in 1..Len(stack) :
       BlockOf(stack[k].type) = "Switch" => \E m \in 1..Len(switches) : Depth(switches[m]) = k

Laid == Compiled /\ Deep /\ Levels /\ CaseArgs

\* Lines 1..i of the list t that have some types, and the depth after line i.
LinesOf(t, i, types) == {k \in 1..i : t[k].type \in types}

DepthOf(t, i) == Cardinality(LinesOf(t, i, Openers)) - Cardinality(LinesOf(t, i, Closers))

LEMMA LinesOfSteps ==
  ASSUME NEW t, NEW i \in Nat, NEW types
  PROVE  /\ Cardinality(LinesOf(t, 0, types)) = 0
         /\ Cardinality(LinesOf(t, i, types)) \in Nat
         /\ Cardinality(LinesOf(t, i + 1, types)) =
              Cardinality(LinesOf(t, i, types)) + IF t[i + 1].type \in types THEN 1 ELSE 0
<1>1. LinesOf(t, 0, types) = {}
  BY DEF LinesOf
<1>2. IsFiniteSet(1..i) /\ LinesOf(t, i, types) \subseteq 1..i
  BY FS_Interval DEF LinesOf
<1>3. IsFiniteSet(LinesOf(t, i, types)) /\ Cardinality(LinesOf(t, i, types)) \in Nat
  BY <1>2, FS_Subset, FS_CardinalityType
<1>4. CASE t[i + 1].type \in types
  <2>1. LinesOf(t, i + 1, types) = LinesOf(t, i, types) \union {i + 1} /\ i + 1 \notin LinesOf(t, i, types)
    BY <1>4 DEF LinesOf
  <2>2. Cardinality(LinesOf(t, i + 1, types)) = Cardinality(LinesOf(t, i, types)) + 1
    BY <1>3, <2>1, FS_AddElement
  <2> QED
    BY <1>1, <1>3, <1>4, <2>2, FS_EmptySet
<1>5. CASE t[i + 1].type \notin types
  <2>1. LinesOf(t, i + 1, types) = LinesOf(t, i, types)
    BY <1>5 DEF LinesOf
  <2> QED
    BY <1>1, <1>3, <1>5, <2>1, FS_EmptySet
<1> QED
  BY <1>4, <1>5

\* One line opens a block, closes one or neither.
LEMMA DepthOfSteps ==
  ASSUME NEW t, NEW i \in Nat
  PROVE  /\ DepthOf(t, 0) = 0 /\ DepthOf(t, i) \in Int
         /\ DepthOf(t, i + 1) = DepthOf(t, i) + IF t[i + 1].type \in Openers THEN 1
                                                ELSE IF t[i + 1].type \in Closers THEN 0 - 1 ELSE 0
<1>1. t[i + 1].type \in Openers => t[i + 1].type \notin Closers
  BY DEF Openers, Closers
<1> QED
  BY <1>1, LinesOfSteps DEF DepthOf

LEMMA DepthSteps ==
  ASSUME NEW i \in Nat
  PROVE  /\ Depth(0) = 0 /\ Depth(i) \in Int
         /\ Depth(i + 1) = Depth(i) + IF tlcs[i + 1].type \in Openers THEN 1
                                      ELSE IF tlcs[i + 1].type \in Closers THEN 0 - 1 ELSE 0
<1>1. \A j \in Nat : Depth(j) = DepthOf(tlcs, j)
  BY DEF Depth, LinesOf, DepthOf
<1> QED
  BY <1>1, DepthOfSteps

\* What the proofs use of the depths.
LEMMA Depths ==
  ASSUME Laid
  PROVE  /\ Len(tlcs) \in Nat /\ Depth(0) = 0
         /\ \A i \in 0..Len(tlcs) : Depth(i) \in Nat
         /\ \A i \in 1..Len(tlcs) :
              /\ tlcs[i].type \in Types
              /\ tlcs[i].type \in Openers => Depth(i) = Depth(i - 1) + 1
              /\ tlcs[i].type \in Closers => Depth(i) = Depth(i - 1) - 1
              /\ tlcs[i].type \notin Openers \union Closers => Depth(i) = Depth(i - 1)
              /\ tlcs[i].type \notin Closers => Depth(i) >= 1
<1>1. Len(tlcs) \in Nat /\ tlcs \in Seq(TLCS) /\ trace \in Seq(Seq(Node)) /\ Len(trace) = Len(tlcs) + 1
  BY DEF Laid, Compiled
<1>2. \A i \in 0..Len(tlcs) : Depth(i) \in Nat
  <2> SUFFICES ASSUME NEW i \in 0..Len(tlcs) PROVE Depth(i) \in Nat
    OBVIOUS
  <2>1. i + 1 \in 1..Len(trace)
    BY <1>1
  <2>2. trace[i + 1] \in Seq(Node)
    BY <1>1, <2>1
  <2> QED
    BY <2>2 DEF Laid, Deep
<1>3. ASSUME NEW i \in 1..Len(tlcs)
      PROVE  /\ tlcs[i].type \in Types
             /\ tlcs[i].type \in Openers => Depth(i) = Depth(i - 1) + 1
             /\ tlcs[i].type \in Closers => Depth(i) = Depth(i - 1) - 1
             /\ tlcs[i].type \notin Openers \union Closers => Depth(i) = Depth(i - 1)
  <2>1. i - 1 \in Nat /\ (i - 1) + 1 = i /\ i - 1 \in 0..Len(tlcs)
    BY <1>1
  <2>2. tlcs[i].type \in Types
    <3>1. tlcs[i] \in TLCS
      BY <1>1
    <3> QED
      BY <3>1 DEF TLCS
  <2>3. Depth(i) = Depth(i - 1) + IF tlcs[i].type \in Openers THEN 1
                                  ELSE IF tlcs[i].type \in Closers THEN 0 - 1 ELSE 0
    BY <2>1, DepthSteps
  <2>4. ~(tlcs[i].type \in Openers /\ tlcs[i].type \in Closers)
    BY DEF Openers, Closers
  <2> QED
    BY <1>2, <2>1, <2>2, <2>3, <2>4
<1>4. ASSUME NEW i \in 1..Len(tlcs), tlcs[i].type \notin Closers PROVE Depth(i) >= 1
  <2>1. i - 1 \in 0..Len(tlcs) /\ i \in 0..Len(tlcs)
    BY <1>1
  <2>2. CASE tlcs[i].type \in Openers
    BY <1>2, <1>3, <2>1, <2>2
  <2>3. CASE tlcs[i].type \notin Openers
    <3>1. Fits(tlcs[i].type, trace[i]) /\ tlcs[i].type \in Types
      BY <1>3 DEF Laid, Compiled
    <3>2. trace[i] # <<>>
      BY <1>4, <2>3, <3>1 DEF Fits, Types, Openers, Closers
    <3>3. i \in 1..Len(trace) /\ trace[i] \in Seq(Node) /\ (i - 1) + 1 = i
      BY <1>1
    <3>4. Len(trace[i]) > 0
      BY <3>2, <3>3
    <3>5. Depth(i - 1) = Len(trace[i])
      BY <2>1, <3>3 DEF Laid, Deep
    <3> QED
      BY <1>3, <1>4, <2>3, <3>4, <3>5
  <2> QED
    BY <2>2, <2>3
<1>5. Depth(0) = 0
  BY DepthSteps
<1> QED
  BY <1>1, <1>2, <1>3, <1>4, <1>5

\* A level is placed by one line only.
LEMMA PlacedOnce ==
  ASSUME Laid, NEW i \in 0..Len(tlcs), NEW k, NEW j, NEW l, Places(j, k, i), Places(l, k, i)
  PROVE  j = l
BY Depths DEF Places

\* What follows line i is in the scope of branches that are chosen.
Free(i) == (\A s \in 1..i : ~InHead(s, i)) /\ \A b \in Around(i) : Chosen(b)

\* So is the block of line j.
ParentFree(j) == \A p \in 1..(j - 1) : Places(p, Depth(j) - 1, j - 1) => Free(p)

\* The scope of a level of the stack is that of the line that has placed it.
LEMMA ScopeOfLevel ==
  ASSUME Laid, NEW i \in 1..Len(tlcs), NEW k, NEW j, Places(j, k, i)
  PROVE  /\ Around(j) = {b \in Around(i) : Depth(b) <= k}
         /\ \A s \in 1..i : (InHead(s, i) /\ Depth(s) <= k) <=> (s <= j /\ InHead(s, j))
<1>1. /\ Len(tlcs) \in Nat /\ (\A m \in 0..Len(tlcs) : Depth(m) \in Nat)
      /\ j \in 1..i /\ Depth(j) = k /\ k \in Nat /\ tlcs[j].type \notin Closers
      /\ \A m \in j..i : Depth(m) >= k
      /\ \A m \in (j + 1)..i : tlcs[m].type \notin Closers => Depth(m) # k
  <2>1. Len(tlcs) \in Nat /\ (\A m \in 0..Len(tlcs) : Depth(m) \in Nat)
    BY Depths
  <2> QED
    BY <2>1 DEF Places
<1>2. \A b \in Branches : b \in 1..Len(tlcs) /\ tlcs[b].type \notin Closers
  BY DEF Branches
<1>3. \A m \in (j + 1)..i : tlcs[m].type \notin Closers => Depth(m) > k
  <2>1. \A m \in (j + 1)..i : Depth(m) \in Nat /\ m \in j..i
    BY <1>1
  <2> QED
    BY <1>1, <2>1
<1>4. ASSUME NEW b \in Around(i), Depth(b) <= k PROVE b \in Around(j)
  <2>1. /\ b \in Branches /\ b <= i /\ (\A m \in b..i : Depth(m) >= Depth(b))
        /\ \A m \in (b + 1)..i : m \in Branches => Depth(m) # Depth(b)
    BY DEF Around
  <2>2. b <= j
    BY <1>1, <1>2, <1>3, <1>4, <2>1
  <2>3. b..j \subseteq b..i /\ (b + 1)..j \subseteq (b + 1)..i
    BY <1>1, <1>2
  <2> QED
    BY <2>1, <2>2, <2>3 DEF Around
<1>5. ASSUME NEW b \in Around(j) PROVE b \in Around(i) /\ Depth(b) <= k
  <2>1. /\ b \in Branches /\ b <= j /\ (\A m \in b..j : Depth(m) >= Depth(b))
        /\ \A m \in (b + 1)..j : m \in Branches => Depth(m) # Depth(b)
    BY DEF Around
  <2>2. Depth(b) <= k /\ b <= i /\ b \in 1..Len(tlcs)
    BY <1>1, <1>2, <2>1
  <2>3. \A m \in b..i : Depth(m) >= Depth(b)
    BY <1>1, <2>1, <2>2
  <2>4. \A m \in (b + 1)..i : m \in Branches => Depth(m) # Depth(b)
    BY <1>1, <1>2, <1>3, <2>1, <2>2
  <2> QED
    BY <2>1, <2>2, <2>3, <2>4 DEF Around
<1>6. ASSUME NEW s \in 1..i, InHead(s, i), Depth(s) <= k PROVE s <= j /\ InHead(s, j)
  <2>1. /\ tlcs[s].type = "Switch" /\ (\A m \in s..i : Depth(m) >= Depth(s))
        /\ \A b \in Branches : s < b /\ b <= i => Depth(b) # Depth(s)
    BY <1>6 DEF InHead
  <2>2. tlcs[s].type \notin Closers
    BY <2>1 DEF Closers
  <2>3. s <= j
    BY <1>1, <1>3, <1>6, <2>2
  <2>4. s..j \subseteq s..i /\ \A b \in Branches : b <= j => b <= i
    BY <1>1, <1>2
  <2> QED
    BY <2>1, <2>3, <2>4 DEF InHead
<1>7. ASSUME NEW s \in 1..i, s <= j, InHead(s, j) PROVE InHead(s, i) /\ Depth(s) <= k
  <2>1. /\ tlcs[s].type = "Switch" /\ (\A m \in s..j : Depth(m) >= Depth(s))
        /\ \A b \in Branches : s < b /\ b <= j => Depth(b) # Depth(s)
    BY <1>7 DEF InHead
  <2>2. Depth(s) <= k
    BY <1>1, <1>7, <2>1
  <2>3. \A m \in s..i : Depth(m) >= Depth(s)
    BY <1>1, <1>7, <2>1, <2>2
  <2>4. \A b \in Branches : s < b /\ b <= i => Depth(b) # Depth(s)
    BY <1>1, <1>2, <1>3, <2>1, <2>2
  <2> QED
    BY <2>1, <2>2, <2>3, <2>4 DEF InHead
<1> QED
  BY <1>4, <1>5, <1>6, <1>7 DEF Around

\* The scope of a line is that of the line at the top of the stack.
LEMMA SameScope ==
  ASSUME Laid, NEW i \in 1..Len(tlcs), NEW j, Places(j, Depth(i), i)
  PROVE  /\ Around(i) = Around(j)
         /\ Free(i) <=> Free(j)
<1>1. Len(tlcs) \in Nat /\ (\A m \in 0..Len(tlcs) : Depth(m) \in Nat) /\ j \in 1..i
  <2>1. j \in 1..i
    BY DEF Places
  <2> QED
    BY <2>1, Depths
<1>2. /\ Around(j) = {b \in Around(i) : Depth(b) <= Depth(i)}
      /\ \A s \in 1..i : (InHead(s, i) /\ Depth(s) <= Depth(i)) <=> (s <= j /\ InHead(s, j))
  BY ScopeOfLevel
<1>3. \A b \in Around(i) : Depth(b) <= Depth(i)
  BY <1>1 DEF Around, Branches
<1>4. \A s \in 1..i : InHead(s, i) => Depth(s) <= Depth(i)
  BY <1>1 DEF InHead
<1>5. Around(i) = Around(j)
  BY <1>2, <1>3
<1>6. (\A s \in 1..i : ~InHead(s, i)) <=> (\A s \in 1..j : ~InHead(s, j))
  BY <1>1, <1>2, <1>4
<1> QED
  BY <1>5, <1>6 DEF Free

\* Nothing is around a line after which no block is open.
LEMMA OutsideIsFree ==
  ASSUME Laid, NEW i \in 0..Len(tlcs), Depth(i) = 0
  PROVE  Around(i) = {} /\ (\A s \in 1..i : ~InHead(s, i)) /\ Free(i)
<1>1. /\ Len(tlcs) \in Nat /\ \A m \in 0..Len(tlcs) : Depth(m) \in Nat
      /\ \A m \in 1..Len(tlcs) : tlcs[m].type \notin Closers => Depth(m) >= 1
  BY Depths
<1>2. ASSUME NEW b \in Around(i) PROVE FALSE
  <2>1. b \in 1..Len(tlcs) /\ tlcs[b].type \notin Closers /\ i \in b..i /\ Depth(i) >= Depth(b)
    BY <1>1 DEF Around, Branches
  <2> QED
    BY <1>1, <2>1
<1>3. ASSUME NEW s \in 1..i, InHead(s, i) PROVE FALSE
  <2>1. s \in 1..Len(tlcs) /\ tlcs[s].type \notin Closers /\ i \in s..i /\ Depth(i) >= Depth(s)
    BY <1>1, <1>3 DEF InHead, Closers
  <2> QED
    BY <1>1, <2>1
<1>4. Around(i) = {}
  BY <1>2
<1> QED
  BY <1>3, <1>4 DEF Free

\* The block of a line is in the scope it had when its first line stood there.
LEMMA ParentStays ==
  ASSUME Laid, NEW i \in 1..Len(tlcs), NEW k, NEW j, Places(j, k, i), NEW p
  PROVE  Places(p, k - 1, i) <=> Places(p, Depth(j) - 1, j - 1)
<1>1. /\ Len(tlcs) \in Nat /\ \A m \in 0..Len(tlcs) : Depth(m) \in Nat
      /\ j \in 1..i /\ Depth(j) = k /\ tlcs[j].type \notin Closers
      /\ \A m \in j..i : Depth(m) >= k
  BY Depths DEF Places
<1>2. ASSUME Places(p, k - 1, i) PROVE Places(p, k - 1, j - 1)
  <2>1. p \in 1..i /\ Depth(p) = k - 1
    BY <1>2 DEF Places
  <2>2. p <= j - 1
    <3>1. CASE p >= j
      BY <1>1, <2>1, <3>1
    <3> QED
      BY <1>1, <2>1, <3>1
  <2>3. p \in 1..(j - 1) /\ p..(j - 1) \subseteq p..i /\ (p + 1)..(j - 1) \subseteq (p + 1)..i
    BY <1>1, <2>1, <2>2
  <2> QED
    BY <1>2, <2>3 DEF Places
<1>3. ASSUME Places(p, k - 1, j - 1) PROVE Places(p, k - 1, i)
  <2>1. /\ p \in 1..(j - 1) /\ tlcs[p].type \notin Closers /\ Depth(p) = k - 1
        /\ \A m \in p..(j - 1) : Depth(m) >= k - 1
        /\ \A m \in (p + 1)..(j - 1) : tlcs[m].type \notin Closers => Depth(m) # k - 1
    BY <1>3 DEF Places
  <2>2. k \in Nat /\ \A m \in j..i : Depth(m) >= k - 1 /\ Depth(m) # k - 1
    BY <1>1
  <2>3. \A m \in p..i : m \in p..(j - 1) \/ m \in j..i
    BY <1>1, <2>1
  <2>4. \A m \in (p + 1)..i : m \in (p + 1)..(j - 1) \/ m \in j..i
    BY <1>1, <2>1
  <2>5. p \in 1..i
    BY <1>1, <2>1
  <2> QED
    BY <2>1, <2>2, <2>3, <2>4, <2>5 DEF Places
<1> QED
  BY <1>1, <1>2, <1>3

\* A line stands at the top of the stack after it, and the levels below are what they were.
LEMMA LineIsTop ==
  ASSUME Laid, NEW i \in 1..Len(tlcs)
  PROVE  /\ tlcs[i].type \notin Closers => \A j : Places(j, Depth(i), i) <=> j = i
         /\ \A k, j : k <= Depth(i) /\ (k = Depth(i) => tlcs[i].type \in Closers) /\ k \in Nat =>
              (Places(j, k, i) <=> Places(j, k, i - 1))
<1>1. /\ Len(tlcs) \in Nat /\ (\A m \in 0..Len(tlcs) : Depth(m) \in Nat) /\ i - 1 \in 0..Len(tlcs) /\ i \in Nat
  BY Depths
<1>2. ASSUME tlcs[i].type \notin Closers, NEW j
      PROVE  Places(j, Depth(i), i) <=> j = i
  <2>1. Places(i, Depth(i), i)
    BY <1>1, <1>2 DEF Places
  <2>2. ASSUME Places(j, Depth(i), i) PROVE j = i
    <3>1. j \in 1..i /\ (i \in (j + 1)..i => Depth(i) # Depth(i))
      BY <1>2, <2>2 DEF Places
    <3> QED
      BY <1>1, <3>1
  <2> QED
    BY <2>1, <2>2
<1>3. ASSUME NEW k \in Nat, NEW j, k <= Depth(i), k = Depth(i) => tlcs[i].type \in Closers
      PROVE  Places(j, k, i) <=> Places(j, k, i - 1)
  <2>1. ASSUME Places(j, k, i) PROVE Places(j, k, i - 1)
    <3>1. j \in 1..i /\ tlcs[j].type \notin Closers /\ Depth(j) = k
      BY <2>1 DEF Places
    <3>2. j # i
      BY <1>3, <3>1
    <3>3. j \in 1..(i - 1) /\ j..(i - 1) \subseteq j..i /\ (j + 1)..(i - 1) \subseteq (j + 1)..i
      BY <1>1, <3>1, <3>2
    <3> QED
      BY <2>1, <3>3 DEF Places
  <2>2. ASSUME Places(j, k, i - 1) PROVE Places(j, k, i)
    <3>1. j \in 1..(i - 1) /\ j \in 1..i
      BY <1>1, <2>2 DEF Places
    <3>2. \A m \in j..i : m \in j..(i - 1) \/ m = i
      BY <1>1, <3>1
    <3>3. \A m \in (j + 1)..i : m \in (j + 1)..(i - 1) \/ m = i
      BY <1>1, <3>1
    <3>4. Depth(i) >= k /\ (tlcs[i].type \notin Closers => Depth(i) # k)
      BY <1>1, <1>3
    <3> QED
      BY <2>2, <3>1, <3>2, <3>3, <3>4 DEF Places
  <2> QED
    BY <2>1, <2>2
<1> QED
  BY <1>2, <1>3

\* After a line that is no closer its parent's level is the one below.
LEMMA ParentLevel ==
  ASSUME Laid, NEW i \in 1..Len(tlcs), tlcs[i].type \notin Closers
  PROVE  /\ \A p : Places(p, Depth(i) - 1, i) <=> Places(p, Depth(i) - 1, i - 1)
         /\ Depth(i) # 1 => \E p \in 1..(i - 1) : Places(p, Depth(i) - 1, i)
<1>1. /\ Len(tlcs) \in Nat /\ Depth(i) \in Nat /\ Depth(i) >= 1 /\ i \in 0..Len(tlcs) /\ i \in Nat
  BY Depths
<1>2. \A p : Places(p, Depth(i) - 1, i) <=> Places(p, Depth(i) - 1, i - 1)
  <2>1. Depth(i) - 1 \in Nat /\ Depth(i) - 1 <= Depth(i) /\ Depth(i) - 1 # Depth(i)
    BY <1>1
  <2> QED
    BY <2>1, LineIsTop
<1>3. ASSUME Depth(i) # 1 PROVE \E p \in 1..(i - 1) : Places(p, Depth(i) - 1, i)
  <2>1. Depth(i) - 1 \in 1..Len(trace[i + 1])
    BY <1>1, <1>3 DEF Laid, Deep
  <2>2. PICK p \in 1..i : Places(p, Depth(i) - 1, i)
    BY <1>1, <2>1 DEF Laid, Levels
  <2>3. p # i
    BY <1>1, <2>2 DEF Places
  <2>4. p \in 1..(i - 1)
    BY <1>1, <2>2, <2>3
  <2> QED
    BY <2>2, <2>4
<1> QED
  BY <1>2, <1>3

\* A switch has a head.
LEMMA SwitchIsNotFree ==
  ASSUME Laid, NEW i \in 1..Len(tlcs), tlcs[i].type = "Switch"
  PROVE  InHead(i, i) /\ ~Free(i)
<1>1. Len(tlcs) \in Nat /\ Depth(i) \in Nat
  BY Depths
<1>2. InHead(i, i)
  BY <1>1 DEF InHead, Branches
<1> QED
  BY <1>1, <1>2 DEF Free

\* What is open before a line and is not a branch of its block is below it.
LEMMA BelowLine ==
  ASSUME Laid, NEW i \in 1..Len(tlcs), tlcs[i].type \notin Closers, NEW x \in 1..(i - 1),
         \A m \in x..(i - 1) : Depth(m) >= Depth(x), i \in Branches => Depth(i) # Depth(x)
  PROVE  Depth(x) <= Depth(i) - 1 /\ \A m \in x..i : Depth(m) >= Depth(x)
<1>1. /\ Len(tlcs) \in Nat /\ (\A m \in 0..Len(tlcs) : Depth(m) \in Nat)
      /\ tlcs[i].type \in Openers => Depth(i) = Depth(i - 1) + 1
      /\ tlcs[i].type \notin Openers => Depth(i) = Depth(i - 1)
  BY Depths
<1>2. Depth(x) <= Depth(i - 1)
  BY <1>1
<1>3. tlcs[i].type \notin Openers => i \in Branches
  BY DEF Branches, Openers
<1>4. Depth(x) \in Nat /\ Depth(i) \in Nat /\ Depth(i - 1) \in Nat
  BY <1>1
<1>5. Depth(x) <= Depth(i) - 1
  BY <1>1, <1>2, <1>3, <1>4
<1>6. \A m \in x..i : m \in x..(i - 1) \/ m = i
  BY <1>1
<1> QED
  BY <1>4, <1>5, <1>6

\* What is around the block of a line, and the heads it stands in.
LEMMA ScopeOfBlock ==
  ASSUME Laid, NEW i \in 1..Len(tlcs), tlcs[i].type \notin Closers
  PROVE  /\ Around(i - 1) \ Before(i) = Around(i) \ {i}
         /\ \A b \in Around(i) \ {i} : Depth(b) <= Depth(i) - 1
         /\ \A s \in 1..(i - 1) : InHead(s, i) => Depth(s) <= Depth(i) - 1
         /\ i \in Around(i) <=> i \in Branches
<1>1. /\ Len(tlcs) \in Nat /\ (\A m \in 0..Len(tlcs) : Depth(m) \in Nat)
      /\ \A b \in Branches : b \in 1..Len(tlcs)
  BY Depths DEF Branches
<1>2. ASSUME NEW b \in Around(i - 1), b \notin Before(i) PROVE b \in Around(i) \ {i}
  <2>1. /\ b \in Branches /\ b <= i - 1 /\ (\A m \in b..(i - 1) : Depth(m) >= Depth(b))
        /\ \A m \in (b + 1)..(i - 1) : m \in Branches => Depth(m) # Depth(b)
    BY DEF Around
  <2>2. b \in 1..(i - 1) /\ b <= i /\ b # i
    BY <1>1, <2>1
  <2>3. i \in Branches => Depth(i) # Depth(b)
    <3>1. ASSUME i \in Branches, Depth(i) = Depth(b) PROVE FALSE
      <4>1. \A m \in b..i : m \in b..(i - 1) \/ m = i
        BY <2>2
      <4>2. \A m \in b..i : Depth(m) >= Depth(b)
        BY <1>1, <2>1, <2>2, <3>1, <4>1
      <4>3. b \in Before(i)
        BY <2>1, <2>2, <3>1, <4>2 DEF Before, SameBlock
      <4> QED
        BY <1>2, <4>3
    <3> QED
      BY <3>1
  <2>4. \A m \in b..i : Depth(m) >= Depth(b)
    BY <2>1, <2>2, <2>3, BelowLine
  <2>5. \A m \in (b + 1)..i : m \in (b + 1)..(i - 1) \/ m = i
    BY <2>2
  <2> QED
    BY <2>1, <2>2, <2>3, <2>4, <2>5 DEF Around
<1>3. ASSUME NEW b \in Around(i), b # i PROVE b \in Around(i - 1) /\ b \notin Before(i) /\ Depth(b) <= Depth(i) - 1
  <2>1. /\ b \in Branches /\ b <= i /\ (\A m \in b..i : Depth(m) >= Depth(b))
        /\ \A m \in (b + 1)..i : m \in Branches => Depth(m) # Depth(b)
    BY DEF Around
  <2>2. b \in 1..(i - 1) /\ b <= i - 1 /\ b..(i - 1) \subseteq b..i /\ (b + 1)..(i - 1) \subseteq (b + 1)..i /\ i \in (b + 1)..i
    BY <1>1, <1>3, <2>1
  <2>3. Depth(b) <= Depth(i) - 1
    BY <2>1, <2>2, BelowLine
  <2>4. b \notin Before(i)
    <3>1. Depth(b) \in Nat /\ Depth(i) \in Nat
      BY <1>1, <2>2
    <3> QED
      BY <2>3, <3>1 DEF Before, SameBlock
  <2> QED
    BY <2>1, <2>2, <2>3, <2>4 DEF Around
<1>4. ASSUME NEW s \in 1..(i - 1), InHead(s, i) PROVE Depth(s) <= Depth(i) - 1
  <2>1. (\A m \in s..i : Depth(m) >= Depth(s)) /\ (i \in Branches => Depth(i) # Depth(s))
    BY <1>4 DEF InHead
  <2>2. \A m \in s..(i - 1) : Depth(m) >= Depth(s)
    BY <2>1
  <2> QED
    BY <2>1, <2>2, BelowLine
<1>5. i \in Around(i) <=> i \in Branches
  BY <1>1 DEF Around
<1> QED
  BY <1>2, <1>3, <1>4, <1>5

\* A line is in a scope where all is chosen, as far as the branches around its block go.
LEMMA ScopeOfParent ==
  ASSUME Laid, NEW i \in 1..Len(tlcs), tlcs[i].type \notin Closers
  PROVE  ParentFree(i) <=> /\ \A b \in Around(i) \ {i} : Chosen(b)
                           /\ \A s \in 1..(i - 1) : ~InHead(s, i)
<1>1. /\ Len(tlcs) \in Nat /\ (\A m \in 0..Len(tlcs) : Depth(m) \in Nat) /\ Depth(i) >= 1
      /\ \A m \in 1..Len(tlcs) : tlcs[m].type \notin Closers => Depth(m) >= 1
  BY Depths
<1>2. /\ \A b \in Around(i) \ {i} : Depth(b) <= Depth(i) - 1
      /\ \A s \in 1..(i - 1) : InHead(s, i) => Depth(s) <= Depth(i) - 1
  BY ScopeOfBlock
<1>3. CASE Depth(i) = 1
  <2>1. ParentFree(i)
    BY <1>1, <1>3 DEF ParentFree, Places
  <2>2. Around(i) \ {i} = {}
    BY <1>1, <1>2, <1>3 DEF Around, Branches
  <2>3. \A s \in 1..(i - 1) : ~InHead(s, i)
    BY <1>1, <1>2, <1>3 DEF InHead, Closers
  <2> QED
    BY <2>1, <2>2, <2>3
<1>4. CASE Depth(i) # 1
  <2>1. PICK p \in 1..(i - 1) : Places(p, Depth(i) - 1, i)
    BY <1>4, ParentLevel
  <2>2. \A q \in 1..(i - 1) : Places(q, Depth(i) - 1, i - 1) <=> q = p
    <3>1. \A q : Places(q, Depth(i) - 1, i - 1) <=> Places(q, Depth(i) - 1, i)
      BY ParentLevel
    <3>2. i \in 0..Len(tlcs)
      BY <1>1
    <3>3. \A q : Places(q, Depth(i) - 1, i) => q = p
      BY <2>1, <3>2, PlacedOnce
    <3> QED
      BY <2>1, <3>1, <3>3
  <2>3. ParentFree(i) <=> Free(p)
    BY <2>1, <2>2 DEF ParentFree
  <2>4. /\ Around(p) = {b \in Around(i) : Depth(b) <= Depth(i) - 1}
        /\ \A s \in 1..i : (InHead(s, i) /\ Depth(s) <= Depth(i) - 1) <=> (s <= p /\ InHead(s, p))
    BY <2>1, ScopeOfLevel
  <2>5. Around(p) = Around(i) \ {i}
    <3>1. Depth(i) \in Nat /\ ~(Depth(i) <= Depth(i) - 1)
      BY <1>1
    <3> QED
      BY <1>2, <2>4, <3>1
  <2>6. (\A s \in 1..(i - 1) : ~InHead(s, i)) <=> (\A s \in 1..p : ~InHead(s, p))
    BY <1>1, <1>2, <2>1, <2>4
  <2> QED
    BY <2>3, <2>5, <2>6 DEF Free
<1> QED
  BY <1>3, <1>4

\* A branch is in scope when it is chosen and its block is in scope.
LEMMA FreeLine ==
  ASSUME Laid, NEW i \in Branches
  PROVE  Free(i) <=> ParentFree(i) /\ Chosen(i)
<1>1. i \in 1..Len(tlcs) /\ Len(tlcs) \in Nat /\ tlcs[i].type \notin Closers \union {"Switch"}
  BY Depths DEF Branches
<1>2. i \in Around(i) /\ ~InHead(i, i)
  BY <1>1, ScopeOfBlock DEF InHead
<1>3. \A s \in 1..i : s \in 1..(i - 1) \/ s = i
  BY <1>1
<1>4. (\A s \in 1..i : ~InHead(s, i)) <=> (\A s \in 1..(i - 1) : ~InHead(s, i))
  BY <1>1, <1>2, <1>3
<1> QED
  BY <1>1, <1>2, <1>4, ScopeOfParent DEF Free

\* A line is looked at when its block is in scope and nothing before it in its block holds.
LEMMA ReachedLine ==
  ASSUME Laid, NEW i \in 1..Len(tlcs), tlcs[i].type \notin Closers
  PROVE  IsReached(i) <=> ParentFree(i) /\ \A c \in Before(i) : ~Holds(c)
BY ScopeOfBlock, ScopeOfParent DEF IsReached

\* Branches of the block of line j that were looked at when it has been.
Tried(j) == {c \in Branches : c <= j /\ SameBlock(c, j)}

\* A block begins with its opener; a later line of it has before it what was tried when it was come to.
LEMMA BeforeLine ==
  ASSUME Laid, NEW i \in 1..Len(tlcs), tlcs[i].type \notin Closers
  PROVE  /\ tlcs[i].type \in Openers => Before(i) = {}
         /\ tlcs[i].type \notin Openers => \A j : Places(j, Depth(i), i - 1) => Before(i) = Tried(j)
         /\ Tried(i) = IF i \in Branches THEN Before(i) \union {i} ELSE Before(i)
<1>1. /\ Len(tlcs) \in Nat /\ (\A m \in 0..Len(tlcs) : Depth(m) \in Nat)
      /\ tlcs[i].type \in Openers => Depth(i) = Depth(i - 1) + 1
      /\ tlcs[i].type \notin Openers => Depth(i) = Depth(i - 1)
      /\ \A b \in Branches : b \in 1..Len(tlcs) /\ tlcs[b].type \notin Closers
  BY Depths DEF Branches
<1>2. ASSUME tlcs[i].type \in Openers, NEW c \in Before(i) PROVE FALSE
  <2>1. c \in 1..(i - 1) /\ Depth(c) = Depth(i) /\ \A m \in c..i : Depth(m) >= Depth(c)
    BY <1>1 DEF Before, SameBlock
  <2>2. i - 1 \in c..i /\ Depth(i - 1) \in Nat /\ Depth(i) \in Nat
    BY <1>1, <2>1
  <2> QED
    BY <1>1, <1>2, <2>1, <2>2
<1>3. ASSUME tlcs[i].type \notin Openers, NEW j, Places(j, Depth(i), i - 1) PROVE Before(i) = Tried(j)
  <2>1. /\ j \in 1..(i - 1) /\ Depth(j) = Depth(i)
        /\ \A m \in j..(i - 1) : Depth(m) >= Depth(i)
        /\ \A m \in (j + 1)..(i - 1) : tlcs[m].type \notin Closers => Depth(m) # Depth(i)
    BY <1>3 DEF Places
  <2>2. ASSUME NEW c \in Before(i) PROVE c \in Tried(j)
    <3>1. c \in Branches /\ c \in 1..(i - 1) /\ Depth(c) = Depth(i) /\ \A m \in c..i : Depth(m) >= Depth(c)
      BY <1>1 DEF Before, SameBlock
    <3>2. c <= j
      BY <1>1, <2>1, <3>1
    <3>3. c..j \subseteq c..i
      BY <1>1, <2>1
    <3> QED
      BY <2>1, <3>1, <3>2, <3>3 DEF Tried, SameBlock
  <2>3. ASSUME NEW c \in Tried(j) PROVE c \in Before(i)
    <3>1. c \in Branches /\ c \in 1..j /\ Depth(c) = Depth(j) /\ \A m \in c..j : Depth(m) >= Depth(c)
      BY <1>1, <2>1 DEF Tried, SameBlock
    <3>2. \A m \in c..i : m \in c..j \/ m \in j..(i - 1) \/ m = i
      BY <2>1, <3>1
    <3>3. \A m \in c..i : Depth(m) >= Depth(c)
      BY <1>1, <2>1, <3>1, <3>2
    <3>4. c < i /\ c <= i
      BY <2>1, <3>1
    <3> QED
      BY <2>1, <3>1, <3>3, <3>4 DEF Before, SameBlock
  <2> QED
    BY <2>2, <2>3
<1>4. SameBlock(i, i)
  BY <1>1 DEF SameBlock
<1>5. \A c \in Branches : c <= i <=> c < i \/ c = i
  BY <1>1
<1>6. Tried(i) = IF i \in Branches THEN Before(i) \union {i} ELSE Before(i)
  BY <1>4, <1>5 DEF Tried, Before
<1> QED
  BY <1>2, <1>3, <1>6

\* The condition that is evaluated is that of the line, and a Case looks at the switch of its block.
LEMMA LineHolds ==
  ASSUME Laid, NEW i \in Branches
  PROVE  Holds(i) <=> tlcs[i].type \in {"Else", "Default"} \/ IsTrue(i)
<1>1. /\ i \in 1..Len(tlcs) /\ Len(tlcs) \in Nat /\ (\A m \in 0..Len(tlcs) : Depth(m) \in Nat)
      /\ tlcs[i].type \in {"If", "Elsif", "Else", "Case", "Default"}
  BY Depths DEF Branches, Types, Openers, Closers
<1>2. CASE tlcs[i].type = "Case"
  <2> DEFINE s == tlcs[i].arg
             P(k) == tlcs[k].type = "Switch" /\ SameBlock(k, i)
  <2>1. s \in 1..i /\ P(s)
    BY <1>1, <1>2 DEF Laid, CaseArgs
  <2>2. ASSUME NEW k \in 1..i, NEW l \in 1..i, k < l, P(k), P(l) PROVE FALSE
    <3>1. Depth(l) = Depth(l - 1) + 1 /\ l - 1 \in k..i /\ l - 1 \in 0..Len(tlcs)
      BY <1>1, <2>2, Depths DEF Openers
    <3>2. Depth(l - 1) >= Depth(k) /\ Depth(k) = Depth(l)
      BY <2>2, <3>1 DEF SameBlock
    <3> QED
      BY <1>1, <3>1, <3>2
  <2>3. \A k \in 1..i : P(k) => k = s
    BY <1>1, <2>1, <2>2
  <2>4. (CHOOSE k \in 1..i : P(k)) = s
    <3> HIDE DEF P, s
    <3> QED
      BY <2>1, <2>3
  <2>5. Holds(i) <=> truth[CHOOSE k \in 1..i : P(k)] = tlcs[i].label
    BY <1>2 DEF Holds
  <2> QED
    BY <1>2, <2>4, <2>5 DEF IsTrue
<1>3. CASE tlcs[i].type \in {"If", "Elsif"}
  BY <1>3 DEF Holds, IsTrue
<1>4. CASE tlcs[i].type \in {"Else", "Default"}
  BY <1>4 DEF Holds
<1> QED
  BY <1>1, <1>2, <1>3, <1>4

\* What is said of lines stays with them and the values.
LEMMA SameLines ==
  ASSUME tlcs' = tlcs, truth' = truth
  PROVE  /\ Branches' = Branches
         /\ \A i : /\ Depth(i)' = Depth(i)
                   /\ Free(i)' <=> Free(i)
                   /\ ParentFree(i)' <=> ParentFree(i)
                   /\ Tried(i)' = Tried(i)
                   /\ Holds(i)' <=> Holds(i)
                   /\ IsReached(i)' <=> IsReached(i)
                   /\ HasCondition(i)' <=> HasCondition(i)
         /\ \A j, k, i : Places(j, k, i)' <=> Places(j, k, i)
<1>1. Branches' = Branches
  BY DEF Branches
<1>2. \A i : Depth(i)' = Depth(i)
  BY DEF Depth
<1>3. \A i, j : SameBlock(i, j)' <=> SameBlock(i, j)
  BY <1>2 DEF SameBlock
<1>4. \A i : Holds(i)' <=> Holds(i)
  BY <1>3 DEF Holds
<1>5. \A i : Before(i)' = Before(i) /\ Tried(i)' = Tried(i)
  BY <1>1, <1>3 DEF Before, Tried
<1>6. \A i : Chosen(i)' <=> Chosen(i)
  BY <1>4, <1>5 DEF Chosen
<1>7. \A i : Around(i)' = Around(i)
  BY <1>1, <1>2 DEF Around
<1>8. \A s, i : InHead(s, i)' <=> InHead(s, i)
  BY <1>1, <1>2 DEF InHead
<1>9. \A i : Free(i)' <=> Free(i)
  BY <1>6, <1>7, <1>8 DEF Free
<1>10. \A j, k, i : Places(j, k, i)' <=> Places(j, k, i)
  BY <1>2 DEF Places
<1>11. \A i : ParentFree(i)' <=> ParentFree(i)
  BY <1>2, <1>9, <1>10 DEF ParentFree
<1>12. \A i : IsReached(i)' <=> IsReached(i)
  BY <1>4, <1>5, <1>6, <1>7, <1>8 DEF IsReached
<1> QED
  BY <1>1, <1>2, <1>4, <1>5, <1>9, <1>10, <1>11, <1>12 DEF HasCondition

\* The block of a line is in scope when the line that has placed the level below is, or there is none.
LEMMA ParentIs ==
  ASSUME Laid, NEW i \in 1..Len(tlcs), tlcs[i].type \notin Closers
  PROVE  /\ Depth(i) = 1 => ParentFree(i)
         /\ \A p : Places(p, Depth(i) - 1, i - 1) => (ParentFree(i) <=> Free(p))
<1>1. /\ Len(tlcs) \in Nat /\ (\A m \in 1..Len(tlcs) : tlcs[m].type \notin Closers => Depth(m) >= 1)
      /\ i - 1 \in 0..Len(tlcs)
  BY Depths
<1>2. Depth(i) = 1 => ParentFree(i)
  BY <1>1 DEF ParentFree, Places
<1>3. ASSUME NEW p, Places(p, Depth(i) - 1, i - 1) PROVE ParentFree(i) <=> Free(p)
  <2>1. p \in 1..(i - 1)
    BY <1>3 DEF Places
  <2>2. \A q : Places(q, Depth(i) - 1, i - 1) => q = p
    BY <1>1, <1>3, PlacedOnce
  <2> QED
    BY <1>3, <2>1, <2>2 DEF ParentFree
<1> QED
  BY <1>2, <1>3

\* The frame of a block, after its line j was the last that was looked at.
FrameAgrees(f, j) ==
  /\ f.ok <=> Free(j)
  /\ f.parentOk <=> ParentFree(j)
  /\ f.parentOk => (f.allPrevFailed <=> \A c \in Tried(j) : ~Holds(c))

\* What the walk has found out so far is what the lines say.
FramesAgree == \A k \in 1..Len(frames) : \A j \in 1..(n - 1) : Places(j, k, n - 1) => FrameAgrees(frames[k], j)
PassedAgree == \A b \in Branches : b < n => (passed[b] <=> Free(b))
InterpretedAgree == interpreted = {i \in 1..(n - 1) : HasCondition(i) /\ IsReached(i)}

\* The open calls before a line are as many as the open blocks.
LEMMA FramesAreDepth ==
  ASSUME Laid, Nested, n <= Len(tlcs)
  PROVE  /\ n \in 1..Len(tlcs) /\ n \in Nat /\ Len(tlcs) \in Nat
         /\ frames \in Seq(Frame) /\ Len(frames) = Depth(n - 1) /\ Depth(n - 1) \in Nat
         /\ \A k \in 1..Len(frames) : \E j \in 1..(n - 1) : Places(j, k, n - 1)
<1>1. n \in 1..Len(tlcs) /\ n \in Nat /\ Len(tlcs) \in Nat /\ n - 1 \in 0..Len(tlcs) /\ (n - 1) + 1 = n
  BY Depths DEF Nested
<1>2. Len(trace[n]) = Depth(n - 1) /\ Depth(n - 1) \in Nat
  <2>1. Depth(n - 1) = Len(trace[(n - 1) + 1])
    BY <1>1 DEF Laid, Deep
  <2> QED
    BY <1>1, <2>1, Depths
<1>3. frames \in Seq(Frame) /\ Len(frames) = Len(trace[n])
  BY DEF Nested
<1>4. \A k \in 1..Len(trace[(n - 1) + 1]) : \E j \in 1..(n - 1) : Places(j, k, n - 1)
  BY <1>1 DEF Laid, Levels
<1> QED
  BY <1>1, <1>2, <1>3, <1>4

\* One step of the walk, from what it does with the frame of its line.
LEMMA LineAgrees ==
  ASSUME Laid, Nested, n <= Len(tlcs), FramesAgree, PassedAgree, InterpretedAgree, passed \in Results,
         tlcs' = tlcs, truth' = truth, n' = n + 1,
         frames' \in Seq(Frame), Len(frames') = Depth(n),
         \A k \in 1..Len(frames') : k < Depth(n) \/ tlcs[n].type \in Closers => k \in 1..Len(frames) /\ frames'[k] = frames[k],
         tlcs[n].type \notin Closers => FrameAgrees(frames'[Depth(n)], n),
         \A b \in 1..Len(tlcs) : b < n => passed'[b] = passed[b],
         n \in Branches => (passed'[n] <=> Free(n)),
         interpreted' = IF HasCondition(n) /\ IsReached(n) THEN interpreted \union {n} ELSE interpreted
  PROVE  FramesAgree' /\ PassedAgree' /\ InterpretedAgree'
<1>1. n \in 1..Len(tlcs) /\ n \in Nat /\ Len(tlcs) \in Nat /\ Depth(n) \in Nat /\ n' - 1 = n
  BY FramesAreDepth, Depths
<1>2. ASSUME NEW k \in 1..Len(frames'), NEW j \in 1..n, Places(j, k, n)
      PROVE  FrameAgrees(frames'[k], j)
  <2>1. k \in Nat /\ k <= Depth(n)
    BY <1>1
  <2>2. CASE k < Depth(n) \/ tlcs[n].type \in Closers
    <3>1. k \in 1..Len(frames) /\ frames'[k] = frames[k]
      BY <2>2
    <3>2. Places(j, k, n - 1)
      BY <1>1, <1>2, <2>1, <2>2, LineIsTop
    <3>3. j \in 1..(n - 1)
      BY <3>2 DEF Places
    <3> QED
      BY <3>1, <3>2, <3>3 DEF FramesAgree
  <2>3. CASE k = Depth(n) /\ tlcs[n].type \notin Closers
    <3>1. j = n
      BY <1>1, <1>2, <2>3, LineIsTop
    <3> QED
      BY <2>3, <3>1
  <2> QED
    BY <1>1, <2>1, <2>2, <2>3
<1>3. ASSUME NEW b \in Branches, b < n + 1 PROVE passed'[b] <=> Free(b)
  <2>1. b \in 1..Len(tlcs)
    BY DEF Branches
  <2>2. b < n \/ b = n
    BY <1>1, <1>3, <2>1
  <2> QED
    BY <2>1, <2>2 DEF PassedAgree
<1>4. interpreted' = {i \in 1..n : HasCondition(i) /\ IsReached(i)}
  <2>1. \A i \in 1..n : i \in 1..(n - 1) \/ i = n
    BY <1>1
  <2>2. 1..(n - 1) \subseteq 1..n /\ n \in 1..n
    BY <1>1
  <2> QED
    BY <2>1, <2>2 DEF InterpretedAgree
<1>5. FramesAgree'
  <2> SUFFICES ASSUME NEW k \in 1..Len(frames'), NEW j \in 1..(n' - 1), Places(j, k, n - 1)'
               PROVE  FrameAgrees(frames[k], j)'
    BY DEF FramesAgree
  <2>1. \A i : Depth(i)' = Depth(i)
    BY SameLines
  <2>2. Places(j, k, n)
    BY <1>1, <2>1 DEF Places
  <2>3. FrameAgrees(frames'[k], j)
    BY <1>1, <1>2, <2>2
  <2>4. (Free(j)' <=> Free(j)) /\ (ParentFree(j)' <=> ParentFree(j)) /\ Tried(j)' = Tried(j) /\ \A c : Holds(c)' <=> Holds(c)
    BY SameLines
  <2> QED
    BY <2>3, <2>4 DEF FrameAgrees
<1>6. PassedAgree'
  BY <1>3, SameLines DEF PassedAgree
<1>7. InterpretedAgree'
  BY <1>1, <1>4, SameLines DEF InterpretedAgree
<1> QED
  BY <1>5, <1>6, <1>7

\* A block is opened.
LEMMA OpenAgrees ==
  ASSUME IInv, Laid, phase = "testing", FramesAgree, PassedAgree, InterpretedAgree, passed \in Results, TestOpen
  PROVE  FramesAgree' /\ PassedAgree' /\ InterpretedAgree'
<1> DEFINE parentOk == frames = <<>> \/ Last(frames).ok
           ok == parentOk /\ IsTrue(n)
           f == [block |-> tlcs[n].type, parentOk |-> parentOk, ok |-> ok, allPrevFailed |-> ~ok]
<1>1. /\ tlcs[n].type \in Openers /\ n <= Len(tlcs) /\ n' = n + 1 /\ tlcs' = tlcs /\ truth' = truth
      /\ frames' = Append(frames, f) /\ passed' = [passed EXCEPT ![n] = ok]
      /\ interpreted' = IF parentOk THEN interpreted \union {n} ELSE interpreted
  BY DEF TestOpen, source, search
<1>2. Nested
  BY DEF IInv
<1>3. /\ n \in 1..Len(tlcs) /\ n \in Nat /\ Len(tlcs) \in Nat
      /\ frames \in Seq(Frame) /\ Len(frames) = Depth(n - 1) /\ Depth(n - 1) \in Nat
      /\ \A k \in 1..Len(frames) : \E j \in 1..(n - 1) : Places(j, k, n - 1)
  BY <1>1, <1>2, FramesAreDepth
<1>4. Depth(n) = Depth(n - 1) + 1 /\ tlcs[n].type \notin Closers
  BY <1>1, <1>3, Depths DEF Openers, Closers
<1>5. parentOk <=> ParentFree(n)
  <2>1. CASE frames = <<>>
    <3>1. Depth(n) = 1
      BY <1>3, <1>4, <2>1
    <3> QED
      BY <1>3, <1>4, <2>1, <3>1, ParentIs
  <2>2. CASE frames # <<>>
    <3>1. Len(frames) \in 1..Len(frames) /\ Last(frames) = frames[Len(frames)] /\ Len(frames) = Depth(n) - 1
      BY <1>3, <1>4, <2>2 DEF Last
    <3>2. PICK p \in 1..(n - 1) : Places(p, Len(frames), n - 1)
      BY <1>3, <3>1
    <3>3. Last(frames).ok <=> Free(p)
      BY <3>1, <3>2 DEF FramesAgree, FrameAgrees
    <3>4. ParentFree(n) <=> Free(p)
      BY <1>3, <1>4, <3>1, <3>2, ParentIs
    <3> QED
      BY <2>2, <3>3, <3>4
  <2> QED
    BY <2>1, <2>2
<1>6. Before(n) = {} /\ Tried(n) = IF n \in Branches THEN {n} ELSE {}
  BY <1>1, <1>3, <1>4, BeforeLine
<1>7. (ok <=> Free(n)) /\ (parentOk => (~ok <=> \A c \in Tried(n) : ~Holds(c)))
  <2>1. CASE tlcs[n].type = "If"
    <3>1. n \in Branches
      BY <1>3, <2>1 DEF Branches, Closers
    <3>2. Holds(n) <=> IsTrue(n)
      BY <2>1, <3>1, LineHolds
    <3>3. Chosen(n) <=> Holds(n)
      BY <1>6 DEF Chosen
    <3> QED
      BY <1>5, <1>6, <3>1, <3>2, <3>3, FreeLine
  <2>2. CASE tlcs[n].type = "Switch"
    <3>1. n \notin Branches /\ ~IsTrue(n)
      BY <2>2 DEF Branches, IsTrue
    <3>2. ~Free(n)
      BY <1>3, <2>2, SwitchIsNotFree
    <3> QED
      BY <1>6, <3>1, <3>2
  <2> QED
    BY <1>1, <2>1, <2>2 DEF Openers
<1>8. IsReached(n) <=> parentOk
  BY <1>3, <1>4, <1>5, <1>6, ReachedLine
<1>9. HasCondition(n)
  BY <1>1 DEF HasCondition
<1>10. parentOk \in BOOLEAN /\ ok \in BOOLEAN
  OBVIOUS
<1> HIDE DEF parentOk, ok
<1>11. f \in Frame /\ f.ok = ok /\ f.parentOk = parentOk /\ f.allPrevFailed = ~ok
  BY <1>1, <1>10, Zenon DEF Frame
<1> HIDE DEF f
<1>12. FrameAgrees(f, n)
  BY <1>5, <1>7, <1>10, <1>11 DEF FrameAgrees
<1>13. /\ frames' \in Seq(Frame) /\ Len(frames') = Depth(n) /\ frames'[Depth(n)] = f
       /\ \A k \in 1..Len(frames') : k < Depth(n) => k \in 1..Len(frames) /\ frames'[k] = frames[k]
  BY <1>1, <1>3, <1>4, <1>11
<1>14. /\ \A b \in 1..Len(tlcs) : b < n => passed'[b] = passed[b]
       /\ passed'[n] = ok
  BY <1>1, <1>3 DEF Results
<1>15. interpreted' = IF HasCondition(n) /\ IsReached(n) THEN interpreted \union {n} ELSE interpreted
  BY <1>1, <1>8, <1>9
<1> QED
  BY <1>1, <1>2, <1>4, <1>7, <1>12, <1>13, <1>14, <1>15, LineAgrees

\* A block is closed.
LEMMA CloseAgrees ==
  ASSUME IInv, Laid, phase = "testing", FramesAgree, PassedAgree, InterpretedAgree, passed \in Results, TestClose
  PROVE  FramesAgree' /\ PassedAgree' /\ InterpretedAgree'
<1>1. /\ tlcs[n].type \in Closers /\ n <= Len(tlcs) /\ tlcs' = tlcs /\ truth' = truth
      /\ passed' = passed /\ interpreted' = interpreted /\ phase' = "testing"
  <2>1. phase' = "testing"
    BY WalkKeeps
  <2> QED
    BY <2>1 DEF TestClose, source, search
<1>2. Nested
  BY DEF IInv
<1>3. /\ n \in 1..Len(tlcs) /\ n \in Nat /\ Len(tlcs) \in Nat
      /\ frames \in Seq(Frame) /\ Len(frames) = Depth(n - 1) /\ Depth(n - 1) \in Nat
  BY <1>1, <1>2, FramesAreDepth
<1>4. frames # <<>> /\ frames' = Front(frames) /\ n' = n + 1
  BY <1>1 DEF TestClose
<1>5. Depth(n) = Depth(n - 1) - 1
  BY <1>1, <1>3, Depths
<1>6. /\ frames' \in Seq(Frame) /\ Len(frames') = Depth(n)
      /\ \A k \in 1..Len(frames') : k \in 1..Len(frames) /\ frames'[k] = frames[k]
  <2>1. /\ Front(frames) \in Seq(Frame) /\ Len(Front(frames)) = Len(frames) - 1
        /\ \A k \in 1..(Len(frames) - 1) : Front(frames)[k] = frames[k]
    BY <1>3, <1>4, FrontFacts
  <2> QED
    BY <1>3, <1>4, <1>5, <2>1
<1>7. n \notin Branches /\ ~HasCondition(n)
  BY <1>1 DEF Branches, HasCondition, Openers, Closers
<1> QED
  BY <1>1, <1>2, <1>4, <1>6, <1>7, LineAgrees

\* A branch of the block that was opened last.
LEMMA BranchAgrees ==
  ASSUME IInv, Laid, phase = "testing", FramesAgree, PassedAgree, InterpretedAgree, passed \in Results, TestBranch
  PROVE  FramesAgree' /\ PassedAgree' /\ InterpretedAgree'
<1> DEFINE f == Last(frames)
           isElse == tlcs[n].type \in {"Else", "Default"}
           ok == Reached(f) /\ (isElse \/ IsTrue(n))
<1>1. /\ tlcs[n].type \notin Openers \union Closers /\ n <= Len(tlcs) /\ tlcs' = tlcs /\ truth' = truth
  BY DEF TestBranch, source, search
<1>2. Nested /\ phase' = "testing"
  BY WalkKeeps DEF IInv
<1>3. /\ frames # <<>> /\ frames' = Append(Front(frames), Branch(f, ok)) /\ n' = n + 1
      /\ passed' = [passed EXCEPT ![n] = ok]
      /\ interpreted' = IF Reached(f) /\ ~isElse THEN interpreted \union {n} ELSE interpreted
  <2>1. frames # <<>>
    BY <1>2, Zenon DEF TestBranch
  <2> QED
    BY <2>1, Zenon DEF TestBranch
<1>4. /\ n \in 1..Len(tlcs) /\ n \in Nat /\ Len(tlcs) \in Nat /\ n \in Branches
      /\ frames \in Seq(Frame) /\ Len(frames) = Depth(n - 1) /\ Depth(n - 1) \in Nat
      /\ \A k \in 1..Len(frames) : \E j \in 1..(n - 1) : Places(j, k, n - 1)
  <2>1. n \in 1..Len(tlcs) => n \in Branches
    BY <1>1 DEF Branches, Openers
  <2> QED
    BY <1>1, <1>2, <2>1, FramesAreDepth
<1>5. Depth(n) = Depth(n - 1) /\ Depth(n) \in Nat /\ Depth(n) \in 1..Len(frames) /\ f = frames[Depth(n)] /\ f \in Frame
  BY <1>1, <1>3, <1>4, Depths DEF Last
<1>6. PICK j \in 1..(n - 1) : Places(j, Depth(n), n - 1)
  BY <1>4, <1>5
<1>7. FrameAgrees(f, j)
  BY <1>5, <1>6 DEF FramesAgree
<1>8. ParentFree(n) <=> ParentFree(j)
  <2>1. n - 1 \in 1..Len(tlcs)
    BY <1>4, <1>6
  <2>2. \A p : Places(p, Depth(n) - 1, n - 1) <=> Places(p, Depth(j) - 1, j - 1)
    BY <1>6, <2>1, ParentStays
  <2>3. \A p, k, i : Places(p, k, i) => p \in 1..i
    BY DEF Places
  <2> QED
    BY <2>2, <2>3 DEF ParentFree
<1>9. Before(n) = Tried(j) /\ Tried(n) = Before(n) \union {n}
  BY <1>1, <1>4, <1>6, BeforeLine
<1>10. Reached(f) <=> ParentFree(n) /\ \A c \in Before(n) : ~Holds(c)
  BY <1>7, <1>8, <1>9 DEF FrameAgrees, Reached
<1>11. Holds(n) <=> isElse \/ IsTrue(n)
  BY <1>4, LineHolds
<1>12. ok <=> Free(n)
  BY <1>4, <1>10, <1>11, FreeLine DEF Chosen
<1>13. IsReached(n) <=> Reached(f)
  BY <1>1, <1>4, <1>10, ReachedLine
<1>14. HasCondition(n) <=> ~isElse
  <2>1. tlcs[n].type \in Types
    BY <1>4, Depths
  <2> QED
    BY <1>1, <2>1 DEF HasCondition, Types, Openers, Closers
<1>15. ok \in BOOLEAN /\ f.allPrevFailed \in BOOLEAN /\ f.parentOk \in BOOLEAN
  BY <1>5 DEF Reached, Frame
<1>16. f.parentOk => (f.allPrevFailed /\ ~ok <=> \A c \in Tried(n) : ~Holds(c))
  BY <1>7, <1>8, <1>9, <1>10, <1>11 DEF FrameAgrees, Reached
<1>17. f.parentOk <=> ParentFree(n)
  BY <1>7, <1>8 DEF FrameAgrees
<1> DEFINE g == Branch(f, ok)
<1>18. g \in Frame /\ g.ok = ok /\ g.parentOk = f.parentOk /\ g.allPrevFailed = (f.allPrevFailed /\ ~ok)
  <2> HIDE DEF f, ok
  <2> DEFINE a == f.allPrevFailed /\ ~ok
  <2>1. g = [f EXCEPT !.ok = ok, !.allPrevFailed = a]
    BY <1>5 DEF Branch, Frame
  <2>2. a \in BOOLEAN
    OBVIOUS
  <2> HIDE DEF a
  <2>3. /\ [f EXCEPT !.ok = ok, !.allPrevFailed = a] \in Frame
        /\ [f EXCEPT !.ok = ok, !.allPrevFailed = a].ok = ok
        /\ [f EXCEPT !.ok = ok, !.allPrevFailed = a].parentOk = f.parentOk
        /\ [f EXCEPT !.ok = ok, !.allPrevFailed = a].allPrevFailed = a
    BY <1>5, <1>15, <2>2 DEF Frame
  <2> QED
    BY <2>1, <2>3 DEF a
<1>19. frames' = Append(Front(frames), g)
  BY <1>3
<1> HIDE DEF g, ok, f
<1>20. FrameAgrees(g, n)
  BY <1>12, <1>15, <1>16, <1>17, <1>18 DEF FrameAgrees
<1>21. /\ frames' \in Seq(Frame) /\ Len(frames') = Depth(n) /\ frames'[Depth(n)] = g
       /\ \A k \in 1..Len(frames') : k < Depth(n) => k \in 1..Len(frames) /\ frames'[k] = frames[k]
  <2>1. /\ Front(frames) \in Seq(Frame) /\ Len(Front(frames)) = Len(frames) - 1
        /\ \A k \in 1..(Len(frames) - 1) : Front(frames)[k] = frames[k]
    BY <1>3, <1>4, FrontFacts
  <2> QED
    BY <1>4, <1>5, <1>18, <1>19, <2>1
<1>22. /\ \A b \in 1..Len(tlcs) : b < n => passed'[b] = passed[b]
       /\ passed'[n] = ok
  BY <1>3, <1>4 DEF Results
<1>23. interpreted' = IF HasCondition(n) /\ IsReached(n) THEN interpreted \union {n} ELSE interpreted
  BY <1>3, <1>13, <1>14
<1> QED
  BY <1>1, <1>2, <1>3, <1>12, <1>20, <1>21, <1>22, <1>23, LineAgrees

-------------------------------------------------------------------------------
(* The compiler keeps count.                                               *)

\* The node at the top of the stack after a line that opens a block or goes on with one.
LEMMA TopNode ==
  ASSUME NEW s \in Seq(Node), NEW type \in Types, NEW id \in Nat, Fits(type, s),
         NEW t \in Seq(Node), t = StackAfter(s, type, id), type \notin Closers
  PROVE  t[Len(t)].id = IF type = "Switch" THEN NoTLCS ELSE id
<1>1. CASE type \in Openers
  BY <1>1 DEF StackAfter, Openers
<1>2. CASE type \notin Openers
  <2>1. s # <<>> /\ t = Append(Front(s), [id |-> id, type |-> type])
    BY <1>2 DEF StackAfter, Openers, Closers, Fits, Types
  <2>2. Front(s) \in Seq(Node)
    BY <2>1, FrontFacts
  <2> QED
    BY <1>2, <2>1, <2>2 DEF Openers
<1> QED
  BY <1>1, <1>2

\* A line that is accepted leaves the lines before it, and counts with the stack.
LEMMA AcceptDepths ==
  ASSUME IInv, Laid, NEW line \in Lines, Accept(line), NEW l, l = Len(tlcs)
  PROVE  LET type == line.type
         IN  /\ l \in Nat /\ Len(tlcs') = l + 1 /\ type \in Types /\ tlcs'[l + 1].type = type
             /\ \A i \in 1..l : tlcs'[i] = tlcs[i]
             /\ \A i \in 0..l : trace'[i + 1] = trace[i + 1] /\ Depth(i)' = Depth(i) /\ Depth(i) \in Nat
             /\ trace' # <<>> /\ stack \in Seq(Node) /\ stack' \in Seq(Node) /\ Fits(type, stack)
             /\ stack = trace[l + 1] /\ stack' = trace'[l + 2] /\ stack' = StackAfter(stack, type, l + 1)
             /\ Len(stack) = Depth(l) /\ Len(stack') \in Nat /\ Depth(l + 1)' = Len(stack')
<1> DEFINE type == line.type
<1>1. Compiled /\ Compiled'
  BY AcceptKeeps DEF IInv
<1>2. /\ l \in Nat /\ trace \in Seq(Seq(Node)) /\ Len(trace) = l + 1
      /\ trace' \in Seq(Seq(Node)) /\ Len(trace') = Len(tlcs') + 1
      /\ type \in Types /\ Len(tlcs') = l + 1 /\ Len(trace') = l + 2
      /\ tlcs'[l + 1].type = type /\ (\A i \in 1..l : tlcs'[i] = tlcs[i])
      /\ (\A i \in 1..(l + 1) : trace'[i] = trace[i])
  <2>1. l \in Nat /\ trace \in Seq(Seq(Node)) /\ Len(trace) = l + 1 /\ tlcs \in Seq(TLCS)
    BY <1>1 DEF Compiled
  <2>2. trace' \in Seq(Seq(Node)) /\ Len(trace') = Len(tlcs') + 1
    BY <1>1 DEF Compiled
  <2>3. type \in Types
    BY DEF Lines
  <2>4. PICK tl, st : tlcs' = Append(tlcs, tl) /\ tl.type = type /\ trace' = Append(trace, st)
    BY DEF Accept
  <2> QED
    BY <2>1, <2>2, <2>3, <2>4
<1>3. stack = trace[l + 1] /\ stack' = trace'[l + 2] /\ stack \in Seq(Node) /\ stack' \in Seq(Node) /\ trace' # <<>>
  BY <1>2 DEF stack, Last
<1>4. Fits(type, stack) /\ stack' = StackAfter(stack, type, l + 1)
  <2>1. Fits(tlcs'[l + 1].type, trace'[l + 1]) /\ trace'[l + 2] = StackAfter(trace'[l + 1], tlcs'[l + 1].type, l + 1)
    <3>1. l + 1 \in 1..Len(tlcs') /\ (l + 1) + 1 = l + 2
      BY <1>2
    <3>2. /\ Fits(tlcs'[l + 1].type, trace'[l + 1])
          /\ trace'[(l + 1) + 1] = StackAfter(trace'[l + 1], tlcs'[l + 1].type, l + 1)
      BY <1>1, <3>1 DEF Compiled
    <3> QED
      BY <3>1, <3>2
  <2>2. l + 1 \in 1..(l + 1)
    BY <1>2
  <2> QED
    BY <1>2, <1>3, <2>1, <2>2
<1>5. \A i \in 0..l : Depth(i)' = Depth(i) /\ Depth(i) \in Nat
  <2> SUFFICES ASSUME NEW i \in 0..l PROVE Depth(i)' = Depth(i)
    BY Depths
  <2>1. \A k \in 1..i : tlcs'[k] = tlcs[k]
    BY <1>2
  <2>2. /\ {k \in 1..i : tlcs'[k].type \in Openers} = {k \in 1..i : tlcs[k].type \in Openers}
        /\ {k \in 1..i : tlcs'[k].type \in Closers} = {k \in 1..i : tlcs[k].type \in Closers}
    BY <2>1
  <2> QED
    BY <2>2 DEF Depth
<1>6. Len(stack) = Depth(l)
  BY <1>2, <1>3 DEF Laid, Deep
<1>7. Depth(l + 1)' = Depth(l) + IF type \in Openers THEN 1 ELSE IF type \in Closers THEN 0 - 1 ELSE 0
  <2>1. \A i \in Nat : Depth(i)' = DepthOf(tlcs', i)
    BY DEF Depth, LinesOf, DepthOf
  <2>2. l \in 0..l /\ l + 1 \in Nat
    BY <1>2
  <2>3. DepthOf(tlcs', l + 1) = DepthOf(tlcs', l) + IF tlcs'[l + 1].type \in Openers THEN 1
                                                    ELSE IF tlcs'[l + 1].type \in Closers THEN 0 - 1 ELSE 0
    BY <1>2, DepthOfSteps
  <2>4. Depth(l + 1)' = DepthOf(tlcs', l + 1) /\ Depth(l)' = DepthOf(tlcs', l) /\ Depth(l)' = Depth(l)
    BY <1>2, <1>5, <2>1, <2>2
  <2> QED
    BY <1>2, <2>3, <2>4
<1>8. Depth(l + 1)' = Len(stack') /\ Len(stack') \in Nat
  <2>1. /\ type \in Openers => Len(stack') = Len(stack) + 1
        /\ type \in Closers => Len(stack') = Len(stack) - 1
        /\ type \notin Openers \union Closers => Len(stack') = Len(stack)
    BY <1>2, <1>3, <1>4, StackBlocks
  <2>2. ~(type \in Openers /\ type \in Closers)
    BY DEF Openers, Closers
  <2> QED
    BY <1>3, <1>6, <1>7, <2>1, <2>2
<1> QED
  BY <1>2, <1>3, <1>4, <1>5, <1>6, <1>8

\* The switches that are open lie one inside the other, and the innermost is the block of a Case.
LEMMA InnermostSwitch ==
  ASSUME Laid, Arguments, Switched
  PROVE  /\ \A m \in 1..Len(switches) : \A i \in (m + 1)..Len(switches) : Depth(switches[m]) < Depth(switches[i])
         /\ \A m \in 1..Len(switches) : Depth(switches[m]) \in 1..Len(stack)
         /\ stack # <<>> /\ BlockOf(stack[Len(stack)].type) = "Switch" =>
              switches # <<>> /\ Depth(switches[Len(switches)]) = Len(stack)
<1>1. /\ Len(tlcs) \in Nat /\ (\A i \in 0..Len(tlcs) : Depth(i) \in Nat) /\ Len(switches) \in Nat
      /\ \A i \in 1..Len(tlcs) : tlcs[i].type = "Switch" => Depth(i) = Depth(i - 1) + 1 /\ Depth(i) >= 1
  BY Depths DEF Switched, Openers, Closers
<1>2. /\ stack \in Seq(Node) /\ Len(stack) = Depth(Len(tlcs))
  <2>1. trace \in Seq(Seq(Node)) /\ Len(trace) = Len(tlcs) + 1
    BY DEF Laid, Compiled
  <2>2. stack = trace[Len(tlcs) + 1] /\ stack \in Seq(Node)
    BY <1>1, <2>1 DEF stack, Last
  <2> QED
    BY <1>1, <2>2 DEF Laid, Deep
<1>3. \A m \in 1..Len(switches) : /\ switches[m] \in 1..Len(tlcs) /\ Len(tlcs) \in switches[m]..Len(tlcs)
                                  /\ tlcs[switches[m]].type = "Switch"
                                  /\ \A i \in switches[m]..Len(tlcs) : Depth(i) >= Depth(switches[m])
  BY <1>1 DEF Arguments
<1>4. ASSUME NEW m \in 1..Len(switches), NEW i \in (m + 1)..Len(switches)
      PROVE  Depth(switches[m]) < Depth(switches[i])
  <2>1. i \in 1..Len(switches) /\ m < i
    BY <1>1
  <2>2. switches[m] < switches[i]
    BY <2>1 DEF Arguments
  <2>3. switches[i] - 1 \in switches[m]..Len(tlcs)
    BY <1>3, <2>1, <2>2
  <2>4. Depth(switches[i] - 1) >= Depth(switches[m])
    BY <1>3, <2>3
  <2>5. switches[i] \in 1..Len(tlcs) /\ tlcs[switches[i]].type = "Switch"
    BY <1>3, <2>1
  <2>6. Depth(switches[i]) = Depth(switches[i] - 1) + 1
    BY <1>1, <2>5
  <2>7. Depth(switches[m]) \in Nat /\ Depth(switches[i] - 1) \in Nat
    BY <1>1, <1>3, <2>3
  <2> QED
    BY <2>4, <2>6, <2>7
<1>5. ASSUME NEW m \in 1..Len(switches) PROVE Depth(switches[m]) \in 1..Len(stack)
  <2> DEFINE s == switches[m]
  <2>1. s \in 1..Len(tlcs) /\ tlcs[s].type = "Switch" /\ Depth(Len(tlcs)) >= Depth(s)
    BY <1>3
  <2> HIDE DEF s
  <2>2. Depth(s) \in Nat /\ Depth(s) >= 1 /\ Depth(Len(tlcs)) \in Nat
    BY <1>1, <2>1
  <2>3. Depth(s) \in 1..Len(stack)
    BY <1>2, <2>1, <2>2
  <2> QED
    BY <2>3 DEF s
<1>6. ASSUME stack # <<>>, BlockOf(stack[Len(stack)].type) = "Switch"
      PROVE  switches # <<>> /\ Depth(switches[Len(switches)]) = Len(stack)
  <2>1. Len(stack) \in 1..Len(stack)
    BY <1>2, <1>6
  <2>2. PICK m \in 1..Len(switches) : Depth(switches[m]) = Len(stack)
    BY <1>6, <2>1 DEF Arguments
  <2>3. Len(switches) \in 1..Len(switches)
    BY <1>1
  <2>4. CASE m # Len(switches)
    <3>1. Len(switches) \in (m + 1)..Len(switches)
      BY <1>1, <2>4
    <3>2. Depth(switches[m]) < Depth(switches[Len(switches)])
      BY <1>4, <3>1
    <3>3. Depth(switches[Len(switches)]) \in 1..Len(stack)
      BY <1>5, <2>3
    <3> QED
      BY <2>1, <2>2, <3>2, <3>3
  <2> QED
    BY <2>2, <2>4
<1> QED
  BY <1>4, <1>5, <1>6

\* What is said of the lines before stays when one is accepted.
LEMMA AcceptStays ==
  ASSUME IInv, Laid, NEW line \in Lines, Accept(line), NEW l, l = Len(tlcs)
  PROVE  /\ \A i \in 0..l : \A j, k : Places(j, k, i)' <=> Places(j, k, i)
         /\ \A i, j \in 1..l : SameBlock(i, j)' <=> SameBlock(i, j)
<1>1. /\ l \in Nat /\ (\A i \in 1..l : tlcs'[i] = tlcs[i]) /\ \A i \in 0..l : Depth(i)' = Depth(i)
  BY AcceptDepths
<1>2. ASSUME NEW i \in 0..l, NEW j, NEW k PROVE Places(j, k, i)' <=> Places(j, k, i)
  <2>1. ASSUME j \in 1..i
        PROVE  /\ \A m \in j..i : m \in 1..l /\ m \in 0..l
               /\ \A m \in (j + 1)..i : m \in 1..l /\ m \in 0..l
    BY <1>1, <2>1
  <2>2. ASSUME j \in 1..i PROVE j \in 1..l /\ j \in 0..l
    BY <1>1, <2>2
  <2> QED
    BY <1>1, <2>1, <2>2 DEF Places
<1>3. ASSUME NEW i \in 1..l, NEW j \in 1..l PROVE SameBlock(i, j)' <=> SameBlock(i, j)
  <2>1. (\A m \in i..j : m \in 0..l) /\ i \in 0..l /\ j \in 0..l
    BY <1>1
  <2> QED
    BY <1>1, <2>1 DEF SameBlock
<1> QED
  BY <1>2, <1>3

\* The levels of the stack are the blocks that are open, after the new line too.
LEMMA AcceptLevels ==
  ASSUME IInv, Laid, NEW line \in Lines, Accept(line), NEW l, l = Len(tlcs),
         NEW id, id = l + 1, NEW type, type = line.type
  PROVE  Deep' /\ Levels'
<1>1. /\ l \in Nat /\ Len(tlcs') = id /\ type \in Types /\ tlcs'[id].type = type
      /\ \A i \in 1..l : tlcs'[i] = tlcs[i]
      /\ \A i \in 0..l : trace'[i + 1] = trace[i + 1] /\ Depth(i)' = Depth(i) /\ Depth(i) \in Nat
      /\ stack \in Seq(Node) /\ stack' \in Seq(Node) /\ Fits(type, stack)
      /\ stack = trace[l + 1] /\ stack' = trace'[id + 1] /\ stack' = StackAfter(stack, type, id)
      /\ Len(stack) = Depth(l) /\ Len(stack') \in Nat /\ Depth(id)' = Len(stack')
      /\ id \in Nat /\ l \in 0..l /\ l \in 0..Len(tlcs)
  BY AcceptDepths
<1>0. /\ type \in Openers => /\ stack'[Len(stack')].type = type
                             /\ Len(stack') = Len(stack) + 1
                             /\ \A m \in 1..Len(stack) : stack'[m] = stack[m]
      /\ type \in Closers => /\ Len(stack') = Len(stack) - 1
                             /\ \A m \in 1..Len(stack') : stack'[m] = stack[m]
      /\ type \notin Openers \union Closers => /\ stack'[Len(stack')].type = type
                                              /\ Len(stack') = Len(stack)
                                              /\ \A m \in 1..(Len(stack) - 1) : stack'[m] = stack[m]
      /\ ~(type \in Openers /\ type \in Closers) /\ Len(stack) \in Nat
  <2>1. ~(type \in Openers /\ type \in Closers) /\ Len(stack) \in Nat
    BY <1>1 DEF Openers, Closers
  <2> DEFINE s == stack
             t == stack'
  <2>2. s \in Seq(Node) /\ t \in Seq(Node) /\ Fits(type, s) /\ t = StackAfter(s, type, id) /\ type \in Types /\ id \in Nat
    BY <1>1
  <2> HIDE DEF s, t
  <2>3. /\ type \in Openers => /\ t[Len(t)].type = type
                               /\ Len(t) = Len(s) + 1
                               /\ \A m \in 1..Len(s) : t[m] = s[m]
        /\ type \in Closers => /\ Len(t) = Len(s) - 1
                               /\ \A m \in 1..Len(t) : t[m] = s[m]
        /\ type \notin Openers \union Closers => /\ t[Len(t)].type = type
                                                /\ Len(t) = Len(s)
                                                /\ \A m \in 1..(Len(s) - 1) : t[m] = s[m]
    BY <2>2, StackBlocks
  <2> QED
    BY <2>1, <2>3 DEF s, t
<1>2. \A i \in 0..l : \A j, k : Places(j, k, i)' <=> Places(j, k, i)
  BY AcceptStays
<1>3. Deep'
  <2> SUFFICES ASSUME NEW i \in 0..id PROVE Depth(i)' = Len(trace'[i + 1])
    BY <1>1 DEF Deep
  <2>1. CASE i \in 0..l
    BY <1>1, <2>1 DEF Laid, Deep
  <2>2. CASE i = id
    BY <1>1, <2>2
  <2> QED
    BY <1>1, <2>1, <2>2
<1>4. ASSUME NEW i \in 0..id, NEW k \in 1..Len(trace'[i + 1])
      PROVE  \E j \in 1..i : /\ Places(j, k, i)'
                             /\ trace'[i + 1][k].type = tlcs'[j].type
                             /\ trace'[i + 1][k].id = IF tlcs'[j].type = "Switch" THEN NoTLCS ELSE j
  <2>1. CASE i \in 0..l
    <3>0. trace'[i + 1] = trace[i + 1] /\ k \in 1..Len(trace[i + 1]) /\ i \in 0..Len(tlcs)
      BY <1>1, <2>1
    <3>1. PICK j \in 1..i : /\ Places(j, k, i)
                            /\ trace[i + 1][k].type = tlcs[j].type
                            /\ trace[i + 1][k].id = IF tlcs[j].type = "Switch" THEN NoTLCS ELSE j
      BY <3>0 DEF Laid, Levels
    <3>2. tlcs'[j] = tlcs[j]
      BY <1>1, <2>1
    <3> QED
      BY <1>1, <1>2, <2>1, <3>0, <3>1, <3>2
  <2>2. CASE i = id /\ k = Len(stack') /\ type \notin Closers
    <3>1. Places(id, k, id)'
      BY <1>1, <2>2 DEF Places
    <3>2. trace'[i + 1][k].type = type
      BY <1>0, <1>1, <2>2
    <3>3. trace'[i + 1][k].id = IF type = "Switch" THEN NoTLCS ELSE id
      <4> DEFINE s == stack
                 t == stack'
      <4>1. /\ s \in Seq(Node) /\ t \in Seq(Node) /\ Fits(type, s) /\ t = StackAfter(s, type, id)
            /\ type \in Types /\ id \in Nat /\ type \notin Closers
        BY <1>1, <2>2
      <4>2. trace'[i + 1][k] = t[Len(t)]
        BY <1>1, <2>2
      <4> HIDE DEF s, t
      <4> QED
        BY <4>1, <4>2, TopNode
    <3> QED
      BY <1>1, <2>2, <3>1, <3>2, <3>3
  <2>3. CASE i = id /\ (k < Len(stack') \/ type \in Closers)
    <3>1. k \in 1..Len(stack) /\ stack'[k] = stack[k] /\ k <= Len(stack')
      <4> DEFINE s == stack
                 t == stack'
      <4>1. k \in 1..Len(t) /\ Len(t) \in Nat /\ Len(s) \in Nat /\ (k < Len(t) \/ type \in Closers)
        BY <1>0, <1>1, <2>3
      <4>2. /\ type \in Openers => Len(t) = Len(s) + 1 /\ \A m \in 1..Len(s) : t[m] = s[m]
            /\ type \in Closers => Len(t) = Len(s) - 1 /\ \A m \in 1..Len(t) : t[m] = s[m]
            /\ type \notin Openers \union Closers =>
                 Len(t) = Len(s) /\ \A m \in 1..(Len(s) - 1) : t[m] = s[m]
            /\ ~(type \in Openers /\ type \in Closers)
        BY <1>0
      <4> HIDE DEF s, t
      <4>6. k \in 1..Len(s) /\ t[k] = s[k] /\ k <= Len(t)
        <5>1. CASE type \in Openers
          BY <4>1, <4>2, <5>1
        <5>2. CASE type \in Closers
          BY <4>1, <4>2, <5>2
        <5>3. CASE type \notin Openers \union Closers
          BY <4>1, <4>2, <5>3
        <5> QED
          BY <5>1, <5>2, <5>3
      <4> QED
        BY <4>6 DEF s, t
    <3>2. PICK j \in 1..l : /\ Places(j, k, l)
                            /\ stack[k].type = tlcs[j].type
                            /\ stack[k].id = IF tlcs[j].type = "Switch" THEN NoTLCS ELSE j
      BY <1>1, <3>1 DEF Laid, Levels
    <3>3. Places(j, k, l)' /\ tlcs'[j] = tlcs[j]
      BY <1>1, <1>2, <3>2
    <3>4. Places(j, k, id)'
      <4>1. \A m \in j..id : m \in j..l \/ m = id
        BY <1>1
      <4>2. \A m \in (j + 1)..id : m \in (j + 1)..l \/ m = id
        BY <1>1
      <4>3. j \in 1..id
        BY <1>1
      <4>4. Depth(id)' >= k /\ (tlcs'[id].type \notin Closers => Depth(id)' # k)
        BY <1>1, <2>3, <3>1
      <4> QED
        BY <3>3, <4>1, <4>2, <4>3, <4>4 DEF Places
    <3>5. trace'[i + 1][k] = stack[k] /\ j \in 1..i /\ i = id
      <4>1. i = id /\ trace'[i + 1] = stack' /\ stack'[k] = stack[k]
        BY <1>1, <2>3, <3>1
      <4>2. j \in 1..id
        BY <1>1
      <4> QED
        BY <4>1, <4>2
    <3> QED
      BY <3>2, <3>3, <3>4, <3>5
  <2>4. i = id => k \in 1..Len(stack')
    BY <1>1
  <2> QED
    BY <1>1, <2>1, <2>2, <2>3, <2>4
<1>5. Levels'
  <2>1. Len(tlcs') = id
    BY <1>1
  <2>2. \A i \in 0..Len(tlcs') : \A k \in 1..Len(trace'[i + 1]) :
          \E j \in 1..i : /\ Places(j, k, i)'
                          /\ trace'[i + 1][k].type = tlcs'[j].type
                          /\ trace'[i + 1][k].id = IF tlcs'[j].type = "Switch" THEN NoTLCS ELSE j
    BY <1>4, <2>1
  <2> QED
    BY <2>2 DEF Levels
<1> QED
  BY <1>3, <1>5

\* The frame of a line that is accepted: what it does to the switches, and what stays in the stack.
LEMMA AcceptSwitches ==
  ASSUME IInv, Laid, Arguments, NEW line \in Lines, Accept(line), NEW l, l = Len(tlcs),
         NEW id, id = l + 1, NEW type, type = line.type
  PROVE  /\ switches' = SwitchesAfter(type, id)
         /\ tlcs'[id].arg = IF type = "Case" THEN Last(switches) ELSE NoTLCS
         /\ \A k \in 1..Len(stack) : k <= Len(stack') => BlockOf(stack'[k].type) = BlockOf(stack[k].type)
         /\ type \in Openers => Len(stack') = Len(stack) + 1 /\ stack'[Len(stack')].type = type
         /\ type \in Closers => Len(stack') = Len(stack) - 1
         /\ type \notin Openers \union Closers => Len(stack') = Len(stack)
         /\ type \notin Openers => stack # <<>> /\ BlockOf(stack[Len(stack)].type) = IF type \in {"Elsif", "Else", "Endif"} THEN "If" ELSE "Switch"
<1>1. /\ l \in Nat /\ id \in Nat /\ type \in Types /\ tlcs \in Seq(TLCS)
      /\ stack \in Seq(Node) /\ stack' \in Seq(Node) /\ Fits(type, stack) /\ stack' = StackAfter(stack, type, id)
  BY AcceptDepths DEF Laid, Compiled
<1>2. switches' = SwitchesAfter(type, id) /\ tlcs'[id].arg = IF type = "Case" THEN Last(switches) ELSE NoTLCS
  <2>1. PICK tl : tlcs' = Append(tlcs, tl) /\ tl.arg = IF line.type = "Case" THEN Last(switches) ELSE NoTLCS
    BY DEF Accept
  <2>2. switches' = SwitchesAfter(line.type, Len(tlcs) + 1)
    BY DEF Accept
  <2> QED
    BY <1>1, <2>1, <2>2
<1> DEFINE s == stack
           t == stack'
<1>3. s \in Seq(Node) /\ t \in Seq(Node) /\ Fits(type, s) /\ t = StackAfter(s, type, id)
  BY <1>1
<1> HIDE DEF s, t
<1>4. /\ type \in Openers => /\ Len(t) = Len(s) + 1
                             /\ \A k \in 1..Len(s) : t[k] = s[k]
                             /\ t[Len(t)].type = type
      /\ type \in Closers => /\ s # <<>> /\ Len(t) = Len(s) - 1
                             /\ \A k \in 1..Len(t) : t[k] = s[k]
      /\ type \notin Openers \union Closers => /\ s # <<>> /\ Len(t) = Len(s)
                                               /\ \A k \in 1..(Len(s) - 1) : t[k] = s[k]
                                               /\ t[Len(t)].type = type
      /\ Len(s) \in Nat /\ Len(t) \in Nat
  BY <1>1, <1>3, StackBlocks
<1>5. type \notin Openers => /\ s # <<>>
                             /\ BlockOf(s[Len(s)].type) = IF type \in {"Elsif", "Else", "Endif"} THEN "If" ELSE "Switch"
  BY <1>1, <1>3, <1>4 DEF Fits, BlockOf, Openers, Closers, Types
<1>6. ASSUME NEW k \in 1..Len(s), k <= Len(t) PROVE BlockOf(t[k].type) = BlockOf(s[k].type)
  <2>1. CASE type \in Openers \union Closers \/ k # Len(s)
    BY <1>4, <1>6, <2>1
  <2>2. CASE type \notin Openers \union Closers /\ k = Len(s)
    <3>1. BlockOf(type) = IF type \in {"Elsif", "Else"} THEN "If" ELSE "Switch"
      BY <1>1, <2>2 DEF BlockOf, Openers, Closers, Types
    <3>2. t[k].type = type
      BY <1>4, <2>2
    <3> QED
      BY <1>4, <1>5, <2>2, <3>1, <3>2 DEF Openers, Closers
  <2> QED
    BY <2>1, <2>2
<1>7. ~(type \in Openers /\ type \in Closers)
  BY DEF Openers, Closers
<1> QED
  BY <1>2, <1>4, <1>5, <1>6, <1>7 DEF s, t

\* A Case that is accepted belongs to the switch of its block.
LEMMA AcceptCaseArgs ==
  ASSUME IInv, Laid, Arguments, NEW line \in Lines, Accept(line)
  PROVE  CaseArgs'
<1> SUFFICES ASSUME NEW l, l = Len(tlcs), NEW id, id = l + 1, NEW type, type = line.type PROVE CaseArgs'
  OBVIOUS
<1>1. /\ l \in Nat /\ Len(tlcs') = id /\ tlcs'[id].type = type
      /\ \A i \in 1..l : tlcs'[i] = tlcs[i]
      /\ \A i \in 0..l : Depth(i)' = Depth(i) /\ Depth(i) \in Nat
      /\ Len(stack) = Depth(l) /\ Len(stack') \in Nat /\ Depth(id)' = Len(stack')
  BY AcceptDepths
<1>2. \A i, j \in 1..l : SameBlock(i, j)' <=> SameBlock(i, j)
  BY AcceptStays
<1>3. ASSUME NEW b \in 1..id, NEW a, tlcs'[b].type = "Case", a = tlcs'[b].arg
      PROVE  a \in 1..b /\ tlcs'[a].type = "Switch" /\ SameBlock(a, b)'
  <2>1. CASE b \in 1..l
    <3>1. a \in 1..b /\ tlcs[a].type = "Switch" /\ SameBlock(a, b)
      BY <1>1, <1>3, <2>1 DEF Laid, CaseArgs
    <3>2. a \in 1..l
      BY <1>1, <2>1, <3>1
    <3> QED
      BY <1>1, <1>2, <2>1, <3>1, <3>2
  <2>2. CASE b = id
    <3>1. type = "Case" /\ a = Last(switches)
      BY <1>1, <1>3, <2>2, AcceptSwitches
    <3>2. /\ stack # <<>> /\ BlockOf(stack[Len(stack)].type) = "Switch" /\ Len(stack') = Len(stack)
      BY <3>1, AcceptSwitches DEF Openers, Closers
    <3>3. switches # <<>> /\ Depth(switches[Len(switches)]) = Len(stack)
      BY <3>2, InnermostSwitch DEF IInv
    <3>4. a = switches[Len(switches)] /\ Len(switches) \in 1..Len(switches)
      BY <3>1, <3>3 DEF IInv, Switched, Last
    <3>5. a \in 1..l /\ tlcs[a].type = "Switch" /\ \A i \in a..l : Depth(i) >= Depth(a)
      BY <3>4 DEF Arguments
    <3>6. Depth(a)' = Len(stack) /\ Depth(id)' = Len(stack) /\ a \in 0..l
      BY <1>1, <3>2, <3>3, <3>4, <3>5
    <3>7. \A i \in a..id : Depth(i)' >= Depth(a)'
      <4> TAKE i \in a..id
      <4>1. CASE i \in a..l
        BY <1>1, <3>5, <3>6, <4>1
      <4>2. CASE i = id
        BY <1>1, <3>6, <4>2
      <4> QED
        BY <1>1, <3>5, <4>1, <4>2
    <3>8. a <= id /\ a \in 1..b
      BY <1>1, <2>2, <3>5
    <3> QED
      BY <1>1, <2>2, <3>5, <3>6, <3>7, <3>8 DEF SameBlock
  <2> QED
    BY <1>1, <2>1, <2>2
<1> QED
  BY <1>1, <1>3 DEF CaseArgs, SameBlock, Depth

\* The second stack holds the switches that are open after the new line too.
LEMMA AcceptArguments ==
  ASSUME IInv, Laid, Arguments, NEW line \in Lines, Accept(line)
  PROVE  Arguments'
<1> SUFFICES ASSUME NEW l, l = Len(tlcs), NEW id, id = l + 1, NEW type, type = line.type PROVE Arguments'
  OBVIOUS
<1> DEFINE w == switches
           v == switches'
<1>1. /\ l \in Nat /\ id \in Nat /\ Len(tlcs') = id /\ type \in Types /\ tlcs'[id].type = type
      /\ \A i \in 1..l : tlcs'[i] = tlcs[i]
      /\ \A i \in 0..l : Depth(i)' = Depth(i) /\ Depth(i) \in Nat
      /\ Len(stack) = Depth(l) /\ Len(stack') \in Nat /\ Len(stack) \in Nat /\ Depth(id)' = Len(stack')
  <2>1. /\ l \in Nat /\ Len(tlcs') = l + 1 /\ line.type \in Types /\ tlcs'[l + 1].type = line.type
        /\ \A i \in 1..l : tlcs'[i] = tlcs[i]
        /\ \A i \in 0..l : Depth(i)' = Depth(i) /\ Depth(i) \in Nat
        /\ Len(stack) = Depth(l) /\ Len(stack') \in Nat /\ Depth(l + 1)' = Len(stack')
    BY AcceptDepths
  <2>2. l \in 0..l /\ l + 1 \in Nat
    BY <2>1
  <2> QED
    BY <2>1, <2>2
<1>2. /\ v = SwitchesAfter(type, id) /\ w \in Seq(Nat)
      /\ \A k \in 1..Len(stack) : k <= Len(stack') => BlockOf(stack'[k].type) = BlockOf(stack[k].type)
      /\ type \in Openers => Len(stack') = Len(stack) + 1 /\ stack'[Len(stack')].type = type
      /\ type \in Closers => Len(stack') = Len(stack) - 1
      /\ type \notin Openers \union Closers => Len(stack') = Len(stack)
      /\ type \notin Openers =>
           stack # <<>> /\ BlockOf(stack[Len(stack)].type) = IF type \in {"Elsif", "Else", "Endif"} THEN "If" ELSE "Switch"
  BY AcceptSwitches DEF IInv, Switched
<1>3. /\ \A m \in 1..Len(w) : \A i \in (m + 1)..Len(w) : Depth(w[m]) < Depth(w[i])
      /\ \A m \in 1..Len(w) : Depth(w[m]) \in 1..Len(stack)
      /\ stack # <<>> /\ BlockOf(stack[Len(stack)].type) = "Switch" => w # <<>> /\ Depth(w[Len(w)]) = Len(stack)
  BY InnermostSwitch DEF IInv
<1>4. /\ \A m \in 1..Len(w) : /\ w[m] \in 1..l /\ tlcs[w[m]].type = "Switch"
                              /\ \A i \in w[m]..l : Depth(i) >= Depth(w[m])
                              /\ BlockOf(stack[Depth(w[m])].type) = "Switch"
      /\ \A m \in 1..Len(w), i \in 1..Len(w) : m < i => w[m] < w[i]
      /\ \A k \in 1..Len(stack) : BlockOf(stack[k].type) = "Switch" => \E m \in 1..Len(w) : Depth(w[m]) = k
  BY DEF Arguments
<1> HIDE DEF w, v
<1> DEFINE IsOpen(a) == /\ a \in 1..id /\ tlcs'[a].type = "Switch"
                        /\ \A i \in a..id : Depth(i)' >= Depth(a)'
                        /\ BlockOf(stack'[Depth(a)'].type) = "Switch"
\* A switch whose level has not been closed stays open.
<1>5. ASSUME NEW m \in 1..Len(w), NEW a, a = w[m], Depth(a) <= Len(stack')
      PROVE  IsOpen(a) /\ Depth(a)' = Depth(a)
  <2>1. a \in 1..l /\ a \in 0..l /\ tlcs[a].type = "Switch" /\ \A i \in a..l : i \in 0..l /\ Depth(i) >= Depth(a)
    BY <1>1, <1>4, <1>5
  <2>2. Depth(a)' = Depth(a) /\ Depth(a) \in Nat /\ tlcs'[a].type = "Switch" /\ a \in 1..id
    BY <1>1, <2>1
  <2>3. ASSUME NEW i \in a..id PROVE Depth(i)' >= Depth(a)'
    <3>1. CASE i \in a..l
      BY <1>1, <2>1, <2>2, <3>1
    <3>2. CASE i = id
      BY <1>1, <1>5, <2>2, <3>2
    <3> QED
      BY <1>1, <2>1, <3>1, <3>2
  <2>4. BlockOf(stack'[Depth(a)].type) = "Switch"
    <3>1. Depth(a) \in 1..Len(stack) /\ BlockOf(stack[Depth(a)].type) = "Switch"
      BY <1>3, <1>4, <1>5
    <3> QED
      BY <1>2, <1>5, <3>1
  <2> QED
    BY <2>2, <2>3, <2>4
<1> HIDE DEF IsOpen
<1>6. ASSUME type = "Switch"
      PROVE  /\ \A m \in 1..Len(v) : \A a : a = v[m] => IsOpen(a)
             /\ \A m \in 1..Len(v), i \in 1..Len(v) : m < i => v[m] < v[i]
             /\ \A k \in 1..Len(stack') :
                  BlockOf(stack'[k].type) = "Switch" => \E m \in 1..Len(v) : \A a : a = v[m] => Depth(a)' = k
  <2>1. /\ v = Append(w, id) /\ Len(v) = Len(w) + 1 /\ v[Len(v)] = id /\ Len(w) \in Nat
        /\ \A m \in 1..Len(w) : v[m] = w[m]
    <3>1. v = Append(w, id)
      BY <1>2, <1>6 DEF SwitchesAfter, w
    <3>2. w \in Seq(Nat) /\ id \in Nat
      BY <1>1, <1>2
    <3> QED
      BY <3>1, <3>2
  <2>2. Len(stack') = Len(stack) + 1 /\ stack'[Len(stack')].type = "Switch" /\ BlockOf("Switch") = "Switch"
    BY <1>2, <1>6 DEF Openers, BlockOf
  <2>3. IsOpen(id)
    <3>1. \A i \in id..id : i = id
      BY <1>1
    <3>2. id \in 1..id
      BY <1>1
    <3> QED
      BY <1>1, <1>6, <2>2, <3>1, <3>2 DEF IsOpen
  <2>4. \A m \in 1..Len(w) : Depth(w[m]) <= Len(stack') /\ w[m] < id
    BY <1>1, <1>3, <1>4, <2>2
  <2>5. ASSUME NEW m \in 1..Len(v), NEW a, a = v[m] PROVE IsOpen(a)
    <3>1. CASE m \in 1..Len(w)
      BY <1>5, <2>1, <2>4, <2>5, <3>1
    <3>2. CASE m = Len(v)
      BY <2>1, <2>3, <2>5, <3>2
    <3> QED
      BY <2>1, <3>1, <3>2
  <2>6. ASSUME NEW m \in 1..Len(v), NEW i \in 1..Len(v), m < i PROVE v[m] < v[i]
    <3>1. m \in 1..Len(w)
      BY <2>1, <2>6
    <3>2. CASE i \in 1..Len(w)
      BY <1>4, <2>1, <2>6, <3>1, <3>2
    <3>3. CASE i = Len(v)
      BY <2>1, <2>4, <3>1, <3>3
    <3> QED
      BY <2>1, <3>2, <3>3
  <2>7. ASSUME NEW k \in 1..Len(stack'), BlockOf(stack'[k].type) = "Switch"
        PROVE  \E m \in 1..Len(v) : \A a : a = v[m] => Depth(a)' = k
    <3>1. CASE k \in 1..Len(stack)
      <4>0. k <= Len(stack')
        BY <1>1, <2>7
      <4>1. BlockOf(stack[k].type) = "Switch"
        BY <1>2, <2>7, <3>1, <4>0
      <4>2. PICK m \in 1..Len(w) : Depth(w[m]) = k
        BY <1>4, <3>1, <4>1
      <4>3. \A a : a = v[m] => Depth(a)' = k
        BY <1>5, <2>1, <2>4, <4>2
      <4> QED
        BY <2>1, <4>3
    <3>2. CASE k = Len(stack')
      <4>1. Len(v) \in 1..Len(v) /\ \A a : a = v[Len(v)] => Depth(a)' = k
        BY <1>1, <2>1, <3>2
      <4> QED
        BY <4>1
    <3> QED
      BY <1>1, <2>2, <3>1, <3>2
  <2> QED
    BY <2>5, <2>6, <2>7
<1>7. ASSUME type # "Switch"
      PROVE  /\ \A m \in 1..Len(v) : \A a : a = v[m] => IsOpen(a)
             /\ \A m \in 1..Len(v), i \in 1..Len(v) : m < i => v[m] < v[i]
             /\ \A k \in 1..Len(stack') :
                  BlockOf(stack'[k].type) = "Switch" => \E m \in 1..Len(v) : \A a : a = v[m] => Depth(a)' = k
  <2>1. /\ Len(v) \in Nat /\ Len(w) \in Nat /\ Len(v) <= Len(w) /\ \A m \in 1..Len(v) : v[m] = w[m]
        /\ type = "Endswitch" => w # <<>> /\ Len(v) = Len(w) - 1
        /\ type # "Endswitch" => v = w
    <3>1. CASE type = "Endswitch"
      <4>1. w # <<>>
        BY <1>2, <1>3, <3>1 DEF Openers
      <4>2. v = Front(w)
        BY <1>2, <1>7, <3>1 DEF SwitchesAfter, w
      <4>3. /\ Len(Front(w)) = Len(w) - 1 /\ Len(w) \in Nat /\ Len(w) > 0
            /\ \A m \in 1..Len(Front(w)) : Front(w)[m] = w[m]
        BY <1>2, <4>1, FrontFacts
      <4> QED
        BY <3>1, <4>1, <4>2, <4>3
    <3>2. CASE type # "Endswitch"
      BY <1>2, <1>7, <3>2 DEF SwitchesAfter, w
    <3> QED
      BY <3>1, <3>2
  <2>2. ASSUME NEW m \in 1..Len(v) PROVE m \in 1..Len(w) /\ Depth(w[m]) \in Nat /\ Depth(w[m]) <= Len(stack')
    <3>1. m \in 1..Len(w) /\ Depth(w[m]) \in 1..Len(stack)
      BY <1>3, <2>1
    <3>2. CASE type \notin Closers
      BY <1>1, <1>2, <3>1, <3>2
    <3>3. CASE type = "Endif"
      <4>1. BlockOf(stack[Len(stack)].type) = "If" /\ Len(stack') = Len(stack) - 1
        BY <1>2, <3>3 DEF Openers, Closers
      <4>2. Depth(w[m]) # Len(stack)
        BY <1>4, <3>1, <4>1
      <4> QED
        BY <1>1, <3>1, <4>1, <4>2
    <3>4. CASE type = "Endswitch"
      <4>1. BlockOf(stack[Len(stack)].type) = "Switch" /\ Len(stack') = Len(stack) - 1 /\ stack # <<>>
        BY <1>2, <3>4 DEF Openers, Closers
      <4>2. Len(w) \in (m + 1)..Len(w) /\ Depth(w[Len(w)]) = Len(stack)
        BY <1>3, <2>1, <3>4, <4>1
      <4>3. Depth(w[m]) < Len(stack)
        BY <1>3, <3>1, <4>2
      <4> QED
        BY <1>1, <3>1, <4>1, <4>3
    <3> QED
      BY <3>1, <3>2, <3>3, <3>4 DEF Closers
  <2>3. ASSUME NEW m \in 1..Len(v), NEW a, a = v[m] PROVE IsOpen(a)
    BY <1>5, <2>1, <2>2, <2>3
  <2>4. ASSUME NEW m \in 1..Len(v), NEW i \in 1..Len(v), m < i PROVE v[m] < v[i]
    BY <1>4, <2>1, <2>2, <2>4
  <2>5. ASSUME NEW k \in 1..Len(stack'), BlockOf(stack'[k].type) = "Switch"
        PROVE  \E m \in 1..Len(v) : \A a : a = v[m] => Depth(a)' = k
    <3>1. k \in 1..Len(stack)
      <4>1. CASE type \in Openers
        <5>1. type = "If" /\ stack'[Len(stack')].type = "If" /\ BlockOf("If") = "If"
          BY <1>2, <1>7, <4>1 DEF Openers, BlockOf
        <5>2. k # Len(stack')
          BY <2>5, <5>1
        <5> QED
          BY <1>1, <1>2, <4>1, <5>2
      <4>2. CASE type \notin Openers
        BY <1>1, <1>2, <4>2
      <4> QED
        BY <4>1, <4>2
    <3>2. BlockOf(stack[k].type) = "Switch"
      BY <1>1, <1>2, <2>5, <3>1
    <3>3. PICK m \in 1..Len(w) : Depth(w[m]) = k
      BY <1>4, <3>1, <3>2
    <3>4. m \in 1..Len(v)
      <4>1. CASE type = "Endswitch"
        <5>1. Depth(w[Len(w)]) = Len(stack) /\ Len(stack') = Len(stack) - 1
          BY <1>2, <1>3, <4>1 DEF Openers, Closers
        <5>2. m # Len(w)
          BY <1>1, <3>3, <5>1
        <5> QED
          BY <2>1, <4>1, <5>2
      <4>2. CASE type # "Endswitch"
        BY <2>1, <4>2
      <4> QED
        BY <4>1, <4>2
    <3>5. \A a : a = v[m] => Depth(a)' = k
      BY <1>5, <2>1, <2>2, <3>3, <3>4
    <3> QED
      BY <3>4, <3>5
  <2> QED
    BY <2>3, <2>4, <2>5
<1>8. /\ \A m \in 1..Len(v) : \A a : a = v[m] => IsOpen(a)
      /\ \A m \in 1..Len(v), i \in 1..Len(v) : m < i => v[m] < v[i]
      /\ \A k \in 1..Len(stack') :
           BlockOf(stack'[k].type) = "Switch" => \E m \in 1..Len(v) : \A a : a = v[m] => Depth(a)' = k
  BY <1>6, <1>7
<1>9. /\ \A m \in 1..Len(v) : \A a : a = v[m] =>
           /\ a \in 1..Len(tlcs') /\ tlcs'[a].type = "Switch"
           /\ \A i \in a..Len(tlcs') : Depth(i)' >= Depth(a)'
           /\ BlockOf(stack'[Depth(a)'].type) = "Switch"
  BY <1>1, <1>8 DEF IsOpen
<1> QED
  BY <1>8, <1>9 DEF Arguments, Depth, v

-------------------------------------------------------------------------------
(* The walk and the lines.                                                 *)

\* The compiler has counted well, the walk has found so far what the lines say, and so have the results
\* that were read last.
KInv ==
  /\ Laid /\ Arguments
  /\ phase = "testing" => FramesAgree /\ PassedAgree /\ InterpretedAgree
  /\ phase = "search" /\ judged.of = "own" => \A b \in Branches : passed[b] <=> Free(b)

\* Nothing but the compiler touches the lines and the stacks.
LEMMA SourceStays ==
  ASSUME IInv, Laid, Arguments, UNCHANGED source
  PROVE  Laid' /\ Arguments'
<1>1. tlcs' = tlcs /\ trace' = trace /\ switches' = switches
  BY DEF source
<1>2. \A i : Depth(i)' = Depth(i)
  BY <1>1 DEF Depth
<1>3. \A j, k, i : Places(j, k, i)' <=> Places(j, k, i)
  BY <1>1, <1>2 DEF Places
<1>4. Compiled' /\ Deep' /\ Levels'
  BY <1>1, <1>2, <1>3 DEF Laid, Compiled, Deep, Levels
<1>5. CaseArgs'
  <2>1. \A i, j : SameBlock(i, j)' <=> SameBlock(i, j)
    BY <1>2 DEF SameBlock
  <2>2. \A b \in 1..Len(tlcs') : \A a : tlcs'[b].type = "Case" /\ a = tlcs'[b].arg =>
          a \in 1..b /\ tlcs'[a].type = "Switch" /\ SameBlock(a, b)'
    BY <1>1, <2>1 DEF Laid, CaseArgs
  <2> QED
    BY <2>2 DEF CaseArgs, SameBlock, Depth
<1>6. Arguments'
  <2>1. stack' = stack
    BY <1>1 DEF stack
  <2>2. /\ \A m \in 1..Len(switches') : \A a : a = switches'[m] =>
             /\ a \in 1..Len(tlcs') /\ tlcs'[a].type = "Switch"
             /\ \A i \in a..Len(tlcs') : Depth(i)' >= Depth(a)'
             /\ BlockOf(stack'[Depth(a)'].type) = "Switch"
        /\ \A m \in 1..Len(switches'), l \in 1..Len(switches') : m < l => switches'[m] < switches'[l]
        /\ \A k \in 1..Len(stack') :
             BlockOf(stack'[k].type) = "Switch" => \E m \in 1..Len(switches') : \A a : a = switches'[m] => Depth(a)' = k
    BY <1>1, <1>2, <2>1 DEF Arguments
  <2> QED
    BY <2>2 DEF Arguments, Depth
<1> QED
  BY <1>4, <1>5, <1>6 DEF Laid

\* A line that is accepted keeps all of it.
LEMMA AcceptLaid ==
  ASSUME IInv, Laid, Arguments, NEW line \in Lines, Accept(line)
  PROVE  Laid' /\ Arguments'
<1>1. Compiled'
  BY AcceptKeeps DEF IInv
<1>2. Deep' /\ Levels'
  <2> SUFFICES ASSUME NEW l, l = Len(tlcs), NEW id, id = l + 1, NEW type, type = line.type PROVE Deep' /\ Levels'
    OBVIOUS
  <2> QED
    BY AcceptLevels
<1>3. CaseArgs' /\ Arguments'
  BY AcceptCaseArgs, AcceptArguments
<1> QED
  BY <1>1, <1>2, <1>3 DEF Laid

LEMMA StepAgrees ==
  ASSUME IInv, JInv, KInv, [Next]_vars
  PROVE  KInv'
<1>1. Laid /\ Arguments
  BY DEF KInv
<1>2. ASSUME NEW line \in Lines, Accept(line) PROVE KInv'
  <2>1. phase' = "parsing"
    BY <1>2 DEF Accept
  <2> QED
    BY <1>1, <1>2, <2>1, AcceptLaid DEF KInv
<1>3. UNCHANGED source => Laid' /\ Arguments'
  BY <1>1, SourceStays
<1>4. CASE ParseError \/ EndPattern
  <2>1. UNCHANGED source /\ phase' \in {"parsing", "rejected", "compiled"}
    BY <1>4 DEF ParseError, EndPattern
  <2> QED
    BY <1>3, <2>1 DEF KInv
<1>5. CASE StartSearch
  <2>1. UNCHANGED source /\ phase' = "search" /\ judged'.of = "plain"
    BY <1>5 DEF StartSearch, NotJudged
  <2> QED
    BY <1>3, <2>1 DEF KInv
<1>6. ASSUME NEW q \in Questions, TestOwn(q) PROVE KInv'
  <2>1. /\ UNCHANGED source /\ phase' = "testing" /\ n' = 1 /\ frames' = <<>> /\ interpreted' = {}
    BY <1>6 DEF TestOwn
  <2>2. FramesAgree'
    BY <2>1 DEF FramesAgree
  <2>3. PassedAgree'
    <3>1. \A b \in Branches' : b \in Nat /\ b >= 1
      BY DEF Branches
    <3>2. \A b \in Branches' : ~(b < 1)
      BY <3>1
    <3> QED
      BY <2>1, <3>2 DEF PassedAgree
  <2>4. InterpretedAgree'
    <3>1. 1..(1 - 1) = {}
      OBVIOUS
    <3> QED
      BY <2>1, <3>1 DEF InterpretedAgree
  <2> QED
    BY <1>3, <2>1, <2>2, <2>3, <2>4 DEF KInv
<1>7. ASSUME NEW q \in Questions, TestOther(q) PROVE KInv'
  <2>1. UNCHANGED source /\ phase' = "search" /\ judged'.of = "other"
    BY <1>7 DEF TestOther
  <2> QED
    BY <1>3, <2>1 DEF KInv
<1>8. ASSUME NEW p \in Patterns, NEW q \in Questions, Extend(p, q) PROVE KInv'
  <2>1. UNCHANGED <<source, phase, judged, passed>> /\ phase = "search" /\ tlcs' = tlcs /\ truth' = truth
    BY <1>8 DEF Extend, source, search, walk
  <2>2. Branches' = Branches /\ \A b : Free(b)' <=> Free(b)
    BY <2>1, SameLines
  <2> QED
    BY <1>3, <2>1, <2>2 DEF KInv
<1>9. CASE TestOpen \/ TestBranch \/ TestClose
  <2>1. phase = "testing" /\ phase' # "search" /\ UNCHANGED source
    BY <1>9 DEF TestOpen, TestBranch, TestClose
  <2>2. FramesAgree /\ PassedAgree /\ InterpretedAgree /\ passed \in Results
    BY <2>1 DEF KInv, JInv
  <2>3. FramesAgree' /\ PassedAgree' /\ InterpretedAgree'
    BY <1>1, <1>9, <2>1, <2>2, OpenAgrees, BranchAgrees, CloseAgrees
  <2> QED
    BY <1>3, <2>1, <2>3 DEF KInv
<1>10. CASE TestEnd
  <2>1. /\ UNCHANGED source /\ phase = "testing" /\ phase' = "search" /\ passed' = passed
        /\ tlcs' = tlcs /\ truth' = truth /\ n > Len(tlcs)
    BY <1>10 DEF TestEnd, source, search, walk
  <2>2. Branches' = Branches /\ \A b : Free(b)' <=> Free(b)
    BY <2>1, SameLines
  <2>3. PassedAgree /\ n \in Nat /\ Len(tlcs) \in Nat
    <3>1. Nested /\ Compiled
      BY <2>1 DEF IInv
    <3> QED
      BY <2>1, <3>1 DEF KInv, Nested, Compiled
  <2>4. \A b \in Branches : b < n
    BY <2>1, <2>3 DEF Branches
  <2>5. \A b \in Branches : passed[b] <=> Free(b)
    BY <2>3, <2>4 DEF PassedAgree
  <2> QED
    BY <1>3, <2>1, <2>2, <2>5 DEF KInv
<1>11. CASE UNCHANGED vars
  <2>1. /\ UNCHANGED source /\ phase' = phase /\ judged' = judged /\ passed' = passed /\ interpreted' = interpreted
        /\ n' = n /\ frames' = frames /\ tlcs' = tlcs /\ truth' = truth
    BY <1>11 DEF vars, source, search, walk
  <2>2. /\ Branches' = Branches
        /\ \A i : /\ Free(i)' <=> Free(i)
                  /\ ParentFree(i)' <=> ParentFree(i)
                  /\ Tried(i)' = Tried(i)
                  /\ Holds(i)' <=> Holds(i)
                  /\ IsReached(i)' <=> IsReached(i)
                  /\ HasCondition(i)' <=> HasCondition(i)
        /\ \A i : Depth(i)' = Depth(i)
    BY <2>1, SameLines
  <2>3. FramesAgree => FramesAgree'
    <3> SUFFICES ASSUME FramesAgree, NEW k \in 1..Len(frames'), NEW j \in 1..(n' - 1), Places(j, k, n - 1)'
                 PROVE  FrameAgrees(frames[k], j)'
      BY DEF FramesAgree
    <3>1. Places(j, k, n - 1)
      BY <2>1, <2>2 DEF Places
    <3>2. FrameAgrees(frames[k], j)
      BY <2>1, <3>1 DEF FramesAgree
    <3> QED
      BY <2>1, <2>2, <3>2 DEF FrameAgrees
  <2>4. PassedAgree => PassedAgree'
    BY <2>1, <2>2 DEF PassedAgree
  <2>5. InterpretedAgree => InterpretedAgree'
    BY <2>1, <2>2 DEF InterpretedAgree
  <2> QED
    BY <1>3, <2>1, <2>2, <2>3, <2>4, <2>5 DEF KInv
<1> QED
  BY <1>2, <1>4, <1>5, <1>6, <1>7, <1>8, <1>9, <1>10, <1>11 DEF Next

LEMMA InitAgrees ==
  ASSUME Init
  PROVE  KInv
<1>1. tlcs = <<>> /\ trace = << <<>> >> /\ switches = <<>> /\ phase = "parsing"
  BY DEF Init
<1>2. Compiled
  BY <1>1 DEF Compiled
<1>3. Len(tlcs) = 0 /\ trace[1] = <<>> /\ Len(trace[1]) = 0 /\ Len(switches) = 0 /\ stack = <<>>
  BY <1>1 DEF stack, Last
<1>4. 0..0 = {0} /\ 1..0 = {}
  OBVIOUS
<1>5. Depth(0) = 0
  <2>1. DepthOf(tlcs, 0) = 0
    BY <1>2, DepthOfSteps DEF Compiled
  <2> QED
    BY <2>1 DEF DepthOf, LinesOf, Depth
<1>6. Deep /\ Levels /\ CaseArgs /\ Arguments
  BY <1>3, <1>4, <1>5 DEF Deep, Levels, CaseArgs, Arguments
<1> QED
  BY <1>1, <1>2, <1>6 DEF KInv, Laid

\* The number of an answer stands for the scope the answer is in.
LEMMA AnswerIsGiven ==
  ASSUME Laid, NEW i \in 1..Len(tlcs), \A s \in 1..i : ~InHead(s, i),
         NEW ok, \A b \in Branches : ok[b] <=> Free(b)
  PROVE  (AnswerTLCS(i) = NoTLCS \/ ok[AnswerTLCS(i)]) <=> \A b \in Around(i) : Chosen(b)
<1>1. Free(i) <=> \A b \in Around(i) : Chosen(b)
  BY DEF Free
<1>2. /\ i \in 0..Len(tlcs) /\ Depth(i) = Len(trace[i + 1]) /\ trace[i + 1] \in Seq(Node) /\ Depth(i) \in Nat
      /\ Len(tlcs) \in Nat
  BY Depths DEF Laid, Deep, Compiled
<1>3. CASE trace[i + 1] = <<>>
  <2>1. Depth(i) = 0 /\ AnswerTLCS(i) = NoTLCS
    BY <1>2, <1>3 DEF AnswerTLCS
  <2> QED
    BY <1>1, <1>2, <2>1, OutsideIsFree
<1>4. CASE trace[i + 1] # <<>>
  <2>1. Depth(i) \in 1..Len(trace[i + 1]) /\ AnswerTLCS(i) = trace[i + 1][Depth(i)].id
    BY <1>2, <1>4 DEF AnswerTLCS, Last
  <2>2. PICK j \in 1..i : /\ Places(j, Depth(i), i)
                          /\ trace[i + 1][Depth(i)].id = IF tlcs[j].type = "Switch" THEN NoTLCS ELSE j
    BY <1>2, <2>1 DEF Laid, Levels
  <2>3. Free(j) <=> Free(i)
    BY <1>2, <2>2, SameScope
  <2>4. j \in 1..Len(tlcs) /\ Depth(j) = Depth(i) /\ tlcs[j].type \notin Closers
    BY <1>2, <2>2 DEF Places
  <2>5. CASE tlcs[j].type = "Switch"
    <3>1. InHead(j, i)
      <4>1. InHead(j, j)
        BY <2>4, <2>5, SwitchIsNotFree
      <4> QED
        BY <1>2, <2>2, <2>4, <4>1, ScopeOfLevel
    <3> QED
      BY <3>1
  <2>6. CASE tlcs[j].type # "Switch"
    <3>1. AnswerTLCS(i) = j /\ j # NoTLCS /\ j \in Branches
      BY <2>1, <2>2, <2>4, <2>6 DEF Branches, NoTLCS
    <3> QED
      BY <1>1, <2>3, <3>1
  <2> QED
    BY <2>5, <2>6
<1> QED
  BY <1>3, <1>4

LEMMA InvariantsHold == Spec => [](IInv /\ JInv /\ KInv)
<1>1. Init => IInv /\ JInv /\ KInv
  BY InitAgrees, InitKeeps
<1>2. IInv /\ JInv /\ KInv /\ [Next]_vars => (IInv /\ JInv /\ KInv)'
  BY StepKeeps, StepKeepsResults, StepAgrees
<1> QED
  BY <1>1, <1>2, PTL DEF Spec

\* An answer may be given exactly when every branch around it is the first of its block whose condition
\* holds, the head of a switch excepted, for any number of lines and any nesting: the numbers the compiler
\* gives to answers and the walk of TestTLCS over the list that has no nesting any more fit together.
THEOREM AnswersAreGuarded == Spec => []AnswersFollowBranches
<1>1. IInv /\ JInv /\ KInv => AnswersFollowBranches
  <2> SUFFICES ASSUME IInv, JInv, KInv, Judged, NEW i \in 1..Len(tlcs), \A s \in 1..i : ~InHead(s, i)
               PROVE  (AnswerTLCS(i) = NoTLCS \/ judged.ok[AnswerTLCS(i)]) <=> \A b \in Around(i) : Chosen(b)
    BY DEF AnswersFollowBranches
  <2>1. judged.ok = passed
    BY DEF Judged, JInv, JudgedByOwn
  <2>2. Laid /\ \A b \in Branches : judged.ok[b] <=> Free(b)
    BY <2>1 DEF KInv, Judged
  <2> QED
    BY <2>2, AnswerIsGiven
<1> QED
  BY <1>1, InvariantsHold, PTL

\* The walk evaluates a condition, and does what its functions do, exactly when its line is reached.
THEOREM ConditionsAreInterpreted == Spec => []ReachedIsInterpreted
<1>1. IInv /\ JInv /\ KInv => ReachedIsInterpreted
  <2> SUFFICES ASSUME IInv, KInv, phase = "testing", n > Len(tlcs)
               PROVE  interpreted = {i \in 1..Len(tlcs) : HasCondition(i) /\ IsReached(i)}
    BY DEF ReachedIsInterpreted
  <2>1. InterpretedAgree /\ Nested /\ Len(tlcs) \in Nat
    BY DEF KInv, IInv, Compiled
  <2>2. n - 1 = Len(tlcs)
    BY <2>1 DEF Nested
  <2> QED
    BY <2>1, <2>2 DEF InterpretedAgree
<1> QED
  BY <1>1, InvariantsHold, PTL
===============================================================================
