-------------------------- MODULE MCProcessServer --------------------------
(***************************************************************************)
(* Small instances of the process server for TLC.                          *)
(***************************************************************************)
EXTENDS ProcessServer, TLC

CONSTANTS a1, a2

File(max, start0, spare, listen) ==
  [max |-> max, start |-> start0, spare |-> spare, listen |-> listen]

\* Start empty, one filter to be kept spare, two at most.
KeepOne == File(2, 0, 1, a1)

\* What the file may hold after an edit: a lower limit with a spare count that
\* reaches it, or another socket.
Edited == {File(1, 0, 1, a1), File(2, 0, 1, a2)}

\* One filter at most, kept running.
OneOnDemand == File(1, 0, 1, a1)
EditedOne   == {File(1, 0, 1, a2), File(1, 0, 1, a1)}

PidSymmetry == Permutations(Pids)
=============================================================================
