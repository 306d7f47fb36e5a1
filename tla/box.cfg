CONSTANTS
  Size = 4
  NoNum = 99
SPECIFICATION RandomBoxSpec
INVARIANTS QueueIsMask RemainingAmount
PROPERTY BoxSpec
