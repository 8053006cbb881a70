SPECIFICATION IoSpec
CONSTANTS
  Workers = {k1, k2}
  MaxActive = 1
  NSleepers = 1
  NDeadlines = 2
  MaxTick = 2
  LoneRemove = TRUE
  Requesters = {q1, q2, q3}
  NUM = 6
  IdxMod = 6
  MaxSegs = 3
INVARIANTS  TransfersHold
PROPERTIES ArmedCallbackRuns SomeBioEnds
