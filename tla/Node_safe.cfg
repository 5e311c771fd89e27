CONSTANTS
  broadness = 2
  RoundMax = 1
  MaxChanItem = 1
  MaxRound = 1
  MaxIdx = 1
  MaxVertex = 3
  MaxOwn = 2
  Copy <- MCCopy
SPECIFICATION NodeSpec
CHECK_DEADLOCK FALSE
INVARIANTS ConsensusComplete SlotHoldsWitness
PROPERTIES RoundsOnly 
