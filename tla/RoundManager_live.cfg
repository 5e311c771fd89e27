CONSTANTS
  broadness = 2
  RoundMax = 1
  MaxChanItem = 1
  MaxRound = 0
  MaxIdx = 10
  MaxVertex = 3
SPECIFICATION FairSpec
CHECK_DEADLOCK FALSE
PROPERTY LoopsProgress
