SPECIFICATION FairSpec
CONSTANTS
  W = 8
  MaxSize = 3
  Slack = 1
  Sizes = {1, 2}
  MaxChunks = 2
INVARIANTS TypeOK GetIsCurrent UsersConserved ContractUnlessCrossed
PROPERTIES PacketsFinish TicksUnlessCrossed
