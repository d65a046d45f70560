SPECIFICATION Spec
CONSTANTS
  GroupBits = 2
  Width = 5
  FixedLength = 2
  ToClient <- MCToClient
  ToServer <- MCToServer
  Budget = 6
  Wire = {0, 1, 4, 7}
  MaxData = 6
  ArenaSize = 4
  ArenaUsed = {0, 2}
  Values <- MCValues
INVARIANTS WrittenIsEncoding OnlyNegativesRunAway ReaderConsistent Understood ArraysApart
CHECK_DEADLOCK FALSE
