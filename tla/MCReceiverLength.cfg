SPECIFICATION Spec
CONSTANTS
  Byte = {0, 1, 2, 3, 6}
  Low = 4
  MaxPacketSize = 2
  MaxRecv = 3
  MaxBytes = 5
CHECK_DEADLOCK FALSE
INVARIANT LengthIsWhole
