SPECIFICATION Spec
CONSTANTS
  Millis = 6
  Nanos = 2
  Rate = 3
  MaxStay = 13
INVARIANT RateKept
PROPERTIES PauseIsWhole KeepsTicking
