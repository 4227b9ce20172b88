\* A group of two is shifted by one slot.
SPECIFICATION Spec
CONSTANTS
  NumSlots = 3
  MaxId = 3
  MaxTime = 2
  MaxReceived = 0
  Prices <- OnePrice
  StartOf <- StartTimes
  Hold = 1
  Policy = 1
INVARIANT
  ValidMovesSucceed
