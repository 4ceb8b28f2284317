CONSTANTS
  MaxRounds = 8
SPECIFICATION Spec
INVARIANTS HandshakeOrders
CHECK_DEADLOCK FALSE
