SPECIFICATION Spec
CONSTANTS
  m1 = m1
  m2 = m2
  a = a
  b = b
  Calls <- MCCalls
  Peers <- MCPeers
  MaxAttempts = 2
  Buffer = 1
  Slots = 1
INVARIANT ExactlyOneUnlessLate
PROPERTY AllNackedIsHonest
PROPERTY PublishReturns
PROPERTY DeliverySpec
CHECK_DEADLOCK FALSE
