SPECIFICATION LinkSpec
CONSTANTS
  Creds = {c1, c2}
  PeerIds = {p1, p2, p3}
  MAX_PEERS = 2
  MaxCounter = 2
  NvsReadFaults = FALSE
  None = None
SYMMETRY LinkSymmetry
INVARIANTS
  DeliveredInOrder
  DeliveredIsPersisted
  SlotsRefuseDelivered
  BoardNeverLockedOut
PROPERTIES
  NvsFallsOnlyOverUndelivered
  ImplementsSecureChannel
