SPECIFICATION Spec
CONSTANTS
  Tasks = {t1}
  Materials = {m1, m2}
  COUNTER_WINDOW = 2
  COUNTER_LIMIT = 5
  WORD = 8
  Null = Null
INVARIANTS
  TypeOK
  NoNonceReuse
  UsedBelowReserved
  SealedUnderProvisionedPair
  SkipsAtMostOneWindow
PROPERTIES
  ReservationNeverLowered
  ImplementsNonceSource
