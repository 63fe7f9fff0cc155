SPECIFICATION Spec
CONSTANTS
  Tasks = {t1, t2}
  Materials = {m1}
  COUNTER_WINDOW = 2
  COUNTER_LIMIT = 5
  WORD = 8
  Null = Null
INVARIANT NoNonceReuse
