SPECIFICATION Spec
CONSTANTS
  t1 = t1
  t2 = t2
  n = n
  None = None
  Callers = {t1, t2}
  NodeIds = {n}
  Cases <- BothCases
  MaxEvents = 3
INVARIANTS AuditComplete DecidedOnce HighFirst
