SPECIFICATION Spec
CONSTANTS
  g1 = g1
  g2 = g2
  Callers = {g1, g2}
  Gap = 1
  Limit = 4
  Minute = 3
  Ceiling = 20
  MaxUint = 40
  Headers <- SomeHeaders
  MaxTime = 3
INVARIANT TypeOK
PROPERTIES ImplementsPace BackoffTold EndsAtDeadline
CHECK_DEADLOCK FALSE
