CONSTANTS
  a = a
  b = b
  c = c
  t1 = t1
  t2 = t2
  Calls <- MCCalls
  Targets <- MCTargets
  Worlds <- LambdaAndAli
  QueryTime = 1
SPECIFICATION Spec
INVARIANT BreakdownClaims
