SPECIFICATION FairSpec

CONSTANTS
  t1 = t1
  t2 = t2
  a = a
  b = b
  c = c
  d = d
  NoCall = NoCall
  Snapshot = Snapshot
  Targets <- MCTargets
  Calls <- MCCalls
  Worlds <- MCWorlds

INVARIANTS
  TypeOK
  EffectsVisible
  SeedArrives

PROPERTIES
  CallsEnd
