SPECIFICATION Spec

CONSTANTS
  s1 = s1
  s2 = s2
  i1 = i1
  i2 = i2
  r1 = r1
  r2 = r2
  u1 = u1
  u2 = u2
  odd = odd
  a = a
  b = b
  c = c
  d = d
  Base = Base
  NoObject = NoObject
  NoDomain = NoDomain
  Domains <- MCServices
  Services <- MCServices
  Instances <- MCInstances
  Runs <- MCRuns
  Uids <- MCUids
  Sanitized <- MCSanitized
  Calls <- MCCalls
  Worlds <- ClaimWorlds

INVARIANTS
  StateClaims
