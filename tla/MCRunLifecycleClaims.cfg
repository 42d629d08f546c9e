SPECIFICATION Spec

CONSTANTS
  r1 = r1
  r2 = r2
  s1 = s1
  s2 = s2
  NoRun = NoRun
  Runs <- MCRuns
  Services <- MCServices
  Seconds <- MCSeconds
  Worlds <- FaultyPoolWorlds

INVARIANTS
  RunClaims
