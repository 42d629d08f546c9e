SPECIFICATION FairSpec

CONSTANTS
  d1 = d1
  d2 = d2
  NoDomain = NoDomain
  Domains = {d1, d2}
  Nodes <- MCNodes
  Source = 0
  Runs <- MCRuns

INVARIANTS
  ExclusiveAccess
  SuccessorsAfterSuccess
  ArgumentsWhole
  WorkConserving
  ReturnMeansComplete
  IInv

PROPERTIES
  ImplementsDag
  Terminates
  ReadyIsSubmitted
