SPECIFICATION Spec

CONSTANTS
  NoDomain = "nowhere"
  Unset = Unset
  None = None
  Domains = {"m", "n"}
  Resources <- MCResources
  DefaultOf <- MCDefaults
  Jobs <- MCJobs
  Projects <- MCProjects
  Norm <- MCNorm
  ServiceName <- MCServiceName
  RuntimeName <- MCRuntimeName
  MaxPolls = 2
  Worlds <- MCWorlds

INVARIANTS
  FunctionsApart
