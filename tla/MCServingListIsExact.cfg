\* The list of open issues of one repository, and an issue that is closed upstream.
SPECIFICATION Spec
CONSTANTS
  Worlds <- IssueWorld
  Defaults <- UpstreamDefaults
  Special <- Reserved
INVARIANT
  CompleteListIsExact
