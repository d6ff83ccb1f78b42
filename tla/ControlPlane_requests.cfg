SPECIFICATION Spec
CONSTANTS
  Requests = {r1, r2}
  AgentIds = {a1, a2}
  VersionIds = {v1, v2}
  ToolIds = {t1, t2}
  SessionIds = {s1}
  Names = {n1, n2}
  Values = {x1, x2}
  NoId = NoId
  MaxRequests = 6
SYMMETRY RowSymmetry
INVARIANTS
  VersionNumbersContiguous
  ToolNamesUnique
  ReferencesResolve
  PinnedIsPublished
PROPERTIES
  HashBreaksOnlyOnOverlap
  AloneIsNotRejected
  PublishedChangesOnlyOnOverlap
CHECK_DEADLOCK FALSE
