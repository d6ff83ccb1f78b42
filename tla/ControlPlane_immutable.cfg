SPECIFICATION Spec
CONSTANTS
  Requests = {r1, r2}
  AgentIds = {a1}
  VersionIds = {v1}
  ToolIds = {t1}
  SessionIds = {s1}
  Names = {n1}
  Values = {x1, x2}
  NoId = NoId
  MaxRequests = 4
PROPERTIES
  PublishedIsImmutable
CHECK_DEADLOCK FALSE
