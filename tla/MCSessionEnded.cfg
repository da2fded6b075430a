\* The commands of a session that has ended.
SPECIFICATION Spec
CONSTANTS
  c1 = c1
  c2 = c2
  NoClient = NoClient
  Client = {c1, c2}
  Outdated = {{}}
  RequiresManifest = FALSE
  Operation <- MCOperation
  Servers = {"threaded"}
  Timeout = 2
  MaxSessions = 2
  MaxSequence <- MCMaxSequence
PROPERTY EndedSessionsAreMute
CHECK_DEADLOCK FALSE
