\* Both servers under loss, duplication and reordering.
SPECIFICATION Spec
CONSTANTS
  c1 = c1
  c2 = c2
  NoClient = NoClient
  Client = {c1, c2}
  Outdated = {{}, {c1}}
  RequiresManifest = FALSE
  Operation <- MCOperation
  Servers = {"single", "threaded"}
  Timeout = 0
  MaxSessions = 2
  MaxSequence <- MCMaxSequence
INVARIANT NeverMuted
PROPERTIES ImplementsCommandStream HostsPromote
CHECK_DEADLOCK FALSE
