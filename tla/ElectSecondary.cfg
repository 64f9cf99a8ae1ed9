\* Two data nodes and a secondary, whose votes count, two rounds that may collide at a term,
\* one crash or failed write of acceptor.state, files that cannot be read back.
SPECIFICATION Spec
CONSTANTS
  Node = {1, 2, 3}
  Arbiter = {}
  Secondary = {1}
  Priority <- MCPriority
  InitVlsn <- MCEmptyLogs
  MaxRound = 2
  MaxTerm = 2
  MaxVlsn = 1
  MaxFault = 1
INVARIANTS
  TypeOK
  OneMasterPerTerm
  WinIsDurable
PROPERTY
  VoteHonoursPromises
CHECK_DEADLOCK FALSE
