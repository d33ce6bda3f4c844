SPECIFICATION Spec
CONSTANTS
  c1 = c1
  c2 = c2
  Client = {c1, c2}
  Stored = "old"
  StoredLen = 0
  File = {"new"}
  Unopenable = {}
  Unit <- MCUnit
  CR = CR
  LF = LF
  Descriptor = {1, 2, 3, 4}
  BufSize = 2
  StdioBlock = 2
  IoFaults = TRUE
  SvSock = {0}
  DataLen = 2
  BlkMax = 2
  RetryMax = 1
  ResendInterval = 0
  CloseWait = 1
  EventsMax = 2
  FreedNext = {"kept"}
  InitFiles <- MCInitFiles
  Request = {"WRQ"}
  Mode = {"octet"}
  LineEnds = {}
  MaxUpload = 3
  EpollFaults = FALSE
  Malformed = FALSE
  Signals = FALSE
SYMMETRY Symmetry
INVARIANTS
  UploadsUnmixed
PROPERTIES
  ImplementsWriteOnceStore
