SPECIFICATION Spec
CONSTANTS
  c1 = c1
  Client = {c1}
  Stored = "old"
  StoredLen = 3
  File = {"old"}
  Unopenable = {}
  Unit <- MCUnit
  CR = CR
  LF = LF
  Descriptor = {1, 2, 3, 4}
  BufSize = 4
  StdioBlock = 2
  IoFaults = FALSE
  SvSock = {0}
  DataLen = 2
  BlkMax = 2
  RetryMax = 1
  ResendInterval = 0
  CloseWait = 1
  EventsMax = 3
  FreedNext = {"kept"}
  InitFiles <- MCInitFiles
  Request = {"RRQ"}
  Mode = {"octet"}
  LineEnds = {}
  MaxUpload = 0
  EpollFaults = FALSE
  Malformed = FALSE
  Signals = FALSE
INVARIANTS
  RetransmitsToClient
