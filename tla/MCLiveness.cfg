SPECIFICATION FairSpec
CONSTANTS
  c1 = c1
  c2 = c2
  Client = {c1, c2}
  Stored = "old"
  StoredLen = 3
  File = {"old"}
  Unopenable = {}
  Unit <- MCUnit
  CR = CR
  LF = LF
  Descriptor = {1, 2, 3}
  BufSize = 4
  StdioBlock = 2
  IoFaults = FALSE
  SvSock = {0}
  DataLen = 2
  BlkMax = 2
  RetryMax = 1
  ResendInterval = 0
  CloseWait = 1
  EventsMax = 2
  FreedNext = {"kept"}
  InitFiles <- MCInitFiles
  Request = {"RRQ"}
  Mode = {"octet"}
  LineEnds = {}
  MaxUpload = 0
  EpollFaults = TRUE
  Malformed = FALSE
  Signals = TRUE
PROPERTIES
  SessionsEnd
  StopsOnSignal
