SPECIFICATION SystemSpec
CONSTANTS
  c1 = c1
  Client = {c1}
  Stored = "old"
  StoredLen = 3
  Fresh = "new"
  File = {"old", "new"}
  Unopenable = {}
  Unit <- MCUnit
  CR = CR
  LF = LF
  Descriptor = {1, 2, 3}
  BufSize = 3
  StdioBlock = 2
  IoFaults = FALSE
  SvSock = {0}
  DataLen = 2
  BlkMax = 6
  RetryMax = 2
  ResendInterval = 0
  CloseWait = 0
  EventsMax = 1
  FreedNext = {"kept"}
  InitFiles <- MCInitFiles
  Request = {"RRQ", "WRQ"}
  Mode = {"octet", "netascii"}
  LineEnds = {2}
  MaxUpload = 3
  EpollFaults = FALSE
  Malformed = FALSE
  Signals = FALSE
  Plans <- MCPlans
  MaxTries = 3
  MaxFaults = 3
  MaxTicks = 1
INVARIANTS
  SystemTypeOK
  DownloadExact
  UploadExact
PROPERTIES
  Completes
