SPECIFICATION Spec
CONSTANTS
  NWBUF_SIZE = 8
  TFTP_FILENAME_MAX = 3
  TFTP_MODENAME_MAX = 3
  TFTP_DATALEN_MAX = 3
  TFTP_EMSGLEN_MAX = 4
  Letter = {7}
  Octet <- MCOctet
  Netascii <- MCNetascii
  MessageLens = {0, 1, 2, 100, 254, 255, 256, 300}
  Heads <- MCHeads
  Tails <- MCTails
INVARIANTS
  BuffersKeptWithin
  OwnBytesOnly
  RequestsUnderstood
  RequestsFit
  LinesWhole
  PathsJoined
