SPECIFICATION Spec
CONSTANTS
  File = {"old", "new", "dir"}
  Unopenable = {"dir"}
  Unit = {"a", "b", "c", "x", "y", "z"}
  Descriptor = {5, 6, 7}
  BufSize = 2
  StdioBlock = 2
  IoFaults = FALSE
  ClId = {3, 4}
  InitFiles <- MCInitFiles
  Chunk <- MCChunk
  MaxLen = 3
INVARIANTS
  TypeOK
  OneStreamPerCaller
  OneWriterPerFile
  StreamsOnFiles
  NothingLost
PROPERTIES
  WriteOnce
  ImplementsWriteOnceStore
