SPECIFICATION Spec
CONSTANTS
  FdMax = 8
  AddrFaults = TRUE
INVARIANTS
  TypeOK
  ServesConfined
  ServesOpenDescriptors
  FailureReported
PROPERTIES
  SignalEnds
