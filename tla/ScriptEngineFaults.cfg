CONSTANTS
  Obj = {o1, o2}
  NoObj = NoObj
  Native = Native
  File = {auto}
  AutoFile = {auto}
  Faults <- PointerFaults
SPECIFICATION FairSpec
INVARIANTS
  TypeOK
  SessionsAreIsolated
PROPERTIES
  RunsOnOnlyThroughAncestor
  ImplementsLifecycle
  TerminatedIsDeleted
