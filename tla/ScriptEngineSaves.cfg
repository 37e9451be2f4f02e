CONSTANTS
  Obj = {o1, o2}
  NoObj = NoObj
  Native = Native
  File = {auto, streamed}
  AutoFile = {auto}
  Faults <- FamilyFaults
SPECIFICATION Spec
SYMMETRY ObjSymmetry
INVARIANTS
  TerminatedIsUnreachable
PROPERTIES
  StopListIsKept
