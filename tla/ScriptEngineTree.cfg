CONSTANTS
  Obj = {o1, o2, o3}
  NoObj = NoObj
  Native = Native
  File = {auto}
  AutoFile = {auto}
  Faults <- NoFaults
SPECIFICATION Spec
SYMMETRY ObjSymmetry
INVARIANTS
  FamilySafe
  NoPointerToDeleted
  NothingLeaks
  OneMissionAtATime
  MissionFlagJustified
  NativeSaveHasNoCustomScript
