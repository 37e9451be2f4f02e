CONSTANTS
  Obj = {o1, o2, o3}
  NoObj = NoObj
  Native = Native
  File = {auto}
  AutoFile = {auto}
  Faults = {"ancestor"}
SPECIFICATION Spec
INVARIANTS
  TerminatedDoesNotRun
