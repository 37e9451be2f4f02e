CONSTANTS
  Obj = {o1, o2}
  NoObj = NoObj
  Native = Native
  File = {auto}
  AutoFile = {auto}
  Faults = {"read"}
SPECIFICATION Spec
INVARIANTS
  MissionFlagJustified
