CONSTANTS
  native = native
  native2 = native2
  custom = custom
  mission = mission
  Script = {native, native2}
  Custom <- CustomScripts
  Mission <- Missions
  Version <- Versions
  Main = main
  Module = {module}
  StoreSize = 4
  StackSize = 1
  NumLocals = 1
  Val = {0}
  Zero = 0
  MaxTerms = 0
  Flag = {FALSE}
SPECIFICATION Spec
INVARIANTS
  MainDirIsKept
