CONSTANTS
  native = native
  native2 = native2
  custom = custom
  mission = mission
  Script = {mission}
  Custom <- CustomScripts
  Mission <- Missions
  Version <- Versions
  Main = main
  Module = {module}
  StoreSize = 3
  StackSize = 1
  NumLocals = 1
  Val = {0, 1}
  Zero = 0
  MaxTerms = 1
  Flag = {TRUE, FALSE}
SPECIFICATION Spec
PROPERTIES
  ImplementsCallStack
