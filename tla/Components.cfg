SPECIFICATION PartSpec
CHECK_DEADLOCK FALSE
CONSTANTS
  a = a
  b = b
  l = l
  SaveSlot = {1}
  Setting = {k1, k2}
  Default = {k1}
  Summary = {k1}
  Value = {v1}
  NoValue = NoValue
  NoFile = NoFile
  IniFaults = {"write", "full"}
  Plugin = {p, q}
  Opcode = {1}
  Core = Core
  Null = Null
  Other = Other
  MaxPlugins = 3
  ModuleFile = {m1, m2}
  Export = {e1, e2}
  CleoModule = {m1}
  MaxLoads = 2
  Script = {s1, s2}
  Block = {b1, b2, b3}
  Size = {1}
  Library = {l1}
  MaxCount = 4
  MaxHolds = 2
  Stream = {f1, f2}
  Search = {x1, x2}
  DiskFaults = {"read", "write"}
  MaxLeaks = 1
  Searcher = {s1, s2}
  PoolSize = 3
  Label = {l}
  FxtText = {a, b}
  Message = {a, b}
  Subtitle = {b}
  FxtFile <- Fxts
  MessageQueueSize = 2
  BriefSize = 2
  MaxLines = 2
  Kind = {"WORD", "FLOAT", "INT_ARRAY", "VARLEN_STRING", "TEXTLABEL", "VAR_TEXTLABEL"}
  Length = {0, 3}
  BuffSize = {1, 3}
  LabelSize = 2
  StringSize = 3
  MaxParams = 2
  Token = {"c", "d", "s", "*", ".", "?", "%"}
  MaxTokens = 2
  OutSize = 2
  MaxPrinted = 2
  Zero = Zero
  Words = {a, b}
  Max_Args = 2
  Max_Text_Params = 1
  Key = {1, 2}
  Cheat <- Cheats
  MaxEvents = 1
  CheatLength = 2
INVARIANTS
  ComponentsTypeOK SessionStartsFresh SetupIsKept PointersStayGood
  ResourcesAreListed StreamsAreSettled PollsMissNothing ParametersArrive
