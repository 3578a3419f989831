CONSTANTS
  Region <- Regions
  Cell = 8
  Dword = 4
  Gprs = {"a", "b", "c"}
  ArgRegs = {"b"}
  Volatile = {"a", "b"}
  Xmms = {"x", "y"}
  Regs = {1, 2, 3}
  Code <- Instructions
  NodeLimit = 5
  DepthLimit = 4
  Depth = 5
  Programs <- Every
  Allowed = {}
SPECIFICATION PartSpec
INVARIANTS StateIsTrue EventsAreTrue HoldersKeepMeaning OneNodeEach CachesAreTrue
CHECK_DEADLOCK FALSE
