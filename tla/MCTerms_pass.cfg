CONSTANTS
  Byte = 2
  Half = 4
  Long = 8
  Word = 16
  Nibble = 1
  Leaves = {}
  Acc = "a"
  Dx = "d"
  Unknown = Unknown
  Programs <- Programmed
  Starts <- Several
  Allowed = {}
SPECIFICATION PartSpec
INVARIANTS RegistersAgree FlagsAgree RulesKeepMeaning KnownBitsHold
CHECK_DEADLOCK FALSE
