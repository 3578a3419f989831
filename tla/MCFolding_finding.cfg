CONSTANTS
  Byte = 2
  Long = 3
  Word = 4
  Leaves = {"x", "y"}
  Values <- SomeValues
  Families <- Flattened
SPECIFICATION Spec
INVARIANTS FoldKeepsValue
CHECK_DEADLOCK FALSE
