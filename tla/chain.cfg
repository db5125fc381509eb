\* All chains over three descriptors of up to two bytes.
CONSTANTS
  N = 3
  Lens = {0, 1, 2}
  Base <- MCBase
  Page = 4
  MemSize = 8
  HopLimit = 4
  MaxOffset = 3
  MaxCount = 3
  IntMod = 4
SPECIFICATION Spec
INVARIANTS
  SizesExact
  CopyAccepted
  CopyExact
PROPERTY Terminates
