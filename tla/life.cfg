CONSTANTS
  Disk = TRUE
  Net = TRUE
  Workers = {w1, w2}
  MaxEvents = 2
SPECIFICATION FairSpec
INVARIANTS  GoneTooEarly
PROPERTIES DestroyEnds SigtermExits
