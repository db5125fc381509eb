\* Faulty I/O, ignored request types, one reset with a kick still on its way.
CONSTANTS
  Num = 2
  IdxMod = 4
  NumWorkers = 2
  Requests = {1, 2, 3}
  Blank = Blank
  Poll = Poll
  Free = Free
  Reads = {1, 3}
  Writes = {1, 2}
  Others = {2}
  Faulty = {1}
  MaxResets = 1
  Reorder = TRUE
SPECIFICATION Spec
INVARIANT HeadInOnePlace
PROPERTIES
  DiskService
  RefusedOnlyByStraggler
