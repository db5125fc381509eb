\* Four requests on a ring of two heads whose indices wrap at 4, two workers.
CONSTANTS
  Num = 2
  IdxMod = 4
  NumWorkers = 2
  Requests = {1, 2, 3, 4}
  Blank = Blank
  Poll = Poll
  Free = Free
  Reads = {1, 2, 3, 4}
  Writes = {}
  Others = {}
  Faulty = {}
  MaxResets = 0
  Reorder = FALSE
SPECIFICATION FairSpec
INVARIANTS
  HeadInOnePlace
  CompletionAnnounced
PROPERTY RequestsAnswered
