\* The flags load of virtio_consume_desc may overtake its stores (x86).
CONSTANTS
  Num = 2
  IdxMod = 4
  NumWorkers = 2
  Requests = {1, 2}
  Blank = Blank
  Poll = Poll
  Free = Free
  Reads = {1, 2}
  Writes = {}
  Others = {}
  Faulty = {}
  MaxResets = 0
  Reorder = TRUE
SPECIFICATION Spec
INVARIANT CompletionAnnounced
