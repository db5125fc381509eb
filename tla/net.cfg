\* Two queues of two heads, two packets either way, three in all; the device set up
\* twice: first with rings below, then above 4 GB.
CONSTANTS
  MaxQueueNum = 4
  Num = 2
  IdxMod = 4
  Blank = Blank
  TxPackets = {1, 2}
  RxPackets = {1, 2}
  MaxPackets = 3
  AnyHead = FALSE
  MaxLives = 2
  Above = {2}
SPECIFICATION FairSpec
INVARIANTS
  OneOwner
  RoomStaysRoom
  OnlyUnreadyStrays
  SetupSucceeds
PROPERTIES
  Receives
  Transmits
  NothingStuck
