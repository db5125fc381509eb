\* Three keys, two bytes sent; the guest may reprogram the port at any time
\* outside its handler.
CONSTANTS
  Keys = {"^A", "^C", "x"}
  CtrlA = "^A"
  CtrlC = "^C"
  Divisor = "#"
  MaxKeys = 3
  MaxTx = 2
SPECIFICATION FairSpec
INVARIANTS
  ReadInOrder
  TxNotLost
  LineNotStuck
  KeysKept
PROPERTY CharsRead
