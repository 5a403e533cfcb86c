SPECIFICATION FairSpec
CONSTANTS
  short = short
  full = full
  long = long
  ack = ack
  Message = {short, full, long, ack}
  Size <- MCSize
  Refused = {ack}
  RecvBuff = 4
  OutSize = 2
  WireCap = 1
  MaxSent = 3
  MaxUnsent = 1
INVARIANTS TypeOK NothingLost
PROPERTIES HandledOrTooLong ClosedIsNoticed
CHECK_DEADLOCK FALSE
