SPECIFICATION FairSpec
CONSTANTS
  c1 = c1  c2 = c2
  Conns = {c1, c2}
  Own = c1
  Zero = Zero
  MaxPieces = 1
  BufLen = 2
  OtherPieces <- Others
  Unreliable = {c1}
INVARIANTS TypeOK PrintsWhatCame
PROPERTIES EachServed ConnectionEnds ServerUnloads ClientUnloads
CHECK_DEADLOCK FALSE
