SPECIFICATION Spec
CONSTANTS
  a = a  b = b  Dot = Dot
  f1 = f1  f2 = f2
  NBranch = 2
  Names = {a, b}
  Size <- MCSize  Rank <- MCRank
  Blk = 6  EndSize = 2
  Files = {f1}
  MaxVer = 2  MaxEvent = 2
INVARIANTS PassComplete
