CONSTANTS
  Bits = 2
  Intervals = {560, 1690, 2250, 4500, 9000, 20000}
SPECIFICATION IrFairSpec
INVARIANTS
  IrTypeOK
  DecodesFrames
  TakesNewest
PROPERTIES
  PrintsCodes
