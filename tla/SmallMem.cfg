CONSTANTS
  AlignSize = 8
  HeaderSize = 16
  MinSize = 12
  HeapSize = 152
  Sizes = {8, 24, 57, 300}
SPECIFICATION Spec
INVARIANTS
  TypeOK
  ChainTiles
  NoTwoHoles
  LfreeIsLowest
  UsedIsAccounted
  HeldHasRoom
  FindsEveryFit
