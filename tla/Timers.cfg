CONSTANTS
  t1 = t1
  t2 = t2
  t3 = t3
  TickMod = 9
  Timer <- Three
  None = None
  Times = {1, 3}
  OwnOneShot = FALSE
SYMMETRY Sym
SPECIFICATION Spec
INVARIANTS
  TypeOK
  InOrderOfExpiry
  ActiveIsLinked
PROPERTIES
  IsCountdown
