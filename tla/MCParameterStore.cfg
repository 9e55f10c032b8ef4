SPECIFICATION Spec
CONSTANTS
  p1 = p1
  p2 = p2
  NoProfile = NoProfile
  unfit = unfit
  Profiles = {p1, p2, unfit}
  Valid = {p1, p2}
  Words = 3
  GenerationMod = 4
SYMMETRY ProfileSymmetry
INVARIANTS
  TypeOK
  GenerationsAreAdjacent
PROPERTIES
  ImplementsRecord
