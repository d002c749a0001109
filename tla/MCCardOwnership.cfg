SPECIFICATION Spec
CONSTANTS
  Strings = {"id", "name", "manacost"}
  MaxCards = 2
  MaxFaces = 1
  MaxData = 3
INVARIANTS
  IInv
  AllIsFreed
  UndefinedByFaces
