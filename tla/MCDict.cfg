SPECIFICATION DictSpec
CONSTANTS
  Keys = {1, 2, 3, 4, 5}
  Values = {v1, v2}
  NoValue = NoValue
  Hash <- Halved
  CompareWidth = 3
  InitialBins = 2
  Growth = 2
INVARIANT WellFormed
PROPERTY DictIsMap
