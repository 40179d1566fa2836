SPECIFICATION FairSpec
CONSTANTS
  a = a
  b = b
  c = c
  Markets <- MCMarkets
PROPERTIES
  DeafIsHealed
  ChangesArePlanned
