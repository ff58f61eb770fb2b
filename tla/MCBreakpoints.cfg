SPECIFICATION Spec
CONSTANTS
  a1 = a1
  a2 = a2
  a3 = a3
  g1 = g1
  g2 = g2
  Addr <- MCAddr
  GoRoutine <- MCGoRoutine
  NoGoRoutine = NoGoRoutine
  NoAddr = NoAddr
  MaxAssociations = 2
INVARIANTS
  InsertedMatchesTable
  ClearAllSilences
  NilMeansHit
PROPERTIES
  OthersKeepTheirHits
  UnconditionalStays
  KeepsPromise
