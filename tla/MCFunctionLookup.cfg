SPECIFICATION FunctionsSpec
CONSTANTS
  Programs <- MCPrograms
  PCBucketSize = 4
  Subbuckets = 2
  Wrap = 1024
  WordSize = 8
INVARIANTS
  FindsFunction
  SearchStaysInside
  FilledInTruly
PROPERTIES
  FindFunctionEnds
