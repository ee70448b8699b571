CONSTANTS
  Address <- MCAddress
  Home = "home"
  Data = {0, 1}
  Wait = {0, 1}
  Cycles = 2
  MinBlocks = 1
  MaxBlocks = 3
SPECIFICATION FairSpec
INVARIANTS
  TypeOK
  InStep
PROPERTIES
  Transaction
  ApartStaysPut
  RunReturns
