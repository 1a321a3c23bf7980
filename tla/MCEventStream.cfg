SPECIFICATION FairSpec
CONSTANTS
  Wires <- MixedWires
  PreludeLen = 3
  TrailerLen = 1
  W = 16
  MaxNexts = 4
CHECK_DEADLOCK FALSE
INVARIANTS
  TypeOK
  SlicesInRange
  DeliveredInOrder
  NothingLostInSilence
  OneBadFrameCostsOne
PROPERTIES
  NextReturns
  SourceKept
