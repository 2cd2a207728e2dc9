SPECIFICATION Spec
CONSTANTS
  Text <- MCText
  Numbers <- MCNumbers
  CutNumber <- MCCutNumber
  Times <- MCTimes
  Batches <- MCBatches
  Recordings <- MCRecordings
INVARIANTS TypeOK Grouped UndefinedOnlyIf NeighboursDiffer
PROPERTIES EndToEnd
