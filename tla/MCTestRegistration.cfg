SPECIFICATION TFairSpec
INVARIANTS TestTypeOK TestOkMeansConfirmedRegistration
PROPERTY WatchEnds
\* The test returns or panics, and the chain stops at MaxHeight.
CHECK_DEADLOCK FALSE
CONSTANTS
  MaxHeight <- MCMaxHeight
  InitBalances <- MCInitBalances
