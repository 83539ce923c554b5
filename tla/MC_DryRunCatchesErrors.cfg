SPECIFICATION TSpec
INVARIANT DryRunCatchesErrors
CHECK_DEADLOCK FALSE
CONSTANTS
  MaxHeight <- MCMaxHeight
  InitBalances <- MCInitBalances
