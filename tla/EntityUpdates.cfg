SPECIFICATION Spec
CONSTANTS
  Watched <- MCWatched
  BlockSizes <- MCBlockSizes
  Radix = 2
  MaxTicks = 2
INVARIANTS
  DisplayFresh
  TotalNeverAhead
PROPERTIES
  TotalsNeverFall
