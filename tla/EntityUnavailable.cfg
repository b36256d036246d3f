SPECIFICATION Spec
CONSTANTS
  Watched <- MCPlain
  BlockSizes <- MCOneBlockSize
  Radix = 2
  MaxTicks = 1
INVARIANT UnavailableShown
