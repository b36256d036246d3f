SPECIFICATION Spec
CONSTANTS
  Registers <- MCRegisters
  VoltageClasses <- MCClasses
  StartWords <- MCStartWords
  MaxWrites = 3
INVARIANTS
  ShowsWhatItHolds
  ChosenIsShown
  UnownedKept
  BlockStaysReadable
