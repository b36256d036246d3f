SPECIFICATION Spec
CONSTANTS
  Registers <- MCRegisters
  VoltageClasses <- MCClasses
  StartWords <- MCPlainWord
  MaxWrites = 1
INVARIANT EchoCanMatch
