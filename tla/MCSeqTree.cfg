SPECIFICATION Spec
CONSTANTS
  zero = zero
  one = one
  Digit = {zero, one}
  Letter = {a}
  Junk = junk
  Word <- Few
  MaxClasses = 3
  MaxName = 1
  MaxLost = 1
INVARIANT SeqInv
PROPERTY Implements
