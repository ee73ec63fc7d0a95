SPECIFICATION Spec
CONSTANTS
  Value = {x, y, z, u}
  NULL = NULL
  MaxPosets = 2
  Room <- FourThenThree
SYMMETRY Symmetric
INVARIANT PosetInv
PROPERTY Implements
