SPECIFICATION Spec
CONSTANTS
  MantBits = 5
  Handles = {h1, h2}
  Sizes = {1, 3}
  MaxMsgs = 3
INVARIANTS NumbersRead OldIndexAgrees PcbInv
