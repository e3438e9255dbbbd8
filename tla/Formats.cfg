SPECIFICATION Spec
CHECK_DEADLOCK FALSE
CONSTANTS
  MantBits = 5
  MaxPart = 7
  MaxDigit = 2
  Separators <- AddressSeparators
  ByteValues = 16
  JAM_SIGNATURE <- Signature
  ConferenceCounts = 4
INVARIANTS
  RealsKeepLeading
  RealsDecode
  CrcOfBuffers
  PasswordsHold
  AddressesRoundTrip
  AddressesParse
  HeadersRoundTrip
  SubfieldsFill
  BodiesRead
  StatusesKept
  RecipientsWhole
  DoorMessagesRead
  ConferencesRead
  ControlsRoundTrip
  TablesArePolynomial
