SPECIFICATION Spec
CONSTANTS
  h1 = h1
  h2 = h2
  ann = ann
  bob = bob
  NoName = NoName
  NoHeader = NoHeader
  Handles = {h1}
  Names = {ann, bob}
  Crc <- MCCrc
  CRC_SEED <- MCSeed
  Cells = {1, 2, 3, 4}
  Msgs <- TwoMsgs
  Offsets = 8
  Counters = 1
  BaseMsgNum = 1
  SingleWriter = TRUE
  CheckedFlush = FALSE
  Faults = {"error"}
  Cuts = {}
  MaxHdrs = 2
  MaxText = 4
  MaxCounter = 1
  MaxFaults = 1
INVARIANT NumbersAreRecords
