SPECIFICATION Spec
CONSTANTS
  h1 = h1
  h2 = h2
  ann = ann
  bob = bob
  NoName = NoName
  NoHeader = NoHeader
  Handles = {h1, h2}
  Names = {ann, bob}
  Crc <- MCCrc
  CRC_SEED <- MCSeed
  Cells = {1, 2, 3, 4}
  Msgs <- LiveMsgs
  Offsets = 8
  Counters = 4
  BaseMsgNum = 1
  SingleWriter = TRUE
  CheckedFlush = FALSE
  Faults = {}
  Cuts = {"text", "header"}
  MaxHdrs = 2
  MaxText = 4
  MaxCounter = 3
  MaxFaults = 0
INVARIANT ModDetectsChange
