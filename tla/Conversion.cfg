SPECIFICATION MCSpec
CHECK_DEADLOCK FALSE
CONSTANTS
  Fixed = 2
  Msgs <- AllMsgs
  NewMsgs <- LateMsgs
  MaxCells = 8
  SourceMsgs <- SourceSet
  Mails <- TwoMails
INVARIANTS WalkInOrder ArriveInOrder RepliesLinked FirstReplyFirst SourceReadFirst ConvInv
PROPERTIES WalkComplete WalkEnds
