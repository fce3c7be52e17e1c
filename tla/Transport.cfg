SPECIFICATION FairSpec
CONSTANTS
  Size = 7
  SegmentSize = 2
  WindowSize = 2
  Strays <- StrayDatagrams
INVARIANTS
  TypeOK
  FileIsPrefix
  SlotHoldsItsSegment
  NoAnswerAboveWindow
  DoneMeansComplete
PROPERTIES
  ReceivedIsKept
  Completion
