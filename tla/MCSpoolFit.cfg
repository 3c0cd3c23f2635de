SPECIFICATION Spec
CONSTANTS
  Segments = {1, 2, 3}
  NoSegment = 0
  Captures = {1, 2}
  NoCapture = 0
  Cites <- CitesNothing
  Size <- Compressed
  Bound <- Compressed
  Upper <- Decoded
  Slack = 1
  SegmentBytes = 4
  SegmentRecords = 2
  MaxSpoolBytes = 8
  MaxSegments = 2
  CommitRecords = 2
  GivenUp <- CatalogToo
  PartBytes = 2
  MaxFaults = 0
INVARIANT GroupFits
CHECK_DEADLOCK FALSE
