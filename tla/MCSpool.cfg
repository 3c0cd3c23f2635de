SPECIFICATION Spec
CONSTANTS
  Segments = {1, 2, 3}
  NoSegment = 0
  Captures = {1, 2, 3}
  NoCapture = 0
  Cites <- ThirdCitesFirst
  Size <- LongPages
  Bound <- LongPages
  Upper <- TheirBodies
  Slack = 2
  SegmentBytes = 8
  SegmentRecords = 2
  MaxSpoolBytes = 16
  MaxSegments = 2
  CommitRecords = 2
  GivenUp <- CatalogToo
  PartBytes = 7
  MaxFaults = 2
INVARIANT TypeOK OpensAgain PinnedUntilReleased
PROPERTY WithinQuota ArchiveKept PendingArchived
CHECK_DEADLOCK FALSE
