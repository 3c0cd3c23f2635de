SPECIFICATION WSpec
CONSTANTS
  w1 = w1 w2 = w2 n1 = n1 p1 = p1 ip1 = ip1 n2 = n2 rules1 = rules1
  Workers = {w1}
  Commands <- TwoCommands
  Sender <- SenderOf
  Urls = {1, 2}
  Origins = {1, 2}
  Ips = {}
  Partitions = {p1}
  Nodes = {n1}
  Payloads = {w1}
  Draft <- DraftOf
  Home <- SameOrigin
  Addresses <- OneHost
  PartitionOf <- OnePartition
  NodeOf <- OneNode
  Discoveries <- Linked
  Seeds = {1}
  Movable = {p1}
  RobotsAnswers = {rules1}
  Rules <- Busy
  NoCapture = NoCapture
  NoTx = NoTx
  NoCommand = NoCommand
  Permanent = Permanent
  TurnOnly = TurnOnly
  Retry = Retry
  RetryAfters = {0}
  Nacks = {Retry, TurnOnly}
  Calls = {"authorize", "commit", "nack", "renew", "continue_redirect", "robots_put", "discover"}
  Nobody = Nobody
  Draining = Draining
  Lease = 1
  Cooldown = 2
  RetryDelay = 2
  MinimumDelay = 1
  Day = 10
  GlobalConcurrency = 1
  IpConcurrency = 1
  DailyRequests = 2
  OriginDailyRequests = 2
  MaximumUrls = 1
  AuxLimit = 1
  Margin = 0
  HttpMax = 1
  PendingMax = 1
  MaxFaults = 1
  GiveUps = {Retry}
  RenewalCost = 0
  RenewEvery = 1
  Grants <- FewGrants
  Instants <- ModelTimes
  MaxStall = 0
  MaxTime = 2
INVARIANT WTypeOK PageUnderMainLease TypeOK PublishedArePresent CapacityCounts ResumesUnderLease
PROPERTY CourtesyNeverShortened

