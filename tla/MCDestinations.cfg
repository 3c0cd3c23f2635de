SPECIFICATION WSpec
CONSTANTS
  w1 = w1 w2 = w2 n1 = n1 p1 = p1 ip1 = ip1 n2 = n2 rules1 = rules1
  Workers = {w1, w2}
  Commands <- TwoCommands
  Sender <- SenderOf
  Urls = {1, 2}
  Origins = {1, 2}
  Ips = {}
  Partitions = {p1}
  Nodes = {n1}
  Payloads = {w1, w2}
  Draft <- DraftOf
  Home <- OwnOrigin
  Addresses <- OneHost
  PartitionOf <- OnePartition
  NodeOf <- OneNode
  Discoveries <- NoLinks
  Seeds = {1, 2}
  Movable = {}
  RobotsAnswers = {}
  Rules <- NoRules
  NoCapture = NoCapture
  NoTx = NoTx
  NoCommand = NoCommand
  Permanent = Permanent
  TurnOnly = TurnOnly
  Retry = Retry
  RetryAfters = {0, 3}
  Nacks = {TurnOnly, Retry}
  Calls = {"authorize", "commit", "nack"}
  Nobody = Nobody
  Draining = Draining
  Lease = 1
  Cooldown = 2
  RetryDelay = 1
  MinimumDelay = 1
  Day = 10
  GlobalConcurrency = 1
  IpConcurrency = 1
  DailyRequests = 2
  OriginDailyRequests = 1
  MaximumUrls = 2
  AuxLimit = 1
  Margin = 0
  HttpMax = 1
  PendingMax = 1
  MaxFaults = 0
  GiveUps = {}
  RenewalCost = 0
  RenewEvery = 1
  Grants <- FewGrants
  Instants <- ModelTimes
  MaxStall = 0
  MaxTime = 3
INVARIANT GlobalLimitOnTheWire
SYMMETRY Alike
VIEW Recent
