SPECIFICATION WSpec
CONSTANTS
  w1 = w1 w2 = w2 n1 = n1 p1 = p1 ip1 = ip1 n2 = n2 rules1 = rules1
  Workers = {w1, w2}
  Commands <- TwoCommands
  Sender <- SenderOf
  Urls = {1}
  Origins = {1}
  Ips = {}
  Partitions = {p1}
  Nodes = {n1}
  Payloads = {w1, w2}
  Draft <- DraftOf
  Home <- SameOrigin
  Addresses <- OneHost
  PartitionOf <- OnePartition
  NodeOf <- OneNode
  Discoveries <- NoLinks
  Seeds = {1}
  Movable = {}
  RobotsAnswers = {}
  Rules <- NoRules
  NoCapture = NoCapture
  NoTx = NoTx
  NoCommand = NoCommand
  Permanent = Permanent
  TurnOnly = TurnOnly
  Retry = Retry
  RetryAfters = {0}
  Nacks = {TurnOnly, Retry}
  Calls = {"authorize", "commit", "nack"}
  Nobody = Nobody
  Draining = Draining
  Lease = 1
  Cooldown = 2
  RetryDelay = 1
  MinimumDelay = 1
  Day = 10
  GlobalConcurrency = 1
  IpConcurrency = 1
  DailyRequests = 2
  OriginDailyRequests = 2
  MaximumUrls = 2
  AuxLimit = 1
  Margin = 0
  HttpMax = 1
  PendingMax = 1
  MaxFaults = 1
  GiveUps = {}
  RenewalCost = 0
  RenewEvery = 1
  Grants <- FewGrants
  Instants <- ModelTimes
  MaxStall = 0
  MaxTime = 4
INVARIANT OffersReconcile
SYMMETRY Alike
VIEW Recent
