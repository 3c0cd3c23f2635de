SPECIFICATION Spec
CONSTANTS
  w1 = w1 w2 = w2 n1 = n1 n2 = n2 p1 = p1 p2 = p2 ip1 = ip1
  draft1 = draft1 draft2 = draft2 rules1 = rules1 throttled = throttled
  Workers = {w1, w2}
  Commands = {w1, w2}
  Sender <- Self
  Urls = {1, 2}
  Origins = {1, 2}
  Ips = {}
  Partitions = {p1}
  Nodes = {n1}
  Payloads = {draft1}
  Home <- OwnOrigin
  Addresses <- NoHosts
  PartitionOf <- OnePartition
  NodeOf <- OneNode
  Discoveries <- NoLinks
  Seeds = {1}
  Movable = {p1}
  RobotsAnswers = {}
  Rules <- NoRules
  NoCapture = NoCapture
  NoTx = NoTx
  Permanent = Permanent
  TurnOnly = TurnOnly
  Retry = Retry
  RetryAfters = {0}
  Nacks = {TurnOnly}
  Calls = {"authorize", "renew", "commit"}
  Nobody = Nobody
  Draining = Draining
  Lease = 2
  Cooldown = 1
  RetryDelay = 1
  MinimumDelay = 1
  Day = 10
  GlobalConcurrency = 1
  IpConcurrency = 1
  DailyRequests = 1
  OriginDailyRequests = 2
  MaximumUrls = 2
  AuxLimit = 1
  MaxStall = 1
  MaxTime = 4
INVARIANT AuxCoversMain HeldOriginHasRow SlotsWithinLimit BudgetsHold
SYMMETRY Alike
