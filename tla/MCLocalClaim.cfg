SPECIFICATION Spec
CONSTANTS
  a1 = a1  a2 = a2  c1 = c1  b1 = b1  d1 = d1
  oa = oa  oc = oc  ob = ob  od = od
  sa = sa  sb = sb  sd = sd
  None = None
  Urls = {a1, a2, c1, b1, d1}
  Origins = {oa, oc, ob, od}
  Sites = {sa, sb, sd}
  OriginOf <- Located
  SiteOf <- Owned
  Capacity = 2
  Budget = 2
  Reserve = 1
  MinDelay = 1
  RetryDelay = 2
  NotFoundDelay = 9
  MaxAttempts = 2
  Intervals = {0, 2}
  MaxTime = 4
  Webs <- LastPage
INVARIANT ClaimsFindWork
CHECK_DEADLOCK FALSE
