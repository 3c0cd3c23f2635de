--------------------------- MODULE CentralFrontier ---------------------------
(***************************************************************************)
(* The PostgreSQL function crawler.rpc: the central frontier that leased   *)
(* workers share (configs/crawler/postgres/schema.sql).                    *)
(*                                                                         *)
(* Every call runs in one transaction.  A call about a URL locks the URL   *)
(* row, then its origin row, reads the clock once (now_at), checks the     *)
(* lease and writes.  With synchronous replication the commit may take     *)
(* long after that clock was read, and until it ends no other transaction  *)
(* sees the writes.  So a call is two steps here: Begin takes the locks,   *)
(* reads the clock and decides; Finish makes the writes visible.  Abort is *)
(* a lost connection or a primary that fails over in between.  A claim     *)
(* starts with one more step, the snapshot that picks its candidate before *)
(* any row is locked.                                                      *)
(*                                                                         *)
(* Clients are arbitrary here: any worker may send any call at any time.   *)
(***************************************************************************)
EXTENDS Integers, FiniteSets, Sequences

CONSTANTS
  Workers, Commands, Urls, Origins, Ips, Partitions, Nodes, Payloads,
  Home,        \* Home[u]: origin a URL is admitted under
  Addresses,   \* Addresses[o]: addresses the name of the origin resolves to
  PartitionOf, \* PartitionOf[o]
  Sender,      \* Sender[c]: worker_id in the call with command_id c
  NodeOf,      \* NodeOf[w]: node_id the worker sends
  Discoveries, \* Discoveries[u]: URLs found in the page, in outbox order
  Seeds,       \* URLs admitted from outside
  Movable,     \* partitions that operators may transfer
  RobotsAnswers, Rules, \* Rules[a]: ttl, delay and failed of a robots.txt answer
  Nobody, Draining, NoCapture, NoTx,
  Permanent, TurnOnly, Retry, Nacks, \* what a nack asks for
  RetryAfters, \* what origin_retry_after_ms of a commit or nack may be
  Calls,       \* calls that clients make
  Lease, Cooldown, RetryDelay, MinimumDelay, Day,
  GlobalConcurrency, IpConcurrency, DailyRequests, OriginDailyRequests,
  MaximumUrls, AuxLimit,
  MaxStall,    \* bound: longest time from now_at to a visible commit
  MaxTime      \* bound: the clock stops here

NoToken    == <<0, 0, 0>>       \* token IS NULL
NoOrigin   == 0                 \* next_origin, continuation IS NULL
NoUrl      == 0
NoDeadline == 0 - Cooldown      \* deadline IS NULL: lapsed and cooled down at any time
NoRow      == <<NoToken, 0>>    \* no auxiliary_origins row
Global     == 0                 \* the budget scope that is not an origin

Tokens == Nat \X Nat \X Nat     \* origin, epoch and URL of a claim stand for its fresh uuid
Times  == 0 .. MaxTime
Days   == {t \div Day : t \in Times}
States == {"absent", "queued", "leased", "committed", "terminal"}

Actions == {"renew", "authorize", "continue_redirect", "commit", "nack",
            "robots_put", "discover"}

ASSUME ConstantAssumptions ==
  /\ Origins \subseteq Nat \ {0} /\ Urls \subseteq Nat \ {0}
  /\ IsFiniteSet(Origins) /\ IsFiniteSet(Urls) /\ IsFiniteSet(Ips)
  /\ {Lease, Cooldown, Day} \subseteq Nat \ {0}
  /\ {RetryDelay, MinimumDelay, MaxStall, MaxTime, AuxLimit, MaximumUrls} \subseteq Nat
  /\ {GlobalConcurrency, IpConcurrency, DailyRequests, OriginDailyRequests} \subseteq Nat
  /\ Home \in [Urls -> Origins]
  /\ Addresses \in [Origins -> SUBSET Ips]
  /\ PartitionOf \in [Origins -> Partitions]
  /\ Sender \in [Commands -> Workers] /\ NodeOf \in [Workers -> Nodes]
  /\ Discoveries \in [Urls -> Seq(Urls)]
  /\ Rules \in [RobotsAnswers -> [ttl : Nat, delay : Nat, failed : BOOLEAN]]
  /\ RetryAfters \subseteq Nat
  /\ Seeds \subseteq Urls /\ Movable \subseteq Partitions
  /\ Nobody \notin Workers /\ Draining \notin Nodes /\ NoCapture \notin Payloads
  /\ Calls \subseteq Actions /\ Nacks \subseteq {Permanent, TurnOnly, Retry}
  /\ Permanent # TurnOnly /\ Permanent # Retry /\ TurnOnly # Retry

VARIABLES
  now, partitions, origins, urls, captures, outbox, capacity,
  auxiliary_origins, request_slots, ip_slots, budgets, robots_cache,
  tx,     \* tx[u]: the transaction that holds the row of u
  pick    \* pick[c]: the candidate the snapshot of a claim chose

tables == <<partitions, origins, urls, captures, outbox, capacity,
            auxiliary_origins, request_slots, ip_slots, budgets, robots_cache>>
vars == <<now, tables, tx, pick>>

Max2(a, b) == IF a >= b THEN a ELSE b
Min2(a, b) == IF a <= b THEN a ELSE b

Init ==
  /\ now = 0
  /\ partitions \in [Partitions -> Nodes]
  /\ origins = [o \in Origins |->
       [epoch |-> 0, owner |-> Nobody, token |-> NoToken,
        deadline |-> NoDeadline, eligible_at |-> 0, last_turn |-> 0]]
  /\ urls = [u \in Urls |->
       [state |-> IF u \in Seeds THEN "queued" ELSE "absent", origin |-> Home[u],
        next_origin |-> NoOrigin, continuation |-> NoOrigin,
        attempts |-> 0, eligible_at |-> 0]]
  /\ captures = [u \in Urls |-> NoCapture]
  /\ outbox = [u \in Urls |-> [published |-> 0, done |-> FALSE]]
  /\ capacity = Cardinality(Seeds)
  /\ auxiliary_origins = [u \in Urls |-> [o \in Origins |-> NoRow]]
  /\ request_slots = [u \in Urls |-> 0]
  /\ ip_slots = [u \in Urls |-> [i \in Ips |-> 0]]
  /\ budgets = [d \in Days |-> [s \in Origins \cup {Global} |-> 0]]
  /\ robots_cache = [o \in Origins |-> [expires_at |-> 0, delay |-> 0]]
  /\ tx = [u \in Urls |-> NoTx]
  /\ pick = [c \in Commands |-> NoUrl]

-----------------------------------------------------------------------------
(* Row locks *)

OriginLocks == UNION {tx[u].locks : u \in {v \in Urls : tx[v] # NoTx}}

AuxRows(u) == {o \in Origins : auxiliary_origins[u][o] # NoRow}

(* The auxiliary origins whose row still carries the token and epoch that  *)
(* this URL acquired: what commit and nack release.                        *)
OwnAux(u) ==
  {o \in AuxRows(u) : auxiliary_origins[u][o] = <<origins[o].token, origins[o].epoch>>}

(* What renew extends beside the main origin: the token alone is compared. *)
SharedAux(u) ==
  {o \in AuxRows(u) : origins[o].token = origins[urls[u].origin].token}

-----------------------------------------------------------------------------
(* claim *)

Ready(o) ==
  {u \in Urls : /\ urls[u].origin = o
                /\ urls[u].state \in {"queued", "leased"}
                /\ urls[u].eligible_at <= now}

Claimable(node) ==
  {o \in Origins : /\ partitions[PartitionOf[o]] = node
                   /\ origins[o].eligible_at <= now
                   /\ origins[o].deadline + Cooldown <= now
                   /\ Ready(o) # {}}

Before(a, i, b, j) == a < b \/ (a = b /\ i <= j)

(* The oldest ready URL of the origin that has waited longest for a turn.  *)
Candidate(node, u) ==
  \E o \in Claimable(node) :
    /\ \A p \in Claimable(node) :
         Before(origins[o].last_turn, o, origins[p].last_turn, p)
    /\ u \in Ready(o)
    /\ \A v \in Ready(o) : Before(urls[u].eligible_at, u, urls[v].eligible_at, v)

ClaimPick(c) ==
  /\ pick[c] = NoUrl
  /\ \E u \in Urls : Candidate(NodeOf[Sender[c]], u) /\ pick' = [pick EXCEPT ![c] = u]
  /\ UNCHANGED <<now, tables, tx>>

(* FOR UPDATE SKIP LOCKED on the URL row.  Only the id is compared with    *)
(* the snapshot again, so the row may have changed since.  Then the origin *)
(* the row names now is locked and its two clocks are read again.          *)
Grantable(o) == origins[o].eligible_at <= now /\ origins[o].deadline + Cooldown <= now

\* Wrong: the clocks are not read again once the origin is locked.
ClaimGivesUnchecked(c) ==
  /\ pick[c] # NoUrl
  /\ tx[pick[c]] = NoTx
  /\ urls[pick[c]].origin \notin OriginLocks

ClaimGives(c) ==
  /\ pick[c] # NoUrl
  /\ tx[pick[c]] = NoTx
  /\ urls[pick[c]].origin \notin OriginLocks
  /\ Grantable(urls[pick[c]].origin)

ClaimEmpty(c) ==
  /\ pick[c] # NoUrl
  /\ \/ tx[pick[c]] # NoTx
     \/ urls[pick[c]].origin \notin OriginLocks /\ ~Grantable(urls[pick[c]].origin)
  /\ pick' = [pick EXCEPT ![c] = NoUrl]
  /\ UNCHANGED <<now, tables, tx>>

ClaimBegin(c) ==
  /\ ClaimGives(c)
  /\ LET u == pick[c] IN
     tx' = [tx EXCEPT ![u] =
       [req |-> [action |-> "claim", command |-> c, url |-> u,
                 token |-> <<urls[u].origin, origins[urls[u].origin].epoch + 1, u>>,
                 arg |-> urls[u].continuation],
        at |-> now, locks |-> {urls[u].origin}, slots |-> FALSE, verdict |-> "ok"]]
  /\ pick' = [pick EXCEPT ![c] = NoUrl]
  /\ UNCHANGED <<now, tables>>

ClaimApply(t) ==
  LET u == t.req.url  o == urls[u].origin IN
  /\ origins' = [origins EXCEPT ![o] =
       [epoch |-> @.epoch + 1, owner |-> Sender[t.req.command], token |-> t.req.token,
        deadline |-> t.at + Lease, eligible_at |-> @.eligible_at, last_turn |-> t.at]]
  /\ urls' = [urls EXCEPT ![u].state = "leased"]
  /\ UNCHANGED <<partitions, captures, outbox, capacity, auxiliary_origins,
                 request_slots, ip_slots, budgets, robots_cache>>

-----------------------------------------------------------------------------
(* Calls about a leased URL.  A request is                                 *)
(* [action, command, url, token, arg]; the epoch travels in the token.      *)

Fenced(r) ==
  LET o == origins[urls[r.url].origin] IN
  \/ urls[r.url].state # "leased"
  \/ o.owner # Sender[r.command]
  \/ o.token # r.token
  \/ o.epoch # r.token[2]
  \/ o.deadline <= now

Transferring(r) ==
  \/ partitions[PartitionOf[urls[r.url].origin]] # NodeOf[Sender[r.command]]
  \/ \E o \in AuxRows(r.url) : partitions[PartitionOf[o]] = Draining

(* authorize for an origin other than the URL's own *)
Foreign(r) == r.arg # urls[r.url].origin
AuxBusy(r) ==
  \/ partitions[PartitionOf[r.arg]] = Draining
  \/ r.arg \in OriginLocks
  \/ origins[r.arg].deadline + Cooldown > now /\ origins[r.arg].token # r.token

(* Slots left once authorize has deleted the expired ones. *)
LiveSlots == {u \in Urls : request_slots[u] > now}
OtherUsers(u, i) == {v \in Urls \ {u} : ip_slots[v][i] > now}
Today == now \div Day

\* Wrong: a saved redirect may go on under an auxiliary lease.
AuthorizeVerdictHandsOn(r) ==
  IF Foreign(r) /\ Cardinality(AuxRows(r.url)) >= AuxLimit THEN "redirect_limit"
  ELSE IF Foreign(r) /\ AuxBusy(r) THEN "courtesy_deferred"
  ELSE IF origins[r.arg].eligible_at > now THEN "origin_not_eligible"
  ELSE IF r.url \notin LiveSlots /\ Cardinality(LiveSlots) >= GlobalConcurrency
       THEN "slots_full"
  ELSE IF \/ budgets[Today][Global] >= DailyRequests
          \/ budgets[Today][r.arg] >= OriginDailyRequests
       THEN "aggregate_budget"
  ELSE IF \E i \in Addresses[r.arg] : Cardinality(OtherUsers(r.url, i)) >= IpConcurrency
       THEN "ip_full"
  ELSE "ok"

AuthorizeVerdict(r) ==
  IF Foreign(r) /\ urls[r.url].next_origin # NoOrigin THEN "redirect_origin_requires_lease"
  ELSE IF Foreign(r) /\ Cardinality(AuxRows(r.url)) >= AuxLimit THEN "redirect_limit"
  ELSE IF Foreign(r) /\ AuxBusy(r) THEN "courtesy_deferred"
  ELSE IF origins[r.arg].eligible_at > now THEN "origin_not_eligible"
  ELSE IF r.url \notin LiveSlots /\ Cardinality(LiveSlots) >= GlobalConcurrency
       THEN "slots_full"
  ELSE IF \/ budgets[Today][Global] >= DailyRequests
          \/ budgets[Today][r.arg] >= OriginDailyRequests
       THEN "aggregate_budget"
  ELSE IF \E i \in Addresses[r.arg] : Cardinality(OtherUsers(r.url, i)) >= IpConcurrency
       THEN "ip_full"
  ELSE "ok"

Verdict(r) ==
  IF r.action = "commit" /\ captures[r.url] # NoCapture
    THEN IF captures[r.url] = r.arg THEN "duplicate" ELSE "capture_conflict"
  ELSE IF Fenced(r) THEN "lease_fenced"
  ELSE IF r.action = "renew" /\ Transferring(r) THEN "partition_transferring"
  ELSE IF r.action = "authorize" THEN AuthorizeVerdict(r)
  ELSE "ok"

(* Answers that leave every table as it was.  The other refusals of        *)
(* authorize come after it has acquired an origin, a slot or both, and     *)
(* those writes are committed with the refusal.                            *)
\* Wrong: a fenced call goes on.
RefusalsUnfenced == {"duplicate", "capture_conflict", "partition_transferring",
             "redirect_origin_requires_lease", "redirect_limit", "courtesy_deferred"}
Refusals == {"duplicate", "capture_conflict", "lease_fenced", "partition_transferring",
             "redirect_origin_requires_lease", "redirect_limit", "courtesy_deferred"}
TakesSlotLock == {"slots_full", "aggregate_budget", "ip_full", "ok"}
TakesSlot     == {"aggregate_budget", "ip_full", "ok"}

(* Origin rows the transaction writes or locks. *)
Rows(r) ==
  {urls[r.url].origin} \cup
    CASE r.action = "renew"              -> SharedAux(r.url)
      [] r.action = "authorize"          -> {r.arg}
      [] r.action \in {"commit", "nack"} -> OwnAux(r.url)
      [] OTHER                           -> {}

(* The call has its locks: it can be answered now. *)
Served(r) ==
  /\ tx[r.url] = NoTx
  /\ urls[r.url].state # "absent"
  /\ urls[r.url].origin \notin OriginLocks

Refused(r) == Served(r) /\ Verdict(r) \in Refusals

(* Deleting the expired slots waits for a transaction that rewrites one,   *)
(* and the other way round.                                                *)
SlotWriters == {"renew", "commit", "nack"}
Expired(u, at) == request_slots[u] # 0 /\ request_slots[u] <= at
\* Wrong: no lock around counting slots and budgets.
SlotWaitNever(r, slots) == FALSE
SlotWait(r, slots) ==
  \E v \in Urls : /\ tx[v] # NoTx
                  /\ \/ slots /\ tx[v].slots
                     \/ slots /\ tx[v].req.action \in SlotWriters /\ Expired(v, now)
                     \/ tx[v].slots /\ r.action \in SlotWriters /\ Expired(r.url, tx[v].at)

Begin(r) ==
  /\ Served(r)
  /\ Verdict(r) \notin Refusals
  /\ Rows(r) \cap OriginLocks = {}
  /\ LET slots == r.action = "authorize" /\ Verdict(r) \in TakesSlotLock IN
     /\ ~SlotWait(r, slots)
     /\ tx' = [tx EXCEPT ![r.url] =
          [req |-> r, at |-> now, locks |-> Rows(r), slots |-> slots,
           verdict |-> Verdict(r)]]
  /\ UNCHANGED <<now, tables, pick>>

\* Wrong: the auxiliary origins are not renewed.
RenewApplyMainOnly(t) ==
  LET u == t.req.url IN
  /\ origins' = [origins EXCEPT ![urls[u].origin].deadline = t.at + Lease]
  /\ request_slots' = [request_slots EXCEPT ![u] =
       IF @ = 0 THEN 0 ELSE t.at + Lease + Cooldown]
  /\ UNCHANGED <<partitions, urls, captures, outbox, capacity,
                 auxiliary_origins, ip_slots, budgets, robots_cache>>

RenewApply(t) ==
  LET u == t.req.url IN
  /\ origins' = [o \in Origins |->
       IF o \in t.locks THEN [origins[o] EXCEPT !.deadline = t.at + Lease] ELSE origins[o]]
  /\ request_slots' = [request_slots EXCEPT ![u] =
       IF @ = 0 THEN 0 ELSE t.at + Lease + Cooldown]
  /\ UNCHANGED <<partitions, urls, captures, outbox, capacity,
                 auxiliary_origins, ip_slots, budgets, robots_cache>>

(* An auxiliary request lease: the foreign origin gets the caller's token. *)
Acquires(t) == t.req.arg # urls[t.req.url].origin /\ origins[t.req.arg].token # t.req.token

CrawlDelay(o, at) == IF robots_cache[o].expires_at > at THEN robots_cache[o].delay ELSE 0

\* Wrong: a slot ends with the lease, not with its cooldown.
SlotUntilDeadline(held) == held.deadline
SlotUntil(held) == held.deadline + Cooldown

AuthorizeApply(t) ==
  LET u == t.req.url  dest == t.req.arg  day == t.at \div Day
      held == IF Acquires(t)
              THEN [origins[dest] EXCEPT !.epoch = @ + 1, !.owner = Sender[t.req.command],
                                         !.token = t.req.token, !.deadline = t.at + Lease]
              ELSE origins[dest]
      until == SlotUntil(held)
      delay == Max2(MinimumDelay, CrawlDelay(dest, t.at))
  IN
  /\ origins' = [origins EXCEPT ![dest] =
       IF t.verdict = "ok" THEN [held EXCEPT !.eligible_at = t.at + delay] ELSE held]
  /\ auxiliary_origins' = IF Acquires(t)
       THEN [auxiliary_origins EXCEPT ![u][dest] = <<held.token, held.epoch>>]
       ELSE auxiliary_origins
  /\ request_slots' = IF t.slots
       THEN [v \in Urls |-> IF v = u /\ t.verdict \in TakesSlot THEN until
                            ELSE IF request_slots[v] <= t.at THEN 0 ELSE request_slots[v]]
       ELSE request_slots
  /\ ip_slots' = IF t.verdict = "ok"
       THEN [ip_slots EXCEPT ![u] =
              [i \in Ips |-> IF i \in Addresses[dest] THEN until ELSE @[i]]]
       ELSE ip_slots
  /\ budgets' = IF t.verdict = "ok"
       THEN [budgets EXCEPT ![day][Global] = @ + 1, ![day][dest] = @ + 1] ELSE budgets
  /\ urls' = IF t.verdict = "aggregate_budget"
       THEN [urls EXCEPT ![u].eligible_at = (day + 1) * Day] ELSE urls
  /\ UNCHANGED <<partitions, captures, outbox, capacity, robots_cache>>

RobotsPutApply(t) ==
  LET o == urls[t.req.url].origin IN
  /\ robots_cache' = [p \in Origins |->
       IF p = o THEN [expires_at |-> t.at + Rules[t.req.arg].ttl, delay |-> Rules[t.req.arg].delay]
       ELSE IF robots_cache[p].expires_at < t.at THEN [expires_at |-> 0, delay |-> 0]
       ELSE robots_cache[p]]
  /\ origins' = [origins EXCEPT ![o].eligible_at =
       Max2(@, t.at + IF Rules[t.req.arg].failed THEN Rules[t.req.arg].ttl ELSE Rules[t.req.arg].delay)]
  /\ UNCHANGED <<partitions, urls, captures, outbox, capacity,
                 auxiliary_origins, request_slots, ip_slots, budgets>>

ContinueApply(t) ==
  /\ urls' = [urls EXCEPT ![t.req.url].continuation = t.req.arg,
                          ![t.req.url].next_origin = t.req.arg]
  /\ UNCHANGED <<partitions, origins, captures, outbox, capacity,
                 auxiliary_origins, request_slots, ip_slots, budgets, robots_cache>>

Absent(S) == {u \in S : urls[u].state = "absent"}
Inserted(S) == [u \in Urls |->
  IF u \in Absent(S) THEN [urls[u] EXCEPT !.state = "queued"] ELSE urls[u]]

(* discover inserts the rows itself: capacity is neither read nor counted. *)
DiscoverApply(t) ==
  /\ urls' = Inserted({t.req.arg})
  /\ UNCHANGED <<partitions, origins, captures, outbox, capacity,
                 auxiliary_origins, request_slots, ip_slots, budgets, robots_cache>>

(* commit and nack give the origins back and start the quiet period.  The *)
(* main origin may have asked for a longer one (Retry-After).              *)
QuietUntil(t, o, wait) ==
  t.at + IF o = urls[t.req.url].origin THEN Max2(Cooldown, wait) ELSE Cooldown

\* Wrong: a release replaces the pause instead of extending it.
ReleasedEarly(t, wait) ==
  [o \in Origins |->
     IF o \in t.locks
     THEN [origins[o] EXCEPT !.owner = Nobody, !.token = NoToken, !.deadline = NoDeadline,
                             !.eligible_at = QuietUntil(t, o, wait)]
     ELSE origins[o]]

\* Wrong: only the main origin is given back.
ReleasedMainOnly(t, wait) ==
  LET main == urls[t.req.url].origin IN
  [origins EXCEPT ![main] =
     [@ EXCEPT !.owner = Nobody, !.token = NoToken, !.deadline = NoDeadline,
               !.eligible_at = Max2(@, QuietUntil(t, main, wait))]]

Released(t, wait) ==
  [o \in Origins |->
     IF o \in t.locks
     THEN [origins[o] EXCEPT !.owner = Nobody, !.token = NoToken, !.deadline = NoDeadline,
                             !.eligible_at = Max2(@, QuietUntil(t, o, wait))]
     ELSE origins[o]]
Cooling(t, slot) == IF slot = 0 THEN 0 ELSE t.at + Cooldown

ReleaseApply(t) ==
  LET u == t.req.url IN
  /\ \E wait \in RetryAfters : origins' = Released(t, wait)
  /\ auxiliary_origins' = [auxiliary_origins EXCEPT ![u] = [o \in Origins |-> NoRow]]
  /\ request_slots' = [request_slots EXCEPT ![u] = Cooling(t, @)]
  /\ ip_slots' = [ip_slots EXCEPT ![u] = [i \in Ips |-> Cooling(t, @[i])]]

CommitApply(t) ==
  LET u == t.req.url IN
  /\ captures' = [captures EXCEPT ![u] = t.req.arg]
  /\ outbox' = [outbox EXCEPT ![u] = [published |-> 0, done |-> FALSE]]
  /\ urls' = [urls EXCEPT ![u].state = "committed"]
  /\ ReleaseApply(t)
  /\ UNCHANGED <<partitions, capacity, budgets, robots_cache>>

\* Wrong: the URL stays under its old origin.
NackApplyInPlace(t) ==
  LET u == t.req.url  row == urls[u] IN
  /\ urls' = [urls EXCEPT ![u] = [row EXCEPT
       !.state = IF t.req.arg = Permanent THEN "terminal" ELSE "queued",
       !.eligible_at = Max2(row.eligible_at, t.at + RetryDelay),
       !.attempts = IF t.req.arg = TurnOnly THEN row.attempts ELSE row.attempts + 1,
       !.next_origin = NoOrigin]]
  /\ ReleaseApply(t)
  /\ UNCHANGED <<partitions, captures, outbox, capacity, budgets, robots_cache>>

NackApply(t) ==
  LET u == t.req.url  row == urls[u] IN
  /\ urls' = [urls EXCEPT ![u] = [row EXCEPT
       !.state = IF t.req.arg = Permanent THEN "terminal" ELSE "queued",
       !.eligible_at = Max2(row.eligible_at, t.at + RetryDelay),
       !.attempts = IF t.req.arg = TurnOnly THEN row.attempts ELSE row.attempts + 1,
       !.origin = IF row.next_origin = NoOrigin THEN row.origin ELSE row.next_origin,
       !.next_origin = NoOrigin]]
  /\ ReleaseApply(t)
  /\ UNCHANGED <<partitions, captures, outbox, capacity, budgets, robots_cache>>

Apply(t) ==
  \/ t.req.action = "claim"      /\ ClaimApply(t)
  \/ t.req.action = "renew"      /\ RenewApply(t)
  \/ t.req.action = "authorize"  /\ AuthorizeApply(t)
  \/ t.req.action = "robots_put" /\ RobotsPutApply(t)
  \/ t.req.action = "continue_redirect" /\ ContinueApply(t)
  \/ t.req.action = "discover"   /\ DiscoverApply(t)
  \/ t.req.action = "commit"     /\ CommitApply(t)
  \/ t.req.action = "nack"       /\ NackApply(t)

Finish(u) ==
  /\ tx[u] # NoTx
  /\ Apply(tx[u])
  /\ tx' = [tx EXCEPT ![u] = NoTx]
  /\ UNCHANGED <<now, pick>>

Abort(u) ==
  /\ tx[u] # NoTx
  /\ tx' = [tx EXCEPT ![u] = NoTx]
  /\ UNCHANGED <<now, tables, pick>>

-----------------------------------------------------------------------------
(* Calls that are not about a lease, and the world around the database *)

Room(S) == capacity + Cardinality(Absent(S)) <= MaximumUrls

\* Wrong: a full frontier drops URLs without undoing the call.
AdmitUrlsDropping(S) ==
  IF Room(S) THEN urls' = Inserted(S) /\ capacity' = capacity + Cardinality(Absent(S))
             ELSE UNCHANGED <<urls, capacity>>

\* Wrong: URLs that are there already are counted again.
AdmitUrlsRecounting(S) ==
  /\ Room(S)
  /\ urls' = Inserted(S)
  /\ capacity' = capacity + Cardinality(S)

(* admit_url for each URL of S; a full frontier raises and undoes the call. *)
AdmitUrls(S) ==
  /\ Room(S)
  /\ urls' = Inserted(S)
  /\ capacity' = capacity + Cardinality(Absent(S))

Admit(u) ==
  /\ Absent({u}) # {}
  /\ AdmitUrls({u})
  /\ UNCHANGED <<now, partitions, origins, captures, outbox, auxiliary_origins,
                 request_slots, ip_slots, budgets, robots_cache, tx, pick>>

Chunk(u, k) ==
  {Discoveries[u][i] : i \in outbox[u].published + 1 .. outbox[u].published + k}

(* One page of discoveries becomes frontier URLs and the cursor moves, in  *)
(* one transaction.                                                        *)
PublishOutbox(u, k) ==
  /\ captures[u] # NoCapture
  /\ ~outbox[u].done
  /\ outbox[u].published + k <= Len(Discoveries[u])
  /\ AdmitUrls(Chunk(u, k))
  /\ outbox' = [outbox EXCEPT ![u] =
       [published |-> @.published + k, done |-> @.published + k = Len(Discoveries[u])]]
  /\ UNCHANGED <<now, partitions, origins, captures, auxiliary_origins,
                 request_slots, ip_slots, budgets, robots_cache, tx, pick>>

(* Operators move a partition: drain it, then name the new owner. *)
Transfer(p, owner) ==
  /\ p \in Movable
  /\ IF owner = Draining THEN partitions[p] # Draining ELSE partitions[p] = Draining
  /\ partitions' = [partitions EXCEPT ![p] = owner]
  /\ UNCHANGED <<now, origins, urls, captures, outbox, capacity, auxiliary_origins,
                 request_slots, ip_slots, budgets, robots_cache, tx, pick>>

(* A transaction may stall.  A claim does not wait between its snapshot and *)
(* its first lock, so that the clock stands still in between.              *)
Tick ==
  /\ now < MaxTime
  /\ \A c \in Commands : pick[c] = NoUrl
  /\ \A u \in Urls : tx[u] # NoTx => now < tx[u].at + MaxStall
  /\ now' = now + 1
  /\ UNCHANGED <<tables, tx, pick>>

Args(action) ==
  CASE action = "renew"      -> {NoUrl}
    [] action \in {"authorize", "continue_redirect"} -> Origins
    [] action = "commit"     -> Payloads
    [] action = "nack"       -> {Permanent, TurnOnly, Retry}
    [] action = "robots_put" -> RobotsAnswers
    [] action = "discover"   -> Urls

Asked(action) == IF action = "nack" THEN Nacks ELSE Args(action)

(* Any client: it presents the token of the row, since any other is fenced, *)
(* with the URL that it was given together with this token.                *)
Call(c, u, action, arg) ==
  LET token == origins[urls[u].origin].token IN
  /\ token[3] = u
  /\ Begin([action |-> action, command |-> c, url |-> u, token |-> token, arg |-> arg])

(* The clock has reached its bound. *)
Horizon == now = MaxTime /\ UNCHANGED vars

Next ==
  \/ \E c \in Commands : ClaimPick(c) \/ ClaimEmpty(c) \/ ClaimBegin(c)
  \/ \E c \in Commands, u \in Urls, action \in Calls :
       \E arg \in Asked(action) : Call(c, u, action, arg)
  \/ \E u \in Urls : Finish(u) \/ Abort(u) \/ Admit(u)
  \/ \E u \in Urls, k \in 0 .. MaximumUrls : PublishOutbox(u, k)
  \/ \E p \in Partitions, owner \in Nodes \cup {Draining} : Transfer(p, owner)
  \/ Tick
  \/ Horizon

Spec == Init /\ [][Next]_vars

-----------------------------------------------------------------------------
OriginRow == [epoch : Nat, owner : Workers \cup {Nobody}, token : Tokens,
              deadline : Nat \cup {NoDeadline}, eligible_at : Nat, last_turn : Nat]
UrlRow == [state : States, origin : Origins, next_origin : Origins \cup {NoOrigin},
           continuation : Origins \cup {NoOrigin}, attempts : Nat, eligible_at : Nat]
RequestsOf(action, args) ==
  [action : {action}, command : Commands, url : Urls, token : Tokens, arg : args]
IsRequest(r) ==
  \/ \E a \in Actions : r \in RequestsOf(a, Args(a))
  \/ r \in RequestsOf("claim", Origins \cup {NoOrigin})
IsTransaction(t) ==
  /\ IsRequest(t.req)
  /\ t = [req |-> t.req, at |-> t.at, locks |-> t.locks, slots |-> t.slots,
          verdict |-> t.verdict]
  /\ t.at \in Times /\ t.locks \subseteq Origins /\ t.slots \in BOOLEAN
  /\ t.verdict \in TakesSlotLock \cup {"origin_not_eligible"}

TypeOK ==
  /\ now \in Times
  /\ partitions \in [Partitions -> Nodes \cup {Draining}]
  /\ origins \in [Origins -> OriginRow]
  /\ urls \in [Urls -> UrlRow]
  /\ captures \in [Urls -> Payloads \cup {NoCapture}]
  /\ outbox \in [Urls -> [published : Nat, done : BOOLEAN]]
  /\ capacity \in Nat
  /\ auxiliary_origins \in [Urls -> [Origins -> Tokens \X Nat]]
  /\ request_slots \in [Urls -> Nat]
  /\ ip_slots \in [Urls -> [Ips -> Nat]]
  /\ budgets \in [Days -> [Origins \cup {Global} -> Nat]]
  /\ robots_cache \in [Origins -> [expires_at : Nat, delay : Nat]]
  /\ tx = [u \in Urls |-> tx[u]]
  /\ \A u \in Urls : tx[u] = NoTx \/ IsTransaction(tx[u])
  /\ pick \in [Commands -> Urls \cup {NoUrl}]

Present == {u \in Urls : urls[u].state # "absent"}

(* A URL whose capture is stored stays committed, with that capture.  The  *)
(* claim compares only the id again after its snapshot, so this rests on   *)
(* the cooldown outlasting any stall of a commit.                          *)
CommittedForever ==
  [][\A u \in Urls : captures[u] # NoCapture =>
       captures'[u] = captures[u] /\ urls'[u].state = "committed"]_vars

(* A worker checks one deadline, that of the main origin, before it sends  *)
(* to any origin it holds: the auxiliary leases never end earlier.         *)
AuxCoversMain ==
  \A u \in Urls : \A o \in OwnAux(u) :
    LET main == origins[urls[u].origin] IN
    origins[o].token = main.token => origins[o].deadline >= main.deadline

(* An origin held under the token of another origin has the row by which   *)
(* commit and nack find it again: nothing is left to lapse by itself.      *)
HeldOriginHasRow ==
  \A o \in Origins :
    \/ origins[o].token = NoToken
    \/ origins[o].token[1] = o /\ origins[o].token[2] = origins[o].epoch
    \/ \E u \in Urls : o \in OwnAux(u)

(* Slots that have not expired stay within the limit, although renew and   *)
(* the releases move the deadline of a slot without counting.              *)
SlotsWithinLimit == Cardinality(LiveSlots) <= GlobalConcurrency

(* Requests of a day stay within the global and the per-origin quota, and  *)
(* the global scope counts every request of an origin.                     *)
BudgetsHold ==
  \A d \in Days :
    /\ budgets[d][Global] <= DailyRequests
    /\ \A o \in Origins : budgets[d][o] <= Min2(OriginDailyRequests, budgets[d][Global])

(* A pause imposed on an origin, be it by courtesy, a robots.txt or the    *)
(* quiet period after a lease, is never shortened.                         *)
CourtesyNeverShortened ==
  [][\A o \in Origins : origins'[o].eligible_at >= origins[o].eligible_at]_vars

(* A URL that stopped in a redirect chain is queued under the origin that  *)
(* its saved continuation requests next, so its next lease covers it.      *)
ResumesUnderLease ==
  \A u \in Urls :
    urls[u].continuation # NoOrigin =>
      urls[u].continuation = IF urls[u].next_origin = NoOrigin
                             THEN urls[u].origin ELSE urls[u].next_origin

(* Every discovery up to the outbox cursor is a URL of the frontier, also  *)
(* when the quota stopped a publication in the middle.                     *)
PublishedArePresent ==
  \A u \in Urls : \A i \in 1 .. outbox[u].published :
    Discoveries[u][i] \in Present

(* The counter never exceeds the rows it counts, so the quota never turns  *)
(* a URL away while there is room.  discover adds rows it does not count.  *)
CapacityCounts == capacity <= Cardinality(Present)

=============================================================================
