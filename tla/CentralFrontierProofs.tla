------------------------ MODULE CentralFrontierProofs ------------------------
(***************************************************************************)
(* Proofs about CentralFrontier, for any sets and limits.                  *)
(*                                                                         *)
(* Everything rests on Base: the types, and what row locks give, that no   *)
(* two transactions hold a row together and none outlasts MaxStall.  Each  *)
(* property then adds what a transaction in progress knows since it took   *)
(* its locks, which the locks keep true until it is visible:               *)
(*   Courteous         an authorized origin was eligible;                  *)
(*   UnderLease        the lease of a call is still the one it named;      *)
(*   Unstored, Stored  the URL of a call has no capture yet;               *)
(*   Picked, Solo      no two claims are about to take one URL;            *)
(*   Quota, Counted    there was room in the budgets;                      *)
(*   Slotted           there was room among the request slots;             *)
(*   Leased            it holds its own token and has locked every origin  *)
(*                     that it extends or gives back;                      *)
(*   Tenured           an origin that it takes has cooled down.            *)
(***************************************************************************)
EXTENDS CentralFrontier, FiniteSetTheorems, TLAPS

(* The widths and bounds are natural numbers. *)
LEMMA NumberConstants ==
  /\ Lease \in Nat \ {0} /\ Cooldown \in Nat \ {0} /\ Day \in Nat \ {0}
  /\ MaxStall \in Nat /\ MaxTime \in Nat
<1>1. {Lease, Cooldown, Day} \subseteq Nat \ {0} /\ {MaxStall, MaxTime} \subseteq Nat
  BY ConstantAssumptions
<1> QED
  BY <1>1

(* What the fields of a request may hold. *)
LEMMA RequestFields ==
  ASSUME NEW r, IsRequest(r)
  PROVE  /\ r.command \in Commands /\ r.url \in Urls /\ r.token \in Tokens
         /\ r.action \in Actions \cup {"claim"}
         /\ r.action \in {"authorize", "continue_redirect"} => r.arg \in Origins
         /\ r.action = "commit" => r.arg \in Payloads
         /\ r.action = "robots_put" => r.arg \in RobotsAnswers
         /\ r.action = "discover" => r.arg \in Urls
<1>1. CASE r \in RequestsOf("claim", Origins \cup {NoOrigin})
  BY <1>1 DEF RequestsOf
<1>2. ASSUME NEW a \in Actions, r \in RequestsOf(a, Args(a))
      PROVE  /\ r.command \in Commands /\ r.url \in Urls /\ r.token \in Tokens
             /\ r.action = a /\ r.arg \in Args(a)
  BY <1>2 DEF RequestsOf
<1>3. /\ Args("authorize") = Origins /\ Args("continue_redirect") = Origins
      /\ Args("commit") = Payloads /\ Args("robots_put") = RobotsAnswers
      /\ Args("discover") = Urls
  BY DEF Args
<1> QED
  BY <1>1, <1>2, <1>3 DEF IsRequest

(* What a transaction in progress looks like. *)
LEMMA TransactionFields ==
  ASSUME TypeOK, NEW u \in Urls, tx[u] # NoTx
  PROVE  /\ IsRequest(tx[u].req)
         /\ tx[u].at \in Nat /\ tx[u].at \in Times
         /\ tx[u].locks \subseteq Origins /\ tx[u].slots \in BOOLEAN
  BY ConstantAssumptions DEF TypeOK, IsTransaction, Times

LEMMA InitTypes == Init => TypeOK
<1> SUFFICES ASSUME Init PROVE TypeOK
  OBVIOUS
<1>1. capacity \in Nat
  BY FS_Subset, FS_CardinalityType, ConstantAssumptions DEF Init
<1>2. now \in Times /\ 0 - Cooldown \in Int
  BY ConstantAssumptions DEF Init, Times
<1>3. origins \in [Origins -> OriginRow]
  BY DEF Init, OriginRow, Tokens, NoToken, NoDeadline
<1>4. urls \in [Urls -> UrlRow]
  BY ConstantAssumptions DEF Init, UrlRow, States
<1>5. auxiliary_origins \in [Urls -> [Origins -> Tokens \X Nat]]
  BY DEF Init, NoRow, NoToken, Tokens
<1>6. tx = [u \in Urls |-> tx[u]] /\ \A u \in Urls : tx[u] = NoTx
  BY DEF Init
<1> QED
  BY <1>1, <1>2, <1>3, <1>4, <1>5, <1>6 DEF Init, TypeOK


-----------------------------------------------------------------------------
(* Types are kept *)

LEMMA BeginTypes ==
  ASSUME TypeOK, NEW r, IsRequest(r), Begin(r)
  PROVE  TypeOK'
<1> DEFINE slots == r.action = "authorize" /\ Verdict(r) \in TakesSlotLock
           t == [req |-> r, at |-> now, locks |-> Rows(r), slots |-> slots,
                 verdict |-> Verdict(r)]
<1>1. r.url \in Urls /\ (r.action = "authorize" => r.arg \in Origins)
  BY RequestFields
<1>2. urls[r.url].origin \in Origins
  BY <1>1 DEF TypeOK, UrlRow
<1>3. Rows(r) \subseteq Origins
  <2>1. SharedAux(r.url) \subseteq Origins /\ OwnAux(r.url) \subseteq Origins
    BY DEF SharedAux, OwnAux, AuxRows
  <2> QED
    BY <1>1, <1>2, <2>1, Zenon DEF Rows
<1>4. Verdict(r) \in TakesSlotLock \cup {"origin_not_eligible"}
  <2>1. Verdict(r) \notin Refusals
    BY DEF Begin
  <2> QED
    BY <2>1 DEF Verdict, AuthorizeVerdict, Refusals, TakesSlotLock
<1>5. now \in Times
  BY DEF TypeOK
<1>6. IsTransaction(t)
  BY <1>3, <1>4, <1>5 DEF IsTransaction
<1>7. tx' = [tx EXCEPT ![r.url] = t]
  BY DEF Begin
<1>8. tx' = [u \in Urls |-> tx'[u]]
  BY <1>7 DEF TypeOK
<1>9. \A u \in Urls : tx'[u] = NoTx \/ IsTransaction(tx'[u])
  BY <1>1, <1>6, <1>7 DEF TypeOK
<1>10. UNCHANGED <<now, tables, pick>>
  BY DEF Begin
<1> HIDE DEF t
<1> QED
  BY <1>8, <1>9, <1>10 DEF TypeOK, tables, Days, IsTransaction, IsRequest


(* Counting twice in a table of counters leaves a table of counters. *)
LEMMA Counting ==
  ASSUME NEW D, NEW S, NEW b \in [D -> [S -> Nat]], NEW d \in D, NEW g \in S, NEW h \in S
  PROVE  [b EXCEPT ![d][g] = @ + 1, ![d][h] = @ + 1] \in [D -> [S -> Nat]]
<1> DEFINE row  == [b[d] EXCEPT ![g] = @ + 1]
           once == [b EXCEPT ![d] = row]
           both == [once[d] EXCEPT ![h] = @ + 1]
<1>1. row \in [S -> Nat]
  OBVIOUS
<1>2. once \in [D -> [S -> Nat]] /\ once[d] \in [S -> Nat]
  BY <1>1
<1>3. both \in [S -> Nat]
  BY <1>2
<1>4. [b EXCEPT ![d][g] = @ + 1, ![d][h] = @ + 1] = [once EXCEPT ![d] = both]
  OBVIOUS
<1> HIDE DEF row, once, both
<1> QED
  BY <1>2, <1>3, <1>4

(* A row under a new token is a row. *)
LEMMA HeldRow ==
  ASSUME NEW x \in OriginRow, NEW e \in Nat, NEW w \in Workers, NEW k \in Tokens, NEW d \in Nat
  PROVE  [x EXCEPT !.epoch = e, !.owner = w, !.token = k, !.deadline = d] \in OriginRow
BY DEF OriginRow

(* A row of origins once its lease is given back. *)
LEMMA ReleasedRow ==
  ASSUME NEW x \in OriginRow, NEW e \in Nat
  PROVE  [x EXCEPT !.owner = Nobody, !.token = NoToken, !.deadline = NoDeadline,
                   !.eligible_at = e] \in OriginRow
<1>1. NoToken \in Tokens
  BY DEF NoToken, Tokens
<1> QED
  BY <1>1 DEF OriginRow

(* The quiet period after a lease lasts for the cooldown at least. *)
LEMMA QuietTime ==
  ASSUME NEW t, t.at \in Nat, NEW o, NEW wait \in RetryAfters
  PROVE  QuietUntil(t, o, wait) \in Nat /\ QuietUntil(t, o, wait) >= t.at + Cooldown
<1>1. Cooldown \in Nat /\ wait \in Nat
  BY ConstantAssumptions
<1> QED
  BY <1>1 DEF QuietUntil, Max2

LEMMA QueuedRow ==
  ASSUME NEW x \in UrlRow, NEW s \in States, NEW e \in Nat, NEW a \in Nat, NEW o \in Origins
  PROVE  [x EXCEPT !.state = s, !.eligible_at = e, !.attempts = a, !.origin = o,
                   !.next_origin = NoOrigin] \in UrlRow
BY DEF UrlRow

(* What a transaction that becomes visible does to the tables. *)
LEMMA ApplyTypes ==
  ASSUME TypeOK, NEW u \in Urls, tx[u] # NoTx, tx[u].req.url = u, Apply(tx[u])
  PROVE  /\ partitions' = partitions /\ capacity' = capacity
         /\ origins' \in [Origins -> OriginRow]
         /\ urls' \in [Urls -> UrlRow]
         /\ captures' \in [Urls -> Payloads \cup {NoCapture}]
         /\ outbox' \in [Urls -> [published : Nat, done : BOOLEAN]]
         /\ auxiliary_origins' \in [Urls -> [Origins -> Tokens \X Nat]]
         /\ request_slots' \in [Urls -> Nat]
         /\ ip_slots' \in [Urls -> [Ips -> Nat]]
         /\ budgets' \in [Days -> [Origins \cup {Global} -> Nat]]
         /\ robots_cache' \in [Origins -> [expires_at : Nat, delay : Nat]]
<1> DEFINE t == tx[u]
<1>o. origins \in [Origins -> OriginRow]
  BY DEF TypeOK
<1>r. urls \in [Urls -> UrlRow]
  BY DEF TypeOK
<1>0. /\ captures \in [Urls -> Payloads \cup {NoCapture}]
      /\ outbox \in [Urls -> [published : Nat, done : BOOLEAN]]
      /\ auxiliary_origins \in [Urls -> [Origins -> Tokens \X Nat]]
      /\ request_slots \in [Urls -> Nat] /\ ip_slots \in [Urls -> [Ips -> Nat]]
      /\ budgets \in [Days -> [Origins \cup {Global} -> Nat]]
      /\ robots_cache \in [Origins -> [expires_at : Nat, delay : Nat]]
  BY DEF TypeOK
<1>a. t.req.url = u
  OBVIOUS
<1>t. t.req.token \in Tokens /\ Sender[t.req.command] \in Workers
  BY TransactionFields, RequestFields, ConstantAssumptions
<1>1. /\ t.at \in Nat /\ t.at \in Times /\ t.locks \subseteq Origins
      /\ t.req.url = u
      /\ (t.req.action = "authorize" => t.req.arg \in Origins)
      /\ (t.req.action = "continue_redirect" => t.req.arg \in Origins)
      /\ (t.req.action = "commit" => t.req.arg \in Payloads)
      /\ (t.req.action = "robots_put" => t.req.arg \in RobotsAnswers)
  BY TransactionFields, RequestFields
<1>2. urls[u] \in UrlRow /\ urls[u].origin \in Origins /\ urls[u].eligible_at \in Nat
  BY <1>r DEF UrlRow
<1>4. /\ Lease \in Nat /\ Cooldown \in Nat /\ Day \in Nat \ {0}
      /\ NoDeadline \in Int /\ RetryDelay \in Nat /\ MinimumDelay \in Nat
  BY ConstantAssumptions DEF NoDeadline
<1>5. NoToken \in Tokens /\ NoRow \in Tokens \X Nat
  BY DEF NoToken, Tokens, NoRow
<1>6. /\ \A a, b \in Nat : Max2(a, b) \in Nat
      /\ \A a \in Nat : Cooling(t, a) \in Nat
      /\ t.at + Lease \in Nat /\ t.at + Cooldown \in Nat /\ t.at + RetryDelay \in Nat
      /\ t.at + Lease + Cooldown \in Nat
  BY <1>1, <1>4 DEF Max2, Cooling
<1> HIDE DEF t
<1>7. CASE t.req.action = "claim" /\ ClaimApply(t)
  <2>1. origins' \in [Origins -> OriginRow]
    <3> DEFINE o == urls[u].origin
               row == [epoch |-> origins[o].epoch + 1, owner |-> Sender[t.req.command],
                       token |-> t.req.token, deadline |-> t.at + Lease,
                       eligible_at |-> origins[o].eligible_at, last_turn |-> t.at]
    <3>0. origins[o] \in OriginRow /\ t.at + Lease \in Nat /\ t.at \in Nat
      BY <1>o, <1>1, <1>2, <1>6
    <3>1. row \in OriginRow
      BY <1>t, <3>0 DEF OriginRow
    <3>2. origins' = [origins EXCEPT ![o] = row]
      BY <1>1, <1>7 DEF ClaimApply
    <3> QED
      BY <1>o, <1>2, <3>1, <3>2
  <2>2. urls' \in [Urls -> UrlRow]
    <3>1. urls' = [urls EXCEPT ![u].state = "leased"]
      BY <1>1, <1>7 DEF ClaimApply
    <3> QED
      BY <1>r, <3>1 DEF UrlRow, States
  <2> QED
    BY <1>o, <1>r, <1>0, <1>7, <2>1, <2>2 DEF ClaimApply
<1>8. CASE t.req.action = "renew" /\ RenewApply(t)
  <2>1. origins' \in [Origins -> OriginRow]
    <3>1. origins' = [o \in Origins |->
            IF o \in t.locks THEN [origins[o] EXCEPT !.deadline = t.at + Lease]
                             ELSE origins[o]]
      BY <1>8 DEF RenewApply
    <3> QED
      BY <1>o, <1>6, <3>1 DEF OriginRow
  <2>2. request_slots' \in [Urls -> Nat]
    BY <1>0, <1>6, <1>8 DEF RenewApply
  <2> QED
    BY <1>o, <1>r, <1>0, <1>8, <2>1, <2>2 DEF RenewApply
<1>9. CASE t.req.action = "robots_put" /\ RobotsPutApply(t)
  <2> DEFINE rule == Rules[t.req.arg]
  <2>1. rule \in [ttl : Nat, delay : Nat, failed : BOOLEAN]
    BY <1>1, <1>9, ConstantAssumptions
  <2>2. t.at + rule.ttl \in Nat /\ t.at + rule.delay \in Nat /\ rule.delay \in Nat
    BY <1>1, <2>1
  <2>3. t.at + (IF rule.failed THEN rule.ttl ELSE rule.delay) \in Nat
    BY <1>1, <2>1
  <2>4. origins' \in [Origins -> OriginRow]
    <3> DEFINE o == urls[u].origin
               later == Max2(origins[o].eligible_at,
                             t.at + IF rule.failed THEN rule.ttl ELSE rule.delay)
    <3>1. later \in Nat
      BY <1>o, <1>2, <1>6, <2>3 DEF OriginRow
    <3>2. origins' = [origins EXCEPT ![o].eligible_at = later]
      BY <1>1, <1>9 DEF RobotsPutApply
    <3> HIDE DEF later, o
    <3>3. o \in Origins
      BY <1>2 DEF o
    <3> QED
      BY <1>o, <3>1, <3>2, <3>3 DEF OriginRow
  <2>5. robots_cache' \in [Origins -> [expires_at : Nat, delay : Nat]]
    BY <1>o, <1>r, <1>0, <1>9, <2>2 DEF RobotsPutApply
  <2> QED
    BY <1>o, <1>r, <1>0, <1>9, <2>4, <2>5 DEF RobotsPutApply
<1>10. CASE t.req.action = "continue_redirect" /\ ContinueApply(t)
  <2>1. urls' = [urls EXCEPT ![u].continuation = t.req.arg, ![u].next_origin = t.req.arg]
    BY <1>1, <1>10 DEF ContinueApply
  <2>2. t.req.arg \in Origins
    BY <1>1, <1>10
  <2>3. urls' \in [Urls -> UrlRow]
    BY <1>r, <2>1, <2>2 DEF UrlRow
  <2> QED
    BY <1>o, <1>r, <1>0, <1>10, <2>3 DEF ContinueApply
<1>11. CASE t.req.action = "discover" /\ DiscoverApply(t)
  <2>1. urls' \in [Urls -> UrlRow]
    BY <1>r, <1>11 DEF DiscoverApply, Inserted, UrlRow, States
  <2> QED
    BY <1>o, <1>r, <1>0, <1>11, <2>1 DEF DiscoverApply
<1>12. ASSUME ReleaseApply(t)
       PROVE  /\ origins' \in [Origins -> OriginRow]
              /\ auxiliary_origins' \in [Urls -> [Origins -> Tokens \X Nat]]
              /\ request_slots' \in [Urls -> Nat]
              /\ ip_slots' \in [Urls -> [Ips -> Nat]]
  <2>1. PICK wait \in RetryAfters : origins' = Released(t, wait)
    BY <1>12 DEF ReleaseApply
  <2>2. \A o \in Origins : Max2(origins[o].eligible_at, QuietUntil(t, o, wait)) \in Nat
    <3>1. t.at \in Nat
      BY <1>1
    <3>2. \A o \in Origins : QuietUntil(t, o, wait) \in Nat
      BY <3>1, QuietTime
    <3> QED
      BY <1>o, <3>2 DEF OriginRow, Max2
  <2>3. origins' \in [Origins -> OriginRow]
    <3>1. ASSUME NEW o \in Origins, NEW e \in Nat
          PROVE  [origins[o] EXCEPT !.owner = Nobody, !.token = NoToken,
                                    !.deadline = NoDeadline, !.eligible_at = e] \in OriginRow
      BY <1>o, ReleasedRow
    <3>2. ASSUME NEW o \in Origins PROVE Released(t, wait)[o] \in OriginRow
      <4> DEFINE e == Max2(origins[o].eligible_at, QuietUntil(t, o, wait))
      <4>1. e \in Nat
        BY <2>2
      <4>2. Released(t, wait)[o] = IF o \in t.locks
              THEN [origins[o] EXCEPT !.owner = Nobody, !.token = NoToken,
                                      !.deadline = NoDeadline, !.eligible_at = e]
              ELSE origins[o]
        BY Zenon DEF Released
      <4> HIDE DEF e
      <4> QED
        BY <1>o, <3>1, <4>1, <4>2
    <3> QED
      BY <2>1, <3>2, Zenon DEF Released
  <2>4. auxiliary_origins' = [auxiliary_origins EXCEPT ![u] = [o \in Origins |-> NoRow]]
    BY <1>1, <1>12 DEF ReleaseApply
  <2>5. request_slots' = [request_slots EXCEPT ![u] = Cooling(t, @)]
    BY <1>1, <1>12 DEF ReleaseApply
  <2>6. ip_slots' = [ip_slots EXCEPT ![u] = [i \in Ips |-> Cooling(t, @[i])]]
    BY <1>1, <1>12 DEF ReleaseApply
  <2> QED
    BY <1>0, <1>5, <1>6, <2>3, <2>4, <2>5, <2>6
<1>13. CASE t.req.action = "commit" /\ CommitApply(t)
  <2>1. urls' = [urls EXCEPT ![u].state = "committed"]
    BY <1>1, <1>13 DEF CommitApply
  <2>2. urls' \in [Urls -> UrlRow]
    BY <1>r, <2>1 DEF UrlRow, States
  <2>3. captures' \in [Urls -> Payloads \cup {NoCapture}]
    BY <1>0, <1>1, <1>13 DEF CommitApply
  <2>4. outbox' \in [Urls -> [published : Nat, done : BOOLEAN]]
    BY <1>0, <1>1, <1>13 DEF CommitApply
  <2> QED
    BY <1>o, <1>r, <1>0, <1>12, <1>13, <2>2, <2>3, <2>4 DEF CommitApply
<1>14. CASE t.req.action = "nack" /\ NackApply(t)
  <2> DEFINE v == t.req.url
             state == IF t.req.arg = Permanent THEN "terminal" ELSE "queued"
             later == Max2(urls[v].eligible_at, t.at + RetryDelay)
             attempts == IF t.req.arg = TurnOnly THEN urls[v].attempts
                                                 ELSE urls[v].attempts + 1
             origin == IF urls[v].next_origin = NoOrigin THEN urls[v].origin
                                                         ELSE urls[v].next_origin
  <2>1. state \in States /\ later \in Nat /\ attempts \in Nat /\ origin \in Origins
    <3>1. urls[v] \in UrlRow /\ later \in Nat
      BY <1>a, <1>2, <1>6
    <3> QED
      BY <3>1 DEF UrlRow, States
  <2> DEFINE row == [urls[v] EXCEPT !.state = state, !.eligible_at = later,
                       !.attempts = attempts, !.origin = origin, !.next_origin = NoOrigin]
  <2>2. urls' = [urls EXCEPT ![v] = row]
    BY <1>14 DEF NackApply
  <2>3. v \in Urls /\ urls[v] \in UrlRow
    BY <1>a, <1>2
  <2> HIDE DEF v, state, later, attempts, origin
  <2>5. row \in UrlRow
    BY <2>1, <2>3, QueuedRow
  <2> HIDE DEF row
  <2>4. urls' \in [Urls -> UrlRow]
    BY <1>r, <2>2, <2>3, <2>5
  <2> QED
    BY <1>o, <1>r, <1>0, <1>12, <1>14, <2>4 DEF NackApply
<1>15. CASE t.req.action = "authorize" /\ AuthorizeApply(t)
  <2> DEFINE dest == t.req.arg
             day  == t.at \div Day
             held == IF Acquires(t)
                     THEN [origins[dest] EXCEPT !.epoch = @ + 1,
                             !.owner = Sender[t.req.command],
                             !.token = t.req.token, !.deadline = t.at + Lease]
                     ELSE origins[dest]
             delay == Max2(MinimumDelay, CrawlDelay(dest, t.at))
             until == SlotUntil(held)
  <2>1. dest \in Origins /\ origins[dest] \in OriginRow
    BY <1>o, <1>1, <1>15
  <2>2. held \in OriginRow
    <3>1. ASSUME NEW x \in OriginRow
          PROVE [x EXCEPT !.epoch = @ + 1, !.owner = Sender[t.req.command],
                          !.token = t.req.token, !.deadline = t.at + Lease] \in OriginRow
      <4>1. t.at + Lease \in Nat /\ x.epoch + 1 \in Nat
        <5>1. x.epoch \in Nat
          BY <3>1 DEF OriginRow
        <5>2. t.at + Lease \in Nat
          BY <1>6
        <5> QED
          BY <5>1, <5>2
      <4> QED
        BY <1>t, <3>1, <4>1, HeldRow
    <3> QED
      BY <2>1, <3>1
  <2>3. delay \in Nat
    <3>1. CrawlDelay(dest, t.at) \in Nat
      BY <1>0, <2>1 DEF CrawlDelay
    <3> QED
      BY <1>4, <1>6, <3>1
  <2>4. until \in Nat
    <3>1. held.deadline \in Nat \cup {NoDeadline}
      BY <2>2 DEF OriginRow
    <3> HIDE DEF held
    <3> QED
      BY <1>4, <3>1 DEF SlotUntil, NoDeadline
  <2>5. day \in Days /\ day \in Nat /\ (day + 1) * Day \in Nat
    <3>1. day \in Days
      BY <1>1 DEF Days
    <3>2. day \in Nat
      BY <1>1, <1>4
    <3> QED
      BY <1>4, <3>1, <3>2
  <2>6. origins' = [origins EXCEPT ![dest] =
          IF t.verdict = "ok" THEN [held EXCEPT !.eligible_at = t.at + delay] ELSE held]
    BY <1>15 DEF AuthorizeApply
  <2>7. auxiliary_origins' = IF Acquires(t)
          THEN [auxiliary_origins EXCEPT ![u][dest] = <<held.token, held.epoch>>]
          ELSE auxiliary_origins
    <3>1. auxiliary_origins' = IF Acquires(t)
            THEN [auxiliary_origins EXCEPT ![t.req.url][dest] = <<held.token, held.epoch>>]
            ELSE auxiliary_origins
      BY <1>15 DEF AuthorizeApply
    <3> HIDE DEF held, dest
    <3> QED
      BY <1>1, <3>1, Zenon
  <2>8. request_slots' = IF t.slots
          THEN [v \in Urls |-> IF v = u /\ t.verdict \in TakesSlot THEN until ELSE
                               IF request_slots[v] <= t.at THEN 0 ELSE request_slots[v]]
          ELSE request_slots
    BY <1>1, <1>15 DEF AuthorizeApply
  <2>9. ip_slots' = IF t.verdict = "ok"
          THEN [ip_slots EXCEPT ![u] =
                 [i \in Ips |-> IF i \in Addresses[dest] THEN until ELSE @[i]]]
          ELSE ip_slots
    BY <1>1, <1>15 DEF AuthorizeApply
  <2>10. budgets' = IF t.verdict = "ok"
           THEN [budgets EXCEPT ![day][Global] = @ + 1, ![day][dest] = @ + 1]
           ELSE budgets
    BY <1>15 DEF AuthorizeApply
  <2>11. urls' = IF t.verdict = "aggregate_budget"
           THEN [urls EXCEPT ![u].eligible_at = (day + 1) * Day] ELSE urls
    BY <1>1, <1>15 DEF AuthorizeApply
  <2>12. held.token \in Tokens /\ held.epoch \in Nat
    BY <2>2 DEF OriginRow
  <2>13. t.at + delay \in Nat
    BY <1>1, <2>3
  <2> HIDE DEF dest, day, held, delay, until
  <2>14. origins' \in [Origins -> OriginRow]
    <3>1. [held EXCEPT !.eligible_at = t.at + delay] \in OriginRow
      BY <2>2, <2>13 DEF OriginRow
    <3> QED
      BY <1>o, <2>1, <2>2, <2>6, <3>1
  <2>15. auxiliary_origins' \in [Urls -> [Origins -> Tokens \X Nat]]
    BY <1>0, <2>1, <2>7, <2>12
  <2>16. request_slots' \in [Urls -> Nat] /\ ip_slots' \in [Urls -> [Ips -> Nat]]
    BY <1>0, <2>4, <2>8, <2>9
  <2>17. budgets' \in [Days -> [Origins \cup {Global} -> Nat]]
    <3>1. dest \in Origins \cup {Global} /\ Global \in Origins \cup {Global}
      BY <2>1
    <3>2. [budgets EXCEPT ![day][Global] = @ + 1, ![day][dest] = @ + 1]
            \in [Days -> [Origins \cup {Global} -> Nat]]
      <4>1. budgets \in [Days -> [Origins \cup {Global} -> Nat]] /\ day \in Days
        BY <1>0, <2>5
      <4> QED
        BY <3>1, <4>1, Counting, ZenonT(30)
    <3> QED
      BY <1>0, <2>10, <3>2, Zenon
  <2>18. urls' \in [Urls -> UrlRow]
    BY <1>r, <2>5, <2>11 DEF UrlRow
  <2> QED
    BY <1>o, <1>r, <1>0, <1>15, <2>14, <2>15, <2>16, <2>17, <2>18 DEF AuthorizeApply
<1> QED
  BY <1>7, <1>8, <1>9, <1>10, <1>11, <1>13, <1>14, <1>15 DEF Apply, t

(* A claim starts a transaction that is well typed. *)
LEMMA ClaimBeginTypes ==
  ASSUME TypeOK, NEW c \in Commands, ClaimBegin(c)
  PROVE  TypeOK'
<1> DEFINE u == pick[c]
           r == [action |-> "claim", command |-> c, url |-> u,
                 token |-> <<urls[u].origin, origins[urls[u].origin].epoch + 1, u>>,
                 arg |-> urls[u].continuation]
           t == [req |-> r, at |-> now, locks |-> {urls[u].origin}, slots |-> FALSE,
                 verdict |-> "ok"]
<1>1. u \in Urls
  BY DEF TypeOK, ClaimBegin, ClaimGives
<1>2. /\ urls[u].origin \in Origins /\ urls[u].continuation \in Origins \cup {NoOrigin}
      /\ now \in Times
  BY <1>1 DEF TypeOK, UrlRow
<1>3. r.token \in Tokens
  <2>1. origins[urls[u].origin].epoch \in Nat
    BY <1>2 DEF TypeOK, OriginRow
  <2>2. urls[u].origin \in Nat /\ u \in Nat
    BY <1>1, <1>2, ConstantAssumptions
  <2> QED
    BY <2>1, <2>2 DEF Tokens
<1>4. IsRequest(r)
  BY <1>1, <1>2, <1>3 DEF IsRequest, RequestsOf
<1>5. IsTransaction(t)
  BY <1>2, <1>4 DEF IsTransaction, TakesSlotLock
<1>6. tx' = [tx EXCEPT ![u] = t] /\ pick' = [pick EXCEPT ![c] = NoUrl]
  BY DEF ClaimBegin
<1>7. UNCHANGED <<now, tables>>
  BY DEF ClaimBegin
<1> HIDE DEF t, r, u
<1>8. tx' = [v \in Urls |-> tx'[v]]
  BY <1>6 DEF TypeOK
<1>9. \A v \in Urls : tx'[v] = NoTx \/ IsTransaction(tx'[v])
  BY <1>1, <1>5, <1>6 DEF TypeOK
<1>10. pick' \in [Commands -> Urls \cup {NoUrl}]
  BY <1>6 DEF TypeOK
<1> QED
  BY <1>7, <1>8, <1>9, <1>10 DEF TypeOK, tables, IsTransaction, IsRequest

LEMMA FinishTypes ==
  ASSUME TypeOK, NEW u \in Urls, Finish(u), tx[u].req.url = u
  PROVE  TypeOK'
<1>1. tx[u] # NoTx /\ Apply(tx[u])
  BY DEF Finish
<1>2. now' = now /\ pick' = pick /\ tx' = [tx EXCEPT ![u] = NoTx]
  BY DEF Finish
<1>3. tx' = [v \in Urls |-> tx'[v]]
  BY <1>2 DEF TypeOK
<1>4. \A v \in Urls : tx'[v] = NoTx \/ IsTransaction(tx'[v])
  BY <1>2 DEF TypeOK
<1> QED
  BY <1>1, <1>2, <1>3, <1>4, ApplyTypes DEF TypeOK, IsTransaction, IsRequest

(* Publishing or admitting URLs *)
LEMMA AdmitTypes ==
  ASSUME TypeOK, NEW S, S \subseteq Urls, AdmitUrls(S)
  PROVE  urls' \in [Urls -> UrlRow] /\ capacity' \in Nat
<1>1. urls \in [Urls -> UrlRow] /\ capacity \in Nat
  BY DEF TypeOK
<1>2. urls' \in [Urls -> UrlRow]
  BY <1>1 DEF AdmitUrls, Inserted, UrlRow, States
<1>3. Absent(S) \subseteq Urls
  BY DEF Absent
<1>4. Cardinality(Absent(S)) \in Nat
  BY <1>3, FS_Subset, FS_CardinalityType, ConstantAssumptions
<1> QED
  BY <1>1, <1>2, <1>4 DEF AdmitUrls

LEMMA ChunkUrls ==
  ASSUME NEW u \in Urls, NEW k \in Nat, outbox[u].published \in Nat,
         outbox[u].published + k <= Len(Discoveries[u])
  PROVE  Chunk(u, k) \subseteq Urls
<1>1. Discoveries[u] \in Seq(Urls)
  BY ConstantAssumptions
<1> QED
  BY <1>1 DEF Chunk

-----------------------------------------------------------------------------
(* Row locks *)

(* A transaction in progress holds the row of its URL, of the origin that  *)
(* URL is filed under and of the origin it authorizes.                     *)
Locked ==
  \A u \in Urls : tx[u] # NoTx =>
    /\ tx[u].req.url = u
    /\ urls[u].origin \in tx[u].locks
    /\ tx[u].req.action = "authorize" => tx[u].req.arg \in tx[u].locks

(* Two transactions never hold a row of an origin together. *)
Apart ==
  \A u, v \in Urls : u # v /\ tx[u] # NoTx /\ tx[v] # NoTx
    => tx[u].locks \cap tx[v].locks = {}

(* A transaction in progress does not outlast MaxStall. *)
InTime ==
  \A u \in Urls : tx[u] # NoTx => tx[u].at <= now /\ now <= tx[u].at + MaxStall

Base == TypeOK /\ Locked /\ Apart /\ InTime

(* Every call of a client is a request. *)
LEMMA CallRequests ==
  ASSUME TypeOK, NEW c \in Commands, NEW u \in Urls, NEW action \in Calls,
         NEW arg \in Asked(action), Call(c, u, action, arg)
  PROVE  \E r : IsRequest(r) /\ r.action \in Actions /\ r.token[3] = r.url /\ Begin(r)
<1> DEFINE r == [action |-> action, command |-> c, url |-> u,
                 token |-> origins[urls[u].origin].token, arg |-> arg]
<1>1. action \in Actions
  BY ConstantAssumptions
<1>2. arg \in Args(action)
  BY ConstantAssumptions, Zenon DEF Asked, Args
<1>3. origins[urls[u].origin].token \in Tokens
  BY DEF TypeOK, UrlRow, OriginRow
<1>4. IsRequest(r)
  BY <1>1, <1>2, <1>3 DEF IsRequest, RequestsOf
<1>5. Begin(r) /\ r.action \in Actions /\ r.token[3] = r.url
  BY <1>1 DEF Call
<1> QED
  BY <1>4, <1>5

(* What a finished transaction leaves alone: the origins it has not locked *)
(* and, but for rows it inserts, the other URLs.                           *)
LEMMA FinishWrites ==
  ASSUME Base, NEW u \in Urls, Finish(u)
  PROVE  /\ \A o \in Origins : o \notin tx[u].locks => origins'[o] = origins[o]
         /\ \A v \in Urls : v # u =>
              \/ urls'[v] = urls[v]
              \/ /\ urls[v].state = "absent"
                 /\ urls'[v] = [urls[v] EXCEPT !.state = "queued"]
         /\ \A v \in Urls : v # u => captures'[v] = captures[v] /\ outbox'[v] = outbox[v]
<1> DEFINE t == tx[u]
<1>1. tx[u] # NoTx /\ t.req.url = u /\ urls[u].origin \in t.locks
      /\ (t.req.action = "authorize" => t.req.arg \in t.locks)
  BY DEF Base, Locked, Finish
<1>2. /\ origins \in [Origins -> OriginRow] /\ urls \in [Urls -> UrlRow]
      /\ DOMAIN captures = Urls /\ DOMAIN outbox = Urls
  BY DEF Base, TypeOK
<1>3. Apply(t)
  BY DEF Finish
<1> HIDE DEF t
<1> DEFINE O == \A o \in Origins : o \notin t.locks => origins'[o] = origins[o]
           R == \A v \in Urls : v # u =>
                  \/ urls'[v] = urls[v]
                  \/ /\ urls[v].state = "absent"
                     /\ urls'[v] = [urls[v] EXCEPT !.state = "queued"]
           W == \A v \in Urls : v # u => captures'[v] = captures[v] /\ outbox'[v] = outbox[v]
<1>4. ASSUME ClaimApply(t) PROVE O /\ R /\ W
  <2>1. O /\ W
    BY <1>1, <1>2, <1>4 DEF ClaimApply
  <2> DEFINE row == [urls[u] EXCEPT !.state = "leased"]
  <2>2. urls' = [urls EXCEPT ![u] = row]
    BY <1>1, <1>4 DEF ClaimApply
  <2> HIDE DEF row
  <2> QED
    BY <1>2, <2>1, <2>2
<1>5. ASSUME RenewApply(t) PROVE O /\ R /\ W
  BY <1>1, <1>2, <1>5 DEF RenewApply
<1>6. ASSUME t.req.action = "authorize", AuthorizeApply(t) PROVE O /\ R /\ W
  <2>1. O /\ W
    BY <1>1, <1>2, <1>6 DEF AuthorizeApply
  <2> DEFINE row == [urls[u] EXCEPT !.eligible_at = ((t.at \div Day) + 1) * Day]
  <2>2. urls' = urls \/ urls' = [urls EXCEPT ![u] = row]
    BY <1>1, <1>6 DEF AuthorizeApply
  <2> HIDE DEF row
  <2> QED
    BY <1>2, <2>1, <2>2
<1>7. ASSUME RobotsPutApply(t) PROVE O /\ R /\ W
  <2>1. R /\ W
    BY <1>1, <1>2, <1>7 DEF RobotsPutApply
  <2>2. PICK row : origins' = [origins EXCEPT ![urls[u].origin] = row]
    BY <1>1, <1>7, Zenon DEF RobotsPutApply
  <2> QED
    BY <1>1, <1>2, <2>1, <2>2
<1>8. ASSUME ContinueApply(t) PROVE O /\ R /\ W
  <2>1. O /\ W
    BY <1>1, <1>2, <1>8 DEF ContinueApply
  <2>2. PICK row, once : /\ once = [urls EXCEPT ![u].continuation = t.req.arg]
                         /\ urls' = [once EXCEPT ![u] = row]
    BY <1>1, <1>8, Zenon DEF ContinueApply
  <2>3. R
    BY <1>2, <2>2
  <2> QED
    BY <2>1, <2>3
<1>9. ASSUME DiscoverApply(t) PROVE O /\ R /\ W
  BY <1>1, <1>2, <1>9 DEF DiscoverApply, Inserted, Absent
<1>10. ASSUME ReleaseApply(t) PROVE O
  <2>1. PICK wait \in RetryAfters : origins' = Released(t, wait)
    BY <1>10 DEF ReleaseApply
  <2> QED
    BY <1>2, <2>1, Zenon DEF Released
<1>11. ASSUME CommitApply(t) PROVE O /\ R /\ W
  <2>1. O /\ W
    BY <1>1, <1>2, <1>10, <1>11 DEF CommitApply
  <2> DEFINE row == [urls[u] EXCEPT !.state = "committed"]
  <2>2. urls' = [urls EXCEPT ![u] = row]
    BY <1>1, <1>11 DEF CommitApply
  <2> HIDE DEF row
  <2> QED
    BY <1>2, <2>1, <2>2
<1>12. ASSUME NackApply(t) PROVE O /\ R /\ W
  <2>1. O /\ W
    BY <1>1, <1>2, <1>10, <1>12 DEF NackApply
  <2>2. PICK row : urls' = [urls EXCEPT ![u] = row]
    BY <1>1, <1>12, Zenon DEF NackApply
  <2> QED
    BY <1>2, <2>1, <2>2
<1>13. O /\ R /\ W
  BY <1>3, <1>4, <1>5, <1>6, <1>7, <1>8, <1>9, <1>11, <1>12 DEF Apply
<1> QED
  BY <1>13, Zenon DEF t

(* Inserting a row changes nothing but its state. *)
LEMMA RowInserted ==
  ASSUME NEW x \in UrlRow, NEW y, y = [x EXCEPT !.state = "queued"]
  PROVE  /\ y.origin = x.origin /\ y.next_origin = x.next_origin
         /\ y.continuation = x.continuation /\ y.state = "queued"
BY DEF UrlRow

(* Other URLs keep where they are filed and where they resume. *)
Kept(v) ==
  /\ urls'[v].origin = urls[v].origin
  /\ urls'[v].next_origin = urls[v].next_origin
  /\ urls'[v].continuation = urls[v].continuation
  /\ \/ urls'[v].state = urls[v].state
     \/ urls[v].state = "absent" /\ urls'[v].state = "queued"

LEMMA FinishKeeps ==
  ASSUME Base, NEW u \in Urls, Finish(u), NEW v \in Urls, v # u
  PROVE  Kept(v)
<1>1. urls[v] \in UrlRow
  BY DEF Base, TypeOK
<1>2. CASE urls'[v] = urls[v]
  BY <1>2 DEF Kept
<1>3. CASE urls[v].state = "absent" /\ urls'[v] = [urls[v] EXCEPT !.state = "queued"]
  BY <1>1, <1>3, RowInserted DEF Kept
<1> QED
  BY <1>2, <1>3, FinishWrites

LEMMA InsertedKeeps ==
  ASSUME TypeOK, NEW S, urls' = Inserted(S), NEW v \in Urls
  PROVE  Kept(v)
<1>1. urls[v] \in UrlRow
  BY DEF TypeOK
<1>2. \/ urls'[v] = urls[v]
      \/ urls[v].state = "absent" /\ urls'[v] = [urls[v] EXCEPT !.state = "queued"]
  BY DEF Inserted, Absent
<1>3. CASE urls'[v] = urls[v]
  BY <1>3 DEF Kept
<1>4. CASE urls[v].state = "absent" /\ urls'[v] = [urls[v] EXCEPT !.state = "queued"]
  BY <1>1, <1>4, RowInserted DEF Kept
<1> QED
  BY <1>2, <1>3, <1>4

(* Base is inductive: one lemma for each kind of step. *)
LEMMA BaseBegin ==
  ASSUME Base, NEW r, IsRequest(r), r.action \in Actions, Begin(r)
  PROVE  Base'
<1> DEFINE slots == r.action = "authorize" /\ Verdict(r) \in TakesSlotLock
           t == [req |-> r, at |-> now, locks |-> Rows(r), slots |-> slots,
                 verdict |-> Verdict(r)]
<1>1. TypeOK'
  BY BeginTypes DEF Base
<1>2. r.url \in Urls
  BY RequestFields
<1>3. tx' = [tx EXCEPT ![r.url] = t] /\ now' = now /\ urls' = urls
  BY DEF Begin, tables
<1>4. urls[r.url].origin \in Rows(r) /\ (r.action = "authorize" => r.arg \in Rows(r))
  BY Zenon DEF Rows
<1>5. Rows(r) \cap OriginLocks = {}
  BY DEF Begin
<1>6. DOMAIN tx = Urls /\ now \in Nat /\ MaxStall \in Nat
  BY ConstantAssumptions DEF Base, TypeOK, Times
<1>7. t.req = r /\ t.at = now /\ t.locks = Rows(r)
  OBVIOUS
<1> HIDE DEF t
<1>8. Locked'
  BY <1>2, <1>3, <1>4, <1>6, <1>7 DEF Base, Locked
<1>9. ASSUME NEW v \in Urls, v # r.url, tx[v] # NoTx
      PROVE  tx[v].locks \cap Rows(r) = {}
  BY <1>5, <1>9 DEF OriginLocks
<1>10. Apart'
  BY <1>2, <1>3, <1>6, <1>7, <1>9 DEF Base, Apart
<1>11. InTime'
  BY <1>2, <1>3, <1>6, <1>7 DEF Base, InTime
<1> QED
  BY <1>1, <1>8, <1>10, <1>11 DEF Base

LEMMA BaseClaimBegin ==
  ASSUME Base, NEW c \in Commands, ClaimBegin(c)
  PROVE  Base'
<1> DEFINE u == pick[c]
           r == [action |-> "claim", command |-> c, url |-> u,
                 token |-> <<urls[u].origin, origins[urls[u].origin].epoch + 1, u>>,
                 arg |-> urls[u].continuation]
           t == [req |-> r, at |-> now, locks |-> {urls[u].origin}, slots |-> FALSE,
                 verdict |-> "ok"]
<1>1. TypeOK'
  BY ClaimBeginTypes DEF Base
<1>2. u \in Urls
  BY DEF Base, TypeOK, ClaimBegin, ClaimGives
<1>3. tx' = [tx EXCEPT ![u] = t] /\ now' = now /\ urls' = urls
  BY DEF ClaimBegin, tables
<1>4. urls[u].origin \notin OriginLocks
  BY DEF ClaimBegin, ClaimGives
<1>5. DOMAIN tx = Urls /\ now \in Nat /\ MaxStall \in Nat
  BY ConstantAssumptions DEF Base, TypeOK, Times
<1>6. t.req.url = u /\ t.req.action = "claim" /\ t.at = now /\ t.locks = {urls[u].origin}
  OBVIOUS
<1> HIDE DEF t, u
<1>7. Locked'
  BY <1>2, <1>3, <1>5, <1>6 DEF Base, Locked
<1>8. ASSUME NEW v \in Urls, v # u, tx[v] # NoTx
      PROVE  urls[u].origin \notin tx[v].locks
  BY <1>4, <1>8 DEF OriginLocks
<1>9. Apart'
  BY <1>2, <1>3, <1>5, <1>6, <1>8 DEF Base, Apart
<1>10. InTime'
  BY <1>2, <1>3, <1>5, <1>6 DEF Base, InTime
<1> QED
  BY <1>1, <1>7, <1>9, <1>10 DEF Base

LEMMA BaseFinish ==
  ASSUME Base, NEW u \in Urls, Finish(u)
  PROVE  Base'
<1>1. TypeOK'
  BY FinishTypes DEF Base, Locked, Finish
<1>2. tx' = [tx EXCEPT ![u] = NoTx] /\ now' = now
  BY DEF Finish
<1>3. DOMAIN tx = Urls
  BY DEF Base, TypeOK
<1>4. \A v \in Urls : v # u => urls'[v].origin = urls[v].origin
  BY FinishKeeps DEF Kept
<1>5. Locked'
  BY <1>2, <1>3, <1>4 DEF Base, Locked
<1>6. Apart' /\ InTime'
  BY <1>2, <1>3 DEF Base, Apart, InTime
<1> QED
  BY <1>1, <1>5, <1>6 DEF Base

LEMMA BaseAbort ==
  ASSUME Base, NEW u \in Urls, Abort(u)
  PROVE  Base'
<1>1. tx' = [tx EXCEPT ![u] = NoTx] /\ now' = now /\ urls' = urls /\ DOMAIN tx = Urls
  BY DEF Abort, tables, Base, TypeOK
<1>2. tx' = [v \in Urls |-> tx'[v]] /\ \A v \in Urls : tx'[v] = NoTx \/ IsTransaction(tx'[v])
  BY <1>1 DEF Base, TypeOK
<1>3. TypeOK'
  BY <1>2 DEF Abort, tables, Base, TypeOK, IsTransaction, IsRequest
<1> QED
  BY <1>1, <1>3 DEF Base, Locked, Apart, InTime

LEMMA BasePick ==
  ASSUME Base, NEW c \in Commands, ClaimPick(c) \/ ClaimEmpty(c)
  PROVE  Base'
<1>1. PICK u \in Urls \cup {NoUrl} : pick' = [pick EXCEPT ![c] = u]
  BY DEF ClaimPick, ClaimEmpty
<1>2. now' = now /\ tables' = tables /\ tx' = tx
  BY DEF ClaimPick, ClaimEmpty
<1>3. TypeOK'
  BY <1>1, <1>2 DEF Base, TypeOK, tables, IsTransaction, IsRequest
<1> QED
  BY <1>2, <1>3 DEF Base, Locked, Apart, InTime, tables

(* Admit and PublishOutbox insert rows. *)
LEMMA BaseInsert ==
  ASSUME Base, TypeOK', NEW S, urls' = Inserted(S), tx' = tx, now' = now
  PROVE  Base'
<1>1. \A v \in Urls : urls'[v].origin = urls[v].origin
  BY InsertedKeeps DEF Base, Kept
<1> QED
  BY <1>1 DEF Base, Locked, Apart, InTime

LEMMA BaseAdmit ==
  ASSUME Base, NEW u \in Urls, Admit(u)
  PROVE  Base'
<1>1. urls' \in [Urls -> UrlRow] /\ capacity' \in Nat
  BY AdmitTypes DEF Base, Admit
<1>2. TypeOK'
  BY <1>1 DEF Base, TypeOK, Admit, IsTransaction, IsRequest
<1> QED
  BY <1>2, BaseInsert DEF Admit, AdmitUrls

LEMMA BasePublish ==
  ASSUME Base, NEW u \in Urls, NEW k \in 0 .. MaximumUrls, PublishOutbox(u, k)
  PROVE  Base'
<1>1. /\ k \in Nat /\ outbox[u].published \in Nat
      /\ outbox \in [Urls -> [published : Nat, done : BOOLEAN]]
  <2>1. k \in Nat
    OBVIOUS
  <2> QED
    BY <2>1 DEF Base, TypeOK
<1>2. Chunk(u, k) \subseteq Urls /\ AdmitUrls(Chunk(u, k))
  BY <1>1, ChunkUrls DEF PublishOutbox
<1>3. urls' \in [Urls -> UrlRow] /\ capacity' \in Nat
  BY <1>2, AdmitTypes DEF Base
<1>4. outbox' \in [Urls -> [published : Nat, done : BOOLEAN]]
  <2> DEFINE done == outbox[u].published + k = Len(Discoveries[u])
             row == [published |-> outbox[u].published + k, done |-> done]
  <2>1. outbox' = [outbox EXCEPT ![u] = row]
    BY DEF PublishOutbox
  <2>2. done \in BOOLEAN /\ outbox[u].published + k \in Nat
    BY <1>1
  <2> HIDE DEF done
  <2>3. row \in [published : Nat, done : BOOLEAN]
    BY <2>2
  <2> QED
    BY <1>1, <2>1, <2>3
<1>5. TypeOK'
  BY <1>3, <1>4 DEF Base, TypeOK, PublishOutbox, IsTransaction, IsRequest
<1> QED
  BY <1>2, <1>5, BaseInsert DEF PublishOutbox, AdmitUrls

LEMMA BaseTransfer ==
  ASSUME Base, NEW p \in Partitions, NEW owner \in Nodes \cup {Draining}, Transfer(p, owner)
  PROVE  Base'
<1>1. TypeOK'
  BY DEF Base, TypeOK, Transfer, IsTransaction, IsRequest
<1> QED
  BY <1>1 DEF Base, Locked, Apart, InTime, Transfer

LEMMA BaseTick ==
  ASSUME Base, Tick
  PROVE  Base'
<1>1. now \in Nat /\ now' = now + 1 /\ now < MaxTime /\ MaxTime \in Nat /\ MaxStall \in Nat
  BY ConstantAssumptions DEF Base, TypeOK, Times, Tick
<1>2. now' \in Times
  BY <1>1 DEF Times
<1>3. TypeOK'
  BY <1>2 DEF Base, TypeOK, Tick, tables, IsTransaction, IsRequest
<1>4. tx' = tx /\ urls' = urls
  BY DEF Tick, tables
<1>5. ASSUME NEW u \in Urls, tx[u] # NoTx
      PROVE  tx[u].at <= now + 1 /\ now + 1 <= tx[u].at + MaxStall
  <2>1. tx[u].at \in Nat
    BY <1>5, TransactionFields DEF Base
  <2> QED
    BY <1>1, <1>5, <2>1 DEF Base, InTime, Tick
<1> QED
  BY <1>1, <1>3, <1>4, <1>5 DEF Base, Locked, Apart, InTime

LEMMA BaseInit == Init => Base
<1> SUFFICES ASSUME Init PROVE Base
  OBVIOUS
<1>1. \A u \in Urls : tx[u] = NoTx
  BY DEF Init
<1> QED
  BY <1>1, InitTypes DEF Base, Locked, Apart, InTime

LEMMA BaseNext == Base /\ [Next]_vars => Base'
<1> SUFFICES ASSUME Base, [Next]_vars PROVE Base'
  OBVIOUS
<1>1. ASSUME NEW c \in Commands, ClaimPick(c) \/ ClaimEmpty(c) \/ ClaimBegin(c)
      PROVE  Base'
  BY <1>1, BasePick, BaseClaimBegin
<1>2. ASSUME NEW c \in Commands, NEW u \in Urls, NEW action \in Calls,
             NEW arg \in Asked(action), Call(c, u, action, arg)
      PROVE  Base'
  <2>1. PICK r : IsRequest(r) /\ r.action \in Actions /\ Begin(r)
    BY <1>2, CallRequests DEF Base
  <2> QED
    BY <2>1, BaseBegin
<1>3. ASSUME NEW u \in Urls, Finish(u) \/ Abort(u) \/ Admit(u)
      PROVE  Base'
  BY <1>3, BaseFinish, BaseAbort, BaseAdmit
<1>4. ASSUME NEW u \in Urls, NEW k \in 0 .. MaximumUrls, PublishOutbox(u, k)
      PROVE  Base'
  BY <1>4, BasePublish
<1>5. ASSUME NEW p \in Partitions, NEW owner \in Nodes \cup {Draining}, Transfer(p, owner)
      PROVE  Base'
  BY <1>5, BaseTransfer
<1>6. CASE Tick
  BY <1>6, BaseTick
<1>7. CASE UNCHANGED vars
  BY <1>7 DEF Base, TypeOK, Locked, Apart, InTime, vars, tables, IsTransaction, IsRequest
<1> QED
  BY <1>1, <1>2, <1>3, <1>4, <1>5, <1>6, <1>7, Zenon DEF Next, Horizon

(* Transactions keep apart: the row locks of the schema, with the types. *)
THEOREM BaseHolds == Spec => []Base
BY BaseInit, BaseNext, PTL DEF Spec

(* The tables and the transactions in progress keep their types. *)
THEOREM Typed == Spec => []TypeOK
<1>1. Base => TypeOK
  BY DEF Base
<1> QED
  BY <1>1, BaseHolds, PTL

-----------------------------------------------------------------------------
(* Pauses of an origin *)

(* A granted authorization found the origin eligible, and the lock keeps   *)
(* it so until the new pause is written.                                   *)
Courteous ==
  \A u \in Urls :
    tx[u] # NoTx /\ tx[u].req.action = "authorize" /\ tx[u].verdict = "ok"
      => origins[tx[u].req.arg].eligible_at <= tx[u].at

(* No transaction shortens a pause. *)
LEMMA FinishPauses ==
  ASSUME Base, Courteous, NEW u \in Urls, Finish(u), NEW o \in Origins
  PROVE  origins'[o].eligible_at >= origins[o].eligible_at
<1> DEFINE t == tx[u]
<1>1. /\ origins \in [Origins -> OriginRow]
      /\ \A p \in Origins : origins[p].eligible_at \in Nat
  BY DEF Base, TypeOK, OriginRow
<1>2. /\ t # NoTx /\ Apply(t) /\ t.at \in Nat /\ IsRequest(t.req)
      /\ (t.req.action = "authorize" => t.req.arg \in Origins)
  BY TransactionFields, RequestFields DEF Base, Finish
<1>3. urls[u].origin \in Origins /\ t.req.url = u
  BY DEF Base, TypeOK, UrlRow, Locked, Finish
<1>4. \A a, b \in Int : Max2(a, b) >= a
  BY DEF Max2
<1>5. Cooldown \in Nat /\ MinimumDelay \in Nat
  BY ConstantAssumptions
<1>6. t.req.action = "authorize" /\ t.verdict = "ok"
        => origins[t.req.arg].eligible_at <= t.at
  BY <1>2 DEF Courteous
<1>7. t.req.action = "robots_put" => Rules[t.req.arg].ttl \in Nat /\ Rules[t.req.arg].delay \in Nat
  <2>1. t.req.action = "robots_put" => t.req.arg \in RobotsAnswers
    BY <1>2, RequestFields
  <2> QED
    BY <2>1, ConstantAssumptions
<1> DEFINE G == origins'[o].eligible_at >= origins[o].eligible_at
<1> HIDE DEF t
<1>8. ASSUME ClaimApply(t) PROVE G
  <2>1. PICK row : /\ origins' = [origins EXCEPT ![urls[u].origin] = row]
                   /\ row.eligible_at = origins[urls[u].origin].eligible_at
    <3> DEFINE row == [epoch |-> origins[urls[u].origin].epoch + 1,
                       owner |-> Sender[t.req.command], token |-> t.req.token,
                       deadline |-> t.at + Lease,
                       eligible_at |-> origins[urls[u].origin].eligible_at,
                       last_turn |-> t.at]
    <3>1. origins' = [origins EXCEPT ![urls[u].origin] = row]
      BY <1>3, <1>8 DEF ClaimApply
    <3>2. row.eligible_at = origins[urls[u].origin].eligible_at
      OBVIOUS
    <3> QED
      BY <3>1, <3>2
  <2> QED
    BY <1>1, <1>3, <2>1
<1>9. ASSUME RenewApply(t) PROVE G
  <2>1. origins'[o] = origins[o]
          \/ origins'[o] = [origins[o] EXCEPT !.deadline = t.at + Lease]
    BY <1>9 DEF RenewApply
  <2>2. \A x \in OriginRow : [x EXCEPT !.deadline = t.at + Lease].eligible_at = x.eligible_at
    BY DEF OriginRow
  <2>3. origins'[o].eligible_at = origins[o].eligible_at
    BY <1>1, <2>1, <2>2, Zenon
  <2> QED
    BY <1>1, <2>3
<1>10. ASSUME t.req.action = "authorize", AuthorizeApply(t) PROVE G
  <2> DEFINE dest == t.req.arg
             held == IF Acquires(t)
                     THEN [origins[dest] EXCEPT !.epoch = @ + 1,
                             !.owner = Sender[t.req.command],
                             !.token = t.req.token, !.deadline = t.at + Lease]
                     ELSE origins[dest]
             delay == Max2(MinimumDelay, CrawlDelay(dest, t.at))
             row == IF t.verdict = "ok" THEN [held EXCEPT !.eligible_at = t.at + delay]
                                        ELSE held
  <2>1. origins' = [origins EXCEPT ![dest] = row]
    BY <1>10 DEF AuthorizeApply
  <2>2. dest \in Origins
    BY <1>2, <1>10
  <2>3. delay \in Nat
    <3>1. CrawlDelay(dest, t.at) \in Nat
      BY <2>2 DEF Base, TypeOK, CrawlDelay
    <3> HIDE DEF dest
    <3> QED
      BY <1>5, <3>1 DEF Max2
  <2>4. held.eligible_at = origins[dest].eligible_at /\ DOMAIN held = DOMAIN origins[dest]
    <3>1. origins[dest] \in OriginRow
      BY <1>1, <2>2
    <3> QED
      BY <3>1 DEF OriginRow
  <2>5. "eligible_at" \in DOMAIN held
    <3>1. origins[dest] \in OriginRow
      BY <1>1, <2>2
    <3> QED
      BY <2>4, <3>1 DEF OriginRow
  <2> HIDE DEF held, delay, dest
  <2>6. row.eligible_at = IF t.verdict = "ok" THEN t.at + delay ELSE held.eligible_at
    BY <2>5
  <2>7. t.verdict = "ok" => origins[dest].eligible_at <= t.at
    BY <1>6, <1>10 DEF dest
  <2>8. row.eligible_at >= origins[dest].eligible_at
    BY <1>1, <1>2, <2>2, <2>3, <2>4, <2>6, <2>7
  <2> HIDE DEF row
  <2> QED
    BY <1>1, <2>1, <2>2, <2>8
<1>11. ASSUME t.req.action = "robots_put", RobotsPutApply(t) PROVE G
  <2> DEFINE p == urls[u].origin
             pause == t.at + IF Rules[t.req.arg].failed THEN Rules[t.req.arg].ttl
                                                       ELSE Rules[t.req.arg].delay
             row == [origins[p] EXCEPT !.eligible_at = Max2(origins[p].eligible_at, pause)]
  <2>1. origins' = [origins EXCEPT ![p] = row]
    BY <1>3, <1>11 DEF RobotsPutApply
  <2>2. pause \in Int
    BY <1>2, <1>7, <1>11
  <2> HIDE DEF pause
  <2>3. row.eligible_at = Max2(origins[p].eligible_at, pause)
    BY <1>1, <1>3 DEF OriginRow
  <2>4. row.eligible_at >= origins[p].eligible_at
    BY <1>1, <1>3, <1>4, <2>2, <2>3
  <2> HIDE DEF row
  <2> QED
    BY <1>1, <1>3, <2>1, <2>4
<1>12. ASSUME origins' = origins PROVE G
  BY <1>1, <1>12
<1>13. ASSUME ReleaseApply(t) PROVE G
  <2>0. PICK wait \in RetryAfters : origins' = Released(t, wait)
    BY <1>13 DEF ReleaseApply
  <2> DEFINE until == QuietUntil(t, o, wait)
             row == [origins[o] EXCEPT !.owner = Nobody, !.token = NoToken,
                       !.deadline = NoDeadline,
                       !.eligible_at = Max2(origins[o].eligible_at, until)]
  <2>1. origins'[o] = origins[o] \/ origins'[o] = row
    BY <2>0, Zenon DEF Released
  <2>4. until \in Nat
    BY <1>2, QuietTime
  <2> HIDE DEF until
  <2>2. row.eligible_at = Max2(origins[o].eligible_at, until)
    <3>1. origins[o] \in OriginRow
      BY <1>1
    <3> QED
      BY <3>1 DEF OriginRow
  <2>3. row.eligible_at >= origins[o].eligible_at
    BY <1>1, <1>4, <2>2, <2>4
  <2> HIDE DEF row
  <2> QED
    BY <1>1, <2>1, <2>3
<1> QED
  BY <1>2, <1>8, <1>9, <1>10, <1>11, <1>12, <1>13, Zenon
    DEF Apply, ContinueApply, DiscoverApply, CommitApply, NackApply

(* A step starts, ends or loses a transaction, or touches none of the      *)
(* tables that leases are made of.                                         *)
Aside ==
  /\ UNCHANGED <<tx, origins, captures, budgets, request_slots, auxiliary_origins>>
  /\ urls' = urls \/ \E S \in SUBSET Urls : urls' = Inserted(S)
  /\ \/ pick' = pick /\ (now' = now \/ \A c \in Commands : pick[c] = NoUrl)
     \/ now' = now /\ urls' = urls /\ \E c \in Commands : ClaimPick(c) \/ ClaimEmpty(c)

LEMMA StepKinds ==
  ASSUME TypeOK, [Next]_vars
  PROVE  \/ \E r : IsRequest(r) /\ r.action \in Actions /\ r.token[3] = r.url /\ Begin(r)
         \/ \E c \in Commands : ClaimBegin(c)
         \/ \E u \in Urls : Finish(u)
         \/ \E u \in Urls : Abort(u)
         \/ Aside
<1>1. ASSUME NEW c \in Commands, ClaimPick(c) \/ ClaimEmpty(c)
      PROVE  Aside
  BY <1>1 DEF ClaimPick, ClaimEmpty, Aside, tables
<1>2. ASSUME NEW c \in Commands, NEW u \in Urls, NEW action \in Calls,
             NEW arg \in Asked(action), Call(c, u, action, arg)
      PROVE  \E r : IsRequest(r) /\ r.action \in Actions /\ r.token[3] = r.url /\ Begin(r)
  BY <1>2, CallRequests
<1>3. ASSUME NEW u \in Urls, Admit(u)
      PROVE  Aside
  <2>1. {u} \in SUBSET Urls /\ urls' = Inserted({u})
    BY <1>3 DEF Admit, AdmitUrls
  <2>2. UNCHANGED <<tx, origins, captures, budgets, request_slots, auxiliary_origins, pick, now>>
    BY <1>3 DEF Admit
  <2> QED
    BY <2>1, <2>2 DEF Aside
<1>4. ASSUME NEW u \in Urls, NEW k \in 0 .. MaximumUrls, PublishOutbox(u, k)
      PROVE  Aside
  <2>1. k \in Nat
    OBVIOUS
  <2>2. outbox[u].published \in Nat
    BY DEF TypeOK
  <2>3. Chunk(u, k) \in SUBSET Urls /\ urls' = Inserted(Chunk(u, k))
    BY <1>4, <2>1, <2>2, ChunkUrls DEF PublishOutbox, AdmitUrls
  <2>4. UNCHANGED <<tx, origins, captures, budgets, request_slots, auxiliary_origins, pick, now>>
    BY <1>4 DEF PublishOutbox
  <2> QED
    BY <2>3, <2>4 DEF Aside
<1>5. ASSUME NEW p \in Partitions, NEW owner \in Nodes \cup {Draining}, Transfer(p, owner)
      PROVE  Aside
  BY <1>5 DEF Transfer, Aside
<1>6. CASE Tick
  BY <1>6 DEF Tick, Aside, tables
<1>7. CASE UNCHANGED vars
  BY <1>7 DEF Aside, vars, tables
<1> QED
  BY <1>1, <1>2, <1>3, <1>4, <1>5, <1>6, <1>7, Zenon DEF Next, Horizon

(* Rows stay filed under their origin while nothing is written to them. *)
LEMMA AsideKeeps ==
  ASSUME Base, Aside, NEW v \in Urls
  PROVE  Kept(v)
<1>1. CASE urls' = urls
  BY <1>1 DEF Kept
<1>2. ASSUME NEW S \in SUBSET Urls, urls' = Inserted(S)
      PROVE  Kept(v)
  BY <1>2, InsertedKeeps DEF Base
<1> QED
  BY <1>1, <1>2 DEF Aside

(* A transaction in progress keeps the origins it has locked from others. *)
LEMMA LocksHold ==
  ASSUME Base, NEW u \in Urls, Finish(u), NEW v \in Urls, tx'[v] # NoTx
  PROVE  /\ v # u /\ tx'[v] = tx[v] /\ Kept(v)
         /\ \A o \in tx[v].locks : origins'[o] = origins[o]
<1>1. DOMAIN tx = Urls /\ tx' = [tx EXCEPT ![u] = NoTx] /\ tx[u] # NoTx
  BY DEF Base, TypeOK, Finish
<1>2. v # u /\ tx'[v] = tx[v] /\ tx[v] # NoTx
  BY <1>1
<1>3. tx[v].locks \subseteq Origins /\ tx[v].locks \cap tx[u].locks = {}
  BY <1>1, <1>2, TransactionFields DEF Base, Apart
<1> QED
  BY <1>2, <1>3, FinishWrites, FinishKeeps

(* The transaction that a call and a claim start. *)
LEMMA BeginStarts ==
  ASSUME NEW r, Begin(r)
  PROVE  \E t : /\ tx' = [tx EXCEPT ![r.url] = t]
                /\ t.req = r /\ t.at = now /\ t.verdict = Verdict(r) /\ t.locks = Rows(r)
                /\ t.slots = (r.action = "authorize" /\ Verdict(r) \in TakesSlotLock)
<1> DEFINE slots == r.action = "authorize" /\ Verdict(r) \in TakesSlotLock
           t == [req |-> r, at |-> now, locks |-> Rows(r), slots |-> slots,
                 verdict |-> Verdict(r)]
<1>1. tx' = [tx EXCEPT ![r.url] = t]
  BY DEF Begin
<1>2. t.req = r /\ t.at = now /\ t.verdict = Verdict(r) /\ t.locks = Rows(r) /\ t.slots = slots
  OBVIOUS
<1> HIDE DEF t
<1> QED
  BY <1>1, <1>2

LEMMA ClaimStarts ==
  ASSUME NEW c \in Commands, ClaimBegin(c)
  PROVE  \E t : LET o == urls[pick[c]].origin IN
           /\ tx' = [tx EXCEPT ![pick[c]] = t] /\ t.req.action = "claim" /\ ~t.slots
           /\ t.at = now /\ t.locks = {o} /\ t.req.token = <<o, origins[o].epoch + 1, pick[c]>>
<1> DEFINE u == pick[c]
           r == [action |-> "claim", command |-> c, url |-> u,
                 token |-> <<urls[u].origin, origins[urls[u].origin].epoch + 1, u>>,
                 arg |-> urls[u].continuation]
           t == [req |-> r, at |-> now, locks |-> {urls[u].origin}, slots |-> FALSE,
                 verdict |-> "ok"]
<1>1. tx' = [tx EXCEPT ![u] = t]
  BY DEF ClaimBegin
<1>2. /\ t.req.action = "claim" /\ t.slots = FALSE /\ t.at = now /\ t.locks = {urls[u].origin}
      /\ t.req.token = <<urls[u].origin, origins[urls[u].origin].epoch + 1, u>>
  OBVIOUS
<1> HIDE DEF t
<1> QED
  BY <1>1, <1>2

LEMMA CourteousNext ==
  ASSUME Base, Courteous, [Next]_vars
  PROVE  Courteous'
<1>0. DOMAIN tx = Urls
  BY DEF Base, TypeOK
<1>1. ASSUME NEW r, IsRequest(r), r.action \in Actions, Begin(r)
      PROVE  Courteous'
  <2>4. PICK t : /\ tx' = [tx EXCEPT ![r.url] = t]
                 /\ t.req = r /\ t.at = now /\ t.verdict = Verdict(r)
    BY <1>1, BeginStarts
  <2>1. origins' = origins
    BY <1>1 DEF Begin, tables
  <2>2. r.url \in Urls /\ (r.action = "authorize" => r.arg \in Origins)
    BY <1>1, RequestFields
  <2>3. ASSUME r.action = "authorize", Verdict(r) = "ok"
        PROVE  origins[r.arg].eligible_at <= now
    <3>1. ~(origins[r.arg].eligible_at > now)
      BY <2>3 DEF Verdict, AuthorizeVerdict
    <3>2. origins[r.arg].eligible_at \in Nat /\ now \in Nat
      BY <2>2, <2>3, ConstantAssumptions DEF Base, TypeOK, OriginRow, Times
    <3> QED
      BY <3>1, <3>2
  <2> QED
    BY <1>0, <2>1, <2>2, <2>3, <2>4 DEF Courteous
<1>2. ASSUME NEW c \in Commands, ClaimBegin(c)
      PROVE  Courteous'
  <2>1. PICK t : tx' = [tx EXCEPT ![pick[c]] = t] /\ t.req.action = "claim"
    BY <1>2, ClaimStarts
  <2>2. origins' = origins
    BY <1>2 DEF ClaimBegin, tables
  <2> QED
    BY <1>0, <2>1, <2>2 DEF Courteous
<1>3. ASSUME NEW u \in Urls, Finish(u)
      PROVE  Courteous'
  BY <1>3, LocksHold DEF Base, Locked, Courteous
<1>4. ASSUME NEW u \in Urls, Abort(u)
      PROVE  Courteous'
  BY <1>0, <1>4 DEF Courteous, Abort, tables
<1>5. CASE Aside
  BY <1>5 DEF Courteous, Aside
<1> QED
  BY <1>1, <1>2, <1>3, <1>4, <1>5, StepKinds DEF Base

(* A granted authorization stays granted until it is visible. *)
THEOREM CourteousHolds == Spec => []Courteous
<1>1. Init => Courteous
  BY DEF Init, Courteous
<1>2. Base /\ Courteous /\ [Next]_vars => Courteous'
  BY CourteousNext
<1> QED
  BY <1>1, <1>2, BaseHolds, PTL DEF Spec

(* A pause of an origin is never shortened, although authorize overwrites  *)
(* eligible_at without comparing it.                                       *)
THEOREM PausesGrow == Spec => CourtesyNeverShortened
<1>1. ASSUME Base, Courteous, [Next]_vars
      PROVE  \A o \in Origins : origins'[o].eligible_at >= origins[o].eligible_at
  <2>1. \A o \in Origins : origins[o].eligible_at \in Nat
    BY <1>1 DEF Base, TypeOK, OriginRow
  <2>2. CASE origins' = origins
    BY <2>1, <2>2
  <2>3. ASSUME NEW u \in Urls, Finish(u)
        PROVE  \A o \in Origins : origins'[o].eligible_at >= origins[o].eligible_at
    BY <1>1, <2>3, FinishPauses
  <2>4. \/ origins' = origins
        \/ \E u \in Urls : Finish(u)
    BY <1>1, StepKinds DEF Base, Begin, ClaimBegin, Abort, Aside, tables
  <2> QED
    BY <2>2, <2>3, <2>4
<1> DEFINE A == \A o \in Origins : origins'[o].eligible_at >= origins[o].eligible_at
<1>2. Base /\ Courteous /\ [Next]_vars => [A]_vars
  BY <1>1
<1> HIDE DEF A
<1>3. Spec => [][A]_vars
  BY <1>2, BaseHolds, CourteousHolds, PTL DEF Spec
<1> QED
  BY <1>3 DEF A, CourtesyNeverShortened

-----------------------------------------------------------------------------
(* Stored captures *)

(* A call about a lease is in progress only if the lease was valid at its  *)
(* clock, and the lock keeps that lease as it is.                          *)
UnderLease ==
  \A u \in Urls :
    tx[u] # NoTx /\ tx[u].req.action # "claim"
      => tx[u].at < origins[urls[u].origin].deadline

(* A URL with a capture is committed and no transaction works on it. *)
Stored ==
  \A u \in Urls :
    captures[u] # NoCapture => urls[u].state = "committed" /\ tx[u] = NoTx

(* A commit in progress has found no capture, and holds the row. *)
Unstored ==
  \A u \in Urls :
    tx[u] # NoTx /\ tx[u].req.action = "commit" => captures[u] = NoCapture

(* No commit is on its way for longer than the cooldown.  Nothing in the   *)
(* schema makes it so.                                                     *)
PromptCommits ==
  \A u \in Urls :
    tx[u] # NoTx /\ tx[u].req.action = "commit" => now <= tx[u].at + Cooldown

(* The snapshot of a claim precedes its locks.  If its candidate has been  *)
(* committed since, then within the same instant, and the quiet period     *)
(* that commit started turns the claim away.                               *)
Picked ==
  \A c \in Commands : pick[c] # NoUrl =>
    /\ \/ captures[pick[c]] = NoCapture
       \/ origins[urls[pick[c]].origin].eligible_at > now
    /\ tx[pick[c]] # NoTx /\ tx[pick[c]].req.action = "commit" => tx[pick[c]].at = now

LEMMA UnderLeaseNext ==
  ASSUME Base, UnderLease, [Next]_vars
  PROVE  UnderLease'
<1>0. DOMAIN tx = Urls
  BY DEF Base, TypeOK
<1>1. ASSUME NEW r, IsRequest(r), r.action \in Actions, Begin(r)
      PROVE  UnderLease'
  <2>4. PICK t : /\ tx' = [tx EXCEPT ![r.url] = t]
                 /\ t.req = r /\ t.at = now /\ t.verdict = Verdict(r)
    BY <1>1, BeginStarts
  <2>1. origins' = origins /\ urls' = urls
    BY <1>1 DEF Begin, tables
  <2>2. r.url \in Urls
    BY <1>1, RequestFields
  <2>3. now < origins[urls[r.url].origin].deadline
    <3>1. Verdict(r) \notin Refusals
      BY <1>1 DEF Begin
    <3>2. ~Fenced(r)
      BY <3>1 DEF Verdict, Refusals
    <3>3. ~(origins[urls[r.url].origin].deadline <= now)
      BY <3>2 DEF Fenced
    <3>4. origins[urls[r.url].origin] \in OriginRow /\ now \in Int
      BY <2>2, ConstantAssumptions DEF Base, TypeOK, UrlRow, Times
    <3>5. NoDeadline \in Int
      BY ConstantAssumptions DEF NoDeadline
    <3>6. origins[urls[r.url].origin].deadline \in Int
      BY <3>4, <3>5 DEF OriginRow
    <3> QED
      BY <3>3, <3>4, <3>6
  <2> QED
    BY <1>0, <2>1, <2>2, <2>3, <2>4 DEF UnderLease
<1>2. ASSUME NEW c \in Commands, ClaimBegin(c)
      PROVE  UnderLease'
  <2>1. PICK t : tx' = [tx EXCEPT ![pick[c]] = t] /\ t.req.action = "claim"
    BY <1>2, ClaimStarts
  <2>2. origins' = origins /\ urls' = urls
    BY <1>2 DEF ClaimBegin, tables
  <2> QED
    BY <1>0, <2>1, <2>2 DEF UnderLease
<1>3. ASSUME NEW u \in Urls, Finish(u)
      PROVE  UnderLease'
  <2> SUFFICES ASSUME NEW v \in Urls, tx'[v] # NoTx, tx'[v].req.action # "claim"
               PROVE  tx'[v].at < origins'[urls'[v].origin].deadline
    BY DEF UnderLease
  <2>1. tx'[v] = tx[v] /\ urls'[v].origin = urls[v].origin
    BY <1>3, LocksHold DEF Kept
  <2>2. origins'[urls[v].origin] = origins[urls[v].origin]
    BY <1>3, <2>1, LocksHold DEF Base, Locked
  <2> QED
    BY <2>1, <2>2 DEF UnderLease
<1>4. ASSUME NEW u \in Urls, Abort(u)
      PROVE  UnderLease'
  BY <1>0, <1>4 DEF UnderLease, Abort, tables
<1>5. CASE Aside
  <2>1. \A v \in Urls : urls'[v].origin = urls[v].origin
    BY <1>5, AsideKeeps DEF Kept
  <2> QED
    BY <1>5, <2>1 DEF UnderLease, Aside
<1> QED
  BY <1>1, <1>2, <1>3, <1>4, <1>5, StepKinds DEF Base

(* The lease of a URL had not lapsed at the clock of a call about it, and  *)
(* stays the one the call was checked against until the call is visible.   *)
THEOREM UnderLeaseHolds == Spec => []UnderLease
<1>1. Init => UnderLease
  BY DEF Init, UnderLease
<1>2. Base /\ UnderLease /\ [Next]_vars => UnderLease'
  BY UnderLeaseNext
<1> QED
  BY <1>1, <1>2, BaseHolds, PTL DEF Spec

(* A call about a URL with a capture is refused without a transaction. *)
LEMMA UnstoredRefuses ==
  ASSUME NEW r, r.action = "commit", Begin(r)
  PROVE  captures[r.url] = NoCapture
<1> SUFFICES ASSUME captures[r.url] # NoCapture PROVE FALSE
  OBVIOUS
<1>1. Verdict(r) \in Refusals
  BY DEF Verdict, Refusals
<1> QED
  BY <1>1 DEF Begin

LEMMA UnstoredNext ==
  ASSUME Base, Unstored, [Next]_vars
  PROVE  Unstored'
<1>0. DOMAIN tx = Urls
  BY DEF Base, TypeOK
<1>1. ASSUME NEW r, IsRequest(r), r.action \in Actions, Begin(r)
      PROVE  Unstored'
  <2>1. PICK t : tx' = [tx EXCEPT ![r.url] = t] /\ t.req = r
    BY <1>1, BeginStarts
  <2>2. captures' = captures
    BY <1>1 DEF Begin, tables
  <2> QED
    BY <1>0, <1>1, <2>1, <2>2, UnstoredRefuses DEF Unstored
<1>2. ASSUME NEW c \in Commands, ClaimBegin(c)
      PROVE  Unstored'
  <2>1. PICK t : tx' = [tx EXCEPT ![pick[c]] = t] /\ t.req.action = "claim"
    BY <1>2, ClaimStarts
  <2>2. captures' = captures
    BY <1>2 DEF ClaimBegin, tables
  <2> QED
    BY <1>0, <2>1, <2>2 DEF Unstored
<1>3. ASSUME NEW u \in Urls, Finish(u)
      PROVE  Unstored'
  BY <1>3, LocksHold, FinishWrites DEF Unstored
<1>4. ASSUME NEW u \in Urls, Abort(u)
      PROVE  Unstored'
  BY <1>0, <1>4 DEF Unstored, Abort, tables
<1>5. CASE Aside
  BY <1>5 DEF Unstored, Aside
<1> QED
  BY <1>1, <1>2, <1>3, <1>4, <1>5, StepKinds DEF Base

THEOREM UnstoredHolds == Spec => []Unstored
<1>1. Init => Unstored
  BY DEF Init, Unstored
<1> QED
  BY <1>1, UnstoredNext, BaseHolds, PTL DEF Spec

(* Only a commit writes a capture, and it found none. *)
LEMMA CapturesStay ==
  ASSUME Base, Unstored, [Next]_vars, NEW u \in Urls, captures[u] # NoCapture
  PROVE  captures'[u] = captures[u]
<1>1. CASE captures' = captures
  BY <1>1
<1>2. ASSUME NEW v \in Urls, Finish(v)
      PROVE  captures'[u] = captures[u]
  <2>1. CASE v # u
    BY <1>2, <2>1, FinishWrites
  <2>2. CASE v = u
    <3>1. tx[u].req.action # "commit" /\ Apply(tx[u])
      BY <1>2, <2>2 DEF Unstored, Finish
    <3> QED
      BY <3>1, Zenon DEF Apply, ClaimApply, RenewApply, AuthorizeApply, RobotsPutApply,
         ContinueApply, DiscoverApply, NackApply
  <2> QED
    BY <2>1, <2>2
<1>3. captures' = captures \/ \E v \in Urls : Finish(v)
  BY StepKinds DEF Base, Begin, ClaimBegin, Abort, Aside, tables
<1> QED
  BY <1>1, <1>2, <1>3

(* A capture once stored is never replaced and never taken back, however   *)
(* long transactions stall: a claim may reopen its URL, but every later    *)
(* commit of it is refused.                                                *)
THEOREM CapturesAreFinal ==
  Spec => [][\A u \in Urls : captures[u] # NoCapture => captures'[u] = captures[u]]_vars
<1> DEFINE A == \A u \in Urls : captures[u] # NoCapture => captures'[u] = captures[u]
<1>1. Base /\ Unstored /\ [Next]_vars => [A]_vars
  BY CapturesStay
<1> HIDE DEF A
<1>2. Spec => [][A]_vars
  BY <1>1, BaseHolds, UnstoredHolds, PTL DEF Spec
<1> QED
  BY <1>2 DEF A

LEMMA StoredRefuses ==
  ASSUME Stored, NEW r, IsRequest(r), r.action \in Actions, Begin(r)
  PROVE  captures[r.url] = NoCapture
<1> SUFFICES ASSUME captures[r.url] # NoCapture PROVE FALSE
  OBVIOUS
<1>1. r.url \in Urls
  BY RequestFields
<1>2. Fenced(r)
  BY <1>1 DEF Stored, Fenced
<1>3. Verdict(r) \in Refusals
  BY <1>2 DEF Verdict, Refusals
<1> QED
  BY <1>3 DEF Begin

LEMMA StoredNext ==
  ASSUME Base, Stored, Picked, [Next]_vars
  PROVE  Stored'
<1>0. DOMAIN tx = Urls
  BY DEF Base, TypeOK
<1>1. ASSUME NEW r, IsRequest(r), r.action \in Actions, Begin(r)
      PROVE  Stored'
  <2>1. captures[r.url] = NoCapture
    BY <1>1, StoredRefuses
  <2>2. PICK t : tx' = [tx EXCEPT ![r.url] = t]
    BY <1>1, BeginStarts
  <2>3. captures' = captures /\ urls' = urls
    BY <1>1 DEF Begin, tables
  <2> QED
    BY <1>0, <2>1, <2>2, <2>3 DEF Stored
<1>2. ASSUME NEW c \in Commands, ClaimBegin(c)
      PROVE  Stored'
  <2>1. PICK t : tx' = [tx EXCEPT ![pick[c]] = t]
    BY <1>2, ClaimStarts
  <2>2. pick[c] \in Urls /\ pick[c] # NoUrl
    BY <1>2 DEF Base, TypeOK, ClaimBegin, ClaimGives
  <2>3. origins[urls[pick[c]].origin].eligible_at \in Nat /\ now \in Nat
    <3>1. urls[pick[c]].origin \in Origins
      BY <2>2 DEF Base, TypeOK, UrlRow
    <3>2. now \in Nat
      BY ConstantAssumptions DEF Base, TypeOK, Times
    <3> QED
      BY <3>1, <3>2 DEF Base, TypeOK, OriginRow
  <2>4. origins[urls[pick[c]].origin].eligible_at <= now
    BY <1>2 DEF ClaimBegin, ClaimGives, Grantable
  <2>5. captures[pick[c]] = NoCapture
    BY <2>2, <2>3, <2>4 DEF Picked
  <2>6. captures' = captures /\ urls' = urls
    BY <1>2 DEF ClaimBegin, tables
  <2> QED
    BY <1>0, <2>1, <2>5, <2>6 DEF Stored
<1>3. ASSUME NEW u \in Urls, Finish(u)
      PROVE  Stored'
  <2> SUFFICES ASSUME NEW v \in Urls, captures'[v] # NoCapture
               PROVE  urls'[v].state = "committed" /\ tx'[v] = NoTx
    BY DEF Stored
  <2>1. tx[u] # NoTx /\ tx[u].req.url = u /\ tx' = [tx EXCEPT ![u] = NoTx] /\ Apply(tx[u])
    BY <1>3 DEF Base, Locked, Finish
  <2>2. CASE v # u
    <3>1. captures[v] # NoCapture
      BY <1>3, <2>2, FinishWrites
    <3>2. urls'[v].state = "committed"
      BY <1>3, <2>2, <3>1, FinishKeeps DEF Stored, Kept
    <3> QED
      BY <1>0, <2>1, <2>2, <3>1, <3>2 DEF Stored
  <2>3. CASE v = u
    <3>1. captures[u] = NoCapture
      BY <2>1 DEF Stored
    <3>2. captures' # captures
      BY <2>3, <3>1
    <3>3. CommitApply(tx[u])
      BY <2>1, <3>2, Zenon DEF Apply, ClaimApply, RenewApply, AuthorizeApply,
         RobotsPutApply, ContinueApply, DiscoverApply, NackApply
    <3>4. urls' = [urls EXCEPT ![u].state = "committed"]
      BY <2>1, <3>3 DEF CommitApply
    <3>5. urls'[u].state = "committed"
      <4>1. urls \in [Urls -> UrlRow]
        BY DEF Base, TypeOK
      <4> QED
        BY <3>4, <4>1 DEF UrlRow
    <3> QED
      BY <1>0, <2>1, <2>3, <3>5
  <2> QED
    BY <2>2, <2>3
<1>4. ASSUME NEW u \in Urls, Abort(u)
      PROVE  Stored'
  BY <1>0, <1>4 DEF Stored, Abort, tables
<1>5. CASE Aside
  <2>1. \A v \in Urls : urls[v].state = "committed" => urls'[v].state = "committed"
    BY <1>5, AsideKeeps DEF Kept
  <2> QED
    BY <1>5, <2>1 DEF Stored, Aside
<1> QED
  BY <1>1, <1>2, <1>3, <1>4, <1>5, StepKinds DEF Base

(* A commit leaves its origin in the quiet period. *)
LEMMA CommitCools ==
  ASSUME Base, NEW u \in Urls, Finish(u), tx[u].req.action = "commit"
  PROVE  /\ urls'[u].origin = urls[u].origin
         /\ origins'[urls[u].origin].eligible_at >= tx[u].at + Cooldown
<1> DEFINE t == tx[u]
           o == urls[u].origin
<1>1. t # NoTx /\ t.req.url = u /\ o \in t.locks /\ o \in Origins /\ t.at \in Nat
  BY TransactionFields DEF Base, TypeOK, UrlRow, Locked, Finish
<1>2. CommitApply(t)
  BY DEF Finish, Apply
<1>3. PICK wait \in RetryAfters :
        urls' = [urls EXCEPT ![u].state = "committed"] /\ origins' = Released(t, wait)
  BY <1>1, <1>2 DEF CommitApply, ReleaseApply
<1>4. urls'[u].origin = o
  <2>1. urls \in [Urls -> UrlRow]
    BY DEF Base, TypeOK
  <2> QED
    BY <1>3, <2>1 DEF UrlRow
<1> DEFINE until == QuietUntil(t, o, wait)
           row == [origins[o] EXCEPT !.owner = Nobody, !.token = NoToken,
                     !.deadline = NoDeadline,
                     !.eligible_at = Max2(origins[o].eligible_at, until)]
<1>5. origins'[o] = row
  BY <1>1, <1>3 DEF Released
<1>10. until \in Nat /\ until >= t.at + Cooldown
  BY <1>1, QuietTime
<1> HIDE DEF until
<1>6. origins[o] \in OriginRow
  BY <1>1 DEF Base, TypeOK
<1>7. row.eligible_at = Max2(origins[o].eligible_at, until)
  BY <1>6 DEF OriginRow
<1>8. origins[o].eligible_at \in Nat /\ Cooldown \in Nat
  BY <1>6, ConstantAssumptions DEF OriginRow
<1> HIDE DEF row, t
<1>9. row.eligible_at >= t.at + Cooldown
  BY <1>1, <1>7, <1>8, <1>10 DEF Max2
<1> QED
  BY <1>4, <1>5, <1>9 DEF t

(* A ready candidate has no capture, and no commit of it is on its way:    *)
(* such a commit would have stalled for longer than the cooldown.          *)
LEMMA CandidateFree ==
  ASSUME PromptCommits, Base, UnderLease, Stored,
         NEW node, NEW u \in Urls, Candidate(node, u)
  PROVE  captures[u] = NoCapture /\ ~(tx[u] # NoTx /\ tx[u].req.action = "commit")
<1>1. PICK o \in Origins : o \in Claimable(node) /\ u \in Ready(o)
  BY DEF Candidate, Claimable
<1>2. urls[u].origin = o /\ urls[u].state # "committed"
  BY <1>1 DEF Ready
<1>3. origins[o].deadline + Cooldown <= now
  BY <1>1 DEF Claimable
<1>4. ASSUME tx[u] # NoTx, tx[u].req.action = "commit" PROVE FALSE
  <2>1. tx[u].at \in Nat
    BY <1>4, TransactionFields DEF Base
  <2>2. now \in Nat /\ Cooldown \in Nat /\ NoDeadline \in Int
    <3>1. now \in Times
      BY DEF Base, TypeOK
    <3>2. \A n \in Times : n \in Nat
      BY NumberConstants DEF Times
    <3> QED
      BY <3>1, <3>2, NumberConstants DEF NoDeadline
  <2>3. origins[o].deadline \in Int
    BY <2>2 DEF Base, TypeOK, OriginRow
  <2>4. tx[u].at < origins[o].deadline
    BY <1>2, <1>4 DEF UnderLease
  <2>5. now <= tx[u].at + Cooldown
    BY <1>4 DEF PromptCommits
  <2> QED
    BY <1>3, <2>1, <2>2, <2>3, <2>4, <2>5
<1> QED
  BY <1>2, <1>4 DEF Stored

LEMMA PickedNext ==
  ASSUME PromptCommits, Base, Courteous, UnderLease, Stored, Picked, [Next]_vars
  PROVE  Picked'
<1>0. DOMAIN tx = Urls /\ pick \in [Commands -> Urls \cup {NoUrl}]
  BY DEF Base, TypeOK
<1>1. ASSUME NEW r, IsRequest(r), r.action \in Actions, Begin(r)
      PROVE  Picked'
  <2>1. PICK t : tx' = [tx EXCEPT ![r.url] = t] /\ t.at = now
    BY <1>1, BeginStarts
  <2>2. UNCHANGED <<captures, origins, urls, pick, now>>
    BY <1>1 DEF Begin, tables
  <2> QED
    BY <1>0, <2>1, <2>2 DEF Picked
<1>2. ASSUME NEW c \in Commands, ClaimBegin(c)
      PROVE  Picked'
  <2>1. PICK t : tx' = [tx EXCEPT ![pick[c]] = t] /\ t.req.action = "claim"
    BY <1>2, ClaimStarts
  <2>2. UNCHANGED <<captures, origins, urls, now>> /\ pick' = [pick EXCEPT ![c] = NoUrl]
    BY <1>2 DEF ClaimBegin, tables
  <2> QED
    BY <1>0, <2>1, <2>2 DEF Picked
<1>3. ASSUME NEW u \in Urls, Finish(u)
      PROVE  Picked'
  <2> SUFFICES ASSUME NEW c \in Commands, pick[c] # NoUrl
               PROVE  /\ \/ captures'[pick[c]] = NoCapture
                         \/ origins'[urls'[pick[c]].origin].eligible_at > now
                      /\ tx'[pick[c]] # NoTx /\ tx'[pick[c]].req.action = "commit"
                           => tx'[pick[c]].at = now
    BY <1>3 DEF Picked, Finish
  <2> DEFINE v == pick[c]
  <2>1. v \in Urls
    BY <1>0
  <2>2. tx' = [tx EXCEPT ![u] = NoTx] /\ tx[u] # NoTx /\ Apply(tx[u])
    BY <1>3 DEF Finish
  <2>3. tx'[v] # NoTx /\ tx'[v].req.action = "commit" => tx'[v].at = now
    BY <1>0, <2>1, <2>2 DEF Picked
  <2>4. now \in Nat /\ Cooldown \in Nat \ {0}
    <3>1. now \in Times
      BY DEF Base, TypeOK
    <3>2. \A n \in Times : n \in Nat
      BY NumberConstants DEF Times
    <3> QED
      BY <3>1, <3>2, NumberConstants
  <2>5. \A w \in Urls : /\ urls[w].origin \in Origins
                        /\ origins[urls[w].origin].eligible_at \in Nat
    <3>1. \A w \in Urls : urls[w].origin \in Origins
      BY DEF Base, TypeOK, UrlRow
    <3> QED
      BY <3>1 DEF Base, TypeOK, OriginRow
  <2>6. CASE v # u
    <3>1. captures'[v] = captures[v] /\ urls'[v].origin = urls[v].origin
      BY <1>3, <2>1, <2>6, FinishWrites, FinishKeeps DEF Kept
    <3>2. CASE captures[v] = NoCapture
      BY <2>3, <3>1, <3>2
    <3>3. CASE origins[urls[v].origin].eligible_at > now
      <4>1. origins' \in [Origins -> OriginRow]
        BY <1>3, BaseFinish DEF Base, TypeOK
      <4>2. origins'[urls[v].origin].eligible_at \in Nat
        BY <2>1, <2>5, <4>1 DEF OriginRow
      <4>3. origins'[urls[v].origin].eligible_at >= origins[urls[v].origin].eligible_at
        BY <1>3, <2>1, <2>5, FinishPauses
      <4>4. origins'[urls[v].origin].eligible_at > now
        BY <2>1, <2>4, <2>5, <3>3, <4>2, <4>3
      <4> QED
        BY <2>3, <3>1, <4>4
    <3> QED
      BY <3>2, <3>3 DEF Picked
  <2>7. CASE v = u /\ tx[u].req.action = "commit"
    <3>1. tx[u].at = now
      BY <2>2, <2>7 DEF Picked
    <3>2. /\ urls'[u].origin = urls[u].origin
          /\ origins'[urls[u].origin].eligible_at >= now + Cooldown
      BY <1>3, <2>7, <3>1, CommitCools
    <3>3. origins' \in [Origins -> OriginRow]
      BY <1>3, BaseFinish DEF Base, TypeOK
    <3>4. origins'[urls[u].origin].eligible_at \in Nat
      BY <2>5, <3>3 DEF OriginRow
    <3>5. origins'[urls[u].origin].eligible_at > now
      BY <2>4, <3>2, <3>4
    <3> QED
      BY <2>3, <2>7, <3>2, <3>5
  <2>8. CASE v = u /\ tx[u].req.action # "commit"
    <3>1. captures' = captures
      BY <2>2, <2>8, Zenon DEF Apply, ClaimApply, RenewApply, AuthorizeApply,
         RobotsPutApply, ContinueApply, DiscoverApply, NackApply
    <3>2. captures[u] = NoCapture
      BY <2>2 DEF Stored
    <3> QED
      BY <2>3, <2>8, <3>1, <3>2
  <2> QED
    BY <2>6, <2>7, <2>8
<1>4. ASSUME NEW u \in Urls, Abort(u)
      PROVE  Picked'
  BY <1>0, <1>4 DEF Picked, Abort, tables
<1>5. CASE Aside
  <2>1. tx' = tx /\ origins' = origins /\ captures' = captures
    BY <1>5 DEF Aside
  <2>2. CASE pick' = pick /\ (now' = now \/ \A c \in Commands : pick[c] = NoUrl)
    <3>1. \A v \in Urls : urls'[v].origin = urls[v].origin
      BY <1>5, AsideKeeps DEF Kept
    <3> QED
      BY <1>0, <2>1, <2>2, <3>1 DEF Picked
  <2>3. ASSUME NEW c \in Commands, ClaimPick(c), now' = now, urls' = urls
        PROVE  Picked'
    <3>1. PICK u \in Urls : /\ Candidate(NodeOf[Sender[c]], u)
                            /\ pick' = [pick EXCEPT ![c] = u]
      BY <2>3 DEF ClaimPick
    <3>2. captures[u] = NoCapture /\ ~(tx[u] # NoTx /\ tx[u].req.action = "commit")
      BY <3>1, CandidateFree
    <3> QED
      BY <1>0, <2>1, <2>3, <3>1, <3>2 DEF Picked
  <2>4. ASSUME NEW c \in Commands, ClaimEmpty(c), now' = now, urls' = urls
        PROVE  Picked'
    <3>1. pick' = [pick EXCEPT ![c] = NoUrl]
      BY <2>4 DEF ClaimEmpty
    <3> QED
      BY <1>0, <2>1, <2>4, <3>1 DEF Picked
  <2> QED
    BY <1>5, <2>2, <2>3, <2>4 DEF Aside
<1> QED
  BY <1>1, <1>2, <1>3, <1>4, <1>5, StepKinds DEF Base

(* What the claim's second look at its candidate rests on. *)
THEOREM StoredHolds == Spec /\ []PromptCommits => [](Stored /\ Picked)
<1>1. Init => Stored /\ Picked
  BY DEF Init, Stored, Picked
<1>2. PromptCommits /\ Base /\ Courteous /\ UnderLease /\ Stored /\ Picked /\ [Next]_vars
        => Stored' /\ Picked'
  BY StoredNext, PickedNext
<1> QED
  BY <1>1, <1>2, BaseHolds, CourteousHolds, UnderLeaseHolds, PTL DEF Spec

(* A URL whose capture is stored stays committed with that capture in      *)
(* every run in which no commit is on its way for longer than the          *)
(* cooldown.  A commit that stalls for longer is the one way to reopen it. *)
THEOREM CommitsAreFinal == Spec /\ []PromptCommits => CommittedForever
<1> DEFINE A == \A u \in Urls : captures[u] # NoCapture =>
                  captures'[u] = captures[u] /\ urls'[u].state = "committed"
<1>1. ASSUME Base, Unstored, Stored, Stored', [Next]_vars
      PROVE  A
  BY <1>1, CapturesStay DEF Stored
<1>2. Base /\ Unstored /\ Stored /\ Stored' /\ [Next]_vars => [A]_vars
  BY <1>1
<1> HIDE DEF A
<1>3. Spec /\ []PromptCommits => [][A]_vars
  BY <1>2, BaseHolds, UnstoredHolds, StoredHolds, PTL DEF Spec
<1> QED
  BY <1>3 DEF A, CommittedForever

-----------------------------------------------------------------------------
(* Daily budgets *)

(* One transaction at a time counts slots and budgets. *)
Solo ==
  \A u, v \in Urls :
    u # v /\ tx[u] # NoTx /\ tx[v] # NoTx => ~(tx[u].slots /\ tx[v].slots)

(* A granted authorization found room in both budgets, and while it holds  *)
(* the lock nobody else counts.                                            *)
Quota ==
  \A u \in Urls :
    tx[u] # NoTx /\ tx[u].req.action = "authorize" /\ tx[u].verdict = "ok"
      => /\ tx[u].slots
         /\ budgets[tx[u].at \div Day][Global] < DailyRequests
         /\ budgets[tx[u].at \div Day][tx[u].req.arg] < OriginDailyRequests

Counted == Solo /\ Quota /\ BudgetsHold

(* Two counters of one row, counted together. *)
LEMMA CountedTogether ==
  ASSUME NEW D, NEW S, NEW b \in [D -> [S -> Nat]], NEW d \in D,
         NEW g \in S, NEW h \in S, g # h, NEW c,
         c = [b EXCEPT ![d][g] = @ + 1, ![d][h] = @ + 1]
  PROVE  /\ \A e \in D : e # d => c[e] = b[e]
         /\ \A s \in S : c[d][s] = IF s \in {g, h} THEN b[d][s] + 1 ELSE b[d][s]
<1> DEFINE row  == [b[d] EXCEPT ![g] = @ + 1]
           once == [b EXCEPT ![d] = row]
           both == [once[d] EXCEPT ![h] = @ + 1]
<1>1. row \in [S -> Nat] /\ \A s \in S : row[s] = IF s = g THEN b[d][s] + 1 ELSE b[d][s]
  OBVIOUS
<1>2. c = [once EXCEPT ![d] = both]
  OBVIOUS
<1>3. once \in [D -> [S -> Nat]] /\ once[d] = row /\ \A e \in D : e # d => once[e] = b[e]
  BY <1>1
<1> HIDE DEF row, once
<1>4. \A s \in S : both[s] = IF s = h THEN row[s] + 1 ELSE row[s]
  BY <1>1, <1>3
<1> HIDE DEF both
<1>5. c[d] = both /\ \A e \in D : e # d => c[e] = b[e]
  BY <1>2, <1>3
<1> QED
  BY <1>1, <1>4, <1>5

LEMMA CountedNext ==
  ASSUME Base, Counted, [Next]_vars
  PROVE  Counted'
<1>0. DOMAIN tx = Urls
  BY DEF Base, TypeOK
<1>1. ASSUME NEW r, IsRequest(r), r.action \in Actions, Begin(r)
      PROVE  Counted'
  <2>1. PICK t : /\ tx' = [tx EXCEPT ![r.url] = t]
                 /\ t.req = r /\ t.at = now /\ t.verdict = Verdict(r)
                 /\ t.slots = (r.action = "authorize" /\ Verdict(r) \in TakesSlotLock)
    BY <1>1, BeginStarts
  <2>2. budgets' = budgets
    BY <1>1 DEF Begin, tables
  <2>3. r.url \in Urls /\ (r.action = "authorize" => r.arg \in Origins)
    BY <1>1, RequestFields
  <2>4. ASSUME t.slots, NEW v \in Urls, tx[v] # NoTx
        PROVE  ~tx[v].slots
    <3>1. ~SlotWait(r, TRUE)
      BY <1>1, <2>1, <2>4 DEF Begin
    <3> QED
      BY <2>4, <3>1 DEF SlotWait
  <2>5. Solo'
    BY <1>0, <2>1, <2>3, <2>4 DEF Counted, Solo
  <2>6. ASSUME r.action = "authorize", Verdict(r) = "ok"
        PROVE  budgets[now \div Day][Global] < DailyRequests
               /\ budgets[now \div Day][r.arg] < OriginDailyRequests
    <3>1. /\ ~(budgets[Today][Global] >= DailyRequests)
          /\ ~(budgets[Today][r.arg] >= OriginDailyRequests)
      BY <2>6 DEF Verdict, AuthorizeVerdict
    <3>2. Today \in Days
      BY DEF Base, TypeOK, Today, Days
    <3>3. budgets[Today][Global] \in Nat /\ budgets[Today][r.arg] \in Nat
      BY <2>3, <2>6, <3>2 DEF Base, TypeOK
    <3>4. DailyRequests \in Nat /\ OriginDailyRequests \in Nat
      BY ConstantAssumptions
    <3> QED
      BY <3>1, <3>3, <3>4 DEF Today
  <2>7. Quota'
    BY <1>0, <2>1, <2>2, <2>3, <2>6 DEF Counted, Quota, TakesSlotLock
  <2>8. BudgetsHold'
    BY <2>2 DEF Counted, BudgetsHold
  <2> QED
    BY <2>5, <2>7, <2>8 DEF Counted
<1>2. ASSUME NEW c \in Commands, ClaimBegin(c)
      PROVE  Counted'
  <2>1. PICK t : tx' = [tx EXCEPT ![pick[c]] = t] /\ t.req.action = "claim" /\ ~t.slots
    BY <1>2, ClaimStarts
  <2>2. budgets' = budgets
    BY <1>2 DEF ClaimBegin, tables
  <2> QED
    BY <1>0, <2>1, <2>2 DEF Counted, Solo, Quota, BudgetsHold
<1>3. ASSUME NEW u \in Urls, Finish(u)
      PROVE  Counted'
  <2> DEFINE t == tx[u]
  <2>1. tx' = [tx EXCEPT ![u] = NoTx] /\ t # NoTx /\ Apply(t)
    BY <1>3 DEF Finish
  <2>2. Solo'
    BY <1>0, <2>1 DEF Counted, Solo
  <2>3. CASE budgets' = budgets
    BY <1>0, <2>1, <2>2, <2>3 DEF Counted, Quota, BudgetsHold
  <2>4. CASE t.req.action = "authorize" /\ t.verdict = "ok" /\ AuthorizeApply(t)
    <3> DEFINE day == t.at \div Day  dest == t.req.arg
    <3>1. t.slots /\ budgets[day][Global] < DailyRequests
          /\ budgets[day][dest] < OriginDailyRequests
      BY <2>1, <2>4 DEF Counted, Quota
    <3>2. Quota'
      BY <1>0, <2>1, <3>1 DEF Counted, Solo, Quota
    <3>3. dest \in Origins /\ t.at \in Times
      BY <2>1, <2>4, TransactionFields, RequestFields DEF Base
    <3>4. Global \notin Origins
      BY ConstantAssumptions DEF Global
    <3>5. day \in Days
      BY <3>3 DEF Days
    <3>6. budgets \in [Days -> [Origins \cup {Global} -> Nat]]
      BY DEF Base, TypeOK
    <3>7. budgets' = [budgets EXCEPT ![day][Global] = @ + 1, ![day][dest] = @ + 1]
      BY <2>4 DEF AuthorizeApply
    <3>8. DailyRequests \in Nat /\ OriginDailyRequests \in Nat
      BY ConstantAssumptions
    <3> HIDE DEF t, day, dest
    <3>9. /\ \A e \in Days : e # day => budgets'[e] = budgets[e]
          /\ \A s \in Origins \cup {Global} :
               budgets'[day][s] = IF s \in {Global, dest} THEN budgets[day][s] + 1
                                                          ELSE budgets[day][s]
      <4>1. dest \in Origins \cup {Global} /\ Global \in Origins \cup {Global} /\ Global # dest
        BY <3>3, <3>4
      <4> QED
        BY <3>5, <3>6, <3>7, <4>1, CountedTogether
    <3>10. ASSUME NEW d \in Days, NEW o \in Origins
           PROVE  /\ budgets[d][Global] \in Nat /\ budgets[d][o] \in Nat
                  /\ budgets[d][Global] <= DailyRequests
                  /\ budgets[d][o] <= OriginDailyRequests
                  /\ budgets[d][o] <= budgets[d][Global]
      <4>1. budgets[d][Global] \in Nat /\ budgets[d][o] \in Nat
        BY <3>6
      <4> QED
        BY <3>8, <4>1 DEF Counted, BudgetsHold, Min2
    <3>11. ASSUME NEW d \in Days, NEW o \in Origins
           PROVE  /\ budgets'[d][Global] <= DailyRequests
                  /\ budgets'[d][o] <= Min2(OriginDailyRequests, budgets'[d][Global])
      <4>1. CASE d # day
        BY <3>9, <3>10, <4>1 DEF Min2
      <4>2. CASE d = day
        <5>1. budgets'[day][Global] = budgets[day][Global] + 1
          BY <3>9
        <5>2. budgets'[day][o] = IF o = dest THEN budgets[day][o] + 1 ELSE budgets[day][o]
          BY <3>4, <3>9
        <5>3. budgets'[day][Global] <= DailyRequests
          BY <3>1, <3>5, <3>8, <3>10, <5>1
        <5>4. budgets'[day][o] <= OriginDailyRequests
          BY <3>1, <3>5, <3>8, <3>10, <5>2
        <5>5. budgets'[day][o] <= budgets'[day][Global]
          BY <3>5, <3>10, <5>1, <5>2
        <5> QED
          BY <4>2, <5>3, <5>4, <5>5 DEF Min2
      <4> QED
        BY <4>1, <4>2
    <3>12. ASSUME NEW d \in Days
           PROVE  budgets'[d][Global] <= DailyRequests
      BY <3>3, <3>11
    <3>13. BudgetsHold'
      BY <3>11, <3>12 DEF BudgetsHold
    <3> QED
      BY <2>2, <3>2, <3>13 DEF Counted
  <2>5. \/ budgets' = budgets
        \/ t.req.action = "authorize" /\ t.verdict = "ok" /\ AuthorizeApply(t)
    BY <2>1, Zenon DEF Apply, ClaimApply, RenewApply, AuthorizeApply, CommitApply,
       RobotsPutApply, ContinueApply, DiscoverApply, NackApply
  <2> QED
    BY <2>3, <2>4, <2>5
<1>4. ASSUME NEW u \in Urls, Abort(u)
      PROVE  Counted'
  BY <1>0, <1>4 DEF Counted, Solo, Quota, BudgetsHold, Abort, tables
<1>5. CASE Aside
  BY <1>5 DEF Counted, Solo, Quota, BudgetsHold, Aside
<1> QED
  BY <1>1, <1>2, <1>3, <1>4, <1>5, StepKinds DEF Base

(* Who counts does so alone, and what has been granted had room.           *)
THEOREM CountedHolds == Spec => []Counted
<1>1. Init => Counted
  <2> SUFFICES ASSUME Init PROVE Counted
    OBVIOUS
  <2>1. Solo /\ Quota
    BY DEF Init, Solo, Quota
  <2>2. \A d \in Days, s \in Origins \cup {Global} : budgets[d][s] = 0
    BY DEF Init
  <2>3. BudgetsHold
    <3>1. DailyRequests \in Nat /\ OriginDailyRequests \in Nat
      BY ConstantAssumptions
    <3>2. ASSUME NEW d \in Days
          PROVE  budgets[d][Global] = 0 /\ \A o \in Origins : budgets[d][o] = 0
      BY <2>2
    <3> QED
      BY <3>1, <3>2 DEF BudgetsHold, Min2
  <2> QED
    BY <2>1, <2>3 DEF Counted
<1>2. Base /\ Counted /\ [Next]_vars => Counted'
  BY CountedNext
<1> QED
  BY <1>1, <1>2, BaseHolds, PTL DEF Spec

(* The daily budgets are never exceeded, although several authorize calls  *)
(* may check them before one of them is visible to the others.             *)
THEOREM BudgetsAreKept == Spec => []BudgetsHold
<1>1. Counted => BudgetsHold
  BY DEF Counted
<1> QED
  BY <1>1, CountedHolds, PTL

-----------------------------------------------------------------------------
(* Redirects *)

(* Where the row of the transaction's own URL resumes. *)
Resumes(x) ==
  x.continuation # NoOrigin =>
    x.continuation = IF x.next_origin = NoOrigin THEN x.origin ELSE x.next_origin

LEMMA FinishResumes ==
  ASSUME Base, NEW u \in Urls, Finish(u), Resumes(urls[u])
  PROVE  Resumes(urls'[u])
<1> DEFINE t == tx[u]
<1>1. tx[u] # NoTx /\ t.req.url = u /\ Apply(t)
  BY DEF Base, Locked, Finish
<1>2. urls[u] \in UrlRow /\ DOMAIN urls = Urls
  BY DEF Base, TypeOK
<1>3. t.req.action = "continue_redirect" => t.req.arg \in Origins
  BY <1>1, TransactionFields, RequestFields DEF Base
<1> HIDE DEF t
<1>4. ASSUME ClaimApply(t) PROVE Resumes(urls'[u])
  BY <1>1, <1>2, <1>4 DEF ClaimApply, Resumes, UrlRow
<1>5. ASSUME urls' = urls PROVE Resumes(urls'[u])
  BY <1>5
<1>6. ASSUME AuthorizeApply(t) PROVE Resumes(urls'[u])
  <2>1. urls' = urls \/ urls' = [urls EXCEPT ![u].eligible_at = ((t.at \div Day) + 1) * Day]
    BY <1>1, <1>6 DEF AuthorizeApply
  <2> QED
    BY <1>2, <2>1 DEF Resumes, UrlRow
<1>7. ASSUME t.req.action = "continue_redirect", ContinueApply(t) PROVE Resumes(urls'[u])
  <2>1. urls'[u].continuation = t.req.arg /\ urls'[u].next_origin = t.req.arg
    BY <1>1, <1>2, <1>7 DEF ContinueApply, UrlRow
  <2>2. t.req.arg # NoOrigin
    BY <1>3, <1>7, ConstantAssumptions DEF NoOrigin
  <2> QED
    BY <2>1, <2>2 DEF Resumes
<1>8. ASSUME DiscoverApply(t) PROVE Resumes(urls'[u])
  <2>1. Kept(u)
    BY <1>8, InsertedKeeps DEF Base, DiscoverApply
  <2> QED
    BY <2>1 DEF Kept, Resumes
<1>9. ASSUME CommitApply(t) PROVE Resumes(urls'[u])
  BY <1>1, <1>2, <1>9 DEF CommitApply, Resumes, UrlRow
<1>10. ASSUME NackApply(t) PROVE Resumes(urls'[u])
  <2> DEFINE row == urls[u]
  <2>1. /\ urls'[u].continuation = row.continuation
        /\ urls'[u].next_origin = NoOrigin
        /\ urls'[u].origin = IF row.next_origin = NoOrigin THEN row.origin ELSE row.next_origin
    BY <1>1, <1>2, <1>10 DEF NackApply, UrlRow
  <2> QED
    BY <2>1 DEF Resumes
<1>11. urls' = urls \/ Resumes(urls'[u])
  BY <1>1, <1>4, <1>6, <1>7, <1>8, <1>9, <1>10 DEF Apply, RenewApply, RobotsPutApply
<1> QED
  BY <1>5, <1>11

(* A URL with a saved redirect is always resumed under the origin that the *)
(* redirect goes to, whatever claims, nacks and discoveries come between.  *)
THEOREM RedirectsResume == Spec => []ResumesUnderLease
<1>1. ResumesUnderLease <=> \A u \in Urls : Resumes(urls[u])
  BY DEF ResumesUnderLease, Resumes
<1>2. Init => ResumesUnderLease
  BY DEF Init, ResumesUnderLease
<1>3. Base /\ ResumesUnderLease /\ [Next]_vars => ResumesUnderLease'
  <2> SUFFICES ASSUME Base, ResumesUnderLease, [Next]_vars, NEW v \in Urls
               PROVE  Resumes(urls'[v])
    BY DEF ResumesUnderLease, Resumes
  <2>1. Resumes(urls[v])
    BY <1>1
  <2>2. ASSUME Kept(v) PROVE Resumes(urls'[v])
    BY <2>1, <2>2 DEF Kept, Resumes
  <2>3. ASSUME urls' = urls PROVE Resumes(urls'[v])
    BY <2>1, <2>3
  <2>4. ASSUME NEW u \in Urls, Finish(u) PROVE Resumes(urls'[v])
    BY <2>1, <2>2, <2>4, FinishKeeps, FinishResumes
  <2>5. ASSUME Aside PROVE Resumes(urls'[v])
    BY <2>2, <2>5, AsideKeeps
  <2> QED
    BY <2>3, <2>4, <2>5, StepKinds DEF Base, Begin, ClaimBegin, Abort, tables
<1> QED
  BY <1>2, <1>3, BaseHolds, PTL DEF Spec

-----------------------------------------------------------------------------
(* Outbox *)

(* Rows of the frontier are never deleted. *)
LEMMA PresentStays ==
  ASSUME Base, [Next]_vars, NEW v \in Urls, urls[v].state # "absent"
  PROVE  urls'[v].state # "absent"
<1>1. ASSUME Kept(v) PROVE urls'[v].state # "absent"
  BY <1>1 DEF Kept
<1>2. ASSUME NEW u \in Urls, Finish(u), u # v PROVE urls'[v].state # "absent"
  BY <1>1, <1>2, FinishKeeps
<1>3. ASSUME Finish(v) PROVE urls'[v].state # "absent"
  <2> DEFINE t == tx[v]
  <2>1. t.req.url = v /\ Apply(t)
    BY <1>3 DEF Base, Locked, Finish
  <2>2. urls[v] \in UrlRow /\ DOMAIN urls = Urls
    BY DEF Base, TypeOK
  <2> HIDE DEF t
  <2>3. ASSUME ClaimApply(t) PROVE urls'[v].state # "absent"
    BY <2>1, <2>2, <2>3 DEF ClaimApply, UrlRow
  <2>4. ASSUME AuthorizeApply(t) PROVE urls'[v].state # "absent"
    <3>1. urls' = urls \/ urls' = [urls EXCEPT ![v].eligible_at = ((t.at \div Day) + 1) * Day]
      BY <2>1, <2>4 DEF AuthorizeApply
    <3> QED
      BY <2>2, <3>1 DEF UrlRow
  <2>5. ASSUME ContinueApply(t) PROVE urls'[v].state # "absent"
    <3> DEFINE row == urls[v]
    <3>1. urls'[v].state = row.state
      BY <2>1, <2>2, <2>5 DEF ContinueApply, UrlRow
    <3> QED
      BY <3>1
  <2>6. ASSUME DiscoverApply(t) PROVE urls'[v].state # "absent"
    BY <1>1, <2>6, InsertedKeeps DEF Base, DiscoverApply
  <2>7. ASSUME CommitApply(t) PROVE urls'[v].state # "absent"
    BY <2>1, <2>2, <2>7 DEF CommitApply, UrlRow
  <2>8. ASSUME NackApply(t) PROVE urls'[v].state # "absent"
    <3>1. urls'[v].state \in {"terminal", "queued"}
      BY <2>1, <2>2, <2>8 DEF NackApply, UrlRow
    <3> QED
      BY <3>1
  <2> QED
    BY <2>1, <2>3, <2>4, <2>5, <2>6, <2>7, <2>8 DEF Apply, RenewApply, RobotsPutApply
<1>4. ASSUME Aside PROVE urls'[v].state # "absent"
  BY <1>1, <1>4, AsideKeeps
<1> QED
  BY <1>2, <1>3, <1>4, StepKinds DEF Base, Begin, ClaimBegin, Abort, tables

(* The cursor moves with the rows it passes, or starts anew. *)
LEMMA CursorMoves ==
  ASSUME Base, [Next]_vars, NEW v \in Urls
  PROVE  \/ outbox'[v].published = outbox[v].published
         \/ outbox'[v].published = 0
         \/ \E k \in Nat : /\ outbox'[v].published = outbox[v].published + k
                           /\ Chunk(v, k) \subseteq Urls
                           /\ urls' = Inserted(Chunk(v, k))
<1> DEFINE G == \/ outbox'[v].published = outbox[v].published
                \/ outbox'[v].published = 0
                \/ \E k \in Nat : /\ outbox'[v].published = outbox[v].published + k
                                  /\ Chunk(v, k) \subseteq Urls
                                  /\ urls' = Inserted(Chunk(v, k))
<1>1. outbox \in [Urls -> [published : Nat, done : BOOLEAN]]
  BY DEF Base, TypeOK
<1>2. ASSUME outbox' = outbox PROVE G
  BY <1>2
<1>3. ASSUME NEW u \in Urls, Finish(u) PROVE G
  <2> DEFINE t == tx[u]
  <2>1. t.req.url = u /\ Apply(t)
    BY <1>3 DEF Base, Locked, Finish
  <2> HIDE DEF t
  <2>2. outbox' = outbox \/ outbox' = [outbox EXCEPT ![u] = [published |-> 0, done |-> FALSE]]
    BY <2>1, Zenon DEF Apply, ClaimApply, RenewApply, AuthorizeApply, RobotsPutApply,
       ContinueApply, DiscoverApply, CommitApply, NackApply
  <2> QED
    BY <1>1, <2>2
<1>4. ASSUME NEW u \in Urls, NEW k \in 0 .. MaximumUrls, PublishOutbox(u, k) PROVE G
  <2>1. k \in Nat
    OBVIOUS
  <2>2. outbox[u].published \in Nat
    BY <1>1
  <2>3. Chunk(u, k) \subseteq Urls /\ urls' = Inserted(Chunk(u, k))
    BY <1>4, <2>1, <2>2, ChunkUrls DEF PublishOutbox, AdmitUrls
  <2> DEFINE row == [published |-> outbox[u].published + k,
                     done |-> outbox[u].published + k = Len(Discoveries[u])]
  <2>4. outbox' = [outbox EXCEPT ![u] = row] /\ row.published = outbox[u].published + k
    BY <1>4 DEF PublishOutbox
  <2> HIDE DEF row
  <2> QED
    BY <1>1, <2>1, <2>3, <2>4
<1>5. ASSUME NEW c \in Commands, ClaimPick(c) \/ ClaimEmpty(c) \/ ClaimBegin(c) PROVE G
  BY <1>2, <1>5 DEF ClaimPick, ClaimEmpty, ClaimBegin, tables
<1>6. ASSUME NEW c \in Commands, NEW u \in Urls, NEW action \in Calls,
             NEW arg \in Asked(action), Call(c, u, action, arg)
      PROVE  G
  BY <1>2, <1>6 DEF Call, Begin, tables
<1>7. ASSUME NEW u \in Urls, Abort(u) \/ Admit(u) PROVE G
  BY <1>2, <1>7 DEF Abort, Admit, tables
<1>8. ASSUME NEW p \in Partitions, NEW owner \in Nodes \cup {Draining}, Transfer(p, owner)
      PROVE  G
  BY <1>2, <1>8 DEF Transfer
<1>9. ASSUME Tick \/ UNCHANGED vars PROVE G
  BY <1>2, <1>9 DEF Tick, vars, tables
<1> HIDE DEF G
<1>10. G
  BY <1>3, <1>4, <1>5, <1>6, <1>7, <1>8, <1>9, Zenon DEF Next, Horizon
<1> QED
  BY <1>10 DEF G

(* Every discovery that the outbox cursor has passed is a URL of the       *)
(* frontier, also when the quota stopped a publication in the middle.      *)
THEOREM PublishedStay == Spec => []PublishedArePresent
<1>1. Init => PublishedArePresent
  BY DEF Init, PublishedArePresent
<1>2. Base /\ PublishedArePresent /\ [Next]_vars => PublishedArePresent'
  <2> SUFFICES ASSUME Base, PublishedArePresent, [Next]_vars, NEW u \in Urls,
                      NEW i \in 1 .. outbox'[u].published
               PROVE  Discoveries[u][i] \in Present'
    BY DEF PublishedArePresent
  <2> DEFINE d == Discoveries[u][i]
  <2>1. outbox[u].published \in Nat
    BY DEF Base, TypeOK
  <2>2. ASSUME i \in 1 .. outbox[u].published PROVE d \in Present'
    <3>1. d \in Urls /\ urls[d].state # "absent"
      BY <2>2 DEF PublishedArePresent, Present
    <3> QED
      BY <3>1, PresentStays DEF Present
  <2>3. ASSUME NEW k \in Nat, outbox'[u].published = outbox[u].published + k,
               Chunk(u, k) \subseteq Urls, urls' = Inserted(Chunk(u, k)),
               i \notin 1 .. outbox[u].published
        PROVE  d \in Present'
    <3>1. i \in outbox[u].published + 1 .. outbox[u].published + k
      BY <2>1, <2>3
    <3>2. d \in Chunk(u, k) /\ d \in Urls
      BY <2>3, <3>1 DEF Chunk
    <3>3. urls[d] \in UrlRow
      BY <3>2 DEF Base, TypeOK
    <3>4. urls'[d].state # "absent"
      BY <2>3, <3>2, <3>3 DEF Inserted, Absent, UrlRow
    <3> QED
      BY <3>2, <3>4 DEF Present
  <2> HIDE DEF d
  <2>4. ASSUME outbox'[u].published = outbox[u].published PROVE d \in Present'
    BY <2>2, <2>4
  <2>5. ASSUME outbox'[u].published = 0 PROVE d \in Present'
    BY <2>5
  <2>6. ASSUME NEW k \in Nat, outbox'[u].published = outbox[u].published + k,
               Chunk(u, k) \subseteq Urls, urls' = Inserted(Chunk(u, k))
        PROVE  d \in Present'
    BY <2>2, <2>3, <2>6
  <2>7. d \in Present'
    BY <2>4, <2>5, <2>6, CursorMoves, Zenon
  <2> QED
    BY <2>7 DEF d
<1> QED
  BY <1>1, <1>2, BaseHolds, PTL DEF Spec

-----------------------------------------------------------------------------
(* The counter of the quota *)

(* Rows are counted as they are inserted, or not at all. *)
LEMMA CountedInserts ==
  ASSUME Base, [Next]_vars
  PROVE  \/ capacity' = capacity
         \/ \E S \in SUBSET Urls : /\ urls' = Inserted(S)
                                   /\ capacity' = capacity + Cardinality(Absent(S))
<1> DEFINE G == \/ capacity' = capacity
                \/ \E S \in SUBSET Urls : /\ urls' = Inserted(S)
                                          /\ capacity' = capacity + Cardinality(Absent(S))
<1>1. ASSUME NEW u \in Urls, Finish(u) PROVE G
  <2>1. Apply(tx[u])
    BY <1>1 DEF Finish
  <2>2. capacity' = capacity
    BY <2>1, Zenon DEF Apply, ClaimApply, RenewApply, AuthorizeApply, RobotsPutApply,
       ContinueApply, DiscoverApply, CommitApply, NackApply
  <2> QED
    BY <2>2
<1>2. ASSUME NEW u \in Urls, Admit(u) PROVE G
  <2>1. {u} \in SUBSET Urls
    OBVIOUS
  <2> QED
    BY <1>2, <2>1 DEF Admit, AdmitUrls
<1>3. ASSUME NEW u \in Urls, NEW k \in 0 .. MaximumUrls, PublishOutbox(u, k) PROVE G
  <2>1. k \in Nat
    OBVIOUS
  <2>2. outbox[u].published \in Nat
    BY DEF Base, TypeOK
  <2>3. Chunk(u, k) \in SUBSET Urls
    BY <1>3, <2>1, <2>2, ChunkUrls DEF PublishOutbox
  <2> QED
    BY <1>3, <2>3 DEF PublishOutbox, AdmitUrls
<1>4. ASSUME NEW c \in Commands, ClaimPick(c) \/ ClaimEmpty(c) \/ ClaimBegin(c) PROVE G
  BY <1>4 DEF ClaimPick, ClaimEmpty, ClaimBegin, tables
<1>5. ASSUME NEW c \in Commands, NEW u \in Urls, NEW action \in Calls,
             NEW arg \in Asked(action), Call(c, u, action, arg)
      PROVE  G
  BY <1>5 DEF Call, Begin, tables
<1>6. ASSUME NEW u \in Urls, Abort(u) PROVE G
  BY <1>6 DEF Abort, tables
<1>7. ASSUME NEW p \in Partitions, NEW owner \in Nodes \cup {Draining}, Transfer(p, owner)
      PROVE  G
  BY <1>7 DEF Transfer
<1>8. ASSUME Tick \/ UNCHANGED vars PROVE G
  BY <1>8 DEF Tick, vars, tables
<1> HIDE DEF G
<1>9. G
  BY <1>1, <1>2, <1>3, <1>4, <1>5, <1>6, <1>7, <1>8, Zenon DEF Next, Horizon
<1> QED
  BY <1>9 DEF G

(* The counter never exceeds the rows it counts: no URL is turned away     *)
(* while there is room, whichever of admit, publish_outbox and discover    *)
(* inserted it.                                                            *)
THEOREM CounterIsCovered == Spec => []CapacityCounts
<1>1. \A S \in SUBSET Urls : IsFiniteSet(S) /\ Cardinality(S) \in Nat
  BY ConstantAssumptions, FS_Subset, FS_CardinalityType
<1>2. Init => CapacityCounts
  <2> SUFFICES ASSUME Init PROVE CapacityCounts
    OBVIOUS
  <2>1. Seeds \subseteq Urls
    BY ConstantAssumptions
  <2>2. Present = Seeds
    BY <2>1 DEF Init, Present
  <2>3. Cardinality(Seeds) \in Nat /\ capacity = Cardinality(Seeds)
    BY <1>1, <2>1 DEF Init
  <2> QED
    BY <2>2, <2>3 DEF CapacityCounts
<1>3. Base /\ CapacityCounts /\ [Next]_vars => CapacityCounts'
  <2> SUFFICES ASSUME Base, CapacityCounts, [Next]_vars PROVE CapacityCounts'
    OBVIOUS
  <2>1. capacity \in Nat /\ capacity <= Cardinality(Present)
    BY DEF Base, TypeOK, CapacityCounts
  <2>2. Present \in SUBSET Urls /\ Present' \in SUBSET Urls
    BY DEF Present
  <2>3. Present \subseteq Present'
    BY PresentStays DEF Present
  <2>4. ASSUME capacity' = capacity PROVE CapacityCounts'
    <3>1. Cardinality(Present) <= Cardinality(Present')
      BY <1>1, <2>2, <2>3, FS_Subset
    <3>2. Cardinality(Present) \in Nat /\ Cardinality(Present') \in Nat
      BY <1>1, <2>2
    <3> QED
      BY <2>1, <2>4, <3>1, <3>2 DEF CapacityCounts
  <2>5. ASSUME NEW S \in SUBSET Urls, urls' = Inserted(S),
               capacity' = capacity + Cardinality(Absent(S))
        PROVE  CapacityCounts'
    <3>1. Absent(S) \in SUBSET Urls /\ Present \cap Absent(S) = {}
      BY DEF Absent, Present
    <3>2. \A v \in Absent(S) : urls[v] \in UrlRow /\ urls'[v] = [urls[v] EXCEPT !.state = "queued"]
      BY <2>5, <3>1 DEF Base, TypeOK, Inserted
    <3>3. Absent(S) \subseteq Present'
      BY <3>1, <3>2, RowInserted DEF Present
    <3>4. Cardinality(Present \cup Absent(S))
            = Cardinality(Present) + Cardinality(Absent(S))
      <4> DEFINE P == Present  A == Absent(S)
      <4>1. IsFiniteSet(P) /\ IsFiniteSet(A) /\ Cardinality(P) \in Nat /\ Cardinality(A) \in Nat
        BY <1>1, <2>2, <3>1
      <4>2. P \cap A = {} /\ Cardinality({}) = 0
        BY <3>1, FS_EmptySet
      <4> HIDE DEF P, A
      <4>3. Cardinality(P \cup A) = Cardinality(P) + Cardinality(A) - Cardinality(P \cap A)
        BY <4>1, FS_Union
      <4>4. Cardinality(P \cup A) = Cardinality(P) + Cardinality(A)
        BY <4>1, <4>2, <4>3
      <4> QED
        BY <4>4 DEF P, A
    <3>5. Cardinality(Present \cup Absent(S)) <= Cardinality(Present')
      BY <1>1, <2>2, <2>3, <3>3, FS_Subset
    <3>6. /\ Cardinality(Present) \in Nat /\ Cardinality(Absent(S)) \in Nat
          /\ Cardinality(Present \cup Absent(S)) \in Nat /\ Cardinality(Present') \in Nat
      BY <1>1, <2>2, <3>1
    <3> QED
      BY <2>1, <2>5, <3>4, <3>5, <3>6 DEF CapacityCounts
  <2> QED
    BY <2>4, <2>5, CountedInserts
<1> QED
  BY <1>2, <1>3, BaseHolds, PTL DEF Spec

-----------------------------------------------------------------------------
(* Request slots *)

SlotRows == {v \in Urls : request_slots[v] # 0}
LiveAt(at) == {v \in Urls : request_slots[v] > at}

(* Slots are counted by authorize alone.  One that takes a slot has found  *)
(* room for it among the slots that live at its clock.                     *)
RoomFor(u) == Cardinality(LiveAt(tx[u].at) \cup {u}) <= GlobalConcurrency
RoomTaken ==
  \A u \in Urls :
    tx[u] # NoTx /\ tx[u].slots
      => tx[u].req.action = "authorize" /\ (tx[u].verdict \in TakesSlot => RoomFor(u))

(* While slots are counted, nobody revives one that has expired: a renewal *)
(* sets the deadline of a slot without looking at it.                      *)
Unrevived ==
  \A u, v \in Urls :
    u # v /\ tx[u] # NoTx /\ tx[v] # NoTx /\ tx[u].slots
      => ~(tx[v].req.action \in SlotWriters /\ Expired(v, tx[u].at))

(* The limit bounds all rows, expired or not; the live ones alone would    *)
(* not be inductive.                                                       *)
FewSlots == Cardinality(SlotRows) <= GlobalConcurrency
Slotted == Solo /\ RoomTaken /\ Unrevived /\ FewSlots

LEMMA SlotSets ==
  ASSUME NEW S \in SUBSET Urls, NEW T \in SUBSET S
  PROVE  /\ Cardinality(S) \in Nat /\ Cardinality(T) \in Nat
         /\ Cardinality(T) <= Cardinality(S)
         /\ Cardinality(S) <= GlobalConcurrency => Cardinality(T) <= GlobalConcurrency
<1>1. IsFiniteSet(S)
  BY ConstantAssumptions, FS_Subset
<1>2. Cardinality(S) \in Nat /\ Cardinality(T) \in Nat /\ Cardinality(T) <= Cardinality(S)
  BY <1>1, FS_Subset, FS_CardinalityType
<1>3. GlobalConcurrency \in Nat
  BY ConstantAssumptions
<1> QED
  BY <1>2, <1>3

(* What a transaction does to the slots. *)
LEMMA FinishSlots ==
  ASSUME Base, Slotted, NEW u \in Urls, Finish(u)
  PROVE  /\ ~tx[u].slots =>
              /\ \A v \in Urls : v # u => request_slots'[v] = request_slots[v]
              /\ request_slots[u] = 0 => request_slots'[u] = 0
              /\ tx[u].req.action \notin SlotWriters => request_slots' = request_slots
         /\ tx[u].slots =>
              /\ \A v \in Urls : request_slots'[v] # 0 =>
                   \/ v = u /\ tx[u].verdict \in TakesSlot
                   \/ request_slots[v] > tx[u].at
<1> DEFINE t == tx[u]
<1>1. t # NoTx /\ t.req.url = u /\ Apply(t) /\ t.slots \in BOOLEAN
  BY TransactionFields DEF Base, Locked, Finish
<1>2. t.slots => t.req.action = "authorize"
  BY <1>1 DEF Slotted, RoomTaken
<1>3. request_slots \in [Urls -> Nat] /\ t.at \in Nat
  BY <1>1, TransactionFields DEF Base, TypeOK
<1> HIDE DEF t
<1> DEFINE A == /\ \A v \in Urls : v # u => request_slots'[v] = request_slots[v]
                /\ request_slots[u] = 0 => request_slots'[u] = 0
                /\ t.req.action \notin SlotWriters => request_slots' = request_slots
           B == \A v \in Urls : request_slots'[v] # 0 =>
                   \/ v = u /\ t.verdict \in TakesSlot
                   \/ request_slots[v] > t.at
<1>4. ASSUME request_slots' = request_slots PROVE A
  BY <1>4
<1>5. ASSUME t.req.action = "renew", RenewApply(t) PROVE A
  BY <1>1, <1>3, <1>5 DEF RenewApply, SlotWriters
<1>6. ASSUME t.req.action \in {"commit", "nack"}, ReleaseApply(t) PROVE A
  BY <1>1, <1>3, <1>6 DEF ReleaseApply, Cooling, SlotWriters
<1>7. ASSUME AuthorizeApply(t), ~t.slots PROVE A
  BY <1>4, <1>7 DEF AuthorizeApply
<1>8. ASSUME AuthorizeApply(t), t.slots PROVE B
  <2>1. PICK until : request_slots' =
          [v \in Urls |-> IF v = u /\ t.verdict \in TakesSlot THEN until
                          ELSE IF request_slots[v] <= t.at THEN 0 ELSE request_slots[v]]
    BY <1>1, <1>8, Zenon DEF AuthorizeApply
  <2> QED
    BY <1>3, <2>1
<1>9. ASSUME ~t.slots PROVE A
  <2>1. CASE request_slots' = request_slots
    BY <1>4, <2>1
  <2>2. CASE t.req.action = "renew" /\ RenewApply(t)
    BY <1>5, <2>2
  <2>3. CASE t.req.action \in {"commit", "nack"} /\ ReleaseApply(t)
    BY <1>6, <2>3
  <2>4. CASE AuthorizeApply(t)
    BY <1>7, <1>9, <2>4
  <2>5. \/ request_slots' = request_slots
        \/ t.req.action = "renew" /\ RenewApply(t)
        \/ t.req.action \in {"commit", "nack"} /\ ReleaseApply(t)
        \/ AuthorizeApply(t)
    BY <1>1, Zenon DEF Apply, ClaimApply, RobotsPutApply, ContinueApply, DiscoverApply,
       CommitApply, NackApply
  <2> QED
    BY <2>1, <2>2, <2>3, <2>4, <2>5
<1>10. ASSUME t.slots PROVE B
  <2>1. AuthorizeApply(t)
    BY <1>1, <1>2, <1>10 DEF Apply
  <2> QED
    BY <1>8, <1>10, <2>1
<1> QED
  BY <1>9, <1>10 DEF t

LEMMA BeginSlots ==
  ASSUME Base, Slotted, NEW r, IsRequest(r), r.action \in Actions, Begin(r)
  PROVE  Slotted'
<1>0. DOMAIN tx = Urls /\ r.url \in Urls /\ request_slots \in [Urls -> Nat] /\ now \in Nat
  BY RequestFields, ConstantAssumptions DEF Base, TypeOK, Times
<1>1. PICK t : /\ tx' = [tx EXCEPT ![r.url] = t]
               /\ t.req = r /\ t.at = now /\ t.verdict = Verdict(r)
               /\ t.slots = (r.action = "authorize" /\ Verdict(r) \in TakesSlotLock)
  BY BeginStarts
<1>2. request_slots' = request_slots
  BY DEF Begin, tables
<1>3. ~SlotWait(r, t.slots)
  <2>1. ~SlotWait(r, r.action = "authorize" /\ Verdict(r) \in TakesSlotLock)
    BY DEF Begin
  <2> QED
    BY <1>1, <2>1
<1>4. ASSUME NEW v \in Urls, tx[v] # NoTx
      PROVE  /\ ~(t.slots /\ tx[v].slots)
             /\ ~(t.slots /\ tx[v].req.action \in SlotWriters /\ Expired(v, now))
             /\ ~(tx[v].slots /\ r.action \in SlotWriters /\ Expired(r.url, tx[v].at))
  BY <1>3, <1>4, Zenon DEF SlotWait
<1>5. Solo'
  BY <1>0, <1>1, <1>4 DEF Slotted, Solo
<1>6. Unrevived'
  <2> SUFFICES ASSUME NEW x \in Urls, NEW v \in Urls, x # v, tx'[x] # NoTx, tx'[v] # NoTx,
                      tx'[x].slots, tx'[v].req.action \in SlotWriters,
                      Expired(v, tx'[x].at)
               PROVE  FALSE
    BY <1>2 DEF Unrevived, Expired
  <2>1. CASE x = r.url
    <3>1. tx'[x] = t /\ tx'[v] = tx[v]
      BY <1>0, <1>1, <2>1
    <3> QED
      BY <1>1, <1>4, <3>1
  <2>2. CASE v = r.url
    <3>1. tx'[v] = t /\ tx'[x] = tx[x]
      BY <1>0, <1>1, <2>2
    <3> QED
      BY <1>1, <1>4, <2>2, <3>1
  <2>3. CASE x # r.url /\ v # r.url
    <3>1. tx'[v] = tx[v] /\ tx'[x] = tx[x]
      BY <1>0, <1>1, <2>3
    <3> QED
      BY <3>1 DEF Slotted, Unrevived
  <2> QED
    BY <2>1, <2>2, <2>3
<1>7. ASSUME r.action = "authorize", Verdict(r) \in TakesSlot
      PROVE  Cardinality(LiveAt(now) \cup {r.url}) <= GlobalConcurrency
  <2>1. LiveAt(now) \subseteq SlotRows /\ SlotRows \subseteq Urls
    BY <1>0 DEF LiveAt, SlotRows
  <2>2. Cardinality(LiveAt(now)) <= GlobalConcurrency /\ IsFiniteSet(LiveAt(now))
        /\ Cardinality(LiveAt(now)) \in Nat
    BY <2>1, SlotSets, FS_Subset, ConstantAssumptions DEF Slotted, FewSlots
  <2>3. ~(r.url \notin LiveAt(now) /\ Cardinality(LiveAt(now)) >= GlobalConcurrency)
    BY <1>7 DEF Verdict, AuthorizeVerdict, TakesSlot, LiveAt, LiveSlots
  <2>4. CASE r.url \in LiveAt(now)
    <3>1. LiveAt(now) \cup {r.url} = LiveAt(now)
      BY <2>4
    <3> QED
      BY <2>2, <3>1
  <2>5. CASE r.url \notin LiveAt(now)
    <3>1. Cardinality(LiveAt(now) \cup {r.url}) = Cardinality(LiveAt(now)) + 1
      BY <2>2, <2>5, FS_AddElement
    <3>2. ~(Cardinality(LiveAt(now)) >= GlobalConcurrency)
      BY <2>3, <2>5
    <3>3. GlobalConcurrency \in Nat
      BY ConstantAssumptions
    <3>4. ASSUME NEW n \in Nat, ~(n >= GlobalConcurrency)
          PROVE  n + 1 <= GlobalConcurrency
      BY <3>3, <3>4
    <3> QED
      BY <2>2, <3>1, <3>2, <3>4
  <2> QED
    BY <2>4, <2>5
<1>8. RoomTaken'
  <2> SUFFICES ASSUME NEW x \in Urls, tx'[x] # NoTx, tx'[x].slots
               PROVE  /\ tx'[x].req.action = "authorize"
                      /\ tx'[x].verdict \in TakesSlot
                           => Cardinality(LiveAt(tx'[x].at) \cup {x}) <= GlobalConcurrency
    BY <1>2 DEF RoomTaken, RoomFor, LiveAt
  <2>1. CASE x = r.url
    <3>1. tx'[x] = t
      BY <1>0, <1>1, <2>1
    <3> QED
      BY <1>1, <1>7, <2>1, <3>1
  <2>2. CASE x # r.url
    <3>1. tx'[x] = tx[x]
      BY <1>0, <1>1, <2>2
    <3> QED
      BY <3>1 DEF Slotted, RoomTaken, RoomFor
  <2> QED
    BY <2>1, <2>2
<1> QED
  BY <1>2, <1>5, <1>6, <1>8 DEF Slotted, FewSlots, SlotRows

LEMMA EndSlots ==
  ASSUME Base, Slotted, NEW u \in Urls, Finish(u)
  PROVE  Slotted'
<1> DEFINE t == tx[u]
<1>0. DOMAIN tx = Urls /\ request_slots \in [Urls -> Nat] /\ request_slots' \in [Urls -> Nat]
  BY BaseFinish DEF Base, TypeOK
<1>1. tx' = [tx EXCEPT ![u] = NoTx] /\ t # NoTx /\ t.slots \in BOOLEAN /\ t.at \in Nat
  BY TransactionFields DEF Finish, Base
<1>2. ASSUME NEW v \in Urls, tx'[v] # NoTx PROVE v # u /\ tx'[v] = tx[v]
  BY <1>0, <1>1, <1>2
<1>3. Solo'
  BY <1>2 DEF Slotted, Solo
<1>4. ASSUME NEW x \in Urls, tx'[x] # NoTx, tx'[x].slots
      PROVE  ~t.slots
  BY <1>1, <1>2, <1>4 DEF Slotted, Solo
<1>5. Unrevived'
  <2> SUFFICES ASSUME NEW x \in Urls, NEW v \in Urls, x # v, tx'[x] # NoTx, tx'[v] # NoTx,
                      tx'[x].slots, tx'[v].req.action \in SlotWriters,
                      request_slots'[v] # 0, request_slots'[v] <= tx'[x].at
               PROVE  FALSE
    BY DEF Unrevived, Expired
  <2>1. request_slots'[v] = request_slots[v]
    BY <1>2, <1>4, FinishSlots
  <2> QED
    BY <1>2, <2>1 DEF Slotted, Unrevived, Expired
<1>6. RoomTaken'
  <2> SUFFICES ASSUME NEW x \in Urls, tx'[x] # NoTx, tx'[x].slots
               PROVE  /\ tx'[x].req.action = "authorize"
                      /\ tx'[x].verdict \in TakesSlot
                           => Cardinality({v \in Urls : request_slots'[v] > tx'[x].at} \cup {x})
                                <= GlobalConcurrency
    BY DEF RoomTaken, RoomFor, LiveAt
  <2>1. x # u /\ tx'[x] = tx[x] /\ ~t.slots /\ tx[x].at \in Nat
    BY <1>2, <1>4, TransactionFields DEF Base
  <2> DEFINE at == tx[x].at
             later == {v \in Urls : request_slots'[v] > at}
  <2>2. ASSUME NEW v \in Urls, request_slots'[v] > at
        PROVE  request_slots[v] > at
    <3>1. CASE v # u \/ t.req.action \notin SlotWriters
      <4>1. request_slots'[v] = request_slots[v]
        BY <2>1, <3>1, FinishSlots
      <4> QED
        BY <2>2, <4>1
    <3>2. CASE v = u /\ t.req.action \in SlotWriters
      <4>1. ~Expired(u, at)
        BY <1>1, <1>2, <2>1, <3>2 DEF Slotted, Unrevived
      <4>2. request_slots[u] # 0
        BY <2>1, <2>2, <3>2, FinishSlots
      <4>3. request_slots[u] \in Nat
        BY <1>0
      <4> QED
        BY <2>1, <3>2, <4>1, <4>2, <4>3 DEF Expired
    <3> QED
      BY <3>1, <3>2
  <2> HIDE DEF at
  <2>3. later \cup {x} \subseteq LiveAt(at) \cup {x}
    BY <2>2 DEF LiveAt
  <2>4. /\ tx[x].req.action = "authorize"
        /\ tx[x].verdict \in TakesSlot => Cardinality(LiveAt(at) \cup {x}) <= GlobalConcurrency
    BY <2>1 DEF Slotted, RoomTaken, RoomFor, at
  <2>5. LiveAt(at) \cup {x} \in SUBSET Urls
    BY DEF LiveAt
  <2>6. tx[x].verdict \in TakesSlot => Cardinality(later \cup {x}) <= GlobalConcurrency
    BY <2>3, <2>4, <2>5, SlotSets
  <2> QED
    BY <2>1, <2>4, <2>6 DEF at
<1>7. FewSlots'
  <2>1. SlotRows \in SUBSET Urls
    BY DEF SlotRows
  <2>2. CASE ~t.slots
    <3>1. SlotRows' \subseteq SlotRows
      BY <2>2, FinishSlots DEF SlotRows
    <3> QED
      BY <2>1, <3>1, SlotSets DEF Slotted, FewSlots
  <2>3. CASE t.slots /\ t.verdict \in TakesSlot
    <3>1. SlotRows' \subseteq LiveAt(t.at) \cup {u}
      BY <2>3, FinishSlots DEF SlotRows, LiveAt
    <3>2. Cardinality(LiveAt(t.at) \cup {u}) <= GlobalConcurrency
      BY <1>1, <2>3 DEF Slotted, RoomTaken, RoomFor
    <3>3. LiveAt(t.at) \cup {u} \in SUBSET Urls
      BY DEF LiveAt
    <3> QED
      BY <3>1, <3>2, <3>3, SlotSets DEF FewSlots
  <2>4. CASE t.slots /\ t.verdict \notin TakesSlot
    <3>1. SlotRows' \subseteq LiveAt(t.at)
      BY <2>4, FinishSlots DEF SlotRows, LiveAt
    <3>2. LiveAt(t.at) \subseteq SlotRows
      BY <1>0, <1>1 DEF SlotRows, LiveAt
    <3> QED
      BY <2>1, <3>1, <3>2, SlotSets DEF Slotted, FewSlots
  <2> QED
    BY <1>1, <2>2, <2>3, <2>4
<1> QED
  BY <1>3, <1>5, <1>6, <1>7 DEF Slotted

THEOREM SlottedHolds == Spec => []Slotted
<1>1. Init => Slotted
  <2> SUFFICES ASSUME Init PROVE Slotted
    OBVIOUS
  <2>1. SlotRows = {} /\ \A u \in Urls : tx[u] = NoTx
    BY DEF Init, SlotRows
  <2>2. FewSlots
    BY <2>1, FS_EmptySet, ConstantAssumptions DEF FewSlots
  <2> QED
    BY <2>1, <2>2 DEF Slotted, Solo, RoomTaken, Unrevived
<1>2. Base /\ Slotted /\ [Next]_vars => Slotted'
  <2> SUFFICES ASSUME Base, Slotted, [Next]_vars PROVE Slotted'
    OBVIOUS
  <2>0. DOMAIN tx = Urls
    BY DEF Base, TypeOK
  <2>1. ASSUME NEW c \in Commands, ClaimBegin(c) PROVE Slotted'
    <3>1. PICK t : tx' = [tx EXCEPT ![pick[c]] = t] /\ t.req.action = "claim" /\ ~t.slots
      BY <2>1, ClaimStarts
    <3>2. request_slots' = request_slots
      BY <2>1 DEF ClaimBegin, tables
    <3>3. ASSUME NEW v \in Urls
          PROVE  tx'[v] = tx[v] \/ (tx'[v] = t /\ t.req.action \notin SlotWriters /\ ~t.slots)
      BY <2>0, <3>1 DEF SlotWriters
    <3> QED
      BY <3>2, <3>3 DEF Slotted, Solo, RoomTaken, RoomFor, LiveAt, Unrevived, Expired, FewSlots,
         SlotRows
  <2>2. ASSUME request_slots' = request_slots, \A v \in Urls : tx'[v] \in {tx[v], NoTx}
        PROVE  Slotted'
    BY <2>2 DEF Slotted, Solo, RoomTaken, RoomFor, LiveAt, Unrevived, Expired, FewSlots, SlotRows
  <2>3. ASSUME NEW u \in Urls, Abort(u) PROVE Slotted'
    <3>1. request_slots' = request_slots /\ tx' = [tx EXCEPT ![u] = NoTx]
      BY <2>3 DEF Abort, tables
    <3> QED
      BY <2>0, <2>2, <3>1
  <2>4. ASSUME Aside PROVE Slotted'
    <3>1. request_slots' = request_slots /\ tx' = tx
      BY <2>4 DEF Aside
    <3> QED
      BY <2>2, <3>1
  <2> QED
    BY <2>1, <2>3, <2>4, BeginSlots, EndSlots, StepKinds DEF Base
<1> QED
  BY <1>1, <1>2, BaseHolds, PTL DEF Spec

(* The slots that have not expired stay within the limit, although renew,  *)
(* commit and nack move the deadline of a slot without counting.           *)
THEOREM SlotsAreKept == Spec => []SlotsWithinLimit
<1>1. Base /\ Slotted => SlotsWithinLimit
  <2> SUFFICES ASSUME Base, Slotted PROVE SlotsWithinLimit
    OBVIOUS
  <2>1. now \in Nat /\ request_slots \in [Urls -> Nat]
    BY ConstantAssumptions DEF Base, TypeOK, Times
  <2>2. LiveSlots \subseteq SlotRows /\ SlotRows \in SUBSET Urls
    BY <2>1 DEF LiveSlots, SlotRows
  <2> QED
    BY <2>2, SlotSets DEF Slotted, FewSlots, SlotsWithinLimit
<1> QED
  BY <1>1, SlottedHolds, BaseHolds, PTL

-----------------------------------------------------------------------------
(* Auxiliary leases *)

(* A held origin carries a token of an origin and epoch that have been     *)
(* granted, so that the token of the next claim is fresh.                  *)
TokensKnown ==
  \A o \in Origins : LET k == origins[o].token IN
    k = NoToken \/ (k[1] \in Origins /\ k[3] \in Urls /\ k[2] <= origins[k[1]].epoch)

(* A row carries a token that was granted for its own URL.                 *)
RowsKnown ==
  \A u \in Urls, o \in Origins :
    auxiliary_origins[u][o] = NoRow
      \/ (auxiliary_origins[u][o][1][3] = u /\ auxiliary_origins[u][o][2] <= origins[o].epoch)

(* No lease ends later than one granted now. *)
Bounded == \A o \in Origins : origins[o].deadline <= now + Lease

(* A transaction in progress holds the main origin under its own token and *)
(* has locked every origin that it extends or gives back.                  *)
Holds(u) ==
  LET t == tx[u]  m == urls[u].origin IN
  /\ t.req.token[3] = u
  /\ t.req.action = "claim" => t.req.token = <<m, origins[m].epoch + 1, u>>
  /\ t.req.action # "claim" =>
       t.req.token = origins[m].token /\ origins[m].deadline <= t.at + Lease
  /\ t.req.action = "renew" =>
       SharedAux(u) \subseteq t.locks /\ \A o \in t.locks : origins[o].token = t.req.token
  /\ t.req.action \in {"commit", "nack"} => OwnAux(u) \subseteq t.locks
Holding == \A u \in Urls : tx[u] # NoTx => Holds(u)

Leased == TokensKnown /\ RowsKnown /\ Bounded /\ Holding /\ HeldOriginHasRow /\ AuxCoversMain

SameLease(o) ==
  /\ origins'[o].token = origins[o].token
  /\ origins'[o].epoch = origins[o].epoch
  /\ origins'[o].deadline = origins[o].deadline
NewLease(o, t) ==
  /\ origins'[o].token = t.req.token
  /\ origins'[o].epoch = origins[o].epoch + 1
  /\ origins'[o].deadline = t.at + Lease

(* What a transaction does to leases and rows when it becomes visible.     *)
Claimed(t, u) ==
  /\ t.req.action = "claim"
  /\ NewLease(urls[u].origin, t)
  /\ \A o \in Origins : o # urls[u].origin => SameLease(o)
  /\ auxiliary_origins' = auxiliary_origins
Acquired(t, u) ==
  /\ t.req.action = "authorize" /\ t.req.arg # urls[u].origin /\ Acquires(t)
  /\ NewLease(t.req.arg, t)
  /\ \A o \in Origins : o # t.req.arg => SameLease(o)
  /\ auxiliary_origins' = [auxiliary_origins EXCEPT
       ![u][t.req.arg] = <<t.req.token, origins[t.req.arg].epoch + 1>>]
Renewed(t, u) ==
  /\ t.req.action = "renew"
  /\ \A o \in t.locks : /\ origins'[o].token = origins[o].token
                        /\ origins'[o].epoch = origins[o].epoch
                        /\ origins'[o].deadline = t.at + Lease
  /\ \A o \in Origins : o \notin t.locks => SameLease(o)
  /\ auxiliary_origins' = auxiliary_origins
GivenBack(t, u) ==
  /\ t.req.action \in {"commit", "nack"}
  /\ \A o \in t.locks : /\ origins'[o].token = NoToken
                        /\ origins'[o].epoch = origins[o].epoch
                        /\ origins'[o].deadline = NoDeadline
  /\ \A o \in Origins : o \notin t.locks => SameLease(o)
  /\ auxiliary_origins' = [auxiliary_origins EXCEPT ![u] = [o \in Origins |-> NoRow]]
LeasesStay ==
  (\A o \in Origins : SameLease(o)) /\ auxiliary_origins' = auxiliary_origins

(* A claim takes the origin of its URL. *)
LEMMA ClaimWrites ==
  ASSUME TypeOK, NEW u \in Urls, tx[u].req.action = "claim", tx[u].req.url = u,
         ClaimApply(tx[u])
  PROVE  Claimed(tx[u], u)
<1> DEFINE t == tx[u]
           m == urls[u].origin
           row == [epoch |-> origins[m].epoch + 1, owner |-> Sender[t.req.command],
                   token |-> t.req.token, deadline |-> t.at + Lease,
                   eligible_at |-> origins[m].eligible_at, last_turn |-> t.at]
<1>1. /\ origins' = [origins EXCEPT ![m] = row] /\ auxiliary_origins' = auxiliary_origins
      /\ m \in Origins /\ origins \in [Origins -> OriginRow]
  BY DEF ClaimApply, TypeOK, UrlRow
<1>2. /\ row.token = t.req.token /\ row.epoch = origins[m].epoch + 1
      /\ row.deadline = t.at + Lease
  OBVIOUS
<1> HIDE DEF row
<1>3. origins'[m] = row /\ \A o \in Origins : o # m => origins'[o] = origins[o]
  BY <1>1
<1>4. NewLease(m, t) /\ \A o \in Origins : o # m => SameLease(o)
  BY <1>2, <1>3 DEF NewLease, SameLease
<1> QED
  BY <1>1, <1>4 DEF Claimed

(* A renewal moves the deadlines of the leases it has locked. *)
LEMMA RenewWrites ==
  ASSUME TypeOK, NEW u \in Urls, tx[u].req.action = "renew", RenewApply(tx[u]),
         tx[u].locks \subseteq Origins
  PROVE  Renewed(tx[u], u)
<1> DEFINE t == tx[u]
<1>1. \A o \in Origins : origins[o] \in OriginRow
  BY DEF TypeOK
<1>2. \A x \in OriginRow : LET y == [x EXCEPT !.deadline = t.at + Lease] IN
        y.token = x.token /\ y.epoch = x.epoch /\ y.deadline = t.at + Lease
  BY DEF OriginRow
<1>3. /\ \A o \in Origins : o \in t.locks
           => origins'[o] = [origins[o] EXCEPT !.deadline = t.at + Lease]
      /\ \A o \in Origins : o \notin t.locks => origins'[o] = origins[o]
      /\ auxiliary_origins' = auxiliary_origins
  BY DEF RenewApply
<1> HIDE DEF t
<1>4. \A o \in Origins : o \in t.locks =>
        /\ origins'[o].token = origins[o].token
        /\ origins'[o].epoch = origins[o].epoch
        /\ origins'[o].deadline = t.at + Lease
  <2> TAKE o \in Origins
  <2> HAVE o \in t.locks
  <2> DEFINE y == [origins[o] EXCEPT !.deadline = t.at + Lease]
  <2>1. y.token = origins[o].token /\ y.epoch = origins[o].epoch /\ y.deadline = t.at + Lease
    BY <1>1, <1>2
  <2>2. origins'[o] = y
    BY <1>3
  <2> HIDE DEF y
  <2> QED
    BY <2>1, <2>2
<1> QED
  BY <1>3, <1>4 DEF Renewed, SameLease, t

LEMMA FinishLeases ==
  ASSUME Base, NEW u \in Urls, Finish(u)
  PROVE  \/ Claimed(tx[u], u) \/ Acquired(tx[u], u) \/ Renewed(tx[u], u)
         \/ GivenBack(tx[u], u)
         \/ LeasesStay /\ tx[u].req.action \notin {"commit", "nack"}
<1> DEFINE t == tx[u]
           m == urls[u].origin
           G == \/ Claimed(t, u) \/ Acquired(t, u) \/ Renewed(t, u) \/ GivenBack(t, u)
                \/ LeasesStay /\ t.req.action \notin {"commit", "nack"}
<1>1. /\ t # NoTx /\ t.req.url = u /\ Apply(t) /\ t.locks \subseteq Origins
      /\ (t.req.action = "authorize" => t.req.arg \in Origins)
  BY TransactionFields, RequestFields DEF Base, Locked, Finish
<1>2. /\ origins \in [Origins -> OriginRow] /\ m \in Origins
      /\ \A o \in Origins : origins[o] \in OriginRow
  BY DEF Base, TypeOK, UrlRow
<1> HIDE DEF t
<1>3. ASSUME t.req.action = "claim", ClaimApply(t) PROVE G
  BY <1>1, <1>3, ClaimWrites DEF Base, t
<1>4. ASSUME t.req.action = "renew", RenewApply(t) PROVE G
  BY <1>1, <1>4, RenewWrites DEF Base, t
<1>5. ASSUME t.req.action = "authorize", AuthorizeApply(t) PROVE G
  <2> DEFINE d == t.req.arg
             taken == [origins[d] EXCEPT !.epoch = @ + 1, !.owner = Sender[t.req.command],
                                         !.token = t.req.token, !.deadline = t.at + Lease]
             held == IF Acquires(t) THEN taken ELSE origins[d]
             delay == Max2(MinimumDelay, CrawlDelay(d, t.at))
             row == IF t.verdict = "ok" THEN [held EXCEPT !.eligible_at = t.at + delay] ELSE held
  <2>1. d \in Origins /\ origins[d] \in OriginRow
    BY <1>1, <1>2, <1>5
  <2>2. /\ taken.token = t.req.token /\ taken.epoch = origins[d].epoch + 1
        /\ taken.deadline = t.at + Lease /\ DOMAIN taken = DOMAIN origins[d]
    BY <2>1 DEF OriginRow
  <2>3. /\ origins' = [origins EXCEPT ![d] = row]
        /\ auxiliary_origins' = IF Acquires(t)
             THEN [auxiliary_origins EXCEPT ![t.req.url][d] = <<held.token, held.epoch>>]
             ELSE auxiliary_origins
    BY <1>5 DEF AuthorizeApply
  <2> HIDE DEF taken, delay
  <2>4. DOMAIN held = DOMAIN origins[d]
    BY <2>2
  <2> HIDE DEF held
  <2>5. row.token = held.token /\ row.epoch = held.epoch /\ row.deadline = held.deadline
    <3>1. {"token", "epoch", "deadline", "eligible_at"} \subseteq DOMAIN origins[d]
      BY <2>1 DEF OriginRow
    <3> QED
      BY <2>4, <3>1
  <2> HIDE DEF row, d
  <2>6. origins'[d] = row /\ \A o \in Origins : o # d => SameLease(o)
    BY <1>2, <2>1, <2>3 DEF SameLease
  <2>7. CASE Acquires(t)
    <3>1. held = taken
      BY <2>7 DEF held
    <3>2. NewLease(d, t)
      BY <2>2, <2>5, <2>6, <3>1 DEF NewLease
    <3>3. auxiliary_origins' =
            [auxiliary_origins EXCEPT ![u][d] = <<t.req.token, origins[d].epoch + 1>>]
      <4>1. auxiliary_origins' = [auxiliary_origins EXCEPT ![u][d] = <<held.token, held.epoch>>]
        BY <1>1, <2>3, <2>7
      <4> QED
        BY <2>2, <3>1, <4>1
    <3>4. d # m
      BY <1>1, <2>7 DEF Acquires, d
    <3> QED
      BY <1>5, <2>6, <2>7, <3>2, <3>3, <3>4 DEF Acquired, d
  <2>8. CASE ~Acquires(t)
    <3>1. held = origins[d]
      BY <2>8 DEF held
    <3>2. SameLease(d)
      BY <2>5, <2>6, <3>1 DEF SameLease
    <3> QED
      BY <1>5, <2>3, <2>6, <2>8, <3>2 DEF LeasesStay
  <2> QED
    BY <2>7, <2>8
<1>6. ASSUME t.req.action = "robots_put", RobotsPutApply(t) PROVE G
  <2> DEFINE later == Max2(origins[m].eligible_at, t.at + IF Rules[t.req.arg].failed
                             THEN Rules[t.req.arg].ttl ELSE Rules[t.req.arg].delay)
             row == [origins[m] EXCEPT !.eligible_at = later]
  <2>1. origins' = [origins EXCEPT ![m] = row] /\ auxiliary_origins' = auxiliary_origins
    BY <1>1, <1>2, <1>6 DEF RobotsPutApply
  <2> HIDE DEF later
  <2>2. /\ row.token = origins[m].token /\ row.epoch = origins[m].epoch
        /\ row.deadline = origins[m].deadline
    BY <1>2 DEF OriginRow
  <2> HIDE DEF row
  <2> QED
    BY <1>2, <1>6, <2>1, <2>2 DEF LeasesStay, SameLease
<1>7. ASSUME t.req.action \in {"commit", "nack"}, ReleaseApply(t) PROVE G
  <2>0. PICK wait \in RetryAfters : origins' = Released(t, wait)
    BY <1>7 DEF ReleaseApply
  <2> DEFINE row(o) == [origins[o] EXCEPT !.owner = Nobody, !.token = NoToken,
                          !.deadline = NoDeadline,
                          !.eligible_at = Max2(origins[o].eligible_at, QuietUntil(t, o, wait))]
  <2>1. ASSUME NEW o \in Origins
        PROVE  origins'[o] = IF o \in t.locks THEN row(o) ELSE origins[o]
    BY <2>0, Zenon DEF Released
  <2>2. ASSUME NEW o \in Origins
        PROVE  /\ row(o).token = NoToken /\ row(o).epoch = origins[o].epoch
               /\ row(o).deadline = NoDeadline
    <3>1. origins[o] \in OriginRow
      BY <1>2
    <3> QED
      BY <3>1 DEF OriginRow
  <2>3. auxiliary_origins' = [auxiliary_origins EXCEPT ![u] = [o \in Origins |-> NoRow]]
    BY <1>1, <1>7 DEF ReleaseApply
  <2> HIDE DEF row
  <2> QED
    BY <1>1, <1>7, <2>1, <2>2, <2>3 DEF GivenBack, SameLease
<1>8. ASSUME origins' = origins, auxiliary_origins' = auxiliary_origins,
             t.req.action \in {"continue_redirect", "discover"}
      PROVE  G
  BY <1>8 DEF LeasesStay, SameLease
<1> HIDE DEF G
<1>9. G
  BY <1>1, <1>3, <1>4, <1>5, <1>6, <1>7, <1>8
    DEF Apply, ContinueApply, DiscoverApply, CommitApply, NackApply
<1> QED
  BY <1>9 DEF G, t

(* The numbers and names that leases and rows are made of. *)
LEMMA LeaseTypes ==
  ASSUME Base
  PROVE  /\ \A o \in Origins : /\ origins[o].token \in Tokens /\ origins[o].epoch \in Nat
                               /\ origins[o].deadline \in Int
         /\ \A u \in Urls : urls[u].origin \in Origins /\ u # 0
         /\ auxiliary_origins \in [Urls -> [Origins -> Tokens \X Nat]]
         /\ DOMAIN tx = Urls /\ now \in Nat /\ Lease \in Nat \ {0} /\ NoDeadline \in Int
         /\ NoDeadline < 0
         /\ NoToken[3] = 0 /\ NoRow[1] = NoToken
<1>1. NoDeadline \in Int /\ NoDeadline < 0 /\ Lease \in Nat \ {0}
  BY NumberConstants DEF NoDeadline
<1>2. \A o \in Origins : origins[o].token \in Tokens /\ origins[o].epoch \in Nat
                         /\ origins[o].deadline \in Int
  BY <1>1 DEF Base, TypeOK, OriginRow
<1>3. \A u \in Urls : urls[u].origin \in Origins /\ u # 0
  BY ConstantAssumptions DEF Base, TypeOK, UrlRow
<1>4. now \in Nat /\ DOMAIN tx = Urls
  BY NumberConstants DEF Base, TypeOK, Times
<1>5. NoToken[3] = 0 /\ NoRow[1] = NoToken
  BY DEF NoToken, NoRow
<1>6. auxiliary_origins \in [Urls -> [Origins -> Tokens \X Nat]]
  BY DEF Base, TypeOK
<1> QED
  BY <1>1, <1>2, <1>3, <1>4, <1>5, <1>6

(* An origin that a URL holds by a row carries a token of that URL. *)
LEMMA OwnedByUrl ==
  ASSUME Base, RowsKnown, NEW u \in Urls, NEW o \in OwnAux(u)
  PROVE  /\ o \in Origins /\ origins[o].token[3] = u
         /\ auxiliary_origins[u][o] # NoRow
         /\ auxiliary_origins[u][o] = <<origins[o].token, origins[o].epoch>>
<1>1. /\ o \in Origins /\ auxiliary_origins[u][o] # NoRow
      /\ auxiliary_origins[u][o] = <<origins[o].token, origins[o].epoch>>
  BY DEF OwnAux, AuxRows
<1>2. auxiliary_origins[u][o][1][3] = u
  BY <1>1 DEF RowsKnown
<1> QED
  BY <1>1, <1>2

(* What a transaction does to one lease and to the rows of another URL. *)
LEMMA LeaseMoves ==
  ASSUME Base, Leased, NEW u \in Urls, Finish(u)
  PROVE  /\ \A v \in Urls : v # u => auxiliary_origins'[v] = auxiliary_origins[v]
         /\ tx[u].req.token[3] = u
         /\ \A o \in Origins :
              \/ /\ origins'[o].token = origins[o].token /\ origins'[o].epoch = origins[o].epoch
                 /\ origins'[o].deadline \in {origins[o].deadline, tx[u].at + Lease}
              \/ NewLease(o, tx[u])
              \/ /\ o \in tx[u].locks /\ tx[u].req.action \in {"commit", "nack"}
                 /\ origins'[o].token = NoToken /\ origins'[o].epoch = origins[o].epoch
                 /\ origins'[o].deadline = NoDeadline
<1> DEFINE t == tx[u]
           A == \A v \in Urls : v # u => auxiliary_origins'[v] = auxiliary_origins[v]
           B == \A o \in Origins :
              \/ /\ origins'[o].token = origins[o].token /\ origins'[o].epoch = origins[o].epoch
                 /\ origins'[o].deadline \in {origins[o].deadline, t.at + Lease}
              \/ NewLease(o, t)
              \/ /\ o \in t.locks /\ t.req.action \in {"commit", "nack"}
                 /\ origins'[o].token = NoToken /\ origins'[o].epoch = origins[o].epoch
                 /\ origins'[o].deadline = NoDeadline
<1>1. t # NoTx /\ t.req.token[3] = u /\ DOMAIN auxiliary_origins = Urls
  BY LeaseTypes DEF Finish, Leased, Holding, Holds
<1> HIDE DEF t
<1>2. ASSUME Claimed(t, u) PROVE A /\ B
  BY <1>2 DEF Claimed, SameLease
<1>3. ASSUME Acquired(t, u) PROVE A /\ B
  <2>1. A
    BY <1>1, <1>3 DEF Acquired
  <2>2. B
    BY <1>3 DEF Acquired, SameLease
  <2> QED
    BY <2>1, <2>2
<1>4. ASSUME Renewed(t, u) PROVE A /\ B
  BY <1>4 DEF Renewed, SameLease
<1>5. ASSUME GivenBack(t, u) PROVE A /\ B
  BY <1>1, <1>5 DEF GivenBack, SameLease
<1>6. ASSUME LeasesStay PROVE A /\ B
  BY <1>6 DEF LeasesStay, SameLease
<1>7. Claimed(t, u) \/ Acquired(t, u) \/ Renewed(t, u) \/ GivenBack(t, u) \/ LeasesStay
  BY FinishLeases DEF t
<1> HIDE DEF A, B
<1>8. A /\ B
  BY <1>2, <1>3, <1>4, <1>5, <1>6, <1>7
<1> QED
  BY <1>1, <1>8 DEF A, B, t

(* The rows of other URLs that hold an origin afterwards did so before. *)
LEMMA OthersHeld ==
  ASSUME Base, Leased, NEW u \in Urls, Finish(u), NEW v \in Urls, v # u,
         NEW o \in Origins, auxiliary_origins'[v][o] # NoRow,
         auxiliary_origins'[v][o] = <<origins'[o].token, origins'[o].epoch>>
  PROVE  /\ o \in OwnAux(v)
         /\ origins'[o].token = origins[o].token /\ origins'[o].epoch = origins[o].epoch
<1>1. auxiliary_origins'[v] = auxiliary_origins[v]
  BY LeaseMoves
<1>2. /\ origins'[o].token[3] = v /\ origins'[o].epoch <= origins[o].epoch
  <2>1. /\ auxiliary_origins[v][o][1][3] = v
        /\ auxiliary_origins[v][o][2] <= origins[o].epoch
    BY <1>1 DEF Leased, RowsKnown
  <2> QED
    BY <1>1, <2>1
<1>3. origins'[o].token # NoToken
  BY <1>2, LeaseTypes
<1>4. ~NewLease(o, tx[u])
  BY <1>2, LeaseTypes DEF NewLease
<1>5. origins'[o].token = origins[o].token /\ origins'[o].epoch = origins[o].epoch
  BY <1>3, <1>4, LeaseMoves
<1> QED
  BY <1>1, <1>5 DEF OwnAux, AuxRows

(* Finish keeps what tokens, rows and deadlines say. *)
LEMMA FinishKnown ==
  ASSUME Base, Leased, NEW u \in Urls, Finish(u)
  PROVE  TokensKnown' /\ RowsKnown' /\ Bounded'
<1> DEFINE t == tx[u]
           m == urls[u].origin
<1>1. /\ m \in Origins /\ t.at \in Nat /\ t.at <= now /\ t.req.token[3] = u /\ now' = now
      /\ (t.req.action = "claim" => t.req.token = <<m, origins[m].epoch + 1, u>>)
      /\ (t.req.action # "claim" => t.req.token = origins[m].token)
  <2>1. t # NoTx /\ now' = now
    BY DEF Finish
  <2>2. Holds(u)
    BY <2>1 DEF Leased, Holding
  <2> QED
    BY <2>1, <2>2, LeaseTypes, TransactionFields DEF Base, InTime, Holds
<1>2. \A o \in Origins : origins'[o].epoch \in Nat /\ origins'[o].epoch >= origins[o].epoch
  <2>1. \A o \in Origins : origins'[o].epoch \in {origins[o].epoch, origins[o].epoch + 1}
    BY LeaseMoves DEF NewLease
  <2> QED
    BY <2>1, LeaseTypes
<1>3. ASSUME NEW o \in Origins, origins'[o].token = origins[o].token
      PROVE  LET k == origins'[o].token IN
               k = NoToken \/ (k[1] \in Origins /\ k[3] \in Urls /\ k[2] <= origins'[k[1]].epoch)
  <2> DEFINE k == origins[o].token
  <2>1. CASE k = NoToken
    BY <1>3, <2>1
  <2>2. CASE k[1] \in Origins /\ k[3] \in Urls /\ k[2] <= origins[k[1]].epoch
    <3>1. k[2] \in Nat
      BY LeaseTypes DEF Tokens
    <3>2. k[2] <= origins'[k[1]].epoch
      BY <1>2, <2>2, <3>1, LeaseTypes
    <3> QED
      BY <1>3, <2>2, <3>2
  <2> QED
    BY <2>1, <2>2 DEF Leased, TokensKnown
<1>4. ASSUME NEW o \in Origins, NewLease(o, t)
      PROVE  LET k == origins'[o].token IN
               k = NoToken \/ (k[1] \in Origins /\ k[3] \in Urls /\ k[2] <= origins'[k[1]].epoch)
  <2>1. origins'[o].token = t.req.token
    BY <1>4 DEF NewLease
  <2>2. CASE t.req.action = "claim"
    <3>1. o = m
      <4>1. Claimed(t, u) \/ LeasesStay
        BY <2>2, FinishLeases DEF Acquired, Renewed, GivenBack
      <4>2. ASSUME LeasesStay PROVE FALSE
        BY <1>4, <4>2, LeaseTypes DEF LeasesStay, SameLease, NewLease
      <4>3. ASSUME Claimed(t, u), o # m PROVE FALSE
        BY <1>4, <4>3, LeaseTypes DEF Claimed, SameLease, NewLease
      <4> QED
        BY <4>1, <4>2, <4>3
    <3>2. origins'[m].epoch = origins[m].epoch + 1
      BY <1>4, <3>1 DEF NewLease
    <3>3. origins[m].epoch + 1 \in Nat
      BY <1>1, LeaseTypes
    <3> HIDE DEF m
    <3> QED
      BY <1>1, <2>1, <2>2, <3>2, <3>3
  <2>3. CASE t.req.action # "claim"
    <3> DEFINE k == origins[m].token
    <3>1. k # NoToken /\ k[3] = u
      BY <1>1, <2>3, LeaseTypes
    <3>2. k[1] \in Origins /\ k[3] \in Urls /\ k[2] <= origins[k[1]].epoch
      BY <1>1, <3>1 DEF Leased, TokensKnown
    <3>3. k[2] \in Nat
      BY <1>1, LeaseTypes DEF Tokens
    <3>4. k[2] <= origins'[k[1]].epoch
      BY <1>2, <3>2, <3>3, LeaseTypes
    <3> QED
      BY <1>1, <2>1, <2>3, <3>2, <3>4
  <2> QED
    BY <2>2, <2>3
<1>5. TokensKnown'
  <2> SUFFICES ASSUME NEW o \in Origins
               PROVE  LET k == origins'[o].token IN
                        k = NoToken
                          \/ (k[1] \in Origins /\ k[3] \in Urls /\ k[2] <= origins'[k[1]].epoch)
    BY DEF TokensKnown
  <2>1. CASE origins'[o].token = NoToken
    BY <2>1
  <2> QED
    BY <1>3, <1>4, <2>1, LeaseMoves
<1>6. RowsKnown'
  <2> SUFFICES ASSUME NEW v \in Urls, NEW o \in Origins, auxiliary_origins'[v][o] # NoRow
               PROVE  /\ auxiliary_origins'[v][o][1][3] = v
                      /\ auxiliary_origins'[v][o][2] <= origins'[o].epoch
    BY DEF RowsKnown
  <2>1. CASE auxiliary_origins'[v][o] = auxiliary_origins[v][o]
    <3>1. /\ auxiliary_origins[v][o][1][3] = v
          /\ auxiliary_origins[v][o][2] <= origins[o].epoch
      BY <2>1 DEF Leased, RowsKnown
    <3>2. auxiliary_origins[v][o][2] \in Nat
      BY LeaseTypes
    <3> QED
      BY <1>2, <2>1, <3>1, <3>2, LeaseTypes
  <2>2. CASE auxiliary_origins'[v][o] # auxiliary_origins[v][o]
    <3>0. auxiliary_origins \in [Urls -> [Origins -> Tokens \X Nat]]
      BY LeaseTypes
    <3>1. v = u
      BY <2>2, LeaseMoves
    <3>2. ~GivenBack(t, u)
      BY <3>0, <3>1 DEF GivenBack
    <3>3. Acquired(t, u)
      BY <2>2, <3>2, FinishLeases DEF Claimed, Renewed, LeasesStay
    <3>4. o = t.req.arg /\ auxiliary_origins'[u][o] = <<t.req.token, origins[o].epoch + 1>>
      BY <2>2, <3>0, <3>1, <3>3 DEF Acquired
    <3>5. origins'[o].epoch = origins[o].epoch + 1
      BY <3>3, <3>4 DEF Acquired, NewLease
    <3>6. origins[o].epoch + 1 \in Nat
      BY LeaseTypes
    <3> QED
      BY <1>1, <3>1, <3>4, <3>5, <3>6
  <2> QED
    BY <2>1, <2>2
<1>7. Bounded'
  <2> SUFFICES ASSUME NEW o \in Origins PROVE origins'[o].deadline <= now + Lease
    BY <1>1 DEF Bounded
  <2>1. origins'[o].deadline \in {origins[o].deadline, t.at + Lease, NoDeadline}
    BY LeaseMoves DEF NewLease
  <2>2. origins[o].deadline <= now + Lease
    BY DEF Leased, Bounded
  <2> QED
    BY <1>1, <2>1, <2>2, LeaseTypes
<1> QED
  BY <1>5, <1>6, <1>7

(* Only commit and nack file a URL under another origin. *)
LEMMA OriginStays ==
  ASSUME Base, NEW u \in Urls, Finish(u), ~GivenBack(tx[u], u)
  PROVE  urls'[u].origin = urls[u].origin
<1> DEFINE t == tx[u]
<1>1. tx[u] # NoTx /\ t.req.url = u /\ Apply(t) /\ urls \in [Urls -> UrlRow]
  BY DEF Base, TypeOK, Locked, Finish
<1>2. t.req.action \notin {"commit", "nack"}
  BY FinishLeases DEF Claimed, Acquired, Renewed
<1> HIDE DEF t
<1>3. \/ urls' = urls
      \/ urls' = [urls EXCEPT ![u].state = "leased"]
      \/ \E e : urls' = [urls EXCEPT ![u].eligible_at = e]
      \/ \E a : urls' = [urls EXCEPT ![u].continuation = a, ![u].next_origin = a]
      \/ \E S : urls' = Inserted(S)
  BY <1>1, <1>2, Zenon DEF Apply, ClaimApply, RenewApply, AuthorizeApply, RobotsPutApply,
     ContinueApply, DiscoverApply
<1>4. ASSUME NEW a, urls' = [urls EXCEPT ![u].continuation = a, ![u].next_origin = a]
      PROVE  urls'[u].origin = urls[u].origin
  BY <1>1, <1>4 DEF UrlRow
<1>5. ASSUME NEW S, urls' = Inserted(S)
      PROVE  urls'[u].origin = urls[u].origin
  BY <1>5, InsertedKeeps DEF Base, Kept
<1>6. ASSUME NEW e, urls' = [urls EXCEPT ![u].eligible_at = e]
      PROVE  urls'[u].origin = urls[u].origin
  BY <1>1, <1>6 DEF UrlRow
<1>7. ASSUME urls' = [urls EXCEPT ![u].state = "leased"]
      PROVE  urls'[u].origin = urls[u].origin
  BY <1>1, <1>7 DEF UrlRow
<1>8. ASSUME urls' = urls PROVE urls'[u].origin = urls[u].origin
  BY <1>8
<1> QED
  BY <1>3, <1>4, <1>5, <1>6, <1>7, <1>8

(* The same for a URL's own rows, as long as it does not take the origin.  *)
LEMMA OwnHeld ==
  ASSUME Base, Leased, NEW u \in Urls, Finish(u), ~GivenBack(tx[u], u),
         NEW o \in Origins, ~(Acquired(tx[u], u) /\ o = tx[u].req.arg),
         auxiliary_origins'[u][o] # NoRow,
         auxiliary_origins'[u][o] = <<origins'[o].token, origins'[o].epoch>>
  PROVE  /\ o \in OwnAux(u)
         /\ origins'[o].token = origins[o].token /\ origins'[o].epoch = origins[o].epoch
<1>1. auxiliary_origins'[u][o] = auxiliary_origins[u][o]
  BY FinishLeases, LeaseTypes DEF Claimed, Acquired, Renewed, LeasesStay
<1>2. origins'[o].epoch <= origins[o].epoch
  <2>1. auxiliary_origins[u][o][2] <= origins[o].epoch
    BY <1>1 DEF Leased, RowsKnown
  <2> QED
    BY <1>1, <2>1
<1>3. ~NewLease(o, tx[u])
  BY <1>2, LeaseTypes DEF NewLease
<1>4. origins'[o].token = origins[o].token /\ origins'[o].epoch = origins[o].epoch
  BY <1>3, FinishLeases, LeaseTypes DEF Claimed, Acquired, Renewed, LeasesStay, SameLease
<1> QED
  BY <1>1, <1>4 DEF OwnAux, AuxRows

(* The locks of the others keep what they hold. *)
LEMMA FinishHolding ==
  ASSUME Base, Leased, NEW u \in Urls, Finish(u)
  PROVE  Holding'
<1> SUFFICES ASSUME NEW v \in Urls, tx'[v] # NoTx
             PROVE  Holds(v)'
  BY DEF Holding
<1> DEFINE t == tx[v]
           m == urls[v].origin
<1>1. /\ v # u /\ tx'[v] = t /\ t # NoTx /\ urls'[v].origin = m
      /\ \A o \in t.locks : origins'[o] = origins[o]
  BY LocksHold DEF Kept
<1>2. m \in t.locks /\ t.locks \subseteq Origins /\ m \in Origins
  BY <1>1, TransactionFields, LeaseTypes DEF Base, Locked
<1>3. Holds(v)
  BY <1>1 DEF Leased, Holding
<1>4. tx[u].req.token[3] = u /\ auxiliary_origins'[v] = auxiliary_origins[v]
  BY <1>1, LeaseMoves
<1>5. t.req.action = "renew" => SharedAux(v)' \subseteq t.locks
  <2> SUFFICES ASSUME t.req.action = "renew", NEW o \in SharedAux(v)' PROVE o \in t.locks
    OBVIOUS
  <2>1. /\ o \in Origins /\ auxiliary_origins[v][o] # NoRow
        /\ origins'[o].token = origins[m].token
    BY <1>1, <1>2, <1>4 DEF SharedAux, AuxRows
  <2>2. origins[m].token[3] = v /\ t.req.token = origins[m].token
    BY <1>3 DEF Holds
  <2>3. origins'[o].token # NoToken /\ ~NewLease(o, tx[u])
    BY <1>1, <1>4, <2>1, <2>2, LeaseTypes DEF NewLease
  <2>4. origins[o].token = origins[m].token
    BY <2>1, <2>3, LeaseMoves
  <2>5. o \in SharedAux(v)
    BY <2>1, <2>4 DEF SharedAux, AuxRows
  <2> QED
    BY <1>3, <2>5 DEF Holds
<1>6. t.req.action \in {"commit", "nack"} => OwnAux(v)' \subseteq t.locks
  <2> SUFFICES ASSUME t.req.action \in {"commit", "nack"}, NEW o \in OwnAux(v)'
               PROVE  o \in t.locks
    OBVIOUS
  <2>1. /\ o \in Origins /\ auxiliary_origins'[v][o] # NoRow
        /\ auxiliary_origins'[v][o] = <<origins'[o].token, origins'[o].epoch>>
    BY DEF OwnAux, AuxRows
  <2>2. o \in OwnAux(v)
    BY <1>1, <2>1, OthersHeld
  <2> QED
    BY <1>3, <2>2 DEF Holds
<1>7. origins'[m] = origins[m]
  BY <1>1, <1>2
<1> HIDE DEF t, m
<1>8. /\ t.req.token[3] = v
      /\ t.req.action = "claim" => t.req.token = <<m, origins[m].epoch + 1, v>>
      /\ t.req.action # "claim" =>
           t.req.token = origins[m].token /\ origins[m].deadline <= t.at + Lease
      /\ t.req.action = "renew" => \A o \in t.locks : origins[o].token = t.req.token
  BY <1>3 DEF Holds, t, m
<1> QED
  BY <1>1, <1>5, <1>6, <1>7, <1>8 DEF Holds

(* A held origin keeps its row. *)
LEMMA FinishHeld ==
  ASSUME Base, Leased, NEW u \in Urls, Finish(u)
  PROVE  HeldOriginHasRow'
<1> DEFINE t == tx[u]
           m == urls[u].origin
<1> SUFFICES ASSUME NEW o \in Origins, origins'[o].token # NoToken,
                    ~(origins'[o].token[1] = o /\ origins'[o].token[2] = origins'[o].epoch)
             PROVE  \E v \in Urls : o \in OwnAux(v)'
  BY DEF HeldOriginHasRow
<1>1. Holds(u) /\ m \in Origins
  BY LeaseTypes DEF Leased, Holding, Finish
<1>2. CASE NewLease(o, t)
  <2>1. CASE t.req.action = "claim"
    <3>1. t.req.token = <<m, origins[m].epoch + 1, u>>
      BY <1>1, <2>1 DEF Holds
    <3>2. Claimed(t, u) \/ LeasesStay
      BY <2>1, FinishLeases DEF Acquired, Renewed, GivenBack
    <3>3. o = m
      BY <1>2, <3>2, LeaseTypes DEF Claimed, LeasesStay, SameLease, NewLease
    <3> QED
      BY <1>2, <3>1, <3>3 DEF NewLease
  <2>2. CASE t.req.action # "claim"
    <3>1. ASSUME SameLease(o) \/ origins'[o].epoch = origins[o].epoch PROVE FALSE
      BY <1>2, <3>1, LeaseTypes DEF SameLease, NewLease
    <3>2. ~Renewed(t, u) /\ ~GivenBack(t, u) /\ ~LeasesStay /\ ~Claimed(t, u)
      BY <2>2, <3>1 DEF Renewed, GivenBack, LeasesStay, Claimed
    <3>3. Acquired(t, u)
      BY <3>2, FinishLeases
    <3>4. o = t.req.arg
      BY <3>1, <3>3 DEF Acquired
    <3>5. auxiliary_origins'[u][o] = <<t.req.token, origins[o].epoch + 1>>
      BY <3>3, <3>4, LeaseTypes DEF Acquired
    <3>6. auxiliary_origins'[u][o] = <<origins'[o].token, origins'[o].epoch>>
      BY <1>2, <3>5 DEF NewLease
    <3>7. auxiliary_origins'[u][o] # NoRow
      BY <3>6 DEF NoRow
    <3> QED
      BY <3>6, <3>7 DEF OwnAux, AuxRows
  <2> QED
    BY <2>1, <2>2
<1>3. CASE origins'[o].token = origins[o].token /\ origins'[o].epoch = origins[o].epoch
  <2>1. PICK v \in Urls : o \in OwnAux(v)
    BY <1>3 DEF Leased, HeldOriginHasRow
  <2>2. /\ auxiliary_origins[v][o] # NoRow
        /\ auxiliary_origins[v][o] = <<origins[o].token, origins[o].epoch>>
    BY <2>1 DEF OwnAux, AuxRows
  <2>3. CASE auxiliary_origins'[v][o] = auxiliary_origins[v][o]
    BY <1>3, <2>2, <2>3 DEF OwnAux, AuxRows
  <2>4. CASE auxiliary_origins'[v][o] # auxiliary_origins[v][o]
    <3>1. v = u
      BY <2>4, LeaseMoves
    <3>2. CASE GivenBack(t, u)
      <4>1. o \in t.locks
        BY <1>1, <2>1, <3>1, <3>2 DEF GivenBack, Holds
      <4> QED
        BY <3>2, <4>1 DEF GivenBack
    <3>3. CASE Acquired(t, u)
      <4>1. o = t.req.arg
        BY <2>4, <3>1, <3>3, LeaseTypes DEF Acquired
      <4> QED
        BY <1>3, <3>3, <4>1, LeaseTypes DEF Acquired, NewLease
    <3>4. CASE Claimed(t, u) \/ Renewed(t, u) \/ LeasesStay
      BY <2>4, <3>4 DEF Claimed, Renewed, LeasesStay
    <3> QED
      BY <3>2, <3>3, <3>4, FinishLeases
  <2> QED
    BY <2>3, <2>4
<1> QED
  BY <1>2, <1>3, LeaseMoves

(* No auxiliary lease falls behind its main lease. *)
LEMMA FinishCovers ==
  ASSUME Base, Leased, NEW u \in Urls, Finish(u)
  PROVE  AuxCoversMain'
<1> DEFINE t == tx[u]
           m == urls[u].origin
<1> SUFFICES ASSUME NEW v \in Urls, NEW o \in OwnAux(v)',
                    origins'[o].token = origins'[urls'[v].origin].token
             PROVE  origins'[o].deadline >= origins'[urls'[v].origin].deadline
  BY DEF AuxCoversMain
<1>1. /\ o \in Origins /\ auxiliary_origins'[v][o] # NoRow
      /\ auxiliary_origins'[v][o] = <<origins'[o].token, origins'[o].epoch>>
  BY DEF OwnAux, AuxRows
<1>2. Holds(u) /\ t # NoTx /\ m \in Origins /\ m \in t.locks /\ t.at \in Nat
  BY LeaseTypes, TransactionFields DEF Leased, Holding, Finish, Base, Locked
<1>3. CASE v = u /\ GivenBack(t, u)
  BY <1>1, <1>3, LeaseTypes DEF GivenBack
<1>4. CASE v = u /\ Acquired(t, u) /\ o = t.req.arg
  <2>1. origins'[o].deadline = t.at + Lease
    BY <1>4 DEF Acquired, NewLease
  <2>2. urls'[u].origin = m
    <3>1. t.req.action = "authorize" /\ t.req.url = u
      BY <1>2, <1>4 DEF Acquired, Base, Locked
    <3>2. AuthorizeApply(t)
      BY <3>1 DEF Finish, Apply
    <3>3. urls' = urls \/ urls' = [urls EXCEPT ![u].eligible_at = ((t.at \div Day) + 1) * Day]
      BY <3>1, <3>2 DEF AuthorizeApply
    <3>4. urls \in [Urls -> UrlRow]
      BY DEF Base, TypeOK
    <3> QED
      BY <3>3, <3>4 DEF UrlRow
  <2>3. SameLease(m) /\ t.req.action # "claim"
    BY <1>2, <1>4 DEF Acquired
  <2>4. origins[m].deadline <= t.at + Lease
    BY <1>2, <2>3 DEF Holds
  <2> QED
    BY <1>2, <1>4, <2>1, <2>2, <2>3, <2>4, LeaseTypes DEF SameLease
<1>5. CASE ~(v = u /\ GivenBack(t, u)) /\ ~(v = u /\ Acquired(t, u) /\ o = t.req.arg)
  <2> DEFINE n == urls[v].origin
  <2>1. n \in Origins /\ urls'[v].origin = n
    <3>1. CASE v # u
      BY <3>1, FinishKeeps, LeaseTypes DEF Kept
    <3>2. CASE v = u
      BY <1>5, <3>2, OriginStays, LeaseTypes
    <3> QED
      BY <3>1, <3>2
  <2>2. /\ o \in OwnAux(v)
        /\ origins'[o].token = origins[o].token /\ origins'[o].epoch = origins[o].epoch
    <3>1. CASE v # u
      BY <1>1, <3>1, OthersHeld
    <3>2. CASE v = u
      BY <1>1, <1>5, <3>2, OwnHeld
    <3> QED
      BY <3>1, <3>2
  <2>3. origins[o].token[3] = v
    BY <2>2, OwnedByUrl DEF Leased
  <2>4. origins'[n].token[3] = v /\ origins'[n].token = origins'[o].token
    BY <2>1, <2>2, <2>3
  <2>5. ~NewLease(n, t)
    <3> SUFFICES ASSUME NewLease(n, t) PROVE FALSE
      OBVIOUS
    <3>1. v = u /\ origins[o].token = t.req.token
      BY <2>2, <2>4, LeaseMoves DEF NewLease
    <3>2. ~LeasesStay /\ ~Renewed(t, u) /\ ~GivenBack(t, u)
      <4>1. origins'[n].epoch # origins[n].epoch
        BY <2>1, LeaseTypes DEF NewLease
      <4> HIDE DEF n
      <4>2. ASSUME Renewed(t, u) PROVE FALSE
        BY <2>1, <4>1, <4>2 DEF Renewed, SameLease
      <4>3. ASSUME GivenBack(t, u) PROVE FALSE
        BY <2>1, <4>1, <4>3 DEF GivenBack, SameLease
      <4> QED
        BY <2>1, <4>1, <4>2, <4>3 DEF LeasesStay, SameLease
    <3>3. CASE Claimed(t, u)
      <4>1. origins[o].token = <<m, origins[m].epoch + 1, u>>
        BY <1>2, <3>1, <3>3 DEF Claimed, Holds
      <4>2. origins[o].token # NoToken
        BY <2>2, <2>3, LeaseTypes
      <4>3. origins[m].epoch + 1 <= origins[m].epoch
        <5> DEFINE k == origins[o].token
        <5>1. k[2] <= origins[k[1]].epoch
          BY <1>1, <4>2 DEF Leased, TokensKnown
        <5>2. k[1] = m /\ k[2] = origins[m].epoch + 1
          BY <4>1
        <5> QED
          BY <5>1, <5>2
      <4> QED
        BY <1>2, <4>3, LeaseTypes
    <3>4. CASE Acquired(t, u)
      <4>1. n # t.req.arg
        BY <3>1, <3>4 DEF Acquired
      <4> QED
        BY <2>1, <3>4, <4>1, LeaseTypes DEF Acquired, SameLease, NewLease
    <3> QED
      BY <3>2, <3>3, <3>4, FinishLeases
  <2>6. origins'[n].token # NoToken
    BY <2>4, LeaseTypes
  <2>7. origins'[n].token = origins[n].token
    BY <2>1, <2>5, <2>6, LeaseMoves
  <2>8. origins[o].deadline >= origins[n].deadline
    BY <2>1, <2>2, <2>4, <2>7 DEF Leased, AuxCoversMain
  <2>9. CASE Renewed(t, u)
    <3>1. CASE n \in t.locks
      <4>1. origins[n].token = t.req.token
        BY <1>2, <2>9, <3>1 DEF Renewed, Holds
      <4>2. v = u
        BY <2>3, <2>2, <2>4, <2>7, <4>1, LeaseMoves
      <4>3. o \in SharedAux(u)
        BY <1>1, <2>2, <2>4, <2>7, <4>2 DEF SharedAux, OwnAux
      <4>4. o \in t.locks
        BY <1>2, <2>9, <4>3 DEF Renewed, Holds
      <4>5. origins'[o].deadline = t.at + Lease /\ origins'[n].deadline = t.at + Lease
        BY <2>9, <3>1, <4>4 DEF Renewed
      <4> QED
        BY <1>2, <2>1, <4>5, LeaseTypes
    <3>2. CASE n \notin t.locks
      <4>1. origins'[n].deadline = origins[n].deadline
        BY <2>1, <2>9, <3>2 DEF Renewed, SameLease
      <4>2. CASE o \notin t.locks
        <5>1. origins'[o].deadline = origins[o].deadline
          BY <1>1, <2>9, <4>2 DEF Renewed, SameLease
        <5> QED
          BY <2>1, <2>8, <4>1, <5>1
      <4>3. CASE o \in t.locks
        <5>1. origins[o].token = t.req.token
          BY <1>2, <2>9, <4>3 DEF Renewed, Holds
        <5>2. v = u
          BY <2>3, <5>1, LeaseMoves
        <5> QED
          BY <1>2, <3>2, <5>2
      <4> QED
        BY <4>2, <4>3
    <3> QED
      BY <3>1, <3>2
  <2>10. ASSUME SameLease(o), SameLease(n)
         PROVE  origins'[o].deadline >= origins'[n].deadline
    BY <2>8, <2>10 DEF SameLease
  <2>11. CASE LeasesStay
    BY <1>1, <2>1, <2>10, <2>11 DEF LeasesStay
  <2>12. CASE Claimed(t, u)
    <3>1. n # m /\ o # m
      BY <1>2, <2>2, <2>5, <2>12, LeaseTypes DEF Claimed, NewLease
    <3> QED
      BY <1>1, <2>1, <2>10, <2>12, <3>1 DEF Claimed
  <2>13. CASE Acquired(t, u)
    <3>1. n # t.req.arg /\ o # t.req.arg
      BY <1>1, <2>2, <2>5, <2>13, LeaseTypes DEF Acquired, NewLease
    <3> QED
      BY <1>1, <2>1, <2>10, <2>13, <3>1 DEF Acquired
  <2>14. CASE GivenBack(t, u)
    <3>1. n \notin t.locks /\ o \notin t.locks
      BY <2>4, <2>6, <2>14 DEF GivenBack
    <3> QED
      BY <1>1, <2>1, <2>10, <2>14, <3>1 DEF GivenBack
  <2> QED
    BY <2>1, <2>9, <2>11, <2>12, <2>13, <2>14, FinishLeases
<1> QED
  BY <1>3, <1>4, <1>5

(* StepKinds that make no transaction visible leave leases and rows alone. *)
LEMMA QuietLeases ==
  ASSUME Base, Leased, UNCHANGED <<origins, auxiliary_origins>>,
         \A v \in Urls : urls'[v].origin = urls[v].origin, now' \in {now, now + 1}
  PROVE  /\ TokensKnown' /\ RowsKnown' /\ Bounded' /\ HeldOriginHasRow' /\ AuxCoversMain'
         /\ \A v \in Urls : tx[v] # NoTx /\ tx'[v] = tx[v] => Holds(v)'
<1>1. TokensKnown' /\ RowsKnown'
  BY DEF Leased, TokensKnown, RowsKnown
<1>2. Bounded'
  BY LeaseTypes DEF Leased, Bounded
<1>3. \A v \in Urls : OwnAux(v)' = OwnAux(v) /\ SharedAux(v)' = SharedAux(v)
  BY DEF OwnAux, SharedAux, AuxRows
<1>4. HeldOriginHasRow' /\ AuxCoversMain'
  BY <1>3 DEF Leased, HeldOriginHasRow, AuxCoversMain
<1>5. ASSUME NEW v \in Urls, tx[v] # NoTx, tx'[v] = tx[v] PROVE Holds(v)'
  <2>1. Holds(v)
    BY <1>5 DEF Leased, Holding
  <2> QED
    BY <1>3, <1>5, <2>1 DEF Holds
<1> QED
  BY <1>1, <1>2, <1>4, <1>5

LEMMA BeginHolds ==
  ASSUME Base, Leased, NEW r, IsRequest(r), r.action \in Actions, r.token[3] = r.url, Begin(r)
  PROVE  Leased'
<1>0. PICK u \in Urls : u = r.url
  BY RequestFields
<1>1. /\ UNCHANGED <<origins, auxiliary_origins, urls>> /\ now' = now
  BY DEF Begin, tables
<1>2. PICK t : /\ tx' = [tx EXCEPT ![r.url] = t]
               /\ t.req = r /\ t.at = now /\ t.locks = Rows(r)
  BY BeginStarts
<1> DEFINE m == urls[u].origin
<1>3. r.token = origins[m].token
  <2>1. Verdict(r) \notin Refusals
    BY DEF Begin
  <2>2. ~Fenced(r)
    BY <2>1 DEF Verdict, Refusals, AuthorizeVerdict
  <2> QED
    BY <1>0, <2>2 DEF Fenced
<1>4. origins[m].deadline <= now + Lease
  BY <1>0, LeaseTypes DEF Leased, Bounded
<1>5. r.action = "renew" => Rows(r) = {m} \cup SharedAux(u)
  BY <1>0, Zenon DEF Rows
<1>6. r.action \in {"commit", "nack"} => OwnAux(u) \subseteq Rows(r)
  <2>1. CASE r.action = "commit"
    BY <1>0, <2>1, Zenon DEF Rows
  <2>2. CASE r.action = "nack"
    BY <1>0, <2>2, Zenon DEF Rows
  <2> QED
    BY <2>1, <2>2
<1>7. \A v \in Urls : OwnAux(v)' = OwnAux(v) /\ SharedAux(v)' = SharedAux(v)
  BY <1>1 DEF OwnAux, SharedAux, AuxRows
<1>8. \A o \in SharedAux(u) : origins[o].token = origins[m].token
  BY DEF SharedAux
<1>9. tx'[u] = t /\ \A v \in Urls : v # u => tx'[v] = tx[v]
  BY <1>0, <1>2, LeaseTypes
<1>10. r.action # "claim"
  BY DEF Actions
<1>11. Holds(u)'
  <2> HIDE DEF m
  <2>1. urls'[u].origin = m
    BY <1>1 DEF m
  <2>2. t.req.token[3] = u
    BY <1>0, <1>2
  <2> QED
    BY <1>1, <1>2, <1>3, <1>4, <1>5, <1>6, <1>7, <1>8, <1>9, <1>10, <2>1, <2>2 DEF Holds
<1>12. Holding'
  <2> SUFFICES ASSUME NEW v \in Urls, tx'[v] # NoTx PROVE Holds(v)'
    BY DEF Holding
  <2>1. CASE v = u
    BY <1>11, <2>1
  <2>2. CASE v # u
    BY <1>1, <1>9, <2>2, QuietLeases
  <2> QED
    BY <2>1, <2>2
<1> QED
  BY <1>1, <1>12, QuietLeases DEF Leased

LEMMA ClaimHolds ==
  ASSUME Base, Leased, NEW c \in Commands, ClaimBegin(c)
  PROVE  Leased'
<1>0. PICK u \in Urls : u = pick[c]
  BY DEF Base, TypeOK, ClaimBegin, ClaimGives
<1> DEFINE m == urls[u].origin
<1>1. /\ UNCHANGED <<origins, auxiliary_origins, urls>> /\ now' = now
  BY DEF ClaimBegin, tables
<1>2. PICK t : /\ tx' = [tx EXCEPT ![u] = t] /\ t.req.action = "claim"
               /\ t.req.token = <<m, origins[m].epoch + 1, u>>
  BY <1>0, ClaimStarts
<1>3. tx'[u] = t /\ \A v \in Urls : v # u => tx'[v] = tx[v]
  BY <1>0, <1>2, LeaseTypes
<1>4. Holds(u)'
  BY <1>1, <1>2, <1>3 DEF Holds
<1>5. Holding'
  <2> SUFFICES ASSUME NEW v \in Urls, tx'[v] # NoTx PROVE Holds(v)'
    BY DEF Holding
  <2>1. CASE v = u
    BY <1>4, <2>1
  <2>2. CASE v # u
    BY <1>1, <1>3, <2>2, QuietLeases
  <2> QED
    BY <2>1, <2>2
<1> QED
  BY <1>1, <1>5, QuietLeases DEF Leased

(* The clock goes forward one unit at a time. *)
LEMMA ClockSteps ==
  ASSUME [Next]_vars
  PROVE  now' \in {now, now + 1}
<1> DEFINE G == now' \in {now, now + 1}
<1>1. ASSUME now' = now PROVE G
  BY <1>1
<1>2. ASSUME Tick PROVE G
  BY <1>2 DEF Tick
<1>3. ASSUME NEW c \in Commands, ClaimPick(c) \/ ClaimEmpty(c) \/ ClaimBegin(c) PROVE now' = now
  BY <1>3 DEF ClaimPick, ClaimEmpty, ClaimBegin
<1>4. ASSUME NEW c, NEW u, NEW action, NEW arg, Call(c, u, action, arg) PROVE now' = now
  BY <1>4 DEF Call, Begin
<1>5. ASSUME NEW u, Finish(u) \/ Abort(u) \/ Admit(u) PROVE now' = now
  BY <1>5 DEF Finish, Abort, Admit
<1>6. ASSUME NEW u, NEW k, PublishOutbox(u, k) PROVE now' = now
  BY <1>6 DEF PublishOutbox
<1>7. ASSUME NEW p, NEW owner, Transfer(p, owner) PROVE now' = now
  BY <1>7 DEF Transfer
<1>8. ASSUME Horizon \/ UNCHANGED vars PROVE now' = now
  BY <1>8 DEF Horizon, vars
<1> HIDE DEF G
<1>9. G
  BY <1>1, <1>2, <1>3, <1>4, <1>5, <1>6, <1>7, <1>8, Zenon DEF Next
<1> QED
  BY <1>9 DEF G

LEMMA LeasedNext ==
  ASSUME Base, Leased, [Next]_vars
  PROVE  Leased'
<1>1. ASSUME NEW u \in Urls, Finish(u) PROVE Leased'
  BY <1>1, FinishKnown, FinishHolding, FinishHeld, FinishCovers DEF Leased
<1>2. ASSUME UNCHANGED <<origins, auxiliary_origins>>, now' \in {now, now + 1},
             \A v \in Urls : urls'[v].origin = urls[v].origin,
             \A v \in Urls : tx'[v] \in {tx[v], NoTx}
      PROVE  Leased'
  <2>1. Holding'
    BY <1>2, QuietLeases DEF Holding
  <2> QED
    BY <1>2, <2>1, QuietLeases DEF Leased
<1>3. ASSUME NEW u \in Urls, Abort(u) PROVE Leased'
  <2>1. /\ UNCHANGED <<origins, auxiliary_origins, urls, now>>
        /\ tx' = [tx EXCEPT ![u] = NoTx]
    BY <1>3 DEF Abort, tables
  <2> QED
    BY <1>2, <2>1, LeaseTypes
<1>4. CASE Aside
  <2>1. UNCHANGED <<origins, auxiliary_origins, tx>>
    BY <1>4 DEF Aside
  <2>2. \A v \in Urls : urls'[v].origin = urls[v].origin
    BY <1>4, AsideKeeps DEF Kept
  <2>3. now' \in {now, now + 1}
    BY ClockSteps
  <2> QED
    BY <1>2, <2>1, <2>2, <2>3
<1> QED
  BY <1>1, <1>3, <1>4, BeginHolds, ClaimHolds, StepKinds DEF Base

LEMMA LeasedInit == Init => Leased
<1> SUFFICES ASSUME Init PROVE Leased
  OBVIOUS
<1>1. Base
  BY BaseInit
<1>2. \A o \in Origins : origins[o].token = NoToken /\ origins[o].deadline = NoDeadline
  BY DEF Init
<1>3. \A u \in Urls, o \in Origins : auxiliary_origins[u][o] = NoRow
  BY DEF Init
<1>4. Bounded
  BY <1>1, <1>2, LeaseTypes DEF Bounded
<1>5. Holding
  BY DEF Init, Holding
<1> QED
  BY <1>2, <1>3, <1>4, <1>5
    DEF Leased, TokensKnown, RowsKnown, HeldOriginHasRow, AuxCoversMain, OwnAux, AuxRows

(* Leases and auxiliary rows agree: what follows rests on this.            *)
THEOREM LeasesAgree == Spec => []Leased
<1>1. Init => Leased
  BY LeasedInit
<1>2. Base /\ Leased /\ [Next]_vars => Leased'
  BY LeasedNext
<1> QED
  BY <1>1, <1>2, BaseHolds, PTL DEF Spec

(* A worker looks at the deadline of the main origin alone before it sends *)
(* to an origin it holds beside it: that lease never ends earlier, however *)
(* authorizations, renewals and commits that stall are interleaved.        *)
THEOREM AuxiliariesOutlast == Spec => []AuxCoversMain
<1>1. Leased => AuxCoversMain
  BY DEF Leased
<1> QED
  BY <1>1, LeasesAgree, PTL

(* commit and nack find every origin a URL acquired by the row that names  *)
(* it, so that none stays held until its deadline by oversight.            *)
THEOREM HeldAreFound == Spec => []HeldOriginHasRow
<1>1. Leased => HeldOriginHasRow
  BY DEF Leased
<1> QED
  BY <1>1, LeasesAgree, PTL

-----------------------------------------------------------------------------
(* Handovers of an origin *)

(* A vacant origin has no deadline. *)
Vacant == \A o \in Origins : origins[o].token = NoToken => origins[o].deadline = NoDeadline

(* A row is about another origin than the one its URL is filed under, and  *)
(* than the one its token was granted for.                                 *)
RowsForeign ==
  \A u \in Urls, o \in Origins : LET row == auxiliary_origins[u][o] IN
    row = NoRow \/ (o # urls[u].origin /\ row[1][1] # o)

(* The URL of a main lease stays filed under the origin of that lease. *)
Rooted ==
  \A o \in Origins : LET k == origins[o].token IN
    k # NoToken /\ k[1] = o => urls[k[3]].origin = o

(* A transaction in progress that takes an origin has found it cooled      *)
(* down, one that extends an origin does not shorten it, and one that      *)
(* gives origins back gives back those of its URL alone.                   *)
Cleared(u) ==
  LET t == tx[u] IN
  /\ t.req.action = "claim" => origins[urls[u].origin].deadline + Cooldown <= t.at
  /\ t.req.action = "authorize" /\ Acquires(t) =>
       origins[t.req.arg].deadline + Cooldown <= t.at
  /\ t.req.action \in {"commit", "nack"} => t.locks \subseteq {urls[u].origin} \cup OwnAux(u)
  /\ \A o \in t.locks : origins[o].deadline <= t.at + Lease

Tenured == Vacant /\ RowsForeign /\ Rooted /\ \A u \in Urls : tx[u] # NoTx => Cleared(u)

(* A token of a URL that holds the URL's own origin was granted for it. *)
LEMMA MainToken ==
  ASSUME Base, Leased, RowsForeign, NEW u \in Urls, origins[urls[u].origin].token[3] = u
  PROVE  origins[urls[u].origin].token[1] = urls[u].origin
<1> DEFINE m == urls[u].origin
           k == origins[m].token
<1>1. m \in Origins /\ k # NoToken
  BY LeaseTypes
<1>2. ASSUME NEW v \in Urls, m \in OwnAux(v) PROVE FALSE
  <2>1. v = u /\ auxiliary_origins[v][m] # NoRow
    BY <1>2, OwnedByUrl DEF Leased
  <2> QED
    BY <1>1, <2>1 DEF RowsForeign
<1> QED
  BY <1>1, <1>2 DEF Leased, HeldOriginHasRow

(* Every origin held under a main lease outlasts it. *)
LEMMA TokenCovers ==
  ASSUME Base, Leased, Tenured, NEW o \in Origins, NEW m \in Origins,
         origins[m].token # NoToken, origins[m].token[1] = m,
         origins[o].token = origins[m].token
  PROVE  origins[o].deadline >= origins[m].deadline
<1>1. CASE o = m
  BY <1>1, LeaseTypes
<1>2. CASE o # m
  <2>1. PICK u \in Urls : o \in OwnAux(u)
    BY <1>2 DEF Leased, HeldOriginHasRow
  <2>2. origins[m].token[3] = u
    BY <2>1, OwnedByUrl DEF Leased
  <2>3. urls[u].origin = m
    BY <2>2 DEF Tenured, Rooted
  <2> QED
    BY <2>1, <2>3 DEF Leased, AuxCoversMain
<1> QED
  BY <1>1, <1>2

LEMMA FinishVacant ==
  ASSUME Base, Leased, Tenured, NEW u \in Urls, Finish(u)
  PROVE  Vacant'
<1> SUFFICES ASSUME NEW o \in Origins, origins'[o].token = NoToken
             PROVE  origins'[o].deadline = NoDeadline
  BY DEF Vacant
<1> DEFINE t == tx[u]
<1>0. tx[u] # NoTx
  BY DEF Finish
<1>1. t.req.token # NoToken /\ Holds(u)
  <2>1. Holds(u) /\ u # 0
    BY <1>0, LeaseTypes DEF Leased, Holding
  <2>2. t.req.token[3] = u
    BY <2>1 DEF Holds
  <2> QED
    BY <2>1, <2>2, LeaseTypes
<1>2. SameLease(o) => origins'[o].deadline = NoDeadline
  BY DEF Tenured, Vacant, SameLease
<1>3. ~NewLease(o, t)
  BY <1>1 DEF NewLease
<1>4. CASE Renewed(t, u)
  <2>1. o \notin t.locks
    BY <1>1, <1>4 DEF Renewed, Holds
  <2> QED
    BY <1>2, <1>4, <2>1 DEF Renewed
<1>5. CASE GivenBack(t, u)
  BY <1>2, <1>5 DEF GivenBack
<1>6. CASE Claimed(t, u)
  BY <1>2, <1>3, <1>6 DEF Claimed
<1>7. CASE Acquired(t, u)
  BY <1>2, <1>3, <1>7 DEF Acquired
<1>8. CASE LeasesStay
  BY <1>2, <1>8 DEF LeasesStay
<1> QED
  BY <1>4, <1>5, <1>6, <1>7, <1>8, FinishLeases

(* The token of a call in progress was granted for the main origin. *)
LEMMA TokenOfCall ==
  ASSUME Base, Leased, Tenured, NEW u \in Urls, tx[u] # NoTx, tx[u].req.action # "claim"
  PROVE  /\ tx[u].req.token = origins[urls[u].origin].token
         /\ tx[u].req.token[1] = urls[u].origin /\ tx[u].req.token[3] = u
<1>1. Holds(u)
  BY DEF Leased, Holding
<1>2. tx[u].req.token = origins[urls[u].origin].token /\ tx[u].req.token[3] = u
  BY <1>1 DEF Holds
<1> QED
  BY <1>2, MainToken DEF Tenured

LEMMA FinishForeign ==
  ASSUME Base, Leased, Tenured, NEW u \in Urls, Finish(u)
  PROVE  RowsForeign'
<1> SUFFICES ASSUME NEW v \in Urls, NEW o \in Origins, auxiliary_origins'[v][o] # NoRow
             PROVE  o # urls'[v].origin /\ auxiliary_origins'[v][o][1][1] # o
  BY DEF RowsForeign
<1> DEFINE t == tx[u]
<1>1. CASE auxiliary_origins'[v][o] = auxiliary_origins[v][o] /\ urls'[v].origin = urls[v].origin
  BY <1>1 DEF Tenured, RowsForeign
<1>2. CASE v # u
  BY <1>1, <1>2, LeaseMoves, FinishKeeps DEF Kept
<1>3. ASSUME v = u, GivenBack(t, u) PROVE FALSE
  BY <1>3, LeaseTypes DEF GivenBack
<1>4. ASSUME v = u, ~GivenBack(t, u), ~Acquired(t, u)
      PROVE  auxiliary_origins'[v][o] = auxiliary_origins[v][o] /\ urls'[v].origin = urls[v].origin
  BY <1>4, OriginStays, FinishLeases DEF Claimed, Renewed, LeasesStay
<1>5. CASE v = u /\ Acquired(t, u)
  <2>1. urls'[u].origin = urls[u].origin
    BY <1>5, OriginStays DEF Acquired, GivenBack
  <2>2. CASE o # t.req.arg
    <3>1. auxiliary_origins'[u][o] = auxiliary_origins[u][o]
      BY <1>5, <2>2, LeaseTypes DEF Acquired
    <3> QED
      BY <1>1, <1>5, <2>1, <3>1
  <2>3. CASE o = t.req.arg
    <3>1. auxiliary_origins'[u][o][1] = t.req.token
      BY <1>5, <2>3, LeaseTypes DEF Acquired
    <3>2. t.req.token[1] = urls[u].origin
      BY <1>5, TokenOfCall DEF Acquired, Finish
    <3> QED
      BY <1>5, <2>1, <2>3, <3>1, <3>2 DEF Acquired
  <2> QED
    BY <2>2, <2>3
<1> QED
  BY <1>1, <1>2, <1>3, <1>4, <1>5

LEMMA FinishRooted ==
  ASSUME Base, Leased, Tenured, NEW u \in Urls, Finish(u)
  PROVE  Rooted'
<1> SUFFICES ASSUME NEW o \in Origins, origins'[o].token # NoToken, origins'[o].token[1] = o
             PROVE  urls'[origins'[o].token[3]].origin = o
  BY DEF Rooted
<1> DEFINE t == tx[u]
           m == urls[u].origin
           k == origins'[o].token
<1>0. t.req.token[3] = u /\ t # NoTx
  BY LeaseMoves DEF Finish
<1>1. ASSUME k = origins[o].token PROVE urls'[k[3]].origin = o
  <2>1. k[3] \in Urls /\ urls[k[3]].origin = o
    BY <1>1 DEF Leased, TokensKnown, Tenured, Rooted
  <2>2. CASE k[3] # u
    BY <2>1, <2>2, FinishKeeps DEF Kept
  <2>3. CASE k[3] = u /\ ~GivenBack(t, u)
    BY <2>1, <2>3, OriginStays
  <2>4. ASSUME k[3] = u, GivenBack(t, u) PROVE FALSE
    <3>1. o \in t.locks
      BY <1>0, <2>1, <2>4 DEF Base, Locked
    <3> QED
      BY <2>4, <3>1 DEF GivenBack
  <2> QED
    BY <2>2, <2>3, <2>4
<1>2. ASSUME NewLease(o, t), Claimed(t, u) PROVE urls'[k[3]].origin = o
  <2>1. o = m
    BY <1>2, LeaseTypes DEF Claimed, NewLease, SameLease
  <2>2. k[3] = u
    BY <1>0, <1>2 DEF NewLease
  <2> QED
    BY <1>2, <2>1, <2>2, OriginStays DEF Claimed, GivenBack
<1>3. ASSUME NewLease(o, t), Acquired(t, u) PROVE FALSE
  <2>1. o = t.req.arg /\ k = t.req.token
    BY <1>3, LeaseTypes DEF Acquired, NewLease, SameLease
  <2>2. t.req.token[1] = m
    BY <1>0, <1>3, TokenOfCall DEF Acquired
  <2> QED
    BY <1>3, <2>1, <2>2 DEF Acquired
<1>4. k = origins[o].token \/ (NewLease(o, t) /\ (Claimed(t, u) \/ Acquired(t, u)))
  <2>1. CASE Claimed(t, u)
    BY <2>1 DEF Claimed, SameLease
  <2>2. CASE Acquired(t, u)
    BY <2>2 DEF Acquired, SameLease
  <2>3. CASE Renewed(t, u)
    BY <2>3 DEF Renewed, SameLease
  <2>4. CASE GivenBack(t, u)
    BY <2>4 DEF GivenBack, SameLease
  <2>5. CASE LeasesStay
    BY <2>5 DEF LeasesStay, SameLease
  <2> QED
    BY <2>1, <2>2, <2>3, <2>4, <2>5, FinishLeases
<1> QED
  BY <1>1, <1>2, <1>3, <1>4

LEMMA FinishCleared ==
  ASSUME Base, Leased, Tenured, NEW u \in Urls, Finish(u), NEW v \in Urls, tx'[v] # NoTx
  PROVE  Cleared(v)'
<1> DEFINE t == tx[v]
           m == urls[v].origin
<1>1. /\ v # u /\ tx'[v] = t /\ t # NoTx /\ urls'[v].origin = m
      /\ \A o \in t.locks : origins'[o] = origins[o]
      /\ auxiliary_origins'[v] = auxiliary_origins[v]
  BY LocksHold, LeaseMoves DEF Kept
<1>2. /\ m \in t.locks /\ t.locks \subseteq Origins
      /\ t.req.action = "authorize" => t.req.arg \in t.locks
      /\ t.req.url = v
  BY <1>1, TransactionFields DEF Base, Locked
<1>3. Cleared(v)
  BY <1>1 DEF Tenured
<1>4. t.req.action = "authorize" => (Acquires(tx[v])' <=> Acquires(tx[v]))
  BY <1>1, <1>2 DEF Acquires
<1>5. ASSUME NEW o \in t.locks, o \in OwnAux(v) PROVE o \in OwnAux(v)'
  BY <1>1, <1>5 DEF OwnAux, AuxRows
<1> HIDE DEF t, m
<1>6. /\ t.req.action = "claim" => origins'[m].deadline + Cooldown <= t.at
      /\ \A o \in t.locks : origins'[o].deadline <= t.at + Lease
  BY <1>1, <1>2, <1>3 DEF Cleared, t, m
<1>7. t.req.action = "authorize" /\ Acquires(t)' => origins'[t.req.arg].deadline + Cooldown <= t.at
  BY <1>1, <1>2, <1>3, <1>4 DEF Cleared, t
<1>8. t.req.action \in {"commit", "nack"} => t.locks \subseteq {m} \cup OwnAux(v)'
  BY <1>3, <1>5 DEF Cleared, t, m
<1>9. urls'[v].origin = m /\ tx'[v] = t
  BY <1>1
<1> QED
  BY <1>1, <1>6, <1>7, <1>8, <1>9 DEF Cleared, t

LEMMA BeginTenured ==
  ASSUME Base, Leased, Tenured, NEW r, IsRequest(r), r.action \in Actions, r.token[3] = r.url,
         Begin(r)
  PROVE  Tenured'
<1>0. PICK u \in Urls : u = r.url
  BY RequestFields
<1>1. /\ UNCHANGED <<origins, auxiliary_origins, urls>> /\ now' = now
  BY DEF Begin, tables
<1>2. PICK t : /\ tx' = [tx EXCEPT ![r.url] = t]
               /\ t.req = r /\ t.at = now /\ t.locks = Rows(r)
  BY BeginStarts
<1>3. tx'[u] = t /\ \A v \in Urls : v # u => tx'[v] = tx[v]
  BY <1>0, <1>2, LeaseTypes
<1>4. Verdict(r) \notin Refusals
  BY DEF Begin
<1>5. r.action = "authorize" => r.arg \in Origins
  BY RequestFields
<1>6. ASSUME r.action = "authorize", r.arg # urls[u].origin, origins[r.arg].token # r.token
      PROVE  origins[r.arg].deadline + Cooldown <= now
  <2>1. ~AuxBusy(r)
    BY <1>0, <1>4, <1>6 DEF Verdict, AuthorizeVerdict, Foreign, Refusals
  <2> QED
    BY <1>5, <1>6, <2>1, LeaseTypes, NumberConstants DEF AuxBusy
<1>7. r.action \in {"commit", "nack"} => Rows(r) \subseteq {urls[u].origin} \cup OwnAux(u)
  <2>1. CASE r.action = "commit"
    BY <1>0, <2>1, Zenon DEF Rows
  <2>2. CASE r.action = "nack"
    BY <1>0, <2>2, Zenon DEF Rows
  <2> QED
    BY <2>1, <2>2
<1>8. Rows(r) \subseteq Origins
  <2>1. tx'[u].locks \subseteq Origins
    <3>1. TypeOK'
      BY BeginTypes DEF Base
    <3>2. CASE t = NoTx
      <4>1. Rows(r) \subseteq Origins
        BY <1>0, <1>5, LeaseTypes DEF Rows, SharedAux, OwnAux, AuxRows
      <4> QED
        BY <1>2, <1>3, <4>1
    <3>3. CASE t # NoTx
      BY <1>3, <3>1, <3>3 DEF TypeOK, IsTransaction
    <3> QED
      BY <3>2, <3>3
  <2> QED
    BY <1>2, <1>3, <2>1
<1>9. OwnAux(u)' = OwnAux(u)
  BY <1>1 DEF OwnAux, AuxRows
<1>10. Cleared(u)'
  <2>1. r.action # "claim"
    BY DEF Actions
  <2>2. r.action = "authorize" /\ Acquires(t)' => origins'[r.arg].deadline + Cooldown <= now
    BY <1>0, <1>1, <1>2, <1>6 DEF Acquires
  <2>3. \A o \in Rows(r) : origins'[o].deadline <= now + Lease
    BY <1>1, <1>8 DEF Leased, Bounded
  <2> QED
    BY <1>1, <1>2, <1>3, <1>7, <1>9, <2>1, <2>2, <2>3 DEF Cleared
<1>11. ASSUME NEW v \in Urls, tx'[v] # NoTx PROVE Cleared(v)'
  <2>1. CASE v = u
    BY <1>10, <2>1
  <2>2. CASE v # u
    <3>1. OwnAux(v)' = OwnAux(v)
      BY <1>1 DEF OwnAux, AuxRows
    <3> QED
      BY <1>1, <1>3, <1>11, <2>2, <3>1 DEF Tenured, Cleared, Acquires
  <2> QED
    BY <2>1, <2>2
<1> QED
  BY <1>1, <1>11 DEF Tenured, Vacant, RowsForeign, Rooted

LEMMA ClaimTenured ==
  ASSUME Base, Leased, Tenured, NEW c \in Commands, ClaimBegin(c)
  PROVE  Tenured'
<1>0. PICK u \in Urls : u = pick[c]
  BY DEF Base, TypeOK, ClaimBegin, ClaimGives
<1>1. /\ UNCHANGED <<origins, auxiliary_origins, urls>> /\ now' = now
  BY DEF ClaimBegin, tables
<1>2. PICK t : /\ tx' = [tx EXCEPT ![u] = t] /\ t.req.action = "claim"
               /\ t.at = now /\ t.locks = {urls[u].origin}
  BY <1>0, ClaimStarts
<1>3. tx'[u] = t /\ \A v \in Urls : v # u => tx'[v] = tx[v]
  BY <1>0, <1>2, LeaseTypes
<1>4. urls[u].origin \in Origins /\ origins[urls[u].origin].deadline + Cooldown <= now
  BY <1>0, LeaseTypes DEF ClaimBegin, ClaimGives, Grantable
<1>5. Cleared(u)'
  <2>1. \A o \in t.locks : origins'[o].deadline <= now + Lease
    BY <1>1, <1>2, <1>4 DEF Leased, Bounded
  <2> QED
    BY <1>1, <1>2, <1>3, <1>4, <2>1 DEF Cleared
<1>6. ASSUME NEW v \in Urls, tx'[v] # NoTx PROVE Cleared(v)'
  <2>1. CASE v = u
    BY <1>5, <2>1
  <2>2. CASE v # u
    <3>1. OwnAux(v)' = OwnAux(v)
      BY <1>1 DEF OwnAux, AuxRows
    <3> QED
      BY <1>1, <1>3, <1>6, <2>2, <3>1 DEF Tenured, Cleared, Acquires
  <2> QED
    BY <2>1, <2>2
<1> QED
  BY <1>1, <1>6 DEF Tenured, Vacant, RowsForeign, Rooted

LEMMA TenuredNext ==
  ASSUME Base, Leased, Tenured, [Next]_vars
  PROVE  Tenured'
<1>1. ASSUME NEW u \in Urls, Finish(u) PROVE Tenured'
  BY <1>1, FinishVacant, FinishForeign, FinishRooted, FinishCleared DEF Tenured
<1>2. ASSUME UNCHANGED <<origins, auxiliary_origins>>,
             \A v \in Urls : urls'[v].origin = urls[v].origin,
             \A v \in Urls : tx'[v] \in {tx[v], NoTx}
      PROVE  Tenured'
  <2>1. Vacant' /\ RowsForeign'
    BY <1>2 DEF Tenured, Vacant, RowsForeign
  <2>2. Rooted'
    BY <1>2 DEF Tenured, Rooted, Leased, TokensKnown
  <2>3. ASSUME NEW v \in Urls, tx'[v] # NoTx PROVE Cleared(v)'
    <3>1. OwnAux(v)' = OwnAux(v) /\ tx'[v] = tx[v] /\ tx[v].req.url = v
      BY <1>2, <2>3 DEF OwnAux, AuxRows, Base, Locked
    <3> QED
      BY <1>2, <2>3, <3>1 DEF Tenured, Cleared, Acquires
  <2> QED
    BY <2>1, <2>2, <2>3 DEF Tenured
<1>3. ASSUME NEW u \in Urls, Abort(u) PROVE Tenured'
  BY <1>2, <1>3, LeaseTypes DEF Abort, tables
<1>4. CASE Aside
  <2>1. UNCHANGED <<origins, auxiliary_origins, tx>>
    BY <1>4 DEF Aside
  <2>2. \A v \in Urls : urls'[v].origin = urls[v].origin
    BY <1>4, AsideKeeps DEF Kept
  <2> QED
    BY <1>2, <2>1, <2>2
<1> QED
  BY <1>1, <1>3, <1>4, BeginTenured, ClaimTenured, StepKinds DEF Base

LEMMA TenuredInit == Init => Tenured
<1> SUFFICES ASSUME Init PROVE Tenured
  OBVIOUS
<1>1. \A o \in Origins : origins[o].token = NoToken /\ origins[o].deadline = NoDeadline
  BY DEF Init
<1>2. \A u \in Urls, o \in Origins : auxiliary_origins[u][o] = NoRow
  BY DEF Init
<1>3. \A u \in Urls : tx[u] = NoTx
  BY DEF Init
<1> QED
  BY <1>1, <1>2, <1>3 DEF Tenured, Vacant, RowsForeign, Rooted

(* A lease, with everything held under its token, outlives the step of any *)
(* other URL until its cooldown is over: only its own commit or nack ends  *)
(* it earlier.                                                             *)
LEMMA LeaseLasts ==
  ASSUME Base, Leased, Tenured, NEW u \in Urls, Finish(u),
         NEW m \in Origins, origins[m].token # NoToken, origins[m].token[1] = m,
         now < origins[m].deadline + Cooldown,
         tx[u].req.action \in {"commit", "nack"} => tx[u].req.token # origins[m].token,
         NEW o \in Origins, origins[o].token = origins[m].token
  PROVE  /\ origins'[o].token = origins[m].token
         /\ origins'[o].deadline >= origins[o].deadline
<1> DEFINE t == tx[u]
           k == origins[m].token
           G == origins'[o].token = k /\ origins'[o].deadline >= origins[o].deadline
<1>0. t # NoTx
  BY DEF Finish
<1>1. /\ Cleared(u) /\ t.at <= now /\ t.at \in Nat /\ now < origins[o].deadline + Cooldown
      /\ origins[o].deadline \in Int /\ origins[m].deadline \in Int /\ now \in Nat
  BY <1>0, TokenCovers, LeaseTypes, TransactionFields, NumberConstants
    DEF Tenured, Base, InTime
<1>9. ~(origins[o].deadline + Cooldown <= t.at)
  BY <1>1, NumberConstants
<1>2. ASSUME SameLease(o) PROVE G
  BY <1>1, <1>2 DEF SameLease
<1>3. ASSUME Claimed(t, u) PROVE G
  <2>1. o # urls[u].origin
    BY <1>1, <1>3, <1>9 DEF Claimed, Cleared
  <2> QED
    BY <1>2, <1>3, <2>1 DEF Claimed
<1>4. ASSUME Acquired(t, u) PROVE G
  <2>1. o # t.req.arg
    BY <1>1, <1>4, <1>9 DEF Acquired, Cleared
  <2> QED
    BY <1>2, <1>4, <2>1 DEF Acquired
<1>5. ASSUME Renewed(t, u) PROVE G
  <2>1. CASE o \in t.locks
    BY <1>1, <1>5, <2>1 DEF Renewed, Cleared
  <2>2. CASE o \notin t.locks
    BY <1>2, <1>5, <2>2 DEF Renewed
  <2> QED
    BY <2>1, <2>2
<1>6. ASSUME GivenBack(t, u) PROVE G
  <2>1. t.req.token = origins[urls[u].origin].token /\ t.req.token # k
    BY <1>0, <1>6, TokenOfCall DEF GivenBack
  <2>2. o # urls[u].origin
    BY <2>1
  <2>3. ASSUME o \in OwnAux(u) PROVE FALSE
    <3>1. k[3] = u
      BY <2>3, OwnedByUrl DEF Leased
    <3>2. urls[u].origin = m
      BY <3>1 DEF Tenured, Rooted
    <3> QED
      BY <2>1, <3>2
  <2>4. o \notin t.locks
    BY <1>1, <1>6, <2>2, <2>3 DEF GivenBack, Cleared
  <2> QED
    BY <1>2, <1>6, <2>4 DEF GivenBack
<1>7. ASSUME LeasesStay PROVE G
  BY <1>2, <1>7 DEF LeasesStay
<1> HIDE DEF G
<1>8. G
  BY <1>3, <1>4, <1>5, <1>6, <1>7, FinishLeases
<1> QED
  BY <1>8 DEF G

(* Origins change hands in order: what the workers' promise to an origin   *)
(* rests on.                                                               *)
THEOREM HandoversOrderly == Spec => []Tenured
<1>1. Base /\ Leased /\ Tenured /\ [Next]_vars => Tenured'
  BY TenuredNext
<1> QED
  BY <1>1, TenuredInit, BaseHolds, LeasesAgree, PTL DEF Spec

=============================================================================
