------------------------ MODULE LocalFrontierTables ------------------------
(***************************************************************************)
(* The tables of the local crawler's frontier database (crawler/           *)
(* frontier.rs) and what one transaction does to them, as operators from   *)
(* the database to the database.  A batch of URLs is a sequence of such    *)
(* steps.  The sequence numbers that break ties between equal due times    *)
(* are left out: a tie is resolved either way.  Times past the bound of    *)
(* the model all count as Far.                                             *)
(***************************************************************************)
EXTENDS Naturals, FiniteSets

CONSTANTS
  Urls, Origins, Sites,
  OriginOf,      \* OriginOf[u]: scheme, host and port of u
  SiteOf,        \* SiteOf[o]: the registrable domain that o belongs to
  None,          \* no origin, no fetch id, no due time
  Capacity,      \* max_frontier
  Budget,        \* pages_per_domain
  Reserve,       \* manual_reserve_per_site
  MinDelay,      \* min_crawl_delay_ms
  RetryDelay,    \* retry::Config::delay
  NotFoundDelay, \* how long a missing page waits: seven days
  MaxAttempts,   \* retry::Config::max_attempts
  Intervals,     \* recrawl intervals, 0 when the capture was received long before its commit
  MaxTime        \* bound on the clock

ASSUME TableAssumptions ==
  /\ OriginOf \in [Urls -> Origins] /\ SiteOf \in [Origins -> Sites]
  /\ None \notin Origins /\ None \notin Nat
  /\ Capacity \in Nat \ {0} /\ Budget \in Nat \ {0} /\ Reserve \in Nat
  /\ MinDelay \in Nat /\ RetryDelay \in Nat /\ NotFoundDelay \in Nat /\ MaxTime \in Nat
  /\ MaxAttempts \in Nat \ {0} /\ Intervals \subseteq Nat

Far == MaxTime + 1
After(t, delay) == IF t + delay > Far THEN Far ELSE t + delay
Later(s, t) == IF s > t THEN s ELSE t
Sooner(s, t) == IF s < t THEN s ELSE t
Site(u) == SiteOf[OriginOf[u]]

AbsentUrl == [round |-> 0, state |-> "absent", fetch |-> None, due |-> 0, failures |-> 0,
              reason |-> "none", cont |-> None, sitemap |-> FALSE]
AbsentSite == [round |-> 0, state |-> "absent", admitted |-> 0, due |-> 0]

EmptyDatabase ==
  [round |-> 1,
   url |-> [u \in Urls |-> AbsentUrl],
   site |-> [s \in Sites |-> AbsentSite],
   origin |-> [o \in Origins |-> [round |-> 0, due |-> 0]],
   retry |-> [o \in Origins |-> [penalty |-> 0, due |-> 0]],
   eligible |-> {},                              \* ELIGIBLE
   httpUrls |-> {},                              \* HTTP_URLS
   httpReady |-> {},                             \* HTTP_READY
   httpActive |-> [s \in Sites |-> None],        \* HTTP_ACTIVE
   ready |-> {},                                 \* READY
   active |-> {},                                \* ACTIVE
   leases |-> {},                                \* LEASES
   commits |-> {},                               \* COMMITS
   outbox |-> {},                                \* OUTBOX: links still to admit
   candidates |-> {}, waiting |-> {},            \* CANDIDATES, CANDIDATE_READY
   documents |-> {},                             \* DOCUMENTS
   resource |-> [u \in Urls |-> None],           \* RECRAWL: when to look again
   recrawls |-> {},                              \* RECRAWL_READY
   manual |-> {}, streak |-> 0,                  \* MANUAL_PRIORITY
   pendingSites |-> 0, activeSites |-> 0]        \* two of the statistics

-----------------------------------------------------------------------------
(* HTTP origins of a site *)

\* Wrong: the origin is not queued while any origin of its site is being fetched.
QueueHttpOriginIdle(d, u) ==
  LET o == OriginOf[u]
      row == d.url[u]
      known == d.origin[o].round = row.round
      due == IF known THEN Later(d.origin[o].due, row.due) ELSE row.due
      others == IF known THEN d.httpReady \ {<<d.origin[o].due, o>>} ELSE d.httpReady
  IN [d EXCEPT !.httpUrls = @ \cup {u},
               !.origin[o] = [round |-> row.round, due |-> due],
               !.httpReady = IF d.httpActive[Site(u)] # None THEN others
                                                             ELSE others \cup {<<due, o>>}]

\* u is pending; its origin is queued unless it is the one being fetched
QueueHttpOrigin(d, u) ==
  LET o == OriginOf[u]
      row == d.url[u]
      known == d.origin[o].round = row.round
      due == IF known THEN Later(d.origin[o].due, row.due) ELSE row.due
      others == IF known THEN d.httpReady \ {<<d.origin[o].due, o>>} ELSE d.httpReady
  IN [d EXCEPT !.httpUrls = @ \cup {u},
               !.origin[o] = [round |-> row.round, due |-> due],
               !.httpReady = IF d.httpActive[Site(u)] = o THEN others
                                                          ELSE others \cup {<<due, o>>}]

Reschedule(d, o, time) ==
  LET due == Later(time, d.retry[o].due)
      others == d.httpReady \ {<<d.origin[o].due, o>>}
  IN IF d.origin[o].round = 0 THEN d
     ELSE [d EXCEPT !.origin[o].due = due,
                    !.httpReady = IF \E u \in d.httpUrls : OriginOf[u] = o
                                  THEN others \cup {<<due, o>>} ELSE others]

HttpOrigins(d, s) == {e \in d.httpReady : SiteOf[e[2]] = s}
FirstOf(entries) == {e \in entries : \A f \in entries : e[1] <= f[1]}
NextDue(d, s, otherwise) ==
  IF HttpOrigins(d, s) = {} THEN otherwise
                            ELSE (CHOOSE e \in FirstOf(HttpOrigins(d, s)) : TRUE)[1]

-----------------------------------------------------------------------------
(* Admission *)

Full(d) == d.pendingSites + d.activeSites >= Capacity
ThisRound(d, s) == d.site[s].state # "absent" /\ d.site[s].round = d.round
Unsettled(d, u) == d.url[u].state \in {"pending", "leased"}
Settled(d, u) == d.url[u].state \in {"committed", "terminal"}
Beginnable(d, u) == d.url[u].state = "pending" /\ d.url[u].round = d.round

\* an unfinished URL of an earlier round aborts the transaction
Refused(d, u, internal, limit, manual) ==
  LET old == d.url[u]
      site == d.site[Site(u)]
  IN \/ old.state # "absent" /\ (old.round = d.round \/ old.reason = "http_410")
     \/ Unsettled(d, u)
     \/ /\ ThisRound(d, Site(u))
        /\ ~internal \/ site.admitted >= limit \/ (site.state = "done" /\ (~manual \/ Full(d)))
     \/ ~ThisRound(d, Site(u)) /\ Full(d)

AdmitCapped(d, u, internal, limit, manual) ==
  LET s == Site(u)
      site == d.site[s]
      old == d.url[u]
      due == Later(IF d.resource[u] = None THEN 0 ELSE d.resource[u], old.due)
      known == ThisRound(d, s)
      opens == ~known \/ site.state = "done"
      opened == IF ~known THEN [round |-> d.round, state |-> "pending", admitted |-> 0,
                                due |-> due]
                ELSE IF site.state = "done"
                     THEN [site EXCEPT !.state = "pending", !.due = Later(@, due)] ELSE site
  IN IF Refused(d, u, internal, limit, manual) THEN d
     ELSE QueueHttpOrigin(
            [d EXCEPT !.site[s] = [opened EXCEPT !.admitted = @ + 1],
                      !.ready = IF opens THEN @ \cup {<<opened.due, s>>} ELSE @,
                      !.pendingSites = IF opens THEN @ + 1 ELSE @,
                      !.url[u] = [AbsentUrl EXCEPT !.round = d.round, !.state = "pending",
                                                   !.due = due],
                      !.eligible = @ \cup {u}], u)

Admit(d, u, internal) == AdmitCapped(d, u, internal, Budget, FALSE)

AdmitSitemap(d, u) ==
  IF d.url[u].state # "absent" \/ Refused(d, u, TRUE, Budget, FALSE) THEN d
  ELSE [Admit(d, u, TRUE) EXCEPT !.url[u].sitemap = TRUE]

\* a candidate leaves the waiting list once it has a row of this round
Candidate(d, u) ==
  LET offered == Admit(d, u, TRUE)
      seen == offered.url[u].state # "absent" /\ offered.url[u].round = d.round
  IN [offered EXCEPT !.waiting = IF seen THEN @ \ {u} ELSE @]

\* one entry of a sitemap or a feed: nothing new for a known candidate
Discovered(d, u) ==
  IF u \in d.candidates THEN d
  ELSE Candidate([d EXCEPT !.candidates = @ \cup {u}, !.waiting = @ \cup {u}], u)

\* one line of the planner's seed file; promotion removes it from the waiting list
Planned(d, u) ==
  IF u \in d.candidates THEN d
  ELSE [Admit(d, u, TRUE) EXCEPT !.candidates = @ \cup {u}, !.waiting = @ \cup {u}]

Promotable(d, u) ==
  u \in d.waiting /\ ~(ThisRound(d, Site(u)) /\ d.site[Site(u)].admitted >= Budget)

-----------------------------------------------------------------------------
(* Operator requests *)

FinishedManual(d) ==
  {u \in d.manual : d.url[u].round # d.round \/ ~Unsettled(d, u)}

\* a request without priority only offers the URL
EnqueueUrl(d, u, priority) ==
  LET tidy == [d EXCEPT !.manual = @ \ FinishedManual(d)]
      offered == AdmitCapped(tidy, u, TRUE, Budget + Reserve, TRUE)
  IN IF priority /\ Beginnable(offered, u) THEN [offered EXCEPT !.manual = @ \cup {u}] ELSE offered

ManualCandidates(d, now) ==
  {u \in d.manual : LET o == OriginOf[u] IN
     /\ Beginnable(d, u) /\ d.url[u].due <= now
     /\ d.site[Site(u)].state = "pending" /\ d.site[Site(u)].due <= now
     /\ d.origin[o].due <= now /\ d.retry[o].due <= now}

-----------------------------------------------------------------------------
(* Turns: claim, lease, capture, resolve *)

\* the site becomes active, with the origin of u
ClaimUrl(d, u, streak) ==
  LET s == Site(u)
      o == OriginOf[u]
  IN [d EXCEPT !.httpReady = @ \ {<<d.origin[o].due, o>>},
               !.httpActive[s] = o,
               !.streak = streak,
               !.ready = @ \ {<<d.site[s].due, s>>},
               !.site[s].state = "active",
               !.active = @ \cup {s},
               !.pendingSites = @ - 1, !.activeSites = @ + 1]

\* n is the fetch id: the one of an earlier attempt, or a new one
BeginUrl(d, u, n) ==
  [d EXCEPT !.url[u].state = "leased", !.url[u].fetch = n,
            !.leases = @ \cup {<<u, n>>},
            !.eligible = @ \ {u}, !.httpUrls = @ \ {u}]

CaptureMatches(d, u, n) == d.url[u].fetch = n /\ Unsettled(d, u)

\* commit_capture and record_resource: the capture, its links, the next visit
CommitCapture(d, u, n, links, recrawl, next) ==
  LET s == Site(u)
      old == d.resource[u]
      settled == [d EXCEPT !.url[u].state = "committed", !.url[u].cont = None,
                           !.leases = @ \ {<<u, n>>},
                           !.eligible = @ \ {u}, !.httpUrls = @ \ {u}]
  IN IF <<u, n>> \in d.commits THEN d
     ELSE [Reschedule(settled, OriginOf[u], d.url[u].due) EXCEPT
             !.commits = @ \cup {<<u, n>>},
             !.outbox = @ \cup {[url |-> u, fetch |-> n, links |-> links]},
             !.resource[u] = next,
             !.recrawls = (@ \ {<<old, u>>}) \cup (IF recrawl THEN {<<next, u>>} ELSE {})]

\* a committed URL whose next visit is due, when its site is not being crawled
Requeued(d, due, u) ==
  LET s == Site(u)
      site == IF d.site[s].round = d.round THEN d.site[s]
              ELSE [d.site[s] EXCEPT !.round = d.round, !.admitted = 0]
      sooner == Sooner(site.due, due)
      reopened == site.state = "done"
      others == IF reopened THEN d.ready ELSE d.ready \ {<<site.due, s>>}
  IN [QueueHttpOrigin(
        [d EXCEPT !.site[s] = [site EXCEPT !.state = "pending", !.due = sooner],
                  !.ready = others \cup {<<sooner, s>>},
                  !.pendingSites = IF reopened THEN @ + 1 ELSE @,
                  !.url[u] = [@ EXCEPT !.round = d.round, !.state = "pending", !.fetch = None,
                                       !.failures = 0, !.reason = "none", !.due = due],
                  !.eligible = @ \cup {u}], u)
      EXCEPT !.recrawls = @ \ {<<due, u>>}]

\* Wrong: a site that is being crawled is queued as well.
RequeueRecrawlAnyway(d, due, u) ==
  IF d.url[u].state # "committed" THEN [d EXCEPT !.recrawls = @ \ {<<due, u>>}]
  ELSE IF d.site[Site(u)].state = "done" /\ Full(d) THEN d
  ELSE Requeued(d, due, u)

\* Wrong: a visit that has to wait is dropped.
RequeueRecrawlOnce(d, due, u) ==
  IF \/ d.url[u].state # "committed"
     \/ d.site[Site(u)].state = "active"
     \/ d.site[Site(u)].state = "done" /\ Full(d) THEN [d EXCEPT !.recrawls = @ \ {<<due, u>>}]
  ELSE Requeued(d, due, u)

RequeueRecrawl(d, due, u) ==
  IF d.url[u].state # "committed" THEN [d EXCEPT !.recrawls = @ \ {<<due, u>>}]
  ELSE IF \/ d.site[Site(u)].state = "active"
          \/ d.site[Site(u)].state = "done" /\ Full(d) THEN d
  ELSE Requeued(d, due, u)

\* OriginState::success
Succeeded(d, o, now) ==
  [d EXCEPT !.retry[o] = [penalty |-> @.penalty \div 2, due |-> After(now, @.penalty \div 2)]]

\* the end of a turn: the site is done, or waits for the first of its origins
CloseTurn(d, s, now, delay) ==
  LET o == d.httpActive[s]
      left == [d EXCEPT !.active = @ \ {s}, !.activeSites = IF @ = 0 THEN 0 ELSE @ - 1,
                        !.httpActive[s] = None]
      next == IF o = None THEN left ELSE Reschedule(left, o, After(now, delay))
      due == NextDue(next, s, After(now, delay))
  IN IF \A u \in d.eligible : Site(u) # s THEN [next EXCEPT !.site[s].state = "done"]
     ELSE [next EXCEPT !.site[s].state = "pending", !.site[s].due = due,
                       !.ready = @ \cup {<<due, s>>}, !.pendingSites = @ + 1]

Unleased(d, u) == [d EXCEPT !.leases = @ \ {<<u, d.url[u].fetch>>}]

Terminated(d, u, reason, due) ==
  LET gone == [Unleased(d, u) EXCEPT !.url[u] = [@ EXCEPT !.state = "terminal", !.cont = None,
                                                          !.reason = reason, !.due = due],
                                     !.eligible = @ \ {u}, !.httpUrls = @ \ {u}]
  IN Reschedule(gone, OriginOf[u], due)

\* Wrong: the row stays leased.
PostponedLeased(d, u, now, delay) ==
  QueueHttpOrigin([Unleased(d, u) EXCEPT !.url[u].due = After(now, delay),
                                         !.eligible = @ \cup {u}], u)

Postponed(d, u, now, delay) ==
  QueueHttpOrigin([Unleased(d, u) EXCEPT !.url[u].state = "pending",
                                         !.url[u].due = After(now, delay),
                                         !.eligible = @ \cup {u}], u)

\* the origin that has to wait may be that of a redirect
Asked(d, u) == IF d.url[u].cont = None THEN OriginOf[u] ELSE d.url[u].cont
FirstWait == Later(MinDelay, RetryDelay)
Penalised(d, o, now) == Later(d.retry[o].due, After(now, FirstWait))

\* the delay that the outcome of the turn asks for: at least the courtesy delay
TurnDelay(d, u, out, target, after, now) ==
  LET settled == Settled(d, u) IN
  CASE settled /\ out = "durable" -> Later(MinDelay, d.retry[target].penalty \div 2)
    [] ~settled /\ out = "transient" -> Later(FirstWait, Penalised(d, Asked(d, u), now) - now)
    [] ~settled /\ out = "wait" -> Later(MinDelay, after)
    [] OTHER -> MinDelay

\* what the outcome does to the origin that answered and to the row of the URL; late: it was
\* first tried max_elapsed_ms ago
ResolveUrl(d, u, out, target, after, late, now) ==
  LET row == d.url[u]
      o == Asked(d, u)
      delay == TurnDelay(d, u, out, target, after, now)
      failed == [d EXCEPT !.retry[o] = [penalty |-> Later(@.penalty, FirstWait),
                                        due |-> Penalised(d, o, now)],
                       !.url[u].failures = @ + 1]
      missing == IF out = "http_404" THEN After(now, NotFoundDelay) ELSE row.due
  IN CASE Settled(d, u) -> IF out = "durable" THEN Succeeded(d, target, now) ELSE d
       [] ~Settled(d, u) /\ out = "transient" ->
            IF row.failures + 1 >= MaxAttempts \/ late THEN Terminated(failed, u, "exhausted", row.due)
            ELSE Postponed(failed, u, now, delay)
       [] ~Settled(d, u) /\ out = "wait" ->
            IF late THEN Terminated(d, u, "exhausted", row.due) ELSE Postponed(d, u, now, delay)
       [] ~Settled(d, u) /\ out = "cancelled" -> Postponed(d, u, now, delay)
       [] OTHER -> Terminated(d, u, out, missing)

-----------------------------------------------------------------------------
(* Start-up *)

\* Wrong: the next attempt gets a new fetch id.
RecoverLeaseAfresh(d, u, n) ==
  LET back == [d EXCEPT !.leases = @ \ {<<u, n>>}]
  IN IF d.url[u].state # "leased" THEN back
     ELSE QueueHttpOrigin([back EXCEPT !.url[u].state = "pending", !.url[u].fetch = None,
                                       !.eligible = @ \cup {u}], u)

RecoverLease(d, u, n) ==
  LET back == [d EXCEPT !.leases = @ \ {<<u, n>>}]
  IN IF d.url[u].state # "leased" THEN back
     ELSE QueueHttpOrigin([back EXCEPT !.url[u].state = "pending", !.eligible = @ \cup {u}], u)

\* Wrong: the site is not counted as pending again.
RecoverJobUncounted(d, s) ==
  LET o == d.httpActive[s]
      site == d.site[s]
      freed == [d EXCEPT !.httpActive[s] = None]
      queued == IF o = None THEN freed ELSE Reschedule(freed, o, site.due)
  IN IF site.state # "active" THEN [d EXCEPT !.active = @ \ {s}]
     ELSE [queued EXCEPT !.site[s].state = "pending", !.ready = @ \cup {<<site.due, s>>},
                         !.active = @ \ {s}, !.activeSites = @ - 1]

RecoverJob(d, s) ==
  LET o == d.httpActive[s]
      site == d.site[s]
      freed == [d EXCEPT !.httpActive[s] = None]
      queued == IF o = None THEN freed ELSE Reschedule(freed, o, site.due)
  IN IF site.state # "active" THEN [d EXCEPT !.active = @ \ {s}]
     ELSE [queued EXCEPT !.site[s].state = "pending", !.ready = @ \cup {<<site.due, s>>},
                         !.active = @ \ {s}, !.activeSites = @ - 1, !.pendingSites = @ + 1]

\* is_empty
IsEmpty(d) == d.pendingSites = 0 /\ d.activeSites = 0 /\ d.outbox = {}
=============================================================================
