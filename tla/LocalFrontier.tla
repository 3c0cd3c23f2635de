--------------------------- MODULE LocalFrontier ---------------------------
(***************************************************************************)
(* The local crawler: one process (crawler/local.rs) with its frontier     *)
(* database, the journal of captures of its spool, and one turn per site   *)
(* at a time (crawler/worker.rs under Mode::FairTurns).  The database and  *)
(* the journal survive a crash; the turns do not.  A claim that finds the  *)
(* tables inconsistent ends the process.                                   *)
(*                                                                         *)
(* web, chosen once, is the part of the world that a run looks at: links,  *)
(* answers of the servers, sitemaps, and how much may go wrong.            *)
(***************************************************************************)
EXTENDS LocalFrontierTables

CONSTANT Webs

\* seeds, plans and links are URLs; a server gives one of five answers, robots.txt one of two
ASSUME WebAssumptions ==
  \A w \in Webs :
    /\ w.seeds \cup w.plan \cup w.requests \subseteq Urls
    /\ w.links \in [Urls -> SUBSET Urls]
    /\ w.sitemap \in [Origins -> Urls \cup {None}] /\ w.redirect \in [Urls -> Origins \cup {None}]
    /\ w.answers \in [Urls -> SUBSET {"page", "http_404", "http_410", "failed", "transient"}]
    /\ w.robots \subseteq {"wait", "robots_disallowed"}
    /\ w.late \in BOOLEAN /\ w.until \in 0 .. MaxTime

VARIABLES
  web,
  db,        \* the frontier database: durable
  issued,    \* issued[u]: fetch ids made for u
  journal,   \* receipts of the spool: durable
  phase,     \* what the process is doing
  todo,      \* URLs of a list that is being admitted: seeds or plan
  turns,     \* turns[s]: the job of site s: volatile
  asked,     \* URLs that the operator has requested
  now,
  faults     \* crashes and shutdowns so far

vars == <<web, db, issued, journal, phase, todo, turns, asked, now, faults>>

Idle == [pc |-> "idle", url |-> None, from |-> None, out |-> "none",
         after |-> 0, todo |-> {}]

Init ==
  /\ web \in Webs
  /\ db = EmptyDatabase
  /\ issued = [u \in Urls |-> 0]
  /\ journal = {} /\ todo = {} /\ asked = {}
  /\ phase = "leases"
  /\ turns = [s \in Sites |-> Idle]
  /\ now = 0 /\ faults = 0

Store(d) == db' = d

-----------------------------------------------------------------------------
(* Start-up: Frontier::open, run *)

Go(next) == phase' = next /\ UNCHANGED <<web, issued, journal, turns, asked, now, faults>>

RecoverLeases ==
  /\ phase = "leases"
  /\ \/ /\ \E l \in db.leases : Store(RecoverLease(db, l[1], l[2]))
        /\ Go("leases")
     \/ db.leases = {} /\ Go("jobs") /\ UNCHANGED db
  /\ UNCHANGED todo

RecoverJobs ==
  /\ phase = "jobs"
  /\ \/ /\ \E s \in db.active : Store(RecoverJob(db, s))
        /\ Go("jobs")
     \/ db.active = {} /\ Go("outbox") /\ UNCHANGED db
  /\ UNCHANGED todo

\* Wrong: the entry leaves the outbox with its first link.
DrainOutboxFirst ==
  \E entry \in db.outbox :
    IF entry.links = {} THEN Store([db EXCEPT !.outbox = @ \ {entry}])
    ELSE \E u \in entry.links :
           Store([Admit(db, u, Site(u) = Site(entry.url)) EXCEPT !.outbox = @ \ {entry}])

\* one link of one entry; an entry without links leaves the outbox
DrainOutbox ==
  \E entry \in db.outbox :
    IF entry.links = {} THEN Store([db EXCEPT !.outbox = @ \ {entry}])
    ELSE \E u \in entry.links :
           Store([Admit(db, u, Site(u) = Site(entry.url)) EXCEPT
                    !.outbox = (@ \ {entry}) \cup {[entry EXCEPT !.links = @ \ {u}]}])

RecoverOutbox ==
  /\ phase = "outbox"
  /\ \/ DrainOutbox /\ Go("outbox") /\ UNCHANGED todo
     \/ db.outbox = {} /\ Go("seeds") /\ todo' = web.seeds /\ UNCHANGED db

DiscoverSeeds ==
  /\ phase = "seeds"
  /\ \/ \E u \in todo : Store(Admit(db, u, FALSE)) /\ todo' = todo \ {u} /\ Go("seeds")
     \/ todo = {} /\ Go("plan") /\ todo' = web.plan /\ UNCHANGED db

ImportPlan ==
  /\ phase = "plan"
  /\ \/ \E u \in todo : Store(Planned(db, u)) /\ todo' = todo \ {u} /\ Go("plan")
     \/ todo = {} /\ Go("spool") /\ UNCHANGED <<db, todo>>

Uncommitted == {c \in journal : <<c.url, c.fetch>> \notin db.commits}

\* Wrong: only the outbox is completed.
ReconcileOutbox ==
  /\ phase = "spool"
  /\ \/ DrainOutbox /\ Go("spool")
     \/ db.outbox = {} /\ Go("run") /\ UNCHANGED db
  /\ UNCHANGED todo

\* every receipt of the journal, then the outbox; a receipt that does not match ends the start
ReconcileSpool ==
  /\ phase = "spool"
  /\ \/ \E c \in Uncommitted, i \in Intervals :
          /\ CaptureMatches(db, c.url, c.fetch)
          /\ Store(CommitCapture(db, c.url, c.fetch, c.links, web.recrawl, After(now, i)))
          /\ Go("spool")
     \/ Uncommitted = {} /\ DrainOutbox /\ Go("spool")
     \/ Uncommitted = {} /\ db.outbox = {} /\ Go("run") /\ UNCHANGED db
  /\ UNCHANGED todo

Startup == RecoverLeases \/ RecoverJobs \/ RecoverOutbox \/ DiscoverSeeds \/ ImportPlan \/ ReconcileSpool

-----------------------------------------------------------------------------
(* The control loop; it does one thing at a time *)

Control == phase = "run" /\ todo = {}
KeepProcess == UNCHANGED <<web, issued, journal, phase, turns, now, faults>>

EnqueueUrls ==
  /\ Control
  /\ \E u \in web.requests \ asked, priority \in BOOLEAN :
       Store(EnqueueUrl(db, u, priority)) /\ asked' = asked \cup {u}
  /\ KeepProcess /\ UNCHANGED todo

RequeueRecrawls ==
  /\ Control
  /\ \E e \in db.recrawls : e[1] <= now /\ Store(RequeueRecrawl(db, e[1], e[2])) /\ db' # db
  /\ KeepProcess /\ UNCHANGED <<todo, asked>>

RestartRound ==
  /\ Control
  /\ IsEmpty(db) /\ db.round < web.rounds
  /\ Store([db EXCEPT !.round = @ + 1])
  /\ todo' = web.seeds
  /\ KeepProcess /\ UNCHANGED asked

DiscoverSeed ==
  /\ phase = "run"
  /\ \E u \in todo : Store(Admit(db, u, FALSE)) /\ todo' = todo \ {u}
  /\ KeepProcess /\ UNCHANGED asked

PromoteCandidates ==
  /\ Control
  /\ \E u \in Urls : Promotable(db, u) /\ Store(Candidate(db, u)) /\ db' # db
  /\ KeepProcess /\ UNCHANGED <<todo, asked>>

Eligible == \E e \in db.ready : e[1] <= now
Preferred == IF db.streak < 3 THEN ManualCandidates(db, now) ELSE {}
Tidy == IF db.streak < 3 THEN [db EXCEPT !.manual = @ \ FinishedManual(db)] ELSE db

Take(u, streak) ==
  /\ Store(ClaimUrl(Tidy, u, streak))
  /\ turns' = [turns EXCEPT ![Site(u)] = [Idle EXCEPT !.pc = "claimed", !.url = u]]

Claim ==
  /\ Control /\ Eligible
  /\ \/ \E u \in Preferred : Take(u, db.streak + 1)
     \/ /\ Preferred = {}
        /\ \E e \in FirstOf(db.ready) : \E h \in FirstOf(HttpOrigins(db, e[2])) :
             /\ h[1] <= now
             /\ \E u \in db.httpUrls : OriginOf[u] = h[2] /\ Beginnable(db, u) /\ Take(u, 0)
  /\ UNCHANGED <<web, issued, journal, phase, todo, asked, now, faults>>

Stop == phase' = "leases" /\ todo' = {} /\ turns' = [s \in Sites |-> Idle]

\* "ready site has no queued HTTP origin", "site eligibility precedes its HTTP origins"
NothingToClaim(s) == \A h \in HttpOrigins(db, s) : h[1] > now

ClaimFails ==
  /\ Control /\ Eligible /\ Preferred = {}
  /\ \E e \in FirstOf(db.ready) : NothingToClaim(e[2])
  /\ Stop
  /\ UNCHANGED <<web, db, issued, journal, asked, now, faults>>

-----------------------------------------------------------------------------
(* A turn: JobExecutor::run with one URL *)

KeepRest == UNCHANGED <<web, phase, todo, asked, now, faults>>
Turn(s, pc) == turns[s].pc = pc
Next_(s, pc) == turns' = [turns EXCEPT ![s].pc = pc]
End(s, out) == turns' = [turns EXCEPT ![s] = [@ EXCEPT !.pc = "resolve", !.out = out]]
Defer(s, after) == turns' = [turns EXCEPT ![s] = [@ EXCEPT !.pc = "resolve", !.out = "wait", !.after = after]]
Target(u) == Asked(db, u)

\* the sitemaps that robots.txt names, whatever their site
AdmitSitemaps(s) ==
  /\ Turn(s, "claimed")
  /\ LET u == web.sitemap[Target(turns[s].url)] IN Store(IF u = None THEN db ELSE AdmitSitemap(db, u))
  /\ Next_(s, "verify") /\ UNCHANGED <<issued, journal>> /\ KeepRest

\* robots.txt refuses the page, or its redirect, or asks to come back
StopEarly(s) ==
  /\ Turn(s, "verify") \/ Turn(s, "leased")
  /\ \E out \in web.robots : End(s, out)
  /\ UNCHANGED <<db, issued, journal>> /\ KeepRest

BeginTurn(s) ==
  LET u == turns[s].url
      old == db.url[u].fetch
      n == IF old = None THEN issued[u] + 1 ELSE old
  IN /\ Turn(s, "verify")
     /\ IF Beginnable(db, u)
        THEN /\ Store(BeginUrl(db, u, n))
             /\ issued' = IF old = None THEN [issued EXCEPT ![u] = n] ELSE issued
             /\ Next_(s, "leased")
        ELSE End(s, "skipped") /\ UNCHANGED <<db, issued>>
     /\ UNCHANGED journal /\ KeepRest

\* the time for retries, max_elapsed_ms, may be over
Expired == {FALSE, web.late}

\* the origin that is asked may have to wait: that of the URL, or of its redirect
AuthorizeRequest(s) ==
  LET due == db.retry[Target(turns[s].url)].due IN
  /\ Turn(s, "leased")
  /\ \/ due > now /\ Defer(s, due - now)
     \/ due <= now /\ \E late \in Expired : IF late THEN End(s, "exhausted") ELSE Next_(s, "wire")
  /\ UNCHANGED <<db, issued, journal>> /\ KeepRest

Page(s) ==
  /\ Turn(s, "wire")
  /\ "page" \in web.answers[turns[s].url]
  /\ LET u == turns[s].url IN
       turns' = [turns EXCEPT ![s].pc = IF db.url[u].sitemap THEN "ingest" ELSE "append",
                              ![s].from = Target(u)]
  /\ UNCHANGED <<db, issued, journal>> /\ KeepRest

Redirect(s) ==
  LET u == turns[s].url IN
  /\ Turn(s, "wire") /\ web.redirect[u] # None
  /\ IF db.url[u].cont = None
     THEN Store([db EXCEPT !.url[u].cont = web.redirect[u]]) /\ Next_(s, "leased")
     ELSE End(s, "redirect_cycle") /\ UNCHANGED db
  /\ UNCHANGED <<issued, journal>> /\ KeepRest

\* 404, 410, another failure, or one to try again
NoPage(s) ==
  /\ Turn(s, "wire")
  /\ \E out \in web.answers[turns[s].url] \ {"page"} : End(s, out)
  /\ UNCHANGED <<db, issued, journal>> /\ KeepRest

Cancelled(s) ==
  /\ phase = "stopping" /\ turns[s].pc \in {"claimed", "verify", "leased", "wire"}
  /\ End(s, "cancelled")
  /\ UNCHANGED <<db, issued, journal>> /\ KeepRest

-----------------------------------------------------------------------------
(* The storage stage: the journal, then the frontier, one capture at a time *)

Capture(s) == LET u == turns[s].url IN [url |-> u, fetch |-> db.url[u].fetch, links |-> web.links[u]]

Append_(s) ==
  /\ Turn(s, "append")
  /\ journal' = journal \cup {Capture(s)}
  /\ Next_(s, "commit") /\ UNCHANGED <<db, issued>> /\ KeepRest

Commit(s) ==
  LET c == Capture(s) IN
  /\ Turn(s, "commit") /\ \A other \in Sites : ~Turn(other, "drain")
  /\ CaptureMatches(db, c.url, c.fetch)
  /\ \E i \in Intervals :
       Store(CommitCapture(db, c.url, c.fetch, c.links, web.recrawl, After(now, i)))
  /\ Next_(s, "drain") /\ UNCHANGED <<issued, journal>> /\ KeepRest

Drain(s) ==
  /\ Turn(s, "drain")
  /\ \/ DrainOutbox /\ UNCHANGED turns
     \/ db.outbox = {} /\ End(s, "durable") /\ UNCHANGED db
  /\ UNCHANGED <<issued, journal>> /\ KeepRest

-----------------------------------------------------------------------------
(* The parse stage: a sitemap is marked as processed, then its entries follow *)

IngestSitemap(s) ==
  LET u == turns[s].url IN
  /\ Turn(s, "ingest")
  /\ IF u \in db.documents THEN End(s, "sitemap_discovery_durable") /\ UNCHANGED db
     ELSE /\ Store([db EXCEPT !.documents = @ \cup {u}])
          /\ turns' = [turns EXCEPT ![s] = [@ EXCEPT !.pc = "entries", !.todo = web.links[u]]]
  /\ UNCHANGED <<issued, journal>> /\ KeepRest

DiscoveryBatch(s) ==
  /\ Turn(s, "entries")
  /\ \/ \E u \in turns[s].todo : /\ Store(Discovered(db, u))
                                 /\ turns' = [turns EXCEPT ![s].todo = @ \ {u}]
     \/ turns[s].todo = {} /\ End(s, "sitemap_discovery_durable") /\ UNCHANGED db
  /\ UNCHANGED <<issued, journal>> /\ KeepRest

\* d is the database with the outcome of the URL; the end of the turn follows in the same transaction
Resolve(s) ==
  LET t == turns[s] IN
  /\ Turn(s, "resolve") /\ todo = {}
  /\ \E d \in {ResolveUrl(db, t.url, t.out, t.from, t.after, late, now) : late \in Expired} :
       Store(CloseTurn(d, s, now, TurnDelay(db, t.url, t.out, t.from, t.after, now)))
  /\ turns' = [turns EXCEPT ![s] = Idle]
  /\ UNCHANGED <<issued, journal>> /\ KeepRest

TurnStep(s) ==
  \/ AdmitSitemaps(s) \/ StopEarly(s) \/ BeginTurn(s) \/ AuthorizeRequest(s)
  \/ Page(s) \/ Redirect(s) \/ NoPage(s) \/ Cancelled(s)
  \/ Append_(s) \/ Commit(s) \/ Drain(s) \/ IngestSitemap(s) \/ DiscoveryBatch(s) \/ Resolve(s)

-----------------------------------------------------------------------------
Crash ==
  /\ faults < web.faults /\ faults' = faults + 1
  /\ Stop /\ UNCHANGED <<web, db, issued, journal, asked, now>>

Shutdown ==
  /\ phase = "run" /\ web.shutdown /\ faults < web.faults /\ faults' = faults + 1
  /\ phase' = "stopping"
  /\ UNCHANGED <<web, db, issued, journal, todo, turns, asked, now>>

Exit ==
  /\ phase = "stopping" /\ \A s \in Sites : turns[s] = Idle
  /\ Stop /\ UNCHANGED <<web, db, issued, journal, asked, now, faults>>

\* a start takes no time: a long stop is a tick before it
Tick == phase = "run" /\ todo = {} /\ now < web.until /\ now' = now + 1
        /\ UNCHANGED <<web, db, issued, journal, phase, todo, turns, asked, faults>>

\* what the process does by itself
Work ==
  \/ Startup \/ RestartRound \/ DiscoverSeed \/ PromoteCandidates
  \/ Claim \/ ClaimFails \/ (\E s \in Sites : TurnStep(s)) \/ Exit

Next == Work \/ EnqueueUrls \/ RequeueRecrawls \/ Crash \/ Shutdown \/ Tick

\* the process does not sleep while it has something to do, and time passes
Fairness == WF_vars(Work) /\ SF_vars(Tick)

Spec == Init /\ [][Next]_vars /\ Fairness
-----------------------------------------------------------------------------
(* Properties *)

Phases == {"leases", "jobs", "outbox", "seeds", "plan", "spool", "run", "stopping"}
Steps == {"idle", "claimed", "verify", "leased", "wire", "append", "commit", "drain",
          "ingest", "entries", "resolve"}
Reasons == {"none", "exhausted", "skipped", "http_404", "http_410", "failed", "redirect_cycle",
            "robots_disallowed", "sitemap_discovery_durable", "durable"}
Outs == Reasons \cup {"wait", "transient", "cancelled"}
Times == 0 .. Far

UrlRows == [round : Nat, state : {"absent", "pending", "leased", "committed", "terminal"},
            fetch : Nat \cup {None}, due : Times, failures : 0 .. MaxAttempts,
            reason : Reasons, cont : Origins \cup {None}, sitemap : BOOLEAN]
SiteRows == [round : Nat, state : {"absent", "pending", "active", "done"}, admitted : Nat, due : Times]

\* Every table has the keys and values that its rows allow.
TypeOK ==
  /\ db.url \in [Urls -> UrlRows] /\ db.site \in [Sites -> SiteRows]
  /\ db.origin \in [Origins -> [round : Nat, due : Times]]
  /\ db.retry \in [Origins -> [penalty : Nat, due : Times]]
  /\ db.eligible \subseteq Urls /\ db.httpUrls \subseteq Urls
  /\ db.httpReady \subseteq Times \X Origins /\ db.ready \subseteq Times \X Sites
  /\ db.httpActive \in [Sites -> Origins \cup {None}] /\ db.active \subseteq Sites
  /\ db.leases \subseteq Urls \X Nat /\ db.commits \subseteq Urls \X Nat
  /\ db.recrawls \subseteq Times \X Urls /\ db.resource \in [Urls -> Times \cup {None}]
  /\ db.candidates \subseteq Urls /\ db.waiting \subseteq db.candidates
  /\ db.streak \in 0 .. 3 /\ db.pendingSites \in Nat /\ db.activeSites \in Nat
  /\ phase \in Phases /\ todo \subseteq Urls
  /\ \A s \in Sites : turns[s].pc \in Steps /\ turns[s].out \in Outs

Recovered == phase \notin {"leases", "jobs"}

\* No URL is forgotten: once leases and jobs are recovered, a pending URL is in both
\* URL indexes, and its origin and its site are either queued or being crawled.
NoneStranded ==
  Recovered => \A u \in Urls : db.url[u].state = "pending" =>
    LET s == Site(u)
        o == OriginOf[u]
    IN /\ u \in db.eligible /\ u \in db.httpUrls
       /\ s \in db.active \/ <<db.site[s].due, s>> \in db.ready
       /\ db.httpActive[s] = o \/ <<db.origin[o].due, o>> \in db.httpReady

\* A site is queued once or crawled once, never both: two turns of one site never overlap,
\* through crashes, recrawls, operator requests and new rounds.
SitesQueuedOnce ==
  \A s \in Sites :
    /\ {e \in db.ready : e[2] = s} = IF db.site[s].state = "pending" THEN {<<db.site[s].due, s>>} ELSE {}
    /\ s \in db.active <=> db.site[s].state = "active"
    /\ turns[s] # Idle => s \in db.active

\* is_empty, which lets a round end, reads counters: they match the tables, and an empty
\* frontier has no unfinished URL; no unfinished URL belongs to an earlier round, on which
\* every later admission of it would fail.
EmptyMeansFinished ==
  /\ db.pendingSites = Cardinality(db.ready) /\ db.activeSites = Cardinality(db.active)
  /\ \A u \in Urls : Unsettled(db, u) => ~IsEmpty(db) /\ db.url[u].round = db.round

\* commit_capture and reconcile_spool never fail: a capture in the journal that the frontier
\* has not committed still matches the row of its URL, whatever crashes came between.
CapturesMatch == \A c \in Uncommitted : CaptureMatches(db, c.url, c.fetch)

\* A page whose capture is durable is not requested again under the same fetch id.
NoSecondFetch ==
  \A s \in Sites : turns[s].pc \in {"leased", "wire"} =>
    \A c \in journal : ~(c.url = turns[s].url /\ c.fetch = db.url[turns[s].url].fetch)

\* The links of a page to its own site are admitted with the page, once the page has left
\* the outbox, unless the site has used its budget.
LinksFollowPage ==
  \A u \in Urls :
    /\ phase = "run" /\ db.url[u].state = "committed" /\ db.url[u].round = db.round
    /\ \A entry \in db.outbox : entry.url # u
    => \A v \in web.links[u] : Site(v) = Site(u) =>
         \/ db.url[v].round = db.round \/ db.url[v].reason = "http_410"
         \/ db.site[Site(u)].admitted >= Budget

\* A captured page keeps its next visit in the recrawl index until it is queued for it.
RevisitsScheduled ==
  web.recrawl => \A u \in Urls : db.url[u].state = "committed" => <<db.resource[u], u>> \in db.recrawls

\* A claim finds work: the first site that is due has a queued origin that is due, as the two
\* assertions of claim_limited_at state.
ClaimsFindWork ==
  (Control /\ Eligible /\ Preferred = {}) => \A e \in FirstOf(db.ready) : ~NothingToClaim(e[2])

\* No URL is left behind: without a fault, the crawl settles every URL that it has admitted,
\* or waits for a time past the bound on the clock.
Waits(u) == \E due \in {db.url[u].due, db.site[Site(u)].due, db.origin[OriginOf[u]].due,
                        db.retry[Target(u)].due} : due > web.until
EveryUrlSettles ==
  (\E u \in Urls : Unsettled(db, u))
    ~> (faults > 0 \/ \A u \in Urls : Unsettled(db, u) => Waits(u))
=============================================================================
