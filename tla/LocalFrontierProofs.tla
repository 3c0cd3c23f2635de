------------------------ MODULE LocalFrontierProofs ------------------------
(***************************************************************************)
(* Proofs about LocalFrontier, for any sites, origins, URLs, worlds and    *)
(* limits, and any number of crashes.                                      *)
(*                                                                         *)
(* A transaction is an operator from database to database.  The first two  *)
(* thirds of the module are about those operators, without a behaviour:    *)
(*   Sound      the tables, indexes and counters of a database agree;      *)
(*   LinksOK    the links of a captured page wait or have been offered;    *)
(*   VisitsOK   a captured page is in the recrawl index.                   *)
(* Most of them also leave alone what a turn or a capture may be about     *)
(* (Steady), which together is Preserves; those that a turn runs itself    *)
(* (Begin, Commit, Resolve, Recover) are described one by one.             *)
(*                                                                         *)
(* The last third is about the process: what a turn holds (TurnsOK,        *)
(* LeasedOK), what the journal holds (JournalOK, CaptureHeld) and what the *)
(* outbox holds (OutboxHeld).  IInv is all of it.                          *)
(***************************************************************************)
EXTENDS LocalFrontier, FiniteSetTheorems, WellFoundedInduction, TLAPS

Entries == [url : Urls, fetch : Nat, links : SUBSET Urls]
OriginRows == [round : Nat, due : Times]
RetryRows == [penalty : Nat, due : Times]

Tables ==
  {"round", "url", "site", "origin", "retry", "eligible", "httpUrls", "httpReady", "httpActive",
   "ready", "active", "leases", "commits", "outbox", "candidates", "waiting", "documents",
   "resource", "recrawls", "manual", "streak", "pendingSites", "activeSites"}

(* What the tables hold, whatever their counters. *)
TablesOK(d) ==
  /\ DOMAIN d = Tables
  /\ d.round \in Nat \ {0} /\ d.url \in [Urls -> UrlRows] /\ d.site \in [Sites -> SiteRows]
  /\ d.origin \in [Origins -> OriginRows] /\ d.retry \in [Origins -> RetryRows]
  /\ d.eligible \subseteq Urls /\ d.httpUrls \subseteq Urls
  /\ d.httpReady \subseteq Times \X Origins /\ d.httpActive \in [Sites -> Origins \cup {None}]
  /\ d.ready \subseteq Times \X Sites /\ d.active \subseteq Sites
  /\ d.leases \subseteq Urls \X Nat /\ d.commits \subseteq Urls \X Nat /\ d.outbox \subseteq Entries
  /\ d.candidates \subseteq Urls /\ d.waiting \subseteq d.candidates /\ d.documents \subseteq Urls
  /\ d.resource \in [Urls -> Times \cup {None}] /\ d.recrawls \subseteq Times \X Urls
  /\ d.manual \subseteq Urls /\ d.streak \in 0 .. 3
  /\ d.pendingSites \in Int /\ d.activeSites \in Int

-----------------------------------------------------------------------------
(* Operators of the tables *)

LEMMA Places ==
  ASSUME NEW u \in Urls
  PROVE  OriginOf[u] \in Origins /\ Site(u) \in Sites /\ OriginOf[u] # None
BY TableAssumptions DEF Site

LEMMA Clock ==
  /\ Far \in Nat /\ 0 \in Times /\ Times \subseteq Nat
  /\ \A s, t \in Times : Later(s, t) \in Times /\ Sooner(s, t) \in Times
  /\ \A s, t \in Nat : Later(s, t) \in Nat /\ After(s, t) \in Times
BY TableAssumptions DEF Far, Times, Later, Sooner, After

(* A row with one field changed. *)
LEMMA UrlRow ==
  ASSUME NEW r \in UrlRows
  PROVE  /\ \A n \in Nat : [r EXCEPT !.round = n] \in UrlRows
         /\ \A x \in {"absent", "pending", "leased", "committed", "terminal"} :
              [r EXCEPT !.state = x] \in UrlRows
         /\ \A n \in Nat \cup {None} : [r EXCEPT !.fetch = n] \in UrlRows
         /\ \A t \in Times : [r EXCEPT !.due = t] \in UrlRows
         /\ \A n \in 0 .. MaxAttempts : [r EXCEPT !.failures = n] \in UrlRows
         /\ \A x \in Reasons : [r EXCEPT !.reason = x] \in UrlRows
         /\ \A o \in Origins \cup {None} : [r EXCEPT !.cont = o] \in UrlRows
         /\ \A b \in BOOLEAN : [r EXCEPT !.sitemap = b] \in UrlRows
BY DEF UrlRows

LEMMA SiteRow ==
  ASSUME NEW r \in SiteRows
  PROVE  /\ \A n \in Nat : [r EXCEPT !.round = n] \in SiteRows
         /\ \A x \in {"absent", "pending", "active", "done"} : [r EXCEPT !.state = x] \in SiteRows
         /\ \A n \in Nat : [r EXCEPT !.admitted = n] \in SiteRows
         /\ \A t \in Times : [r EXCEPT !.due = t] \in SiteRows
BY DEF SiteRows

(* All tables but the three of the HTTP origins. *)
SameButOrigins(d, e) ==
  /\ e.round = d.round /\ e.url = d.url /\ e.site = d.site /\ e.retry = d.retry
  /\ e.eligible = d.eligible /\ e.httpActive = d.httpActive
  /\ e.ready = d.ready /\ e.active = d.active
  /\ e.leases = d.leases /\ e.commits = d.commits /\ e.outbox = d.outbox
  /\ e.candidates = d.candidates /\ e.waiting = d.waiting /\ e.documents = d.documents
  /\ e.resource = d.resource /\ e.recrawls = d.recrawls
  /\ e.manual = d.manual /\ e.streak = d.streak
  /\ e.pendingSites = d.pendingSites /\ e.activeSites = d.activeSites

(* The other origins keep their rows and their places in the queue. *)
OthersKept(d, e, o) ==
  /\ \A p \in Origins : p # o => e.origin[p] = d.origin[p]
  /\ \A x \in d.httpReady : x[2] # o => x \in e.httpReady

LEMMA QueueOrigin ==
  ASSUME NEW d, TablesOK(d), NEW u \in Urls, NEW e, e = QueueHttpOrigin(d, u)
  PROVE  /\ TablesOK(e)
         /\ SameButOrigins(d, e)
         /\ OthersKept(d, e, OriginOf[u])
         /\ e.httpUrls = d.httpUrls \cup {u}
         /\ e.origin[OriginOf[u]].round = d.url[u].round
         /\ \/ e.httpActive[Site(u)] = OriginOf[u]
            \/ <<e.origin[OriginOf[u]].due, OriginOf[u]>> \in e.httpReady
<1> DEFINE o == OriginOf[u]
           row == d.url[u]
           due == IF d.origin[o].round = row.round THEN Later(d.origin[o].due, row.due) ELSE row.due
<1>1. o \in Origins /\ Site(u) \in Sites
  BY Places
<1>2. d.url \in [Urls -> UrlRows] /\ d.origin \in [Origins -> OriginRows]
  BY DEF TablesOK, Tables
<1>3. row.due \in Times /\ row.round \in Nat /\ d.origin[o].due \in Times /\ d.origin[o] \in OriginRows
  BY <1>1, <1>2 DEF UrlRows, OriginRows
<1>4. due \in Times
  BY <1>3, Clock
<1>5. [round |-> row.round, due |-> due] \in OriginRows
  BY <1>3, <1>4 DEF OriginRows
<1>6. PICK others \in SUBSET d.httpReady :
        /\ \A x \in d.httpReady : x[2] # o => x \in others
        /\ e = [d EXCEPT !.httpUrls = @ \cup {u},
                         !.origin[o] = [round |-> row.round, due |-> due],
                         !.httpReady = IF d.httpActive[Site(u)] = o THEN others
                                                                    ELSE others \cup {<<due, o>>}]
  <2> DEFINE rest == IF d.origin[o].round = row.round THEN d.httpReady \ {<<d.origin[o].due, o>>}
                                                     ELSE d.httpReady
  <2> WITNESS rest \in SUBSET d.httpReady
  <2> QED BY DEF QueueHttpOrigin
<1> HIDE DEF due, row
<1>7. SameButOrigins(d, e)
  BY <1>6 DEF SameButOrigins, TablesOK, Tables
<1>8. e.httpUrls = d.httpUrls \cup {u}
  BY <1>6 DEF TablesOK, Tables
<1>9. e.origin = [d.origin EXCEPT ![o] = [round |-> row.round, due |-> due]]
  BY <1>6 DEF TablesOK, Tables
<1>10. e.httpReady = IF d.httpActive[Site(u)] = o THEN others ELSE others \cup {<<due, o>>}
  BY <1>6 DEF TablesOK, Tables
<1>11. TablesOK(e)
  <2>1. e.origin \in [Origins -> OriginRows]
    BY <1>9, <1>5, <1>2
  <2>2. e.httpReady \subseteq Times \X Origins
    BY <1>10, <1>6, <1>4, <1>1 DEF TablesOK
  <2>3. DOMAIN e = Tables
    BY <1>6 DEF TablesOK
  <2> QED BY <1>7, <1>8, <2>1, <2>2, <2>3 DEF SameButOrigins, TablesOK
<1>12. OthersKept(d, e, o)
  BY <1>6, <1>9, <1>10, <1>2 DEF OthersKept
<1>13. e.origin[o].round = row.round /\ e.origin[o].due = due
  BY <1>9, <1>1, <1>2
<1>14. e.httpActive[Site(u)] = o \/ <<e.origin[o].due, o>> \in e.httpReady
  BY <1>7, <1>10, <1>13 DEF SameButOrigins
<1> QED BY <1>7, <1>8, <1>11, <1>12, <1>13, <1>14 DEF row

LEMMA Rescheduling ==
  ASSUME NEW d, TablesOK(d), NEW o \in Origins, NEW time \in Times,
         NEW e, e = Reschedule(d, o, time)
  PROVE  /\ TablesOK(e)
         /\ SameButOrigins(d, e)
         /\ OthersKept(d, e, o)
         /\ e.httpUrls = d.httpUrls
         /\ e.origin[o].round = d.origin[o].round
         /\ d.origin[o].round # 0 /\ (\E u \in d.httpUrls : OriginOf[u] = o)
            => <<e.origin[o].due, o>> \in e.httpReady
<1> DEFINE due == Later(time, d.retry[o].due)
<1>1. d.origin \in [Origins -> OriginRows] /\ d.retry \in [Origins -> RetryRows] /\ DOMAIN d = Tables
  BY DEF TablesOK
<1>2. d.origin[o] \in OriginRows /\ due \in Times
  BY <1>1, Clock DEF RetryRows
<1>3. CASE d.origin[o].round = 0
  BY <1>3, <1>1 DEF Reschedule, SameButOrigins, OthersKept
<1>4. CASE d.origin[o].round # 0
  <2>1. PICK others \in SUBSET d.httpReady :
          /\ \A x \in d.httpReady : x[2] # o => x \in others
          /\ e = [d EXCEPT !.origin[o].due = due,
                           !.httpReady = IF \E u \in d.httpUrls : OriginOf[u] = o
                                         THEN others \cup {<<due, o>>} ELSE others]
    <3> WITNESS d.httpReady \ {<<d.origin[o].due, o>>} \in SUBSET d.httpReady
    <3> QED BY <1>4 DEF Reschedule
  <2> HIDE DEF due
  <2>2. SameButOrigins(d, e) /\ e.httpUrls = d.httpUrls /\ DOMAIN e = Tables
    BY <2>1, <1>1 DEF SameButOrigins, Tables
  <2>3. e.origin = [d.origin EXCEPT ![o].due = due]
    BY <2>1, <1>1 DEF Tables
  <2>4. e.httpReady = IF \E u \in d.httpUrls : OriginOf[u] = o
                      THEN others \cup {<<due, o>>} ELSE others
    BY <2>1, <1>1 DEF Tables
  <2>5. e.origin \in [Origins -> OriginRows] /\ e.origin[o].round = d.origin[o].round /\ e.origin[o].due = due
    BY <2>3, <1>1, <1>2 DEF OriginRows
  <2>6. e.httpReady \subseteq Times \X Origins
    BY <2>4, <2>1, <1>2 DEF TablesOK
  <2>7. TablesOK(e)
    BY <2>2, <2>5, <2>6 DEF SameButOrigins, TablesOK
  <2>8. OthersKept(d, e, o)
    BY <2>1, <2>3, <2>4, <1>1 DEF OthersKept
  <2> QED BY <2>2, <2>4, <2>5, <2>7, <2>8
<1> QED BY <1>3, <1>4

LEMMA Smallest ==
  ASSUME NEW T, T \subseteq Nat, T # {}
  PROVE  \E x \in T : \A y \in T : x <= y
<1>1. PICK x \in T : \A y \in T : ~ (<<y, x>> \in OpToRel(<, Nat))
  BY NatLessThanWellFounded, WFMin
<1>2. \A y \in T : ~ (y < x)
  BY <1>1 DEF OpToRel
<1> QED BY <1>2

LEMMA FirstDue ==
  ASSUME NEW d, TablesOK(d), NEW s, NEW otherwise \in Times
  PROVE  NextDue(d, s, otherwise) \in Times
<1>1. CASE HttpOrigins(d, s) = {}
  BY <1>1 DEF NextDue
<1>2. CASE HttpOrigins(d, s) # {}
  <2>1. HttpOrigins(d, s) \subseteq Times \X Origins
    BY DEF HttpOrigins, TablesOK
  <2> DEFINE T == {e[1] : e \in HttpOrigins(d, s)}
  <2>2. T \subseteq Nat /\ T # {}
    <3>1. \A e \in HttpOrigins(d, s) : e[1] \in Nat
      BY <2>1, Clock
    <3> QED BY <3>1, <1>2
  <2>3. PICK x \in T : \A y \in T : x <= y
    BY <2>2, Smallest
  <2>4. FirstOf(HttpOrigins(d, s)) # {}
    BY <2>3 DEF FirstOf
  <2>5. (CHOOSE e \in FirstOf(HttpOrigins(d, s)) : TRUE) \in FirstOf(HttpOrigins(d, s))
    BY <2>4
  <2> QED BY <2>1, <2>5, <1>2 DEF NextDue, FirstOf
<1> QED BY <1>1, <1>2

(* The site of an admitted URL, before the URL counts. *)
Opens(d, s) == ~ThisRound(d, s) \/ d.site[s].state = "done"
OpenedSite(d, u, due) ==
  LET s == Site(u) IN
  IF ~ThisRound(d, s) THEN [round |-> d.round, state |-> "pending", admitted |-> 0, due |-> due]
  ELSE IF d.site[s].state = "done"
       THEN [d.site[s] EXCEPT !.state = "pending", !.due = Later(d.site[s].due, due)] ELSE d.site[s]

(* u enters the frontier; its site does too, unless it is in it. *)
Enters(d, e, u) ==
  LET s == Site(u) IN
  /\ e.url[u].round = d.round /\ e.url[u].state = "pending" /\ e.url[u].fetch = None
  /\ e.url[u].failures = 0 /\ e.url[u].reason = "none"
  /\ \A v \in Urls : v # u => e.url[v] = d.url[v]
  /\ e.site[s].round = d.round
  /\ e.site[s].state = IF Opens(d, s) THEN "pending" ELSE d.site[s].state
  /\ ThisRound(d, s) => e.site[s].admitted = d.site[s].admitted + 1
  /\ ~Opens(d, s) => e.site[s].due = d.site[s].due
  /\ \A t \in Sites : t # s => e.site[t] = d.site[t]
  /\ e.ready = IF Opens(d, s) THEN d.ready \cup {<<e.site[s].due, s>>} ELSE d.ready
  /\ e.pendingSites = IF Opens(d, s) THEN d.pendingSites + 1 ELSE d.pendingSites
  /\ e.eligible = d.eligible \cup {u} /\ e.httpUrls = d.httpUrls \cup {u}
  /\ OthersKept(d, e, OriginOf[u])
  /\ e.origin[OriginOf[u]].round = d.round
  /\ \/ e.httpActive[s] = OriginOf[u]
     \/ <<e.origin[OriginOf[u]].due, OriginOf[u]>> \in e.httpReady

(* What no admission changes. *)
SameWork(d, e) ==
  /\ e.round = d.round /\ e.httpActive = d.httpActive /\ e.active = d.active
  /\ e.activeSites = d.activeSites /\ e.leases = d.leases /\ e.commits = d.commits
  /\ e.resource = d.resource

LEMMA Admission ==
  ASSUME NEW d, TablesOK(d), NEW u \in Urls, NEW internal, NEW limit, NEW manual,
         ~Refused(d, u, internal, limit, manual),
         NEW e, e = AdmitCapped(d, u, internal, limit, manual)
  PROVE  /\ TablesOK(e)
         /\ Enters(d, e, u)
         /\ SameWork(d, e)
         /\ e.outbox = d.outbox /\ e.candidates = d.candidates /\ e.waiting = d.waiting
         /\ e.documents = d.documents /\ e.recrawls = d.recrawls /\ e.manual = d.manual
         /\ e.streak = d.streak
<1> DEFINE s == Site(u)
           due == Later(IF d.resource[u] = None THEN 0 ELSE d.resource[u], d.url[u].due)
           row == [AbsentUrl EXCEPT !.round = d.round, !.state = "pending", !.due = due]
           place == OpenedSite(d, u, due)
           counted == [place EXCEPT !.admitted = @ + 1]
           x == [d EXCEPT !.site[s] = counted,
                          !.ready = IF Opens(d, s) THEN @ \cup {<<place.due, s>>} ELSE @,
                          !.pendingSites = IF Opens(d, s) THEN @ + 1 ELSE @,
                          !.url[u] = row,
                          !.eligible = @ \cup {u}]
<1>1. OriginOf[u] \in Origins /\ s \in Sites
  BY Places
<1>2. DOMAIN d = Tables /\ d.url \in [Urls -> UrlRows] /\ d.site \in [Sites -> SiteRows]
      /\ d.round \in Nat \ {0} /\ d.resource \in [Urls -> Times \cup {None}]
  BY DEF TablesOK
<1>3. d.url[u].due \in Times /\ d.resource[u] \in Times \cup {None} /\ d.site[s] \in SiteRows
  BY <1>1, <1>2 DEF UrlRows
<1>4. due \in Times
  BY <1>3, Clock
<1> HIDE DEF due
<1>5. /\ row \in UrlRows
      /\ row.round = d.round /\ row.state = "pending" /\ row.fetch = None
      /\ row.failures = 0 /\ row.reason = "none"
  <2>1. AbsentUrl \in UrlRows
    BY TableAssumptions, Clock DEF AbsentUrl, UrlRows, Reasons
  <2>2. row \in UrlRows
    BY <2>1, <1>2, <1>4, UrlRow
  <2>3. /\ row.round = d.round /\ row.state = "pending" /\ row.fetch = None
        /\ row.failures = 0 /\ row.reason = "none"
    BY DEF AbsentUrl
  <2> QED BY <2>2, <2>3
<1>6. /\ place \in SiteRows /\ place.round = d.round
      /\ place.state = IF Opens(d, s) THEN "pending" ELSE d.site[s].state
      /\ ThisRound(d, s) => place.admitted = d.site[s].admitted
      /\ ~Opens(d, s) => place.due = d.site[s].due
  <2>1. CASE ~ThisRound(d, s)
    <3>1. place = [round |-> d.round, state |-> "pending", admitted |-> 0, due |-> due]
      BY <2>1 DEF OpenedSite
    <3>2. place \in SiteRows
      BY <3>1, <1>2, <1>4 DEF SiteRows
    <3> QED BY <3>1, <3>2, <2>1 DEF Opens
  <2>2. CASE ThisRound(d, s) /\ d.site[s].state = "done"
    <3>1. place = [d.site[s] EXCEPT !.state = "pending", !.due = Later(d.site[s].due, due)]
      BY <2>2 DEF OpenedSite
    <3>2. Later(d.site[s].due, due) \in Times
      BY <1>3, <1>4, Clock DEF SiteRows
    <3>3. place \in SiteRows
      <4>1. [d.site[s] EXCEPT !.state = "pending"] \in SiteRows
        BY <1>3, SiteRow
      <4> QED BY <4>1, <3>1, <3>2, SiteRow
    <3>4. place.round = d.site[s].round /\ place.state = "pending" /\ place.admitted = d.site[s].admitted
      BY <3>1, <1>3 DEF SiteRows
    <3> QED BY <3>3, <3>4, <2>2 DEF Opens, ThisRound
  <2>3. CASE ThisRound(d, s) /\ d.site[s].state # "done"
    <3>1. place = d.site[s]
      BY <2>3 DEF OpenedSite
    <3> QED BY <3>1, <2>3, <1>3 DEF Opens, ThisRound
  <2> QED BY <2>1, <2>2, <2>3
<1> HIDE DEF place, row
<1>7. /\ counted \in SiteRows /\ counted.round = place.round /\ counted.due = place.due
      /\ counted.state = place.state /\ counted.admitted = place.admitted + 1
  <2>1. place.admitted + 1 \in Nat
    BY <1>6 DEF SiteRows
  <2>2. counted \in SiteRows
    BY <2>1, <1>6, SiteRow
  <2> QED BY <2>2, <1>6 DEF SiteRows
<1>8. e = QueueHttpOrigin(x, u)
  BY DEF AdmitCapped, Opens, OpenedSite, row, place, due
<1> HIDE DEF s, counted
<1>9. /\ x.site = [d.site EXCEPT ![s] = counted] /\ x.url = [d.url EXCEPT ![u] = row]
      /\ x.ready = IF Opens(d, s) THEN d.ready \cup {<<place.due, s>>} ELSE d.ready
      /\ x.pendingSites = IF Opens(d, s) THEN d.pendingSites + 1 ELSE d.pendingSites
      /\ x.eligible = d.eligible \cup {u}
      /\ x.origin = d.origin /\ x.httpReady = d.httpReady /\ x.httpUrls = d.httpUrls
  BY <1>2 DEF Tables
<1>10. /\ SameWork(d, x) /\ x.retry = d.retry
       /\ x.outbox = d.outbox /\ x.candidates = d.candidates /\ x.waiting = d.waiting
       /\ x.documents = d.documents /\ x.recrawls = d.recrawls /\ x.manual = d.manual
       /\ x.streak = d.streak
  BY <1>2 DEF Tables, SameWork
<1>11. DOMAIN x = Tables
  BY <1>2
<1> HIDE DEF x
<1>12. TablesOK(x)
  <2>1. x.site \in [Sites -> SiteRows] /\ x.url \in [Urls -> UrlRows]
    BY <1>9, <1>2, <1>5, <1>7
  <2>2. x.ready \subseteq Times \X Sites /\ x.pendingSites \in Int
    <3>1. place.due \in Times
      BY <1>6 DEF SiteRows
    <3> QED BY <1>9, <3>1, <1>1 DEF TablesOK
  <2> QED BY <2>1, <2>2, <1>9, <1>10, <1>11 DEF TablesOK, SameWork
<1>13. /\ TablesOK(e) /\ SameButOrigins(x, e) /\ OthersKept(x, e, OriginOf[u])
       /\ e.httpUrls = x.httpUrls \cup {u} /\ e.origin[OriginOf[u]].round = x.url[u].round
       /\ \/ e.httpActive[s] = OriginOf[u]
          \/ <<e.origin[OriginOf[u]].due, OriginOf[u]>> \in e.httpReady
  BY <1>8, <1>12, QueueOrigin DEF s
<1>14. e.url[u] = row /\ (\A v \in Urls : v # u => e.url[v] = d.url[v]) /\ x.url[u] = row
  BY <1>9, <1>13, <1>2 DEF SameButOrigins
<1>15. e.site[s] = counted /\ (\A t \in Sites : t # s => e.site[t] = d.site[t])
  BY <1>9, <1>13, <1>2, <1>1 DEF SameButOrigins
<1>16. /\ e.ready = IF Opens(d, s) THEN d.ready \cup {<<place.due, s>>} ELSE d.ready
       /\ e.pendingSites = IF Opens(d, s) THEN d.pendingSites + 1 ELSE d.pendingSites
       /\ e.eligible = d.eligible \cup {u} /\ e.httpUrls = d.httpUrls \cup {u}
  BY <1>9, <1>13 DEF SameButOrigins
<1>17. OthersKept(d, e, OriginOf[u])
  BY <1>9, <1>13 DEF OthersKept
<1>18. Enters(d, e, u)
  <2>1. /\ e.site[s].round = d.round /\ e.site[s].due = place.due
        /\ e.site[s].state = IF Opens(d, s) THEN "pending" ELSE d.site[s].state
        /\ ThisRound(d, s) => e.site[s].admitted = d.site[s].admitted + 1
        /\ ~Opens(d, s) => e.site[s].due = d.site[s].due
    BY <1>6, <1>7, <1>15
  <2> QED BY <2>1, <1>5, <1>13, <1>14, <1>15, <1>16, <1>17 DEF Enters, s
<1> QED BY <1>10, <1>13, <1>18 DEF SameWork, SameButOrigins

-----------------------------------------------------------------------------
(* What holds of the tables *)

InWork(d, s) == d.site[s].state \in {"pending", "active"}

(* Every row belongs to a site; no row is ahead of the round. *)
RowsOK(d) ==
  \A u \in Urls :
    /\ d.url[u].round <= d.round
    /\ d.url[u].state # "absent" => d.site[Site(u)].state # "absent"
    /\ d.url[u].state # "absent" /\ d.url[u].round = d.round => ThisRound(d, Site(u))

(* An unfinished URL is of this round, its site is in work, and its next  *)
(* capture is not committed yet; a leased one has a lease.                *)
UnfinishedOK(d) ==
  \A u \in Urls : Unsettled(d, u) =>
    /\ d.url[u].round = d.round /\ d.url[u].failures < MaxAttempts
    /\ InWork(d, Site(u))
    /\ <<u, d.url[u].fetch>> \notin d.commits
    /\ d.url[u].state = "leased" => <<u, d.url[u].fetch>> \in d.leases

ReadyOnce(d, s) ==
  {e \in d.ready : e[2] = s} = IF d.site[s].state = "pending" THEN {<<d.site[s].due, s>>} ELSE {}

SitesOK(d) ==
  \A s \in Sites :
    /\ ReadyOnce(d, s)
    /\ s \in d.active <=> d.site[s].state = "active"
    /\ InWork(d, s) => d.site[s].round = d.round
    /\ d.httpActive[s] # None => s \in d.active

CountsOK(d) ==
  /\ IsFiniteSet(d.ready) /\ d.pendingSites = Cardinality(d.ready)
  /\ IsFiniteSet(d.active) /\ d.activeSites = Cardinality(d.active)

Queued(d, o) == d.httpActive[SiteOf[o]] = o \/ <<d.origin[o].due, o>> \in d.httpReady
OriginsOK(d) ==
  \A u \in Urls : d.url[u].state = "pending" =>
    /\ u \in d.eligible /\ u \in d.httpUrls
    /\ d.origin[OriginOf[u]].round # 0
    /\ Queued(d, OriginOf[u])

OutboxOK(d) == \A entry \in d.outbox : InWork(d, Site(entry.url))

Sound(d) ==
  /\ TablesOK(d) /\ RowsOK(d) /\ UnfinishedOK(d) /\ SitesOK(d) /\ CountsOK(d) /\ OriginsOK(d)
  /\ OutboxOK(d)

OutboxOf(d, e) == \A entry \in e.outbox : \E old \in d.outbox : old.url = entry.url

LEMMA NewEntry ==
  ASSUME NEW S, IsFiniteSet(S), NEW x, x \notin S
  PROVE  IsFiniteSet(S \cup {x}) /\ Cardinality(S \cup {x}) = Cardinality(S) + 1
BY FS_AddElement

LEMMA LessEntry ==
  ASSUME NEW S, IsFiniteSet(S), NEW x \in S
  PROVE  IsFiniteSet(S \ {x}) /\ Cardinality(S \ {x}) = Cardinality(S) - 1
BY FS_RemoveElement

(* The same of any URL that becomes pending; its site may change places.   *)
Joins(d, e, u) ==
  LET s == Site(u) IN
  /\ e.url[u].round = d.round /\ e.url[u].state = "pending" /\ e.url[u].fetch = None
  /\ e.url[u].failures = 0
  /\ \A v \in Urls : v # u => e.url[v] = d.url[v]
  /\ e.site[s].round = d.round
  /\ e.site[s].state = IF Opens(d, s) THEN "pending" ELSE d.site[s].state
  /\ ThisRound(d, s) => e.site[s].admitted >= d.site[s].admitted
  /\ \A t \in Sites : t # s => e.site[t] = d.site[t]
  /\ e.ready = IF e.site[s].state = "pending"
               THEN (d.ready \ {<<d.site[s].due, s>>}) \cup {<<e.site[s].due, s>>} ELSE d.ready
  /\ e.pendingSites = IF Opens(d, s) THEN d.pendingSites + 1 ELSE d.pendingSites
  /\ e.eligible = d.eligible \cup {u} /\ e.httpUrls = d.httpUrls \cup {u}
  /\ OthersKept(d, e, OriginOf[u])
  /\ e.origin[OriginOf[u]].round = d.round
  /\ \/ e.httpActive[s] = OriginOf[u]
     \/ <<e.origin[OriginOf[u]].due, OriginOf[u]>> \in e.httpReady

LEMMA EntersJoins ==
  ASSUME NEW d, Sound(d), NEW u \in Urls, NEW e, Enters(d, e, u)
  PROVE  Joins(d, e, u)
<1> DEFINE s == Site(u)
<1>1. s \in Sites
  BY Places
<1>2. /\ ReadyOnce(d, s) /\ (InWork(d, s) => d.site[s].round = d.round)
      /\ d.site[s].state \in {"absent", "pending", "active", "done"} /\ d.site[s].admitted \in Nat
  BY <1>1 DEF Sound, SitesOK, TablesOK, SiteRows
<1>3. /\ e.site[s].state = IF Opens(d, s) THEN "pending" ELSE d.site[s].state
      /\ ThisRound(d, s) => e.site[s].admitted = d.site[s].admitted + 1
      /\ ~Opens(d, s) => e.site[s].due = d.site[s].due
      /\ e.ready = IF Opens(d, s) THEN d.ready \cup {<<e.site[s].due, s>>} ELSE d.ready
  BY DEF Enters
<1>4. ThisRound(d, s) => e.site[s].admitted >= d.site[s].admitted
  BY <1>2, <1>3
<1>5. e.ready = IF e.site[s].state = "pending"
                THEN (d.ready \ {<<d.site[s].due, s>>}) \cup {<<e.site[s].due, s>>} ELSE d.ready
  <2>1. CASE Opens(d, s)
    <3>1. d.site[s].state # "pending"
      BY <2>1, <1>2 DEF Opens, ThisRound, InWork
    <3>2. {x \in d.ready : x[2] = s} = {}
      BY <3>1, <1>2 DEF ReadyOnce
    <3>3. d.ready \ {<<d.site[s].due, s>>} = d.ready
      BY <3>2
    <3> QED BY <2>1, <3>3, <1>3
  <2>2. CASE ~Opens(d, s) /\ d.site[s].state = "pending"
    <3>1. <<d.site[s].due, s>> \in d.ready
      BY <2>2, <1>2 DEF ReadyOnce
    <3> QED BY <2>2, <3>1, <1>3
  <2>3. CASE ~Opens(d, s) /\ d.site[s].state # "pending"
    BY <2>3, <1>3
  <2> QED BY <2>1, <2>2, <2>3
<1> QED BY <1>4, <1>5 DEF Enters, Joins

LEMMA SoundEntry ==
  ASSUME NEW d, Sound(d), NEW u \in Urls, ~Unsettled(d, u),
         NEW e, TablesOK(e), Joins(d, e, u), SameWork(d, e), OutboxOf(d, e)
  PROVE  Sound(e)
<1> DEFINE s == Site(u)
           o == OriginOf[u]
<1>1. o \in Origins /\ s \in Sites /\ SiteOf[o] = s /\ None \notin Nat /\ 0 < MaxAttempts
  BY Places, TableAssumptions DEF Site
<1>2. /\ TablesOK(d) /\ e.round = d.round /\ e.active = d.active /\ e.httpActive = d.httpActive
      /\ e.commits = d.commits /\ e.leases = d.leases /\ e.activeSites = d.activeSites
      /\ d.commits \subseteq Urls \X Nat /\ d.round \in Nat \ {0}
      /\ d.site \in [Sites -> SiteRows] /\ d.url \in [Urls -> UrlRows]
  BY DEF Sound, SameWork, TablesOK
<1>3. /\ e.url[u].round = d.round /\ e.url[u].state = "pending" /\ e.url[u].fetch = None
      /\ e.url[u].failures = 0
      /\ \A v \in Urls : v # u => e.url[v] = d.url[v]
  BY DEF Joins
<1>4. /\ e.site[s].round = d.round
      /\ e.site[s].state = IF Opens(d, s) THEN "pending" ELSE d.site[s].state
      /\ \A t \in Sites : t # s => e.site[t] = d.site[t]
  BY DEF Joins
<1>5. InWork(e, s) /\ ThisRound(e, s) /\ \A t \in Sites : InWork(d, t) => InWork(e, t)
  <2>1. d.site[s].state \in {"absent", "pending", "active", "done"}
    BY <1>1, <1>2 DEF SiteRows
  <2>2. InWork(e, s)
    BY <1>4, <2>1 DEF Opens, InWork, ThisRound
  <2> QED BY <2>2, <1>4, <1>2 DEF InWork, ThisRound
<1>6. RowsOK(e)
  <2> SUFFICES ASSUME NEW v \in Urls
               PROVE  /\ e.url[v].round <= e.round
                      /\ e.url[v].state # "absent" => e.site[Site(v)].state # "absent"
                      /\ e.url[v].state # "absent" /\ e.url[v].round = e.round => ThisRound(e, Site(v))
    BY DEF RowsOK
  <2>1. CASE Site(v) = s
    <3>1. d.url[v].round <= d.round
      BY DEF Sound, RowsOK
    <3> QED BY <2>1, <3>1, <1>2, <1>3, <1>5 DEF ThisRound
  <2>2. CASE Site(v) # s
    <3>1. v # u /\ Site(v) \in Sites
      BY <2>2, Places
    <3>2. e.url[v] = d.url[v] /\ e.site[Site(v)] = d.site[Site(v)]
      BY <3>1, <2>2, <1>3, <1>4
    <3> QED BY <3>2, <1>2 DEF Sound, RowsOK, ThisRound
  <2> QED BY <2>1, <2>2
<1>7. UnfinishedOK(e)
  <2> SUFFICES ASSUME NEW v \in Urls, Unsettled(e, v)
               PROVE  /\ e.url[v].round = e.round /\ e.url[v].failures < MaxAttempts
                      /\ InWork(e, Site(v))
                      /\ <<v, e.url[v].fetch>> \notin e.commits
                      /\ e.url[v].state = "leased" => <<v, e.url[v].fetch>> \in e.leases
    BY DEF UnfinishedOK
  <2>1. CASE v = u
    BY <2>1, <1>1, <1>2, <1>3, <1>5
  <2>2. CASE v # u
    <3>1. e.url[v] = d.url[v] /\ Site(v) \in Sites
      BY <2>2, <1>3, Places
    <3>2. Unsettled(d, v)
      BY <3>1 DEF Unsettled
    <3> QED BY <3>1, <3>2, <1>2, <1>5 DEF Sound, UnfinishedOK
  <2> QED BY <2>1, <2>2
<1>8. Opens(d, s) => /\ d.site[s].state \notin {"pending", "active"}
                     /\ s \notin d.active /\ d.httpActive[s] = None
                     /\ \A x \in d.ready : x[2] # s
  <2>1. InWork(d, s) => d.site[s].round = d.round
    BY <1>1 DEF Sound, SitesOK
  <2>2. Opens(d, s) => d.site[s].state \notin {"pending", "active"}
    BY <2>1 DEF Opens, ThisRound, InWork
  <2>3. ReadyOnce(d, s) /\ (s \in d.active <=> d.site[s].state = "active")
        /\ (d.httpActive[s] # None => s \in d.active)
    BY <1>1 DEF Sound, SitesOK
  <2> QED BY <2>2, <2>3 DEF ReadyOnce
<1>9. /\ e.ready = IF e.site[s].state = "pending"
                  THEN (d.ready \ {<<d.site[s].due, s>>}) \cup {<<e.site[s].due, s>>} ELSE d.ready
      /\ e.pendingSites = IF Opens(d, s) THEN d.pendingSites + 1 ELSE d.pendingSites
  BY DEF Joins
<1>10. SitesOK(e)
  <2> SUFFICES ASSUME NEW t \in Sites
               PROVE  /\ ReadyOnce(e, t)
                      /\ t \in e.active <=> e.site[t].state = "active"
                      /\ InWork(e, t) => e.site[t].round = e.round
                      /\ e.httpActive[t] # None => t \in e.active
    BY DEF SitesOK
  <2>1. /\ ReadyOnce(d, t)
        /\ t \in d.active <=> d.site[t].state = "active"
        /\ InWork(d, t) => d.site[t].round = d.round
        /\ d.httpActive[t] # None => t \in d.active
    BY DEF Sound, SitesOK
  <2>2. CASE t # s
    <3>1. e.site[t] = d.site[t] /\ {x \in e.ready : x[2] = t} = {x \in d.ready : x[2] = t}
      BY <2>2, <1>4, <1>9
    <3> QED BY <3>1, <2>1, <1>2 DEF ReadyOnce, InWork
  <2>3. CASE t = s /\ Opens(d, s)
    <3>1. {x \in e.ready : x[2] = s} = {<<e.site[s].due, s>>}
      BY <2>3, <1>4, <1>8, <1>9
    <3>2. e.site[s].state = "pending" /\ e.site[s].round = e.round
      BY <2>3, <1>4, <1>2
    <3> QED BY <3>1, <3>2, <2>3, <1>8, <1>2 DEF ReadyOnce
  <2>4. CASE t = s /\ ~Opens(d, s)
    <3>1. e.site[s].state = d.site[s].state /\ e.site[s].round = e.round
      BY <2>4, <1>4, <1>2
    <3>2. CASE d.site[s].state = "pending"
      <4>1. {x \in d.ready : x[2] = s} = {<<d.site[s].due, s>>}
        BY <2>1, <2>4, <3>2 DEF ReadyOnce
      <4>2. {x \in e.ready : x[2] = s} = {<<e.site[s].due, s>>}
        BY <4>1, <3>1, <3>2, <1>9
      <4> QED BY <4>2, <2>1, <2>4, <3>1, <3>2, <1>2 DEF ReadyOnce
    <3>3. CASE d.site[s].state # "pending"
      <4>1. e.ready = d.ready
        BY <3>1, <3>3, <1>9
      <4> QED BY <4>1, <2>1, <2>4, <3>1, <3>3, <1>2 DEF ReadyOnce
    <3> QED BY <3>2, <3>3
  <2> QED BY <2>2, <2>3, <2>4
<1>11. CountsOK(e)
  <2> DEFINE old == <<d.site[s].due, s>>
             new == <<e.site[s].due, s>>
  <2>1. CountsOK(d) /\ ReadyOnce(d, s)
    BY <1>1 DEF Sound, SitesOK
  <2>2. CASE Opens(d, s)
    <3>1. d.ready \ {old} = d.ready /\ new \notin d.ready
      BY <2>2, <1>8
    <3>2. e.ready = d.ready \cup {new} /\ e.pendingSites = d.pendingSites + 1
      BY <2>2, <3>1, <1>4, <1>9
    <3> HIDE DEF new
    <3> QED BY <2>1, <3>1, <3>2, <1>2, NewEntry DEF CountsOK
  <2>3. CASE ~Opens(d, s) /\ d.site[s].state = "pending"
    <3>1. {x \in d.ready : x[2] = s} = {old}
      BY <2>1, <2>3 DEF ReadyOnce
    <3>2. old \in d.ready /\ new \notin d.ready \ {old}
      <4>1. \A x \in d.ready : x[2] = s => x = old
        BY <3>1
      <4>2. old \in d.ready
        BY <3>1
      <4> QED BY <4>1, <4>2
    <3>3. e.ready = (d.ready \ {old}) \cup {new} /\ e.pendingSites = d.pendingSites
      BY <2>3, <1>4, <1>9
    <3> HIDE DEF new, old
    <3>4. IsFiniteSet(d.ready \ {old}) /\ Cardinality(d.ready \ {old}) = Cardinality(d.ready) - 1
      BY <2>1, <3>2, LessEntry DEF CountsOK
    <3>5. IsFiniteSet(e.ready) /\ Cardinality(e.ready) = (Cardinality(d.ready) - 1) + 1
      BY <3>2, <3>3, <3>4, NewEntry
    <3>6. Cardinality(d.ready) \in Nat
      BY <2>1, FS_CardinalityType DEF CountsOK
    <3> QED BY <2>1, <3>3, <3>5, <3>6, <1>2 DEF CountsOK
  <2>4. CASE ~Opens(d, s) /\ d.site[s].state # "pending"
    BY <2>1, <2>4, <1>2, <1>4, <1>9 DEF CountsOK
  <2> QED BY <2>2, <2>3, <2>4
<1>12. OriginsOK(e)
  <2> SUFFICES ASSUME NEW v \in Urls, e.url[v].state = "pending"
               PROVE  /\ v \in e.eligible /\ v \in e.httpUrls
                      /\ e.origin[OriginOf[v]].round # 0
                      /\ Queued(e, OriginOf[v])
    BY DEF OriginsOK
  <2>1. /\ e.eligible = d.eligible \cup {u} /\ e.httpUrls = d.httpUrls \cup {u}
        /\ OthersKept(d, e, o)
        /\ e.origin[o].round = d.round
        /\ e.httpActive[s] = o \/ <<e.origin[o].due, o>> \in e.httpReady
    BY DEF Joins
  <2>2. v \in e.eligible /\ v \in e.httpUrls
    BY <2>1, <1>3 DEF Sound, OriginsOK
  <2>3. CASE OriginOf[v] = o
    BY <2>1, <2>2, <2>3, <1>1, <1>2 DEF Queued
  <2>4. CASE OriginOf[v] # o
    <3>1. v # u /\ OriginOf[v] \in Origins
      BY <2>4, Places
    <3>2. d.url[v].state = "pending"
      BY <3>1, <1>3
    <3>3. d.origin[OriginOf[v]].round # 0 /\ Queued(d, OriginOf[v])
      BY <3>2 DEF Sound, OriginsOK
    <3>4. e.origin[OriginOf[v]] = d.origin[OriginOf[v]]
          /\ \A x \in d.httpReady : x[2] # o => x \in e.httpReady
      BY <2>1, <3>1, <2>4 DEF OthersKept
    <3> QED BY <2>2, <2>4, <3>3, <3>4, <1>2 DEF Queued
  <2> QED BY <2>3, <2>4
<1>13. OutboxOK(e)
  <2> SUFFICES ASSUME NEW entry \in e.outbox PROVE InWork(e, Site(entry.url))
    BY DEF OutboxOK
  <2>1. PICK old \in d.outbox : old.url = entry.url
    BY DEF OutboxOf
  <2>2. old.url \in Urls
    BY <2>1, <1>2 DEF TablesOK, Entries
  <2>3. InWork(d, Site(entry.url)) /\ Site(entry.url) \in Sites
    BY <2>1, <2>2, Places DEF Sound, OutboxOK
  <2> QED BY <2>3, <1>5
<1> QED BY <1>6, <1>7, <1>10, <1>11, <1>12, <1>13 DEF Sound

-----------------------------------------------------------------------------
(* What holds of the tables and the web *)

Covered(d, u, v) ==
  \/ \E entry \in d.outbox : entry.url = u /\ v \in entry.links
  \/ d.url[v].round = d.round
  \/ d.url[v].reason = "http_410"
  \/ d.site[Site(u)].admitted >= Budget

(* The links of a page to its own site wait in the outbox, or have been    *)
(* offered to the frontier.                                                *)
LinksOK(w, d) ==
  \A u \in Urls : d.url[u].state = "committed" /\ d.url[u].round = d.round =>
    \A v \in w.links[u] : Site(v) = Site(u) => Covered(d, u, v)

VisitsOK(w, d) ==
  w.recrawl => \A u \in Urls : d.url[u].state = "committed" => <<d.resource[u], u>> \in d.recrawls

(* The URLs that a turn or a capture may be about keep their rows, and     *)
(* no URL gets a fetch id.                                                 *)
Steady(d, e) ==
  /\ e.round = d.round /\ e.leases = d.leases /\ e.commits = d.commits /\ e.active = d.active
  /\ \A u \in Urls :
       /\ Unsettled(d, u) => e.url[u].state = d.url[u].state
       /\ e.url[u].fetch = d.url[u].fetch \/ (~Unsettled(d, u) /\ e.url[u].fetch = None)
       /\ e.url[u].state = "leased" => d.url[u].state = "leased"
       /\ d.url[u].state # "absent" => e.url[u].state # "absent"
  /\ OutboxOf(d, e)

Preserves(d, e) ==
  /\ Sound(e) /\ Steady(d, e)
  /\ \A w \in Webs : /\ LinksOK(w, d) => LinksOK(w, e)
                     /\ VisitsOK(w, d) => VisitsOK(w, e)

LEMMA PreservesTwice ==
  ASSUME NEW d, NEW e, NEW f, Preserves(d, e), Preserves(e, f)
  PROVE  Preserves(d, f)
<1>1. Steady(d, e) /\ Steady(e, f) /\ Sound(f)
  BY DEF Preserves
<1>2. OutboxOf(d, f)
  BY <1>1 DEF Steady, OutboxOf
<1>3. Steady(d, f)
  BY <1>1, <1>2 DEF Steady, Unsettled
<1> QED BY <1>1, <1>3 DEF Preserves

(* Tables that no other table depends on. *)
SameCore(d, e) ==
  /\ SameWork(d, e) /\ e.site = d.site /\ e.ready = d.ready /\ e.pendingSites = d.pendingSites
  /\ e.eligible = d.eligible /\ e.httpUrls = d.httpUrls
  /\ e.origin = d.origin /\ e.httpReady = d.httpReady
  /\ e.outbox = d.outbox /\ e.recrawls = d.recrawls

SameRows(d, e) ==
  \A u \in Urls :
    /\ e.url[u].round = d.url[u].round /\ e.url[u].state = d.url[u].state
    /\ e.url[u].fetch = d.url[u].fetch /\ e.url[u].failures = d.url[u].failures
    /\ e.url[u].reason = d.url[u].reason

LEMMA SoundAside ==
  ASSUME NEW d, Sound(d), NEW e, TablesOK(e), SameCore(d, e), SameRows(d, e)
  PROVE  Preserves(d, e)
<1>1. RowsOK(e)
  BY DEF Sound, SameCore, SameRows, SameWork, RowsOK, ThisRound
<1>2. UnfinishedOK(e)
  BY DEF Sound, SameCore, SameRows, SameWork, UnfinishedOK, Unsettled, InWork
<1>3. SitesOK(e) /\ CountsOK(e) /\ OutboxOK(e)
  BY DEF Sound, SameCore, SameWork, SitesOK, ReadyOnce, InWork, CountsOK, OutboxOK
<1>4. OriginsOK(e)
  BY DEF Sound, SameCore, SameRows, SameWork, OriginsOK, Queued
<1>5. Steady(d, e)
  BY DEF SameCore, SameRows, SameWork, Steady, OutboxOf
<1>6. ASSUME NEW w \in Webs, LinksOK(w, d) PROVE LinksOK(w, e)
  <2> SUFFICES ASSUME NEW u \in Urls, e.url[u].state = "committed", e.url[u].round = e.round,
                      NEW v \in w.links[u], Site(v) = Site(u)
               PROVE  Covered(e, u, v)
    BY DEF LinksOK
  <2>1. v \in Urls
    BY WebAssumptions
  <2>2. Covered(d, u, v)
    BY <1>6 DEF SameCore, SameRows, SameWork, LinksOK
  <2> QED BY <2>1, <2>2 DEF SameCore, SameRows, SameWork, Covered
<1>7. ASSUME NEW w \in Webs, VisitsOK(w, d) PROVE VisitsOK(w, e)
  BY <1>7 DEF SameCore, SameRows, SameWork, VisitsOK
<1> QED BY <1>1, <1>2, <1>3, <1>4, <1>5, <1>6, <1>7 DEF Preserves, Sound

LEMMA PreservesSame ==
  ASSUME NEW d, Sound(d)
  PROVE  Preserves(d, d)
BY SoundAside DEF Sound, SameCore, SameRows, SameWork

LEMMA EntryPreserves ==
  ASSUME NEW d, Sound(d), NEW u \in Urls, ~Unsettled(d, u), NEW e, TablesOK(e),
         Joins(d, e, u), SameWork(d, e), e.outbox = d.outbox,
         \A x \in d.recrawls : x[2] # u => x \in e.recrawls
  PROVE  Preserves(d, e)
<1>1. OutboxOf(d, e)
  BY DEF OutboxOf
<1>2. Sound(e)
  BY <1>1, SoundEntry
<1>3. /\ e.url[u].round = d.round /\ e.url[u].state = "pending" /\ e.url[u].fetch = None
      /\ \A v \in Urls : v # u => e.url[v] = d.url[v]
  BY DEF Joins
<1>4. Steady(d, e)
  <2>1. \A v \in Urls :
          /\ Unsettled(d, v) => e.url[v].state = d.url[v].state
          /\ e.url[v].fetch = d.url[v].fetch \/ (~Unsettled(d, v) /\ e.url[v].fetch = None)
          /\ e.url[v].state = "leased" => d.url[v].state = "leased"
          /\ d.url[v].state # "absent" => e.url[v].state # "absent"
    BY <1>3
  <2> QED BY <1>1, <2>1 DEF Steady, SameWork
<1>5. ASSUME NEW w \in Webs, LinksOK(w, d) PROVE LinksOK(w, e)
  <2> SUFFICES ASSUME NEW x \in Urls, e.url[x].state = "committed", e.url[x].round = e.round,
                      NEW v \in w.links[x], Site(v) = Site(x)
               PROVE  Covered(e, x, v)
    BY DEF LinksOK
  <2>1. v \in Urls /\ Site(x) \in Sites
    BY WebAssumptions, Places
  <2>2. x # u /\ e.round = d.round
    BY <1>3 DEF SameWork
  <2>3. Covered(d, x, v) /\ ThisRound(d, Site(x))
    BY <1>3, <1>5, <2>2 DEF LinksOK, Sound, RowsOK
  <2>4. d.site[Site(x)].admitted \in Nat /\ e.site[Site(x)].admitted >= d.site[Site(x)].admitted
    <3>1. d.site[Site(x)].admitted \in Nat
      BY <2>1 DEF Sound, TablesOK, SiteRows
    <3> QED BY <3>1, <2>1, <2>3 DEF Joins
  <2>5. e.site[Site(x)].admitted \in Nat /\ Budget \in Nat
    BY <2>1, TableAssumptions DEF TablesOK, SiteRows
  <2>6. CASE v = u
    BY <2>6, <2>2, <1>3 DEF Covered
  <2>7. CASE v # u
    BY <2>7, <2>1, <2>2, <2>3, <2>4, <2>5, <1>3 DEF Covered
  <2> QED BY <2>6, <2>7
<1>6. ASSUME NEW w \in Webs, VisitsOK(w, d) PROVE VisitsOK(w, e)
  <2> SUFFICES ASSUME w.recrawl, NEW v \in Urls, e.url[v].state = "committed"
               PROVE  <<e.resource[v], v>> \in e.recrawls
    BY DEF VisitsOK
  <2>1. v # u /\ d.url[v].state = "committed"
    BY <1>3
  <2>2. <<d.resource[v], v>> \in d.recrawls /\ e.resource = d.resource
    BY <2>1, <1>6 DEF VisitsOK, SameWork
  <2> QED BY <2>1, <2>2
<1> QED BY <1>2, <1>4, <1>5, <1>6 DEF Preserves

-----------------------------------------------------------------------------
(* Admissions *)

SameOutbox(d, e) == e.outbox = d.outbox

LEMMA AdmitPreserves ==
  ASSUME NEW d, Sound(d), NEW u \in Urls, NEW internal, NEW limit, NEW manual,
         NEW e, e = AdmitCapped(d, u, internal, limit, manual)
  PROVE  Preserves(d, e) /\ SameOutbox(d, e)
<1>1. CASE Refused(d, u, internal, limit, manual)
  <2>1. e = d
    BY <1>1 DEF AdmitCapped
  <2> QED BY <2>1, PreservesSame DEF SameOutbox
<1>2. CASE ~Refused(d, u, internal, limit, manual)
  <2>1. ~Unsettled(d, u) /\ TablesOK(d)
    BY <1>2 DEF Refused, Sound
  <2>2. /\ TablesOK(e) /\ Enters(d, e, u) /\ SameWork(d, e)
        /\ e.outbox = d.outbox /\ e.candidates = d.candidates /\ e.waiting = d.waiting
        /\ e.documents = d.documents /\ e.recrawls = d.recrawls /\ e.manual = d.manual
    BY <1>2, <2>1, Admission
  <2>3. Joins(d, e, u)
    BY <2>2, EntersJoins
  <2> QED BY <2>1, <2>2, <2>3, EntryPreserves DEF SameOutbox
<1> QED BY <1>1, <1>2

LEMMA SitemapPreserves ==
  ASSUME NEW d, Sound(d), NEW u \in Urls
  PROVE  Preserves(d, AdmitSitemap(d, u))
<1> DEFINE e == Admit(d, u, TRUE)
<1>1. CASE d.url[u].state # "absent" \/ Refused(d, u, TRUE, Budget, FALSE)
  BY <1>1, PreservesSame DEF AdmitSitemap
<1>2. CASE ~(d.url[u].state # "absent" \/ Refused(d, u, TRUE, Budget, FALSE))
  <2>1. Preserves(d, e)
    BY AdmitPreserves DEF Admit
  <2> DEFINE f == [e EXCEPT !.url[u].sitemap = TRUE]
  <2>2. AdmitSitemap(d, u) = f
    BY <1>2 DEF AdmitSitemap
  <2> HIDE DEF e
  <2>3. TablesOK(e) /\ DOMAIN e = Tables /\ e.url \in [Urls -> UrlRows]
    BY <2>1 DEF Preserves, Sound, TablesOK
  <2>4. f.url = [e.url EXCEPT ![u].sitemap = TRUE]
    BY <2>3 DEF Tables
  <2>5. SameCore(e, f) /\ f.retry = e.retry /\ f.candidates = e.candidates /\ f.waiting = e.waiting
        /\ f.documents = e.documents /\ f.manual = e.manual /\ f.streak = e.streak /\ DOMAIN f = Tables
    BY <2>3 DEF SameCore, SameWork, Tables
  <2>6. [e.url[u] EXCEPT !.sitemap = TRUE] \in UrlRows
    BY <2>3, UrlRow
  <2>7. f.url \in [Urls -> UrlRows]
    BY <2>3, <2>4, <2>6
  <2>8. SameRows(e, f)
    <3>1. /\ f.url[u].round = e.url[u].round /\ f.url[u].state = e.url[u].state
          /\ f.url[u].fetch = e.url[u].fetch /\ f.url[u].failures = e.url[u].failures
          /\ f.url[u].reason = e.url[u].reason
      BY <2>3, <2>4 DEF UrlRows
    <3>2. \A v \in Urls : v # u => f.url[v] = e.url[v]
      BY <2>3, <2>4
    <3> QED BY <3>1, <3>2 DEF SameRows
  <2>9. TablesOK(f)
    BY <2>3, <2>5, <2>7 DEF TablesOK, SameCore, SameWork
  <2>10. Preserves(e, f)
    BY <2>1, <2>5, <2>8, <2>9, SoundAside DEF Preserves
  <2> QED BY <2>1, <2>2, <2>10, PreservesTwice
<1> QED BY <1>1, <1>2

(* The lists of candidates, of documents and of requests are not part of it. *)
LEMMA ListPreserves ==
  ASSUME NEW d, Sound(d), NEW e, DOMAIN e = Tables, SameCore(d, e), e.url = d.url, e.retry = d.retry,
         e.candidates \subseteq Urls, e.waiting \subseteq e.candidates, e.manual \subseteq Urls,
         e.documents \subseteq Urls, e.streak \in 0 .. 3
  PROVE  Preserves(d, e)
<1>1. TablesOK(e)
  BY DEF Sound, TablesOK, SameCore, SameWork
<1> QED BY <1>1, SoundAside DEF SameRows

LEMMA CandidatePreserves ==
  ASSUME NEW d, Sound(d), NEW u \in Urls
  PROVE  Preserves(d, Candidate(d, u))
<1> DEFINE e == Admit(d, u, TRUE)
           f == Candidate(d, u)
<1>1. Preserves(d, e)
  BY AdmitPreserves DEF Admit
<1>2. PICK waiting \in SUBSET e.waiting : f = [e EXCEPT !.waiting = waiting]
  BY DEF Candidate
<1> HIDE DEF e, f
<1>3. TablesOK(e) /\ DOMAIN e = Tables /\ Sound(e)
  BY <1>1 DEF Preserves, Sound, TablesOK
<1>4. SameCore(e, f) /\ f.url = e.url /\ f.retry = e.retry /\ f.streak = e.streak
      /\ f.candidates = e.candidates /\ f.waiting = waiting /\ f.manual = e.manual
      /\ f.documents = e.documents /\ DOMAIN f = Tables
  BY <1>2, <1>3 DEF SameCore, SameWork, Tables
<1>5. Preserves(e, f)
  BY <1>2, <1>3, <1>4, ListPreserves DEF TablesOK
<1> QED BY <1>1, <1>5, PreservesTwice DEF f

LEMMA DiscoveredPreserves ==
  ASSUME NEW d, Sound(d), NEW u \in Urls
  PROVE  Preserves(d, Discovered(d, u))
<1>1. CASE u \in d.candidates
  BY <1>1, PreservesSame DEF Discovered
<1>2. CASE u \notin d.candidates
  <2> DEFINE e == [d EXCEPT !.candidates = @ \cup {u}, !.waiting = @ \cup {u}]
  <2>1. Discovered(d, u) = Candidate(e, u)
    BY <1>2 DEF Discovered
  <2>2. DOMAIN d = Tables /\ TablesOK(d)
    BY DEF Sound, TablesOK
  <2>3. SameCore(d, e) /\ e.url = d.url /\ e.retry = d.retry /\ e.streak = d.streak
        /\ e.candidates = d.candidates \cup {u} /\ e.waiting = d.waiting \cup {u}
        /\ e.manual = d.manual /\ e.documents = d.documents /\ DOMAIN e = Tables
    BY <2>2 DEF SameCore, SameWork, Tables
  <2> HIDE DEF e
  <2>4. Preserves(d, e)
    BY <2>2, <2>3, ListPreserves DEF TablesOK
  <2>5. Preserves(e, Candidate(e, u))
    BY <2>4, CandidatePreserves DEF Preserves
  <2> QED BY <2>1, <2>4, <2>5, PreservesTwice
<1> QED BY <1>1, <1>2

LEMMA PlannedPreserves ==
  ASSUME NEW d, Sound(d), NEW u \in Urls
  PROVE  Preserves(d, Planned(d, u))
<1>1. CASE u \in d.candidates
  BY <1>1, PreservesSame DEF Planned
<1>2. CASE u \notin d.candidates
  <2> DEFINE e == Admit(d, u, TRUE)
             f == [e EXCEPT !.candidates = @ \cup {u}, !.waiting = @ \cup {u}]
  <2>1. Preserves(d, e)
    BY AdmitPreserves DEF Admit
  <2>2. Planned(d, u) = f
    BY <1>2 DEF Planned
  <2> HIDE DEF e
  <2>3. TablesOK(e) /\ DOMAIN e = Tables /\ Sound(e)
    BY <2>1 DEF Preserves, Sound, TablesOK
  <2>4. SameCore(e, f) /\ f.url = e.url /\ f.retry = e.retry /\ f.streak = e.streak
        /\ f.candidates = e.candidates \cup {u} /\ f.waiting = e.waiting \cup {u}
        /\ f.manual = e.manual /\ f.documents = e.documents /\ DOMAIN f = Tables
    BY <2>3 DEF SameCore, SameWork, Tables
  <2> HIDE DEF f
  <2>5. Preserves(e, f)
    BY <2>3, <2>4, ListPreserves DEF TablesOK
  <2> QED BY <2>1, <2>2, <2>5, PreservesTwice
<1> QED BY <1>1, <1>2

LEMMA TidyPreserves ==
  ASSUME NEW d, Sound(d), NEW manual \in SUBSET Urls,
         NEW e, e = [d EXCEPT !.manual = manual]
  PROVE  Preserves(d, e)
<1>1. DOMAIN d = Tables /\ TablesOK(d)
  BY DEF Sound, TablesOK
<1>2. SameCore(d, e) /\ e.url = d.url /\ e.retry = d.retry /\ e.streak = d.streak
      /\ e.candidates = d.candidates /\ e.waiting = d.waiting /\ e.manual = manual
      /\ e.documents = d.documents /\ DOMAIN e = Tables
  BY <1>1 DEF SameCore, SameWork, Tables
<1> QED BY <1>1, <1>2, ListPreserves DEF TablesOK

LEMMA RequestPreserves ==
  ASSUME NEW d, Sound(d), NEW u \in Urls, NEW priority \in BOOLEAN
  PROVE  Preserves(d, EnqueueUrl(d, u, priority))
<1> DEFINE tidy == [d EXCEPT !.manual = @ \ FinishedManual(d)]
           e == AdmitCapped(tidy, u, TRUE, Budget + Reserve, TRUE)
           f == [e EXCEPT !.manual = @ \cup {u}]
<1>1. Preserves(d, tidy)
  <2>1. d.manual \ FinishedManual(d) \in SUBSET Urls /\ TablesOK(d)
    BY DEF Sound, TablesOK
  <2> QED BY <2>1, TidyPreserves
<1> HIDE DEF tidy
<1>2. Preserves(tidy, e)
  <2>1. Sound(tidy)
    BY <1>1 DEF Preserves
  <2> QED BY <2>1, AdmitPreserves
<1>3. EnqueueUrl(d, u, priority) = IF priority /\ Beginnable(e, u) THEN f ELSE e
  BY DEF EnqueueUrl, tidy
<1> HIDE DEF e
<1>4. Preserves(e, f)
  <2>1. e.manual \cup {u} \in SUBSET Urls /\ Sound(e)
    BY <1>2 DEF Preserves, Sound, TablesOK
  <2> QED BY <2>1, TidyPreserves
<1> HIDE DEF f
<1> QED BY <1>1, <1>2, <1>3, <1>4, PreservesTwice

LEMMA OutboxChange ==
  ASSUME NEW d, Sound(d), NEW outbox, outbox \subseteq Entries, NEW e, e = [d EXCEPT !.outbox = outbox],
         OutboxOf(d, e)
  PROVE  /\ Sound(e) /\ Steady(d, e)
         /\ e.url = d.url /\ e.site = d.site /\ e.round = d.round /\ e.outbox = outbox
         /\ \A w \in Webs : VisitsOK(w, d) => VisitsOK(w, e)
<1>1. DOMAIN d = Tables /\ TablesOK(d)
  BY DEF Sound, TablesOK
<1>2. /\ SameWork(d, e) /\ e.site = d.site /\ e.ready = d.ready /\ e.pendingSites = d.pendingSites
      /\ e.eligible = d.eligible /\ e.httpUrls = d.httpUrls
      /\ e.origin = d.origin /\ e.httpReady = d.httpReady /\ e.recrawls = d.recrawls
  BY <1>1 DEF SameWork, Tables
<1>3. /\ e.url = d.url /\ e.retry = d.retry /\ e.candidates = d.candidates /\ e.waiting = d.waiting
      /\ e.documents = d.documents /\ e.manual = d.manual /\ e.streak = d.streak
      /\ e.outbox = outbox /\ DOMAIN e = Tables
  BY <1>1 DEF Tables
<1>4. TablesOK(e)
  BY <1>1, <1>2, <1>3 DEF TablesOK, SameWork
<1>5. RowsOK(e) /\ UnfinishedOK(e)
  BY <1>2, <1>3 DEF Sound, SameWork, RowsOK, ThisRound, UnfinishedOK, Unsettled, InWork
<1>6. SitesOK(e) /\ CountsOK(e) /\ OriginsOK(e)
  BY <1>2, <1>3 DEF Sound, SameWork, SitesOK, ReadyOnce, InWork, CountsOK, OriginsOK, Queued
<1>7. OutboxOK(e)
  BY <1>2 DEF Sound, OutboxOK, OutboxOf, InWork
<1>8. Steady(d, e)
  BY <1>2, <1>3 DEF Steady, SameWork
<1>9. \A w \in Webs : VisitsOK(w, d) => VisitsOK(w, e)
  BY <1>2, <1>3 DEF VisitsOK, SameWork
<1>10. Sound(e)
  BY <1>4, <1>5, <1>6, <1>7, Zenon DEF Sound
<1>11. e.round = d.round
  BY <1>2 DEF SameWork
<1> QED BY <1>2, <1>3, <1>8, <1>9, <1>10, <1>11, Zenon

(* u has been offered for a page of its own site. *)
Offered(d, u) ==
  d.url[u].round = d.round \/ d.url[u].reason = "http_410" \/ d.site[Site(u)].admitted >= Budget

LEMMA OfferedLink ==
  ASSUME NEW d, Sound(d), NEW u \in Urls, InWork(d, Site(u)), NEW e, e = Admit(d, u, TRUE)
  PROVE  Offered(e, u)
<1>1. ThisRound(d, Site(u)) /\ d.site[Site(u)].state # "done"
  BY Places DEF Sound, SitesOK, InWork, ThisRound
<1>2. CASE Refused(d, u, TRUE, Budget, FALSE)
  <2>1. e = d
    BY <1>2 DEF Admit, AdmitCapped
  <2>2. Unsettled(d, u) => d.url[u].round = d.round
    BY DEF Sound, UnfinishedOK
  <2> QED BY <1>1, <1>2, <2>1, <2>2 DEF Refused, Offered
<1>3. CASE ~Refused(d, u, TRUE, Budget, FALSE)
  <2>1. TablesOK(d)
    BY DEF Sound
  <2>2. Enters(d, e, u) /\ SameWork(d, e)
    BY <2>1, <1>3, Admission DEF Admit
  <2> QED BY <2>2 DEF Enters, SameWork, Offered
<1> QED BY <1>2, <1>3

(* One step of draining the outbox. *)
Drained(d, e) ==
  \E entry \in d.outbox :
    \/ entry.links = {} /\ e = [d EXCEPT !.outbox = @ \ {entry}]
    \/ \E u \in entry.links :
         e = [Admit(d, u, Site(u) = Site(entry.url)) EXCEPT
                !.outbox = (@ \ {entry}) \cup {[entry EXCEPT !.links = @ \ {u}]}]

LEMMA DrainPreserves ==
  ASSUME NEW d, Sound(d), NEW e, Drained(d, e)
  PROVE  Preserves(d, e)
<1>1. PICK entry \in d.outbox :
        \/ entry.links = {} /\ e = [d EXCEPT !.outbox = @ \ {entry}]
        \/ \E u \in entry.links :
             e = [Admit(d, u, Site(u) = Site(entry.url)) EXCEPT
                    !.outbox = (@ \ {entry}) \cup {[entry EXCEPT !.links = @ \ {u}]}]
  BY DEF Drained
<1>2. TablesOK(d) /\ DOMAIN d = Tables /\ d.outbox \subseteq Entries /\ entry \in Entries
  BY <1>1 DEF Sound, TablesOK
<1>3. entry.url \in Urls /\ entry.links \subseteq Urls
  BY <1>2 DEF Entries
<1>4. CASE entry.links = {} /\ e = [d EXCEPT !.outbox = @ \ {entry}]
  <2> DEFINE outbox == d.outbox \ {entry}
  <2>1. outbox \subseteq Entries /\ e = [d EXCEPT !.outbox = outbox] /\ e.outbox = outbox
    BY <1>2, <1>4 DEF Tables
  <2>2. OutboxOf(d, e)
    BY <2>1 DEF OutboxOf
  <2>3. /\ Sound(e) /\ Steady(d, e)
        /\ e.url = d.url /\ e.site = d.site /\ e.round = d.round
        /\ \A w \in Webs : VisitsOK(w, d) => VisitsOK(w, e)
    <3> HIDE DEF outbox
    <3> QED BY <2>1, <2>2, OutboxChange
  <2>4. \A u, v : Covered(d, u, v) => Covered(e, u, v)
    BY <1>4, <2>1, <2>3 DEF Covered
  <2>5. \A w \in Webs : LinksOK(w, d) => LinksOK(w, e)
    BY <2>3, <2>4 DEF LinksOK
  <2> QED BY <2>3, <2>5 DEF Preserves
<1>5. ASSUME NEW u \in entry.links,
             e = [Admit(d, u, Site(u) = Site(entry.url)) EXCEPT
                    !.outbox = (@ \ {entry}) \cup {[entry EXCEPT !.links = @ \ {u}]}]
      PROVE  Preserves(d, e)
  <2> DEFINE a == Admit(d, u, Site(u) = Site(entry.url))
             rest == [entry EXCEPT !.links = @ \ {u}]
             outbox == (d.outbox \ {entry}) \cup {rest}
  <2>1. Preserves(d, a) /\ a.outbox = d.outbox
    <3>1. a = Admit(d, u, TRUE) \/ a = Admit(d, u, FALSE)
      <4>1. CASE Site(u) = Site(entry.url)
        BY <4>1
      <4>2. CASE ~(Site(u) = Site(entry.url))
        BY <4>2
      <4> QED BY <4>1, <4>2
    <3>2. ASSUME NEW b, a = Admit(d, u, b) PROVE Preserves(d, a) /\ a.outbox = d.outbox
      <4>1. u \in Urls /\ a = AdmitCapped(d, u, b, Budget, FALSE)
        BY <3>2, <1>3 DEF Admit
      <4>2. u \in Urls
        BY <4>1
      <4>3. Preserves(d, AdmitCapped(d, u, b, Budget, FALSE))
        BY <4>2, AdmitPreserves
      <4>4. SameOutbox(d, AdmitCapped(d, u, b, Budget, FALSE))
        BY <4>2, AdmitPreserves
      <4> HIDE DEF a
      <4> QED BY <4>1, <4>3, <4>4 DEF SameOutbox
    <3> QED BY <3>1, <3>2
  <2>2. Site(u) = Site(entry.url) => Offered(a, u)
    <3>1. InWork(d, Site(entry.url))
      BY DEF Sound, OutboxOK
    <3>2. ASSUME Site(u) = Site(entry.url) PROVE a = Admit(d, u, TRUE)
      BY <3>2
    <3> QED BY <3>1, <3>2, <1>3, OfferedLink
  <2> HIDE DEF a
  <2>3. Sound(a) /\ DOMAIN a = Tables
    BY <2>1 DEF Preserves, Sound, TablesOK
  <2>4. /\ rest \in Entries /\ rest.url = entry.url /\ rest.links = entry.links \ {u}
    BY <1>2 DEF Entries
  <2> HIDE DEF rest
  <2>5. outbox \subseteq Entries /\ e = [a EXCEPT !.outbox = outbox] /\ e.outbox = outbox
    <3>1. e = [a EXCEPT !.outbox = outbox]
      BY <1>5, <2>1, <2>3 DEF a, rest, Tables
    <3> QED BY <3>1, <1>2, <2>3, <2>4 DEF Tables
  <2>6. OutboxOf(a, e)
    BY <2>1, <2>4, <2>5, <1>1 DEF OutboxOf
  <2>7. /\ Sound(e) /\ Steady(a, e)
        /\ e.url = a.url /\ e.site = a.site /\ e.round = a.round
        /\ \A w \in Webs : VisitsOK(w, a) => VisitsOK(w, e)
    <3> HIDE DEF outbox
    <3> QED BY <2>3, <2>5, <2>6, OutboxChange
  <2>8. ASSUME NEW x, NEW v, Site(v) = Site(x), Covered(a, x, v) PROVE Covered(e, x, v)
    <3>1. CASE \E old \in a.outbox : old.url = x /\ v \in old.links
      <4>1. PICK old \in a.outbox : old.url = x /\ v \in old.links
        BY <3>1
      <4>2. CASE old # entry
        BY <4>1, <4>2, <2>1, <2>5 DEF Covered
      <4>3. CASE old = entry /\ v # u
        BY <4>1, <4>3, <2>4, <2>5 DEF Covered
      <4>4. CASE old = entry /\ v = u
        BY <4>1, <4>4, <2>2, <2>7, <2>8 DEF Covered, Offered
      <4> QED BY <4>2, <4>3, <4>4
    <3>2. CASE ~ \E old \in a.outbox : old.url = x /\ v \in old.links
      BY <3>2, <2>7, <2>8 DEF Covered
    <3> QED BY <3>1, <3>2
  <2>9. \A w \in Webs : LinksOK(w, a) => LinksOK(w, e)
    BY <2>7, <2>8 DEF LinksOK
  <2>10. Preserves(a, e)
    BY <2>7, <2>9 DEF Preserves
  <2> QED BY <2>1, <2>10, PreservesTwice
<1> QED BY <1>1, <1>4, <1>5

-----------------------------------------------------------------------------
(* Recrawls *)

LEMMA RequeuedJoins ==
  ASSUME NEW d, Sound(d), NEW u \in Urls, NEW due \in Times, d.url[u].state = "committed",
         d.site[Site(u)].state # "active", NEW e, e = Requeued(d, due, u)
  PROVE  /\ TablesOK(e) /\ Joins(d, e, u) /\ SameWork(d, e) /\ e.outbox = d.outbox
         /\ \A x \in d.recrawls : x[2] # u => x \in e.recrawls
<1> DEFINE s == Site(u)
           site == IF d.site[s].round = d.round THEN d.site[s]
                   ELSE [d.site[s] EXCEPT !.round = d.round, !.admitted = 0]
           sooner == Sooner(site.due, due)
           reopened == site.state = "done"
           others == IF reopened THEN d.ready ELSE d.ready \ {<<site.due, s>>}
           row == [d.url[u] EXCEPT !.round = d.round, !.state = "pending", !.fetch = None,
                                   !.failures = 0, !.reason = "none", !.due = due]
           place == [site EXCEPT !.state = "pending", !.due = sooner]
           x == [d EXCEPT !.site[s] = place,
                          !.ready = others \cup {<<sooner, s>>},
                          !.pendingSites = IF reopened THEN @ + 1 ELSE @,
                          !.url[u] = row,
                          !.eligible = @ \cup {u}]
           y == QueueHttpOrigin(x, u)
<1>1. OriginOf[u] \in Origins /\ s \in Sites
  BY Places
<1>2. /\ TablesOK(d) /\ DOMAIN d = Tables /\ d.url \in [Urls -> UrlRows] /\ d.site \in [Sites -> SiteRows]
      /\ d.round \in Nat \ {0} /\ d.url[u] \in UrlRows /\ d.site[s] \in SiteRows
  BY <1>1 DEF Sound, TablesOK
<1>3. e = [y EXCEPT !.recrawls = @ \ {<<due, u>>}]
  BY DEF Requeued
<1>4. /\ d.site[s].state \in {"pending", "done"}
      /\ d.site[s].state = "pending" => d.site[s].round = d.round
      /\ ReadyOnce(d, s)
  <2>1. d.site[s].state # "absent"
    BY DEF Sound, RowsOK
  <2>2. d.site[s].state = "pending" => d.site[s].round = d.round
    BY <1>1 DEF Sound, SitesOK, InWork
  <2>3. ReadyOnce(d, s)
    BY <1>1 DEF Sound, SitesOK
  <2> QED BY <2>1, <2>2, <2>3, <1>2 DEF SiteRows
<1>5. /\ site \in SiteRows /\ site.round = d.round /\ site.state = d.site[s].state
      /\ site.due = d.site[s].due
      /\ ThisRound(d, s) => site.admitted = d.site[s].admitted
  <2>1. CASE d.site[s].round = d.round
    BY <2>1, <1>2
  <2>2. CASE d.site[s].round # d.round
    <3>1. [d.site[s] EXCEPT !.round = d.round] \in SiteRows
      BY <1>2, SiteRow
    <3>2. site \in SiteRows
      BY <2>2, <3>1, SiteRow
    <3>3. site.round = d.round /\ site.state = d.site[s].state /\ site.due = d.site[s].due
      BY <2>2, <1>2 DEF SiteRows
    <3> QED BY <2>2, <3>2, <3>3 DEF ThisRound
  <2> QED BY <2>1, <2>2
<1>6. sooner \in Times
  BY <1>5, Clock DEF SiteRows
<1> HIDE DEF site, sooner
<1>7. /\ place \in SiteRows /\ place.round = d.round /\ place.state = "pending" /\ place.due = sooner
      /\ place.admitted = site.admitted
  <2>1. [site EXCEPT !.state = "pending"] \in SiteRows
    BY <1>5, SiteRow
  <2>2. place \in SiteRows
    BY <2>1, <1>6, SiteRow
  <2> QED BY <2>2, <1>5 DEF SiteRows
<1>8. /\ row \in UrlRows /\ row.round = d.round /\ row.state = "pending" /\ row.fetch = None
      /\ row.failures = 0
  <2>1. [d.url[u] EXCEPT !.round = d.round] \in UrlRows
    BY <1>2, UrlRow
  <2>2. [d.url[u] EXCEPT !.round = d.round, !.state = "pending"] \in UrlRows
    BY <2>1, UrlRow
  <2>3. [d.url[u] EXCEPT !.round = d.round, !.state = "pending", !.fetch = None] \in UrlRows
    BY <2>2, UrlRow
  <2>4. 0 \in 0 .. MaxAttempts /\ "none" \in Reasons
    BY TableAssumptions DEF Reasons
  <2>5. [d.url[u] EXCEPT !.round = d.round, !.state = "pending", !.fetch = None, !.failures = 0]
        \in UrlRows
    BY <2>3, <2>4, UrlRow
  <2>6. [d.url[u] EXCEPT !.round = d.round, !.state = "pending", !.fetch = None, !.failures = 0,
                         !.reason = "none"] \in UrlRows
    BY <2>4, <2>5, UrlRow
  <2>7. row \in UrlRows
    BY <2>6, UrlRow
  <2> QED BY <2>7, <1>2 DEF UrlRows
<1> HIDE DEF place, row
<1>9. /\ x.site = [d.site EXCEPT ![s] = place] /\ x.url = [d.url EXCEPT ![u] = row]
      /\ x.ready = others \cup {<<sooner, s>>}
      /\ x.pendingSites = IF reopened THEN d.pendingSites + 1 ELSE d.pendingSites
      /\ x.eligible = d.eligible \cup {u}
      /\ x.origin = d.origin /\ x.httpReady = d.httpReady /\ x.httpUrls = d.httpUrls
      /\ DOMAIN x = Tables
  BY <1>2 DEF Tables
<1>10. /\ SameWork(d, x) /\ x.retry = d.retry
       /\ x.outbox = d.outbox /\ x.candidates = d.candidates /\ x.waiting = d.waiting
       /\ x.documents = d.documents /\ x.recrawls = d.recrawls /\ x.manual = d.manual
       /\ x.streak = d.streak
  BY <1>2 DEF Tables, SameWork
<1> HIDE DEF x
<1>11. TablesOK(x)
  <2>1. x.site \in [Sites -> SiteRows] /\ x.url \in [Urls -> UrlRows]
    BY <1>9, <1>2, <1>7, <1>8
  <2>2. x.ready \subseteq Times \X Sites /\ x.pendingSites \in Int
    BY <1>1, <1>2, <1>6, <1>9 DEF TablesOK
  <2> QED BY <2>1, <2>2, <1>2, <1>9, <1>10 DEF TablesOK, SameWork
<1>12. /\ TablesOK(y) /\ SameButOrigins(x, y) /\ OthersKept(x, y, OriginOf[u])
       /\ y.httpUrls = x.httpUrls \cup {u} /\ y.origin[OriginOf[u]].round = x.url[u].round
       /\ \/ y.httpActive[Site(u)] = OriginOf[u]
          \/ <<y.origin[OriginOf[u]].due, OriginOf[u]>> \in y.httpReady
  BY <1>11, QueueOrigin
<1> HIDE DEF y
<1>13. /\ e.round = y.round /\ e.url = y.url /\ e.site = y.site /\ e.retry = y.retry
       /\ e.eligible = y.eligible /\ e.httpActive = y.httpActive
       /\ e.ready = y.ready /\ e.active = y.active
       /\ e.leases = y.leases /\ e.commits = y.commits /\ e.outbox = y.outbox
       /\ e.candidates = y.candidates /\ e.waiting = y.waiting /\ e.documents = y.documents
       /\ e.resource = y.resource /\ e.recrawls = y.recrawls \ {<<due, u>>}
       /\ e.manual = y.manual /\ e.streak = y.streak
       /\ e.pendingSites = y.pendingSites /\ e.activeSites = y.activeSites
       /\ e.origin = y.origin /\ e.httpReady = y.httpReady /\ e.httpUrls = y.httpUrls
       /\ DOMAIN e = Tables
  <2>1. DOMAIN y = Tables
    BY <1>12 DEF TablesOK
  <2> QED BY <2>1, <1>3 DEF Tables
<1>14. TablesOK(e)
  BY <1>12, <1>13 DEF TablesOK
<1>15. SameWork(d, e) /\ e.outbox = d.outbox /\ \A z \in d.recrawls : z[2] # u => z \in e.recrawls
  BY <1>10, <1>12, <1>13 DEF SameWork, SameButOrigins
<1>16. Joins(d, e, u)
  <2>1. /\ e.url[u].round = d.round /\ e.url[u].state = "pending" /\ e.url[u].fetch = None
        /\ e.url[u].failures = 0
        /\ \A v \in Urls : v # u => e.url[v] = d.url[v]
    BY <1>2, <1>8, <1>9, <1>12, <1>13 DEF SameButOrigins
  <2>2. e.site[s] = place /\ \A t \in Sites : t # s => e.site[t] = d.site[t]
    BY <1>1, <1>2, <1>9, <1>12, <1>13 DEF SameButOrigins
  <2>3. Opens(d, s) <=> reopened
    BY <1>4, <1>5 DEF Opens, ThisRound
  <2>4. /\ e.site[s].round = d.round /\ e.site[s].state = "pending"
        /\ e.site[s].state = IF Opens(d, s) THEN "pending" ELSE d.site[s].state
    BY <2>2, <2>3, <1>4, <1>5, <1>7
  <2>5. ThisRound(d, s) => e.site[s].admitted >= d.site[s].admitted
    BY <2>2, <1>2, <1>5, <1>7 DEF SiteRows
  <2>6. e.ready = (d.ready \ {<<d.site[s].due, s>>}) \cup {<<e.site[s].due, s>>}
    <3>1. e.ready = others \cup {<<e.site[s].due, s>>}
      BY <2>2, <1>7, <1>9, <1>12, <1>13 DEF SameButOrigins
    <3>2. reopened => {z \in d.ready : z[2] = s} = {}
      BY <1>4, <1>5 DEF ReadyOnce
    <3>3. reopened => d.ready = d.ready \ {<<d.site[s].due, s>>}
      BY <3>2
    <3> QED BY <3>1, <3>3, <1>5
  <2>7. e.pendingSites = IF Opens(d, s) THEN d.pendingSites + 1 ELSE d.pendingSites
    BY <2>3, <1>9, <1>12, <1>13 DEF SameButOrigins
  <2>8. e.eligible = d.eligible \cup {u} /\ e.httpUrls = d.httpUrls \cup {u}
    BY <1>9, <1>12, <1>13 DEF SameButOrigins
  <2>9. OthersKept(d, e, OriginOf[u])
    BY <1>9, <1>12, <1>13 DEF OthersKept
  <2>10. e.origin[OriginOf[u]].round = d.round
    BY <1>8, <1>2, <1>9, <1>12, <1>13
  <2>11. \/ e.httpActive[s] = OriginOf[u]
         \/ <<e.origin[OriginOf[u]].due, OriginOf[u]>> \in e.httpReady
    BY <1>12, <1>13
  <2> HIDE DEF s
  <2> QED BY <2>1, <2>2, <2>4, <2>5, <2>6, <2>7, <2>8, <2>9, <2>10, <2>11 DEF Joins, s
<1> QED BY <1>14, <1>15, <1>16

LEMMA RecrawlPreserves ==
  ASSUME NEW d, Sound(d), NEW entry \in d.recrawls
  PROVE  Preserves(d, RequeueRecrawl(d, entry[1], entry[2]))
<1> DEFINE due == entry[1]
           u == entry[2]
           e == RequeueRecrawl(d, due, u)
<1>1. u \in Urls /\ due \in Times /\ TablesOK(d) /\ DOMAIN d = Tables
  BY DEF Sound, TablesOK
<1>2. CASE d.url[u].state # "committed"
  <2>1. e = [d EXCEPT !.recrawls = @ \ {<<due, u>>}]
    BY <1>2 DEF RequeueRecrawl
  <2> HIDE DEF e
  <2>2. /\ SameWork(d, e) /\ e.site = d.site /\ e.ready = d.ready /\ e.pendingSites = d.pendingSites
        /\ e.eligible = d.eligible /\ e.httpUrls = d.httpUrls
        /\ e.origin = d.origin /\ e.httpReady = d.httpReady /\ e.outbox = d.outbox
        /\ e.recrawls = d.recrawls \ {<<due, u>>}
        /\ e.url = d.url /\ e.retry = d.retry /\ e.candidates = d.candidates /\ e.waiting = d.waiting
        /\ e.documents = d.documents /\ e.manual = d.manual /\ e.streak = d.streak
        /\ DOMAIN e = Tables
    BY <2>1, <1>1 DEF SameWork, Tables
  <2>3. TablesOK(e)
    BY <2>2, <1>1 DEF TablesOK, SameWork
  <2>4. RowsOK(e) /\ UnfinishedOK(e) /\ SitesOK(e) /\ CountsOK(e) /\ OriginsOK(e) /\ OutboxOK(e)
    <3>1. RowsOK(e) /\ UnfinishedOK(e)
      BY <2>2 DEF Sound, SameWork, RowsOK, ThisRound, UnfinishedOK, Unsettled, InWork
    <3>2. SitesOK(e) /\ CountsOK(e) /\ OriginsOK(e) /\ OutboxOK(e)
      BY <2>2 DEF Sound, SameWork, SitesOK, ReadyOnce, InWork, CountsOK, OriginsOK, Queued, OutboxOK
    <3> QED BY <3>1, <3>2
  <2>5. Steady(d, e)
    BY <2>2 DEF Steady, SameWork, OutboxOf
  <2>6. \A w \in Webs : LinksOK(w, d) => LinksOK(w, e)
    BY <2>2 DEF LinksOK, Covered, SameWork
  <2>7. \A w \in Webs : VisitsOK(w, d) => VisitsOK(w, e)
    BY <2>2, <1>2 DEF VisitsOK, SameWork
  <2> QED BY <2>3, <2>4, <2>5, <2>6, <2>7 DEF Preserves, Sound, e
<1>3. CASE d.url[u].state = "committed" /\ (\/ d.site[Site(u)].state = "active"
                                            \/ d.site[Site(u)].state = "done" /\ Full(d))
  BY <1>3, PreservesSame DEF RequeueRecrawl
<1>4. CASE d.url[u].state = "committed" /\ ~(\/ d.site[Site(u)].state = "active"
                                             \/ d.site[Site(u)].state = "done" /\ Full(d))
  <2>1. e = Requeued(d, due, u)
    BY <1>4 DEF RequeueRecrawl
  <2> HIDE DEF e, due, u
  <2>2. /\ TablesOK(e) /\ Joins(d, e, u) /\ SameWork(d, e) /\ e.outbox = d.outbox
        /\ \A x \in d.recrawls : x[2] # u => x \in e.recrawls
    BY <2>1, <1>1, <1>4, RequeuedJoins
  <2>3. ~Unsettled(d, u)
    BY <1>4 DEF Unsettled
  <2>4. Preserves(d, e)
    BY <2>2, <2>3, <1>1, EntryPreserves
  <2> QED BY <2>4 DEF e, due, u
<1> QED BY <1>2, <1>3, <1>4

-----------------------------------------------------------------------------
(* Turns *)

KeepsLinks(d, e) ==
  \A w \in Webs : /\ LinksOK(w, d) => LinksOK(w, e)
                  /\ VisitsOK(w, d) => VisitsOK(w, e)

LEMMA ClaimSound ==
  ASSUME NEW d, Sound(d), NEW u \in Urls, d.site[Site(u)].state = "pending", NEW streak \in 0 .. 3,
         NEW e, e = ClaimUrl(d, u, streak)
  PROVE  /\ Sound(e) /\ KeepsLinks(d, e)
         /\ e.url = d.url /\ e.leases = d.leases /\ e.commits = d.commits /\ e.outbox = d.outbox
         /\ e.active = d.active \cup {Site(u)}
<1> DEFINE s == Site(u)
           o == OriginOf[u]
           old == <<d.site[s].due, s>>
<1>1. o \in Origins /\ s \in Sites /\ SiteOf[o] = s
  BY Places DEF Site
<1>2. TablesOK(d) /\ DOMAIN d = Tables /\ d.site \in [Sites -> SiteRows]
      /\ d.httpActive \in [Sites -> Origins \cup {None}]
  BY DEF Sound, TablesOK
<1>3. /\ e.site = [d.site EXCEPT ![s].state = "active"]
      /\ e.httpActive = [d.httpActive EXCEPT ![s] = o]
      /\ e.httpReady = d.httpReady \ {<<d.origin[o].due, o>>}
      /\ e.ready = d.ready \ {old} /\ e.active = d.active \cup {s}
      /\ e.pendingSites = d.pendingSites - 1 /\ e.activeSites = d.activeSites + 1
      /\ e.streak = streak /\ DOMAIN e = Tables
  BY <1>2 DEF ClaimUrl, Tables
<1>4. /\ e.round = d.round /\ e.url = d.url /\ e.origin = d.origin /\ e.retry = d.retry
      /\ e.eligible = d.eligible /\ e.httpUrls = d.httpUrls /\ e.leases = d.leases
      /\ e.commits = d.commits /\ e.outbox = d.outbox /\ e.candidates = d.candidates
      /\ e.waiting = d.waiting /\ e.documents = d.documents /\ e.resource = d.resource
      /\ e.recrawls = d.recrawls /\ e.manual = d.manual
  BY <1>2 DEF ClaimUrl, Tables
<1>5. /\ d.site[s].round = d.round /\ s \notin d.active /\ d.httpActive[s] = None
      /\ {x \in d.ready : x[2] = s} = {old}
  BY <1>1 DEF Sound, SitesOK, InWork, ReadyOnce
<1>6. /\ e.site[s].state = "active" /\ e.site[s].round = d.site[s].round
      /\ e.site[s].due = d.site[s].due /\ e.site[s].admitted = d.site[s].admitted
      /\ \A t \in Sites : t # s => e.site[t] = d.site[t]
  BY <1>1, <1>2, <1>3 DEF SiteRows
<1>7. TablesOK(e)
  <2>1. [d.site[s] EXCEPT !.state = "active"] \in SiteRows
    BY <1>1, <1>2, SiteRow
  <2>2. e.site \in [Sites -> SiteRows]
    BY <1>2, <1>3, <2>1
  <2>3. e.httpActive \in [Sites -> Origins \cup {None}]
    BY <1>1, <1>2, <1>3
  <2> HIDE DEF old
  <2>4. /\ e.httpReady \subseteq Times \X Origins /\ e.ready \subseteq Times \X Sites
        /\ e.active \subseteq Sites /\ e.pendingSites \in Int /\ e.activeSites \in Int
    BY <1>1, <1>2, <1>3 DEF TablesOK
  <2> HIDE DEF s
  <2> QED BY <1>2, <1>3, <1>4, <2>2, <2>3, <2>4 DEF TablesOK
<1>8. RowsOK(e)
  <2> SUFFICES ASSUME NEW v \in Urls
               PROVE  /\ e.url[v].round <= e.round
                      /\ e.url[v].state # "absent" => e.site[Site(v)].state # "absent"
                      /\ e.url[v].state # "absent" /\ e.url[v].round = e.round => ThisRound(e, Site(v))
    BY DEF RowsOK
  <2>1. Site(v) \in Sites
    BY Places
  <2>2. CASE Site(v) = s
    BY <2>2, <1>4, <1>5, <1>6 DEF Sound, RowsOK, ThisRound
  <2>3. CASE Site(v) # s
    BY <2>1, <2>3, <1>4, <1>6 DEF Sound, RowsOK, ThisRound
  <2> QED BY <2>2, <2>3
<1>9. \A t \in Sites : InWork(d, t) => InWork(e, t)
  BY <1>6 DEF InWork
<1>10. UnfinishedOK(e) /\ OutboxOK(e)
  <2>1. UnfinishedOK(e)
    BY <1>4, <1>9, Places DEF Sound, UnfinishedOK, Unsettled
  <2>2. d.outbox \subseteq Entries
    BY <1>2 DEF TablesOK
  <2>3. \A entry \in d.outbox : Site(entry.url) \in Sites
    BY <2>2, Places DEF Entries
  <2>4. OutboxOK(e)
    BY <2>3, <1>4, <1>9 DEF Sound, OutboxOK
  <2> QED BY <2>1, <2>4
<1>11. SitesOK(e)
  <2> SUFFICES ASSUME NEW t \in Sites
               PROVE  /\ ReadyOnce(e, t)
                      /\ t \in e.active <=> e.site[t].state = "active"
                      /\ InWork(e, t) => e.site[t].round = e.round
                      /\ e.httpActive[t] # None => t \in e.active
    BY DEF SitesOK
  <2>1. CASE t = s
    <3>1. {x \in e.ready : x[2] = s} = {}
      BY <1>3, <1>5
    <3> QED BY <3>1, <2>1, <1>3, <1>4, <1>5, <1>6 DEF ReadyOnce
  <2>2. CASE t # s
    <3>1. /\ ReadyOnce(d, t) /\ (t \in d.active <=> d.site[t].state = "active")
          /\ InWork(d, t) => d.site[t].round = d.round
          /\ d.httpActive[t] # None => t \in d.active
      BY DEF Sound, SitesOK
    <3>2. {x \in e.ready : x[2] = t} = {x \in d.ready : x[2] = t}
      BY <2>2, <1>3
    <3>3. e.site[t] = d.site[t] /\ e.httpActive[t] = d.httpActive[t]
      BY <2>2, <1>2, <1>3, <1>6
    <3> QED BY <3>1, <3>2, <3>3, <2>2, <1>3, <1>4 DEF ReadyOnce, InWork
  <2> QED BY <2>1, <2>2
<1>12. CountsOK(e)
  <2>1. CountsOK(d) /\ old \in d.ready
    BY <1>5 DEF Sound
  <2> HIDE DEF old, s
  <2>2. IsFiniteSet(e.ready) /\ Cardinality(e.ready) = Cardinality(d.ready) - 1
    BY <2>1, <1>3, LessEntry DEF CountsOK
  <2>3. IsFiniteSet(e.active) /\ Cardinality(e.active) = Cardinality(d.active) + 1
    BY <2>1, <1>3, <1>5, NewEntry DEF CountsOK
  <2> QED BY <2>1, <2>2, <2>3, <1>3 DEF CountsOK
<1>13. OriginsOK(e)
  <2> SUFFICES ASSUME NEW v \in Urls, e.url[v].state = "pending"
               PROVE  /\ v \in e.eligible /\ v \in e.httpUrls
                      /\ e.origin[OriginOf[v]].round # 0
                      /\ Queued(e, OriginOf[v])
    BY DEF OriginsOK
  <2>1. /\ v \in d.eligible /\ v \in d.httpUrls /\ d.origin[OriginOf[v]].round # 0
        /\ Queued(d, OriginOf[v]) /\ OriginOf[v] \in Origins /\ SiteOf[OriginOf[v]] \in Sites
        /\ OriginOf[v] # None
    BY <1>4, Places DEF Sound, OriginsOK, Site
  <2>2. CASE OriginOf[v] = o
    BY <2>1, <2>2, <1>1, <1>2, <1>3, <1>4 DEF Queued
  <2>3. CASE OriginOf[v] # o
    <3>1. d.httpActive[SiteOf[OriginOf[v]]] = OriginOf[v]
          => e.httpActive[SiteOf[OriginOf[v]]] = OriginOf[v]
      BY <2>1, <1>2, <1>3, <1>5
    <3>2. <<d.origin[OriginOf[v]].due, OriginOf[v]>> \in d.httpReady
          => <<e.origin[OriginOf[v]].due, OriginOf[v]>> \in e.httpReady
      BY <2>3, <1>3, <1>4
    <3> QED BY <2>1, <3>1, <3>2, <1>4 DEF Queued
  <2> QED BY <2>2, <2>3
<1>14. KeepsLinks(d, e)
  <2>1. ASSUME NEW x \in Urls, NEW v, Covered(d, x, v) PROVE Covered(e, x, v)
    <3>1. e.site[Site(x)].admitted = d.site[Site(x)].admitted
      BY <1>6, Places
    <3> QED BY <2>1, <3>1, <1>4 DEF Covered
  <2>2. \A w \in Webs : LinksOK(w, d) => LinksOK(w, e)
    BY <2>1, <1>4 DEF LinksOK
  <2>3. \A w \in Webs : VisitsOK(w, d) => VisitsOK(w, e)
    BY <1>4 DEF VisitsOK
  <2> QED BY <2>2, <2>3 DEF KeepsLinks
<1> QED BY <1>3, <1>4, <1>7, <1>8, <1>10, <1>11, <1>12, <1>13, <1>14 DEF Sound

LEMMA BeginSound ==
  ASSUME NEW d, Sound(d), NEW u \in Urls, Beginnable(d, u), NEW n \in Nat, <<u, n>> \notin d.commits,
         NEW e, e = BeginUrl(d, u, n)
  PROVE  /\ Sound(e) /\ KeepsLinks(d, e)
         /\ e.url[u].state = "leased" /\ e.url[u].fetch = n
         /\ \A v \in Urls : v # u => e.url[v] = d.url[v]
         /\ e.commits = d.commits /\ e.outbox = d.outbox /\ e.active = d.active
<1>1. TablesOK(d) /\ DOMAIN d = Tables /\ d.url \in [Urls -> UrlRows]
  BY DEF Sound, TablesOK
<1>2. /\ e.url = [d.url EXCEPT ![u].state = "leased", ![u].fetch = n]
      /\ e.leases = d.leases \cup {<<u, n>>}
      /\ e.eligible = d.eligible \ {u} /\ e.httpUrls = d.httpUrls \ {u} /\ DOMAIN e = Tables
  BY <1>1 DEF BeginUrl, Tables
<1>3. /\ e.round = d.round /\ e.site = d.site /\ e.origin = d.origin /\ e.retry = d.retry
      /\ e.httpReady = d.httpReady /\ e.httpActive = d.httpActive /\ e.ready = d.ready
      /\ e.active = d.active /\ e.commits = d.commits /\ e.outbox = d.outbox
      /\ e.candidates = d.candidates /\ e.waiting = d.waiting /\ e.documents = d.documents
      /\ e.resource = d.resource /\ e.recrawls = d.recrawls /\ e.manual = d.manual
      /\ e.streak = d.streak /\ e.pendingSites = d.pendingSites /\ e.activeSites = d.activeSites
  BY <1>1 DEF BeginUrl, Tables
<1>4. /\ e.url[u].state = "leased" /\ e.url[u].fetch = n
      /\ e.url[u].round = d.url[u].round /\ e.url[u].failures = d.url[u].failures
      /\ e.url[u].reason = d.url[u].reason
      /\ \A v \in Urls : v # u => e.url[v] = d.url[v]
  BY <1>1, <1>2 DEF UrlRows
<1>5. TablesOK(e)
  <2>1. [d.url[u] EXCEPT !.state = "leased"] \in UrlRows
    BY <1>1, UrlRow
  <2>2. [d.url[u] EXCEPT !.state = "leased", !.fetch = n] \in UrlRows
    BY <2>1, UrlRow
  <2>3. e.url = [d.url EXCEPT ![u] = [d.url[u] EXCEPT !.state = "leased", !.fetch = n]]
    BY <1>1, <1>2
  <2>4. e.url \in [Urls -> UrlRows]
    BY <1>1, <2>2, <2>3
  <2> QED BY <2>4, <1>1, <1>2, <1>3 DEF TablesOK
<1>6. RowsOK(e)
  BY <1>3, <1>4 DEF Sound, RowsOK, ThisRound, Beginnable
<1>7. UnfinishedOK(e)
  <2> SUFFICES ASSUME NEW v \in Urls, Unsettled(e, v)
               PROVE  /\ e.url[v].round = e.round /\ e.url[v].failures < MaxAttempts
                      /\ InWork(e, Site(v))
                      /\ <<v, e.url[v].fetch>> \notin e.commits
                      /\ e.url[v].state = "leased" => <<v, e.url[v].fetch>> \in e.leases
    BY DEF UnfinishedOK
  <2>1. Unsettled(d, v)
    BY <1>4 DEF Unsettled, Beginnable
  <2>2. CASE v = u
    BY <2>1, <2>2, <1>2, <1>3, <1>4 DEF Sound, UnfinishedOK, InWork
  <2>3. CASE v # u
    BY <2>1, <2>3, <1>2, <1>3, <1>4 DEF Sound, UnfinishedOK, InWork
  <2> QED BY <2>2, <2>3
<1>8. SitesOK(e) /\ CountsOK(e) /\ OutboxOK(e)
  BY <1>3 DEF Sound, SitesOK, ReadyOnce, InWork, CountsOK, OutboxOK
<1>9. OriginsOK(e)
  BY <1>2, <1>3, <1>4 DEF Sound, OriginsOK, Queued
<1>10. KeepsLinks(d, e)
  <2>1. ASSUME NEW w \in Webs, LinksOK(w, d) PROVE LinksOK(w, e)
    <3> SUFFICES ASSUME NEW x \in Urls, e.url[x].state = "committed", e.url[x].round = e.round,
                        NEW v \in w.links[x], Site(v) = Site(x)
                 PROVE  Covered(e, x, v)
      BY DEF LinksOK
    <3>1. v \in Urls /\ x # u
      BY WebAssumptions, <1>4
    <3>2. Covered(d, x, v)
      BY <2>1, <3>1, <1>3, <1>4 DEF LinksOK
    <3> QED BY <3>1, <3>2, <1>3, <1>4 DEF Covered
  <2>2. ASSUME NEW w \in Webs, VisitsOK(w, d) PROVE VisitsOK(w, e)
    BY <2>2, <1>3, <1>4 DEF VisitsOK
  <2> QED BY <2>1, <2>2 DEF KeepsLinks
<1> QED BY <1>3, <1>4, <1>5, <1>6, <1>7, <1>8, <1>9, <1>10 DEF Sound

LEMMA CommitSound ==
  ASSUME NEW d, Sound(d), NEW u \in Urls, NEW n \in Nat, CaptureMatches(d, u, n),
         NEW w \in Webs, LinksOK(w, d), VisitsOK(w, d), NEW next \in Times,
         NEW e, e = CommitCapture(d, u, n, w.links[u], w.recrawl, next)
  PROVE  /\ Sound(e) /\ LinksOK(w, e) /\ VisitsOK(w, e)
         /\ e.url[u].state = "committed" /\ e.url[u].fetch = n
         /\ \A v \in Urls : v # u => e.url[v] = d.url[v]
         /\ e.commits = d.commits \cup {<<u, n>>} /\ e.active = d.active
         /\ e.outbox = d.outbox \cup {[url |-> u, fetch |-> n, links |-> w.links[u]]}
<1> DEFINE o == OriginOf[u]
           old == d.resource[u]
           entry == [url |-> u, fetch |-> n, links |-> w.links[u]]
           x == [d EXCEPT !.url[u].state = "committed", !.url[u].cont = None,
                          !.leases = @ \ {<<u, n>>},
                          !.eligible = @ \ {u}, !.httpUrls = @ \ {u}]
           y == Reschedule(x, o, d.url[u].due)
           visits == (d.recrawls \ {<<old, u>>}) \cup (IF w.recrawl THEN {<<next, u>>} ELSE {})
<1>1. /\ TablesOK(d) /\ DOMAIN d = Tables /\ d.url \in [Urls -> UrlRows] /\ d.url[u] \in UrlRows
      /\ d.url[u].fetch = n /\ Unsettled(d, u) /\ d.url[u].due \in Times
      /\ o \in Origins
  BY Places DEF Sound, TablesOK, CaptureMatches, UrlRows
<1>2. <<u, n>> \notin d.commits
  BY <1>1 DEF Sound, UnfinishedOK
<1>3. e = [y EXCEPT !.commits = @ \cup {<<u, n>>}, !.outbox = @ \cup {entry}, !.resource[u] = next,
                    !.recrawls = (@ \ {<<old, u>>}) \cup (IF w.recrawl THEN {<<next, u>>} ELSE {})]
  BY <1>2 DEF CommitCapture
<1>4. /\ x.url = [d.url EXCEPT ![u].state = "committed", ![u].cont = None]
      /\ x.leases = d.leases \ {<<u, n>>}
      /\ x.eligible = d.eligible \ {u} /\ x.httpUrls = d.httpUrls \ {u} /\ DOMAIN x = Tables
  BY <1>1 DEF Tables
<1>5. /\ x.round = d.round /\ x.site = d.site /\ x.origin = d.origin /\ x.retry = d.retry
      /\ x.httpReady = d.httpReady /\ x.httpActive = d.httpActive /\ x.ready = d.ready
      /\ x.active = d.active /\ x.commits = d.commits /\ x.outbox = d.outbox
      /\ x.candidates = d.candidates /\ x.waiting = d.waiting /\ x.documents = d.documents
      /\ x.resource = d.resource /\ x.recrawls = d.recrawls /\ x.manual = d.manual
      /\ x.streak = d.streak /\ x.pendingSites = d.pendingSites /\ x.activeSites = d.activeSites
  BY <1>1 DEF Tables
<1> HIDE DEF x
<1>6. TablesOK(x)
  <2>1. [d.url[u] EXCEPT !.state = "committed"] \in UrlRows
    BY <1>1, UrlRow
  <2>2. [d.url[u] EXCEPT !.state = "committed", !.cont = None] \in UrlRows
    BY <2>1, UrlRow
  <2>3. x.url = [d.url EXCEPT ![u] = [d.url[u] EXCEPT !.state = "committed", !.cont = None]]
    BY <1>1, <1>4
  <2>4. x.url \in [Urls -> UrlRows]
    BY <1>1, <2>2, <2>3
  <2> QED BY <2>4, <1>1, <1>4, <1>5 DEF TablesOK
<1>7. /\ TablesOK(y) /\ SameButOrigins(x, y) /\ OthersKept(x, y, o)
      /\ y.httpUrls = x.httpUrls /\ y.origin[o].round = x.origin[o].round
      /\ x.origin[o].round # 0 /\ (\E v \in x.httpUrls : OriginOf[v] = o)
         => <<y.origin[o].due, o>> \in y.httpReady
  BY <1>1, <1>6, Rescheduling
<1> HIDE DEF y, entry, old, visits
<1>8. /\ e.commits = y.commits \cup {<<u, n>>} /\ e.outbox = y.outbox \cup {entry}
      /\ e.resource = [y.resource EXCEPT ![u] = next]
      /\ e.recrawls = (y.recrawls \ {<<old, u>>}) \cup (IF w.recrawl THEN {<<next, u>>} ELSE {})
      /\ DOMAIN e = Tables
  BY <1>3, <1>7 DEF TablesOK, Tables
<1>9. /\ e.round = y.round /\ e.url = y.url /\ e.site = y.site /\ e.origin = y.origin
      /\ e.retry = y.retry /\ e.eligible = y.eligible /\ e.httpUrls = y.httpUrls
      /\ e.httpReady = y.httpReady /\ e.httpActive = y.httpActive /\ e.ready = y.ready
      /\ e.active = y.active /\ e.leases = y.leases /\ e.candidates = y.candidates
      /\ e.waiting = y.waiting /\ e.documents = y.documents /\ e.manual = y.manual
      /\ e.streak = y.streak /\ e.pendingSites = y.pendingSites /\ e.activeSites = y.activeSites
  BY <1>3, <1>7 DEF TablesOK, Tables
<1>10. /\ e.commits = d.commits \cup {<<u, n>>} /\ e.outbox = d.outbox \cup {entry}
       /\ e.resource = [d.resource EXCEPT ![u] = next]
       /\ e.recrawls = visits
       /\ e.leases = d.leases \ {<<u, n>>}
       /\ e.eligible = d.eligible \ {u} /\ e.httpUrls = d.httpUrls \ {u}
       /\ e.url = [d.url EXCEPT ![u].state = "committed", ![u].cont = None]
  BY <1>4, <1>5, <1>7, <1>8, <1>9 DEF SameButOrigins, visits
<1>11. /\ e.round = d.round /\ e.site = d.site /\ e.httpActive = d.httpActive /\ e.ready = d.ready
       /\ e.active = d.active /\ e.pendingSites = d.pendingSites /\ e.activeSites = d.activeSites
  BY <1>5, <1>7, <1>9 DEF SameButOrigins
<1>12. /\ e.url[u].state = "committed" /\ e.url[u].fetch = n
       /\ e.url[u].round = d.url[u].round /\ e.url[u].reason = d.url[u].reason
       /\ \A v \in Urls : v # u => e.url[v] = d.url[v]
  BY <1>1, <1>10 DEF UrlRows
<1>13. entry \in Entries /\ entry.url = u /\ entry.links = w.links[u]
  BY WebAssumptions DEF Entries, entry
<1>14. TablesOK(e)
  <2>1. e.commits \subseteq Urls \X Nat /\ e.outbox \subseteq Entries
    BY <1>1, <1>10, <1>13 DEF TablesOK
  <2>2. e.resource \in [Urls -> Times \cup {None}]
    BY <1>1, <1>10 DEF TablesOK
  <2>3. e.recrawls \subseteq Times \X Urls
    BY <1>1, <1>10 DEF TablesOK, visits
  <2> QED BY <2>1, <2>2, <2>3, <1>7, <1>8, <1>9 DEF TablesOK
<1>15. RowsOK(e)
  BY <1>1, <1>11, <1>12 DEF Sound, RowsOK, ThisRound, Unsettled
<1>16. UnfinishedOK(e)
  <2> SUFFICES ASSUME NEW v \in Urls, Unsettled(e, v)
               PROVE  /\ e.url[v].round = e.round /\ e.url[v].failures < MaxAttempts
                      /\ InWork(e, Site(v))
                      /\ <<v, e.url[v].fetch>> \notin e.commits
                      /\ e.url[v].state = "leased" => <<v, e.url[v].fetch>> \in e.leases
    BY DEF UnfinishedOK
  <2>1. v # u
    BY <1>12 DEF Unsettled
  <2>2. Unsettled(d, v) /\ e.url[v] = d.url[v]
    BY <2>1, <1>12 DEF Unsettled
  <2> QED BY <2>1, <2>2, <1>10, <1>11 DEF Sound, UnfinishedOK, InWork
<1>17. SitesOK(e) /\ CountsOK(e)
  BY <1>11 DEF Sound, SitesOK, ReadyOnce, InWork, CountsOK
<1>18. OriginsOK(e)
  <2> SUFFICES ASSUME NEW v \in Urls, e.url[v].state = "pending"
               PROVE  /\ v \in e.eligible /\ v \in e.httpUrls
                      /\ e.origin[OriginOf[v]].round # 0
                      /\ Queued(e, OriginOf[v])
    BY DEF OriginsOK
  <2>1. v # u
    BY <1>12
  <2>2. /\ v \in d.eligible /\ v \in d.httpUrls /\ d.origin[OriginOf[v]].round # 0
        /\ Queued(d, OriginOf[v]) /\ OriginOf[v] \in Origins
    BY <2>1, <1>12, Places DEF Sound, OriginsOK
  <2>3. v \in e.eligible /\ v \in e.httpUrls /\ v \in x.httpUrls
    BY <2>1, <2>2, <1>4, <1>10
  <2>4. CASE OriginOf[v] = o
    <3>1. <<y.origin[o].due, o>> \in y.httpReady /\ y.origin[o].round # 0
      BY <2>2, <2>3, <2>4, <1>5, <1>7
    <3> QED BY <2>3, <2>4, <3>1, <1>9 DEF Queued
  <2>5. CASE OriginOf[v] # o
    <3>1. y.origin[OriginOf[v]] = d.origin[OriginOf[v]]
          /\ \A z \in d.httpReady : z[2] # o => z \in y.httpReady
      BY <2>2, <2>5, <1>5, <1>7 DEF OthersKept
    <3> QED BY <2>2, <2>3, <2>5, <3>1, <1>9, <1>11 DEF Queued
  <2> QED BY <2>4, <2>5
<1>19. OutboxOK(e)
  <2>1. InWork(d, Site(u))
    BY <1>1 DEF Sound, UnfinishedOK
  <2> QED BY <2>1, <1>10, <1>11, <1>13 DEF Sound, OutboxOK, InWork
<1>20. LinksOK(w, e)
  <2> SUFFICES ASSUME NEW z \in Urls, e.url[z].state = "committed", e.url[z].round = e.round,
                      NEW v \in w.links[z], Site(v) = Site(z)
               PROVE  Covered(e, z, v)
    BY DEF LinksOK
  <2>1. v \in Urls
    BY WebAssumptions
  <2>2. CASE z = u
    BY <2>2, <1>10, <1>13 DEF Covered
  <2>3. CASE z # u
    <3>1. Covered(d, z, v)
      BY <2>3, <1>11, <1>12 DEF LinksOK
    <3> QED BY <3>1, <2>1, <1>10, <1>11, <1>12 DEF Covered
  <2> QED BY <2>2, <2>3
<1>21. VisitsOK(w, e)
  <2>1. d.resource \in [Urls -> Times \cup {None}]
    BY <1>1 DEF TablesOK
  <2>2. e.resource[u] = next /\ \A v \in Urls : v # u => e.resource[v] = d.resource[v]
    BY <2>1, <1>10
  <2>3. w.recrawl => <<next, u>> \in visits
    BY DEF visits
  <2>4. \A z \in d.recrawls : z[2] # u => z \in visits
    BY DEF visits
  <2>5. ASSUME w.recrawl, NEW v \in Urls, e.url[v].state = "committed"
        PROVE  <<e.resource[v], v>> \in e.recrawls
    <3>1. CASE v = u
      BY <3>1, <2>2, <2>3, <2>5, <1>10
    <3>2. CASE v # u
      <4>1. d.url[v].state = "committed"
        BY <3>2, <2>5, <1>12
      <4>2. <<d.resource[v], v>> \in d.recrawls
        BY <4>1, <2>5 DEF VisitsOK
      <4> QED BY <3>2, <4>2, <2>2, <2>4, <1>10
    <3> QED BY <3>1, <3>2
  <2> QED BY <2>5 DEF VisitsOK
<1> QED BY <1>10, <1>11, <1>12, <1>14, <1>15, <1>16, <1>17, <1>18, <1>19, <1>20, <1>21 DEF Sound, entry

(* The turn gives u up, and no other row changes. *)
Released(d, y, u) ==
  /\ y.round = d.round /\ y.site = d.site /\ y.ready = d.ready /\ y.active = d.active
  /\ y.pendingSites = d.pendingSites /\ y.activeSites = d.activeSites
  /\ y.origin = d.origin /\ y.httpReady = d.httpReady /\ y.httpActive = d.httpActive
  /\ y.commits = d.commits /\ y.outbox = d.outbox
  /\ y.resource = d.resource /\ y.recrawls = d.recrawls
  /\ \A l \in d.leases : l[1] # u => l \in y.leases
  /\ \A v \in Urls : v # u => y.url[v] = d.url[v]
  /\ y.url[u].round = d.url[u].round /\ y.url[u].fetch = d.url[u].fetch

Resolved(d, r, u) ==
  /\ Sound(r) /\ KeepsLinks(d, r)
  /\ r.url[u].state \notin {"leased", "absent"} /\ r.url[u].fetch = d.url[u].fetch
  /\ Unsettled(r, u) => Unsettled(d, u)
  /\ \A v \in Urls : v # u => r.url[v] = d.url[v]
  /\ r.commits = d.commits /\ r.outbox = d.outbox /\ r.active = d.active

(* What does not depend on the queues of the origins. *)
LEMMA ReleasedSound ==
  ASSUME NEW d, Sound(d), NEW u \in Urls, Unsettled(d, u), NEW y, Released(d, y, u),
         y.url[u].state = "terminal" \/ (y.url[u].state = "pending" /\ y.url[u].failures < MaxAttempts),
         NEW r, TablesOK(r), SameButOrigins(y, r), OriginsOK(r)
  PROVE  Resolved(d, r, u)
<1>1. /\ r.round = d.round /\ r.site = d.site /\ r.ready = d.ready /\ r.active = d.active
      /\ r.pendingSites = d.pendingSites /\ r.activeSites = d.activeSites
      /\ r.httpActive = d.httpActive
      /\ r.commits = d.commits /\ r.outbox = d.outbox
      /\ r.resource = d.resource /\ r.recrawls = d.recrawls
  BY DEF Released, SameButOrigins
<1>2. \A l \in d.leases : l[1] # u => l \in r.leases
  BY DEF Released, SameButOrigins
<1>3. /\ \A v \in Urls : v # u => r.url[v] = d.url[v]
      /\ r.url[u].round = d.url[u].round /\ r.url[u].fetch = d.url[u].fetch
      /\ \/ r.url[u].state = "terminal"
         \/ r.url[u].state = "pending" /\ r.url[u].failures < MaxAttempts
  BY DEF Released, SameButOrigins
<1>4. d.url[u].round = d.round /\ InWork(d, Site(u)) /\ <<u, d.url[u].fetch>> \notin d.commits
  BY DEF Sound, UnfinishedOK
<1>5. RowsOK(r)
  BY <1>1, <1>3 DEF Sound, RowsOK, ThisRound, Unsettled
<1>6. UnfinishedOK(r)
  <2> SUFFICES ASSUME NEW v \in Urls, Unsettled(r, v)
               PROVE  /\ r.url[v].round = r.round /\ r.url[v].failures < MaxAttempts
                      /\ InWork(r, Site(v))
                      /\ <<v, r.url[v].fetch>> \notin r.commits
                      /\ r.url[v].state = "leased" => <<v, r.url[v].fetch>> \in r.leases
    BY DEF UnfinishedOK
  <2>1. CASE v = u
    BY <2>1, <1>1, <1>3, <1>4 DEF Unsettled, InWork
  <2>2. CASE v # u
    <3>1. Unsettled(d, v) /\ r.url[v] = d.url[v]
      BY <2>2, <1>3 DEF Unsettled
    <3> QED BY <2>2, <3>1, <1>1, <1>2 DEF Sound, UnfinishedOK, InWork
  <2> QED BY <2>1, <2>2
<1>7. SitesOK(r) /\ CountsOK(r) /\ OutboxOK(r)
  BY <1>1 DEF Sound, SitesOK, ReadyOnce, InWork, CountsOK, OutboxOK
<1>8. KeepsLinks(d, r)
  <2>1. ASSUME NEW w \in Webs, LinksOK(w, d) PROVE LinksOK(w, r)
    <3> SUFFICES ASSUME NEW x \in Urls, r.url[x].state = "committed", r.url[x].round = r.round,
                        NEW v \in w.links[x], Site(v) = Site(x)
                 PROVE  Covered(r, x, v)
      BY DEF LinksOK
    <3>1. v \in Urls /\ x # u
      BY WebAssumptions, <1>3
    <3>2. Covered(d, x, v)
      BY <2>1, <3>1, <1>1, <1>3 DEF LinksOK
    <3>3. CASE v = u
      BY <3>3, <1>1, <1>3, <1>4 DEF Covered
    <3>4. CASE v # u
      BY <3>1, <3>2, <3>4, <1>1, <1>3 DEF Covered
    <3> QED BY <3>3, <3>4
  <2>2. ASSUME NEW w \in Webs, VisitsOK(w, d) PROVE VisitsOK(w, r)
    BY <2>2, <1>1, <1>3 DEF VisitsOK
  <2> QED BY <2>1, <2>2 DEF KeepsLinks
<1> QED BY <1>1, <1>3, <1>5, <1>6, <1>7, <1>8 DEF Resolved, Sound

LEMMA AgainSound ==
  ASSUME NEW d, Sound(d), NEW u \in Urls, Unsettled(d, u),
         NEW y, TablesOK(y), Released(d, y, u),
         y.url[u].state = "pending", y.url[u].failures < MaxAttempts,
         y.eligible = d.eligible \cup {u}, y.httpUrls = d.httpUrls,
         NEW r, r = QueueHttpOrigin(y, u)
  PROVE  Resolved(d, r, u)
<1> DEFINE o == OriginOf[u]
<1>1. /\ TablesOK(r) /\ SameButOrigins(y, r) /\ OthersKept(y, r, o)
      /\ r.httpUrls = y.httpUrls \cup {u} /\ r.origin[o].round = y.url[u].round
      /\ \/ r.httpActive[Site(u)] = o
         \/ <<r.origin[o].due, o>> \in r.httpReady
  BY QueueOrigin
<1>2. OriginsOK(r)
  <2> SUFFICES ASSUME NEW v \in Urls, r.url[v].state = "pending"
               PROVE  /\ v \in r.eligible /\ v \in r.httpUrls
                      /\ r.origin[OriginOf[v]].round # 0
                      /\ Queued(r, OriginOf[v])
    BY DEF OriginsOK
  <2>1. OriginOf[v] \in Origins /\ SiteOf[o] = Site(u)
    BY Places DEF Site
  <2>2. r.url[v] = y.url[v] /\ (v # u => y.url[v] = d.url[v])
    BY <1>1 DEF SameButOrigins, Released
  <2>3. v \in r.eligible /\ v \in r.httpUrls
    BY <1>1, <2>2 DEF Sound, OriginsOK, SameButOrigins
  <2>4. CASE OriginOf[v] = o
    <3>1. y.url[u].round # 0
      <4>1. y.url[u].round = d.round
        BY DEF Released, Sound, UnfinishedOK
      <4> QED BY <4>1 DEF Sound, TablesOK
    <3> QED BY <1>1, <2>1, <2>3, <2>4, <3>1 DEF Queued
  <2>5. CASE OriginOf[v] # o
    <3>1. d.origin[OriginOf[v]].round # 0 /\ Queued(d, OriginOf[v])
      BY <2>2, <2>5 DEF Sound, OriginsOK
    <3>2. r.origin[OriginOf[v]] = d.origin[OriginOf[v]]
          /\ \A z \in d.httpReady : z[2] # o => z \in r.httpReady
      BY <1>1, <2>1, <2>5 DEF OthersKept, Released
    <3>3. r.httpActive = d.httpActive
      BY <1>1 DEF SameButOrigins, Released
    <3> QED BY <2>3, <2>5, <3>1, <3>2, <3>3 DEF Queued
  <2> QED BY <2>4, <2>5
<1> QED BY <1>1, <1>2, ReleasedSound

LEMMA GoneSound ==
  ASSUME NEW d, Sound(d), NEW u \in Urls, Unsettled(d, u),
         NEW y, TablesOK(y), Released(d, y, u), y.url[u].state = "terminal",
         y.eligible = d.eligible \ {u}, y.httpUrls = d.httpUrls \ {u},
         NEW time \in Times, NEW r, r = Reschedule(y, OriginOf[u], time)
  PROVE  Resolved(d, r, u)
<1> DEFINE o == OriginOf[u]
<1>1. /\ TablesOK(r) /\ SameButOrigins(y, r) /\ OthersKept(y, r, o)
      /\ r.httpUrls = y.httpUrls /\ r.origin[o].round = y.origin[o].round
      /\ y.origin[o].round # 0 /\ (\E v \in y.httpUrls : OriginOf[v] = o)
         => <<r.origin[o].due, o>> \in r.httpReady
  BY Places, Rescheduling
<1>2. OriginsOK(r)
  <2> SUFFICES ASSUME NEW v \in Urls, r.url[v].state = "pending"
               PROVE  /\ v \in r.eligible /\ v \in r.httpUrls
                      /\ r.origin[OriginOf[v]].round # 0
                      /\ Queued(r, OriginOf[v])
    BY DEF OriginsOK
  <2>1. r.url[v] = y.url[v] /\ v # u /\ y.url[v] = d.url[v] /\ OriginOf[v] \in Origins
    BY <1>1, Places DEF SameButOrigins, Released
  <2>2. /\ v \in d.eligible /\ v \in d.httpUrls /\ d.origin[OriginOf[v]].round # 0
        /\ Queued(d, OriginOf[v])
    BY <2>1 DEF Sound, OriginsOK
  <2>3. v \in r.eligible /\ v \in r.httpUrls /\ v \in y.httpUrls
    BY <1>1, <2>1, <2>2 DEF SameButOrigins
  <2>4. CASE OriginOf[v] = o
    <3>1. y.origin = d.origin
      BY DEF Released
    <3> QED BY <1>1, <2>2, <2>3, <2>4, <3>1 DEF Queued
  <2>5. CASE OriginOf[v] # o
    <3>1. r.origin[OriginOf[v]] = d.origin[OriginOf[v]]
          /\ \A z \in d.httpReady : z[2] # o => z \in r.httpReady
      BY <1>1, <2>1, <2>5 DEF OthersKept, Released
    <3>2. r.httpActive = d.httpActive
      BY <1>1 DEF SameButOrigins, Released
    <3> QED BY <2>2, <2>3, <2>5, <3>1, <3>2 DEF Queued
  <2> QED BY <2>4, <2>5
<1> QED BY <1>1, <1>2, ReleasedSound

LEMMA PostponedResolved ==
  ASSUME NEW d, Sound(d), NEW u \in Urls, Unsettled(d, u),
         NEW f, TablesOK(f), Released(d, f, u), f.url[u].failures < MaxAttempts,
         f.eligible = d.eligible, f.httpUrls = d.httpUrls,
         NEW now_ \in Nat, NEW delay \in Nat, NEW r, r = Postponed(f, u, now_, delay)
  PROVE  Resolved(d, r, u)
<1> DEFINE due == After(now_, delay)
           y == [Unleased(f, u) EXCEPT !.url[u].state = "pending", !.url[u].due = due,
                                       !.eligible = @ \cup {u}]
<1>1. DOMAIN f = Tables /\ f.url \in [Urls -> UrlRows] /\ due \in Times
  BY Clock DEF TablesOK
<1>2. /\ y.url = [f.url EXCEPT ![u].state = "pending", ![u].due = due]
      /\ y.leases = f.leases \ {<<u, f.url[u].fetch>>}
      /\ y.eligible = f.eligible \cup {u} /\ y.httpUrls = f.httpUrls /\ DOMAIN y = Tables
  BY <1>1 DEF Unleased, Tables
<1>3. /\ y.round = f.round /\ y.site = f.site /\ y.origin = f.origin /\ y.retry = f.retry
      /\ y.httpReady = f.httpReady /\ y.httpActive = f.httpActive /\ y.ready = f.ready
      /\ y.active = f.active /\ y.commits = f.commits /\ y.outbox = f.outbox
      /\ y.candidates = f.candidates /\ y.waiting = f.waiting /\ y.documents = f.documents
      /\ y.resource = f.resource /\ y.recrawls = f.recrawls /\ y.manual = f.manual
      /\ y.streak = f.streak /\ y.pendingSites = f.pendingSites /\ y.activeSites = f.activeSites
  BY <1>1 DEF Unleased, Tables
<1>4. r = QueueHttpOrigin(y, u)
  BY DEF Postponed
<1> HIDE DEF y, due
<1>5. y.url \in [Urls -> UrlRows]
  <2>1. [f.url[u] EXCEPT !.state = "pending"] \in UrlRows
    BY <1>1, UrlRow
  <2>2. [f.url[u] EXCEPT !.state = "pending", !.due = due] \in UrlRows
    BY <2>1, <1>1, UrlRow
  <2>3. y.url = [f.url EXCEPT ![u] = [f.url[u] EXCEPT !.state = "pending", !.due = due]]
    BY <1>1, <1>2
  <2> QED BY <1>1, <2>2, <2>3
<1>6. TablesOK(y)
  BY <1>2, <1>3, <1>5 DEF TablesOK
<1>7. /\ y.url[u].state = "pending" /\ y.url[u].failures = f.url[u].failures
      /\ y.url[u].round = f.url[u].round /\ y.url[u].fetch = f.url[u].fetch
      /\ \A v \in Urls : v # u => y.url[v] = f.url[v]
  BY <1>1, <1>2 DEF UrlRows
<1>8. Released(d, y, u)
  BY <1>2, <1>3, <1>7 DEF Released
<1>9. y.eligible = d.eligible \cup {u} /\ y.httpUrls = d.httpUrls /\ y.url[u].failures < MaxAttempts
  BY <1>2, <1>7
<1> QED BY <1>4, <1>6, <1>7, <1>8, <1>9, AgainSound

LEMMA TerminatedResolved ==
  ASSUME NEW d, Sound(d), NEW u \in Urls, Unsettled(d, u),
         NEW f, TablesOK(f), Released(d, f, u),
         f.eligible = d.eligible, f.httpUrls = d.httpUrls,
         NEW reason \in Reasons, NEW due \in Times, NEW r, r = Terminated(f, u, reason, due)
  PROVE  Resolved(d, r, u)
<1> DEFINE y == [Unleased(f, u) EXCEPT
                   !.url[u] = [@ EXCEPT !.state = "terminal", !.cont = None,
                                        !.reason = reason, !.due = due],
                   !.eligible = @ \ {u}, !.httpUrls = @ \ {u}]
<1>1. DOMAIN f = Tables /\ f.url \in [Urls -> UrlRows] /\ f.url[u] \in UrlRows
  BY DEF TablesOK
<1>2. /\ y.url = [f.url EXCEPT ![u] = [f.url[u] EXCEPT !.state = "terminal", !.cont = None,
                                                       !.reason = reason, !.due = due]]
      /\ y.leases = f.leases \ {<<u, f.url[u].fetch>>}
      /\ y.eligible = f.eligible \ {u} /\ y.httpUrls = f.httpUrls \ {u} /\ DOMAIN y = Tables
  BY <1>1 DEF Unleased, Tables
<1>3. /\ y.round = f.round /\ y.site = f.site /\ y.origin = f.origin /\ y.retry = f.retry
      /\ y.httpReady = f.httpReady /\ y.httpActive = f.httpActive /\ y.ready = f.ready
      /\ y.active = f.active /\ y.commits = f.commits /\ y.outbox = f.outbox
      /\ y.candidates = f.candidates /\ y.waiting = f.waiting /\ y.documents = f.documents
      /\ y.resource = f.resource /\ y.recrawls = f.recrawls /\ y.manual = f.manual
      /\ y.streak = f.streak /\ y.pendingSites = f.pendingSites /\ y.activeSites = f.activeSites
  BY <1>1 DEF Unleased, Tables
<1>4. r = Reschedule(y, OriginOf[u], due)
  BY DEF Terminated
<1> HIDE DEF y
<1>5. y.url \in [Urls -> UrlRows]
  <2> DEFINE r1 == [f.url[u] EXCEPT !.state = "terminal"]
             r2 == [f.url[u] EXCEPT !.state = "terminal", !.cont = None]
             r3 == [f.url[u] EXCEPT !.state = "terminal", !.cont = None, !.reason = reason]
             r4 == [f.url[u] EXCEPT !.state = "terminal", !.cont = None, !.reason = reason,
                                    !.due = due]
  <2>1. r1 \in UrlRows
    BY <1>1, UrlRow
  <2>2. r2 \in UrlRows
    BY <2>1, UrlRow
  <2>3. r3 \in UrlRows
    BY <2>2, UrlRow
  <2>4. r4 \in UrlRows
    BY <2>3, UrlRow
  <2> QED BY <1>1, <1>2, <2>4
<1>6. TablesOK(y)
  BY <1>2, <1>3, <1>5 DEF TablesOK
<1>7. /\ y.url[u].state = "terminal"
      /\ y.url[u].round = f.url[u].round /\ y.url[u].fetch = f.url[u].fetch
      /\ \A v \in Urls : v # u => y.url[v] = f.url[v]
  BY <1>1, <1>2 DEF UrlRows
<1>8. Released(d, y, u)
  BY <1>2, <1>3, <1>7 DEF Released
<1>9. y.eligible = d.eligible \ {u} /\ y.httpUrls = d.httpUrls \ {u}
  BY <1>2
<1> QED BY <1>4, <1>6, <1>7, <1>8, <1>9, GoneSound

LEMMA AskedOrigin ==
  ASSUME NEW d, TablesOK(d), NEW u \in Urls
  PROVE  Asked(d, u) \in Origins
BY Places DEF TablesOK, UrlRows, Asked

LEMMA Waiting ==
  ASSUME NEW d, TablesOK(d), NEW o \in Origins, NEW now_ \in Nat
  PROVE  /\ FirstWait \in Nat /\ Penalised(d, o, now_) \in Times
         /\ Later(FirstWait, Penalised(d, o, now_) - now_) \in Nat
<1>1. FirstWait \in Nat
  BY TableAssumptions, Clock DEF FirstWait
<1>2. d.retry[o].due \in Times
  BY DEF TablesOK, RetryRows
<1>3. Penalised(d, o, now_) \in Times
  BY <1>1, <1>2, Clock DEF Penalised
<1>4. Penalised(d, o, now_) \in Nat
  BY <1>3, Clock
<1> QED BY <1>1, <1>3, <1>4 DEF Later

LEMMA Delays ==
  ASSUME NEW d, TablesOK(d), NEW u \in Urls, NEW out, NEW target, NEW after \in Nat,
         NEW now_ \in Nat, out = "durable" => target \in Origins
  PROVE  TurnDelay(d, u, out, target, after, now_) \in Nat
<1> DEFINE delay == TurnDelay(d, u, out, target, after, now_)
<1>1. MinDelay \in Nat /\ Later(MinDelay, after) \in Nat
  BY TableAssumptions, Clock
<1>2. CASE Settled(d, u) /\ out = "durable"
  <2>1. delay = Later(MinDelay, d.retry[target].penalty \div 2)
    BY <1>2, Zenon DEF TurnDelay
  <2>2. d.retry[target].penalty \div 2 \in Nat
    <3>1. d.retry[target].penalty \in Nat
      BY <1>2 DEF TablesOK, RetryRows
    <3> QED BY <3>1
  <2> QED BY <1>1, <2>1, <2>2, Clock
<1>3. CASE ~Settled(d, u) /\ out = "transient"
  <2>1. delay = Later(FirstWait, Penalised(d, Asked(d, u), now_) - now_)
    BY <1>3, "transient" # "durable", Zenon DEF TurnDelay
  <2> QED BY <2>1, AskedOrigin, Waiting
<1>4. CASE ~Settled(d, u) /\ out = "wait"
  BY <1>1, <1>4, "wait" # "transient", Zenon DEF TurnDelay
<1>5. CASE /\ ~(Settled(d, u) /\ out = "durable") /\ ~(~Settled(d, u) /\ out = "transient")
           /\ ~(~Settled(d, u) /\ out = "wait")
  BY <1>1, <1>5, Zenon DEF TurnDelay
<1> QED BY <1>2, <1>3, <1>4, <1>5

LEMMA ResolveSound ==
  ASSUME NEW d, Sound(d), NEW u \in Urls, d.url[u].state # "absent",
         NEW out \in Outs, NEW target, out = "durable" => target \in Origins,
         NEW after \in Nat, NEW late \in BOOLEAN, NEW now_ \in Nat,
         NEW r, r = ResolveUrl(d, u, out, target, after, late, now_)
  PROVE  Resolved(d, r, u)
<1> DEFINE row == d.url[u]
           o == Asked(d, u)
           delay == TurnDelay(d, u, out, target, after, now_)
           failed == [d EXCEPT !.retry[o] = [penalty |-> Later(@.penalty, FirstWait),
                                             due |-> Penalised(d, o, now_)],
                               !.url[u].failures = @ + 1]
           missing == IF out = "http_404" THEN After(now_, NotFoundDelay) ELSE row.due
<1>1. /\ TablesOK(d) /\ DOMAIN d = Tables /\ d.url \in [Urls -> UrlRows] /\ row \in UrlRows
      /\ d.retry \in [Origins -> RetryRows]
  BY DEF Sound, TablesOK
<1>2. row.due \in Times /\ row.failures \in 0 .. MaxAttempts /\ o \in Origins
  BY <1>1, AskedOrigin DEF UrlRows
<1>3. delay \in Nat /\ missing \in Times
  BY <1>1, <1>2, Clock, Delays, TableAssumptions
<1>4. row.state \in {"pending", "leased", "committed", "terminal"}
  BY <1>1 DEF UrlRows
<1> HIDE DEF delay, missing
<1>5. CASE Settled(d, u)
  <2>1. CASE out = "durable"
    <3>1. r = Succeeded(d, target, now_)
      BY <1>5, <2>1, Zenon DEF ResolveUrl
    <3> DEFINE half == d.retry[target].penalty \div 2
               new == [penalty |-> half, due |-> After(now_, half)]
    <3>2. target \in Origins /\ half \in Nat
      <4>1. target \in Origins
        BY <2>1
      <4>2. d.retry[target].penalty \in Nat
        BY <4>1, <1>1 DEF RetryRows
      <4> QED BY <4>1, <4>2
    <3>3. new \in RetryRows
      <4> HIDE DEF half
      <4> QED BY <3>2, Clock DEF RetryRows
    <3>4. r.retry = [d.retry EXCEPT ![target] = new] /\ DOMAIN r = Tables
      BY <1>1, <3>1, <3>2 DEF Succeeded, Tables
    <3>5. /\ r.round = d.round /\ r.url = d.url /\ r.site = d.site /\ r.origin = d.origin
          /\ r.eligible = d.eligible /\ r.httpUrls = d.httpUrls /\ r.httpReady = d.httpReady
          /\ r.httpActive = d.httpActive /\ r.ready = d.ready /\ r.active = d.active
          /\ r.leases = d.leases /\ r.commits = d.commits /\ r.outbox = d.outbox
          /\ r.candidates = d.candidates /\ r.waiting = d.waiting /\ r.documents = d.documents
          /\ r.resource = d.resource /\ r.recrawls = d.recrawls /\ r.manual = d.manual
          /\ r.streak = d.streak /\ r.pendingSites = d.pendingSites
          /\ r.activeSites = d.activeSites
      BY <1>1, <3>1 DEF Succeeded, Tables
    <3> HIDE DEF new
    <3>6. TablesOK(r)
      BY <1>1, <3>3, <3>4, <3>5, ZenonT(60) DEF TablesOK
    <3>7. SameCore(d, r) /\ SameRows(d, r)
      BY <3>5 DEF SameCore, SameRows, SameWork
    <3>8. Preserves(d, r)
      BY <3>6, <3>7, SoundAside
    <3>9. Sound(r) /\ KeepsLinks(d, r)
      BY <3>8 DEF Preserves, KeepsLinks
    <3>10. Unsettled(r, u) => Unsettled(d, u)
      BY <3>5 DEF Unsettled
    <3> QED BY <1>5, <3>5, <3>9, <3>10 DEF Resolved, Settled
  <2>2. CASE out # "durable"
    <3>1. r = d
      BY <1>5, <2>2, Zenon DEF ResolveUrl
    <3> QED BY <1>4, <1>5, <3>1 DEF Resolved, KeepsLinks, Settled
  <2> QED BY <2>1, <2>2
<1>6. CASE ~Settled(d, u)
  <2>1. Unsettled(d, u)
    BY <1>4, <1>6 DEF Settled, Unsettled
  <2>2. row.failures < MaxAttempts
    BY <2>1 DEF Sound, UnfinishedOK
  <2>3. Released(d, d, u)
    BY DEF Released
  <2>4. CASE out = "transient"
    <3> DEFINE new == [penalty |-> Later(d.retry[o].penalty, FirstWait), due |-> Penalised(d, o, now_)]
    <3>1. new \in RetryRows
      BY <1>1, <1>2, Waiting, Clock DEF RetryRows
    <3>2. failed = [d EXCEPT !.retry[o] = new, !.url[u].failures = @ + 1]
      OBVIOUS
    <3> HIDE DEF new
    <3>3. /\ failed.retry = [d.retry EXCEPT ![o] = new]
          /\ failed.url = [d.url EXCEPT ![u].failures = @ + 1] /\ DOMAIN failed = Tables
      BY <1>1, <3>2 DEF Tables
    <3>4. /\ failed.round = d.round /\ failed.site = d.site /\ failed.origin = d.origin
          /\ failed.eligible = d.eligible /\ failed.httpUrls = d.httpUrls
          /\ failed.httpReady = d.httpReady /\ failed.httpActive = d.httpActive
          /\ failed.ready = d.ready /\ failed.active = d.active /\ failed.leases = d.leases
          /\ failed.commits = d.commits /\ failed.outbox = d.outbox
          /\ failed.candidates = d.candidates /\ failed.waiting = d.waiting
          /\ failed.documents = d.documents /\ failed.resource = d.resource
          /\ failed.recrawls = d.recrawls /\ failed.manual = d.manual
          /\ failed.streak = d.streak /\ failed.pendingSites = d.pendingSites
          /\ failed.activeSites = d.activeSites
      BY <1>1, <3>2 DEF Tables
    <3>5. /\ row.failures + 1 >= MaxAttempts \/ late => r = Terminated(failed, u, "exhausted", row.due)
          /\ ~(row.failures + 1 >= MaxAttempts \/ late) => r = Postponed(failed, u, now_, delay)
      BY <1>6, <2>4, Zenon DEF ResolveUrl, delay
    <3> HIDE DEF failed
    <3>6. failed.url \in [Urls -> UrlRows]
      <4>1. row.failures + 1 \in 0 .. MaxAttempts
        BY <1>2, <2>2, TableAssumptions
      <4>2. [row EXCEPT !.failures = row.failures + 1] \in UrlRows
        BY <1>1, <4>1, UrlRow
      <4>3. failed.url = [d.url EXCEPT ![u] = [row EXCEPT !.failures = row.failures + 1]]
        BY <1>1, <3>3
      <4> QED BY <1>1, <4>2, <4>3
    <3>7. TablesOK(failed)
      <4>1. failed.retry \in [Origins -> RetryRows]
        BY <1>1, <3>1, <3>3
      <4> HIDE DEF o
      <4> QED BY <1>1, <3>3, <3>4, <3>6, <4>1 DEF TablesOK
    <3>8. /\ failed.url[u].failures = row.failures + 1
          /\ failed.url[u].round = row.round /\ failed.url[u].fetch = row.fetch
          /\ \A v \in Urls : v # u => failed.url[v] = d.url[v]
      BY <1>1, <3>3 DEF UrlRows
    <3>9. Released(d, failed, u)
      BY <3>4, <3>8 DEF Released
    <3>10. "exhausted" \in Reasons
      BY DEF Reasons
    <3>11. CASE row.failures + 1 >= MaxAttempts \/ late
      BY <1>2, <2>1, <3>4, <3>5, <3>7, <3>9, <3>10, <3>11, TerminatedResolved
    <3>12. CASE ~(row.failures + 1 >= MaxAttempts \/ late)
      <4>1. failed.url[u].failures < MaxAttempts
        BY <1>2, <3>8, <3>12, TableAssumptions
      <4> QED BY <1>3, <2>1, <3>4, <3>5, <3>7, <3>9, <3>12, <4>1, PostponedResolved
    <3> QED BY <3>11, <3>12
  <2>5. CASE out \in {"wait", "cancelled"}
    <3>1. out # "transient" /\ (out # "wait" => out = "cancelled") /\ "wait" # "cancelled"
      BY <2>5
    <3>2. CASE out = "wait" /\ late
      <4>1. r = Terminated(d, u, "exhausted", row.due)
        BY <1>6, <3>1, <3>2, Zenon DEF ResolveUrl
      <4>2. "exhausted" \in Reasons
        BY DEF Reasons
      <4> QED BY <1>1, <1>2, <2>1, <2>3, <4>1, <4>2, TerminatedResolved
    <3>3. CASE ~(out = "wait" /\ late)
      <4>1. r = Postponed(d, u, now_, delay)
        BY <1>6, <3>1, <3>3, Zenon DEF ResolveUrl, delay
      <4> QED BY <1>1, <1>3, <2>1, <2>2, <2>3, <4>1, PostponedResolved
    <3> QED BY <3>2, <3>3
  <2>6. CASE out \notin {"transient", "wait", "cancelled"}
    <3>1. out # "transient" /\ out # "wait" /\ out # "cancelled" /\ out \in Reasons
      BY <2>6 DEF Outs
    <3>2. r = Terminated(d, u, out, missing)
      BY <1>6, <3>1, Zenon DEF ResolveUrl, missing
    <3> QED BY <1>1, <1>3, <2>1, <2>3, <3>1, <3>2, TerminatedResolved
  <2> QED BY <2>4, <2>5, <2>6
<1> QED BY <1>5, <1>6

(* The origin that was being fetched returns to its queue. *)
LEMMA FreedOrigins ==
  ASSUME NEW d, Sound(d), NEW s \in Sites,
         NEW left, TablesOK(left), left.httpActive = [d.httpActive EXCEPT ![s] = None],
         left.url = d.url, left.eligible = d.eligible, left.httpUrls = d.httpUrls,
         left.origin = d.origin, left.httpReady = d.httpReady,
         NEW time \in Times,
         NEW x, x = IF d.httpActive[s] = None THEN left ELSE Reschedule(left, d.httpActive[s], time)
  PROVE  TablesOK(x) /\ SameButOrigins(left, x) /\ x.httpUrls = left.httpUrls /\ OriginsOK(x)
<1> DEFINE o == d.httpActive[s]
<1>1. d.httpActive \in [Sites -> Origins \cup {None}]
  BY DEF Sound, TablesOK
<1>2. /\ left.httpActive[s] = None
      /\ \A t \in Sites : t # s => left.httpActive[t] = d.httpActive[t]
  BY <1>1
<1>3. CASE o = None
  <2>1. x = left
    BY <1>3
  <2>2. SameButOrigins(left, x)
    BY <2>1 DEF SameButOrigins
  <2>3. ASSUME NEW v \in Urls, x.url[v].state = "pending"
        PROVE  /\ v \in x.eligible /\ v \in x.httpUrls
               /\ x.origin[OriginOf[v]].round # 0
               /\ Queued(x, OriginOf[v])
    <3>1. /\ v \in d.eligible /\ v \in d.httpUrls /\ d.origin[OriginOf[v]].round # 0
          /\ Queued(d, OriginOf[v]) /\ OriginOf[v] # None /\ SiteOf[OriginOf[v]] \in Sites
      BY <2>1, <2>3, Places DEF Sound, OriginsOK, Site
    <3>2. Queued(x, OriginOf[v])
      BY <2>1, <3>1, <1>2, <1>3 DEF Queued
    <3> QED BY <2>1, <3>1, <3>2
  <2> QED BY <2>1, <2>2, <2>3 DEF OriginsOK
<1>4. CASE o # None
  <2>1. o \in Origins /\ x = Reschedule(left, o, time)
    BY <1>1, <1>4
  <2> HIDE DEF o
  <2>2. /\ TablesOK(x) /\ SameButOrigins(left, x) /\ OthersKept(left, x, o)
        /\ x.httpUrls = left.httpUrls /\ x.origin[o].round = left.origin[o].round
        /\ left.origin[o].round # 0 /\ (\E u \in left.httpUrls : OriginOf[u] = o)
           => <<x.origin[o].due, o>> \in x.httpReady
    BY <2>1, Rescheduling
  <2>3. ASSUME NEW v \in Urls, x.url[v].state = "pending"
        PROVE  /\ v \in x.eligible /\ v \in x.httpUrls
               /\ x.origin[OriginOf[v]].round # 0
               /\ Queued(x, OriginOf[v])
    <3>1. x.url = d.url /\ x.eligible = d.eligible /\ x.httpUrls = d.httpUrls
          /\ x.httpActive = left.httpActive
      BY <2>2 DEF SameButOrigins
    <3>2. /\ v \in d.eligible /\ v \in d.httpUrls /\ d.origin[OriginOf[v]].round # 0
          /\ Queued(d, OriginOf[v]) /\ OriginOf[v] # None /\ SiteOf[OriginOf[v]] \in Sites
          /\ OriginOf[v] \in Origins
      BY <3>1, <2>3, Places DEF Sound, OriginsOK, Site
    <3>3. CASE OriginOf[v] = o
      BY <2>2, <3>1, <3>2, <3>3 DEF Queued
    <3>4. CASE OriginOf[v] # o
      <4>1. x.origin[OriginOf[v]] = d.origin[OriginOf[v]]
            /\ \A z \in d.httpReady : z[2] # o => z \in x.httpReady
        BY <2>2, <3>2, <3>4 DEF OthersKept
      <4>2. d.httpActive[SiteOf[OriginOf[v]]] = OriginOf[v]
            => x.httpActive[SiteOf[OriginOf[v]]] = OriginOf[v]
        BY <1>2, <3>1, <3>2, <3>4 DEF o
      <4> QED BY <3>1, <3>2, <3>4, <4>1, <4>2 DEF Queued
    <3> QED BY <3>3, <3>4
  <2> QED BY <2>2, <2>3 DEF OriginsOK
<1> QED BY <1>3, <1>4

(* A site that is no longer crawled: it is done, or waits for its next turn. *)
Leaves(d, e, s) ==
  /\ e.round = d.round /\ e.url = d.url /\ e.leases = d.leases /\ e.commits = d.commits
  /\ e.outbox = d.outbox /\ e.resource = d.resource /\ e.recrawls = d.recrawls
  /\ e.active = d.active \ {s} /\ e.activeSites = d.activeSites - 1
  /\ e.httpActive = [d.httpActive EXCEPT ![s] = None]
  /\ e.site[s].round = d.site[s].round /\ e.site[s].admitted = d.site[s].admitted
  /\ \A t \in Sites : t # s => e.site[t] = d.site[t]
  /\ \/ /\ e.site[s].state = "pending"
        /\ e.ready = d.ready \cup {<<e.site[s].due, s>>} /\ e.pendingSites = d.pendingSites + 1
     \/ /\ e.site[s].state = "done"
        /\ e.ready = d.ready /\ e.pendingSites = d.pendingSites
        /\ \A v \in Urls : Unsettled(d, v) => Site(v) # s
        /\ \A entry \in d.outbox : Site(entry.url) # s

LEMMA LeavesSound ==
  ASSUME NEW d, Sound(d), NEW s \in Sites, s \in d.active,
         NEW e, TablesOK(e), OriginsOK(e), Leaves(d, e, s)
  PROVE  Sound(e) /\ KeepsLinks(d, e)
<1>1. /\ e.round = d.round /\ e.url = d.url /\ e.leases = d.leases /\ e.commits = d.commits
      /\ e.outbox = d.outbox /\ e.resource = d.resource /\ e.recrawls = d.recrawls
      /\ e.active = d.active \ {s} /\ e.activeSites = d.activeSites - 1
      /\ e.site[s].round = d.site[s].round /\ e.site[s].admitted = d.site[s].admitted
      /\ \A t \in Sites : t # s => e.site[t] = d.site[t]
      /\ e.site[s].state \in {"pending", "done"}
  BY DEF Leaves
<1>2. /\ e.httpActive[s] = None
      /\ \A t \in Sites : t # s => e.httpActive[t] = d.httpActive[t]
  <2>1. d.httpActive \in [Sites -> Origins \cup {None}]
    BY DEF Sound, TablesOK
  <2> QED BY <2>1 DEF Leaves
<1>3. /\ d.site[s].state = "active" /\ d.site[s].round = d.round
      /\ {x \in d.ready : x[2] = s} = {}
  BY DEF Sound, SitesOK, InWork, ReadyOnce
<1>4. RowsOK(e)
  <2> SUFFICES ASSUME NEW v \in Urls
               PROVE  /\ e.url[v].round <= e.round
                      /\ e.url[v].state # "absent" => e.site[Site(v)].state # "absent"
                      /\ e.url[v].state # "absent" /\ e.url[v].round = e.round => ThisRound(e, Site(v))
    BY DEF RowsOK
  <2>1. Site(v) \in Sites
    BY Places
  <2>2. CASE Site(v) = s
    BY <2>2, <1>1, <1>3 DEF Sound, RowsOK, ThisRound
  <2>3. CASE Site(v) # s
    BY <2>1, <2>3, <1>1 DEF Sound, RowsOK, ThisRound
  <2> QED BY <2>2, <2>3
<1>5. /\ \A v \in Urls : Unsettled(d, v) => InWork(e, Site(v))
      /\ \A entry \in d.outbox : InWork(e, Site(entry.url))
  <2>1. ASSUME NEW t \in Sites, InWork(d, t), t = s => e.site[s].state # "done" PROVE InWork(e, t)
    BY <2>1, <1>1 DEF InWork
  <2>2. e.site[s].state = "done" => /\ \A v \in Urls : Unsettled(d, v) => Site(v) # s
                                    /\ \A entry \in d.outbox : Site(entry.url) # s
    BY DEF Leaves
  <2>3. \A v \in Urls : Unsettled(d, v) => InWork(d, Site(v)) /\ Site(v) \in Sites
    BY Places DEF Sound, UnfinishedOK
  <2>4. d.outbox \subseteq Entries
    BY DEF Sound, TablesOK
  <2>5. \A entry \in d.outbox : InWork(d, Site(entry.url)) /\ Site(entry.url) \in Sites
    BY <2>4, Places DEF Sound, OutboxOK, Entries
  <2> QED BY <2>1, <2>2, <2>3, <2>5
<1>6. UnfinishedOK(e) /\ OutboxOK(e)
  BY <1>1, <1>5 DEF Sound, UnfinishedOK, Unsettled, OutboxOK
<1>7. SitesOK(e)
  <2> SUFFICES ASSUME NEW t \in Sites
               PROVE  /\ ReadyOnce(e, t)
                      /\ t \in e.active <=> e.site[t].state = "active"
                      /\ InWork(e, t) => e.site[t].round = e.round
                      /\ e.httpActive[t] # None => t \in e.active
    BY DEF SitesOK
  <2>1. CASE t = s
    <3>1. ReadyOnce(e, s)
      BY <1>3 DEF ReadyOnce, Leaves
    <3> QED BY <2>1, <3>1, <1>1, <1>2, <1>3
  <2>2. CASE t # s
    <3>1. /\ ReadyOnce(d, t) /\ (t \in d.active <=> d.site[t].state = "active")
          /\ InWork(d, t) => d.site[t].round = d.round
          /\ d.httpActive[t] # None => t \in d.active
      BY DEF Sound, SitesOK
    <3>2. {x \in e.ready : x[2] = t} = {x \in d.ready : x[2] = t}
      BY <2>2 DEF Leaves
    <3>3. e.site[t] = d.site[t] /\ e.httpActive[t] = d.httpActive[t]
      BY <2>2, <1>1, <1>2
    <3> QED BY <3>1, <3>2, <3>3, <2>2, <1>1 DEF ReadyOnce, InWork
  <2> QED BY <2>1, <2>2
<1>8. CountsOK(e)
  <2>1. CountsOK(d) /\ d.pendingSites \in Int /\ d.activeSites \in Int
    BY DEF Sound, TablesOK
  <2>2. IsFiniteSet(e.active) /\ e.activeSites = Cardinality(e.active)
    BY <2>1, <1>1, LessEntry DEF CountsOK
  <2> DEFINE new == <<e.site[s].due, s>>
  <2>3. new \notin d.ready
    BY <1>3
  <2>4. \/ e.ready = d.ready \cup {new} /\ e.pendingSites = d.pendingSites + 1
        \/ e.ready = d.ready /\ e.pendingSites = d.pendingSites
    BY DEF Leaves
  <2> HIDE DEF new
  <2>5. IsFiniteSet(e.ready) /\ e.pendingSites = Cardinality(e.ready)
    BY <2>1, <2>3, <2>4, NewEntry DEF CountsOK
  <2> QED BY <2>2, <2>5 DEF CountsOK
<1>9. KeepsLinks(d, e)
  <2>1. ASSUME NEW x \in Urls, NEW v, Covered(d, x, v) PROVE Covered(e, x, v)
    <3>1. e.site[Site(x)].admitted = d.site[Site(x)].admitted
      BY <1>1, Places
    <3> QED BY <2>1, <3>1, <1>1 DEF Covered
  <2>2. \A w \in Webs : LinksOK(w, d) => LinksOK(w, e)
    BY <2>1, <1>1 DEF LinksOK
  <2>3. \A w \in Webs : VisitsOK(w, d) => VisitsOK(w, e)
    BY <1>1 DEF VisitsOK
  <2> QED BY <2>2, <2>3 DEF KeepsLinks
<1> QED BY <1>4, <1>6, <1>7, <1>8, <1>9 DEF Sound

LEMMA CloseSound ==
  ASSUME NEW d, Sound(d), NEW s \in Sites, s \in d.active,
         \A v \in Urls : d.url[v].state = "leased" => Site(v) # s,
         \A entry \in d.outbox : Site(entry.url) # s,
         NEW now_ \in Nat, NEW delay \in Nat, NEW e, e = CloseTurn(d, s, now_, delay)
  PROVE  /\ Sound(e) /\ KeepsLinks(d, e)
         /\ e.url = d.url /\ e.leases = d.leases /\ e.commits = d.commits /\ e.outbox = d.outbox
         /\ e.active = d.active \ {s} /\ e.round = d.round
<1> DEFINE o == d.httpActive[s]
           after == After(now_, delay)
           left == [d EXCEPT !.active = @ \ {s}, !.activeSites = IF @ = 0 THEN 0 ELSE @ - 1,
                             !.httpActive[s] = None]
           x == IF o = None THEN left ELSE Reschedule(left, o, after)
           due == NextDue(x, s, after)
           idle == \A u \in d.eligible : Site(u) # s
<1>1. /\ TablesOK(d) /\ DOMAIN d = Tables /\ d.site \in [Sites -> SiteRows]
      /\ d.httpActive \in [Sites -> Origins \cup {None}] /\ after \in Times
  BY Clock DEF Sound, TablesOK
<1>2. d.activeSites # 0
  <2>1. IsFiniteSet(d.active) /\ d.activeSites = Cardinality(d.active)
    BY DEF Sound, CountsOK
  <2> QED BY <2>1, FS_EmptySet
<1>3. e = IF idle THEN [x EXCEPT !.site[s].state = "done"]
          ELSE [x EXCEPT !.site[s].state = "pending", !.site[s].due = due,
                         !.ready = @ \cup {<<due, s>>}, !.pendingSites = @ + 1]
  BY DEF CloseTurn
<1>4. /\ left.active = d.active \ {s} /\ left.activeSites = d.activeSites - 1
      /\ left.httpActive = [d.httpActive EXCEPT ![s] = None] /\ DOMAIN left = Tables
  BY <1>1, <1>2 DEF Tables
<1>5. /\ left.round = d.round /\ left.url = d.url /\ left.site = d.site /\ left.origin = d.origin
      /\ left.retry = d.retry /\ left.eligible = d.eligible /\ left.httpUrls = d.httpUrls
      /\ left.httpReady = d.httpReady /\ left.ready = d.ready
      /\ left.leases = d.leases /\ left.commits = d.commits /\ left.outbox = d.outbox
      /\ left.candidates = d.candidates /\ left.waiting = d.waiting
      /\ left.documents = d.documents /\ left.resource = d.resource
      /\ left.recrawls = d.recrawls /\ left.manual = d.manual
      /\ left.streak = d.streak /\ left.pendingSites = d.pendingSites
  BY <1>1 DEF Tables
<1> HIDE DEF left, after, idle
<1>6. TablesOK(left)
  <2>1. left.httpActive \in [Sites -> Origins \cup {None}]
    BY <1>1, <1>4
  <2>2. left.active \subseteq Sites /\ left.activeSites \in Int
    BY <1>1, <1>4 DEF TablesOK
  <2> QED BY <1>1, <1>4, <1>5, <2>1, <2>2 DEF TablesOK
<1>7. TablesOK(x) /\ SameButOrigins(left, x) /\ x.httpUrls = left.httpUrls /\ OriginsOK(x)
  BY <1>1, <1>4, <1>5, <1>6, FreedOrigins
<1> HIDE DEF x, o
<1>8. due \in Times /\ DOMAIN x = Tables
  BY <1>1, <1>7, FirstDue DEF TablesOK
<1> HIDE DEF due
<1>9. \/ /\ idle /\ e.site = [x.site EXCEPT ![s].state = "done"]
         /\ e.ready = x.ready /\ e.pendingSites = x.pendingSites
      \/ /\ ~idle /\ e.site = [x.site EXCEPT ![s].state = "pending", ![s].due = due]
         /\ e.ready = x.ready \cup {<<due, s>>} /\ e.pendingSites = x.pendingSites + 1
  BY <1>3, <1>8 DEF Tables
<1>10. /\ e.round = x.round /\ e.url = x.url /\ e.origin = x.origin
       /\ e.retry = x.retry /\ e.eligible = x.eligible /\ e.httpUrls = x.httpUrls
       /\ e.httpReady = x.httpReady /\ e.httpActive = x.httpActive /\ e.active = x.active
       /\ e.leases = x.leases /\ e.commits = x.commits /\ e.outbox = x.outbox
       /\ e.candidates = x.candidates /\ e.waiting = x.waiting
       /\ e.documents = x.documents /\ e.resource = x.resource
       /\ e.recrawls = x.recrawls /\ e.manual = x.manual
       /\ e.streak = x.streak /\ e.activeSites = x.activeSites /\ DOMAIN e = Tables
  <2>1. CASE idle
    BY <1>3, <1>8, <2>1 DEF Tables
  <2>2. CASE ~idle
    BY <1>3, <1>8, <2>2 DEF Tables
  <2> QED BY <2>1, <2>2
<1>11. x.site = d.site /\ x.ready = d.ready /\ x.pendingSites = d.pendingSites
  BY <1>5, <1>7 DEF SameButOrigins
<1>12. e.site \in [Sites -> SiteRows]
  <2>1. /\ [d.site[s] EXCEPT !.state = "done"] \in SiteRows
        /\ [d.site[s] EXCEPT !.state = "pending"] \in SiteRows
    BY <1>1, SiteRow
  <2>2. [d.site[s] EXCEPT !.state = "pending", !.due = due] \in SiteRows
    BY <1>8, <2>1, SiteRow
  <2>3. CASE e.site = [x.site EXCEPT ![s].state = "done"]
    BY <2>1, <2>3, <1>1, <1>11
  <2>4. CASE e.site = [x.site EXCEPT ![s].state = "pending", ![s].due = due]
    <3>1. e.site = [d.site EXCEPT ![s] = [d.site[s] EXCEPT !.state = "pending", !.due = due]]
      BY <2>4, <1>1, <1>11
    <3> QED BY <3>1, <2>2, <1>1
  <2> QED BY <2>3, <2>4, <1>9
<1>13. TablesOK(e)
  <2>1. e.ready \subseteq Times \X Sites /\ e.pendingSites \in Int
    BY <1>7, <1>8, <1>9 DEF TablesOK
  <2> QED BY <1>7, <1>10, <1>12, <2>1 DEF TablesOK
<1>14. OriginsOK(e)
  BY <1>7, <1>10 DEF OriginsOK, Queued
<1>15. /\ e.url = d.url /\ e.leases = d.leases /\ e.commits = d.commits /\ e.outbox = d.outbox
       /\ e.active = d.active \ {s} /\ e.activeSites = d.activeSites - 1
       /\ e.httpActive = [d.httpActive EXCEPT ![s] = None]
       /\ e.round = d.round /\ e.resource = d.resource /\ e.recrawls = d.recrawls
  BY <1>4, <1>5, <1>7, <1>10 DEF SameButOrigins
<1>16. /\ e.site[s].round = d.site[s].round /\ e.site[s].admitted = d.site[s].admitted
       /\ \A t \in Sites : t # s => e.site[t] = d.site[t]
  BY <1>1, <1>9, <1>11 DEF SiteRows
<1>17. \/ /\ e.site[s].state = "pending"
          /\ e.ready = d.ready \cup {<<e.site[s].due, s>>} /\ e.pendingSites = d.pendingSites + 1
       \/ /\ e.site[s].state = "done" /\ idle
          /\ e.ready = d.ready /\ e.pendingSites = d.pendingSites
  BY <1>1, <1>9, <1>11 DEF SiteRows
<1>18. idle => \A v \in Urls : Unsettled(d, v) => Site(v) # s
  BY DEF idle, Unsettled, Sound, OriginsOK
<1>19. Leaves(d, e, s)
  BY <1>15, <1>16, <1>17, <1>18 DEF Leaves
<1> QED BY <1>13, <1>14, <1>15, <1>19, LeavesSound

LEMMA RecoverJobSound ==
  ASSUME NEW d, Sound(d), NEW s \in d.active, NEW e, e = RecoverJob(d, s)
  PROVE  /\ Sound(e) /\ KeepsLinks(d, e)
         /\ e.url = d.url /\ e.leases = d.leases /\ e.commits = d.commits /\ e.outbox = d.outbox
         /\ e.active = d.active \ {s} /\ e.round = d.round
<1> DEFINE o == d.httpActive[s]
           due == d.site[s].due
           left == [d EXCEPT !.httpActive[s] = None]
           x == IF o = None THEN left ELSE Reschedule(left, o, due)
<1>1. /\ TablesOK(d) /\ DOMAIN d = Tables /\ d.site \in [Sites -> SiteRows] /\ s \in Sites
      /\ d.httpActive \in [Sites -> Origins \cup {None}]
  BY DEF Sound, TablesOK
<1>2. d.site[s].state = "active" /\ due \in Times
  BY <1>1 DEF Sound, SitesOK, SiteRows
<1>3. e = [x EXCEPT !.site[s].state = "pending", !.ready = @ \cup {<<due, s>>},
                    !.active = @ \ {s}, !.activeSites = @ - 1, !.pendingSites = @ + 1]
  BY <1>2 DEF RecoverJob
<1>4. left.httpActive = [d.httpActive EXCEPT ![s] = None] /\ DOMAIN left = Tables
  BY <1>1 DEF Tables
<1>5. /\ left.round = d.round /\ left.url = d.url /\ left.site = d.site /\ left.origin = d.origin
      /\ left.retry = d.retry /\ left.eligible = d.eligible /\ left.httpUrls = d.httpUrls
      /\ left.httpReady = d.httpReady /\ left.ready = d.ready /\ left.active = d.active
      /\ left.leases = d.leases /\ left.commits = d.commits /\ left.outbox = d.outbox
      /\ left.candidates = d.candidates /\ left.waiting = d.waiting
      /\ left.documents = d.documents /\ left.resource = d.resource
      /\ left.recrawls = d.recrawls /\ left.manual = d.manual
      /\ left.streak = d.streak /\ left.pendingSites = d.pendingSites
      /\ left.activeSites = d.activeSites
  BY <1>1 DEF Tables
<1> HIDE DEF left
<1>6. TablesOK(left)
  <2>1. left.httpActive \in [Sites -> Origins \cup {None}]
    BY <1>1, <1>4
  <2> QED BY <1>1, <1>4, <1>5, <2>1 DEF TablesOK
<1> HIDE DEF due
<1>7. TablesOK(x) /\ SameButOrigins(left, x) /\ x.httpUrls = left.httpUrls /\ OriginsOK(x)
  BY <1>1, <1>2, <1>4, <1>5, <1>6, FreedOrigins
<1> HIDE DEF x, o
<1>8. DOMAIN x = Tables
  BY <1>7 DEF TablesOK
<1>9. /\ e.site = [x.site EXCEPT ![s].state = "pending"]
      /\ e.ready = x.ready \cup {<<due, s>>} /\ e.pendingSites = x.pendingSites + 1
      /\ e.active = x.active \ {s} /\ e.activeSites = x.activeSites - 1
  BY <1>3, <1>8 DEF Tables
<1>10. /\ e.round = x.round /\ e.url = x.url /\ e.origin = x.origin
       /\ e.retry = x.retry /\ e.eligible = x.eligible /\ e.httpUrls = x.httpUrls
       /\ e.httpReady = x.httpReady /\ e.httpActive = x.httpActive
       /\ e.leases = x.leases /\ e.commits = x.commits /\ e.outbox = x.outbox
       /\ e.candidates = x.candidates /\ e.waiting = x.waiting
       /\ e.documents = x.documents /\ e.resource = x.resource
       /\ e.recrawls = x.recrawls /\ e.manual = x.manual
       /\ e.streak = x.streak /\ DOMAIN e = Tables
  BY <1>3, <1>8 DEF Tables
<1>11. /\ x.site = d.site /\ x.ready = d.ready /\ x.pendingSites = d.pendingSites
       /\ x.active = d.active /\ x.activeSites = d.activeSites
  BY <1>5, <1>7 DEF SameButOrigins
<1>12. e.site \in [Sites -> SiteRows]
  <2>1. [d.site[s] EXCEPT !.state = "pending"] \in SiteRows
    BY <1>1, SiteRow
  <2> QED BY <2>1, <1>1, <1>9, <1>11
<1>13. TablesOK(e)
  <2>1. /\ e.ready \subseteq Times \X Sites /\ e.pendingSites \in Int
        /\ e.active \subseteq Sites /\ e.activeSites \in Int
    BY <1>1, <1>2, <1>7, <1>9 DEF TablesOK
  <2> QED BY <1>7, <1>10, <1>12, <2>1 DEF TablesOK
<1>14. OriginsOK(e)
  BY <1>7, <1>10 DEF OriginsOK, Queued
<1>15. /\ e.url = d.url /\ e.leases = d.leases /\ e.commits = d.commits /\ e.outbox = d.outbox
       /\ e.active = d.active \ {s} /\ e.activeSites = d.activeSites - 1
       /\ e.httpActive = [d.httpActive EXCEPT ![s] = None]
       /\ e.round = d.round /\ e.resource = d.resource /\ e.recrawls = d.recrawls
  BY <1>4, <1>5, <1>7, <1>9, <1>10, <1>11 DEF SameButOrigins
<1>16. /\ e.site[s].round = d.site[s].round /\ e.site[s].admitted = d.site[s].admitted
       /\ \A t \in Sites : t # s => e.site[t] = d.site[t]
       /\ e.site[s].state = "pending" /\ e.site[s].due = due
  BY <1>1, <1>9, <1>11 DEF SiteRows, due
<1>17. Leaves(d, e, s)
  BY <1>9, <1>11, <1>15, <1>16 DEF Leaves
<1> QED BY <1>1, <1>13, <1>14, <1>15, <1>17, LeavesSound

-----------------------------------------------------------------------------
(* Start-up and rounds *)

LEMMA RecoverLeaseSound ==
  ASSUME NEW d, Sound(d), NEW u \in Urls, NEW n \in Nat, NEW e, e = RecoverLease(d, u, n)
  PROVE  /\ Sound(e) /\ KeepsLinks(d, e)
         /\ e.url[u].fetch = d.url[u].fetch /\ (Unsettled(d, u) => Unsettled(e, u))
         /\ \A v \in Urls : v # u => e.url[v] = d.url[v]
         /\ e.commits = d.commits /\ e.outbox = d.outbox /\ e.active = d.active
<1> DEFINE back == [d EXCEPT !.leases = @ \ {<<u, n>>}]
           y == [back EXCEPT !.url[u].state = "pending", !.eligible = @ \cup {u}]
<1>1. TablesOK(d) /\ DOMAIN d = Tables /\ d.url \in [Urls -> UrlRows]
  BY DEF Sound, TablesOK
<1>2. CASE d.url[u].state # "leased"
  <2>1. e = back
    BY <1>2 DEF RecoverLease
  <2>2. e.leases = d.leases \ {<<u, n>>} /\ DOMAIN e = Tables
    BY <1>1, <2>1 DEF Tables
  <2>3. /\ e.round = d.round /\ e.url = d.url /\ e.site = d.site /\ e.origin = d.origin
        /\ e.retry = d.retry /\ e.eligible = d.eligible /\ e.httpUrls = d.httpUrls
        /\ e.httpReady = d.httpReady /\ e.httpActive = d.httpActive /\ e.ready = d.ready
        /\ e.active = d.active /\ e.commits = d.commits /\ e.outbox = d.outbox
        /\ e.candidates = d.candidates /\ e.waiting = d.waiting /\ e.documents = d.documents
        /\ e.resource = d.resource /\ e.recrawls = d.recrawls /\ e.manual = d.manual
        /\ e.streak = d.streak /\ e.pendingSites = d.pendingSites
        /\ e.activeSites = d.activeSites
    BY <1>1, <2>1 DEF Tables
  <2>4. TablesOK(e)
    BY <1>1, <2>2, <2>3 DEF TablesOK
  <2>5. RowsOK(e) /\ SitesOK(e) /\ CountsOK(e) /\ OriginsOK(e) /\ OutboxOK(e)
    BY <2>3 DEF Sound, RowsOK, ThisRound, SitesOK, ReadyOnce, InWork, CountsOK, OriginsOK, Queued,
                OutboxOK
  <2>6. UnfinishedOK(e)
    <3>1. \A v \in Urls : d.url[v].state = "leased" /\ <<v, d.url[v].fetch>> \in d.leases
            => <<v, d.url[v].fetch>> \in e.leases
      BY <1>2, <2>2
    <3> QED BY <2>3, <3>1 DEF Sound, UnfinishedOK, Unsettled, InWork
  <2>7. KeepsLinks(d, e)
    BY <2>3 DEF KeepsLinks, LinksOK, Covered, VisitsOK
  <2> QED BY <2>3, <2>4, <2>5, <2>6, <2>7 DEF Sound, Unsettled
<1>3. CASE d.url[u].state = "leased"
  <2>1. e = QueueHttpOrigin(y, u)
    BY <1>3 DEF RecoverLease
  <2>2. /\ y.url = [d.url EXCEPT ![u].state = "pending"] /\ y.leases = d.leases \ {<<u, n>>}
        /\ y.eligible = d.eligible \cup {u} /\ DOMAIN y = Tables
    BY <1>1 DEF Tables
  <2>3. /\ y.round = d.round /\ y.site = d.site /\ y.origin = d.origin
        /\ y.retry = d.retry /\ y.httpUrls = d.httpUrls
        /\ y.httpReady = d.httpReady /\ y.httpActive = d.httpActive /\ y.ready = d.ready
        /\ y.active = d.active /\ y.commits = d.commits /\ y.outbox = d.outbox
        /\ y.candidates = d.candidates /\ y.waiting = d.waiting /\ y.documents = d.documents
        /\ y.resource = d.resource /\ y.recrawls = d.recrawls /\ y.manual = d.manual
        /\ y.streak = d.streak /\ y.pendingSites = d.pendingSites
        /\ y.activeSites = d.activeSites
    BY <1>1 DEF Tables
  <2> HIDE DEF y
  <2>4. /\ y.url[u].state = "pending" /\ y.url[u].failures = d.url[u].failures
        /\ y.url[u].round = d.url[u].round /\ y.url[u].fetch = d.url[u].fetch
        /\ \A v \in Urls : v # u => y.url[v] = d.url[v]
    BY <1>1, <2>2 DEF UrlRows
  <2>5. TablesOK(y)
    <3>1. [d.url[u] EXCEPT !.state = "pending"] \in UrlRows
      BY <1>1, UrlRow
    <3>2. y.url \in [Urls -> UrlRows]
      BY <1>1, <2>2, <3>1
    <3> QED BY <1>1, <2>2, <2>3, <3>2 DEF TablesOK
  <2>6. Released(d, y, u)
    BY <2>2, <2>3, <2>4 DEF Released
  <2>7. Unsettled(d, u)
    BY <1>3 DEF Unsettled
  <2>8. y.url[u].failures < MaxAttempts
    BY <2>4, <2>7 DEF Sound, UnfinishedOK
  <2>9. Resolved(d, e, u)
    BY <2>1, <2>2, <2>3, <2>4, <2>5, <2>6, <2>7, <2>8, AgainSound
  <2>10. e.url = y.url
    <3>1. SameButOrigins(y, e)
      BY <2>1, <2>5, QueueOrigin
    <3> QED BY <3>1 DEF SameButOrigins
  <2> QED BY <2>4, <2>9, <2>10 DEF Resolved, Unsettled
<1> QED BY <1>2, <1>3

(* is_empty reads counters, and is right. *)
LEMMA EmptyDone ==
  ASSUME NEW d, Sound(d), IsEmpty(d)
  PROVE  (\A s \in Sites : ~InWork(d, s)) /\ \A u \in Urls : ~Unsettled(d, u)
<1>1. d.ready = {} /\ d.active = {}
  BY FS_EmptySet DEF IsEmpty, Sound, CountsOK
<1>2. \A s \in Sites : d.site[s].state # "active"
  BY <1>1 DEF Sound, SitesOK
<1>3. \A s \in Sites : d.site[s].state # "pending"
  BY <1>1 DEF Sound, SitesOK, ReadyOnce
<1>4. \A s \in Sites : ~InWork(d, s)
  BY <1>2, <1>3 DEF InWork
<1> QED BY <1>4, Places DEF Sound, UnfinishedOK

LEMMA RoundSound ==
  ASSUME NEW d, Sound(d), IsEmpty(d), NEW e, e = [d EXCEPT !.round = @ + 1]
  PROVE  /\ Sound(e) /\ KeepsLinks(d, e)
         /\ e.url = d.url /\ e.leases = d.leases /\ e.commits = d.commits /\ e.outbox = d.outbox
         /\ e.active = d.active
<1>1. TablesOK(d) /\ DOMAIN d = Tables /\ d.round \in Nat \ {0} /\ d.url \in [Urls -> UrlRows]
  BY DEF Sound, TablesOK
<1>2. e.round = d.round + 1 /\ DOMAIN e = Tables
  BY <1>1 DEF Tables
<1>3. /\ e.url = d.url /\ e.site = d.site /\ e.origin = d.origin
      /\ e.retry = d.retry /\ e.eligible = d.eligible /\ e.httpUrls = d.httpUrls
      /\ e.httpReady = d.httpReady /\ e.httpActive = d.httpActive /\ e.ready = d.ready
      /\ e.active = d.active /\ e.leases = d.leases /\ e.commits = d.commits
      /\ e.outbox = d.outbox /\ e.candidates = d.candidates /\ e.waiting = d.waiting
      /\ e.documents = d.documents /\ e.resource = d.resource /\ e.recrawls = d.recrawls
      /\ e.manual = d.manual /\ e.streak = d.streak /\ e.pendingSites = d.pendingSites
      /\ e.activeSites = d.activeSites
  BY <1>1 DEF Tables
<1>4. TablesOK(e)
  BY <1>1, <1>2, <1>3 DEF TablesOK
<1>5. \A u \in Urls : e.url[u].round < e.round
  <2>1. \A u \in Urls : d.url[u].round \in Nat /\ d.url[u].round <= d.round
    BY <1>1 DEF Sound, RowsOK, UrlRows
  <2> QED BY <1>1, <1>2, <1>3, <2>1
<1>6. RowsOK(e)
  <2>1. \A u \in Urls : e.url[u].round <= e.round /\ e.url[u].round # e.round
    <3>1. \A u \in Urls : e.url[u].round \in Nat
      BY <1>1, <1>3 DEF UrlRows
    <3> QED BY <3>1, <1>1, <1>2, <1>5
  <2> QED BY <2>1, <1>3 DEF Sound, RowsOK
<1>7. (\A s \in Sites : ~InWork(e, s)) /\ \A u \in Urls : ~Unsettled(e, u)
  BY <1>3, EmptyDone DEF InWork, Unsettled
<1>8. UnfinishedOK(e) /\ SitesOK(e)
  BY <1>3, <1>7 DEF Sound, UnfinishedOK, SitesOK, ReadyOnce
<1>9. CountsOK(e) /\ OriginsOK(e) /\ OutboxOK(e)
  BY <1>3 DEF Sound, CountsOK, OriginsOK, Queued, OutboxOK, InWork
<1>10. KeepsLinks(d, e)
  <2>1. \A w \in Webs : LinksOK(w, e)
    <3>1. \A u \in Urls : e.url[u].round # e.round
      <4>1. \A u \in Urls : e.url[u].round \in Nat
        BY <1>1, <1>3 DEF UrlRows
      <4> QED BY <4>1, <1>1, <1>2, <1>5
    <3> QED BY <3>1 DEF LinksOK
  <2>2. \A w \in Webs : VisitsOK(w, d) => VisitsOK(w, e)
    BY <1>3 DEF VisitsOK
  <2> QED BY <2>1, <2>2 DEF KeepsLinks
<1> QED BY <1>3, <1>4, <1>6, <1>8, <1>9, <1>10 DEF Sound

LEMMA RedirectPreserves ==
  ASSUME NEW d, Sound(d), NEW u \in Urls, NEW o \in Origins, NEW e, e = [d EXCEPT !.url[u].cont = o]
  PROVE  Preserves(d, e)
<1>1. TablesOK(d) /\ DOMAIN d = Tables /\ d.url \in [Urls -> UrlRows]
  BY DEF Sound, TablesOK
<1>2. e.url = [d.url EXCEPT ![u].cont = o] /\ DOMAIN e = Tables
  BY <1>1 DEF Tables
<1>3. /\ e.round = d.round /\ e.site = d.site /\ e.origin = d.origin
      /\ e.retry = d.retry /\ e.eligible = d.eligible /\ e.httpUrls = d.httpUrls
      /\ e.httpReady = d.httpReady /\ e.httpActive = d.httpActive /\ e.ready = d.ready
      /\ e.active = d.active /\ e.leases = d.leases /\ e.commits = d.commits
      /\ e.outbox = d.outbox /\ e.candidates = d.candidates /\ e.waiting = d.waiting
      /\ e.documents = d.documents /\ e.resource = d.resource /\ e.recrawls = d.recrawls
      /\ e.manual = d.manual /\ e.streak = d.streak /\ e.pendingSites = d.pendingSites
      /\ e.activeSites = d.activeSites
  BY <1>1 DEF Tables
<1>4. TablesOK(e)
  <2>1. [d.url[u] EXCEPT !.cont = o] \in UrlRows
    BY <1>1, UrlRow
  <2>2. e.url \in [Urls -> UrlRows]
    BY <1>1, <1>2, <2>1
  <2> QED BY <1>1, <1>2, <1>3, <2>2 DEF TablesOK
<1>5. SameRows(d, e)
  BY <1>1, <1>2 DEF SameRows, UrlRows
<1>6. SameCore(d, e)
  BY <1>3 DEF SameCore, SameWork
<1> QED BY <1>4, <1>5, <1>6, SoundAside

-----------------------------------------------------------------------------
(* What holds of the whole: the tables, the journal and the turns *)

Running == phase \in {"run", "stopping"}

TurnRows == [pc : Steps, url : Urls \cup {None}, from : Origins \cup {None}, out : Outs, after : Nat,
             todo : SUBSET Urls]
Captures == [url : Urls, fetch : Nat, links : SUBSET Urls]

ControlOK ==
  /\ web \in Webs /\ phase \in Phases /\ todo \subseteq Urls /\ now \in Nat
  /\ issued \in [Urls -> Nat] /\ turns \in [Sites -> TurnRows]

(* The steps of a turn that has a lease. *)
Held == {"leased", "wire", "append", "commit", "ingest", "entries"}

TurnOK(s) ==
  /\ turns[s] # Idle => /\ Running /\ s \in db.active /\ turns[s].pc # "idle"
                        /\ turns[s].url \in Urls /\ Site(turns[s].url) = s
                        /\ db.url[turns[s].url].state # "absent"
  /\ turns[s].pc \in Held => db.url[turns[s].url].state = "leased"
  /\ turns[s].pc \in {"append", "commit", "drain"} \/ (turns[s].pc = "resolve" /\ turns[s].out = "durable")
     => turns[s].from \in Origins
TurnsOK == \A s \in Sites : TurnOK(s)

(* A leased URL is in the hands of the turn of its site, or of the next start. *)
HeldBy(u) == turns[Site(u)].url = u /\ turns[Site(u)].pc \in Held \cup {"resolve"}
LeasedOK == \A u \in Urls : db.url[u].state = "leased" => phase = "leases" \/ HeldBy(u)

FetchesOK ==
  /\ \A u \in Urls : db.url[u].fetch # None => db.url[u].fetch <= issued[u]
  /\ \A c \in db.commits : c[2] <= issued[c[1]]

JournalOK ==
  /\ journal \subseteq Captures
  /\ \A c \in journal : c.links = web.links[c.url] /\ c.fetch <= issued[c.url]

(* While turns run, a capture that is not committed is about to be. *)
CaptureHeld ==
  Running => \A c \in Uncommitted : turns[Site(c.url)].pc = "commit" /\ turns[Site(c.url)].url = c.url

(* While turns run, the outbox is in the hands of the turn that filled it. *)
OutboxHeld == Running => \A entry \in db.outbox : turns[Site(entry.url)].pc = "drain"

IInv ==
  /\ Sound(db) /\ LinksOK(web, db) /\ VisitsOK(web, db)
  /\ ControlOK /\ TurnsOK /\ LeasedOK
  /\ FetchesOK /\ JournalOK /\ CapturesMatch /\ CaptureHeld /\ NoSecondFetch /\ OutboxHeld

LEMMA IdleTurn ==
  /\ Idle \in TurnRows /\ Idle.pc = "idle"
  /\ Idle.pc \notin Held \cup {"resolve", "commit", "drain"}
BY DEF Idle, TurnRows, Steps, Outs, Reasons, Held

(* A steady step keeps the fetch ids and the captures in order. *)
LEMMA SteadyFetches ==
  ASSUME IInv, Steady(db, db'), UNCHANGED <<web, issued, journal>>
  PROVE  FetchesOK' /\ JournalOK' /\ CapturesMatch' /\ Uncommitted' = Uncommitted
<1>1. /\ db'.commits = db.commits
      /\ \A u \in Urls :
           /\ Unsettled(db, u) => db'.url[u].state = db.url[u].state
           /\ db'.url[u].fetch = db.url[u].fetch \/ (~Unsettled(db, u) /\ db'.url[u].fetch = None)
  BY DEF Steady
<1>2. FetchesOK'
  BY <1>1 DEF IInv, FetchesOK
<1>3. JournalOK'
  BY DEF IInv, JournalOK
<1>4. Uncommitted' = Uncommitted
  BY <1>1 DEF Uncommitted
<1>5. CapturesMatch'
  <2>1. \A c \in Uncommitted : c.url \in Urls /\ CaptureMatches(db, c.url, c.fetch)
    BY DEF IInv, CapturesMatch, JournalOK, Captures, Uncommitted
  <2>2. \A c \in Uncommitted : CaptureMatches(db', c.url, c.fetch)
    BY <2>1, <1>1 DEF CaptureMatches, Unsettled
  <2> QED BY <2>2, <1>4 DEF CapturesMatch
<1> QED BY <1>2, <1>3, <1>4, <1>5

(* A turn goes on with its URL; a list of links is not left half admitted. *)
Moved(t, next, outbox) ==
  /\ t # Idle /\ next.pc # "idle" /\ next.url = t.url /\ t.pc # "commit"
  /\ next.pc \in Held => t.pc \in Held
  /\ next.pc \in {"leased", "wire"} => t.pc \in {"leased", "wire"}
  /\ t.pc \in Held \cup {"resolve"} => next.pc \in Held \cup {"resolve"}
  /\ next.pc \in {"append", "commit", "drain"} \/ (next.pc = "resolve" /\ next.out = "durable")
     => next.from \in Origins
  /\ t.pc = "drain" => next.pc = "drain" \/ outbox = {}

LEMMA SteadyStep ==
  ASSUME IInv, Preserves(db, db'), UNCHANGED <<web, issued, journal, phase>>,
         now' \in Nat, todo' \subseteq Urls, turns' \in [Sites -> TurnRows],
         \A s \in Sites : turns'[s] = turns[s] \/ Moved(turns[s], turns'[s], db'.outbox)
  PROVE  IInv'
<1>1. Steady(db, db') /\ Sound(db') /\ web \in Webs
  BY DEF Preserves, IInv, ControlOK
<1>2. LinksOK(web, db)' /\ VisitsOK(web, db)' /\ Sound(db)'
  BY <1>1 DEF Preserves, IInv
<1>3. ControlOK'
  BY <1>1 DEF IInv, ControlOK
<1>4. /\ db'.active = db.active
      /\ \A u \in Urls :
           /\ Unsettled(db, u) => db'.url[u].state = db.url[u].state
           /\ db'.url[u].fetch = db.url[u].fetch \/ (~Unsettled(db, u) /\ db'.url[u].fetch = None)
           /\ db'.url[u].state = "leased" => db.url[u].state = "leased"
           /\ db.url[u].state # "absent" => db'.url[u].state # "absent"
  BY <1>1 DEF Steady
<1>5. FetchesOK' /\ JournalOK' /\ CapturesMatch' /\ Uncommitted' = Uncommitted
  BY <1>1, SteadyFetches
<1>7. ASSUME NEW s \in Sites PROVE TurnOK(s)'
  <2>1. TurnOK(s) /\ Running' = Running
    BY DEF IInv, TurnsOK, Running
  <2>2. CASE turns'[s] = Idle
    <3>1. turns'[s].pc = "idle"
      BY <2>2, IdleTurn
    <3> QED BY <2>2, <3>1 DEF TurnOK, Held
  <2>3. CASE turns'[s] # Idle
    <3>1. turns[s] # Idle /\ turns'[s].url = turns[s].url /\ turns'[s].pc # "idle"
          /\ (turns'[s].pc \in Held => turns[s].pc \in Held)
      BY <2>1, <2>3 DEF TurnOK, Moved
    <3>2. /\ Running /\ s \in db.active /\ turns[s].url \in Urls /\ Site(turns[s].url) = s
          /\ db.url[turns[s].url].state # "absent"
          /\ turns[s].pc \in Held => db.url[turns[s].url].state = "leased"
      BY <2>1, <3>1 DEF TurnOK
    <3>3. turns'[s].pc \in {"append", "commit", "drain"} \/ (turns'[s].pc = "resolve" /\ turns'[s].out = "durable")
          => turns'[s].from \in Origins
      BY <2>1 DEF TurnOK, Moved
    <3> QED BY <2>1, <3>1, <3>2, <3>3, <1>4 DEF TurnOK, Unsettled
  <2> QED BY <2>2, <2>3
<1>8. TurnsOK'
  BY <1>7 DEF TurnsOK
<1>9. \A s \in Sites : /\ turns[s].pc \in Held \cup {"resolve"}
                          => turns'[s].pc \in Held \cup {"resolve"} /\ turns'[s].url = turns[s].url
                       /\ turns[s].pc = "commit" => turns'[s] = turns[s]
                       /\ turns'[s].pc \in {"leased", "wire"}
                          => turns[s].pc \in {"leased", "wire"} /\ turns'[s].url = turns[s].url
                       /\ turns[s].pc = "drain" => turns'[s].pc = "drain" \/ db'.outbox = {}
  BY DEF Moved
<1>10. LeasedOK'
  BY <1>4, <1>9, Places DEF IInv, LeasedOK, HeldBy
<1>11. CaptureHeld'
  <2>1. \A c \in Uncommitted : Site(c.url) \in Sites
    BY Places DEF IInv, JournalOK, Captures, Uncommitted
  <2> QED BY <2>1, <1>5, <1>9 DEF IInv, CaptureHeld, Running
<1>12. NoSecondFetch'
  <2> SUFFICES ASSUME NEW s \in Sites, turns'[s].pc \in {"leased", "wire"}, NEW c \in journal
               PROVE  ~(c.url = turns'[s].url /\ c.fetch = db'.url[turns'[s].url].fetch)
    BY DEF NoSecondFetch
  <2>1. turns[s].pc \in {"leased", "wire"} /\ turns'[s].url = turns[s].url
    BY <1>9
  <2>2. turns[s] # Idle
    BY <2>1, IdleTurn
  <2>3. turns[s].url \in Urls /\ db.url[turns[s].url].state = "leased"
    BY <2>1, <2>2 DEF IInv, TurnsOK, TurnOK, Held
  <2>4. db'.url[turns[s].url].fetch = db.url[turns[s].url].fetch
    BY <2>3, <1>4 DEF Unsettled
  <2> QED BY <2>1, <2>4 DEF IInv, NoSecondFetch
<1>13. OutboxHeld'
  <2>1. \A entry \in db'.outbox : \E old \in db.outbox : old.url = entry.url
    BY <1>1 DEF Steady, OutboxOf
  <2>2. \A old \in db.outbox : Site(old.url) \in Sites
    BY Places DEF IInv, Sound, TablesOK, Entries
  <2> QED BY <2>1, <2>2, <1>9 DEF IInv, OutboxHeld, Running
<1> QED BY <1>2, <1>3, <1>5, <1>8, <1>10, <1>11, <1>12, <1>13 DEF IInv

(* While the process starts, no turn runs. *)
LEMMA StartStep ==
  ASSUME IInv, ~Running, UNCHANGED <<web, issued, journal, turns, now>>,
         phase' \in Phases, todo' \subseteq Urls,
         Sound(db)', LinksOK(web, db)', VisitsOK(web, db)', FetchesOK', CapturesMatch',
         \A u \in Urls : db'.url[u].state = "leased" => phase' = "leases",
         Running' => Uncommitted' = {} /\ db'.outbox = {}
  PROVE  IInv'
<1>1. \A s \in Sites : turns[s] = Idle
  BY DEF IInv, TurnsOK, TurnOK
<1>2. ControlOK' /\ JournalOK'
  BY DEF IInv, ControlOK, JournalOK
<1>3. TurnsOK'
  BY <1>1, IdleTurn DEF TurnsOK, TurnOK, Held
<1>4. LeasedOK'
  BY DEF LeasedOK
<1>5. CaptureHeld' /\ OutboxHeld'
  BY DEF CaptureHeld, OutboxHeld
<1>6. NoSecondFetch'
  BY <1>1, IdleTurn DEF NoSecondFetch
<1> QED BY <1>2, <1>3, <1>4, <1>5, <1>6 DEF IInv

(* A start that begins again, whatever the last process was doing. *)
LEMMA StopStep ==
  ASSUME IInv, Stop, UNCHANGED <<web, db, issued, journal, now>>
  PROVE  IInv'
<1>1. phase' = "leases" /\ todo' = {} /\ turns' = [s \in Sites |-> Idle]
  BY DEF Stop
<1>2. ~Running'
  BY <1>1 DEF Running
<1>3. \A s \in Sites : turns'[s] = Idle
  BY <1>1
<1>4. ControlOK'
  BY <1>1, IdleTurn DEF IInv, ControlOK, Phases
<1>5. FetchesOK' /\ JournalOK' /\ CapturesMatch' /\ Uncommitted' = Uncommitted
  BY DEF IInv, FetchesOK, JournalOK, CapturesMatch, Uncommitted
<1>6. TurnsOK'
  BY <1>3, IdleTurn DEF TurnsOK, TurnOK, Held
<1>7. LeasedOK' /\ CaptureHeld' /\ OutboxHeld'
  BY <1>1, <1>2 DEF LeasedOK, CaptureHeld, OutboxHeld
<1>8. NoSecondFetch'
  BY <1>3, IdleTurn DEF NoSecondFetch
<1>9. Sound(db)' /\ LinksOK(web, db)' /\ VisitsOK(web, db)'
  BY DEF IInv
<1> QED BY <1>4, <1>5, <1>6, <1>7, <1>8, <1>9 DEF IInv

LEMMA NoneLeased ==
  ASSUME IInv, phase # "leases", ~Running
  PROVE  \A u \in Urls : db.url[u].state # "leased"
<1>1. \A s \in Sites : turns[s] = Idle
  BY DEF IInv, TurnsOK, TurnOK
<1> QED BY <1>1, Places, IdleTurn DEF IInv, LeasedOK, HeldBy

LEMMA SteadyStart ==
  ASSUME IInv, phase # "leases", ~Running, Preserves(db, db'),
         UNCHANGED <<web, issued, journal, turns, now>>,
         phase' \in Phases, ~Running', todo' \subseteq Urls
  PROVE  IInv'
<1>1. Steady(db, db') /\ Sound(db)' /\ web \in Webs
  BY DEF Preserves, IInv, ControlOK
<1>2. LinksOK(web, db)' /\ VisitsOK(web, db)'
  BY <1>1 DEF Preserves, IInv
<1>3. FetchesOK' /\ CapturesMatch'
  BY <1>1, SteadyFetches
<1>4. \A u \in Urls : db'.url[u].state # "leased"
  BY <1>1, NoneLeased DEF Steady
<1> QED BY <1>1, <1>2, <1>3, <1>4, StartStep

LEMMA SameStart ==
  ASSUME IInv, ~Running, UNCHANGED <<web, db, issued, journal, turns, now>>,
         phase' \in Phases, todo' \subseteq Urls,
         phase = "leases" => db.leases = {},
         Running' => Uncommitted = {} /\ db.outbox = {}
  PROVE  IInv'
<1>1. Sound(db)' /\ LinksOK(web, db)' /\ VisitsOK(web, db)'
  BY DEF IInv
<1>2. FetchesOK' /\ CapturesMatch' /\ Uncommitted' = Uncommitted
  BY DEF IInv, FetchesOK, CapturesMatch, Uncommitted
<1>3. \A u \in Urls : db.url[u].state # "leased"
  <2>1. db.leases = {} => \A u \in Urls : db.url[u].state # "leased"
    BY DEF IInv, Sound, UnfinishedOK, Unsettled
  <2> QED BY <2>1, NoneLeased
<1> QED BY <1>1, <1>2, <1>3, StartStep

LEMMA CommitKeeps ==
  ASSUME IInv, UNCHANGED <<web, issued, journal>>,
         NEW u \in Urls, NEW n \in Nat, CaptureMatches(db, u, n), NEW next \in Times,
         db' = CommitCapture(db, u, n, web.links[u], web.recrawl, next)
  PROVE  /\ Sound(db)' /\ LinksOK(web, db)' /\ VisitsOK(web, db)'
         /\ FetchesOK' /\ JournalOK' /\ CapturesMatch'
         /\ Uncommitted' = {c \in Uncommitted : c.url # u}
         /\ db'.url[u].state = "committed" /\ db'.active = db.active
         /\ \A v \in Urls : v # u => db'.url[v] = db.url[v]
         /\ db'.outbox = db.outbox \cup {[url |-> u, fetch |-> n, links |-> web.links[u]]}
<1>1. web \in Webs /\ Sound(db) /\ LinksOK(web, db) /\ VisitsOK(web, db)
  BY DEF IInv, ControlOK
<1>2. /\ Sound(db') /\ LinksOK(web, db') /\ VisitsOK(web, db')
      /\ db'.url[u].state = "committed" /\ db'.url[u].fetch = n
      /\ \A v \in Urls : v # u => db'.url[v] = db.url[v]
      /\ db'.commits = db.commits \cup {<<u, n>>} /\ db'.active = db.active
      /\ db'.outbox = db.outbox \cup {[url |-> u, fetch |-> n, links |-> web.links[u]]}
  BY <1>1, CommitSound
<1>3. FetchesOK'
  <2>1. db.url[u].fetch = n /\ n # None
    BY TableAssumptions DEF CaptureMatches
  <2>2. n <= issued[u]
    BY <2>1 DEF IInv, FetchesOK
  <2>3. \A v \in Urls : db'.url[v].fetch # None => db'.url[v].fetch <= issued[v]
    BY <1>2, <2>2 DEF IInv, FetchesOK
  <2>4. \A c \in db'.commits : c[2] <= issued[c[1]]
    BY <1>2, <2>2 DEF IInv, FetchesOK
  <2> QED BY <2>3, <2>4 DEF FetchesOK
<1>4. JournalOK'
  BY DEF IInv, JournalOK
<1>5. Uncommitted' = {c \in Uncommitted : c.url # u}
  <2>1. \A c \in Uncommitted : c.url = u => c.fetch = n
    BY DEF IInv, CapturesMatch, CaptureMatches
  <2> QED BY <2>1, <1>2 DEF Uncommitted
<1>6. CapturesMatch'
  <2>1. \A c \in Uncommitted : c.url \in Urls /\ CaptureMatches(db, c.url, c.fetch)
    BY DEF IInv, CapturesMatch, JournalOK, Captures, Uncommitted
  <2>2. \A c \in Uncommitted' : CaptureMatches(db', c.url, c.fetch)
    BY <2>1, <1>2, <1>5 DEF CaptureMatches, Unsettled
  <2> QED BY <2>2 DEF CapturesMatch
<1>7. Sound(db)' /\ LinksOK(web, db)' /\ VisitsOK(web, db)'
  BY <1>2
<1> QED BY <1>2, <1>3, <1>4, <1>5, <1>6, <1>7

LEMMA Draining ==
  ASSUME IInv, DrainOutbox
  PROVE  Preserves(db, db')
<1>1. Drained(db, db')
  BY DEF DrainOutbox, Drained, Store
<1> QED BY <1>1, DrainPreserves DEF IInv

LEMMA StartupKeeps ==
  ASSUME IInv, Startup
  PROVE  IInv'
<1>1. web \in Webs /\ Sound(db) /\ todo \subseteq Urls /\ TablesOK(db)
  BY DEF IInv, ControlOK, Sound
<1>2. web.seeds \subseteq Urls /\ web.plan \subseteq Urls
  BY <1>1, WebAssumptions
<1>3. CASE RecoverLeases
  <2>1. /\ phase = "leases" /\ ~Running /\ todo' = todo
        /\ UNCHANGED <<web, issued, journal, turns, now>>
    BY <1>3 DEF RecoverLeases, Go, Running
  <2>2. CASE phase' = "leases" /\ \E l \in db.leases : Store(RecoverLease(db, l[1], l[2]))
    <3>1. PICK u \in Urls, n \in Nat : db' = RecoverLease(db, u, n)
      <4>1. PICK l \in db.leases : db' = RecoverLease(db, l[1], l[2])
        BY <2>2 DEF Store
      <4>2. l[1] \in Urls /\ l[2] \in Nat
        BY <1>1 DEF TablesOK
      <4> QED BY <4>1, <4>2
    <3>2. /\ Sound(db') /\ KeepsLinks(db, db')
          /\ db'.url[u].fetch = db.url[u].fetch /\ (Unsettled(db, u) => Unsettled(db', u))
          /\ \A v \in Urls : v # u => db'.url[v] = db.url[v]
          /\ db'.commits = db.commits
      BY <1>1, <3>1, RecoverLeaseSound
    <3>3. Sound(db)' /\ LinksOK(web, db)' /\ VisitsOK(web, db)'
      BY <1>1, <2>1, <3>2 DEF KeepsLinks, IInv
    <3>4. FetchesOK'
      BY <2>1, <3>2 DEF IInv, FetchesOK
    <3>5. CapturesMatch'
      <4>1. \A c \in Uncommitted : c.url \in Urls /\ CaptureMatches(db, c.url, c.fetch)
        BY DEF IInv, CapturesMatch, JournalOK, Captures, Uncommitted
      <4>2. \A c \in Uncommitted : CaptureMatches(db', c.url, c.fetch)
        BY <4>1, <3>2 DEF CaptureMatches, Unsettled
      <4>3. Uncommitted' = Uncommitted
        BY <2>1, <3>2 DEF Uncommitted
      <4> QED BY <4>2, <4>3 DEF CapturesMatch
    <3>6. ~Running' /\ phase' \in Phases
      BY <2>2 DEF Running, Phases
    <3> QED BY <1>1, <2>1, <2>2, <3>3, <3>4, <3>5, <3>6, StartStep
  <2>3. CASE db.leases = {} /\ phase' = "jobs" /\ UNCHANGED db
    <3>1. ~Running' /\ phase' \in Phases
      BY <2>3 DEF Running, Phases
    <3> QED BY <1>1, <2>1, <2>3, <3>1, SameStart
  <2> QED BY <1>3, <2>2, <2>3 DEF RecoverLeases, Go
<1>4. CASE RecoverJobs
  <2>1. /\ phase = "jobs" /\ ~Running /\ todo' = todo
        /\ UNCHANGED <<web, issued, journal, turns, now>>
    BY <1>4 DEF RecoverJobs, Go, Running
  <2>2. CASE phase' = "jobs" /\ \E s \in db.active : Store(RecoverJob(db, s))
    <3>1. PICK s \in db.active : db' = RecoverJob(db, s)
      BY <2>2 DEF Store
    <3>2. Sound(db') /\ KeepsLinks(db, db') /\ db'.url = db.url /\ db'.commits = db.commits
      BY <1>1, <3>1, RecoverJobSound
    <3>3. Sound(db)' /\ LinksOK(web, db)' /\ VisitsOK(web, db)'
      BY <1>1, <2>1, <3>2 DEF KeepsLinks, IInv
    <3>4. FetchesOK' /\ CapturesMatch'
      BY <2>1, <3>2 DEF IInv, FetchesOK, CapturesMatch, CaptureMatches, Unsettled, Uncommitted
    <3>5. ~Running' /\ phase' \in Phases
      BY <2>2 DEF Running, Phases
    <3>6. \A u \in Urls : db'.url[u].state # "leased"
      BY <2>1, <3>2, NoneLeased
    <3> QED BY <1>1, <2>1, <3>3, <3>4, <3>5, <3>6, StartStep
  <2>3. CASE phase' = "outbox" /\ UNCHANGED db
    <3>1. ~Running' /\ phase' \in Phases
      BY <2>3 DEF Running, Phases
    <3> QED BY <1>1, <2>1, <2>3, <3>1, SameStart
  <2> QED BY <1>4, <2>2, <2>3 DEF RecoverJobs, Go
<1>5. CASE RecoverOutbox
  <2>1. phase = "outbox" /\ ~Running /\ UNCHANGED <<web, issued, journal, turns, now>>
    BY <1>5 DEF RecoverOutbox, Go, Running
  <2>2. CASE DrainOutbox /\ phase' = "outbox" /\ todo' = todo
    <3>1. Preserves(db, db') /\ ~Running' /\ phase' \in Phases
      BY <2>2, Draining DEF Running, Phases
    <3> QED BY <1>1, <2>1, <2>2, <3>1, SteadyStart
  <2>3. CASE phase' = "seeds" /\ todo' = web.seeds /\ UNCHANGED db
    <3>1. ~Running' /\ phase' \in Phases
      BY <2>3 DEF Running, Phases
    <3> QED BY <1>2, <2>1, <2>3, <3>1, SameStart
  <2> QED BY <1>5, <2>2, <2>3 DEF RecoverOutbox, Go
<1>6. CASE DiscoverSeeds
  <2>1. phase = "seeds" /\ ~Running /\ UNCHANGED <<web, issued, journal, turns, now>>
    BY <1>6 DEF DiscoverSeeds, Go, Running
  <2>2. CASE phase' = "seeds" /\ \E u \in todo : Store(Admit(db, u, FALSE)) /\ todo' = todo \ {u}
    <3>1. PICK u \in todo : db' = AdmitCapped(db, u, FALSE, Budget, FALSE) /\ todo' = todo \ {u}
      BY <2>2 DEF Store, Admit
    <3>2. u \in Urls
      BY <1>1
    <3>3. Preserves(db, db')
      BY <1>1, <3>1, <3>2, AdmitPreserves
    <3>4. ~Running' /\ phase' \in Phases
      BY <2>2 DEF Running, Phases
    <3> QED BY <1>1, <2>1, <3>1, <3>3, <3>4, SteadyStart
  <2>3. CASE phase' = "plan" /\ todo' = web.plan /\ UNCHANGED db
    <3>1. ~Running' /\ phase' \in Phases
      BY <2>3 DEF Running, Phases
    <3> QED BY <1>2, <2>1, <2>3, <3>1, SameStart
  <2> QED BY <1>6, <2>2, <2>3 DEF DiscoverSeeds, Go
<1>7. CASE ImportPlan
  <2>1. phase = "plan" /\ ~Running /\ UNCHANGED <<web, issued, journal, turns, now>>
    BY <1>7 DEF ImportPlan, Go, Running
  <2>2. CASE phase' = "plan" /\ \E u \in todo : Store(Planned(db, u)) /\ todo' = todo \ {u}
    <3>1. PICK u \in todo : db' = Planned(db, u) /\ todo' = todo \ {u}
      BY <2>2 DEF Store
    <3>2. u \in Urls
      BY <1>1
    <3>3. Preserves(db, db')
      BY <1>1, <3>1, <3>2, PlannedPreserves
    <3>4. ~Running' /\ phase' \in Phases
      BY <2>2 DEF Running, Phases
    <3> QED BY <1>1, <2>1, <3>1, <3>3, <3>4, SteadyStart
  <2>3. CASE phase' = "spool" /\ UNCHANGED <<db, todo>>
    <3>1. ~Running' /\ phase' \in Phases
      BY <2>3 DEF Running, Phases
    <3> QED BY <1>1, <2>1, <2>3, <3>1, SameStart
  <2> QED BY <1>7, <2>2, <2>3 DEF ImportPlan, Go
<1>8. CASE ReconcileSpool
  <2>1. /\ phase = "spool" /\ ~Running /\ todo' = todo
        /\ UNCHANGED <<web, issued, journal, turns, now>>
    BY <1>8 DEF ReconcileSpool, Go, Running
  <2>2. CASE /\ phase' = "spool"
             /\ \E c \in Uncommitted, i \in Intervals :
                  /\ CaptureMatches(db, c.url, c.fetch)
                  /\ Store(CommitCapture(db, c.url, c.fetch, c.links, web.recrawl, After(now, i)))
    <3>1. PICK c \in Uncommitted, i \in Intervals :
            /\ CaptureMatches(db, c.url, c.fetch)
            /\ db' = CommitCapture(db, c.url, c.fetch, c.links, web.recrawl, After(now, i))
      BY <2>2 DEF Store
    <3>2. c.url \in Urls /\ c.fetch \in Nat /\ c.links = web.links[c.url]
      BY DEF IInv, JournalOK, Captures, Uncommitted
    <3>3. After(now, i) \in Times
      BY TableAssumptions, Clock DEF IInv, ControlOK
    <3>4. PICK u \in Urls, n \in Nat, next \in Times :
            /\ CaptureMatches(db, u, n)
            /\ db' = CommitCapture(db, u, n, web.links[u], web.recrawl, next)
      BY <3>1, <3>2, <3>3
    <3>5. /\ Sound(db)' /\ LinksOK(web, db)' /\ VisitsOK(web, db)'
          /\ FetchesOK' /\ CapturesMatch'
          /\ db'.url[u].state = "committed"
          /\ \A v \in Urls : v # u => db'.url[v] = db.url[v]
      BY <2>1, <3>4, CommitKeeps
    <3>6. \A v \in Urls : db'.url[v].state # "leased"
      BY <2>1, <3>5, NoneLeased
    <3>7. ~Running' /\ phase' \in Phases
      BY <2>2 DEF Running, Phases
    <3> QED BY <1>1, <2>1, <3>5, <3>6, <3>7, StartStep
  <2>3. CASE DrainOutbox /\ phase' = "spool"
    <3>1. Preserves(db, db') /\ ~Running' /\ phase' \in Phases
      BY <2>3, Draining DEF Running, Phases
    <3> QED BY <1>1, <2>1, <3>1, SteadyStart
  <2>4. CASE Uncommitted = {} /\ db.outbox = {} /\ phase' = "run" /\ UNCHANGED db
    <3>1. phase' \in Phases
      BY <2>4 DEF Phases
    <3> QED BY <1>1, <2>1, <2>4, <3>1, SameStart
  <2> QED BY <1>8, <2>2, <2>3, <2>4 DEF ReconcileSpool, Go
<1> QED BY <1>3, <1>4, <1>5, <1>6, <1>7, <1>8 DEF Startup

(* A step of the control loop that leaves the turns alone. *)
LEMMA SteadyControl ==
  ASSUME IInv, Preserves(db, db'), UNCHANGED <<web, issued, journal, phase, turns>>,
         now' \in Nat, todo' \subseteq Urls
  PROVE  IInv'
<1>1. turns' \in [Sites -> TurnRows] /\ \A s \in Sites : turns'[s] = turns[s]
  BY DEF IInv, ControlOK
<1> QED BY <1>1, SteadyStep

LEMMA ControlKeeps ==
  ASSUME IInv, EnqueueUrls \/ RequeueRecrawls \/ DiscoverSeed \/ PromoteCandidates \/ Tick \/ Shutdown
  PROVE  IInv'
<1>1. web \in Webs /\ Sound(db) /\ todo \subseteq Urls /\ TablesOK(db) /\ now \in Nat
  BY DEF IInv, ControlOK, Sound
<1>2. CASE EnqueueUrls
  <2>1. /\ UNCHANGED <<web, issued, journal, phase, turns>> /\ now' = now /\ todo' = todo
        /\ \E u \in web.requests \ asked, priority \in BOOLEAN : Store(EnqueueUrl(db, u, priority))
    BY <1>2 DEF EnqueueUrls, KeepProcess
  <2>2. PICK u \in web.requests, priority \in BOOLEAN : db' = EnqueueUrl(db, u, priority)
    BY <2>1 DEF Store
  <2>3. u \in Urls
    BY <1>1, WebAssumptions
  <2>4. Preserves(db, db')
    BY <1>1, <2>2, <2>3, RequestPreserves
  <2> QED BY <1>1, <2>1, <2>4, SteadyControl
<1>3. CASE RequeueRecrawls
  <2>1. /\ UNCHANGED <<web, issued, journal, phase, turns>> /\ now' = now /\ todo' = todo
        /\ \E e \in db.recrawls : Store(RequeueRecrawl(db, e[1], e[2]))
    BY <1>3 DEF RequeueRecrawls, KeepProcess
  <2>2. PICK e \in db.recrawls : db' = RequeueRecrawl(db, e[1], e[2])
    BY <2>1 DEF Store
  <2>3. Preserves(db, db')
    BY <1>1, <2>2, RecrawlPreserves
  <2> QED BY <1>1, <2>1, <2>3, SteadyControl
<1>4. CASE DiscoverSeed
  <2>1. UNCHANGED <<web, issued, journal, phase, turns>> /\ now' = now
    BY <1>4 DEF DiscoverSeed, KeepProcess
  <2>2. PICK u \in todo : db' = AdmitCapped(db, u, FALSE, Budget, FALSE) /\ todo' = todo \ {u}
    BY <1>4 DEF DiscoverSeed, Store, Admit
  <2>3. u \in Urls
    BY <1>1
  <2>4. Preserves(db, db')
    BY <1>1, <2>2, <2>3, AdmitPreserves
  <2> QED BY <1>1, <2>1, <2>2, <2>4, SteadyControl
<1>5. CASE PromoteCandidates
  <2>1. UNCHANGED <<web, issued, journal, phase, turns>> /\ now' = now /\ todo' = todo
    BY <1>5 DEF PromoteCandidates, KeepProcess
  <2>2. PICK u \in Urls : db' = Candidate(db, u)
    BY <1>5 DEF PromoteCandidates, Store
  <2>3. Preserves(db, db')
    BY <1>1, <2>2, CandidatePreserves
  <2> QED BY <1>1, <2>1, <2>3, SteadyControl
<1>6. CASE Tick
  <2>1. /\ UNCHANGED <<web, issued, journal, phase, turns>> /\ now' \in Nat /\ todo' = todo
        /\ db' = db
    BY <1>1, <1>6 DEF Tick
  <2>2. Preserves(db, db')
    BY <1>1, <2>1, PreservesSame
  <2> QED BY <1>1, <2>1, <2>2, SteadyControl
<1>7. CASE Shutdown
  <2>1. /\ phase = "run" /\ phase' = "stopping"
        /\ UNCHANGED <<web, db, issued, journal, todo, turns, now>>
    BY <1>7 DEF Shutdown
  <2>2. Running /\ Running'
    BY <2>1 DEF Running
  <2>3. Sound(db)' /\ LinksOK(web, db)' /\ VisitsOK(web, db)'
    BY <2>1 DEF IInv
  <2>4. ControlOK' /\ FetchesOK' /\ JournalOK' /\ CapturesMatch' /\ Uncommitted' = Uncommitted
    BY <2>1 DEF IInv, ControlOK, Phases, FetchesOK, JournalOK, CapturesMatch, Uncommitted
  <2>5. TurnsOK' /\ NoSecondFetch'
    BY <2>1, <2>2 DEF IInv, TurnsOK, TurnOK, NoSecondFetch
  <2>6. LeasedOK'
    BY <2>1 DEF IInv, LeasedOK, HeldBy
  <2>7. CaptureHeld' /\ OutboxHeld'
    BY <2>1, <2>2, <2>4 DEF IInv, CaptureHeld, OutboxHeld
  <2> QED BY <2>3, <2>4, <2>5, <2>6, <2>7 DEF IInv
<1> QED BY <1>2, <1>3, <1>4, <1>5, <1>6, <1>7

LEMMA RoundKeeps ==
  ASSUME IInv, RestartRound
  PROVE  IInv'
<1>1. /\ UNCHANGED <<web, issued, journal, phase, turns>> /\ now' = now /\ todo' = web.seeds
      /\ IsEmpty(db) /\ db' = [db EXCEPT !.round = @ + 1]
  BY DEF RestartRound, KeepProcess, Store
<1>2. web \in Webs /\ Sound(db)
  BY DEF IInv, ControlOK
<1>3. /\ Sound(db') /\ KeepsLinks(db, db') /\ db'.url = db.url /\ db'.leases = db.leases
      /\ db'.commits = db.commits /\ db'.outbox = db.outbox /\ db'.active = db.active
  BY <1>1, <1>2, RoundSound
<1>4. Sound(db)' /\ LinksOK(web, db)' /\ VisitsOK(web, db)'
  BY <1>1, <1>2, <1>3 DEF KeepsLinks, IInv
<1>5. ControlOK'
  BY <1>1, <1>2, WebAssumptions DEF IInv, ControlOK
<1>6. FetchesOK' /\ JournalOK' /\ CapturesMatch' /\ Uncommitted' = Uncommitted
  BY <1>1, <1>3 DEF IInv, FetchesOK, JournalOK, CapturesMatch, CaptureMatches, Unsettled, Uncommitted
<1>7. TurnsOK' /\ NoSecondFetch'
  BY <1>1, <1>3 DEF IInv, TurnsOK, TurnOK, NoSecondFetch, Running
<1>8. LeasedOK'
  BY <1>1, <1>3 DEF IInv, LeasedOK, HeldBy
<1>9. CaptureHeld' /\ OutboxHeld'
  BY <1>1, <1>3, <1>6 DEF IInv, CaptureHeld, OutboxHeld, Running
<1> QED BY <1>4, <1>5, <1>6, <1>7, <1>8, <1>9 DEF IInv

LEMMA StopsKeep ==
  ASSUME IInv, ClaimFails \/ Crash \/ Exit
  PROVE  IInv'
<1>1. Stop /\ UNCHANGED <<web, db, issued, journal, now>>
  BY DEF ClaimFails, Crash, Exit
<1> QED BY <1>1, StopStep

(* A site that waits for its turn has none. *)
LEMMA TakeKeeps ==
  ASSUME IInv, Running, NEW u \in Urls, db.site[Site(u)].state = "pending",
         db.url[u].state = "pending", NEW streak \in 0 .. 3, Take(u, streak),
         UNCHANGED <<web, issued, journal, phase, todo, now>>
  PROVE  IInv'
<1> DEFINE s == Site(u)
<1>1. web \in Webs /\ Sound(db) /\ TablesOK(db) /\ s \in Sites /\ turns \in [Sites -> TurnRows]
  BY Places DEF IInv, ControlOK, Sound
<1>2. s \notin db.active
  BY <1>1 DEF Sound, SitesOK
<1>3. turns[s] = Idle
  BY <1>1, <1>2 DEF IInv, TurnsOK, TurnOK
<1>4. Preserves(db, Tidy) /\ Tidy.url = db.url /\ Tidy.site = db.site
  <2>1. CASE db.streak < 3
    <3>1. db.manual \ FinishedManual(db) \in SUBSET Urls /\ DOMAIN db = Tables
      BY <1>1 DEF TablesOK
    <3>2. Tidy = [db EXCEPT !.manual = db.manual \ FinishedManual(db)]
      BY <2>1 DEF Tidy
    <3>3. Preserves(db, Tidy)
      BY <1>1, <3>1, <3>2, TidyPreserves
    <3> QED BY <3>1, <3>2, <3>3 DEF Tables
  <2>2. CASE ~(db.streak < 3)
    BY <1>1, <2>2, PreservesSame DEF Tidy
  <2> QED BY <2>1, <2>2
<1>5. PICK d : d = Tidy
  OBVIOUS
<1>6. /\ db' = ClaimUrl(d, u, streak) /\ Sound(d) /\ Steady(db, d)
      /\ turns' = [turns EXCEPT ![s] = [Idle EXCEPT !.pc = "claimed", !.url = u]]
  BY <1>4, <1>5 DEF Take, Store, Preserves
<1>7. /\ d.url = db.url /\ d.site = db.site /\ d.commits = db.commits /\ d.active = db.active
      /\ OutboxOf(db, d)
  BY <1>4, <1>5, <1>6 DEF Steady
<1>8. /\ Sound(db') /\ KeepsLinks(d, db')
      /\ db'.url = db.url /\ db'.commits = db.commits /\ db'.outbox = d.outbox
      /\ db'.active = db.active \cup {s}
  BY <1>6, <1>7, ClaimSound
<1>9. Sound(db)' /\ LinksOK(web, db)' /\ VisitsOK(web, db)'
  BY <1>1, <1>4, <1>5, <1>8 DEF KeepsLinks, Preserves, IInv
<1> DEFINE t == [Idle EXCEPT !.pc = "claimed", !.url = u]
<1>10. t \in TurnRows /\ t.pc = "claimed" /\ t.url = u /\ t # Idle
  BY DEF Idle, TurnRows, Steps, Outs, Reasons
<1>11. turns'[s] = t /\ \A r \in Sites : r # s => turns'[r] = turns[r]
  BY <1>1, <1>6
<1>12. ControlOK'
  BY <1>1, <1>6, <1>10 DEF IInv, ControlOK
<1> HIDE DEF t
<1>13. FetchesOK' /\ JournalOK' /\ CapturesMatch' /\ Uncommitted' = Uncommitted
  BY <1>8 DEF IInv, FetchesOK, JournalOK, CapturesMatch, CaptureMatches, Unsettled, Uncommitted
<1>14. TurnsOK'
  <2> SUFFICES ASSUME NEW r \in Sites PROVE TurnOK(r)'
    BY DEF TurnsOK
  <2>1. Running' = Running
    BY DEF Running
  <2>2. CASE r = s
    BY <2>1, <2>2, <1>8, <1>10, <1>11 DEF TurnOK, Held
  <2>3. CASE r # s
    <3>1. TurnOK(r) /\ turns'[r] = turns[r]
      BY <2>3, <1>11 DEF IInv, TurnsOK
    <3> QED BY <2>1, <3>1, <1>8 DEF TurnOK
  <2> QED BY <2>2, <2>3
<1>15. LeasedOK'
  BY <1>3, <1>8, <1>11, IdleTurn, Places DEF IInv, LeasedOK, HeldBy
<1>16. CaptureHeld'
  <2>1. \A c \in Uncommitted : Site(c.url) \in Sites
    BY Places DEF IInv, JournalOK, Captures, Uncommitted
  <2> QED BY <2>1, <1>3, <1>11, <1>13, IdleTurn DEF IInv, CaptureHeld, Running
<1>17. NoSecondFetch'
  BY <1>8, <1>10, <1>11 DEF IInv, NoSecondFetch
<1>18. OutboxHeld'
  <2>1. \A entry \in db'.outbox : \E old \in db.outbox : old.url = entry.url
    BY <1>7, <1>8 DEF OutboxOf
  <2>2. \A old \in db.outbox : Site(old.url) \in Sites
    BY <1>1, Places DEF TablesOK, Entries
  <2> QED BY <2>1, <2>2, <1>3, <1>11, IdleTurn DEF IInv, OutboxHeld, Running
<1> QED BY <1>9, <1>12, <1>13, <1>14, <1>15, <1>16, <1>17, <1>18 DEF IInv

LEMMA ClaimKeeps ==
  ASSUME IInv, Claim
  PROVE  IInv'
<1>1. /\ Running /\ UNCHANGED <<web, issued, journal, phase, todo, now>>
      /\ Sound(db) /\ TablesOK(db)
  BY DEF Claim, Control, Running, IInv, Sound
<1>2. ASSUME NEW u \in Preferred, Take(u, db.streak + 1) PROVE IInv'
  <2>1. db.streak < 3 /\ u \in ManualCandidates(db, now)
    BY <1>2 DEF Preferred
  <2>2. u \in Urls /\ db.url[u].state = "pending" /\ db.site[Site(u)].state = "pending"
    BY <1>1, <2>1 DEF ManualCandidates, Beginnable, TablesOK
  <2>3. db.streak + 1 \in 0 .. 3
    BY <1>1, <2>1 DEF TablesOK
  <2> QED BY <1>1, <1>2, <2>2, <2>3, TakeKeeps
<1>3. ASSUME NEW e \in FirstOf(db.ready), NEW h \in FirstOf(HttpOrigins(db, e[2])),
             NEW u \in db.httpUrls, OriginOf[u] = h[2], Beginnable(db, u), Take(u, 0)
      PROVE  IInv'
  <2>1. u \in Urls /\ db.url[u].state = "pending"
    BY <1>1, <1>3 DEF TablesOK, Beginnable
  <2>2. e \in db.ready /\ e[2] \in Sites /\ Site(u) = e[2]
    BY <1>1, <1>3 DEF FirstOf, HttpOrigins, Site, TablesOK
  <2>3. ReadyOnce(db, e[2])
    BY <1>1, <2>2 DEF Sound, SitesOK
  <2>4. db.site[Site(u)].state = "pending"
    BY <2>2, <2>3 DEF ReadyOnce
  <2> QED BY <1>1, <1>3, <2>1, <2>4, TakeKeeps
<1>4. \/ \E u \in Preferred : Take(u, db.streak + 1)
      \/ \E e \in FirstOf(db.ready) : \E h \in FirstOf(HttpOrigins(db, e[2])) :
           \E u \in db.httpUrls : OriginOf[u] = h[2] /\ Beginnable(db, u) /\ Take(u, 0)
  BY DEF Claim
<1> QED BY <1>2, <1>3, <1>4

LEMMA TurnRow ==
  ASSUME NEW t \in TurnRows
  PROVE  /\ \A pc \in Steps : /\ [t EXCEPT !.pc = pc] \in TurnRows
                              /\ [t EXCEPT !.pc = pc].pc = pc
                              /\ [t EXCEPT !.pc = pc].url = t.url
                              /\ [t EXCEPT !.pc = pc].from = t.from
                              /\ [t EXCEPT !.pc = pc].out = t.out
         /\ \A out \in Outs : [t EXCEPT !.out = out] \in TurnRows
         /\ \A o \in Origins : [t EXCEPT !.from = o] \in TurnRows
         /\ \A n \in Nat : [t EXCEPT !.after = n] \in TurnRows
         /\ \A links \in SUBSET Urls : [t EXCEPT !.todo = links] \in TurnRows
BY DEF TurnRows

LEMMA EndedRow ==
  ASSUME NEW t \in TurnRows, NEW out \in Outs
  PROVE  /\ [t EXCEPT !.pc = "resolve", !.out = out] \in TurnRows
         /\ \A n \in Nat : [t EXCEPT !.pc = "resolve", !.out = out, !.after = n] \in TurnRows
<1>1. [t EXCEPT !.pc = "resolve"] \in TurnRows
  BY TurnRow DEF Steps
<1>2. [t EXCEPT !.pc = "resolve", !.out = out] \in TurnRows
  BY <1>1, TurnRow
<1>3. \A n \in Nat : [t EXCEPT !.pc = "resolve", !.out = out, !.after = n] \in TurnRows
  BY <1>2, TurnRow
<1> QED BY <1>2, <1>3

LEMMA TurnMoves ==
  ASSUME IInv, NEW s \in Sites, Preserves(db, db'), UNCHANGED <<issued, journal>>, KeepRest,
         NEW t \in TurnRows, turns' = [turns EXCEPT ![s] = t], Moved(turns[s], t, db'.outbox)
  PROVE  IInv'
<1>1. UNCHANGED <<web, issued, journal, phase>> /\ now' \in Nat /\ todo' \subseteq Urls
      /\ turns \in [Sites -> TurnRows]
  BY DEF KeepRest, IInv, ControlOK
<1>2. turns' \in [Sites -> TurnRows]
  BY <1>1
<1>3. \A r \in Sites : turns'[r] = turns[r] \/ Moved(turns[r], turns'[r], db'.outbox)
  BY <1>1
<1> QED BY <1>1, <1>2, <1>3, SteadyStep

LEMMA TurnFacts ==
  ASSUME IInv, NEW s \in Sites, turns[s].pc # "idle"
  PROVE  /\ turns[s] # Idle /\ turns[s] \in TurnRows /\ Running /\ s \in db.active
         /\ turns[s].url \in Urls /\ Site(turns[s].url) = s
         /\ db.url[turns[s].url].state # "absent"
         /\ turns[s].pc \in Held => db.url[turns[s].url].state = "leased"
         /\ turns[s].pc \in {"append", "commit", "drain"}
              \/ (turns[s].pc = "resolve" /\ turns[s].out = "durable")
            => turns[s].from \in Origins
<1>1. turns[s] # Idle
  BY IdleTurn
<1> QED BY <1>1 DEF IInv, ControlOK, TurnsOK, TurnOK

(* The end of a turn whose capture is not at stake. *)
LEMMA EndKeeps ==
  ASSUME IInv, NEW s \in Sites, turns[s].pc \notin {"idle", "commit"},
         NEW out \in Outs, out = "durable" => turns[s].from \in Origins, End(s, out),
         turns[s].pc = "drain" => db.outbox = {},
         UNCHANGED <<db, issued, journal>>, KeepRest
  PROVE  IInv'
<1> DEFINE t == [turns[s] EXCEPT !.pc = "resolve", !.out = out]
<1>1. turns[s] # Idle /\ turns[s] \in TurnRows
  BY TurnFacts
<1>2. turns' = [turns EXCEPT ![s] = t] /\ t \in TurnRows
  BY <1>1, EndedRow DEF End
<1>3. t.pc = "resolve" /\ t.out = out /\ t.url = turns[s].url /\ t.from = turns[s].from
  BY <1>1 DEF TurnRows
<1> HIDE DEF t
<1>4. Moved(turns[s], t, db'.outbox)
  BY <1>1, <1>3 DEF Moved, Held
<1>5. Preserves(db, db')
  BY PreservesSame DEF IInv
<1> QED BY <1>2, <1>4, <1>5, TurnMoves

(* A step of a turn that only changes its place. *)
LEMMA NextKeeps ==
  ASSUME IInv, NEW s \in Sites, turns[s].pc \notin {"idle", "commit", "drain"},
         Preserves(db, db'), UNCHANGED <<issued, journal>>, KeepRest,
         NEW pc \in {"verify", "leased", "wire"}, Next_(s, pc),
         pc \in {"leased", "wire"} <=> turns[s].pc \in {"leased", "wire"},
         turns[s].pc \in {"claimed", "leased", "wire"}
  PROVE  IInv'
<1> DEFINE t == [turns[s] EXCEPT !.pc = pc]
<1>1. turns[s] # Idle /\ turns[s] \in TurnRows
  BY TurnFacts
<1>2. turns' = [turns EXCEPT ![s] = t]
  BY DEF Next_
<1>3. t \in TurnRows /\ t.pc = pc /\ t.url = turns[s].url
  <2>1. pc \in Steps
    BY DEF Steps
  <2> QED BY <1>1, <2>1, TurnRow
<1> HIDE DEF t
<1>4. Moved(turns[s], t, db'.outbox)
  BY <1>1, <1>3 DEF Moved, Held
<1> QED BY <1>2, <1>3, <1>4, TurnMoves

LEMMA EarlyStepsKeep ==
  ASSUME IInv, NEW s \in Sites,
         AdmitSitemaps(s) \/ StopEarly(s) \/ AuthorizeRequest(s) \/ NoPage(s) \/ Cancelled(s)
  PROVE  IInv'
<1>1. web \in Webs /\ Sound(db) /\ now \in Nat
  BY DEF IInv, ControlOK
<1>2. TablesOK(db)
  BY <1>1 DEF Sound
<1>3. CASE AdmitSitemaps(s)
  <2>1. /\ turns[s].pc = "claimed" /\ Next_(s, "verify") /\ UNCHANGED <<issued, journal>> /\ KeepRest
        /\ \E u \in {web.sitemap[Target(turns[s].url)]} :
             db' = IF u = None THEN db ELSE AdmitSitemap(db, u)
    BY <1>3 DEF AdmitSitemaps, Turn, Store
  <2>2. Target(turns[s].url) \in Origins
    BY <2>1, <1>2, TurnFacts, AskedOrigin DEF Target
  <2>3. web.sitemap[Target(turns[s].url)] \in Urls \cup {None}
    BY <1>1, <2>2, WebAssumptions
  <2>4. Preserves(db, db')
    BY <1>1, <2>1, <2>3, SitemapPreserves, PreservesSame
  <2> QED BY <2>1, <2>4, NextKeeps
<1>4. CASE StopEarly(s)
  <2>1. /\ turns[s].pc \in {"verify", "leased"}
        /\ UNCHANGED <<db, issued, journal>> /\ KeepRest
    BY <1>4 DEF StopEarly, Turn
  <2>2. PICK out \in web.robots : End(s, out)
    BY <1>4 DEF StopEarly
  <2>3. out \in Outs /\ out # "durable"
    BY <1>1, WebAssumptions DEF Outs, Reasons
  <2> QED BY <2>1, <2>2, <2>3, EndKeeps
<1>5. CASE AuthorizeRequest(s)
  <2> DEFINE due == db.retry[Target(turns[s].url)].due
  <2>1. turns[s].pc = "leased" /\ UNCHANGED <<db, issued, journal>> /\ KeepRest
    BY <1>5 DEF AuthorizeRequest, Turn
  <2>2. turns[s] # Idle /\ turns[s] \in TurnRows /\ turns[s].url \in Urls
    BY <2>1, TurnFacts
  <2>3. due \in Nat
    <3>1. Target(turns[s].url) \in Origins
      BY <1>2, <2>2, AskedOrigin DEF Target
    <3>2. due \in Times
      BY <1>2, <3>1 DEF TablesOK, RetryRows
    <3> QED BY <3>2, Clock
  <2>4. Preserves(db, db')
    BY <1>1, <2>1, PreservesSame
  <2>5. CASE due > now /\ Defer(s, due - now)
    <3> DEFINE t == [turns[s] EXCEPT !.pc = "resolve", !.out = "wait", !.after = due - now]
    <3>1. turns' = [turns EXCEPT ![s] = t]
      BY <2>5 DEF Defer
    <3>2. t \in TurnRows
      <4>1. due - now \in Nat /\ "wait" \in Outs
        BY <1>1, <2>3, <2>5 DEF Outs
      <4> QED BY <2>2, <4>1, EndedRow
    <3>3. t.pc = "resolve" /\ t.out = "wait" /\ t.url = turns[s].url
      BY <2>2 DEF TurnRows
    <3> HIDE DEF t
    <3>4. Moved(turns[s], t, db'.outbox)
      BY <2>1, <2>2, <3>3 DEF Moved, Held
    <3> QED BY <2>1, <2>4, <3>1, <3>2, <3>4, TurnMoves
  <2>6. CASE Next_(s, "wire")
    BY <2>1, <2>4, <2>6, NextKeeps
  <2>7. CASE End(s, "exhausted")
    <3>1. "exhausted" \in Outs /\ "exhausted" # "durable"
      BY DEF Outs, Reasons
    <3> QED BY <2>1, <2>7, <3>1, EndKeeps
  <2> QED BY <1>5, <2>5, <2>6, <2>7 DEF AuthorizeRequest
<1>6. CASE NoPage(s)
  <2>1. turns[s].pc = "wire" /\ UNCHANGED <<db, issued, journal>> /\ KeepRest
    BY <1>6 DEF NoPage, Turn
  <2>2. PICK out \in web.answers[turns[s].url] \ {"page"} : End(s, out)
    BY <1>6 DEF NoPage
  <2>3. turns[s].url \in Urls
    BY <2>1, TurnFacts
  <2>4. out \in {"http_404", "http_410", "failed", "transient"}
    BY <1>1, <2>2, <2>3, WebAssumptions
  <2>5. out \in Outs /\ out # "durable"
    BY <2>4 DEF Outs, Reasons
  <2> QED BY <2>1, <2>2, <2>5, EndKeeps
<1>7. CASE Cancelled(s)
  <2>1. /\ turns[s].pc \in {"claimed", "verify", "leased", "wire"} /\ End(s, "cancelled")
        /\ UNCHANGED <<db, issued, journal>> /\ KeepRest
    BY <1>7 DEF Cancelled
  <2>2. "cancelled" \in Outs
    BY DEF Outs
  <2> QED BY <2>1, <2>2, EndKeeps
<1> QED BY <1>3, <1>4, <1>5, <1>6, <1>7

LEMMA AnswersKeep ==
  ASSUME IInv, NEW s \in Sites,
         Page(s) \/ Redirect(s) \/ Drain(s) \/ IngestSitemap(s) \/ DiscoveryBatch(s)
  PROVE  IInv'
<1>1. web \in Webs /\ Sound(db) /\ TablesOK(db)
  BY DEF IInv, ControlOK, Sound
<1>2. CASE Page(s)
  <2>1. turns[s].pc = "wire" /\ UNCHANGED <<db, issued, journal>> /\ KeepRest
    BY <1>2 DEF Page, Turn
  <2>2. turns[s] # Idle /\ turns[s] \in TurnRows /\ turns[s].url \in Urls
    BY <2>1, TurnFacts
  <2>3. Target(turns[s].url) \in Origins
    BY <1>1, <2>2, AskedOrigin DEF Target
  <2>4. PICK pc \in {"ingest", "append"} :
          turns' = [turns EXCEPT ![s].pc = pc, ![s].from = Target(turns[s].url)]
    BY <1>2 DEF Page
  <2> DEFINE o == Target(turns[s].url)
             t == [turns[s] EXCEPT !.pc = pc, !.from = o]
  <2>5. t \in TurnRows
    <3>1. [turns[s] EXCEPT !.pc = pc] \in TurnRows
      BY <2>2, TurnRow DEF Steps
    <3> QED BY <2>3, <3>1, TurnRow
  <2>6. t.pc = pc /\ t.from \in Origins /\ t.url = turns[s].url
    BY <2>2, <2>3 DEF TurnRows
  <2>7. turns' = [turns EXCEPT ![s] = t]
    <3>1. turns \in [Sites -> TurnRows]
      BY DEF IInv, ControlOK
    <3> QED BY <2>4, <3>1
  <2> HIDE DEF t
  <2>8. Moved(turns[s], t, db'.outbox)
    BY <2>1, <2>2, <2>6 DEF Moved, Held
  <2>9. Preserves(db, db')
    BY <1>1, <2>1, PreservesSame
  <2> QED BY <2>1, <2>5, <2>7, <2>8, <2>9, TurnMoves
<1>3. CASE Redirect(s)
  <2>1. /\ turns[s].pc = "wire" /\ web.redirect[turns[s].url] # None
        /\ UNCHANGED <<issued, journal>> /\ KeepRest
    BY <1>3 DEF Redirect, Turn
  <2>2. turns[s].url \in Urls
    BY <2>1, TurnFacts
  <2>3. web.redirect[turns[s].url] \in Origins
    BY <1>1, <2>1, <2>2, WebAssumptions
  <2>4. CASE /\ db' = [db EXCEPT !.url[turns[s].url].cont = web.redirect[turns[s].url]]
             /\ Next_(s, "leased")
    <3>1. Preserves(db, db')
      BY <1>1, <2>2, <2>3, <2>4, RedirectPreserves
    <3> QED BY <2>1, <2>4, <3>1, NextKeeps
  <2>5. CASE End(s, "redirect_cycle") /\ UNCHANGED db
    <3>1. "redirect_cycle" \in Outs
      BY DEF Outs, Reasons
    <3> QED BY <2>1, <2>5, <3>1, EndKeeps
  <2> QED BY <1>3, <2>4, <2>5 DEF Redirect, Store
<1>4. CASE Drain(s)
  <2>1. turns[s].pc = "drain" /\ UNCHANGED <<issued, journal>> /\ KeepRest
    BY <1>4 DEF Drain, Turn
  <2>2. CASE DrainOutbox /\ UNCHANGED turns
    <3>1. Preserves(db, db')
      BY <2>2, Draining
    <3>2. /\ UNCHANGED <<web, issued, journal, phase, turns>> /\ now' \in Nat /\ todo' \subseteq Urls
      BY <2>1, <2>2 DEF KeepRest, IInv, ControlOK
    <3> QED BY <3>1, <3>2, SteadyControl
  <2>3. CASE db.outbox = {} /\ End(s, "durable") /\ UNCHANGED db
    <3>1. "durable" \in Outs /\ turns[s].from \in Origins
      BY <2>1, TurnFacts DEF Outs, Reasons
    <3> QED BY <2>1, <2>3, <3>1, EndKeeps
  <2> QED BY <1>4, <2>2, <2>3 DEF Drain
<1>5. CASE IngestSitemap(s)
  <2> DEFINE u == turns[s].url
  <2>1. turns[s].pc = "ingest" /\ UNCHANGED <<issued, journal>> /\ KeepRest
    BY <1>5 DEF IngestSitemap, Turn
  <2>2. turns[s] # Idle /\ turns[s] \in TurnRows /\ u \in Urls
    BY <2>1, TurnFacts
  <2>3. CASE End(s, "sitemap_discovery_durable") /\ UNCHANGED db
    <3>1. "sitemap_discovery_durable" \in Outs
      BY DEF Outs, Reasons
    <3> QED BY <2>1, <2>3, <3>1, EndKeeps
  <2>4. CASE /\ db' = [db EXCEPT !.documents = @ \cup {u}]
             /\ turns' = [turns EXCEPT ![s] = [@ EXCEPT !.pc = "entries", !.todo = web.links[u]]]
    <3> DEFINE t == [turns[s] EXCEPT !.pc = "entries", !.todo = web.links[u]]
    <3>1. t \in TurnRows
      <4>1. [turns[s] EXCEPT !.pc = "entries"] \in TurnRows
        BY <2>2, TurnRow DEF Steps
      <4>2. web.links[u] \in SUBSET Urls
        BY <1>1, <2>2, WebAssumptions
      <4> QED BY <4>1, <4>2, TurnRow
    <3>2. t.pc = "entries" /\ t.url = turns[s].url
      BY <2>2 DEF TurnRows
    <3>3. turns' = [turns EXCEPT ![s] = t]
      BY <2>4
    <3> HIDE DEF t
    <3>4. Moved(turns[s], t, db'.outbox)
      BY <2>1, <2>2, <3>2 DEF Moved, Held
    <3>5. DOMAIN db = Tables
      BY <1>1 DEF TablesOK
    <3>6. PICK e : e = [db EXCEPT !.documents = @ \cup {u}]
      OBVIOUS
    <3>7. SameCore(db, e) /\ e.url = db.url /\ e.retry = db.retry /\ e.streak = db.streak
          /\ e.candidates = db.candidates /\ e.waiting = db.waiting /\ e.manual = db.manual
          /\ e.documents = db.documents \cup {u} /\ DOMAIN e = Tables
      BY <3>5, <3>6 DEF SameCore, SameWork, Tables
    <3>8. Preserves(db, e)
      BY <1>1, <2>2, <3>7, ListPreserves DEF TablesOK
    <3>9. Preserves(db, db')
      BY <2>4, <3>6, <3>8
    <3> QED BY <2>1, <3>1, <3>3, <3>4, <3>9, TurnMoves
  <2> QED BY <1>5, <2>3, <2>4 DEF IngestSitemap, Store
<1>6. CASE DiscoveryBatch(s)
  <2>1. turns[s].pc = "entries" /\ UNCHANGED <<issued, journal>> /\ KeepRest
    BY <1>6 DEF DiscoveryBatch, Turn
  <2>2. turns[s] # Idle /\ turns[s] \in TurnRows
    BY <2>1, TurnFacts
  <2>3. CASE \E u \in turns[s].todo : /\ db' = Discovered(db, u)
                                      /\ turns' = [turns EXCEPT ![s].todo = @ \ {u}]
    <3>1. PICK u \in turns[s].todo : /\ db' = Discovered(db, u)
                                     /\ turns' = [turns EXCEPT ![s].todo = @ \ {u}]
      BY <2>3
    <3> DEFINE t == [turns[s] EXCEPT !.todo = turns[s].todo \ {u}]
    <3>2. turns[s].todo \in SUBSET Urls
      BY <2>2 DEF TurnRows
    <3>3. t \in TurnRows
      <4>1. turns[s].todo \ {u} \in SUBSET Urls
        BY <3>2
      <4> QED BY <2>2, <4>1, TurnRow
    <3>4. t.pc = "entries" /\ t.url = turns[s].url
      BY <2>1, <2>2 DEF TurnRows
    <3>5. turns' = [turns EXCEPT ![s] = t]
      <4>1. turns \in [Sites -> TurnRows]
        BY DEF IInv, ControlOK
      <4> QED BY <3>1, <4>1
    <3> HIDE DEF t
    <3>6. Moved(turns[s], t, db'.outbox)
      BY <2>1, <2>2, <3>4 DEF Moved, Held
    <3>7. Preserves(db, db')
      <4>1. u \in Urls
        BY <3>2
      <4> QED BY <1>1, <3>1, <4>1, DiscoveredPreserves
    <3> QED BY <2>1, <3>3, <3>5, <3>6, <3>7, TurnMoves
  <2>4. CASE End(s, "sitemap_discovery_durable") /\ UNCHANGED db
    <3>1. "sitemap_discovery_durable" \in Outs
      BY DEF Outs, Reasons
    <3> QED BY <2>1, <2>4, <3>1, EndKeeps
  <2> QED BY <1>6, <2>3, <2>4 DEF DiscoveryBatch, Store
<1> QED BY <1>2, <1>3, <1>4, <1>5, <1>6

(* A step of one turn that changes the row of its URL: u.  The turns of the other sites *)
(* and their URLs are left alone.                                                       *)
LEMMA OneTurn ==
  ASSUME IInv, NEW s \in Sites, turns[s].pc \notin {"idle", "drain"},
         NEW u \in Urls, turns[s].url = u, KeepRest,
         Sound(db)', LinksOK(web, db)', VisitsOK(web, db)',
         \A v \in Urls : v # u => db'.url[v] = db.url[v],
         \A r \in db.active : r # s => r \in db'.active,
         NEW t \in TurnRows, turns' = [turns EXCEPT ![s] = t],
         issued' \in [Urls -> Nat], FetchesOK', JournalOK', CapturesMatch', TurnOK(s)',
         db'.url[u].state = "leased" => t.url = u /\ t.pc \in Held \cup {"resolve"},
         \A c \in Uncommitted' : \/ c \in Uncommitted /\ c.url # u
                                 \/ c.url = u /\ t.pc = "commit" /\ t.url = u,
         \A c \in journal' : c \in journal \/ c.url = u,
         t.pc \in {"leased", "wire"}
           => t.url = u /\ \A c \in journal' : ~(c.url = u /\ c.fetch = db'.url[u].fetch),
         \A entry \in db'.outbox : \/ \E old \in db.outbox : old.url = entry.url
                                   \/ entry.url = u /\ t.pc = "drain"
  PROVE  IInv'
<1>1. /\ Running /\ Running' /\ Site(u) = s /\ turns \in [Sites -> TurnRows]
      /\ UNCHANGED <<web, phase, todo, now>>
  BY TurnFacts DEF KeepRest, IInv, ControlOK, Running
<1>2. ControlOK'
  BY <1>1 DEF IInv, ControlOK
<1>3. turns'[s] = t /\ \A r \in Sites : r # s => turns'[r] = turns[r]
  BY <1>1
<1>4. ASSUME NEW r \in Sites, r # s
      PROVE  /\ TurnOK(r)'
             /\ turns[r] # Idle => /\ turns[r].url \in Urls /\ turns[r].url # u
                                   /\ db'.url[turns[r].url] = db.url[turns[r].url]
  <2>1. TurnOK(r) /\ turns'[r] = turns[r]
    BY <1>3, <1>4 DEF IInv, TurnsOK
  <2>2. turns[r] # Idle => /\ turns[r].url \in Urls /\ turns[r].url # u
                           /\ db'.url[turns[r].url] = db.url[turns[r].url] /\ r \in db'.active
    BY <1>1, <1>4, <2>1 DEF TurnOK
  <2>3. turns[r] = Idle => turns[r].pc \notin Held
    BY IdleTurn
  <2> QED BY <1>1, <2>1, <2>2, <2>3 DEF TurnOK
<1>5. TurnsOK'
  BY <1>4 DEF TurnsOK
<1>6. LeasedOK'
  <2> SUFFICES ASSUME NEW v \in Urls, db'.url[v].state = "leased" PROVE HeldBy(v)'
    BY DEF LeasedOK
  <2>1. CASE v = u
    BY <1>1, <1>3, <2>1 DEF HeldBy
  <2>2. CASE v # u
    <3>1. HeldBy(v)
      BY <1>1, <2>2 DEF IInv, LeasedOK, Running
    <3>2. Site(v) \in Sites /\ Site(v) # s
      BY <2>2, <3>1, Places DEF HeldBy
    <3> QED BY <1>3, <3>1, <3>2 DEF HeldBy
  <2> QED BY <2>1, <2>2
<1>7. CaptureHeld'
  <2> SUFFICES ASSUME NEW c \in Uncommitted'
               PROVE  turns'[Site(c.url)].pc = "commit" /\ turns'[Site(c.url)].url = c.url
    BY DEF CaptureHeld
  <2>1. CASE c \in Uncommitted /\ c.url # u
    <3>1. turns[Site(c.url)].pc = "commit" /\ turns[Site(c.url)].url = c.url /\ Site(c.url) \in Sites
      BY <1>1, <2>1, Places DEF IInv, CaptureHeld, JournalOK, Captures, Uncommitted
    <3> QED BY <1>3, <2>1, <3>1
  <2>2. CASE c.url = u /\ t.pc = "commit" /\ t.url = u
    BY <1>1, <1>3, <2>2
  <2> QED BY <2>1, <2>2
<1>8. NoSecondFetch'
  <2> SUFFICES ASSUME NEW r \in Sites, turns'[r].pc \in {"leased", "wire"}, NEW c \in journal'
               PROVE  ~(c.url = turns'[r].url /\ c.fetch = db'.url[turns'[r].url].fetch)
    BY DEF NoSecondFetch
  <2>1. CASE r = s
    BY <1>3, <2>1
  <2>2. CASE r # s
    <3>1. turns'[r] = turns[r] /\ turns[r] # Idle
      BY <1>3, <2>2, IdleTurn
    <3>2. turns[r].url # u /\ db'.url[turns[r].url] = db.url[turns[r].url]
      BY <1>4, <2>2, <3>1
    <3> QED BY <3>1, <3>2 DEF IInv, NoSecondFetch
  <2> QED BY <2>1, <2>2
<1>9. OutboxHeld'
  <2> SUFFICES ASSUME NEW entry \in db'.outbox PROVE turns'[Site(entry.url)].pc = "drain"
    BY DEF OutboxHeld
  <2>1. CASE \E old \in db.outbox : old.url = entry.url
    <3>1. PICK old \in db.outbox : old.url = entry.url
      BY <2>1
    <3>2. turns[Site(old.url)].pc = "drain" /\ Site(old.url) \in Sites
      BY <1>1, Places DEF IInv, OutboxHeld, Sound, TablesOK, Entries
    <3> QED BY <1>3, <3>1, <3>2
  <2>2. CASE entry.url = u /\ t.pc = "drain"
    BY <1>1, <1>3, <2>2
  <2> QED BY <2>1, <2>2
<1> QED BY <1>2, <1>5, <1>6, <1>7, <1>8, <1>9 DEF IInv

LEMMA BeginKeeps ==
  ASSUME IInv, NEW s \in Sites, BeginTurn(s)
  PROVE  IInv'
<1> DEFINE n == IF db.url[turns[s].url].fetch = None THEN issued[turns[s].url] + 1
                                                     ELSE db.url[turns[s].url].fetch
<1>1. turns[s].pc = "verify" /\ UNCHANGED journal /\ KeepRest
  BY DEF BeginTurn, Turn
<1>2. PICK u \in Urls : turns[s].url = u
  BY <1>1, TurnFacts
<1>3. /\ web \in Webs /\ Sound(db) /\ TablesOK(db) /\ turns[s] \in TurnRows /\ turns[s] # Idle
      /\ issued \in [Urls -> Nat] /\ Site(u) = s /\ Running /\ web' = web
      /\ s \in db.active
  BY <1>1, <1>2, TurnFacts DEF IInv, ControlOK, Sound, KeepRest
<1>4. CASE ~Beginnable(db, u)
  <2>1. End(s, "skipped") /\ UNCHANGED <<db, issued, journal>> /\ "skipped" \in Outs
    BY <1>1, <1>2, <1>4 DEF BeginTurn, Outs, Reasons
  <2> QED BY <1>1, <2>1, EndKeeps
<1>5. CASE Beginnable(db, u)
  <2>1. /\ db' = BeginUrl(db, u, n) /\ Next_(s, "leased")
        /\ issued' = IF db.url[u].fetch = None THEN [issued EXCEPT ![u] = n] ELSE issued
    BY <1>2, <1>5 DEF BeginTurn, Store
  <2>2. db.url[u].fetch \in Nat \cup {None} /\ issued[u] \in Nat /\ None \notin Nat
    BY <1>3, TableAssumptions DEF TablesOK, UrlRows
  <2>3. PICK m \in Nat : m = n
    BY <1>2, <2>2
  <2>4. /\ m <= issued'[u] /\ issued' \in [Urls -> Nat]
        /\ \A v \in Urls : v # u => issued'[v] = issued[v]
        /\ issued[u] <= issued'[u]
    <3>1. CASE db.url[u].fetch = None
      BY <1>2, <1>3, <2>1, <2>2, <2>3, <3>1
    <3>2. CASE db.url[u].fetch # None
      <4>1. db.url[u].fetch <= issued[u]
        BY <3>2 DEF IInv, FetchesOK
      <4> QED BY <1>2, <1>3, <2>1, <2>2, <2>3, <3>2, <4>1
    <3> QED BY <3>1, <3>2
  <2>5. \A c \in journal : ~(c.url = u /\ c.fetch = m)
    <3> SUFFICES ASSUME NEW c \in journal, c.url = u, c.fetch = m PROVE FALSE
      OBVIOUS
    <3>1. c.fetch <= issued[u] /\ c.fetch \in Nat
      BY DEF IInv, JournalOK, Captures
    <3>2. db.url[u].fetch = m
      BY <1>2, <2>2, <2>3, <3>1
    <3>3. <<u, m>> \notin db.commits
      BY <1>3, <1>5, <3>2 DEF Sound, UnfinishedOK, Unsettled, Beginnable
    <3>4. c \in Uncommitted
      BY <3>3 DEF Uncommitted
    <3>5. turns[s].pc = "commit"
      BY <1>3, <3>4 DEF IInv, CaptureHeld
    <3> QED BY <1>1, <3>5
  <2>6. <<u, m>> \notin db.commits
    <3>1. CASE db.url[u].fetch = None
      <4>1. \A c \in db.commits : c[2] <= issued[c[1]]
        BY DEF IInv, FetchesOK
      <4>2. <<u, m>> \in db.commits => m <= issued[u]
        BY <4>1
      <4> QED BY <1>2, <2>2, <2>3, <3>1, <4>2
    <3>2. CASE db.url[u].fetch # None
      BY <1>2, <1>3, <1>5, <2>3, <3>2 DEF Sound, UnfinishedOK, Unsettled, Beginnable
    <3> QED BY <3>1, <3>2
  <2>7. db' = BeginUrl(db, u, m)
    BY <2>1, <2>3
  <2>8. /\ Sound(db') /\ KeepsLinks(db, db')
        /\ db'.url[u].state = "leased" /\ db'.url[u].fetch = m
        /\ \A v \in Urls : v # u => db'.url[v] = db.url[v]
        /\ db'.commits = db.commits /\ db'.outbox = db.outbox /\ db'.active = db.active
    BY <1>3, <1>5, <2>6, <2>7, BeginSound
  <2> DEFINE t == [turns[s] EXCEPT !.pc = "leased"]
  <2>9. turns' = [turns EXCEPT ![s] = t]
    BY <2>1 DEF Next_
  <2>10. t \in TurnRows /\ t.pc = "leased" /\ t.url = u /\ t # Idle
    <3>1. "leased" \in Steps
      BY DEF Steps
    <3>2. t \in TurnRows /\ t.pc = "leased" /\ t.url = u
      BY <1>2, <1>3, <3>1, TurnRow
    <3> QED BY <3>2, IdleTurn
  <2> HIDE DEF t, n
  <2>11. turns'[s] = t
    BY <2>9 DEF IInv, ControlOK
  <2>12. Sound(db)' /\ LinksOK(web, db)' /\ VisitsOK(web, db)'
    BY <1>3, <2>8 DEF KeepsLinks, IInv
  <2>13. FetchesOK'
    <3>1. \A v \in Urls : db'.url[v].fetch # None => db'.url[v].fetch <= issued'[v]
      BY <2>4, <2>8 DEF IInv, FetchesOK
    <3>2. \A c \in db.commits : c[1] \in Urls /\ c[2] \in Nat /\ c[2] <= issued[c[1]]
      BY <1>3 DEF IInv, FetchesOK, TablesOK
    <3>3. \A c \in db.commits : c[2] <= issued'[c[1]]
      BY <1>3, <2>4, <3>2
    <3> QED BY <2>8, <3>1, <3>3 DEF FetchesOK
  <2>14. JournalOK'
    <3>1. \A c \in journal : c \in Captures /\ c.links = web.links[c.url] /\ c.fetch <= issued[c.url]
      BY DEF IInv, JournalOK
    <3>2. \A c \in journal : c.url \in Urls /\ c.fetch \in Nat /\ c.fetch <= issued'[c.url]
      BY <1>3, <2>4, <3>1 DEF Captures
    <3> QED BY <1>1, <1>3, <3>1, <3>2 DEF JournalOK
  <2>15. Uncommitted' = Uncommitted /\ \A c \in Uncommitted : c.url \in Urls /\ c.url # u
    <3>1. \A c \in Uncommitted : turns[Site(c.url)].pc = "commit" /\ c.url \in Urls
      BY <1>3 DEF IInv, CaptureHeld, JournalOK, Captures, Uncommitted
    <3> QED BY <1>1, <1>3, <2>8, <3>1 DEF Uncommitted
  <2>16. CapturesMatch'
    BY <2>8, <2>15 DEF IInv, CapturesMatch, CaptureMatches, Unsettled
  <2>17. TurnOK(s)'
    BY <1>1, <1>3, <2>8, <2>10, <2>11 DEF TurnOK, Running, KeepRest
  <2> QED BY <1>1, <1>2, <2>4, <2>5, <2>8, <2>9, <2>10, <2>12, <2>13, <2>14, <2>15, <2>16, <2>17,
             OneTurn DEF Held
<1> QED BY <1>4, <1>5

LEMMA LeasedFetch ==
  ASSUME IInv, NEW u \in Urls, db.url[u].state = "leased"
  PROVE  /\ db.url[u].fetch \in Nat /\ db.url[u].fetch <= issued[u]
         /\ CaptureMatches(db, u, db.url[u].fetch)
         /\ <<u, db.url[u].fetch>> \notin db.commits
<1>1. Unsettled(db, u) /\ Sound(db) /\ TablesOK(db)
  BY DEF Unsettled, IInv, Sound
<1>2. <<u, db.url[u].fetch>> \in db.leases /\ <<u, db.url[u].fetch>> \notin db.commits
  BY <1>1 DEF Sound, UnfinishedOK
<1>3. db.url[u].fetch \in Nat
  BY <1>1, <1>2 DEF TablesOK
<1> QED BY <1>1, <1>2, <1>3, TableAssumptions DEF IInv, FetchesOK, CaptureMatches

LEMMA AppendKeeps ==
  ASSUME IInv, NEW s \in Sites, Append_(s)
  PROVE  IInv'
<1>1. turns[s].pc = "append" /\ UNCHANGED <<db, issued>> /\ KeepRest /\ Next_(s, "commit")
      /\ journal' = journal \cup {Capture(s)}
  BY DEF Append_, Turn
<1>2. PICK u \in Urls : turns[s].url = u
  BY <1>1, TurnFacts
<1>3. /\ web \in Webs /\ turns[s] \in TurnRows /\ turns \in [Sites -> TurnRows]
      /\ issued \in [Urls -> Nat] /\ Site(u) = s /\ Running /\ web' = web /\ phase' = phase
      /\ s \in db.active /\ db.url[u].state = "leased" /\ turns[s].from \in Origins
  BY <1>1, <1>2, TurnFacts DEF IInv, ControlOK, KeepRest, Held
<1> DEFINE c0 == [url |-> u, fetch |-> db.url[u].fetch, links |-> web.links[u]]
<1>4. /\ db.url[u].fetch \in Nat /\ db.url[u].fetch <= issued[u]
      /\ CaptureMatches(db, u, db.url[u].fetch)
      /\ web.links[u] \in SUBSET Urls
  BY <1>3, LeasedFetch, WebAssumptions
<1>5. /\ journal' = journal \cup {c0}
      /\ c0 \in Captures /\ c0.url = u /\ c0.fetch = db.url[u].fetch /\ c0.links = web.links[u]
  BY <1>1, <1>2, <1>4 DEF Capture, Captures
<1> HIDE DEF c0
<1> DEFINE t == [turns[s] EXCEPT !.pc = "commit"]
<1>6. turns' = [turns EXCEPT ![s] = t] /\ turns'[s] = t
  BY <1>1, <1>3 DEF Next_
<1>7. t \in TurnRows /\ t.pc = "commit" /\ t.url = u /\ t.from \in Origins /\ t # Idle
  <2>1. "commit" \in Steps
    BY DEF Steps
  <2>2. t \in TurnRows /\ t.pc = "commit" /\ t.url = u /\ t.from \in Origins
    BY <1>2, <1>3, <2>1, TurnRow
  <2> QED BY <2>2, IdleTurn
<1> HIDE DEF t
<1>8. Sound(db)' /\ LinksOK(web, db)' /\ VisitsOK(web, db)' /\ FetchesOK'
  BY <1>1, <1>3 DEF IInv, FetchesOK
<1>9. JournalOK'
  BY <1>1, <1>3, <1>4, <1>5 DEF IInv, JournalOK
<1>10. \A c \in Uncommitted' : c \in Uncommitted \/ c = c0
  BY <1>1, <1>5 DEF Uncommitted
<1>11. CapturesMatch'
  BY <1>1, <1>4, <1>5, <1>10 DEF IInv, CapturesMatch
<1>12. \A c \in Uncommitted : c.url # u
  BY <1>1, <1>3 DEF IInv, CaptureHeld
<1>13. TurnOK(s)'
  BY <1>1, <1>3, <1>6, <1>7 DEF TurnOK, Running
<1>14. db'.url = db.url /\ db'.active = db.active /\ db'.outbox = db.outbox
       /\ issued' \in [Urls -> Nat]
  BY <1>1, <1>3
<1>15. \A c \in Uncommitted' : \/ c \in Uncommitted /\ c.url # u
                               \/ c.url = u /\ t.pc = "commit" /\ t.url = u
  BY <1>5, <1>7, <1>10, <1>12
<1>16. \A c \in journal' : c \in journal \/ c.url = u
  BY <1>5
<1>17. t.pc \in Held \cup {"resolve"} /\ t.pc \notin {"leased", "wire"}
  BY <1>7 DEF Held
<1> QED BY <1>1, <1>2, <1>6, <1>7, <1>8, <1>9, <1>11, <1>13, <1>14, <1>15, <1>16, <1>17, OneTurn

LEMMA CommitStepKeeps ==
  ASSUME IInv, NEW s \in Sites, Commit(s)
  PROVE  IInv'
<1>1. turns[s].pc = "commit" /\ UNCHANGED <<issued, journal>> /\ KeepRest /\ Next_(s, "drain")
  BY DEF Commit, Turn
<1>2. PICK u \in Urls : turns[s].url = u
  BY <1>1, TurnFacts
<1>3. /\ web \in Webs /\ turns[s] \in TurnRows /\ turns \in [Sites -> TurnRows]
      /\ issued \in [Urls -> Nat] /\ Site(u) = s /\ Running /\ web' = web /\ phase' = phase
      /\ s \in db.active /\ db.url[u].state = "leased" /\ turns[s].from \in Origins /\ now \in Nat
  BY <1>1, <1>2, TurnFacts DEF IInv, ControlOK, KeepRest, Held
<1>4. PICK n \in Nat : n = db.url[u].fetch /\ CaptureMatches(db, u, n)
  BY <1>3, LeasedFetch
<1>5. PICK next \in Times : db' = CommitCapture(db, u, n, web.links[u], web.recrawl, next)
  <2>1. PICK i \in Intervals :
          db' = CommitCapture(db, u, n, web.links[u], web.recrawl, After(now, i))
    BY <1>2, <1>4 DEF Commit, Capture, Store
  <2>2. After(now, i) \in Times
    BY <1>3, TableAssumptions, Clock
  <2> QED BY <2>1, <2>2
<1>6. /\ Sound(db)' /\ LinksOK(web, db)' /\ VisitsOK(web, db)'
      /\ FetchesOK' /\ JournalOK' /\ CapturesMatch'
      /\ Uncommitted' = {c \in Uncommitted : c.url # u}
      /\ db'.url[u].state = "committed" /\ db'.active = db.active
      /\ \A v \in Urls : v # u => db'.url[v] = db.url[v]
      /\ db'.outbox = db.outbox \cup {[url |-> u, fetch |-> n, links |-> web.links[u]]}
  BY <1>1, <1>3, <1>4, <1>5, CommitKeeps
<1> DEFINE t == [turns[s] EXCEPT !.pc = "drain"]
<1>7. turns' = [turns EXCEPT ![s] = t] /\ turns'[s] = t
  BY <1>1, <1>3 DEF Next_
<1>8. t \in TurnRows /\ t.pc = "drain" /\ t.url = u /\ t.from \in Origins /\ t # Idle
  <2>1. "drain" \in Steps
    BY DEF Steps
  <2>2. t \in TurnRows /\ t.pc = "drain" /\ t.url = u /\ t.from \in Origins
    BY <1>2, <1>3, <2>1, TurnRow
  <2> QED BY <2>2, IdleTurn
<1> HIDE DEF t
<1>9. TurnOK(s)'
  BY <1>3, <1>6, <1>7, <1>8 DEF TurnOK, Running, Held
<1>10. issued' \in [Urls -> Nat] /\ journal' = journal
  BY <1>1, <1>3
<1>11. \A entry \in db'.outbox : \/ \E old \in db.outbox : old.url = entry.url
                                 \/ entry.url = u /\ t.pc = "drain"
  BY <1>6, <1>8
<1> QED BY <1>1, <1>2, <1>6, <1>7, <1>8, <1>9, <1>10, <1>11, OneTurn

LEMMA ResolveKeeps ==
  ASSUME IInv, NEW s \in Sites, Resolve(s)
  PROVE  IInv'
<1>1. turns[s].pc = "resolve" /\ UNCHANGED <<issued, journal>> /\ KeepRest
      /\ turns' = [turns EXCEPT ![s] = Idle]
  BY DEF Resolve, Turn
<1>2. PICK u \in Urls : turns[s].url = u
  BY <1>1, TurnFacts
<1>3. /\ web \in Webs /\ Sound(db) /\ TablesOK(db)
      /\ turns[s] \in TurnRows /\ turns \in [Sites -> TurnRows]
      /\ issued \in [Urls -> Nat] /\ Site(u) = s /\ Running /\ web' = web /\ phase' = phase
      /\ s \in db.active /\ db.url[u].state # "absent" /\ now \in Nat
      /\ turns[s].out = "durable" => turns[s].from \in Origins
  BY <1>1, <1>2, TurnFacts DEF IInv, ControlOK, KeepRest, Sound
<1>t. PICK target : target = turns[s].from
  OBVIOUS
<1>4. PICK out \in Outs, after \in Nat :
        /\ out = turns[s].out /\ after = turns[s].after /\ target = turns[s].from
        /\ out = "durable" => target \in Origins
  BY <1>3, <1>t DEF TurnRows
<1>5. PICK delay \in Nat : delay = TurnDelay(db, u, out, target, after, now)
  BY <1>3, <1>4, Delays
<1>6. PICK late \in BOOLEAN :
        db' = CloseTurn(ResolveUrl(db, u, out, target, after, late, now), s, now, delay)
  <2>1. Expired \subseteq BOOLEAN
    BY <1>3, WebAssumptions DEF Expired
  <2> QED BY <1>2, <1>4, <1>5, <2>1 DEF Resolve, Store
<1>d. PICK d : d = ResolveUrl(db, u, out, target, after, late, now)
  OBVIOUS
<1>7. db' = CloseTurn(d, s, now, delay)
  BY <1>6, <1>d
<1>8. Resolved(db, d, u)
  BY <1>3, <1>4, <1>d, ResolveSound
<1>9. /\ Sound(d) /\ KeepsLinks(db, d)
      /\ d.url[u].state \notin {"leased", "absent"} /\ d.url[u].fetch = db.url[u].fetch
      /\ \A v \in Urls : v # u => d.url[v] = db.url[v]
      /\ d.commits = db.commits /\ d.outbox = db.outbox /\ d.active = db.active
  BY <1>8 DEF Resolved
<1>10. \A v \in Urls : d.url[v].state = "leased" => Site(v) # s
  <2> SUFFICES ASSUME NEW v \in Urls, d.url[v].state = "leased", Site(v) = s PROVE FALSE
    OBVIOUS
  <2>1. v # u /\ db.url[v].state = "leased"
    BY <1>9
  <2>2. HeldBy(v)
    BY <1>3, <2>1 DEF IInv, LeasedOK, Running
  <2> QED BY <1>2, <2>1, <2>2 DEF HeldBy
<1>11. \A entry \in d.outbox : Site(entry.url) # s
  BY <1>1, <1>3, <1>9 DEF IInv, OutboxHeld
<1>12. /\ Sound(db') /\ KeepsLinks(d, db')
       /\ db'.url = d.url /\ db'.commits = d.commits /\ db'.outbox = d.outbox
       /\ db'.active = d.active \ {s}
  BY <1>3, <1>7, <1>9, <1>10, <1>11, CloseSound
<1>13. Sound(db)' /\ LinksOK(web, db)' /\ VisitsOK(web, db)'
  BY <1>3, <1>9, <1>12 DEF KeepsLinks, IInv
<1>14. /\ \A v \in Urls : v # u => db'.url[v] = db.url[v]
       /\ \A v \in Urls : db'.url[v].fetch = db.url[v].fetch
       /\ db'.commits = db.commits /\ db'.outbox = db.outbox /\ db'.active = db.active \ {s}
       /\ db'.url[u].state # "leased"
  BY <1>9, <1>12
<1>15. FetchesOK' /\ JournalOK' /\ Uncommitted' = Uncommitted
  BY <1>1, <1>3, <1>14 DEF IInv, FetchesOK, JournalOK, Uncommitted
<1>16. \A c \in Uncommitted : c.url \in Urls /\ c.url # u
  BY <1>1, <1>3 DEF IInv, CaptureHeld, JournalOK, Captures, Uncommitted
<1>17. CapturesMatch'
  BY <1>14, <1>15, <1>16 DEF IInv, CapturesMatch, CaptureMatches, Unsettled
<1>18. turns'[s] = Idle
  BY <1>1, <1>3
<1>19. TurnOK(s)'
  BY <1>18, IdleTurn DEF TurnOK, Held
<1>20. Idle.pc \notin {"leased", "wire"} /\ Idle \in TurnRows
  BY IdleTurn DEF Held
<1>21. issued' \in [Urls -> Nat] /\ journal' = journal
  BY <1>1, <1>3
<1> QED BY <1>1, <1>2, <1>13, <1>14, <1>15, <1>16, <1>17, <1>19, <1>20, <1>21, OneTurn, ZenonT(60)

-----------------------------------------------------------------------------
(* The theorems *)

LEMMA EmptySound == Sound(EmptyDatabase)
<1> DEFINE d == EmptyDatabase
<1>1. 0 \in Times /\ None \notin Nat
  BY Clock, TableAssumptions
<1>2. AbsentUrl \in UrlRows /\ AbsentSite \in SiteRows
  BY <1>1, TableAssumptions DEF AbsentUrl, AbsentSite, UrlRows, SiteRows, Reasons
<1>3. /\ DOMAIN d = Tables /\ d.round = 1
      /\ d.url = [u \in Urls |-> AbsentUrl] /\ d.site = [s \in Sites |-> AbsentSite]
      /\ d.origin = [o \in Origins |-> [round |-> 0, due |-> 0]]
      /\ d.retry = [o \in Origins |-> [penalty |-> 0, due |-> 0]]
      /\ d.httpActive = [s \in Sites |-> None] /\ d.resource = [u \in Urls |-> None]
  BY DEF EmptyDatabase, Tables
<1>4. /\ d.eligible = {} /\ d.httpUrls = {} /\ d.httpReady = {} /\ d.ready = {} /\ d.active = {}
      /\ d.leases = {} /\ d.commits = {} /\ d.outbox = {} /\ d.candidates = {} /\ d.waiting = {}
      /\ d.documents = {} /\ d.recrawls = {} /\ d.manual = {} /\ d.streak = 0
      /\ d.pendingSites = 0 /\ d.activeSites = 0
  BY DEF EmptyDatabase
<1> HIDE DEF d
<1>5. /\ [round |-> 0, due |-> 0] \in OriginRows /\ [penalty |-> 0, due |-> 0] \in RetryRows
  BY <1>1 DEF OriginRows, RetryRows
<1>6. TablesOK(d)
  BY <1>2, <1>3, <1>4, <1>5 DEF TablesOK
<1>7. /\ \A u \in Urls : d.url[u].state = "absent" /\ d.url[u].round = 0
      /\ \A s \in Sites : d.site[s].state = "absent" /\ d.httpActive[s] = None
  BY <1>3 DEF AbsentUrl, AbsentSite
<1>8. RowsOK(d) /\ UnfinishedOK(d) /\ OriginsOK(d) /\ OutboxOK(d)
  BY <1>3, <1>4, <1>7 DEF RowsOK, UnfinishedOK, Unsettled, OriginsOK, OutboxOK
<1>9. SitesOK(d)
  BY <1>4, <1>7 DEF SitesOK, ReadyOnce, InWork
<1>10. CountsOK(d)
  BY <1>4, FS_EmptySet DEF CountsOK
<1>11. Sound(d)
  BY <1>6, <1>8, <1>9, <1>10 DEF Sound
<1> QED BY <1>11 DEF d

LEMMA InitInv == Init => IInv
<1> SUFFICES ASSUME Init PROVE IInv
  OBVIOUS
<1>1. /\ web \in Webs /\ db = EmptyDatabase /\ issued = [u \in Urls |-> 0]
      /\ journal = {} /\ todo = {} /\ phase = "leases" /\ turns = [s \in Sites |-> Idle] /\ now = 0
  BY DEF Init
<1>2. /\ db.commits = {} /\ db.outbox = {}
      /\ \A u \in Urls : db.url[u].state = "absent" /\ db.url[u].fetch = None
  BY <1>1 DEF EmptyDatabase, AbsentUrl
<1>3. Sound(db)
  BY <1>1, EmptySound
<1>4. LinksOK(web, db) /\ VisitsOK(web, db)
  BY <1>2 DEF LinksOK, VisitsOK
<1>5. ControlOK
  BY <1>1, IdleTurn DEF ControlOK, Phases
<1>6. \A s \in Sites : turns[s] = Idle
  BY <1>1
<1>7. TurnsOK /\ NoSecondFetch
  BY <1>6, IdleTurn DEF TurnsOK, TurnOK, Held, NoSecondFetch
<1>8. LeasedOK /\ FetchesOK /\ JournalOK
  BY <1>1, <1>2 DEF LeasedOK, FetchesOK, JournalOK
<1>9. Uncommitted = {}
  BY <1>1 DEF Uncommitted
<1>10. CapturesMatch /\ CaptureHeld /\ OutboxHeld
  BY <1>2, <1>9 DEF CapturesMatch, CaptureHeld, OutboxHeld
<1> QED BY <1>3, <1>4, <1>5, <1>7, <1>8, <1>10 DEF IInv

LEMMA SameInv == IInv /\ UNCHANGED vars => IInv'
<1> SUFFICES ASSUME IInv, UNCHANGED vars PROVE IInv'
  OBVIOUS
<1>1. UNCHANGED <<web, issued, journal, phase, turns>> /\ now' \in Nat /\ todo' \subseteq Urls
      /\ db' = db
  BY DEF vars, IInv, ControlOK
<1>2. Preserves(db, db')
  BY <1>1, PreservesSame DEF IInv
<1> QED BY <1>1, <1>2, SteadyControl

LEMMA NextInv == IInv /\ [Next]_vars => IInv'
<1> SUFFICES ASSUME IInv, [Next]_vars PROVE IInv'
  OBVIOUS
<1>1. CASE Startup
  BY <1>1, StartupKeeps
<1>2. CASE RestartRound
  BY <1>2, RoundKeeps
<1>3. CASE EnqueueUrls \/ RequeueRecrawls \/ DiscoverSeed \/ PromoteCandidates \/ Tick \/ Shutdown
  BY <1>3, ControlKeeps
<1>4. CASE Claim
  BY <1>4, ClaimKeeps
<1>5. CASE ClaimFails \/ Crash \/ Exit
  BY <1>5, StopsKeep
<1>6. ASSUME NEW s \in Sites, TurnStep(s) PROVE IInv'
  <2>1. CASE AdmitSitemaps(s) \/ StopEarly(s) \/ AuthorizeRequest(s) \/ NoPage(s) \/ Cancelled(s)
    BY <2>1, EarlyStepsKeep
  <2>2. CASE Page(s) \/ Redirect(s) \/ Drain(s) \/ IngestSitemap(s) \/ DiscoveryBatch(s)
    BY <2>2, AnswersKeep
  <2>3. CASE BeginTurn(s)
    BY <2>3, BeginKeeps
  <2>4. CASE Append_(s)
    BY <2>4, AppendKeeps
  <2>5. CASE Commit(s)
    BY <2>5, CommitStepKeeps
  <2>6. CASE Resolve(s)
    BY <2>6, ResolveKeeps
  <2> QED BY <1>6, <2>1, <2>2, <2>3, <2>4, <2>5, <2>6 DEF TurnStep
<1>7. CASE UNCHANGED vars
  BY <1>7, SameInv
<1> QED BY <1>1, <1>2, <1>3, <1>4, <1>5, <1>6, <1>7 DEF Next, Work

(* The inductive invariant holds of every behaviour of the local crawler. *)
LEMMA Invariance == Spec => []IInv
BY InitInv, NextInv, PTL DEF Spec

(* Every table of the database keeps its shape and its two site counters stay natural       *)
(* numbers, although release, close_turn and recover_jobs subtract from them.               *)
THEOREM TablesTyped == Spec => []TypeOK
<1>1. IInv => TypeOK
  <2> SUFFICES ASSUME IInv PROVE TypeOK
    OBVIOUS
  <2>1. TablesOK(db) /\ CountsOK(db) /\ ControlOK
    BY DEF IInv, Sound
  <2>2. db.pendingSites \in Nat /\ db.activeSites \in Nat
    BY <2>1, FS_CardinalityType DEF CountsOK
  <2>3. \A s \in Sites : turns[s].pc \in Steps /\ turns[s].out \in Outs
    BY <2>1 DEF ControlOK, TurnRows
  <2>4. phase \in Phases /\ todo \subseteq Urls
    BY <2>1 DEF ControlOK
  <2> QED BY <2>1, <2>2, <2>3, <2>4 DEF TablesOK, OriginRows, RetryRows, TypeOK
<1> QED BY <1>1, Invariance, PTL

(* No URL is forgotten: a pending URL is in both URL indexes, and its origin and its site    *)
(* are queued or being crawled, through every crash, shutdown, recrawl and new round.        *)
THEOREM NoneForgotten == Spec => []NoneStranded
<1>1. IInv => NoneStranded
  <2> SUFFICES ASSUME IInv, NEW u \in Urls, db.url[u].state = "pending"
               PROVE  /\ u \in db.eligible /\ u \in db.httpUrls
                      /\ Site(u) \in db.active \/ <<db.site[Site(u)].due, Site(u)>> \in db.ready
                      /\ \/ db.httpActive[Site(u)] = OriginOf[u]
                         \/ <<db.origin[OriginOf[u]].due, OriginOf[u]>> \in db.httpReady
    BY DEF NoneStranded
  <2>1. Sound(db) /\ Unsettled(db, u) /\ Site(u) \in Sites
    BY Places DEF IInv, Unsettled
  <2>2. InWork(db, Site(u)) /\ ReadyOnce(db, Site(u))
        /\ (Site(u) \in db.active <=> db.site[Site(u)].state = "active")
    BY <2>1 DEF Sound, UnfinishedOK, SitesOK
  <2>3. Site(u) \in db.active \/ <<db.site[Site(u)].due, Site(u)>> \in db.ready
    BY <2>2 DEF InWork, ReadyOnce
  <2> QED BY <2>1, <2>3 DEF Sound, OriginsOK, Queued, Site
<1> QED BY <1>1, Invariance, PTL

(* A site is queued once or crawled once, never both: claim_limited_at starts no second     *)
(* turn of a site, whatever recrawls, requests, restarts and rounds did to its row.         *)
THEOREM OneTurnPerSite == Spec => []SitesQueuedOnce
<1>1. IInv => SitesQueuedOnce
  <2> SUFFICES ASSUME IInv, NEW s \in Sites
               PROVE  /\ {e \in db.ready : e[2] = s} =
                           IF db.site[s].state = "pending" THEN {<<db.site[s].due, s>>} ELSE {}
                      /\ s \in db.active <=> db.site[s].state = "active"
                      /\ turns[s] # Idle => s \in db.active
    BY DEF SitesQueuedOnce
  <2>1. ReadyOnce(db, s) /\ (s \in db.active <=> db.site[s].state = "active")
    BY DEF IInv, Sound, SitesOK
  <2>2. turns[s] # Idle => s \in db.active
    BY DEF IInv, TurnsOK, TurnOK
  <2> QED BY <2>1, <2>2 DEF ReadyOnce
<1> QED BY <1>1, Invariance, PTL

(* The counters that is_empty reads match the tables, an empty frontier has no unfinished    *)
(* URL, and no unfinished URL is of an earlier round: RestartRound never strands one.        *)
THEOREM EmptyIsFinished == Spec => []EmptyMeansFinished
<1>1. IInv => EmptyMeansFinished
  BY EmptyDone DEF IInv, Sound, CountsOK, UnfinishedOK, EmptyMeansFinished
<1> QED BY <1>1, Invariance, PTL

(* A capture of the journal that is not committed yet matches the row of its URL, so that    *)
(* neither commit_capture nor reconcile_spool fails, whatever crashes came between.          *)
THEOREM ReconcileNeverFails == Spec => []CapturesMatch
BY Invariance, PTL DEF IInv

(* A page whose capture is durable is not requested again under the same fetch id.           *)
THEOREM NotFetchedTwice == Spec => []NoSecondFetch
BY Invariance, PTL DEF IInv

(* While the process runs, the links of a page to its own site are admitted with the page    *)
(* once the page has left the outbox, unless the site has used its budget: the outbox loses  *)
(* none of them in a crash between its steps.                                                *)
THEOREM LinksAdmitted == Spec => []LinksFollowPage
<1>1. IInv => LinksFollowPage
  <2> SUFFICES ASSUME IInv, NEW u \in Urls, db.url[u].state = "committed",
                      db.url[u].round = db.round, \A entry \in db.outbox : entry.url # u,
                      NEW v \in web.links[u], Site(v) = Site(u)
               PROVE  \/ db.url[v].round = db.round \/ db.url[v].reason = "http_410"
                      \/ db.site[Site(u)].admitted >= Budget
    BY DEF LinksFollowPage
  <2>1. Covered(db, u, v)
    BY DEF IInv, LinksOK
  <2> QED BY <2>1 DEF Covered
<1> QED BY <1>1, Invariance, PTL

(* A captured page keeps its next visit in the recrawl index until it is queued for it.      *)
THEOREM VisitsKept == Spec => []RevisitsScheduled
<1>1. IInv => RevisitsScheduled
  BY DEF IInv, VisitsOK, RevisitsScheduled
<1> QED BY <1>1, Invariance, PTL

=============================================================================
