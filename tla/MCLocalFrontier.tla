-------------------------- MODULE MCLocalFrontier --------------------------
(* Small worlds of the local crawler; web ranges over those a configuration names *)
EXTENDS LocalFrontier, TLC

CONSTANTS a1, a2, c1, b1, d1,   \* URLs
          oa, oc, ob, od,       \* HTTP origins
          sa, sb, sd            \* sites; oa and oc belong to sa

Located == (a1 :> oa) @@ (a2 :> oa) @@ (c1 :> oc) @@ (b1 :> ob) @@ (d1 :> od)
Owned == (oa :> sa) @@ (oc :> sa) @@ (ob :> sb) @@ (od :> sd)

Quiet ==
  [seeds |-> {a1}, plan |-> {}, links |-> [u \in Urls |-> {}],
   sitemap |-> [o \in Origins |-> None], redirect |-> [u \in Urls |-> None],
   answers |-> [u \in Urls |-> {"page"}], robots |-> {},
   requests |-> {}, recrawl |-> FALSE, rounds |-> 1, shutdown |-> FALSE, faults |-> 0,
   late |-> FALSE, until |-> 3]

\* linked pages on two origins of one site, stopped at any point
Stops == [Quiet EXCEPT !.links[a1] = {c1}, !.shutdown = TRUE, !.faults = 2]
\* two sites at once, with links and a crash
Sites2 == [Quiet EXCEPT !.seeds = {a1, b1}, !.links[a1] = {a2}, !.links[b1] = {a2}, !.faults = 1, !.until = 1]
\* more links than a site and the frontier admit
Quotas == [Quiet EXCEPT !.links[a1] = {a2, c1, b1, d1}, !.until = 1]
\* every answer, and two URLs of one origin
Answers == [Quiet EXCEPT !.links[a1] = {a2}, !.robots = {"wait", "robots_disallowed"},
              !.answers = [u \in Urls |-> {"page", "http_404", "http_410", "failed", "transient"}],
              !.faults = 1]
\* retries that end by their time
Lates == [Quiet EXCEPT !.links[a1] = {a2}, !.robots = {"wait"}, !.late = TRUE, !.faults = 1,
            !.answers = [u \in Urls |-> {"page", "transient"}]]
\* a redirect to the origin of another site
Redirects == [Quiet EXCEPT !.seeds = {a1, b1}, !.redirect[a1] = ob,
                !.answers[a1] = {"page", "transient"}, !.faults = 1]
\* pages that are looked at again, and two rounds
Recrawls == [Quiet EXCEPT !.links[a1] = {c1}, !.recrawl = TRUE]
Revisits == [Quiet EXCEPT !.recrawl = TRUE, !.rounds = 2, !.faults = 1]
\* a sitemap of another site, a plan and candidates
Sitemaps == [Quiet EXCEPT !.sitemap[oa] = b1, !.links[b1] = {a2, d1}, !.plan = {c1}, !.faults = 1, !.until = 0]
Plans == [Quiet EXCEPT !.plan = {a2, c1}, !.faults = 1, !.rounds = 2, !.until = 1]
\* operator requests
Requests == [Quiet EXCEPT !.links[a1] = {a2}, !.requests = {c1}, !.faults = 1]
\* one page and one crash
LastPage == {[Quiet EXCEPT !.faults = 1]}
AllWebs == {Stops, Sites2, Quotas, Answers, Redirects, Recrawls, Revisits, Sitemaps, Plans, Requests, Lates}
=============================================================================
