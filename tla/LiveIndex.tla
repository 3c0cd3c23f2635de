------------------------------ MODULE LiveIndex ------------------------------
(***************************************************************************)
(* The live index: replicas of one shard, each with an index, a write-     *)
(* ahead log and a temporary log for the time of its set-up, and the live  *)
(* crawler with its durable outbox.  A replica that starts copies the      *)
(* files of a ready one, replays the temporary log and announces itself.   *)
(* A ready replica that stores a page for the crawler passes it on to the  *)
(* others and keeps the lock of the temporary log while it waits for them. *)
(*                                                                         *)
(* Pages are elements; an index and a log are sets of pages, so the        *)
(* duplicates of a page indexed twice are not seen.  All members share one *)
(* view of the cluster, `seen`, that lags behind.                          *)
(***************************************************************************)
EXTENDS Integers, FiniteSets

CONSTANTS
  Replicas, Pages,
  MaxTries,    \* attempts after which the outbox stops offering a page
  MaxFaults,   \* bound, see Init: kills of processes, and answers too late
  None, Gone   \* no entry; the caller no longer waits

Clients == {"sink", "publisher"}
Files == {"index", "wal", "temp"}
Entries == [tries : Nat, leased : BOOLEAN]

ASSUME LiveIndexAssumptions ==
  /\ MaxTries \in Nat \ {0} /\ MaxFaults \in Nat
  /\ None \notin Replicas \cup Pages /\ None \notin Entries /\ Gone \notin Clients

VARIABLES
  disk,     \* per replica: pages in meta.json, in segment files, in the two logs
  rep,      \* per replica: its process
  seen,     \* what the members know of each replica
  calls,    \* IndexWebpages in progress, with the replication of each
  outbox,   \* per page: its entry in index-outbox.redb, or None
  crawled,  \* the crawled database
  up,       \* the crawler's process runs
  sink,     \* the job's LiveIndexSink
  pub,      \* the outbox publisher
  faults

replicas == <<disk, rep, seen>>
store == <<outbox, crawled>>
crawler == <<store, up, sink, pub>>
vars == <<replicas, calls, crawler, faults>>

------------------------------------------------------------------------------
(* Helpers *)

(* `kept` is a history: the pages a replica has acknowledged, but for those *)
(* that the files of a peer have replaced.                                 *)
Empty == [meta |-> {}, segs |-> {}, wal |-> {}, temp |-> {}]
Stopped == [phase |-> "down", peer |-> None, listed |-> {}, left |-> {},
            temp |-> FALSE, busy |-> FALSE, kept |-> {}]
NoJob == [pc |-> "open", pending |-> {}, todo |-> {}, saved |-> FALSE, final |-> FALSE]
NoWork == [pc |-> "idle", page |-> None]

Running(r) == rep[r].phase # "down"
Holds(d) == (d.meta \cap d.segs) \cup d.wal \cup d.temp
OnDisk(r) == Holds(disk[r])
Opens(r) == disk[r].meta \subseteq disk[r].segs

(* How the cluster would describe r, were everyone up to date. *)
Status(r) ==
  CASE rep[r].phase = "down" -> "gone"
    [] rep[r].phase = "ready" -> "ready"
    [] OTHER -> "setup"

(* The lock of the temporary log is with the set-up while it replays, and  *)
(* with a call until its replication is over.                              *)
LockFree(r) ==
  /\ rep[r].phase # "replayed"
  /\ \A c \in calls : c.at = r => c.step # "spreading"

(* r's lock is with a call that waits for a replica whose lock is taken. *)
Stalled(r) == \E c \in calls : /\ c.at = r /\ c.step = "spreading"
                               /\ \E o \in c.to : ~LockFree(o)

Waiting(who) == IF who = "sink" THEN sink.pc = "calling" ELSE pub.pc = "calling"
CallsOf(who) == {c \in calls : c.by = who}

Told(who, answer) ==
  /\ sink' = IF who # "sink" THEN sink
             ELSE [sink EXCEPT !.pc = answer, !.todo = sink.pending]
  /\ pub' = IF who # "publisher" THEN pub ELSE [pub EXCEPT !.pc = answer]

Fault == faults < MaxFaults /\ faults' = faults + 1

(* A cluster in service, with MaxFaults kills or late answers to come, or  *)
(* one that starts, with one kill during set-up: both, and more, are more  *)
(* than TLC can hold.                                                      *)
Init ==
  /\ disk = [r \in Replicas |-> Empty]
  /\ \/ /\ rep = [r \in Replicas |-> [Stopped EXCEPT !.phase = "ready"]]
        /\ seen = [r \in Replicas |-> "ready"]
        /\ faults = 0
     \/ /\ rep = [r \in Replicas |-> Stopped]
        /\ seen = [r \in Replicas |-> "gone"]
        /\ faults = MaxFaults + 1
  /\ calls = {}
  /\ outbox = [p \in Pages |-> None]
  /\ crawled = {}
  /\ up = TRUE
  /\ sink = NoJob
  /\ pub = NoWork

------------------------------------------------------------------------------
(* A replica: start, set-up, commit *)

(* LiveIndex::new fails, at every start, on an index without its segments. *)
\* Wrong: the temporary log is a new one at every start.
StartAfresh(r) ==
  /\ ~Running(r) /\ Opens(r)
  /\ rep' = [rep EXCEPT ![r].phase = "joined", ![r].temp = TRUE]
  /\ disk' = [disk EXCEPT ![r].temp = {}]
  /\ UNCHANGED <<seen, calls, crawler, faults>>
Start(r) ==
  /\ ~Running(r) /\ Opens(r)
  /\ rep' = [rep EXCEPT ![r].phase = "joined", ![r].temp = TRUE]
  /\ UNCHANGED <<disk, seen, calls, crawler, faults>>

(* Ten seconds after joining: the local pages make room for those of a     *)
(* ready replica, if one is known; those in the two logs stay.             *)
Look(r) ==
  /\ rep[r].phase = "joined"
  /\ LET ready == {o \in Replicas \ {r} : seen[o] = "ready"} IN
     \/ /\ ready = {}
        /\ rep' = [rep EXCEPT ![r].phase = "loading"]
        /\ UNCHANGED disk
     \/ \E o \in ready :
          /\ Running(o)
          /\ rep' = [rep EXCEPT ![r].phase = "loading", ![r].peer = o,
                                ![r].listed = disk[o].segs, ![r].left = Files,
                                ![r].kept = @ \cap (disk[r].wal \cup disk[r].temp)]
          /\ disk' = [disk EXCEPT ![r].meta = {}, ![r].segs = {}]
  /\ UNCHANGED <<seen, calls, crawler, faults>>

(* The segments are those of the overview; meta.json and the two logs are  *)
(* as they are now, and replace the local ones: a page only the replaced   *)
(* log had is gone.                                                        *)
Copied(r, o, f) ==
  IF f = "index" THEN [disk[r] EXCEPT !.meta = disk[o].meta, !.segs = rep[r].listed]
  ELSE IF f = "wal" THEN [disk[r] EXCEPT !.wal = disk[o].wal]
  ELSE [disk[r] EXCEPT !.temp = disk[o].temp]

Copy(r, f) ==
  /\ f \in rep[r].left /\ Running(rep[r].peer)
  /\ LET d == Copied(r, rep[r].peer, f) IN
     /\ disk' = [disk EXCEPT ![r] = d]
     /\ rep' = [rep EXCEPT ![r].left = @ \ {f},
                           ![r].kept = IF f = "index" THEN @ ELSE @ \cap Holds(d)]
  /\ UNCHANGED <<seen, calls, crawler, faults>>

(* Without an answer of the other replica the set-up ends for good. *)
SetupFails(r) ==
  /\ \/ rep[r].phase = "joined" /\ \E o \in Replicas \ {r} : seen[o] = "ready"
     \/ rep[r].left # {}
  /\ rep' = [rep EXCEPT ![r].phase = "stuck", ![r].peer = None, ![r].listed = {}, ![r].left = {}]
  /\ UNCHANGED <<disk, seen, calls, crawler, faults>>

(* The index is opened again and the temporary log, under its lock, goes   *)
(* to the log of the index.                                                *)
Replay(r) ==
  /\ rep[r].phase = "loading" /\ rep[r].left = {}
  /\ IF Opens(r) THEN /\ LockFree(r)
                      /\ disk' = [disk EXCEPT ![r].wal = @ \cup disk[r].temp]
                 ELSE UNCHANGED disk
  /\ rep' = [rep EXCEPT ![r].phase = IF Opens(r) THEN "replayed" ELSE "stuck",
                        ![r].peer = None, ![r].listed = {}]
  /\ UNCHANGED <<seen, calls, crawler, faults>>

(* InnerIndex::commit, by the set-up or by the index manager, under the    *)
(* write lock of the index: `busy` between the commit and the new log.     *)
CommitIndex(r) ==
  /\ rep[r].phase = "replayed" \/ (rep[r].phase = "ready" /\ disk[r].wal # {})
  /\ ~rep[r].busy
  /\ disk' = [disk EXCEPT ![r].meta = @ \cup disk[r].wal, ![r].segs = @ \cup disk[r].wal]
  /\ rep' = [rep EXCEPT ![r].busy = TRUE]
  /\ UNCHANGED <<seen, calls, crawler, faults>>

ClearWal(r) ==
  /\ rep[r].busy /\ rep[r].phase = "ready"
  /\ disk' = [disk EXCEPT ![r].wal = {}]
  /\ rep' = [rep EXCEPT ![r].busy = FALSE]
  /\ UNCHANGED <<seen, calls, crawler, faults>>

(* The set-up clears both logs, drops the temporary one and is ready. *)
Serve(r) ==
  /\ rep[r].busy /\ rep[r].phase = "replayed"
  /\ disk' = [disk EXCEPT ![r].wal = {}, ![r].temp = {}]
  /\ rep' = [rep EXCEPT ![r].phase = "ready", ![r].busy = FALSE, ![r].temp = FALSE]
  /\ UNCHANGED <<seen, calls, crawler, faults>>

Gossip(r) ==
  /\ seen[r] # Status(r)
  /\ seen' = [seen EXCEPT ![r] = Status(r)]
  /\ UNCHANGED <<disk, rep, calls, crawler, faults>>

(* A killed replica takes its calls and their replication with it.  In a   *)
(* cluster that starts one is killed before its temporary log is replayed. *)
Kill(r) ==
  /\ Running(r)
  /\ \/ faults < MaxFaults
     \/ faults = MaxFaults + 1 /\ rep[r].phase \in {"joined", "loading"}
  /\ faults' = faults + 1
  /\ rep' = [rep EXCEPT ![r] = [Stopped EXCEPT !.kept = rep[r].kept]]
  /\ calls' = {c \in calls : c.at # r}
  /\ UNCHANGED <<disk, seen, crawler>>

------------------------------------------------------------------------------
(* IndexWebpages *)

(* Durable in the temporary log during set-up, in the log of the index     *)
(* afterwards.                                                             *)
CanStore(r) == Running(r) /\ LockFree(r) /\ (rep[r].temp \/ ~rep[r].busy)

StoreAt(r, pages) ==
  /\ disk' = IF rep[r].temp THEN [disk EXCEPT ![r].temp = @ \cup pages]
             ELSE [disk EXCEPT ![r].wal = @ \cup pages]
  /\ rep' = [rep EXCEPT ![r].kept = @ \cup pages]

(* During set-up the answer is immediate.  Otherwise the page goes to every *)
(* other member, those in set-up included.                                 *)
Handle(c) ==
  /\ c.step = "sent" /\ CanStore(c.at)
  /\ StoreAt(c.at, c.pages)
  /\ LET others == {o \in Replicas \ {c.at} : seen[o] # "gone"} IN
     IF rep[c.at].temp \/ others = {}
       THEN /\ calls' = calls \ {c}
            /\ Told(c.by, "settling")
       ELSE /\ calls' = (calls \ {c}) \cup
                 {[c EXCEPT !.step = "spreading", !.to = others,
                            !.ready = {o \in others : seen[o] = "ready"}]}
            /\ UNCHANGED <<sink, pub>>
  /\ UNCHANGED <<seen, store, up, faults>>

Deliver(c, o) ==
  /\ o \in c.to /\ CanStore(o)
  /\ StoreAt(o, c.pages)
  /\ calls' = (calls \ {c}) \cup
       {d \in {[c EXCEPT !.to = @ \ {o}, !.acks = IF o \in c.lost \/ c.step = "over" THEN @ ELSE @ \cup {o}]} :
          d.step = "spreading" \/ d.to # {}}
  /\ UNCHANGED <<seen, crawler, faults>>

(* Three attempts of 60 s: the receiver is gone, or waits for others that  *)
(* wait themselves; it still serves a request that has reached it.         *)
\* Wrong: a receiver that is there is waited for.
GiveUpIfGone(c, o) ==
  /\ o \in c.to \ c.lost /\ ~Running(o)
  /\ calls' = (calls \ {c}) \cup
       {d \in {[c EXCEPT !.lost = @ \cup {o}, !.to = @ \ {o}]} :
          d.step = "spreading" \/ d.to # {}}
  /\ UNCHANGED <<replicas, crawler, faults>>
GiveUp(c, o) ==
  /\ o \in c.to \ c.lost
  /\ ~Running(o) \/ (Stalled(o) /\ c.step = "spreading")
  /\ calls' = (calls \ {c}) \cup
       {d \in {[c EXCEPT !.lost = @ \cup {o}, !.to = IF Running(o) THEN @ ELSE @ \ {o}]} :
          d.step = "spreading" \/ d.to # {}}
  /\ UNCHANGED <<replicas, crawler, faults>>

(* Half of the ready ones have to acknowledge; when there is none, the     *)
(* first acknowledgement or the last failure ends the wait.                *)
Quorum(n) == (n + 1) \div 2
Enough(c) ==
  /\ Cardinality(c.acks \cap c.ready) >= Quorum(Cardinality(c.ready))
  /\ c.ready # {} \/ c.acks # {} \/ c.to \subseteq c.lost

Answer(c) ==
  /\ c.step = "spreading"
  /\ Enough(c) \/ c.to \subseteq c.lost
  /\ Told(c.by, IF Enough(c) THEN "settling" ELSE "failing")
  /\ calls' = (calls \ {c}) \cup
       {d \in {[c EXCEPT !.step = "over", !.by = Gone, !.ready = {}, !.acks = {}]} : d.to # {}}
  /\ UNCHANGED <<replicas, store, up, faults>>

------------------------------------------------------------------------------
(* The crawler *)

(* Client::index: one replica that is known as ready, or no answer at all. *)
Send(who, pages) ==
  LET ready == {r \in Replicas : seen[r] = "ready"} IN
  calls' \in IF ready = {} THEN {calls}
            ELSE {calls \cup {[by |-> who, at |-> r, pages |-> pages, step |-> "sent",
                               to |-> {}, ready |-> {}, acks |-> {}, lost |-> {}]} : r \in ready}

(* The client stops waiting; the replica, if it is there, goes on. *)
NoAnswer(who) ==
  /\ Waiting(who)
  /\ Told(who, "failing")
  /\ calls' = {c \in calls : c.by # who} \cup
       {[c EXCEPT !.by = Gone] : c \in {d \in CallsOf(who) : Running(d.at)}}
  /\ UNCHANGED <<replicas, store, up>>

(* No replica was known, the connection broke, or all wait for each other. *)
TimesOut(who) ==
  /\ \A c \in CallsOf(who) : ~Running(c.at) \/ Stalled(c.at)
  /\ NoAnswer(who)
  /\ UNCHANGED faults

(* The answer takes longer than 30 s, or is lost. *)
AnswerLate(who) == NoAnswer(who) /\ Fault

(* Outbox::enqueue; the page is pending in the sink and sent to be indexed. *)
(* `saved`: the job has stored other pages before this one.                *)
Fetch(p) ==
  /\ up /\ sink.pc = "open" /\ outbox[p] = None /\ p \notin crawled
  /\ outbox' = [outbox EXCEPT ![p] = [tries |-> 0, leased |-> TRUE]]
  /\ \E saved \in BOOLEAN :
       sink' = [sink EXCEPT !.pc = "calling", !.pending = {p}, !.saved = saved]
  /\ Send("sink", {p})
  /\ UNCHANGED <<replicas, crawled, up, pub, faults>>

Deferred(p) == [outbox EXCEPT ![p] = [tries |-> @.tries + 1, leased |-> FALSE]]

(* Every pending page is marked as crawled and then acknowledged. *)
SinkSettles(p) ==
  /\ sink.pc = "settling" /\ p \in sink.todo
  /\ IF p \notin crawled
       THEN crawled' = crawled \cup {p} /\ UNCHANGED <<outbox, sink>>
       ELSE /\ outbox' = [outbox EXCEPT ![p] = None]
            /\ sink' = [sink EXCEPT !.todo = @ \ {p}]
            /\ UNCHANGED crawled
  /\ UNCHANGED <<replicas, calls, up, pub, faults>>

(* A page the publisher has acknowledged meanwhile stops the loop. *)
SinkDefers(p) ==
  /\ sink.pc = "failing" /\ p \in sink.todo
  /\ IF outbox[p] = None
       THEN sink' = [sink EXCEPT !.pc = "stopped", !.todo = {}] /\ UNCHANGED outbox
       ELSE sink' = [sink EXCEPT !.todo = @ \ {p}] /\ outbox' = Deferred(p)
  /\ UNCHANGED <<replicas, calls, crawled, up, pub, faults>>

(* A failure stops the job, which tries its pending pages once more if it  *)
(* has stored others.                                                      *)
SinkMovesOn ==
  /\ sink.pc # "calling" /\ sink.todo = {}
  /\ \/ /\ sink.pc = "settling"
        /\ sink' = NoJob
        /\ UNCHANGED calls
     \/ /\ sink.pc \in {"failing", "stopped"}
        /\ IF sink.saved /\ ~sink.final
             THEN /\ sink' = [sink EXCEPT !.pc = "calling", !.final = TRUE]
                  /\ Send("sink", sink.pending)
             ELSE sink' = NoJob /\ UNCHANGED calls
  /\ UNCHANGED <<replicas, store, up, pub, faults>>

(* The 120 s of an entry's lease are longer than the job needs for it. *)
LeaseEnds(p) ==
  /\ outbox[p] # None /\ p \notin sink.pending
  /\ outbox[p].leased
  /\ outbox' = [outbox EXCEPT ![p].leased = FALSE]
  /\ UNCHANGED <<replicas, calls, crawled, up, sink, pub, faults>>

(* Outbox::ready: an entry that is due and has attempts left. *)
Listed(p) == outbox[p] # None /\ ~outbox[p].leased /\ outbox[p].tries < MaxTries

Publish(p) ==
  /\ up /\ pub = NoWork /\ Listed(p)
  /\ pub' = [pc |-> "calling", page |-> p]
  /\ Send("publisher", {p})
  /\ UNCHANGED <<replicas, store, up, sink, faults>>

\* Wrong: the entry is acknowledged before the page is marked.
PublisherSettlesFirst ==
  /\ pub.pc = "settling"
  /\ IF outbox[pub.page] # None
       THEN outbox' = [outbox EXCEPT ![pub.page] = None] /\ UNCHANGED <<crawled, pub>>
       ELSE /\ crawled' = crawled \cup {pub.page}
            /\ pub' = NoWork
            /\ UNCHANGED outbox
  /\ UNCHANGED <<replicas, calls, up, sink, faults>>
PublisherSettles ==
  /\ pub.pc = "settling"
  /\ IF pub.page \notin crawled
       THEN crawled' = crawled \cup {pub.page} /\ UNCHANGED <<outbox, pub>>
       ELSE /\ outbox' = [outbox EXCEPT ![pub.page] = None]
            /\ pub' = NoWork
            /\ UNCHANGED crawled
  /\ UNCHANGED <<replicas, calls, up, sink, faults>>

(* The end of the crawler's process: its calls go on without it. *)
CrawlerEnds ==
  /\ up' = FALSE /\ sink' = NoJob /\ pub' = NoWork
  /\ calls' = {[c EXCEPT !.by = Gone] : c \in calls}

(* An entry that the sink has acknowledged meanwhile cannot be deferred,   *)
(* and the error ends Crawler::run.                                        *)
PublisherDefers ==
  /\ pub.pc = "failing"
  /\ IF outbox[pub.page] = None
       THEN CrawlerEnds /\ UNCHANGED outbox
       ELSE /\ outbox' = Deferred(pub.page) /\ pub' = NoWork
            /\ UNCHANGED <<calls, up, sink>>
  /\ UNCHANGED <<replicas, crawled, faults>>

CrawlerKilled ==
  /\ up /\ Fault
  /\ CrawlerEnds
  /\ UNCHANGED <<replicas, store>>

(* Outbox::open lifts the leases of the process before. *)
CrawlerStarts ==
  /\ ~up /\ up' = TRUE
  /\ outbox' = [p \in Pages |-> IF outbox[p] = None THEN None
                                ELSE [outbox[p] EXCEPT !.leased = FALSE]]
  /\ UNCHANGED <<replicas, calls, crawled, sink, pub, faults>>

------------------------------------------------------------------------------
Setup(r) ==
  \/ Start(r) \/ Look(r) \/ SetupFails(r) \/ Replay(r) \/ Serve(r)
  \/ \E f \in Files : Copy(r, f)

Manage(r) == CommitIndex(r) \/ ClearWal(r)

Calling ==
  \E c \in calls :
    \/ Handle(c) \/ Answer(c)
    \/ \E o \in Replicas : Deliver(c, o) \/ GiveUp(c, o)

Sink ==
  \/ SinkMovesOn
  \/ \E p \in Pages : Fetch(p) \/ SinkSettles(p) \/ SinkDefers(p)

Publisher ==
  \/ PublisherSettles \/ PublisherDefers
  \/ \E p \in Pages : Publish(p)

Progress ==
  \/ \E r \in Replicas : Setup(r) \/ Manage(r) \/ Gossip(r)
  \/ Calling \/ Sink \/ Publisher \/ CrawlerStarts
  \/ \E p \in Pages : LeaseEnds(p)
  \/ \E who \in Clients : TimesOut(who)

Next ==
  \/ Progress
  \/ CrawlerKilled
  \/ \E r \in Replicas : Kill(r)
  \/ \E who \in Clients : AnswerLate(who)

(* Something goes on as long as anything can.  Nothing is repeated for     *)
(* ever, so this is enough.                                                *)
Spec == Init /\ [][Next]_vars /\ WF_vars(Progress)

------------------------------------------------------------------------------
(* A page the sink or the publisher has in hand is in the outbox or        *)
(* already in the crawled database: whoever settles it first, and wherever *)
(* the crawler ends in between, no page is forgotten.                      *)
NothingDropped ==
  \A p \in Pages : p \in sink.pending \/ p = pub.page => outbox[p] # None \/ p \in crawled

(* Every page a replica has acknowledged, before, during or after a set-up *)
(* from a peer, is on its disk, through commits, kills and starts, unless  *)
(* a file of the peer has replaced the one it was in: the pages of the     *)
(* index when a copy begins, those of a log when that log is copied.  The  *)
(* code does take pages off so and nothing here forbids it; no other step  *)
(* may, and a page acknowledged after the logs are copied stays.           *)
StillOnDisk == \A r \in Replicas : rep[r].kept \subseteq OnDisk(r)

(* The lock of a replica is not held for ever, although two replicas that  *)
(* both replicate wait for each other.                                     *)
LocksFreed == \A r \in Replicas : []<>LockFree(r)
==============================================================================
