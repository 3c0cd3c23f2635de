--------------------------- MODULE LiveIndexProofs ---------------------------
(***************************************************************************)
(* Proofs about LiveIndex, for any replicas, pages, tries and faults.      *)
(*                                                                         *)
(* What a replica has acknowledged stays on its disk because the logs are  *)
(* cleared only while nothing can be written to them, and only of what the *)
(* index has (Cleared); a copy, which is alone in its phase (CopiesAlone), *)
(* replaces files, and the index it brings replaces nothing that was kept  *)
(* in one (Emptied).  No page in hand is dropped because a page is settled *)
(* only by the client that has it, once it is crawled, and the publisher   *)
(* always has one when it settles.                                         *)
(***************************************************************************)
EXTENDS LiveIndex, TLAPS

Phases == {"down", "joined", "loading", "replayed", "ready", "stuck"}

Disks == [meta : SUBSET Pages, segs : SUBSET Pages, wal : SUBSET Pages, temp : SUBSET Pages]
Processes ==
  [phase : Phases, peer : Replicas \cup {None}, listed : SUBSET Pages, left : SUBSET Files,
   temp : BOOLEAN, busy : BOOLEAN, kept : SUBSET Pages]

ReplicasOK == disk \in [Replicas -> Disks] /\ rep \in [Replicas -> Processes]

Calls == [by : Clients \cup {Gone}, at : Replicas, pages : SUBSET Pages,
          step : {"sent", "spreading", "over"}, to : SUBSET Replicas,
          ready : SUBSET Replicas, acks : SUBSET Replicas, lost : SUBSET Replicas]

CallsOK == calls \subseteq Calls

Sinks == [pc : {"open", "calling", "settling", "failing", "stopped"},
          pending : SUBSET Pages, todo : SUBSET Pages, saved : BOOLEAN, final : BOOLEAN]
Publishers == [pc : {"idle", "calling", "settling", "failing"}, page : Pages \cup {None}]

StoreOK == outbox \in [Pages -> Entries \cup {None}] /\ crawled \subseteq Pages
CrawlerOK == StoreOK /\ up \in BOOLEAN /\ sink \in Sinks /\ pub \in Publishers

TypeOK == ReplicasOK /\ CallsOK /\ CrawlerOK

(* Files are copied in one phase only. *)
CopiesAlone(x) ==
  /\ x.left # {} => x.peer # None
  /\ x.peer # None => x.phase = "loading"

(* The index is empty until the peer's is copied. *)
Emptied(d, x) == "index" \in x.left => d.meta = {} /\ d.segs = {}

(* The temporary log is in the log of the index once it is replayed, and   *)
(* the log is in the index once it is committed.                           *)
Cleared(d, x) ==
  /\ x.phase = "replayed" => d.temp \subseteq d.wal
  /\ x.phase = "ready" => ~x.temp
  /\ x.busy => /\ x.phase \in {"replayed", "ready"}
               /\ d.wal \subseteq d.meta \cap d.segs

OnIt(d, x) == x.kept \subseteq Holds(d)

KeptBy(d, x) == CopiesAlone(x) /\ Emptied(d, x) /\ Cleared(d, x) /\ OnIt(d, x)
Kept == \A r \in Replicas : KeptBy(disk[r], rep[r])

(* A client has one call at most, and waits for it. *)
Awaited ==
  /\ \A c, d \in calls : c.by = d.by /\ c.by \in Clients => c = d
  /\ \A c \in calls : c.by \in Clients => Waiting(c.by)

(* The publisher has a page unless it is idle. *)
HasPage == pub.page \in Pages <=> pub.pc # "idle"

InHand == Awaited /\ HasPage /\ NothingDropped

LEMMA Constants ==
  /\ None \notin Replicas /\ None \notin Pages /\ None \notin Entries /\ Gone \notin Clients
BY LiveIndexAssumptions

------------------------------------------------------------------------------
(* Replicas *)

LEMMA KeptIsOnDisk == Kept => StillOnDisk
BY DEF Kept, KeptBy, OnIt, StillOnDisk, OnDisk

LEMMA OneOfThem ==
  ASSUME ReplicasOK, Kept, NEW r \in Replicas
  PROVE  disk[r] \in Disks /\ rep[r] \in Processes /\ KeptBy(disk[r], rep[r])
BY DEF ReplicasOK, Kept

(* A step of one replica alone. *)
LEMMA Alone ==
  ASSUME ReplicasOK, Kept, NEW r \in Replicas, NEW d \in Disks, NEW x \in Processes,
         disk' = [disk EXCEPT ![r] = d], rep' = [rep EXCEPT ![r] = x], KeptBy(d, x)
  PROVE  ReplicasOK' /\ Kept'
BY DEF ReplicasOK, Kept

(* Pages are stored where no set-up and no commit clears a log meanwhile.  *)
LEMMA StoreKeeps ==
  ASSUME ReplicasOK, Kept, NEW r \in Replicas, NEW pages \in SUBSET Pages,
         CanStore(r), StoreAt(r, pages)
  PROVE  ReplicasOK' /\ Kept'
<1> DEFINE d == IF rep[r].temp THEN [disk[r] EXCEPT !.temp = @ \cup pages]
                ELSE [disk[r] EXCEPT !.wal = @ \cup pages]
           x == [rep[r] EXCEPT !.kept = @ \cup pages]
<1>1. disk[r] \in Disks /\ rep[r] \in Processes /\ KeptBy(disk[r], rep[r])
  BY OneOfThem
<1>2. rep[r].phase # "replayed" /\ (rep[r].temp \/ ~rep[r].busy)
  BY DEF CanStore, LockFree
<1>3. d \in Disks /\ x \in Processes
  BY <1>1 DEF Disks, Processes
<1>4. KeptBy(d, x)
  BY <1>1, <1>2 DEF KeptBy, CopiesAlone, Emptied, Cleared, OnIt, Holds, Disks, Processes
<1>5. disk' = [disk EXCEPT ![r] = d] /\ rep' = [rep EXCEPT ![r] = x]
  BY DEF StoreAt, ReplicasOK
<1> HIDE DEF d, x
<1> QED
  BY <1>3, <1>4, <1>5, Alone

LEMMA SetupKeeps ==
  ASSUME ReplicasOK, Kept, NEW r \in Replicas, Setup(r) \/ Manage(r)
  PROVE  ReplicasOK' /\ Kept'
<1> DEFINE Keeps == \E d \in Disks, x \in Processes :
                      /\ disk' = [disk EXCEPT ![r] = d] /\ rep' = [rep EXCEPT ![r] = x]
                      /\ KeptBy(d, x)
<1> SUFFICES Keeps
  BY Alone
<1>0. disk[r] \in Disks /\ rep[r] \in Processes /\ KeptBy(disk[r], rep[r])
  BY OneOfThem
<1> USE DEF KeptBy
<1>1. CASE Start(r)
  <2> DEFINE d == disk[r]
             x == [rep[r] EXCEPT !.phase = "joined", !.temp = TRUE]
  <2>1. d \in Disks /\ x \in Processes
    BY <1>0 DEF Disks, Processes, Phases
  <2>2. disk' = [disk EXCEPT ![r] = d] /\ rep' = [rep EXCEPT ![r] = x]
    BY <1>1 DEF Start, ReplicasOK
  <2>3. KeptBy(d, x)
    BY <1>0, <1>1 DEF Start, Running, CopiesAlone, Emptied, Cleared, OnIt, Holds, Disks, Processes
  <2> QED
    BY <2>1, <2>2, <2>3
<1>2. CASE Look(r)
  <2>1. CASE disk' = disk /\ rep' = [rep EXCEPT ![r].phase = "loading"]
    <3> DEFINE x == [rep[r] EXCEPT !.phase = "loading"]
    <3>1. x \in Processes
      BY <1>0 DEF Processes, Phases
    <3>2. disk' = [disk EXCEPT ![r] = disk[r]] /\ rep' = [rep EXCEPT ![r] = x]
      BY <2>1 DEF ReplicasOK
    <3>3. KeptBy(disk[r], x)
      BY <1>0, <1>2 DEF Look, CopiesAlone, Emptied, Cleared, OnIt, Holds, Disks, Processes
    <3> QED
      BY <1>0, <3>1, <3>2, <3>3
  <2>2. ASSUME NEW o \in Replicas,
               rep' = [rep EXCEPT ![r].phase = "loading", ![r].peer = o,
                                  ![r].listed = disk[o].segs, ![r].left = Files,
                                  ![r].kept = @ \cap (disk[r].wal \cup disk[r].temp)],
               disk' = [disk EXCEPT ![r].meta = {}, ![r].segs = {}]
        PROVE  Keeps
    <3> DEFINE d == [disk[r] EXCEPT !.meta = {}, !.segs = {}]
               x == [rep[r] EXCEPT !.phase = "loading", !.peer = o,
                                   !.listed = disk[o].segs, !.left = Files,
                                   !.kept = @ \cap (disk[r].wal \cup disk[r].temp)]
    <3>1. disk[o] \in Disks
      BY OneOfThem
    <3>2. d \in Disks /\ x \in Processes
      BY <1>0, <3>1 DEF Disks, Processes, Phases
    <3>3. disk' = [disk EXCEPT ![r] = d] /\ rep' = [rep EXCEPT ![r] = x]
      BY <2>2 DEF ReplicasOK
    <3>4. KeptBy(d, x)
      BY <1>0, <1>2, Constants DEF Look, CopiesAlone, Emptied, Cleared, OnIt, Holds, Disks, Processes
    <3> QED
      BY <3>2, <3>3, <3>4
  <2> QED
    BY <1>2, <2>1, <2>2 DEF Look
<1>3. CASE SetupFails(r)
  <2> DEFINE d == disk[r]
             x == [rep[r] EXCEPT !.phase = "stuck", !.peer = None, !.listed = {}, !.left = {}]
  <2>1. d \in Disks /\ x \in Processes
    BY <1>0 DEF Disks, Processes, Phases
  <2>2. disk' = [disk EXCEPT ![r] = d] /\ rep' = [rep EXCEPT ![r] = x]
    BY <1>3 DEF SetupFails, ReplicasOK
  <2>3. KeptBy(d, x)
    BY <1>0, <1>3 DEF SetupFails, CopiesAlone, Emptied, Cleared, OnIt, Holds, Disks, Processes
  <2> QED
    BY <2>1, <2>2, <2>3
<1>4. CASE Replay(r)
  <2> DEFINE d == IF Opens(r) THEN [disk[r] EXCEPT !.wal = @ \cup disk[r].temp] ELSE disk[r]
             x == [rep[r] EXCEPT !.phase = IF Opens(r) THEN "replayed" ELSE "stuck",
                                 !.peer = None, !.listed = {}]
  <2>1. d \in Disks /\ x \in Processes
    BY <1>0 DEF Disks, Processes, Phases
  <2>2. disk' = [disk EXCEPT ![r] = d] /\ rep' = [rep EXCEPT ![r] = x]
    BY <1>4 DEF Replay, ReplicasOK
  <2>3. KeptBy(d, x)
    BY <1>0, <1>4 DEF Replay, CopiesAlone, Emptied, Cleared, OnIt, Holds, Disks, Processes
  <2> QED
    BY <2>1, <2>2, <2>3
<1>5. CASE Serve(r)
  <2> DEFINE d == [disk[r] EXCEPT !.wal = {}, !.temp = {}]
             x == [rep[r] EXCEPT !.phase = "ready", !.busy = FALSE, !.temp = FALSE]
  <2>1. d \in Disks /\ x \in Processes
    BY <1>0 DEF Disks, Processes, Phases
  <2>2. disk' = [disk EXCEPT ![r] = d] /\ rep' = [rep EXCEPT ![r] = x]
    BY <1>5 DEF Serve, ReplicasOK
  <2>3. KeptBy(d, x)
    BY <1>0, <1>5 DEF Serve, CopiesAlone, Emptied, Cleared, OnIt, Holds, Disks, Processes
  <2> QED
    BY <2>1, <2>2, <2>3
<1>6. ASSUME NEW f \in Files, Copy(r, f)
      PROVE  Keeps
  <2>0. rep[r].peer \in Replicas /\ disk[rep[r].peer] \in Disks
    BY <1>0, <1>6, OneOfThem DEF Copy, CopiesAlone, Processes
  <2> DEFINE d == Copied(r, rep[r].peer, f)
             x == [rep[r] EXCEPT !.left = @ \ {f},
                                 !.kept = IF f = "index" THEN @ ELSE @ \cap Holds(d)]
  <2>1. d \in Disks /\ x \in Processes
    BY <1>0, <2>0 DEF Copied, Holds, Disks, Processes, Phases, Files
  <2>2. disk' = [disk EXCEPT ![r] = d] /\ rep' = [rep EXCEPT ![r] = x]
    BY <1>6 DEF Copy, ReplicasOK
  <2>3. KeptBy(d, x)
    <3>1. CASE f = "index"
      <4>1. d = [disk[r] EXCEPT !.meta = disk[rep[r].peer].meta, !.segs = rep[r].listed]
        BY <3>1 DEF Copied
      <4>2. x = [rep[r] EXCEPT !.left = @ \ {f}]
        BY <1>0, <3>1 DEF Processes
      <4> HIDE DEF d, x
      <4> QED
        BY <1>0, <1>6, <3>1, <4>1, <4>2 DEF Copy, CopiesAlone, Emptied, Cleared, OnIt, Holds, Disks, Processes
    <3>2. CASE f # "index"
      <4>1. d \in {[disk[r] EXCEPT !.wal = disk[rep[r].peer].wal], [disk[r] EXCEPT !.temp = disk[rep[r].peer].temp]}
        BY <3>2 DEF Copied
      <4>2. x = [rep[r] EXCEPT !.left = @ \ {f}, !.kept = @ \cap Holds(d)]
        BY <3>2
      <4> HIDE DEF d, x
      <4> QED
        BY <1>0, <1>6, <3>2, <4>1, <4>2 DEF Copy, CopiesAlone, Emptied, Cleared, OnIt, Disks, Processes
    <3> QED
      BY <3>1, <3>2
  <2> QED
    BY <2>1, <2>2, <2>3
<1>7. CASE CommitIndex(r)
  <2> DEFINE d == [disk[r] EXCEPT !.meta = @ \cup disk[r].wal, !.segs = @ \cup disk[r].wal]
             x == [rep[r] EXCEPT !.busy = TRUE]
  <2>1. d \in Disks /\ x \in Processes
    BY <1>0 DEF Disks, Processes, Phases
  <2>2. disk' = [disk EXCEPT ![r] = d] /\ rep' = [rep EXCEPT ![r] = x]
    BY <1>7 DEF CommitIndex, ReplicasOK
  <2>3. KeptBy(d, x)
    BY <1>0, <1>7 DEF CommitIndex, CopiesAlone, Emptied, Cleared, OnIt, Holds, Disks, Processes
  <2> QED
    BY <2>1, <2>2, <2>3
<1>8. CASE ClearWal(r)
  <2> DEFINE d == [disk[r] EXCEPT !.wal = {}]
             x == [rep[r] EXCEPT !.busy = FALSE]
  <2>1. d \in Disks /\ x \in Processes
    BY <1>0 DEF Disks, Processes, Phases
  <2>2. disk' = [disk EXCEPT ![r] = d] /\ rep' = [rep EXCEPT ![r] = x]
    BY <1>8 DEF ClearWal, ReplicasOK
  <2>3. KeptBy(d, x)
    BY <1>0, <1>8 DEF ClearWal, CopiesAlone, Emptied, Cleared, OnIt, Holds, Disks, Processes
  <2> QED
    BY <2>1, <2>2, <2>3
<1> QED
  BY <1>1, <1>2, <1>3, <1>4, <1>5, <1>6, <1>7, <1>8 DEF Setup, Manage
LEMMA KillKeeps ==
  ASSUME ReplicasOK, Kept, NEW r \in Replicas, Kill(r)
  PROVE  ReplicasOK' /\ Kept'
<1> DEFINE x == [Stopped EXCEPT !.kept = rep[r].kept]
<1>1. disk[r] \in Disks /\ rep[r] \in Processes /\ KeptBy(disk[r], rep[r])
  BY OneOfThem
<1>2. x \in Processes
  BY <1>1 DEF Stopped, Processes, Phases
<1>3. disk' = [disk EXCEPT ![r] = disk[r]] /\ rep' = [rep EXCEPT ![r] = x]
  BY DEF Kill, ReplicasOK
<1>4. KeptBy(disk[r], x)
  BY <1>1 DEF Stopped, KeptBy, CopiesAlone, Emptied, Cleared, OnIt, Holds, Disks, Processes
<1> QED
  BY <1>1, <1>2, <1>3, <1>4, Alone

LEMMA ReplicasUnmoved ==
  ASSUME ReplicasOK, Kept, UNCHANGED <<disk, rep>>
  PROVE  ReplicasOK' /\ Kept'
BY DEF ReplicasOK, Kept

------------------------------------------------------------------------------
(* Calls *)

(* A call that goes on, with its caller or without it, or is over. *)
LEMMA Replaced ==
  ASSUME CallsOK, Awaited, NEW c \in calls, NEW d \in Calls, d.by \in {c.by, Gone},
         calls' \subseteq (calls \ {c}) \cup {d},
         \A who \in Clients : Waiting(who) => Waiting(who)' \/ (d.by = Gone /\ who = c.by)
  PROVE  CallsOK' /\ Awaited'
<1>1. CallsOK'
  BY DEF CallsOK
<1>2. ASSUME NEW x \in calls', NEW y \in calls', x.by = y.by, x.by \in Clients
      PROVE  x = y
  BY <1>2, Constants DEF Awaited
<1>3. ASSUME NEW x \in calls', x.by \in Clients
      PROVE  Waiting(x.by)'
  <2>1. CASE x = d
    BY <2>1, <1>3, Constants DEF Awaited
  <2>2. CASE x \in calls \ {c}
    BY <2>2, <1>3 DEF Awaited
  <2> QED
    BY <2>1, <2>2
<1> QED
  BY <1>1, <1>2, <1>3 DEF Awaited

(* The client that sends a call has no other. *)
LEMMA Sent ==
  ASSUME CallsOK, Awaited, NEW who \in Clients, NEW pages \in SUBSET Pages, ~Waiting(who),
         Send(who, pages), \A w \in Clients : Waiting(w)' <=> w = who \/ Waiting(w)
  PROVE  CallsOK' /\ Awaited'
<1>1. CASE calls' = calls
  BY <1>1 DEF CallsOK, Awaited
<1>2. ASSUME NEW r \in Replicas,
             calls' = calls \cup {[by |-> who, at |-> r, pages |-> pages, step |-> "sent",
                                   to |-> {}, ready |-> {}, acks |-> {}, lost |-> {}]}
      PROVE  CallsOK' /\ Awaited'
  <2> DEFINE m == [by |-> who, at |-> r, pages |-> pages, step |-> "sent",
                   to |-> {}, ready |-> {}, acks |-> {}, lost |-> {}]
  <2>1. m \in Calls /\ m.by = who /\ calls' = calls \cup {m}
    BY <1>2 DEF Calls
  <2>2. \A c \in calls : c.by # who
    BY DEF Awaited
  <2> HIDE DEF m
  <2> QED
    BY <2>1, <2>2 DEF CallsOK, Awaited
<1> QED
  BY <1>1, <1>2 DEF Send

(* Fewer calls, and some without their caller. *)
LEMMA Fewer ==
  ASSUME CallsOK, Awaited,
         \A x \in calls' : x \in calls \/ \E c \in calls : x = [c EXCEPT !.by = Gone],
         \A who \in Clients : Waiting(who) =>
            Waiting(who)' \/ \A x \in calls' : x.by # who
  PROVE  CallsOK' /\ Awaited'
<1>1. ASSUME NEW c \in calls
      PROVE  [c EXCEPT !.by = Gone] \in Calls /\ [c EXCEPT !.by = Gone].by = Gone
  BY <1>1 DEF CallsOK, Calls
<1>2. CallsOK'
  BY <1>1 DEF CallsOK
<1>3. \A x \in calls' : x.by \in Clients => x \in calls
  BY <1>1, Constants
<1> QED
  BY <1>2, <1>3 DEF Awaited

------------------------------------------------------------------------------
(* Steps *)

LEMMA ToldOK ==
  ASSUME CrawlerOK, HasPage, NEW who \in Clients \cup {Gone}, who \in Clients => Waiting(who),
         NEW answer \in {"settling", "failing"}, Told(who, answer)
  PROVE  /\ sink' \in Sinks /\ pub' \in Publishers /\ HasPage'
         /\ sink'.pending = sink.pending /\ pub'.page = pub.page
         /\ \A w \in Clients : w # who /\ Waiting(w) => Waiting(w)'
<1>1. CASE who = "sink"
  BY <1>1 DEF Told, CrawlerOK, Sinks, HasPage, Waiting, Clients
<1>2. CASE who = "publisher"
  BY <1>2 DEF Told, CrawlerOK, Publishers, HasPage, Waiting, Clients
<1>3. CASE who = Gone
  BY <1>3, Constants DEF Told, CrawlerOK, HasPage, Waiting, Clients
<1> QED
  BY <1>1, <1>2, <1>3 DEF Clients

Inv == TypeOK /\ Kept /\ InHand

LEMMA NoWorkOK == NoWork \in Publishers /\ NoWork.pc = "idle" /\ NoWork.page \notin Pages
BY Constants DEF NoWork, Publishers

LEMMA DeferredOK ==
  ASSUME StoreOK, NEW p \in Pages, outbox[p] # None
  PROVE  /\ Deferred(p) \in [Pages -> Entries \cup {None}] /\ Deferred(p)[p] # None
         /\ \A q \in Pages : q # p => Deferred(p)[q] = outbox[q]
<1>1. outbox[p] \in Entries
  BY DEF StoreOK
<1>2. [tries |-> outbox[p].tries + 1, leased |-> FALSE] \in Entries
  BY <1>1 DEF Entries
<1> QED
  BY <1>2, Constants DEF Deferred, StoreOK

(* The end of the crawler leaves the stores as they are. *)
LEMMA EndsKeeps ==
  ASSUME CallsOK, Awaited, CrawlerOK, CrawlerEnds, UNCHANGED <<outbox, crawled>>
  PROVE  CallsOK' /\ CrawlerOK' /\ InHand'
<1>1. CallsOK' /\ Awaited'
  <2>1. \A x \in calls' : \E c \in calls : x = [c EXCEPT !.by = Gone]
    BY DEF CrawlerEnds
  <2>2. \A x \in calls' : x.by \notin Clients
    BY <2>1, Constants DEF CallsOK, Calls
  <2> QED
    BY <2>1, <2>2, Fewer
<1>2. CrawlerOK' /\ HasPage' /\ NothingDropped'
  BY Constants DEF CrawlerEnds, NoJob, NoWork, CrawlerOK, StoreOK, Sinks, Publishers, HasPage, NothingDropped
<1> QED
  BY <1>1, <1>2 DEF InHand

LEMMA Initially == Init => Inv
<1> SUFFICES ASSUME Init
             PROVE  Inv
  OBVIOUS
<1>1. ReplicasOK
  <2>1. Empty \in Disks /\ Stopped \in Processes /\ [Stopped EXCEPT !.phase = "ready"] \in Processes
    BY DEF Disks, Processes, Empty, Stopped, Phases
  <2> QED
    BY <2>1 DEF Init, ReplicasOK
<1>2. Kept
  BY DEF Init, Kept, KeptBy, CopiesAlone, Emptied, Cleared, OnIt, Holds, Empty, Stopped
<1>3. CallsOK /\ CrawlerOK
  BY DEF Init, CallsOK, CrawlerOK, StoreOK, Sinks, Publishers, NoJob, NoWork
<1>4. InHand
  BY Constants DEF Init, InHand, Awaited, HasPage, NothingDropped, NoJob, NoWork
<1> QED
  BY <1>1, <1>2, <1>3, <1>4 DEF Inv, TypeOK

LEMMA CallingKeeps ==
  ASSUME Inv, Calling
  PROVE  Inv'
<1> USE DEF Inv, TypeOK, InHand
<1> SUFFICES ASSUME NEW c \in calls,
                    \/ Handle(c) \/ Answer(c)
                    \/ \E o \in Replicas : Deliver(c, o) \/ GiveUp(c, o)
             PROVE  Inv'
  BY DEF Calling
<1>0. c \in Calls /\ c.by \in Clients \cup {Gone} /\ c.at \in Replicas /\ c.pages \in SUBSET Pages
  BY DEF CallsOK, Calls
<1>1. c.by \in Clients => Waiting(c.by)
  BY DEF Awaited
<1> DEFINE gone == [c EXCEPT !.by = Gone]
<1>2. gone \in Calls /\ gone.by = Gone
  BY <1>0 DEF Calls
<1>3. CASE Handle(c)
  <2>1. ReplicasOK' /\ Kept'
    BY <1>0, <1>3, StoreKeeps DEF Handle
  <2>2. CASE calls' = calls \ {c} /\ Told(c.by, "settling")
    <3>1. CallsOK' /\ Awaited'
      BY <1>0, <1>1, <1>2, <2>2, ToldOK, Replaced
    <3>2. CrawlerOK' /\ HasPage' /\ NothingDropped'
      BY <1>0, <1>1, <1>3, <2>2, ToldOK DEF Handle, CrawlerOK, StoreOK, store, NothingDropped
    <3> QED
      BY <2>1, <3>1, <3>2
  <2>3. CASE ~(calls' = calls \ {c} /\ Told(c.by, "settling"))
    <3> DEFINE others == {o \in Replicas \ {c.at} : seen[o] # "gone"}
               d == [c EXCEPT !.step = "spreading", !.to = others,
                              !.ready = {o \in others : seen[o] = "ready"}]
    <3>1. d \in Calls /\ d.by = c.by
      BY <1>0 DEF Calls
    <3>2. calls' = (calls \ {c}) \cup {d} /\ sink' = sink /\ pub' = pub
      BY <1>3, <2>3 DEF Handle
    <3> HIDE DEF d
    <3>3. CallsOK' /\ Awaited'
      BY <3>1, <3>2, Replaced DEF Waiting
    <3>4. CrawlerOK' /\ HasPage' /\ NothingDropped'
      BY <1>3, <3>2 DEF Handle, CrawlerOK, StoreOK, store, HasPage, NothingDropped
    <3> QED
      BY <2>1, <3>3, <3>4
  <2> QED
    BY <2>2, <2>3
<1>4. CASE Answer(c)
  <2>1. ReplicasOK' /\ Kept'
    BY <1>4, ReplicasUnmoved DEF Answer, replicas
  <2> DEFINE d == [c EXCEPT !.step = "over", !.by = Gone, !.ready = {}, !.acks = {}]
             answer == IF Enough(c) THEN "settling" ELSE "failing"
  <2>2. d \in Calls /\ d.by = Gone /\ answer \in {"settling", "failing"}
    BY <1>0 DEF Calls
  <2>3. calls' \subseteq (calls \ {c}) \cup {d} /\ Told(c.by, answer)
    BY <1>4 DEF Answer
  <2> HIDE DEF d, answer
  <2>4. CallsOK' /\ Awaited'
    BY <1>0, <1>1, <2>2, <2>3, ToldOK, Replaced
  <2>5. CrawlerOK' /\ HasPage' /\ NothingDropped'
    BY <1>0, <1>1, <1>4, <2>2, <2>3, ToldOK DEF Answer, CrawlerOK, StoreOK, store, NothingDropped
  <2> QED
    BY <2>1, <2>4, <2>5
<1>5. ASSUME NEW o \in Replicas, Deliver(c, o)
      PROVE  Inv'
  <2>1. ReplicasOK' /\ Kept'
    BY <1>0, <1>5, StoreKeeps DEF Deliver
  <2> DEFINE d == [c EXCEPT !.to = @ \ {o},
                            !.acks = IF o \in c.lost \/ c.step = "over" THEN @ ELSE @ \cup {o}]
  <2>2. d \in Calls /\ d.by = c.by
    BY <1>0 DEF Calls
  <2>3. calls' \subseteq (calls \ {c}) \cup {d}
    BY <1>5 DEF Deliver
  <2> HIDE DEF d
  <2>4. CallsOK' /\ Awaited'
    BY <1>5, <2>2, <2>3, Replaced DEF Deliver, crawler, Waiting
  <2>5. CrawlerOK' /\ HasPage' /\ NothingDropped'
    BY <1>5 DEF Deliver, crawler, store, CrawlerOK, StoreOK, HasPage, NothingDropped
  <2> QED
    BY <2>1, <2>4, <2>5
<1>6. ASSUME NEW o \in Replicas, GiveUp(c, o)
      PROVE  Inv'
  <2>1. ReplicasOK' /\ Kept'
    BY <1>6, ReplicasUnmoved DEF GiveUp, replicas
  <2> DEFINE d == [c EXCEPT !.lost = @ \cup {o}, !.to = IF Running(o) THEN @ ELSE @ \ {o}]
  <2>2. d \in Calls /\ d.by = c.by
    BY <1>0 DEF Calls
  <2>3. calls' \subseteq (calls \ {c}) \cup {d}
    BY <1>6 DEF GiveUp
  <2> HIDE DEF d
  <2>4. CallsOK' /\ Awaited'
    BY <1>6, <2>2, <2>3, Replaced DEF GiveUp, crawler, Waiting
  <2>5. CrawlerOK' /\ HasPage' /\ NothingDropped'
    BY <1>6 DEF GiveUp, crawler, store, CrawlerOK, StoreOK, HasPage, NothingDropped
  <2> QED
    BY <2>1, <2>4, <2>5
<1> QED
  BY <1>3, <1>4, <1>5, <1>6

LEMMA SinkKeeps ==
  ASSUME Inv, Sink
  PROVE  Inv'
<1> USE DEF Inv, TypeOK, InHand
<1>1. ReplicasOK' /\ Kept'
  <2>1. UNCHANGED replicas
    BY DEF Sink, SinkMovesOn, Fetch, SinkSettles, SinkDefers
  <2> QED
    BY <2>1, ReplicasUnmoved DEF replicas
<1>2. ASSUME NEW p \in Pages, Fetch(p)
      PROVE  Inv'
  <2>1. /\ ~Waiting("sink") /\ Waiting("sink")' /\ Send("sink", {p})
        /\ Waiting("publisher")' <=> Waiting("publisher")
    BY <1>2 DEF Fetch, Waiting, CrawlerOK, Sinks
  <2>2. CallsOK' /\ Awaited'
    BY <2>1, Sent DEF Clients
  <2>3. [tries |-> 0, leased |-> TRUE] \in Entries
    BY DEF Entries
  <2>4. sink' \in Sinks /\ sink'.pending = {p}
    <3>1. PICK saved \in BOOLEAN :
            sink' = [sink EXCEPT !.pc = "calling", !.pending = {p}, !.saved = saved]
      BY <1>2 DEF Fetch
    <3>2. sink \in Sinks
      BY DEF CrawlerOK
    <3> QED
      BY <3>1, <3>2 DEF Sinks
  <2>5. /\ crawled' = crawled /\ up' = up /\ pub' = pub
        /\ outbox' = [outbox EXCEPT ![p] = [tries |-> 0, leased |-> TRUE]]
    BY <1>2 DEF Fetch
  <2>6. CrawlerOK' /\ HasPage'
    BY <2>3, <2>4, <2>5 DEF CrawlerOK, StoreOK, HasPage
  <2>7. NothingDropped'
    BY <2>3, <2>4, <2>5, Constants DEF CrawlerOK, StoreOK, NothingDropped
  <2> QED
    BY <1>1, <2>2, <2>6, <2>7
<1>3. ASSUME NEW p \in Pages, SinkSettles(p)
      PROVE  Inv'
  <2>1. CallsOK' /\ Awaited'
    BY <1>3 DEF SinkSettles, CallsOK, Awaited, Waiting, CrawlerOK, Sinks
  <2>2. sink' \in Sinks /\ sink'.pending = sink.pending
    BY <1>3 DEF SinkSettles, CrawlerOK, Sinks
  <2>3. /\ up' = up /\ pub' = pub
        /\ \/ outbox' = outbox /\ crawled' = crawled \cup {p}
           \/ outbox' = [outbox EXCEPT ![p] = None] /\ crawled' = crawled /\ p \in crawled
    BY <1>3 DEF SinkSettles
  <2>4. CrawlerOK' /\ HasPage'
    BY <2>2, <2>3 DEF CrawlerOK, StoreOK, HasPage
  <2>5. NothingDropped'
    BY <2>2, <2>3 DEF CrawlerOK, StoreOK, NothingDropped
  <2> QED
    BY <1>1, <2>1, <2>4, <2>5
<1>4. ASSUME NEW p \in Pages, SinkDefers(p)
      PROVE  Inv'
  <2>1. CallsOK' /\ Awaited'
    BY <1>4 DEF SinkDefers, CallsOK, Awaited, Waiting, CrawlerOK, Sinks
  <2>2. sink' \in Sinks /\ sink'.pending = sink.pending
    <3>1. \/ sink' = [sink EXCEPT !.pc = "stopped", !.todo = {}]
          \/ sink' = [sink EXCEPT !.todo = @ \ {p}]
      BY <1>4 DEF SinkDefers
    <3>2. sink \in Sinks
      BY DEF CrawlerOK
    <3> QED
      BY <3>1, <3>2 DEF Sinks
  <2>3. /\ up' = up /\ pub' = pub /\ crawled' = crawled
        /\ outbox' = outbox \/ (outbox' = Deferred(p) /\ outbox[p] # None)
    BY <1>4 DEF SinkDefers
  <2>4. CrawlerOK' /\ HasPage'
    BY <2>2, <2>3, DeferredOK DEF CrawlerOK, StoreOK, HasPage
  <2>5. NothingDropped'
    BY <2>2, <2>3, DeferredOK DEF CrawlerOK, StoreOK, NothingDropped
  <2> QED
    BY <1>1, <2>1, <2>4, <2>5
<1>5. CASE SinkMovesOn
  <2>1. CASE sink' = NoJob /\ UNCHANGED calls
    <3>1. CallsOK' /\ Awaited'
      BY <1>5, <2>1 DEF SinkMovesOn, NoJob, CallsOK, Awaited, Waiting
    <3>2. CrawlerOK' /\ HasPage' /\ NothingDropped'
      BY <1>5, <2>1 DEF SinkMovesOn, NoJob, store, CrawlerOK, StoreOK, Sinks, HasPage, NothingDropped
    <3> QED
      BY <1>1, <3>1, <3>2
  <2>2. CASE sink' = [sink EXCEPT !.pc = "calling", !.final = TRUE] /\ Send("sink", sink.pending)
    <3>1. /\ ~Waiting("sink") /\ Waiting("sink")' /\ sink.pending \in SUBSET Pages
          /\ Waiting("publisher")' <=> Waiting("publisher")
      BY <1>5, <2>2 DEF SinkMovesOn, Waiting, CrawlerOK, Sinks
    <3>2. CallsOK' /\ Awaited'
      BY <2>2, <3>1, Sent DEF Clients
    <3>3. CrawlerOK' /\ HasPage' /\ NothingDropped'
      BY <1>5, <2>2 DEF SinkMovesOn, store, CrawlerOK, StoreOK, Sinks, HasPage, NothingDropped
    <3> QED
      BY <1>1, <3>2, <3>3
  <2> QED
    BY <1>5, <2>1, <2>2 DEF SinkMovesOn
<1> QED
  BY <1>2, <1>3, <1>4, <1>5 DEF Sink

LEMMA PublisherKeeps ==
  ASSUME Inv, Publisher
  PROVE  Inv'
<1> USE DEF Inv, TypeOK, InHand
<1>1. ReplicasOK' /\ Kept'
  <2>1. UNCHANGED replicas
    BY DEF Publisher, PublisherSettles, PublisherDefers, Publish
  <2> QED
    BY <2>1, ReplicasUnmoved DEF replicas
<1>2. CASE PublisherSettles
  <2>1. pub.page \in Pages
    BY <1>2 DEF PublisherSettles, HasPage
  <2>2. CallsOK' /\ Awaited'
    BY <1>2 DEF PublisherSettles, NoWork, CallsOK, Awaited, Waiting
  <2>3. sink' = sink /\ up' = up
        /\ \/ pub' = pub /\ outbox' = outbox /\ crawled' = crawled \cup {pub.page}
           \/ /\ pub' = NoWork /\ crawled' = crawled /\ pub.page \in crawled
              /\ outbox' = [outbox EXCEPT ![pub.page] = None]
    BY <1>2 DEF PublisherSettles
  <2>4. CrawlerOK' /\ HasPage'
    BY <2>1, <2>3, NoWorkOK DEF CrawlerOK, StoreOK, HasPage
  <2>5. NothingDropped'
    BY <2>1, <2>3, NoWorkOK DEF CrawlerOK, StoreOK, NothingDropped
  <2> QED
    BY <1>1, <2>2, <2>4, <2>5
<1>3. CASE PublisherDefers
  <2>1. pub.page \in Pages
    BY <1>3 DEF PublisherDefers, HasPage
  <2>2. CASE outbox[pub.page] = None
    <3>1. CrawlerEnds /\ UNCHANGED <<outbox, crawled>>
      BY <1>3, <2>2 DEF PublisherDefers
    <3> QED
      BY <1>1, <3>1, EndsKeeps
  <2>3. CASE outbox[pub.page] # None
    <3>1. CallsOK' /\ Awaited'
      BY <1>3, <2>3 DEF PublisherDefers, NoWork, CallsOK, Awaited, Waiting
    <3>2. /\ outbox' = Deferred(pub.page) /\ crawled' = crawled
          /\ pub' = NoWork /\ sink' = sink /\ up' = up
      BY <1>3, <2>3 DEF PublisherDefers
    <3>3. CrawlerOK' /\ HasPage'
      BY <2>1, <2>3, <3>2, NoWorkOK, DeferredOK DEF CrawlerOK, StoreOK, HasPage
    <3>4. NothingDropped'
      BY <2>1, <2>3, <3>2, NoWorkOK, DeferredOK DEF CrawlerOK, NothingDropped
    <3> QED
      BY <1>1, <3>1, <3>3, <3>4
  <2> QED
    BY <2>2, <2>3
<1>4. ASSUME NEW p \in Pages, Publish(p)
      PROVE  Inv'
  <2>1. /\ ~Waiting("publisher") /\ Waiting("publisher")' /\ Send("publisher", {p})
        /\ Waiting("sink")' <=> Waiting("sink")
    BY <1>4 DEF Publish, NoWork, Waiting
  <2>2. CallsOK' /\ Awaited'
    BY <2>1, Sent DEF Clients
  <2>3. CrawlerOK' /\ HasPage'
    BY <1>4 DEF Publish, store, CrawlerOK, StoreOK, Publishers, HasPage
  <2>4. NothingDropped'
    BY <1>4 DEF Publish, Listed, store, NothingDropped
  <2> QED
    BY <1>1, <2>2, <2>3, <2>4
<1> QED
  BY <1>2, <1>3, <1>4 DEF Publisher

LEMMA OthersKeep ==
  ASSUME Inv,
         \/ UNCHANGED vars
         \/ CrawlerStarts \/ CrawlerKilled \/ \E p \in Pages : LeaseEnds(p)
         \/ \E who \in Clients : TimesOut(who) \/ AnswerLate(who)
         \/ \E r \in Replicas : Gossip(r) \/ Kill(r) \/ Setup(r) \/ Manage(r)
  PROVE  Inv'
<1> USE DEF Inv, TypeOK, InHand
<1>1. ASSUME UNCHANGED <<calls, crawler>>, ReplicasOK', Kept'
      PROVE  Inv'
  BY <1>1 DEF crawler, store, CallsOK, CrawlerOK, StoreOK, Awaited, Waiting, HasPage, NothingDropped
<1>2. CASE UNCHANGED vars
  BY <1>1, <1>2, ReplicasUnmoved DEF vars, replicas
<1>3. ASSUME NEW r \in Replicas, Setup(r) \/ Manage(r)
      PROVE  Inv'
  <2>1. UNCHANGED <<calls, crawler>>
    BY <1>3 DEF Setup, Manage, Start, Look, SetupFails, Replay, Serve, Copy, CommitIndex, ClearWal
  <2> QED
    BY <1>1, <1>3, <2>1, SetupKeeps
<1>4. ASSUME NEW r \in Replicas, Gossip(r)
      PROVE  Inv'
  BY <1>1, <1>4, ReplicasUnmoved DEF Gossip
<1>5. ASSUME NEW r \in Replicas, Kill(r)
      PROVE  Inv'
  <2>1. CallsOK' /\ Awaited'
    BY <1>5, Fewer DEF Kill, crawler, Waiting
  <2>2. CrawlerOK' /\ HasPage' /\ NothingDropped'
    BY <1>5 DEF Kill, crawler, store, CrawlerOK, StoreOK, HasPage, NothingDropped
  <2> QED
    BY <1>5, <2>1, <2>2, KillKeeps
<1>6. ASSUME NEW who \in Clients, NoAnswer(who)
      PROVE  Inv'
  <2>1. ReplicasOK' /\ Kept'
    BY <1>6, ReplicasUnmoved DEF NoAnswer, replicas
  <2>2. /\ sink' \in Sinks /\ pub' \in Publishers /\ HasPage'
        /\ sink'.pending = sink.pending /\ pub'.page = pub.page
        /\ \A w \in Clients : w # who /\ Waiting(w) => Waiting(w)'
    BY <1>6, ToldOK DEF NoAnswer
  <2>3. \A x \in calls' : \/ x \in calls /\ x.by # who
                         \/ \E c \in calls : x = [c EXCEPT !.by = Gone]
    BY <1>6 DEF NoAnswer, CallsOf
  <2>4. \A x \in calls' : x.by # who
    BY <2>3, Constants DEF CallsOK, Calls
  <2>5. CallsOK' /\ Awaited'
    BY <2>2, <2>3, <2>4, Fewer
  <2>6. CrawlerOK' /\ NothingDropped'
    BY <1>6, <2>2 DEF NoAnswer, store, CrawlerOK, StoreOK, NothingDropped
  <2> QED
    BY <2>1, <2>2, <2>5, <2>6
<1>7. CASE CrawlerStarts
  <2>1. ReplicasOK' /\ Kept'
    BY <1>7, ReplicasUnmoved DEF CrawlerStarts, replicas
  <2>2. \A p \in Pages : outbox[p] # None => [outbox[p] EXCEPT !.leased = FALSE] \in Entries
    BY DEF CrawlerOK, StoreOK, Entries
  <2>3. StoreOK' /\ \A p \in Pages : outbox[p] # None => outbox'[p] # None
    BY <1>7, <2>2, Constants DEF CrawlerStarts, CrawlerOK, StoreOK
  <2>4. CrawlerOK' /\ HasPage' /\ NothingDropped'
    BY <1>7, <2>3 DEF CrawlerStarts, CrawlerOK, HasPage, NothingDropped
  <2>5. CallsOK' /\ Awaited'
    BY <1>7 DEF CrawlerStarts, CallsOK, Awaited, Waiting
  <2> QED
    BY <2>1, <2>4, <2>5
<1>8. CASE CrawlerKilled
  BY <1>8, EndsKeeps, ReplicasUnmoved DEF CrawlerKilled, replicas, store
<1>9. ASSUME NEW p \in Pages, LeaseEnds(p)
      PROVE  Inv'
  <2>1. ReplicasOK' /\ Kept'
    BY <1>9, ReplicasUnmoved DEF LeaseEnds, replicas
  <2>2. [outbox[p] EXCEPT !.leased = FALSE] \in Entries
    BY <1>9 DEF LeaseEnds, CrawlerOK, StoreOK, Entries
  <2>3. outbox' = [outbox EXCEPT ![p] = [outbox[p] EXCEPT !.leased = FALSE]]
    BY <1>9 DEF LeaseEnds
  <2>4. CrawlerOK' /\ HasPage' /\ NothingDropped'
    BY <1>9, <2>2, <2>3, Constants DEF LeaseEnds, CrawlerOK, StoreOK, HasPage, NothingDropped
  <2>5. CallsOK' /\ Awaited'
    BY <1>9 DEF LeaseEnds, CallsOK, Awaited, Waiting
  <2> QED
    BY <2>1, <2>4, <2>5
<1> QED
  BY <1>2, <1>3, <1>4, <1>5, <1>6, <1>7, <1>8, <1>9 DEF TimesOut, AnswerLate

------------------------------------------------------------------------------
LEMMA Inductive == Spec => []Inv
<1>1. Init => Inv
  BY Initially
<1>2. Inv /\ [Next]_vars => Inv'
  BY CallingKeeps, SinkKeeps, PublisherKeeps, OthersKeep DEF Next, Progress
<1> QED
  BY <1>1, <1>2, PTL DEF Spec

(* Each replica's process and disk, each call, the outbox and the clients  *)
(* of the live crawler keep their shape.                                   *)
THEOREM Typed == Spec => []TypeOK
<1>1. Inv => TypeOK
  BY DEF Inv
<1> QED
  BY <1>1, Inductive, PTL

(* What a replica has acknowledged, whenever it did, is on its disk unless *)
(* a copied file has replaced the file it was in: the set-up of a replica  *)
(* and InnerIndex's commit clear a log only of what is safe elsewhere, in  *)
(* any order of kills and calls.                                           *)
THEOREM OnDiskUntilReplaced == Spec => []StillOnDisk
<1>1. Inv => StillOnDisk
  BY KeptIsOnDisk DEF Inv
<1> QED
  BY <1>1, Inductive, PTL

(* A page that the sink or the publisher has in hand is in the outbox or   *)
(* crawled, whichever of the two settles it first.                         *)
THEOREM NoPageForgotten == Spec => []NothingDropped
<1>1. Inv => NothingDropped
  BY DEF Inv, InHand
<1> QED
  BY <1>1, Inductive, PTL

(* The sink and the publisher have one call each at most and wait for it:  *)
(* no answer of Client::index comes to a caller that has gone on.          *)
THEOREM OneCallEach == Spec => []Awaited
<1>1. Inv => Awaited
  BY DEF Inv, InHand
<1> QED
  BY <1>1, Inductive, PTL
==============================================================================
