------------------------------- MODULE Spool -------------------------------
(***************************************************************************)
(* The capture spool (crawler/spool.rs), the task that writes to it and    *)
(* the task that uploads its segments (crawler/warc_writer.rs).            *)
(*                                                                         *)
(* A segment is a data file, a journal of commits and a descriptor.  The   *)
(* disk is modelled with its cache: what was written is visible at once    *)
(* and survives the end of the process, but only what was synced survives  *)
(* a loss of power.  An operation is the sequence of effects it has on the *)
(* disk and then on memory, one step each; the lock around the spool is    *)
(* held from the first to the last.                                        *)
(***************************************************************************)
EXTENDS Naturals, FiniteSets, SequencesExt

CONSTANTS
  Segments,        \* identifiers of segments, fresh ones taken in order
  NoSegment,
  Captures,
  NoCapture,
  Cites,           \* Cites[c]: the capture that a "304 not modified" confirms
  Size,            \* Size[c]: bytes that the records of c take in a segment
  Bound,           \* Bound[c]: what they are reckoned at by the payload of c
  Upper,           \* Upper[c]: what they are reckoned at by its decoded body
  Slack,           \* bytes of the quota that are kept free
  SegmentBytes, SegmentRecords, MaxSpoolBytes, MaxSegments, CommitRecords,
  GivenUp,         \* kinds of references that consumers release
  PartBytes,       \* longest segment that is uploaded at once
  MaxFaults        \* ends of the process, errors of the disk, lost answers

ASSUME SpoolAssumptions ==
  /\ Segments \subseteq Nat /\ NoSegment \notin Segments
  /\ Captures \subseteq Nat /\ NoCapture \notin Captures
  /\ Cites \in [Captures -> Captures \cup {NoCapture}]
  /\ {Size, Bound, Upper} \subseteq [Captures -> Nat]
  /\ {Slack, SegmentBytes, SegmentRecords, MaxSpoolBytes, MaxSegments,
      CommitRecords, PartBytes, MaxFaults} \subseteq Nat
  /\ 4 * Slack <= SegmentBytes /\ 2 * SegmentBytes <= MaxSpoolBytes

VARIABLES
  disk,      \* disk[s]: the files of segment s
  mem,       \* mem[s]: the descriptor of s in memory
  active,    \* the segment that is open for writing
  op,        \* what holds the lock: [kind, todo, batch, rest, pins]
  health,    \* of the writing task: "ok", "poisoned" or "failed"
  up,        \* the process runs
  target,    \* segments are uploaded
  pub,       \* the upload in progress
  objects,   \* objects[s]: what the object store holds of s
  sent,      \* captures given to the writer
  acked,     \* <<c, s>>: c was reported as stored in s
  released,  \* <<s, key>>: references that were given up
  faults

vars == <<disk, mem, active, op, health, up, target, pub, objects, sent, acked,
          released, faults>>

Archived == "consumer:archive"
Catalog  == "revisit:resource-catalog-v1"
Confirmed == "304:resource-catalog-v1"
Keys == {Archived, Catalog, Confirmed}

(* A descriptor, or none.  records counts what was committed when it was   *)
(* last written; of an open segment only the journal counts.               *)
NoMeta == [state |-> "None", references |-> {}, upload |-> FALSE, records |-> 0]
NewMeta == [NoMeta EXCEPT !.state = "Open", !.references = {Archived}]
Absent == [data |-> <<>>, synced |-> 0, lines |-> <<>>, linesSynced |-> 0,
           entry |-> "none", meta |-> NoMeta, old |-> NoMeta]

Idle == [kind |-> "idle", todo |-> <<>>, batch |-> <<>>, rest |-> <<>>, pins |-> {}]
NoUpload == [segment |-> NoSegment, upload |-> FALSE, at |-> "idle"]

Init ==
  /\ disk = [s \in Segments |-> Absent]
  /\ mem = [s \in Segments |-> NoMeta]
  /\ active = NoSegment
  /\ op = Idle
  /\ health = "ok"
  /\ up = FALSE
  /\ target \in BOOLEAN
  /\ pub = NoUpload
  /\ objects = [s \in Segments |-> <<>>]
  /\ sent = {} /\ acked = {} /\ released = {} /\ faults = 0
-----------------------------------------------------------------------------
(* Effects: what one system call does to the disk.  The last sync of an    *)
(* operation updates memory too ("remember", "count").  A sync of a        *)
(* directory makes every earlier change of names durable, as journaling    *)
(* file systems do.                                                        *)

Effect(do, s, x) == [do |-> do, seg |-> s, arg |-> x]

Sync(d) == [s \in Segments |->
  IF d[s].entry = "gone" THEN [Absent EXCEPT !.meta = d[s].meta, !.old = d[s].meta]
  ELSE [d[s] EXCEPT !.entry = IF @ = "new" THEN "kept" ELSE @, !.old = d[s].meta]]

LastLine(f) == IF f.lines = <<>> THEN 0 ELSE Last(f.lines)

OnDisk(e) ==
  LET s == e.seg IN
  CASE e.do = "files"      -> [disk EXCEPT ![s].entry = "new"]
    [] e.do = "describe"   -> [disk EXCEPT ![s].meta = e.arg]
    [] e.do \in {"sync", "remember"} -> Sync(disk)
    [] e.do = "write"      -> [disk EXCEPT ![s].data = @ \o e.arg]
    [] e.do = "sync_data"  -> [disk EXCEPT ![s].synced = Len(disk[s].data)]
    [] e.do = "line"       -> [disk EXCEPT ![s].lines = Append(@, Len(disk[s].data))]
    [] e.do \in {"sync_lines", "count"} -> [disk EXCEPT ![s].linesSynced = Len(disk[s].lines)]
    [] e.do = "trim"       -> [disk EXCEPT ![s].data = SubSeq(@, 1, LastLine(disk[s])),
                                           ![s].synced = LastLine(disk[s]),
                                           ![s].linesSynced = Len(disk[s].lines)]
    [] e.do = "unlink"     -> [disk EXCEPT ![s].entry = IF @ = "none" THEN @ ELSE "gone"]
    [] OTHER               -> disk

InMemory(e) ==
  CASE e.do = "remember" -> [mem EXCEPT ![e.seg] = e.arg]
    [] e.do \in {"count", "count_only"} -> [mem EXCEPT ![e.seg].records = Len(disk[e.seg].data)]
    [] OTHER             -> mem

\* Wrong: a segment that was sealed stays open for writing.
OpenedForGood(e) ==
  IF e.do = "remember" /\ e.arg.state = "Open" THEN e.seg ELSE active

(* The open segment is the one whose descriptor says so. *)
Opened(e) ==
  IF e.do # "remember" THEN active
  ELSE IF e.arg.state = "Open" THEN e.seg
  ELSE IF e.seg = active THEN NoSegment ELSE active

(* atomic_json: a new file that replaces the old one by its name. *)
Store(s, m) == <<Effect("describe", s, m), Effect("sync", s, 0)>>
Save(s, m) == <<Effect("describe", s, m), Effect("remember", s, m)>>

CreateSegment(s) ==
  <<Effect("files", s, 0), Effect("sync", s, 0)>> \o Save(s, NewMeta)

\* Wrong: the journal is left to the cache.
CommitUnsynced(s, cs) ==
  <<Effect("write", s, cs), Effect("sync_data", s, 0), Effect("line", s, 0),
    Effect("count_only", s, 0)>>
Commit(s, cs) ==
  <<Effect("write", s, cs), Effect("sync_data", s, 0), Effect("line", s, 0),
    Effect("count", s, 0)>>

SealedState == IF target THEN "Pending" ELSE "Local"
Seal(s) == Save(s, [mem[s] EXCEPT !.state = SealedState])

\* Wrong: the descriptor goes first.
DeleteFilesLast(s) ==
  Save(s, NoMeta) \o <<Effect("unlink", s, 0), Effect("sync", s, 0)>>

DeleteFiles(s) ==
  <<Effect("unlink", s, 0), Effect("sync", s, 0)>> \o Save(s, NoMeta)

Collect(s) ==
  LET gone == [mem[s] EXCEPT !.state = "Deleting"] IN Save(s, gone) \o DeleteFiles(s)

Reference(s, key) ==
  IF key \in mem[s].references THEN <<>>
  ELSE Save(s, [mem[s] EXCEPT !.references = @ \cup {key}])
-----------------------------------------------------------------------------
(* What Spool::open finds, and what it does about each segment. *)

Visible(s) == disk[s].entry \in {"new", "kept"}
Described == {s \in Segments : disk[s].meta.state # "None"}

Readable(s) ==
  LET f == disk[s] IN
  CASE f.meta.state = "None" -> Visible(s) => f.data = <<>> /\ f.lines = <<>>
    [] f.meta.state = "Deleting" -> f.meta.references = {}
    [] f.meta.state = "Open" -> Visible(s) /\ LastLine(f) <= Len(f.data)
    [] OTHER -> Visible(s) /\ Len(f.data) = f.meta.records

CanOpen == Cardinality(Described) <= MaxSegments /\ \A s \in Segments : Readable(s)

\* Wrong: the descriptor is written anew.
SealedAs(m, n) == [NewMeta EXCEPT !.state = SealedState, !.records = n]
Recovered(m, n) == [m EXCEPT !.state = SealedState, !.records = n]

Recover(s) ==
  LET f == disk[s]
      n == LastLine(f)
      gone == [f.meta EXCEPT !.state = "Deleting", !.references = {}] IN
  CASE f.meta.state = "None" -> IF Visible(s) THEN <<Effect("unlink", s, 0)>> ELSE <<>>
    [] f.meta.state = "Deleting" -> DeleteFiles(s)
    [] f.meta.state = "Open" ->
         <<Effect("trim", s, 0)>> \o
         IF n = 0 THEN Store(s, gone) \o DeleteFiles(s)
         ELSE Save(s, Recovered(f.meta, n))
    [] OTHER -> <<>>
-----------------------------------------------------------------------------
Free == up /\ op.kind = "idle"
Busy(kind) == op.kind = kind /\ op.todo = <<>>

(* The effects of an operation, one after the other. *)
Step ==
  /\ op.todo # <<>>
  /\ LET e == Head(op.todo) IN
       /\ disk' = OnDisk(e)
       /\ mem' = InMemory(e)
       /\ active' = Opened(e)
       /\ op' = [op EXCEPT !.todo = Tail(@)]
  /\ UNCHANGED <<health, up, target, pub, objects, sent, acked, released, faults>>

(* One fault more while the spool is recovered from the last one. *)
MayFail == faults < MaxFaults + IF op.kind = "open" THEN 1 ELSE 0

(* Memory is lost, and with it the upload in progress. *)
Down ==
  /\ up' = FALSE
  /\ mem' = [s \in Segments |-> NoMeta]
  /\ active' = NoSegment
  /\ op' = Idle
  /\ health' = "ok"
  /\ pub' = NoUpload
  /\ UNCHANGED <<target, objects, sent, acked, released>>

Killed == up /\ MayFail /\ Down /\ faults' = faults + 1 /\ UNCHANGED disk

(* What may be left of the files f of a segment of which the cache is lost: *)
(* their names, a descriptor, and a part of the data and of the journal.    *)
Entries(f) == IF f.entry \in {"new", "gone"} THEN {"none", "kept"} ELSE {f.entry}
Left(f, e, m, d, l) ==
  IF e = "none" THEN [Absent EXCEPT !.meta = m, !.old = m]
  ELSE [f EXCEPT !.entry = e, !.meta = m, !.old = m,
                 !.data = SubSeq(@, 1, d), !.synced = d,
                 !.lines = SubSeq(@, 1, l), !.linesSynced = l]
Remains(f) == {Left(f, e, m, d, l) : e \in Entries(f), m \in {f.meta, f.old},
                d \in f.synced..Len(f.data), l \in f.linesSynced..Len(f.lines)}

PowerLost ==
  /\ MayFail
  /\ \E left \in [Segments -> UNION {Remains(disk[s]) : s \in Segments}] :
       /\ \A s \in Segments : left[s] \in Remains(disk[s])
       /\ disk' = left
  /\ Down
  /\ faults' = faults + 1

Open ==
  /\ ~up /\ CanOpen
  /\ up' = TRUE
  /\ mem' = [s \in Segments |-> disk[s].meta]
  /\ op' = [Idle EXCEPT !.kind = "open", !.todo = <<Effect("sync", NoSegment, 0)>>]
  /\ UNCHANGED <<disk, active, health, target, pub, objects, sent, acked, released, faults>>

(* The segments with a descriptor are recovered in the order of their       *)
(* random names, which may be any; then those without are removed.         *)
Damaged == {s \in Segments : Recover(s) # <<>>}

RecoverNext ==
  /\ Busy("open")
  /\ \E s \in Damaged :
       /\ s \notin Described => Damaged \cap Described = {}
       /\ op' = [op EXCEPT !.todo = Recover(s)]
  /\ UNCHANGED <<disk, mem, active, health, up, target, pub, objects, sent, acked,
                 released, faults>>

Opens ==
  /\ Busy("open") /\ Damaged = {}
  /\ op' = Idle
  /\ UNCHANGED <<disk, mem, active, health, up, target, pub, objects, sent, acked,
                 released, faults>>
-----------------------------------------------------------------------------
(* The writing task. *)

PlaceOf(c) == {s \in Segments : <<c, s>> \in acked}
CitedBy(C) == UNION {PlaceOf(Cites[c]) : c \in {d \in C : Cites[d] # NoCapture}}

(* A batch of captures that were sent one after the other. *)
Submit(batch) ==
  /\ Free /\ health # "failed"
  /\ op' = [Idle EXCEPT !.kind = "cite", !.batch = batch, !.rest = batch,
                        !.pins = CitedBy(ToSet(batch))]
  /\ sent' = sent \cup ToSet(batch)
  /\ UNCHANGED <<disk, mem, active, health, up, target, pub, objects, acked, released, faults>>

(* Answers every capture of the batch with the error. *)
Refuse(h) ==
  /\ op' = Idle
  /\ health' = h
  /\ UNCHANGED <<disk, mem, active, up, target, pub, objects, sent, acked, released, faults>>

Continue(new) ==
  /\ op' = new
  /\ UNCHANGED <<disk, mem, active, health, up, target, pub, objects, sent, acked,
                 released, faults>>

Then(kind) == [op EXCEPT !.kind = kind, !.todo = <<>>]

(* Pins the segments that the batch cites, before anything is appended. *)
Cite ==
  /\ Busy("cite")
  /\ IF op.pins = {} THEN Continue(Then("append"))
     ELSE LET s == CHOOSE p \in op.pins : TRUE IN
          IF mem[s].state \in {"None", "Deleting"} THEN Refuse("failed")
          ELSE Continue([op EXCEPT !.todo = Reference(s, Confirmed), !.pins = @ \ {s}])

(* The bytes of data files; journals and descriptors, which the code counts *)
(* against the quota as well, are not modelled.                            *)
Bytes(cs) == FoldSeq(LAMBDA c, n : n + Size[c], 0, cs)
Reckoned(cs) == FoldSeq(LAMBDA c, n : n + Upper[c], 0, cs)
ActiveBytes == Bytes(disk[active].data)
\* Wrong: the segments that were sealed are left out.
OpenBytes == IF active = NoSegment THEN 0 ELSE ActiveBytes

SpoolBytes ==
  FoldSet(LAMBDA s, n : n + IF Visible(s) THEN Bytes(disk[s].data) ELSE 0, 0, Segments)

Known == {s \in Segments : mem[s].state # "None"}

(* The segment has no room for the capture, has its number of captures, or *)
(* is due for rotation.                                                    *)
Rotates(c, due) ==
  /\ active # NoSegment
  /\ mem[active].records > 0
  /\ \/ ActiveBytes + Bound[c] > SegmentBytes
     \/ mem[active].records >= SegmentRecords
     \/ due

QuotaFull(c) ==
  \/ SpoolBytes + Bound[c] + Slack > MaxSpoolBytes
  \/ active = NoSegment /\ Cardinality(Known) >= MaxSegments

(* Whether the first n captures left fit the open segment and the spool,   *)
(* each reckoned by its decoded body.                                      *)
Fits(n) ==
  /\ mem[active].records + n <= SegmentRecords
  /\ LET upper == Reckoned(SubSeq(op.rest, 1, n)) IN
       /\ ActiveBytes + upper <= SegmentBytes
       /\ SpoolBytes + upper + Slack <= MaxSpoolBytes
GroupSize == Max({n \in 0..Len(op.rest) : n = 0 \/ Fits(n)})

Fresh(s) == disk[s] = Absent /\ objects[s] = <<>>

(* The next commit group, or what must come before it. *)
NextGroup ==
  /\ Busy("append") /\ op.rest # <<>>
  /\ LET c == Head(op.rest) IN \E due \in BOOLEAN :
       IF health = "poisoned" \/ Bound[c] > SegmentBytes THEN Refuse("failed")
       ELSE IF Rotates(c, due) THEN Continue([op EXCEPT !.todo = Seal(active)])
       ELSE IF QuotaFull(c) THEN Refuse("failed")
       ELSE IF active = NoSegment
       THEN \E s \in Segments :
              /\ Fresh(s)
              /\ \A r \in Segments : Fresh(r) => s <= r
              /\ Continue([op EXCEPT !.todo = CreateSegment(s)])
       ELSE IF GroupSize = 0 THEN Refuse("failed")
       ELSE Continue([op EXCEPT !.todo = Commit(active, SubSeq(op.rest, 1, GroupSize)),
                                !.rest = SubSeq(@, GroupSize + 1, Len(@))])

HolderOf(c) == CHOOSE s \in Segments : c \in ToSet(disk[s].data)

Appended ==
  /\ Busy("append") /\ op.rest = <<>>
  /\ Continue([Then("pin") EXCEPT
       !.pins = {HolderOf(c) : c \in {d \in ToSet(op.batch) : Cites[d] = NoCapture}}])

(* The catalog keeps what later captures may cite. *)
Pin ==
  /\ Busy("pin") /\ op.pins # {}
  /\ LET s == CHOOSE p \in op.pins : TRUE IN
       Continue([op EXCEPT !.todo = Reference(s, Catalog), !.pins = @ \ {s}])

(* The commit hook, the frontier's commit_capture, and the answers.  An    *)
(* error of the hook is that capture's alone, and stops the writer.        *)
Reply(failing) ==
  /\ Busy("pin") /\ op.pins = {}
  /\ failing = {} \/ MayFail
  /\ acked' = acked \cup {<<c, HolderOf(c)>> : c \in ToSet(op.batch) \ failing}
  /\ health' = IF failing = {} THEN health ELSE "failed"
  /\ faults' = IF failing = {} THEN faults ELSE faults + 1
  /\ op' = Idle
  /\ UNCHANGED <<disk, mem, active, up, target, pub, objects, sent, released>>

(* Once a second: a segment that is due is sealed, then segments that      *)
(* nobody needs are deleted, if they are old enough.                       *)
Tick ==
  /\ Free /\ health # "failed" /\ active # NoSegment
  /\ IF health = "poisoned" THEN Refuse("failed")
     ELSE Continue([Idle EXCEPT !.kind = "tick", !.todo = Seal(active)])

(* The object store has the segment, of the right length and checksum. *)
Stored(s) == objects[s] # <<>> /\ objects[s] = disk[s].data

Collectable(s) ==
  mem[s].state = "Published" /\ mem[s].references = {} /\ ~mem[s].upload

Gc(s) ==
  /\ \/ Busy("tick")
     \/ Free /\ health # "failed"
  /\ Collectable(s)
  /\ Continue([Idle EXCEPT !.kind = "tick", !.todo = Collect(s)])

(* The end of an operation that answers nobody. *)
Ends ==
  /\ \E k \in {"tick", "publish", "remember", "release"} : Busy(k)
  /\ Continue(Idle)

(* A consumer gives up its reference to a segment; here, one that reads     *)
(* the object store.                                                       *)
Release(s, key) ==
  /\ Free /\ Stored(s)
  /\ mem[s].state \notin {"None", "Deleting"} /\ key \in mem[s].references
  /\ op' = [Idle EXCEPT !.kind = "release",
                        !.todo = Save(s, [mem[s] EXCEPT !.references = @ \ {key}])]
  /\ released' = released \cup {<<s, key>>}
  /\ UNCHANGED <<disk, mem, active, health, up, target, pub, objects, sent, acked, faults>>

(* The crawl ends, which it does when the writer stops admission: the open *)
(* segment is sealed unless the writer has failed, and the upload is left  *)
(* where it is.                                                            *)
Finish ==
  /\ Free
  /\ \/ health # "ok" /\ faults' = faults
     \/ health = "ok" /\ MayFail /\ faults' = faults + 1
  /\ op' = [Idle EXCEPT !.kind = "finish",
                 !.todo = IF health = "ok" /\ active # NoSegment THEN Seal(active) ELSE <<>>]
  /\ UNCHANGED <<disk, mem, active, health, up, target, pub, objects, sent, acked, released>>

Finished == Busy("finish") /\ Down /\ UNCHANGED <<disk, faults>>

(* An error of the disk ends the operation.  It stops the writer, at once  *)
(* or, for the uploader, at its next batch.                                *)
DiskFails ==
  /\ op.todo # <<>> /\ MayFail /\ op.kind # "release"
  /\ faults' = faults + 1
  /\ IF op.kind \in {"open", "finish"} THEN Down /\ UNCHANGED disk
     ELSE /\ op' = Idle
          /\ health' = IF op.kind \in {"publish", "remember"} /\ health = "ok"
                       THEN "poisoned" ELSE "failed"
          /\ pub' = IF op.kind \in {"publish", "remember"} THEN NoUpload ELSE pub
          /\ UNCHANGED <<disk, mem, active, up, target, objects, sent, acked, released>>
-----------------------------------------------------------------------------
(* The uploading task: one attempt, for a segment as it was when chosen. *)

Uploading(at) == up /\ pub.at = at

Attempt(new) ==
  /\ pub' = new
  /\ UNCHANGED <<disk, mem, active, op, health, up, target, objects, sent, acked,
                 released, faults>>

At(at) == [pub EXCEPT !.at = at]

Choose(s) ==
  /\ Free /\ Uploading("idle")
  /\ mem[s].state = "Pending"
  /\ Attempt([segment |-> s, upload |-> mem[s].upload, at |-> "head"])

(* Is it there already?  An answer that is lost is taken for a no. *)
Look ==
  /\ Uploading("head")
  /\ Attempt(At(IF Stored(pub.segment) THEN "confirm"
                ELSE IF pub.upload THEN "abort" ELSE "send"))

LookLost ==
  /\ Uploading("head") /\ Stored(pub.segment) /\ MayFail
  /\ pub' = At(IF pub.upload THEN "abort" ELSE "send")
  /\ faults' = faults + 1
  /\ UNCHANGED <<disk, mem, active, op, health, up, target, objects, sent, acked, released>>

(* Ends the upload that an earlier attempt left open. *)
AbortUpload == Uploading("abort") /\ Attempt(At("send"))

Short(s) == Bytes(disk[s].data) <= PartBytes

\* Wrong: a segment of just that length is sent neither at once nor in parts.
PutBelow ==
  /\ \/ Uploading("send") /\ Bytes(disk[pub.segment].data) < PartBytes
     \/ Uploading("parts") /\ op.kind # "remember"
  /\ objects' = [objects EXCEPT ![pub.segment] = disk[pub.segment].data]
  /\ pub' = At("confirm")
  /\ UNCHANGED <<disk, mem, active, op, health, up, target, sent, acked, released, faults>>

(* The transfer of the segment, at once or in parts. *)
Put ==
  /\ \/ Uploading("send") /\ Short(pub.segment)
     \/ Uploading("parts") /\ op.kind # "remember"
  /\ objects' = [objects EXCEPT ![pub.segment] = disk[pub.segment].data]
  /\ pub' = At("confirm")
  /\ UNCHANGED <<disk, mem, active, op, health, up, target, sent, acked, released, faults>>

Initiate ==
  /\ Uploading("send") /\ ~Short(pub.segment)
  /\ Attempt(At("initiated"))

RememberUpload ==
  /\ Free /\ Uploading("initiated")
  /\ op' = [Idle EXCEPT !.kind = "remember",
              !.todo = Save(pub.segment, [mem[pub.segment] EXCEPT !.upload = TRUE])]
  /\ pub' = At("parts")
  /\ UNCHANGED <<disk, mem, active, health, up, target, objects, sent, acked, released, faults>>

(* The object store confirms length and checksum. *)
Published ==
  /\ Free /\ Uploading("confirm") /\ Stored(pub.segment)
  /\ op' = [Idle EXCEPT !.kind = "publish",
              !.todo = Save(pub.segment, [mem[pub.segment] EXCEPT !.state = "Published",
                                                                 !.upload = FALSE])]
  /\ pub' = NoUpload
  /\ UNCHANGED <<disk, mem, active, health, up, target, objects, sent, acked, released, faults>>

(* An error, a lost answer or the timeout of the whole attempt; a transfer *)
(* may have been complete.  The next attempt starts afresh.                *)
AttemptFails ==
  /\ up /\ pub.at # "idle" /\ MayFail
  /\ \/ UNCHANGED objects
     \/ /\ pub.at \in {"send", "parts"}
        /\ objects' = [objects EXCEPT ![pub.segment] = disk[pub.segment].data]
  /\ pub' = NoUpload
  /\ faults' = faults + 1
  /\ UNCHANGED <<disk, mem, active, op, health, up, target, sent, acked, released>>
-----------------------------------------------------------------------------
Ready(c) == c \notin sent /\ (Cites[c] = NoCapture \/ PlaceOf(Cites[c]) # {})

(* Captures are interchangeable but for their sizes and citations, so that *)
(* a batch holds them in increasing order.                                 *)
Batches == {b \in UNION {[1..n -> Captures] : n \in 1..CommitRecords} :
              /\ \A i \in DOMAIN b : Ready(b[i])
              /\ \A i, j \in DOMAIN b : i < j => b[i] < b[j]}

(* What goes on with the operation that holds the lock. *)
Proceed == \/ Step \/ RecoverNext \/ Opens \/ Cite \/ NextGroup \/ Appended \/ Pin \/ Reply({})
           \/ Ends \/ Finished

Upload ==
  \/ \E s \in Segments : Choose(s)
  \/ Look \/ AbortUpload \/ Put \/ Initiate \/ RememberUpload \/ Published

Next ==
  \/ Open \/ Proceed \/ Upload
  \/ \E b \in Batches : Submit(b)
  \/ \E C \in SUBSET ToSet(op.batch) : Reply(C)
  \/ Tick \/ Finish
  \/ \E s \in Segments : Gc(s)
  \/ \E s \in Segments, key \in GivenUp : Release(s, key)
  \/ LookLost \/ AttemptFails \/ DiskFails
  \/ Killed \/ PowerLost

(* The process is started again, and ends once admission is stopped; system *)
(* calls return; requests to the object store are made and answered.        *)
Spec ==
  /\ Init /\ [][Next]_vars
  /\ WF_vars(Open) /\ WF_vars(Proceed) /\ WF_vars(Upload)
  /\ WF_vars(health # "ok" /\ Finish)
-----------------------------------------------------------------------------
TypeOK ==
  /\ \A s \in Segments : disk[s].meta.state \in
       {"None", "Open", "Local", "Pending", "Published", "Deleting"}
  /\ \A s \in Segments : disk[s].synced <= Len(disk[s].data)
  /\ active # NoSegment => mem[active].state = "Open"
  /\ health \in {"ok", "poisoned", "failed"}
  /\ pub.segment \in Segments \cup {NoSegment}
  /\ \A s \in Segments : ToSet(objects[s]) \subseteq sent
  /\ sent \subseteq Captures
  /\ acked \subseteq Captures \X Segments

(* Whenever the process ends, the next one can open the spool: no length,  *)
(* checksum, missing file or orphan makes Spool::open refuse it, whichever *)
(* effects the disk has kept.                                              *)
OpensAgain == ~up => CanOpen

(* A segment stays pinned for the captures that later ones may cite or     *)
(* have cited, also on the disk, until the reference is released.          *)
Pinned(s, key) == <<s, key>> \in released \/ key \in disk[s].old.references
PinnedUntilReleased ==
  \A r \in acked :
    IF Cites[r[1]] = NoCapture THEN Pinned(r[2], Catalog)
    ELSE \A s \in PlaceOf(Cites[r[1]]) : Pinned(s, Confirmed)

(* Whenever what is on the disk grows, it stays within the quota less its  *)
(* slack, but for what the captures just written are longer than they were *)
(* reckoned at: that one group may overrun the quota, and the next one is  *)
(* not written before there is room for it.  Files that a loss of power    *)
(* would bring back are counted.                                           *)
DataBytes == FoldSet(LAMBDA s, n : n + Bytes(disk[s].data), 0, Segments)
Surplus == [c \in Captures |-> IF Size[c] > Upper[c] THEN Size[c] - Upper[c] ELSE 0]
Excess(cs) == FoldSeq(LAMBDA c, n : n + Surplus[c], 0, cs)
Written(s) == SubSeq(disk'[s].data, Len(disk[s].data) + 1, Len(disk'[s].data))

WithinQuota ==
  [][DataBytes' > DataBytes =>
       \E s \in Segments : DataBytes' + Slack <= MaxSpoolBytes + Excess(Written(s))]_vars

(* What a loss of power cannot take: the captures in the synced part of a  *)
(* journal whose descriptor is not that of a deleted segment.              *)
Durable(s) ==
  LET f == disk[s] IN
  IF f.entry # "kept" \/ {f.meta.state, f.old.state} \cap {"None", "Deleting"} # {}
     \/ f.linesSynced = 0 THEN {}
  ELSE ToSet(SubSeq(f.data, 1, f.lines[f.linesSynced]))

Promise == INSTANCE CaptureArchive WITH
  kept <- UNION {Durable(s) : s \in Segments},
  acked <- {r[1] : r \in acked},
  archived <- UNION {ToSet(objects[s]) : s \in Segments}

ArchiveKept == Promise!Spec

(* A group always takes one capture at least: the check that decides on    *)
(* rotation and the one that fills the group agree.                        *)
GroupFits ==
  Busy("append") /\ op.rest # <<>> /\ health = "ok" /\ active # NoSegment =>
    LET c == Head(op.rest) IN Rotates(c, FALSE) \/ QuotaFull(c) \/ GroupSize > 0

(* A sealed segment reaches the object store unless faults go on.          *)
PendingArchived ==
  \A s \in Segments : disk[s].meta.state = "Pending" ~> objects[s] # <<>>
=============================================================================
