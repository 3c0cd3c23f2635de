---------------------------- MODULE LeasedWorkers ----------------------------
(***************************************************************************)
(* Worker processes of the leased crawler (crawler/leased.rs), with their  *)
(* durable outbox of captures (crawler/replication_outbox.rs), calling the *)
(* central frontier over a network that delays, repeats and loses calls.   *)
(*                                                                         *)
(* A call has a command id.  The client sends the same bytes up to three   *)
(* times and then gives up; what it sent may still reach the frontier      *)
(* later.  The frontier answers a command once and repeats that answer.    *)
(***************************************************************************)
EXTENDS CentralFrontier

CONSTANTS
  Draft,       \* Draft[w]: the capture that a fetch by w produces
  Margin,      \* safety margin of Authority::update
  HttpMax,     \* longest HTTP request, bounded by the worker's configuration
  RenewEvery,  \* pause between renewals, a third of the lease
  PendingMax,  \* MAX_ENTRIES of the replication outbox
  Grants,      \* tokens and instants that the abstract lease ranges over: all of
  Instants,    \* them in the proofs, for TLC bounded to those that occur
  MaxFaults,   \* bound: crashes, lost transactions, abandoned calls, shutdowns
  RenewalCost, \* bound: what a renewal takes of MaxFaults
  GiveUps,     \* bound: nacks that end a job without a page
  NoCommand

NoReply == "none"
Answers == {NoReply} \cup Refusals \cup TakesSlotLock \cup {"origin_not_eligible"}
Argument ==
  {NoUrl, NoCapture, Permanent, TurnOnly, Retry}
    \cup Origins \cup Urls \cup Payloads \cup RobotsAnswers
Message  == [req : [action : Actions \cup {"claim"}, command : Commands, url : Urls \cup {NoUrl},
                    token : Tokens, arg : Argument],
             started : Nat, reply : Answers]

ASSUME WorkerAssumptions ==
  /\ Draft \in [Workers -> Payloads]
  /\ {Margin, HttpMax, RenewEvery, PendingMax, MaxFaults, RenewalCost} \subseteq Nat
  /\ HttpMax < Cooldown       \* the 10 s and 11 s of the configuration check
  /\ NoCommand \notin Commands /\ NoTx \notin Message
  /\ {"authorize", "commit", "nack"} \subseteq Calls /\ {TurnOnly, Retry} \subseteq Nacks
  /\ GiveUps \subseteq Nacks \ {TurnOnly}

VARIABLES
  worker,   \* the process: volatile
  pending,  \* pending[w]: URLs with a staged capture, with the capture; durable
  faults,   \* how many faults have happened
  calls     \* calls[c]: [req, started, reply], or NoTx when the id is unused

workerVars == <<worker, pending, calls, faults>>
allVars == <<vars, workerVars>>

Steps == {"down", "reconcile", "idle", "claim", "job", "authorize", "http", "call",
          "page", "commit", "nack"}

Down == [pc |-> "down", url |-> NoUrl, token |-> NoToken, target |-> NoOrigin,
         dest |-> NoOrigin, until |-> 0, ends |-> 0, cancelled |-> FALSE,
         draining |-> FALSE, resumed |-> FALSE, renewing |-> FALSE, renewAt |-> 0,
         main |-> NoCommand, renew |-> NoCommand, todo |-> {}]

WInit ==
  /\ Init
  /\ worker = [w \in Workers |-> Down]
  /\ pending = [w \in Workers |-> [u \in Urls |-> NoCapture]]
  /\ calls = [c \in Commands |-> NoTx]
  /\ faults = 0

Fault == faults < MaxFaults /\ faults' = faults + 1

-----------------------------------------------------------------------------
(* Rpc::call *)

Unused(w) == {c \in Commands : Sender[c] = w /\ calls[c] = NoTx}
Free(w) == IF Unused(w) = {} THEN {} ELSE {CHOOSE c \in Unused(w) : TRUE}

(* claim and renew note when they start: their leases count from there. *)
Timed == {"claim", "renew"}
Sent(c, r) ==
  [calls EXCEPT ![c] = [req |-> r, reply |-> NoReply,
                        started |-> IF r.action \in Timed THEN now ELSE 0]]
Sending(c, w, action, arg) ==
  Sent(c, [action |-> action, command |-> c, url |-> worker[w].url,
           token |-> worker[w].token, arg |-> arg])

Replied(c) == c # NoCommand /\ calls[c].reply # NoReply
Reply(w) == calls[worker[w].main].reply
Done(c) == [calls EXCEPT ![c] = NoTx]

Step(w, pc) == worker[w].pc = pc
Turn(w, row) == worker' = [worker EXCEPT ![w] = row]

(* Start a call from a step of the process and wait in the next one. *)
StartCall(w, action, arg, pc) ==
  \E c \in Free(w) :
    /\ calls' = Sending(c, w, action, arg)
    /\ Turn(w, [worker[w] EXCEPT !.pc = pc, !.main = c])

Unchanged == UNCHANGED <<vars, pending, faults>>

(* Any error of the run loop ends the process.  What it had sent stays on  *)
(* the way; its staged captures are on disk.                               *)
Crash(w) ==
  /\ Fault
  /\ ~Step(w, "down")
  /\ Turn(w, Down)
  /\ UNCHANGED <<vars, pending, calls>>

-----------------------------------------------------------------------------
(* The frontier's side of a call *)

Known(c) == calls[c] # NoTx /\ calls[c].reply = NoReply
Executing(c) == pick[c] # NoUrl \/ \E u \in Urls : tx[u] # NoTx /\ tx[u].req.command = c
Waiting(c) == Known(c) /\ ~Executing(c)
Claiming(c) == Known(c) /\ calls[c].req.action = "claim"
Answered(c, verdict) == [calls EXCEPT ![c].reply = verdict]

ServePick(c) ==
  /\ Claiming(c) /\ ~Executing(c)
  /\ ClaimPick(c)
  /\ UNCHANGED workerVars

(* No lease: the worker asks again, which starts a new call. *)
AskAgain(c) ==
  calls' = IF worker[Sender[c]].main = c THEN [calls EXCEPT ![c].started = now] ELSE Done(c)

ServeNone(c) ==
  /\ Claiming(c) /\ ~Executing(c)
  /\ \A u \in Urls : ~Candidate(NodeOf[Sender[c]], u)
  /\ AskAgain(c)
  /\ UNCHANGED <<vars, worker, pending, faults>>

ServeEmpty(c) ==
  /\ ClaimEmpty(c)
  /\ AskAgain(c)
  /\ UNCHANGED <<worker, pending, faults>>

(* The reply of a claim carries the lease: the request of its transaction. *)
ServeClaim(c) ==
  /\ ClaimBegin(c)
  /\ calls' = [calls EXCEPT ![c].req = tx'[pick[c]].req]
  /\ UNCHANGED <<worker, pending, faults>>

Serve(c) ==
  /\ Waiting(c) /\ calls[c].req.action # "claim"
  /\ Begin(calls[c].req)
  /\ UNCHANGED workerVars

ServeRefusal(c) ==
  /\ Waiting(c) /\ calls[c].req.action # "claim"
  /\ Refused(calls[c].req)
  /\ calls' = Answered(c, Verdict(calls[c].req))
  /\ UNCHANGED <<vars, worker, pending, faults>>

ServeFinish(u) ==
  /\ Finish(u)
  /\ calls' = Answered(tx[u].req.command, tx[u].verdict)
  /\ UNCHANGED <<worker, pending, faults>>

(* The transaction is lost: the client's next send executes it again. *)
ServeAbort(u) ==
  /\ Fault
  /\ Abort(u)
  /\ UNCHANGED <<worker, pending, calls>>

(* A command nobody waits for any more is answered in vain or never        *)
(* arrives.                                                                *)
Forget(c) ==
  /\ calls[c] # NoTx
  /\ ~Executing(c)
  /\ worker[Sender[c]].main # c /\ worker[Sender[c]].renew # c
  /\ calls' = Done(c)
  /\ UNCHANGED <<vars, worker, pending, faults>>

-----------------------------------------------------------------------------
(* Start-up: captures left by an earlier process are offered again with a  *)
(* nil token, so that only a capture the frontier already has is matched.  *)

Staged(w) == {u \in Urls : pending[w][u] # NoCapture}

Start(w) ==
  /\ Step(w, "down")
  /\ Turn(w, [Down EXCEPT !.pc = IF Staged(w) = {} THEN "idle" ELSE "reconcile",
                          !.todo = Staged(w)])
  /\ UNCHANGED <<vars, pending, calls, faults>>

Offer(w) ==
  /\ Step(w, "reconcile") /\ worker[w].main = NoCommand
  /\ \E u \in worker[w].todo, c \in Free(w) :
       /\ calls' = Sent(c, [action |-> "commit", command |-> c, url |-> u,
                            token |-> NoToken, arg |-> pending[w][u]])
       /\ Turn(w, [worker[w] EXCEPT !.main = c])
  /\ Unchanged

(* What the process accepts as an answer to an offer; any other answer     *)
(* ends it.                                                                *)
Reconciles(verdict) == verdict \in {"duplicate", "lease_fenced"}

\* Wrong: a capture whose lease is gone is dropped like a stored one.
OfferAnsweredDropping(w) ==
  LET c == worker[w].main  u == calls[c].req.url IN
  /\ Step(w, "reconcile") /\ Replied(c)
  /\ Turn(w, [worker[w] EXCEPT !.main = NoCommand, !.todo = @ \ {u},
                               !.pc = IF worker[w].todo = {u} THEN "idle" ELSE @])
  /\ pending' = [pending EXCEPT ![w][u] = NoCapture]
  /\ calls' = Done(c)
  /\ UNCHANGED <<vars, faults>>

OfferAnswered(w) ==
  LET c == worker[w].main IN
  /\ Step(w, "reconcile") /\ Replied(c)
  /\ LET u == calls[c].req.url IN
     IF Reconciles(Reply(w))
     THEN /\ Turn(w, [worker[w] EXCEPT !.main = NoCommand, !.todo = @ \ {u},
                                       !.pc = IF worker[w].todo = {u} THEN "idle" ELSE @])
          /\ pending' = IF Reply(w) = "duplicate"
                        THEN [pending EXCEPT ![w][u] = NoCapture] ELSE pending
     ELSE /\ Turn(w, Down)
          /\ UNCHANGED pending
  /\ calls' = Done(c)
  /\ UNCHANGED <<vars, faults>>

-----------------------------------------------------------------------------
(* Claim *)

Claim(w) ==
  /\ Step(w, "idle")
  /\ StartCall(w, "claim", NoUrl, "claim")
  /\ Unchanged

(* Authority::update: the local deadline counts from before the call. *)
\* Wrong: the local deadline counts from the answer.
DeadlineFromAnswer(c) == now + Lease - Margin
Deadline(c) == calls[c].started + Lease - Margin

Resuming(w) == pending[w][calls[worker[w].main].req.url] # NoCapture
Full(w) == Cardinality(Staged(w)) >= PendingMax

ClaimAnswered(w) ==
  LET c == worker[w].main  r == calls[c].req
      late == now > Deadline(c) \/ (Full(w) /\ ~Resuming(w))
      lease == [Down EXCEPT
        !.pc = IF Resuming(w) THEN "page" ELSE "job",
        !.url = r.url, !.token = r.token,
        !.target = IF r.arg = NoOrigin THEN r.token[1] ELSE r.arg,
        !.until = Deadline(c), !.resumed = Resuming(w), !.renewing = TRUE,
        !.renewAt = now + RenewEvery]
  IN
  /\ Step(w, "claim") /\ Replied(c)
  /\ Turn(w, IF late THEN Down ELSE lease)
  /\ calls' = Done(c)
  /\ UNCHANGED <<vars, pending, faults>>

(* The job is over: the next claim, or the end of a process that drains. *)
Ended(w) == IF worker[w].draining THEN Down ELSE [Down EXCEPT !.pc = "idle"]

-----------------------------------------------------------------------------
(* Renewal runs beside the job until the job's storage has drained. *)

Working == {"job", "authorize", "http", "call", "page", "commit"}

Renew(w) ==
  /\ worker[w].pc \in Working
  /\ worker[w].renewing /\ worker[w].renew = NoCommand
  /\ now >= worker[w].renewAt /\ "renew" \in Calls
  /\ \E c \in Free(w) :
       /\ calls' = Sending(c, w, "renew", NoUrl)
       /\ Turn(w, [worker[w] EXCEPT !.renew = c])
  /\ faults + RenewalCost <= MaxFaults /\ faults' = faults + RenewalCost
  /\ UNCHANGED <<vars, pending>>

(* A refusal, or an answer after the deadline it would set, ends renewal   *)
(* and cancels the job.                                                    *)
RenewAnswered(w) ==
  LET c == worker[w].renew
      renewed == calls[c].reply = "ok" /\ now <= Deadline(c)
  IN
  /\ Replied(c)
  /\ Turn(w, [worker[w] EXCEPT
       !.renew = NoCommand, !.until = IF renewed THEN Deadline(c) ELSE @,
       !.renewing = renewed, !.renewAt = now + RenewEvery, !.cancelled = @ \/ ~renewed])
  /\ calls' = Done(c)
  /\ UNCHANGED <<vars, pending, faults>>

RenewGivenUp(w) ==
  /\ Fault
  /\ worker[w].renew # NoCommand
  /\ Turn(w, [worker[w] EXCEPT !.renew = NoCommand, !.renewing = FALSE, !.cancelled = TRUE])
  /\ UNCHANGED <<vars, pending, calls>>

Shutdown(w) ==
  /\ Fault
  /\ worker[w].pc \in Working /\ ~worker[w].cancelled
  /\ Turn(w, [worker[w] EXCEPT !.cancelled = TRUE, !.draining = TRUE])
  /\ UNCHANGED <<vars, pending, calls>>

-----------------------------------------------------------------------------
(* One job: robots.txt, page requests and redirects, each admitted by an   *)
(* authorize call; then a capture to commit or a nack.                     *)

(* Authority::check *)
\* Wrong: only cancellation is checked before a request is sent.
MaySendUnchecked(w) == ~worker[w].cancelled
MaySend(w) == ~worker[w].cancelled /\ now < worker[w].until

(* The job is over without a confirmed capture: renew.abort(), then nack,  *)
(* which is never permanent while a capture is staged.                     *)
NackWith(w, c, kind) ==
  /\ calls' = Sending(c, w, "nack",
       IF kind = Permanent /\ worker[w].url \in Staged(w) THEN Retry ELSE kind)
  /\ Turn(w, [worker[w] EXCEPT !.pc = "nack", !.main = c, !.renew = NoCommand,
                               !.dest = NoOrigin])

Authorize(w, dest) ==
  /\ Step(w, "job")
  /\ MaySend(w)
  /\ \E c \in Free(w) :
       /\ calls' = Sending(c, w, "authorize", dest)
       /\ Turn(w, [worker[w] EXCEPT !.pc = "authorize", !.main = c, !.dest = dest])
  /\ Unchanged

Deferrals == {"courtesy_deferred", "origin_not_eligible", "slots_full", "ip_full",
              "aggregate_budget", "redirect_origin_requires_lease"}

(* The lease is checked again when the answer is used, right before the    *)
(* request is sent.                                                        *)
SendHttp(w) ==
  /\ Step(w, "authorize") /\ Replied(worker[w].main)
  /\ Reply(w) = "ok" /\ MaySend(w)
  /\ Turn(w, [worker[w] EXCEPT !.pc = "http", !.main = NoCommand, !.ends = now + HttpMax])
  /\ calls' = Done(worker[w].main)
  /\ Unchanged

AuthorizeRefused(w) ==
  /\ Step(w, "authorize") /\ Replied(worker[w].main)
  /\ ~(Reply(w) = "ok" /\ MaySend(w))
  /\ NackWith(w, worker[w].main, IF Reply(w) \in Deferrals THEN TurnOnly ELSE Retry)
  /\ Unchanged

(* The request has ended. *)
Landed(w, pc) == [worker[w] EXCEPT !.pc = pc, !.ends = 0, !.dest = NoOrigin]
Crawled(w) == Step(w, "http") /\ worker[w].dest = worker[w].target

Continue(w) ==   \* a robots.txt, or a page that is tried again
  /\ Step(w, "http")
  /\ Turn(w, Landed(w, "job"))
  /\ UNCHANGED <<vars, pending, calls, faults>>

Fetched(w) ==
  /\ Crawled(w)
  /\ Turn(w, Landed(w, "page"))
  /\ UNCHANGED <<vars, pending, calls, faults>>

Redirected(w, to) ==
  /\ Crawled(w) /\ "continue_redirect" \in Calls
  /\ \E c \in Free(w) :
       /\ calls' = Sending(c, w, "continue_redirect", to)
       /\ Turn(w, [Landed(w, "call") EXCEPT !.main = c, !.target = to])
  /\ Unchanged

SaveRobots(w, answer) ==
  /\ Step(w, "job") /\ "robots_put" \in Calls
  /\ StartCall(w, "robots_put", answer, "call")
  /\ Unchanged

Discovered(w, u) ==
  /\ Step(w, "job") /\ "discover" \in Calls
  /\ StartCall(w, "discover", u, "call")
  /\ Unchanged

\* Wrong: the answered call is still waited for.
CallAnsweredTwice(w) ==
  /\ Step(w, "call") /\ Replied(worker[w].main)
  /\ Turn(w, [worker[w] EXCEPT !.pc = "job"])
  /\ calls' = Done(worker[w].main)
  /\ Unchanged

(* What a refused call means for the URL depends on the call and on how    *)
(* robots.txt was answered.                                                *)
CallAnswered(w) ==
  LET c == worker[w].main IN
  /\ Step(w, "call") /\ Replied(c)
  /\ IF Reply(w) = "ok"
     THEN /\ Turn(w, [worker[w] EXCEPT !.pc = "job", !.main = NoCommand])
          /\ calls' = Done(c)
     ELSE \E kind \in {TurnOnly, Retry} : NackWith(w, c, kind)
  /\ Unchanged

(* Pending::save puts the original capture on disk before anything else is *)
(* written; then it is offered to the frontier.  A capture that an earlier *)
(* process staged is already there.                                        *)
Stage(w) ==
  LET u == worker[w].url IN
  /\ Step(w, "page")
  /\ \E c \in Free(w) :
       IF Full(w) /\ ~worker[w].resumed
       THEN NackWith(w, c, TurnOnly) /\ UNCHANGED pending
       ELSE LET capture == IF worker[w].resumed THEN pending[w][u] ELSE Draft[w] IN
            /\ pending' = [pending EXCEPT ![w][u] = capture]
            /\ calls' = Sending(c, w, "commit", capture)
            /\ Turn(w, [worker[w] EXCEPT !.pc = "commit", !.main = c])
  /\ UNCHANGED <<vars, faults>>

(* Pending::remove follows the acknowledgement.  Without one a fresh       *)
(* capture ends in a nack of the turn, a resumed one ends the process.     *)
Confirmed(w) ==
  LET c == worker[w].main IN
  /\ Step(w, "commit") /\ Replied(c)
  /\ Reply(w) \in {"ok", "duplicate"}
  /\ pending' = [pending EXCEPT ![w][worker[w].url] = NoCapture]
  /\ Turn(w, Ended(w))
  /\ calls' = Done(c)
  /\ UNCHANGED <<vars, faults>>

NotConfirmed(w) ==
  LET c == worker[w].main IN
  /\ Step(w, "commit") /\ Replied(c)
  /\ Reply(w) \notin {"ok", "duplicate"}
  /\ IF worker[w].resumed
     THEN Turn(w, Down) /\ calls' = Done(c)
     ELSE NackWith(w, c, TurnOnly)
  /\ Unchanged

(* No page, or the job was cancelled. *)
GiveUpPage(w, kind) ==
  /\ Step(w, "job")
  /\ \E c \in Free(w) : NackWith(w, c, kind)
  /\ Unchanged

Nacked(w) ==
  LET c == worker[w].main IN
  /\ Step(w, "nack") /\ Replied(c)
  /\ Turn(w, IF Reply(w) = "ok" THEN Ended(w) ELSE Down)
  /\ calls' = Done(c)
  /\ Unchanged

(* Three sends without an answer.  Inside a job the error ends the job or, *)
(* for a resumed capture, the process; outside it ends the process.        *)
GivenUp(w) ==
  /\ Fault
  /\ worker[w].main # NoCommand
  /\ ~Replied(worker[w].main)
  /\ IF worker[w].pc \in {"authorize", "call", "commit"} /\ ~worker[w].resumed
     THEN \E c \in Free(w) :
            NackWith(w, c, IF worker[w].pc = "authorize" THEN Retry ELSE TurnOnly)
     ELSE Turn(w, Down) /\ UNCHANGED calls
  /\ UNCHANGED <<vars, pending>>

-----------------------------------------------------------------------------
Flying == {w \in Workers : Step(w, "http")}

(* A request on the wire ends within HttpMax. *)
WTick ==
  /\ \A w \in Flying : now < worker[w].ends
  /\ Tick
  /\ UNCHANGED workerVars

(* The links of stored captures are published by a tool of their own; a    *)
(* page without links is left to it.                                       *)
WPublish(u, k) ==
  Discoveries[u] # <<>> /\ PublishOutbox(u, k) /\ UNCHANGED workerVars

WTransfer(p, owner) == Transfer(p, owner) /\ UNCHANGED workerVars

WHorizon == now = MaxTime /\ UNCHANGED allVars

Frontier ==
  \/ \E c \in Commands : \/ ServePick(c) \/ ServeNone(c) \/ ServeEmpty(c) \/ ServeClaim(c)
                         \/ Serve(c) \/ ServeRefusal(c) \/ Forget(c)
  \/ \E u \in Urls : ServeFinish(u) \/ ServeAbort(u)

Process(w) ==
  \/ Start(w) \/ Offer(w) \/ OfferAnswered(w)
  \/ Claim(w) \/ ClaimAnswered(w)
  \/ Renew(w) \/ RenewAnswered(w) \/ RenewGivenUp(w)
  \/ \E o \in Origins : Authorize(w, o) \/ Redirected(w, o)
  \/ SendHttp(w) \/ AuthorizeRefused(w) \/ Continue(w) \/ Fetched(w)
  \/ \E a \in RobotsAnswers : SaveRobots(w, a)
  \/ \E u \in Urls : Discovered(w, u)
  \/ CallAnswered(w)
  \/ Stage(w) \/ Confirmed(w) \/ NotConfirmed(w)
  \/ \E kind \in GiveUps : GiveUpPage(w, kind)
  \/ Nacked(w) \/ GivenUp(w)

WNext ==
  \/ Frontier
  \/ \E w \in Workers : Process(w) \/ Shutdown(w) \/ Crash(w)
  \/ \E p \in Partitions, owner \in Nodes \cup {Draining} : WTransfer(p, owner)
  \/ \E u \in Urls, k \in 0 .. MaximumUrls : WPublish(u, k)
  \/ WTick
  \/ WHorizon

WSpec == WInit /\ [][WNext]_allVars

-----------------------------------------------------------------------------
Row == [pc : Steps, url : Urls \cup {NoUrl}, token : Tokens, target : Origins \cup {NoOrigin},
        dest : Origins \cup {NoOrigin}, until : Int, ends : Nat, cancelled : BOOLEAN,
        draining : BOOLEAN, resumed : BOOLEAN, renewing : BOOLEAN, renewAt : Nat,
        main : Commands \cup {NoCommand}, renew : Commands \cup {NoCommand}, todo : SUBSET Urls]

WTypeOK ==
  /\ TypeOK
  /\ worker \in [Workers -> Row]
  /\ pending \in [Workers -> [Urls -> Payloads \cup {NoCapture}]]
  /\ calls \in [Commands -> Message \cup {NoTx}]
  /\ faults \in 0 .. MaxFaults
  /\ \A w \in Workers :
       \A c \in {worker[w].main, worker[w].renew} \ {NoCommand} : calls[c] # NoTx

(* At most one process has a request on the wire to an origin. *)
OneRequestPerOrigin ==
  \A v, w \in Flying : worker[v].dest = worker[w].dest => v = w

Holder == [o \in Origins |-> origins[o].token]
Lapse  == [o \in Origins |-> origins[o].deadline]
Flight(w) == [origin |-> worker[w].dest, token |-> worker[w].token, ends |-> worker[w].ends]
Wire   == {Flight(w) : w \in Flying}

Authority == INSTANCE OriginLease WITH
  Tokens <- Grants, Times <- Instants, holder <- Holder, lapse <- Lapse, flights <- Wire

(* The frontier and its workers keep the promise of OriginLease: an origin *)
(* changes hands only after a lapsed lease has cooled down or was given    *)
(* back with nothing on the wire, and requests go out under live leases.   *)
LeaseKept == Authority!Spec

(* A staged capture leaves the disk of a worker only when the frontier     *)
(* stores that very capture.                                               *)
StagedUntilStored ==
  [][\A w \in Workers, u \in Urls :
       pending[w][u] # NoCapture /\ pending'[w][u] # pending[w][u]
         => captures[u] = pending[w][u]]_allVars

(* The frontier's limit on requests in progress bounds what is on the wire. *)
GlobalLimitOnTheWire == Cardinality(Flying) <= GlobalConcurrency

(* A page is only ever requested under the main lease of its origin: a     *)
(* redirect to another origin is saved and handed to the next lease, while *)
(* auxiliary leases serve robots.txt redirects alone.                      *)
PageUnderMainLease ==
  \A w \in Flying : worker[w].dest = worker[w].target => worker[w].dest = worker[w].token[1]

(* What leased.rs asserts when it offers old captures again: the frontier  *)
(* has the capture or finds no lease.                                      *)
OffersReconcile ==
  \A w \in Workers :
    Step(w, "reconcile") /\ Replied(worker[w].main) => Reconciles(Reply(w))
=============================================================================
