------------------------- MODULE LeasedWorkersProofs -------------------------
(***************************************************************************)
(* Proofs about LeasedWorkers, for any sets, limits and faults.            *)
(*                                                                         *)
(* The frontier's own steps are given as CentralFrontierProofs proves      *)
(* them.  What a process or the network does is said field by field first  *)
(* (At, Posted, ...), then as one of a few kinds of step (Moves, Steady,   *)
(* ServeFinish), of which every later section needs no more:               *)
(*   Sound      processes, calls and transactions fit together, and the    *)
(*              composed system is one that CentralFrontier allows;        *)
(*   Recorded   an acknowledged capture is the stored one;                 *)
(*   Owned      a token belongs to one process;                            *)
(*   InLease    no process relies on more than its lease gives it, from    *)
(*              which the limits on the wire and OriginLease follow;       *)
(*   Saved      a redirect is saved before its page is asked for.          *)
(***************************************************************************)
EXTENDS LeasedWorkers, CentralFrontierProofs

(* The process has a request of its own to admit, make or report.          *)
Engaged == {"job", "authorize", "http", "call", "page"}

-----------------------------------------------------------------------------
(* Rows and messages: what each step writes, field by field *)

Types ==
  /\ worker \in [Workers -> Row]
  /\ pending \in [Workers -> [Urls -> Payloads \cup {NoCapture}]]
  /\ calls \in [Commands -> Message \cup {NoTx}]
  /\ faults \in 0 .. MaxFaults

OthersStay(w) == \A v \in Workers : v # w => worker'[v] = worker[v]

(* What a row says: where the process is, and which job it is about.       *)
At(s, pc, main, renew, target, dest, until, ends) ==
  /\ s.pc = pc /\ s.main = main /\ s.renew = renew
  /\ s.target = target /\ s.dest = dest /\ s.until = until /\ s.ends = ends
Job(s, r) == s.url = r.url /\ s.token = r.token /\ s.resumed = r.resumed /\ s.todo = r.todo

(* The row of w after a step inside its session. *)
Becomes(w, pc, main, renew, target, dest, until, ends) ==
  /\ OthersStay(w)
  /\ At(worker'[w], pc, main, renew, target, dest, until, ends)
  /\ Job(worker'[w], worker[w])

(* The row of w without a session. *)
Quits(w) ==
  /\ OthersStay(w)
  /\ worker'[w].pc \in {"down", "idle"}
  /\ worker'[w] = [Down EXCEPT !.pc = worker'[w].pc]

CallsStay(c) == \A d \in Commands : d # c => calls'[d] = calls[d]
Dropped(c) == calls'[c] = NoTx /\ CallsStay(c)
Posted(c, action, url, token, arg) ==
  LET m == calls'[c] IN
  /\ CallsStay(c)
  /\ m # NoTx /\ m.reply = NoReply /\ m.started <= now /\ (action \in Timed => m.started = now)
  /\ m.req.action = action /\ m.req.command = c /\ m.req.url = url /\ m.req.token = token
  /\ m.req.arg = arg

LEMMA WorkerConstants ==
  /\ Draft \in [Workers -> Payloads]
  /\ Margin \in Nat /\ HttpMax \in Nat /\ RenewEvery \in Nat /\ MaxFaults \in Nat
  /\ RenewalCost \in Nat /\ HttpMax < Cooldown
  /\ NoCommand \notin Commands /\ NoTx \notin Message
  /\ {"authorize", "commit", "nack"} \subseteq Calls /\ {TurnOnly, Retry} \subseteq Nacks
  /\ GiveUps \subseteq Nacks
<1>1. {Margin, HttpMax, RenewEvery, PendingMax, MaxFaults, RenewalCost} \subseteq Nat
  BY WorkerAssumptions
<1> QED
  BY <1>1, WorkerAssumptions

LEMMA Turned ==
  ASSUME Types, NEW w \in Workers, NEW row \in Row, Turn(w, row)
  PROVE  worker' \in [Workers -> Row] /\ worker'[w] = row /\ OthersStay(w)
BY DEF Types, Turn, OthersStay

LEMMA StepNames ==
  /\ "down" \in Steps /\ "reconcile" \in Steps /\ "idle" \in Steps /\ "claim" \in Steps
  /\ "job" \in Steps /\ "authorize" \in Steps /\ "http" \in Steps /\ "call" \in Steps
  /\ "page" \in Steps /\ "commit" \in Steps /\ "nack" \in Steps
BY DEF Steps

(* The rows that the steps of a session write. *)

LEMMA RowCalls ==
  ASSUME NEW r \in Row, NEW pc \in Steps, NEW c \in Commands \cup {NoCommand}
  PROVE  LET s == [r EXCEPT !.pc = pc, !.main = c] IN
         s \in Row /\ At(s, pc, c, r.renew, r.target, r.dest, r.until, r.ends) /\ Job(s, r)
<1> DEFINE s == [r EXCEPT !.pc = pc, !.main = c]
<1>1. s \in Row
  BY DEF Row
<1>2. At(s, pc, c, r.renew, r.target, r.dest, r.until, r.ends)
  BY DEF Row, At
<1>3. Job(s, r)
  BY DEF Row, Job
<1> QED
  BY <1>1, <1>2, <1>3

LEMMA RowNacks ==
  ASSUME NEW r \in Row, NEW c \in Commands
  PROVE  LET s == [r EXCEPT !.pc = "nack", !.main = c, !.renew = NoCommand, !.dest = NoOrigin] IN
         s \in Row /\ At(s, "nack", c, NoCommand, r.target, NoOrigin, r.until, r.ends) /\ Job(s, r)
<1> DEFINE s == [r EXCEPT !.pc = "nack", !.main = c, !.renew = NoCommand, !.dest = NoOrigin]
<1>0. "nack" \in Steps
  BY DEF Steps
<1>1. s \in Row
  BY <1>0 DEF Row
<1>2. At(s, "nack", c, NoCommand, r.target, NoOrigin, r.until, r.ends)
  BY DEF Row, At
<1>3. Job(s, r)
  BY DEF Row, Job
<1> QED
  BY <1>1, <1>2, <1>3

LEMMA RowAuthorizes ==
  ASSUME NEW r \in Row, NEW c \in Commands, NEW o \in Origins
  PROVE  LET s == [r EXCEPT !.pc = "authorize", !.main = c, !.dest = o] IN
         s \in Row /\ At(s, "authorize", c, r.renew, r.target, o, r.until, r.ends) /\ Job(s, r)
<1> DEFINE s == [r EXCEPT !.pc = "authorize", !.main = c, !.dest = o]
<1>0. "authorize" \in Steps
  BY DEF Steps
<1>1. s \in Row
  BY <1>0 DEF Row
<1>2. At(s, "authorize", c, r.renew, r.target, o, r.until, r.ends)
  BY DEF Row, At
<1>3. Job(s, r)
  BY DEF Row, Job
<1> QED
  BY <1>1, <1>2, <1>3

LEMMA RowSends ==
  ASSUME NEW r \in Row, NEW e \in Nat
  PROVE  LET s == [r EXCEPT !.pc = "http", !.main = NoCommand, !.ends = e] IN
         s \in Row /\ At(s, "http", NoCommand, r.renew, r.target, r.dest, r.until, e) /\ Job(s, r)
<1> DEFINE s == [r EXCEPT !.pc = "http", !.main = NoCommand, !.ends = e]
<1>0. "http" \in Steps
  BY DEF Steps
<1>1. s \in Row
  BY <1>0 DEF Row
<1>2. At(s, "http", NoCommand, r.renew, r.target, r.dest, r.until, e)
  BY DEF Row, At
<1>3. Job(s, r)
  BY DEF Row, Job
<1> QED
  BY <1>1, <1>2, <1>3

LEMMA RowLands ==
  ASSUME NEW r \in Row, NEW pc \in Steps
  PROVE  LET s == [r EXCEPT !.pc = pc, !.ends = 0, !.dest = NoOrigin] IN
         s \in Row /\ At(s, pc, r.main, r.renew, r.target, NoOrigin, r.until, 0) /\ Job(s, r)
<1> DEFINE s == [r EXCEPT !.pc = pc, !.ends = 0, !.dest = NoOrigin]
<1>1. s \in Row
  BY DEF Row
<1>2. At(s, pc, r.main, r.renew, r.target, NoOrigin, r.until, 0)
  BY DEF Row, At
<1>3. Job(s, r)
  BY DEF Row, Job
<1> QED
  BY <1>1, <1>2, <1>3

LEMMA RowRedirects ==
  ASSUME NEW r \in Row, NEW c \in Commands, NEW o \in Origins
  PROVE  LET s == [[r EXCEPT !.pc = "call", !.ends = 0, !.dest = NoOrigin] EXCEPT !.main = c, !.target = o] IN
         s \in Row /\ At(s, "call", c, r.renew, o, NoOrigin, r.until, 0) /\ Job(s, r)
<1> DEFINE s == [[r EXCEPT !.pc = "call", !.ends = 0, !.dest = NoOrigin] EXCEPT !.main = c, !.target = o]
<1>0. "call" \in Steps
  BY DEF Steps
<1>1. s \in Row
  BY <1>0 DEF Row
<1>2. At(s, "call", c, r.renew, o, NoOrigin, r.until, 0)
  BY DEF Row, At
<1>3. Job(s, r)
  BY DEF Row, Job
<1> QED
  BY <1>1, <1>2, <1>3

LEMMA RowRenews ==
  ASSUME NEW r \in Row, NEW c \in Commands
  PROVE  LET s == [r EXCEPT !.renew = c] IN
         s \in Row /\ At(s, r.pc, r.main, c, r.target, r.dest, r.until, r.ends) /\ Job(s, r)
<1> DEFINE s == [r EXCEPT !.renew = c]
<1>1. s \in Row
  BY DEF Row
<1>2. At(s, r.pc, r.main, c, r.target, r.dest, r.until, r.ends)
  BY DEF Row, At
<1>3. Job(s, r)
  BY DEF Row, Job
<1> QED
  BY <1>1, <1>2, <1>3

LEMMA RowRenewed ==
  ASSUME NEW r \in Row, NEW t \in Int, NEW a \in BOOLEAN, NEW n \in Nat, NEW b \in BOOLEAN
  PROVE  LET s == [r EXCEPT !.renew = NoCommand, !.until = t, !.renewing = a, !.renewAt = n,
                       !.cancelled = b] IN
         s \in Row /\ At(s, r.pc, r.main, NoCommand, r.target, r.dest, t, r.ends) /\ Job(s, r)
<1> DEFINE s == [r EXCEPT !.renew = NoCommand, !.until = t, !.renewing = a, !.renewAt = n,
                       !.cancelled = b]
<1>1. s \in Row
  BY DEF Row
<1>2. At(s, r.pc, r.main, NoCommand, r.target, r.dest, t, r.ends)
  BY DEF Row, At
<1>3. Job(s, r)
  BY DEF Row, Job
<1> QED
  BY <1>1, <1>2, <1>3

LEMMA RowUnrenewed ==
  ASSUME NEW r \in Row
  PROVE  LET s == [r EXCEPT !.renew = NoCommand, !.renewing = FALSE, !.cancelled = TRUE] IN
         s \in Row /\ At(s, r.pc, r.main, NoCommand, r.target, r.dest, r.until, r.ends) /\ Job(s, r)
<1> DEFINE s == [r EXCEPT !.renew = NoCommand, !.renewing = FALSE, !.cancelled = TRUE]
<1>1. s \in Row
  BY DEF Row
<1>2. At(s, r.pc, r.main, NoCommand, r.target, r.dest, r.until, r.ends)
  BY DEF Row, At
<1>3. Job(s, r)
  BY DEF Row, Job
<1> QED
  BY <1>1, <1>2, <1>3

LEMMA RowTakes ==
  ASSUME NEW r \in Row, NEW pc \in Steps, NEW url \in Urls, NEW token \in Tokens,
         NEW target \in Origins, NEW until \in Int, NEW resumed \in BOOLEAN, NEW n \in Nat
  PROVE  [r EXCEPT !.pc = pc, !.url = url, !.token = token, !.target = target, !.until = until,
                   !.resumed = resumed, !.renewing = TRUE, !.renewAt = n] \in Row
BY DEF Row

LEMMA RowCancels ==
  ASSUME NEW r \in Row
  PROVE  LET s == [r EXCEPT !.cancelled = TRUE, !.draining = TRUE] IN
         s \in Row /\ At(s, r.pc, r.main, r.renew, r.target, r.dest, r.until, r.ends) /\ Job(s, r)
<1> DEFINE s == [r EXCEPT !.cancelled = TRUE, !.draining = TRUE]
<1>1. s \in Row
  BY DEF Row
<1>2. At(s, r.pc, r.main, r.renew, r.target, r.dest, r.until, r.ends)
  BY DEF Row, At
<1>3. Job(s, r)
  BY DEF Row, Job
<1> QED
  BY <1>1, <1>2, <1>3

(* The messages that the steps write. *)
Replies(c, v) ==
  /\ CallsStay(c) /\ calls'[c] # NoTx
  /\ calls'[c].req = calls[c].req /\ calls'[c].started = calls[c].started /\ calls'[c].reply = v
Restarts(c) ==
  /\ CallsStay(c) /\ calls'[c] # NoTx
  /\ calls'[c].req = calls[c].req /\ calls'[c].started = now /\ calls'[c].reply = calls[c].reply
Rewrites(c, q) ==
  /\ CallsStay(c) /\ calls'[c] # NoTx
  /\ calls'[c].req = q /\ calls'[c].started = calls[c].started /\ calls'[c].reply = calls[c].reply

CallTypes == calls \in [Commands -> Message \cup {NoTx}]
Request == [action : Actions \cup {"claim"}, command : Commands, url : Urls \cup {NoUrl},
            token : Tokens, arg : Argument]

LEMMA MessageIs ==
  /\ Message = [req : Request, started : Nat, reply : Answers]
  /\ \A m \in Message : m # NoTx
BY WorkerConstants DEF Message, Request

LEMMA CallSent ==
  ASSUME CallTypes, now \in Nat, NEW c \in Commands, NEW action \in Actions \cup {"claim"},
         NEW url \in Urls \cup {NoUrl}, NEW token \in Tokens, NEW arg \in Argument,
         calls' = Sent(c, [action |-> action, command |-> c, url |-> url, token |-> token,
                           arg |-> arg])
  PROVE  CallTypes' /\ Posted(c, action, url, token, arg)
<1> DEFINE q == [action |-> action, command |-> c, url |-> url, token |-> token, arg |-> arg]
           m == [req |-> q, reply |-> NoReply,
                 started |-> IF q.action \in Timed THEN now ELSE 0]
<1>1. q \in Request
  BY DEF Request
<1>2. /\ q.action = action /\ q.command = c /\ q.url = url /\ q.token = token /\ q.arg = arg
  OBVIOUS
<1>3. calls' = [calls EXCEPT ![c] = m]
  BY DEF Sent
<1> HIDE DEF q
<1>4. m \in Message
  BY <1>1, MessageIs DEF Answers
<1>5. m.req = q /\ m.reply = NoReply /\ m.started = IF action \in Timed THEN now ELSE 0
  BY <1>2
<1> HIDE DEF m
<1>6. CallTypes' /\ calls'[c] = m /\ CallsStay(c)
  BY <1>3, <1>4 DEF CallTypes, CallsStay
<1> QED
  BY <1>2, <1>4, <1>5, <1>6, MessageIs DEF Posted

LEMMA CallDropped ==
  ASSUME CallTypes, NEW c \in Commands, calls' = Done(c)
  PROVE  CallTypes' /\ Dropped(c)
BY DEF CallTypes, Done, Dropped, CallsStay

LEMMA CallReplied ==
  ASSUME CallTypes, NEW c \in Commands, calls[c] # NoTx, NEW v \in Answers,
         calls' = Answered(c, v)
  PROVE  CallTypes' /\ Replies(c, v)
<1> DEFINE m == [calls[c] EXCEPT !.reply = v]
<1>0. calls[c] \in [req : Request, started : Nat, reply : Answers]
  BY MessageIs DEF CallTypes
<1>1. m \in [req : Request, started : Nat, reply : Answers]
  BY <1>0
<1>2. m.req = calls[c].req /\ m.started = calls[c].started /\ m.reply = v
  BY <1>0
<1>3. calls' = [calls EXCEPT ![c] = m]
  BY DEF Answered
<1> HIDE DEF m
<1>4. CallTypes' /\ calls'[c] = m /\ CallsStay(c)
  BY <1>1, <1>3, MessageIs DEF CallTypes, CallsStay
<1> QED
  BY <1>1, <1>2, <1>4, MessageIs DEF Replies

LEMMA CallRestarted ==
  ASSUME CallTypes, now \in Nat, NEW c \in Commands, calls[c] # NoTx,
         calls' = [calls EXCEPT ![c].started = now]
  PROVE  CallTypes' /\ Restarts(c)
<1> DEFINE m == [calls[c] EXCEPT !.started = now]
<1>0. calls[c] \in [req : Request, started : Nat, reply : Answers]
  BY MessageIs DEF CallTypes
<1>1. m \in [req : Request, started : Nat, reply : Answers]
  BY <1>0
<1>2. m.req = calls[c].req /\ m.started = now /\ m.reply = calls[c].reply
  BY <1>0
<1>3. calls' = [calls EXCEPT ![c] = m]
  OBVIOUS
<1> HIDE DEF m
<1>4. CallTypes' /\ calls'[c] = m /\ CallsStay(c)
  BY <1>1, <1>3, MessageIs DEF CallTypes, CallsStay
<1> QED
  BY <1>1, <1>2, <1>4, MessageIs DEF Restarts

LEMMA CallRewritten ==
  ASSUME CallTypes, NEW c \in Commands, calls[c] # NoTx, NEW q \in Request,
         calls' = [calls EXCEPT ![c].req = q]
  PROVE  CallTypes' /\ Rewrites(c, q)
<1> DEFINE m == [calls[c] EXCEPT !.req = q]
<1>0. calls[c] \in [req : Request, started : Nat, reply : Answers]
  BY MessageIs DEF CallTypes
<1>1. m \in [req : Request, started : Nat, reply : Answers]
  BY <1>0
<1>2. m.req = q /\ m.started = calls[c].started /\ m.reply = calls[c].reply
  BY <1>0
<1>3. calls' = [calls EXCEPT ![c] = m]
  OBVIOUS
<1> HIDE DEF m
<1>4. CallTypes' /\ calls'[c] = m /\ CallsStay(c)
  BY <1>1, <1>3, MessageIs DEF CallTypes, CallsStay
<1> QED
  BY <1>1, <1>2, <1>4, MessageIs DEF Rewrites

-----------------------------------------------------------------------------
(* Processes and their calls *)

(* A token that the frontier has granted: the epoch of its origin has      *)
(* reached it, so that the token of the next claim differs.                *)
Granted(k) == k[1] \in Origins /\ k[3] \in Urls /\ 1 <= k[2] /\ k[2] <= origins[k[1]].epoch

(* The call that a process waits for is the one its step has sent.         *)
Awaits(w) ==
  LET r == worker[w]  q == calls[worker[w].main].req IN
  /\ r.main \in Commands /\ Sender[r.main] = w /\ r.main # r.renew /\ calls[r.main] # NoTx
  /\ r.pc = "reconcile" => /\ q.action = "commit" /\ q.token = NoToken
                           /\ q.url \in r.todo /\ q.arg = pending[w][q.url]
  /\ r.pc = "claim" => q.action = "claim"
  /\ r.pc = "authorize" => q.action = "authorize" /\ q.arg = r.dest
  /\ r.pc = "call" => /\ q.action \in {"continue_redirect", "robots_put", "discover"}
                      /\ q.action = "continue_redirect" => q.arg = r.target
  /\ r.pc = "commit" => q.action = "commit" /\ q.arg = pending[w][r.url]
  /\ r.pc = "nack" => q.action = "nack"
  /\ r.pc \in Working => q.url = r.url /\ q.token = r.token

AwaitsRenewal(w) ==
  LET r == worker[w]  q == calls[worker[w].renew].req IN
  /\ r.renew \in Commands /\ Sender[r.renew] = w /\ calls[r.renew] # NoTx
  /\ r.pc \in Working
  /\ q.action = "renew" /\ q.url = r.url /\ q.token = r.token

(* What a process knows of its job and of its staged captures.             *)
Equipped(w) ==
  LET r == worker[w] IN
  /\ r.pc = "down" => r = Down
  /\ r.pc = "reconcile" => \A u \in r.todo : pending[w][u] # NoCapture
  /\ r.pc \in Working => Granted(r.token) /\ r.token[3] = r.url /\ r.target \in Origins
  /\ r.pc \in {"authorize", "http"} => r.dest \in Origins
  /\ r.pc \in Engaged => (r.resumed <=> pending[w][r.url] # NoCapture)
  /\ r.pc = "commit" => pending[w][r.url] # NoCapture

Idles == {"down", "idle", "job", "http", "page"}
Waits == {"claim", "authorize", "call", "commit", "nack"}
Fits(w) ==
  /\ worker[w].pc \in Idles => worker[w].main = NoCommand
  /\ worker[w].pc \in Waits => worker[w].main # NoCommand
  /\ worker[w].main # NoCommand => Awaits(w)
  /\ worker[w].renew # NoCommand => AwaitsRenewal(w)
  /\ Equipped(w)

(* What a message says.  A claim is answered with the lease it won.        *)
Won(c) == calls[c] # NoTx /\ calls[c].req.action = "claim" /\ calls[c].reply = "ok"
Written(c) ==
  LET q == calls[c].req IN
  /\ q.command = c /\ calls[c].started <= now
  /\ q.action = "claim" => calls[c].reply \in {NoReply, "ok"}
  /\ q.action # "claim" =>
       /\ q.action \in Calls /\ q.url \in Urls /\ q.arg \in Asked(q.action)
       /\ \/ Granted(q.token) /\ q.token[3] = q.url
          \/ q.token = NoToken /\ q.action = "commit"
  /\ Won(c) => Granted(q.token) /\ q.token[3] = q.url /\ q.arg \in Origins \cup {NoOrigin}

(* A call that the frontier works on is still to be answered.              *)
Underway(u) ==
  LET t == tx[u]  c == tx[u].req.command IN
  /\ c \in Commands /\ calls[c] # NoTx /\ calls[c].reply = NoReply /\ calls[c].req = t.req
  /\ calls[c].started <= t.at /\ pick[c] = NoUrl
  /\ t.req.action = "claim" => t.verdict = "ok"
Picking(c) ==
  calls[c] # NoTx /\ calls[c].reply = NoReply /\ calls[c].req.action = "claim"

Fitting ==
  /\ Types
  /\ \A w \in Workers : Fits(w)
  /\ \A c \in Commands : calls[c] # NoTx => Written(c)
  /\ \A u \in Urls : tx[u] # NoTx => Underway(u)
  /\ \A c \in Commands : pick[c] # NoUrl => Picking(c)

LEMMA RestRows ==
  /\ Down \in Row /\ [Down EXCEPT !.pc = "idle"] \in Row
  /\ Down = [Down EXCEPT !.pc = "down"]
  /\ \A T \in SUBSET Urls : [Down EXCEPT !.pc = "idle", !.todo = T] \in Row
  /\ \A T \in SUBSET Urls : [Down EXCEPT !.pc = "reconcile", !.todo = T] \in Row
  /\ [Down EXCEPT !.pc = "idle", !.todo = {}] = [Down EXCEPT !.pc = "idle"]
  /\ Down.pc = "down" /\ [Down EXCEPT !.pc = "idle"].pc = "idle"
<1>1. NoToken \in Tokens
  BY DEF NoToken, Tokens
<1>2. Down \in Row
  BY <1>1, StepNames DEF Down, Row
<1>3. /\ [Down EXCEPT !.pc = "idle"] \in Row
      /\ \A T \in SUBSET Urls : [Down EXCEPT !.pc = "idle", !.todo = T] \in Row
      /\ \A T \in SUBSET Urls : [Down EXCEPT !.pc = "reconcile", !.todo = T] \in Row
  BY <1>2, StepNames DEF Row
<1>4. Down.pc = "down" /\ Down.todo = {}
  BY DEF Down
<1>5. \A r \in Row : /\ [r EXCEPT !.pc = r.pc] = r /\ [r EXCEPT !.todo = r.todo] = r
                     /\ [r EXCEPT !.pc = "idle"].todo = r.todo
                     /\ [r EXCEPT !.pc = "idle"].pc = "idle"
  BY DEF Row
<1>6. [Down EXCEPT !.pc = "down"] = Down
  BY <1>2, <1>4, <1>5
<1>7. [Down EXCEPT !.pc = "idle"].todo = {} /\ [Down EXCEPT !.pc = "idle"].pc = "idle"
  BY <1>2, <1>4, <1>5
<1>8. [[Down EXCEPT !.pc = "idle"] EXCEPT !.todo = {}] = [Down EXCEPT !.pc = "idle"]
  BY <1>3, <1>5, <1>7
<1> QED
  BY <1>2, <1>3, <1>4, <1>6, <1>7, <1>8

LEMMA Quitting ==
  ASSUME Types, NEW w \in Workers, Turn(w, Down) \/ Turn(w, [Down EXCEPT !.pc = "idle"])
  PROVE  worker' \in [Workers -> Row] /\ Quits(w)
BY RestRows, Turned DEF Quits
-----------------------------------------------------------------------------
(* Steps of a process: what they leave as it was *)

LEMMA FreeUnused ==
  ASSUME NEW w \in Workers, NEW c \in Free(w)
  PROVE  c \in Commands /\ Sender[c] = w /\ calls[c] = NoTx
<1>1. Unused(w) # {} /\ c = CHOOSE d \in Unused(w) : TRUE
  BY DEF Free
<1>2. c \in Unused(w)
  BY <1>1
<1> QED
  BY <1>2 DEF Unused

LEMMA AskedArgs ==
  /\ Asked("renew") = {NoUrl} /\ Asked("authorize") = Origins
  /\ Asked("continue_redirect") = Origins /\ Asked("commit") = Payloads
  /\ Asked("nack") = Nacks /\ Asked("robots_put") = RobotsAnswers /\ Asked("discover") = Urls
<1>1. /\ Args("renew") = {NoUrl} /\ Args("authorize") = Origins
      /\ Args("continue_redirect") = Origins /\ Args("commit") = Payloads
      /\ Args("robots_put") = RobotsAnswers /\ Args("discover") = Urls
  BY Zenon DEF Args
<1> QED
  BY <1>1 DEF Asked

LEMMA Sends ==
  ASSUME Types, now \in Nat, NEW w \in Workers, NEW c \in Commands,
         NEW action \in Actions \cup {"claim"}, NEW arg \in Argument,
         calls' = Sending(c, w, action, arg)
  PROVE  CallTypes' /\ Posted(c, action, worker[w].url, worker[w].token, arg)
<1>1. worker[w].url \in Urls \cup {NoUrl} /\ worker[w].token \in Tokens
  BY DEF Types, Row
<1>2. CallTypes
  BY DEF Types, CallTypes
<1> QED
  BY <1>1, <1>2, CallSent DEF Sending

(* A process that has the URL and the token of a lease asks as it may.     *)
LEMMA AsksWell ==
  ASSUME now \in Nat, now' = now, origins' = origins, NEW c \in Commands, NEW action \in Calls,
         NEW url, NEW token, NEW arg \in Asked(action), Posted(c, action, url, token, arg),
         Granted(token), token[3] = url
  PROVE  Written(c)'
<1>1. action # "claim" /\ url \in Urls
  BY ConstantAssumptions DEF Actions, Granted
<1>2. Granted(token)'
  BY DEF Granted
<1>3. NoReply # "ok"
  BY DEF NoReply
<1> QED
  BY <1>1, <1>2, <1>3 DEF Written, Won, Posted

(* The command x of w is not one that the frontier works on. *)
Loose(x, w) ==
  x \in Commands /\ Sender[x] = w /\ (calls[x] = NoTx \/ calls[x].reply # NoReply)

LEMMA ProcessFrame ==
  ASSUME Fitting, UNCHANGED vars, Types', NEW w \in Workers, OthersStay(w), Fits(w)',
         \A v \in Workers : v # w => pending'[v] = pending[v],
         \/ calls' = calls
         \/ \E x : Loose(x, w) /\ CallsStay(x) /\ (calls'[x] # NoTx => Written(x)')
  PROVE  Fitting'
<1>0. now' = now /\ origins' = origins /\ tx' = tx /\ pick' = pick
  BY DEF vars, tables
<1>1. \E x : /\ \A d \in Commands : d # x => calls'[d] = calls[d]
             /\ x \in Commands => Sender[x] = w /\ (calls[x] = NoTx \/ calls[x].reply # NoReply)
             /\ x \in Commands /\ calls'[x] # NoTx => Written(x)'
  <2>1. CASE calls' = calls
    BY <2>1, WorkerConstants
  <2>2. CASE calls' # calls
    BY <2>2 DEF Loose, CallsStay
  <2> QED
    BY <2>1, <2>2
<1>2. PICK x : /\ \A d \in Commands : d # x => calls'[d] = calls[d]
               /\ x \in Commands => Sender[x] = w /\ (calls[x] = NoTx \/ calls[x].reply # NoReply)
               /\ x \in Commands /\ calls'[x] # NoTx => Written(x)'
  BY <1>1
<1>3. ASSUME NEW v \in Workers, v # w
      PROVE  Fits(v)'
  <2>1. Fits(v) /\ worker'[v] = worker[v] /\ pending'[v] = pending[v]
    BY <1>3 DEF Fitting, OthersStay
  <2>2. \A c \in Commands : Sender[c] = v => calls'[c] = calls[c]
    BY <1>2, <1>3
  <2>3. Equipped(v)'
    BY <1>0, <2>1 DEF Fits, Equipped, Granted
  <2>4. worker[v].main # NoCommand => Awaits(v)'
    BY <2>1, <2>2 DEF Fits, Awaits
  <2>5. worker[v].renew # NoCommand => AwaitsRenewal(v)'
    BY <2>1, <2>2 DEF Fits, AwaitsRenewal
  <2> QED
    BY <2>1, <2>3, <2>4, <2>5 DEF Fits
<1>4. ASSUME NEW c \in Commands, calls'[c] # NoTx
      PROVE  Written(c)'
  <2>1. CASE c = x
    BY <1>2, <1>4, <2>1
  <2>2. CASE c # x
    <3>1. calls'[c] = calls[c] /\ Written(c)
      BY <1>2, <1>4, <2>2 DEF Fitting
    <3> QED
      BY <1>0, <3>1 DEF Written, Won, Granted
  <2> QED
    BY <2>1, <2>2
<1>5. ASSUME NEW u \in Urls, tx'[u] # NoTx
      PROVE  Underway(u)'
  <2>1. Underway(u)
    BY <1>0, <1>5 DEF Fitting
  <2>2. calls'[tx[u].req.command] = calls[tx[u].req.command]
    BY <1>2, <2>1 DEF Underway
  <2> QED
    BY <1>0, <2>1, <2>2 DEF Underway
<1>6. ASSUME NEW c \in Commands, pick'[c] # NoUrl
      PROVE  Picking(c)'
  BY <1>0, <1>2, <1>6 DEF Fitting, Picking
<1> QED
  BY <1>3, <1>4, <1>5, <1>6 DEF Fitting
-----------------------------------------------------------------------------
(* Steps of a process: what they do to its job *)

SameCalls(w) == calls' = calls \/ \E c : Loose(c, w) /\ Dropped(c)

LeavesJob(w) ==
  /\ OthersStay(w) /\ worker'[w].pc \in {"down", "reconcile", "idle", "claim"}
  /\ \/ SameCalls(w)
     \/ \E c : /\ Loose(c, w)
               /\ \/ \E u, k : Posted(c, "claim", u, k, NoUrl)
                  \/ \E u, p : Posted(c, "commit", u, NoToken, p)

TakesJob(w) ==
  LET c == worker[w].main  q == calls[c].req  s == worker'[w] IN
  /\ worker[w].pc = "claim" /\ Loose(c, w) /\ Won(c) /\ Dropped(c) /\ now <= Deadline(c)
  /\ OthersStay(w) /\ s.url = q.url /\ s.token = q.token /\ s.pc \in {"job", "page"}
  /\ At(s, s.pc, NoCommand, NoCommand, IF q.arg = NoOrigin THEN q.token[1] ELSE q.arg,
        NoOrigin, Deadline(c), 0)

(* The job has a step of its own: pc, main, target, dest and ends.         *)
Goes(w, pc, main, target, dest, ends) ==
  LET r == worker[w] IN
  r.pc \in Engaged /\ Becomes(w, pc, main, r.renew, target, dest, r.until, ends)

AsksRequest(w) ==
  LET r == worker[w] IN
  /\ r.pc = "job" /\ now < r.until
  /\ \E o \in Origins : \E c :
       /\ Loose(c, w) /\ Posted(c, "authorize", r.url, r.token, o)
       /\ Goes(w, "authorize", c, r.target, o, r.ends)
SendsRequest(w) ==
  LET r == worker[w] IN
  /\ r.pc = "authorize" /\ now < r.until /\ Loose(r.main, w)
  /\ Reply(w) = "ok" /\ Dropped(r.main)
  /\ Goes(w, "http", NoCommand, r.target, r.dest, now + HttpMax)
EndsRequest(w) ==
  LET r == worker[w] IN
  /\ r.pc = "http" /\ calls' = calls
  /\ \E pc \in {"job", "page"} : Goes(w, pc, NoCommand, r.target, NoOrigin, 0)
AsksCall(w) ==
  LET r == worker[w] IN
  \E c, arg :
    /\ Loose(c, w)
    /\ \/ /\ r.pc = "http" /\ r.dest = r.target
          /\ Posted(c, "continue_redirect", r.url, r.token, arg)
          /\ Goes(w, "call", c, arg, NoOrigin, 0)
       \/ /\ r.pc = "job"
          /\ \E action \in {"robots_put", "discover"} : Posted(c, action, r.url, r.token, arg)
          /\ Goes(w, "call", c, r.target, r.dest, r.ends)
HearsCall(w) ==
  LET r == worker[w] IN
  /\ r.pc = "call" /\ Loose(r.main, w) /\ Reply(w) = "ok" /\ Dropped(r.main)
  /\ Goes(w, "job", NoCommand, r.target, r.dest, r.ends)
StagesPage(w) ==
  LET r == worker[w] IN
  /\ r.pc = "page"
  /\ \E c : /\ Loose(c, w) /\ Posted(c, "commit", r.url, r.token, pending'[w][r.url])
            /\ Goes(w, "commit", c, r.target, r.dest, r.ends)
NacksJob(w) ==
  LET r == worker[w] IN
  /\ r.pc \in Working
  /\ \E c, k : /\ Loose(c, w) /\ Posted(c, "nack", r.url, r.token, k)
               /\ Becomes(w, "nack", c, NoCommand, r.target, NoOrigin, r.until, r.ends)

(* Beside the job: its renewal and its cancellation.                       *)
Renewing(w, renew, until) ==
  LET r == worker[w] IN
  r.pc \in Working /\ Becomes(w, r.pc, r.main, renew, r.target, r.dest, until, r.ends)

AsksRenewal(w) ==
  LET r == worker[w] IN
  \E c : Loose(c, w) /\ Posted(c, "renew", r.url, r.token, NoUrl) /\ Renewing(w, c, r.until)
HearsRenewal(w) ==
  LET r == worker[w]  c == worker[w].renew IN
  /\ Loose(c, w) /\ Dropped(c)
  /\ \/ Renewing(w, NoCommand, r.until)
     \/ calls[c].reply = "ok" /\ now <= Deadline(c) /\ Renewing(w, NoCommand, Deadline(c))
LosesRenewal(w) ==
  LET r == worker[w] IN
  calls' = calls /\ \E c \in {r.renew, NoCommand} : Renewing(w, c, r.until)

Moves(w) ==
  \/ LeavesJob(w) \/ TakesJob(w) \/ AsksRequest(w) \/ SendsRequest(w) \/ EndsRequest(w)
  \/ AsksCall(w) \/ HearsCall(w) \/ StagesPage(w) \/ NacksJob(w)
  \/ AsksRenewal(w) \/ HearsRenewal(w) \/ LosesRenewal(w)

LEMMA EngagedSteps ==
  /\ Engaged \subseteq Working /\ Working = Engaged \cup {"commit"}
  /\ {"down", "reconcile", "idle", "claim", "nack"} \cap Working = {}
BY DEF Engaged, Working

(* A process without a job fits whatever its commands are. *)
LEMMA QuitFits ==
  ASSUME NEW w \in Workers, Quits(w)
  PROVE  Fits(w)'
<1>1. worker'[w] = [Down EXCEPT !.pc = worker'[w].pc] /\ worker'[w].pc \in {"down", "idle"}
  BY DEF Quits
<1>2. worker'[w].main = NoCommand /\ worker'[w].renew = NoCommand
  BY <1>1 DEF Down
<1>3. worker'[w].pc = "down" => worker'[w] = Down
  BY <1>1, RestRows
<1> QED
  BY <1>1, <1>2, <1>3 DEF Fits, Equipped, Waits, Working, Engaged

LEMMA QuitMoves ==
  ASSUME NEW w \in Workers, Quits(w), SameCalls(w)
  PROVE  LeavesJob(w)
BY DEF Quits, LeavesJob

(* A command that was answered or never used, once it is dropped. *)
LEMMA DropLoose ==
  ASSUME NEW w \in Workers, calls' = calls \/ \E c : Loose(c, w) /\ Dropped(c)
  PROVE  /\ SameCalls(w)
         /\ \/ calls' = calls
            \/ \E x : Loose(x, w) /\ CallsStay(x) /\ (calls'[x] # NoTx => Written(x)')
BY DEF SameCalls, Dropped

LEMMA CrashMoves ==
  ASSUME Fitting, now \in Nat, NEW w \in Workers, Crash(w)
  PROVE  Fitting' /\ Moves(w)
<1>1. UNCHANGED vars /\ calls' = calls /\ pending' = pending /\ Turn(w, Down)
  BY DEF Crash
<1>2. Types /\ faults' \in 0 .. MaxFaults
  BY WorkerConstants DEF Fitting, Types, Crash, Fault
<1>3. worker' \in [Workers -> Row] /\ Quits(w)
  BY <1>1, <1>2, Quitting
<1>4. Types'
  BY <1>1, <1>2, <1>3 DEF Types
<1>5. Fits(w)' /\ LeavesJob(w)
  BY <1>1, <1>3, QuitFits, QuitMoves, DropLoose
<1>6. Fitting'
  BY <1>1, <1>3, <1>4, <1>5, ProcessFrame DEF Quits
<1> QED
  BY <1>5, <1>6 DEF Moves

LEMMA StartMoves ==
  ASSUME Fitting, now \in Nat, NEW w \in Workers, Start(w)
  PROVE  Fitting' /\ Moves(w)
<1> DEFINE row == [Down EXCEPT !.pc = IF Staged(w) = {} THEN "idle" ELSE "reconcile",
                               !.todo = Staged(w)]
<1>1. /\ UNCHANGED vars /\ calls' = calls /\ pending' = pending /\ faults' = faults
      /\ Turn(w, row)
  BY DEF Start
<1>2. Types /\ Staged(w) \in SUBSET Urls
  BY DEF Fitting, Staged
<1>3. row \in Row
  BY <1>2, RestRows
<1>4. /\ row.pc \in {"idle", "reconcile"} /\ row.main = NoCommand /\ row.renew = NoCommand
      /\ row.todo = Staged(w)
  BY DEF Down
<1> HIDE DEF row
<1>5. worker' \in [Workers -> Row] /\ worker'[w] = row /\ OthersStay(w)
  BY <1>1, <1>2, <1>3, Turned
<1>6. Types'
  BY <1>1, <1>2, <1>5 DEF Types
<1>7. Fits(w)'
  BY <1>1, <1>4, <1>5 DEF Fits, Equipped, Waits, Working, Engaged, Staged
<1>8. LeavesJob(w)
  BY <1>1, <1>4, <1>5 DEF LeavesJob, SameCalls
<1>9. Fitting'
  BY <1>1, <1>5, <1>6, <1>7, ProcessFrame
<1> QED
  BY <1>8, <1>9 DEF Moves

LEMMA OfferMoves ==
  ASSUME Fitting, now \in Nat, NEW w \in Workers, Offer(w)
  PROVE  Fitting' /\ Moves(w)
<1>1. /\ UNCHANGED vars /\ pending' = pending /\ faults' = faults
      /\ worker[w].pc = "reconcile" /\ worker[w].main = NoCommand
  BY DEF Offer, Unchanged, Step
<1>2. PICK u \in worker[w].todo, c \in Free(w) :
        /\ calls' = Sent(c, [action |-> "commit", command |-> c, url |-> u,
                             token |-> NoToken, arg |-> pending[w][u]])
        /\ Turn(w, [worker[w] EXCEPT !.main = c])
  BY DEF Offer
<1>3. Types /\ Fits(w) /\ worker[w] \in Row
  BY DEF Fitting, Types
<1>4. u \in Urls /\ pending[w][u] \in Payloads /\ c \in Commands /\ Sender[c] = w
      /\ calls[c] = NoTx /\ NoToken \in Tokens /\ "commit" \in Calls
  BY <1>1, <1>3, FreeUnused, WorkerConstants DEF Fits, Equipped, Types, Row, NoToken, Tokens
<1>5. CallTypes' /\ Posted(c, "commit", u, NoToken, pending[w][u])
  BY <1>2, <1>3, <1>4, CallSent DEF Types, CallTypes, Actions, Argument
<1> DEFINE row == [worker[w] EXCEPT !.main = c]
<1>6. row \in Row /\ row.pc = "reconcile" /\ row.main = c /\ row.renew = worker[w].renew
      /\ row.todo = worker[w].todo
  BY <1>1, <1>3, <1>4 DEF Row
<1>7. Turn(w, row)
  BY <1>2
<1> HIDE DEF row
<1>8. worker' \in [Workers -> Row] /\ worker'[w] = row /\ OthersStay(w)
  BY <1>3, <1>6, <1>7, Turned
<1>9. Types'
  BY <1>1, <1>3, <1>5, <1>8 DEF Types, CallTypes
<1>10. worker[w].renew = NoCommand
  BY <1>1, <1>3 DEF Fits, AwaitsRenewal, Working
<1>11. Written(c)'
  BY <1>1, <1>4, <1>5, AskedArgs DEF Written, Won, Posted, NoReply, vars
<1>12. Fits(w)'
  <2>1. Awaits(w)'
    BY <1>1, <1>2, <1>4, <1>5, <1>6, <1>8, <1>10, WorkerConstants DEF Awaits, Posted, Working
  <2>2. Equipped(w)'
    BY <1>1, <1>3, <1>6, <1>8 DEF Fits, Equipped, Working, Engaged
  <2> QED
    BY <1>6, <1>8, <1>10, <2>1, <2>2 DEF Fits, Idles, Waits
<1>13. Loose(c, w)
  BY <1>4 DEF Loose
<1>14. LeavesJob(w)
  BY <1>5, <1>6, <1>8, <1>13 DEF LeavesJob
<1>15. Fitting'
  BY <1>1, <1>5, <1>8, <1>9, <1>11, <1>12, <1>13, ProcessFrame DEF Posted
<1> QED
  BY <1>14, <1>15 DEF Moves
LEMMA OfferAnsweredMoves ==
  ASSUME Fitting, now \in Nat, NEW w \in Workers, OfferAnswered(w)
  PROVE  Fitting' /\ Moves(w)
<1> DEFINE c == worker[w].main
           u == calls[c].req.url
           row == [worker[w] EXCEPT !.main = NoCommand, !.todo = @ \ {u},
                                    !.pc = IF worker[w].todo = {u} THEN "idle" ELSE @]
<1>1. /\ UNCHANGED vars /\ faults' = faults /\ worker[w].pc = "reconcile"
      /\ c # NoCommand /\ calls[c].reply # NoReply /\ calls' = Done(c)
  BY DEF OfferAnswered, Step, Replied
<1>2. \/ /\ Turn(w, row)
         /\ pending' = pending \/ pending' = [pending EXCEPT ![w][u] = NoCapture]
      \/ Turn(w, Down) /\ pending' = pending
  BY DEF OfferAnswered
<1>3. Types /\ Fits(w) /\ worker[w] \in Row /\ Awaits(w) /\ worker[w].renew = NoCommand
  BY <1>1 DEF Fitting, Types, Fits, AwaitsRenewal, Working
<1>4. c \in Commands /\ Sender[c] = w /\ Loose(c, w) /\ u \in Urls
  BY <1>1, <1>3 DEF Awaits, Loose, Row
<1>5. CallTypes' /\ Dropped(c) /\ CallsStay(c)
  BY <1>1, <1>3, <1>4, CallDropped DEF Types, CallTypes, Dropped
<1>6. SameCalls(w)
  BY <1>4, <1>5 DEF SameCalls
<1>7. CASE Turn(w, Down) /\ pending' = pending
  <2>1. worker' \in [Workers -> Row] /\ Quits(w)
    BY <1>3, <1>7, Quitting
  <2>2. Types'
    BY <1>1, <1>3, <1>5, <1>7, <2>1 DEF Types, CallTypes
  <2>3. Fits(w)' /\ LeavesJob(w)
    BY <1>6, <2>1, QuitFits, QuitMoves
  <2>4. Fitting'
    BY <1>1, <1>4, <1>5, <1>7, <2>1, <2>2, <2>3, ProcessFrame DEF Quits, Dropped
  <2> QED
    BY <2>3, <2>4 DEF Moves
<1>8. CASE /\ Turn(w, row)
           /\ pending' = pending \/ pending' = [pending EXCEPT ![w][u] = NoCapture]
  <2>1. /\ row \in Row /\ row.main = NoCommand /\ row.renew = NoCommand
        /\ row.pc \in {"idle", "reconcile"} /\ row.todo = worker[w].todo \ {u}
    BY <1>1, <1>3, <1>4, StepNames DEF Row
  <2> HIDE DEF row
  <2>2. worker' \in [Workers -> Row] /\ worker'[w] = row /\ OthersStay(w)
    BY <1>3, <1>8, <2>1, Turned
  <2>3. /\ pending' \in [Workers -> [Urls -> Payloads \cup {NoCapture}]]
        /\ \A v \in Workers : v # w => pending'[v] = pending[v]
        /\ \A v \in Urls : v # u => pending'[w][v] = pending[w][v]
    BY <1>3, <1>4, <1>8 DEF Types
  <2>4. Types'
    BY <1>1, <1>3, <1>5, <2>2, <2>3 DEF Types, CallTypes
  <2>5. Equipped(w)'
    BY <1>1, <1>3, <2>1, <2>2, <2>3 DEF Fits, Equipped, Working, Engaged, Row
  <2>6. Fits(w)'
    BY <2>1, <2>2, <2>5 DEF Fits, Waits
  <2>7. LeavesJob(w)
    BY <1>6, <2>1, <2>2 DEF LeavesJob
  <2>8. Fitting'
    BY <1>1, <1>4, <1>5, <2>2, <2>3, <2>4, <2>6, ProcessFrame DEF Dropped
  <2> QED
    BY <2>7, <2>8 DEF Moves
<1> QED
  BY <1>2, <1>7, <1>8

LEMMA ClaimMoves ==
  ASSUME Fitting, now \in Nat, NEW w \in Workers, Claim(w)
  PROVE  Fitting' /\ Moves(w)
<1>1. /\ UNCHANGED vars /\ pending' = pending /\ faults' = faults /\ worker[w].pc = "idle"
  BY DEF Claim, Unchanged, Step
<1>2. PICK c \in Free(w) : /\ calls' = Sending(c, w, "claim", NoUrl)
                           /\ Turn(w, [worker[w] EXCEPT !.pc = "claim", !.main = c])
  BY DEF Claim, StartCall
<1>3. Types /\ Fits(w) /\ worker[w] \in Row /\ worker[w].renew = NoCommand
  BY <1>1 DEF Fitting, Types, Fits, AwaitsRenewal, Working
<1>4. c \in Commands /\ Sender[c] = w /\ calls[c] = NoTx /\ Loose(c, w)
  BY FreeUnused DEF Loose
<1>5. CallTypes' /\ Posted(c, "claim", worker[w].url, worker[w].token, NoUrl)
  BY <1>2, <1>3, <1>4, Sends DEF Argument
<1> DEFINE row == [worker[w] EXCEPT !.pc = "claim", !.main = c]
<1>6. row \in Row /\ row.pc = "claim" /\ row.main = c /\ row.renew = NoCommand
  <2>1. "claim" \in Steps /\ c \in Commands \cup {NoCommand}
    BY <1>4, StepNames
  <2> QED
    BY <1>3, <2>1 DEF Row
<1>7. Turn(w, row)
  BY <1>2
<1> HIDE DEF row
<1>8. worker' \in [Workers -> Row] /\ worker'[w] = row /\ OthersStay(w)
  BY <1>3, <1>6, <1>7, Turned
<1>9. Types'
  BY <1>1, <1>3, <1>5, <1>8 DEF Types, CallTypes
<1>10. Written(c)'
  BY <1>1, <1>5 DEF Written, Won, Posted, NoReply, vars
<1>11. Fits(w)'
  BY <1>4, <1>5, <1>6, <1>8, WorkerConstants
  DEF Fits, Awaits, Equipped, Posted, Working, Engaged, Idles, Waits
<1>12. LeavesJob(w)
  BY <1>4, <1>5, <1>6, <1>8 DEF LeavesJob
<1>13. Fitting'
  BY <1>1, <1>4, <1>5, <1>8, <1>9, <1>10, <1>11, ProcessFrame DEF Posted
<1> QED
  BY <1>12, <1>13 DEF Moves

LEMMA ClaimAnsweredMoves ==
  ASSUME Fitting, now \in Nat, NEW w \in Workers, ClaimAnswered(w)
  PROVE  Fitting' /\ Moves(w)
<1> DEFINE c == worker[w].main
           r == calls[c].req
           late == now > Deadline(c) \/ (Full(w) /\ ~Resuming(w))
           pc == IF Resuming(w) THEN "page" ELSE "job"
           target == IF r.arg = NoOrigin THEN r.token[1] ELSE r.arg
           until == Deadline(c)
           lease == [Down EXCEPT
             !.pc = pc, !.url = r.url, !.token = r.token, !.target = target, !.until = until, !.resumed = Resuming(w), !.renewing = TRUE,
             !.renewAt = now + RenewEvery]
<1>1. /\ UNCHANGED <<vars, pending, faults>> /\ worker[w].pc = "claim"
      /\ c # NoCommand /\ calls[c].reply # NoReply /\ calls' = Done(c)
      /\ Turn(w, IF late THEN Down ELSE lease)
  BY DEF ClaimAnswered, Step, Replied
<1>2. Types /\ Fits(w) /\ Awaits(w)
  BY <1>1 DEF Fitting, Fits
<1>3. c \in Commands /\ Loose(c, w) /\ calls[c] # NoTx /\ r.action = "claim" /\ Written(c)
  BY <1>1, <1>2 DEF Awaits, Loose, Fitting
<1>4. Won(c) /\ Granted(r.token) /\ r.token[3] = r.url /\ r.arg \in Origins \cup {NoOrigin}
  BY <1>1, <1>3 DEF Written, Won
<1>5. CallTypes' /\ Dropped(c) /\ CallsStay(c)
  BY <1>1, <1>2, <1>3, CallDropped DEF Types, CallTypes, Dropped
<1>6. SameCalls(w)
  BY <1>3, <1>5 DEF SameCalls
<1>7. CASE late
  <2>1. worker' \in [Workers -> Row] /\ Quits(w)
    BY <1>1, <1>2, <1>7, Quitting
  <2>2. Types'
    BY <1>1, <1>2, <1>5, <2>1 DEF Types, CallTypes
  <2>3. Fits(w)' /\ LeavesJob(w)
    BY <1>6, <2>1, QuitFits, QuitMoves
  <2>4. Fitting'
    BY <1>1, <1>3, <1>5, <2>1, <2>2, <2>3, ProcessFrame DEF Quits, Dropped
  <2> QED
    BY <2>3, <2>4 DEF Moves
<1>8. CASE ~late
  <2>1. /\ r.token \in Tokens /\ r.url \in Urls /\ until \in Int /\ target \in Origins
        /\ Resuming(w) \in BOOLEAN /\ now + RenewEvery \in Nat
    <3>1. calls[c] \in [req : Request, started : Nat, reply : Answers]
      BY <1>2, <1>3, MessageIs DEF Types
    <3>2. r.token \in Tokens /\ calls[c].started \in Nat
      BY <3>1 DEF Request
    <3>3. Deadline(c) \in Int /\ now + RenewEvery \in Nat
      BY <3>2, WorkerConstants, NumberConstants DEF Deadline
    <3> QED
      BY <1>4, <3>2, <3>3 DEF Granted, Resuming
  <2>2. lease \in Row
    <3>1. pc \in Steps /\ Down \in Row
      BY StepNames, RestRows
    <3> HIDE DEF pc, target, until, r
    <3> QED
      BY <2>1, <3>1, RowTakes
  <2>3. /\ lease.pc = pc /\ lease.main = NoCommand
        /\ lease.renew = NoCommand /\ lease.url = r.url /\ lease.token = r.token
        /\ lease.target = target
        /\ lease.dest = NoOrigin /\ lease.until = until /\ lease.ends = 0
        /\ lease.resumed = Resuming(w)
    BY RestRows DEF Row, Down
  <2> HIDE DEF lease
  <2>4. worker' \in [Workers -> Row] /\ worker'[w] = lease /\ OthersStay(w)
    BY <1>1, <1>2, <1>8, <2>2, Turned
  <2>5. Types'
    BY <1>1, <1>2, <1>5, <2>4 DEF Types, CallTypes
  <2>6. Equipped(w)'
    BY <1>1, <1>4, <2>1, <2>3, <2>4 DEF Equipped, Working, Engaged, Granted, Resuming, vars, tables
  <2>7. Fits(w)'
    BY <2>3, <2>4, <2>6 DEF Fits, Waits
  <2>8. now <= Deadline(c)
    BY <1>8, <2>1
  <2>9. TakesJob(w)
    BY <1>1, <1>3, <1>4, <1>5, <2>3, <2>4, <2>8 DEF TakesJob, At
  <2>10. Fitting'
    BY <1>1, <1>3, <1>5, <2>4, <2>5, <2>7, ProcessFrame DEF Dropped
  <2> QED
    BY <2>9, <2>10 DEF Moves
<1> QED
  BY <1>7, <1>8
(* The job goes on as it was while its renewal changes. *)
LEMMA RenewalFits ==
  ASSUME NEW w \in Workers, Fits(w), NEW renew, NEW until, Renewing(w, renew, until),
         pending' = pending, origins' = origins, renew # NoCommand => AwaitsRenewal(w)',
         worker[w].main # NoCommand =>
           worker[w].main # renew /\ calls'[worker[w].main] = calls[worker[w].main]
  PROVE  Fits(w)'
<1> DEFINE r == worker[w]
           s == worker'[w]
<1>1. /\ r.pc \in Working /\ s.pc = r.pc /\ s.main = r.main /\ s.renew = renew
      /\ s.target = r.target /\ s.dest = r.dest
      /\ s.url = r.url /\ s.token = r.token /\ s.resumed = r.resumed /\ s.todo = r.todo
  BY DEF Renewing, Becomes, At, Job
<1> HIDE DEF s
<1>2. r.main # NoCommand => Awaits(w)'
  BY <1>1 DEF Fits, Awaits, Working, s
<1>3. Equipped(w)'
  BY <1>1 DEF Fits, Equipped, Working, Granted, s
<1> QED
  BY <1>1, <1>2, <1>3 DEF Fits, s

LEMMA ShutdownMoves ==
  ASSUME Fitting, now \in Nat, NEW w \in Workers, Shutdown(w)
  PROVE  Fitting' /\ Moves(w)
<1>1. UNCHANGED <<vars, pending, calls>> /\ worker[w].pc \in Working
      /\ Turn(w, [worker[w] EXCEPT !.cancelled = TRUE, !.draining = TRUE])
  BY DEF Shutdown
<1>2. Types /\ Fits(w) /\ worker[w] \in Row /\ faults' \in 0 .. MaxFaults
  BY WorkerConstants DEF Fitting, Types, Shutdown, Fault
<1> DEFINE r == worker[w]
           row == [worker[w] EXCEPT !.cancelled = TRUE, !.draining = TRUE]
<1>3. row \in Row /\ At(row, r.pc, r.main, r.renew, r.target, r.dest, r.until, r.ends)
      /\ Job(row, r)
  BY <1>2, RowCancels
<1>4. Turn(w, row)
  BY <1>1
<1> HIDE DEF row
<1>5. worker' \in [Workers -> Row] /\ worker'[w] = row /\ OthersStay(w)
  BY <1>2, <1>3, <1>4, Turned
<1>6. Types'
  BY <1>1, <1>2, <1>5 DEF Types
<1>7. Renewing(w, r.renew, r.until)
  BY <1>1, <1>3, <1>5 DEF Renewing, Becomes
<1>8. r.renew # NoCommand => AwaitsRenewal(w)'
  BY <1>1, <1>2, <1>3, <1>5 DEF Fits, AwaitsRenewal, At, Job
<1>9. r.main # NoCommand => r.main # r.renew
  BY <1>2 DEF Fits, Awaits
<1>10. Fits(w)'
  BY <1>1, <1>2, <1>7, <1>8, <1>9, RenewalFits DEF vars, tables
<1>11. LosesRenewal(w)
  BY <1>1, <1>7 DEF LosesRenewal
<1>12. Fitting'
  BY <1>1, <1>5, <1>6, <1>10, ProcessFrame
<1> QED
  BY <1>11, <1>12 DEF Moves

LEMMA RenewGivenUpMoves ==
  ASSUME Fitting, now \in Nat, NEW w \in Workers, RenewGivenUp(w)
  PROVE  Fitting' /\ Moves(w)
<1>1. UNCHANGED <<vars, pending, calls>> /\ worker[w].renew # NoCommand
      /\ Turn(w, [worker[w] EXCEPT !.renew = NoCommand, !.renewing = FALSE, !.cancelled = TRUE])
  BY DEF RenewGivenUp
<1>2. Types /\ Fits(w) /\ worker[w] \in Row /\ faults' \in 0 .. MaxFaults
      /\ worker[w].pc \in Working
  BY <1>1, WorkerConstants DEF Fitting, Types, RenewGivenUp, Fault, Fits, AwaitsRenewal
<1> DEFINE r == worker[w]
           row == [worker[w] EXCEPT !.renew = NoCommand, !.renewing = FALSE, !.cancelled = TRUE]
<1>3. row \in Row /\ At(row, r.pc, r.main, NoCommand, r.target, r.dest, r.until, r.ends)
      /\ Job(row, r)
  BY <1>2, RowUnrenewed
<1>4. Turn(w, row)
  BY <1>1
<1> HIDE DEF row
<1>5. worker' \in [Workers -> Row] /\ worker'[w] = row /\ OthersStay(w)
  BY <1>2, <1>3, <1>4, Turned
<1>6. Types'
  BY <1>1, <1>2, <1>5 DEF Types
<1>7. Renewing(w, NoCommand, r.until)
  BY <1>2, <1>3, <1>5 DEF Renewing, Becomes
<1>8. Fits(w)'
  BY <1>1, <1>2, <1>7, RenewalFits DEF vars, tables
<1>9. LosesRenewal(w)
  BY <1>1, <1>7 DEF LosesRenewal
<1>10. Fitting'
  BY <1>1, <1>5, <1>6, <1>8, ProcessFrame
<1> QED
  BY <1>9, <1>10 DEF Moves

LEMMA RenewMoves ==
  ASSUME Fitting, now \in Nat, NEW w \in Workers, Renew(w)
  PROVE  Fitting' /\ Moves(w)
<1>1. /\ UNCHANGED <<vars, pending>> /\ worker[w].pc \in Working
      /\ worker[w].renew = NoCommand /\ "renew" \in Calls
  BY DEF Renew
<1>2. PICK c \in Free(w) : /\ calls' = Sending(c, w, "renew", NoUrl)
                           /\ Turn(w, [worker[w] EXCEPT !.renew = c])
  BY DEF Renew
<1>3. Types /\ Fits(w) /\ worker[w] \in Row /\ faults' \in 0 .. MaxFaults
  BY WorkerConstants DEF Fitting, Types, Renew
<1>4. c \in Commands /\ Sender[c] = w /\ calls[c] = NoTx /\ Loose(c, w)
  BY FreeUnused DEF Loose
<1> DEFINE r == worker[w]
           row == [worker[w] EXCEPT !.renew = c]
<1>5. CallTypes' /\ Posted(c, "renew", r.url, r.token, NoUrl)
  BY <1>2, <1>3, <1>4, Sends DEF Argument, Actions
<1>6. row \in Row /\ At(row, r.pc, r.main, c, r.target, r.dest, r.until, r.ends) /\ Job(row, r)
  BY <1>3, <1>4, RowRenews
<1>7. Turn(w, row)
  BY <1>2
<1> HIDE DEF row
<1>8. worker' \in [Workers -> Row] /\ worker'[w] = row /\ OthersStay(w)
  BY <1>3, <1>6, <1>7, Turned
<1>9. Types'
  BY <1>1, <1>3, <1>5, <1>8 DEF Types, CallTypes
<1>10. Renewing(w, c, r.until)
  BY <1>1, <1>6, <1>8 DEF Renewing, Becomes
<1>11. AwaitsRenewal(w)'
  BY <1>1, <1>4, <1>5, <1>6, <1>8 DEF AwaitsRenewal, Posted, At, Job
<1>12. r.main # NoCommand => r.main # c /\ calls'[r.main] = calls[r.main]
  BY <1>3, <1>4, <1>5 DEF Fits, Awaits, Posted, CallsStay
<1>13. Fits(w)'
  BY <1>1, <1>3, <1>10, <1>11, <1>12, RenewalFits DEF vars, tables
<1>14. Written(c)'
  <2>1. Granted(r.token) /\ r.token[3] = r.url
    BY <1>1, <1>3 DEF Fits, Equipped
  <2>2. NoUrl \in Asked("renew")
    BY AskedArgs
  <2> QED
    BY <1>1, <1>4, <1>5, <2>1, <2>2, AsksWell DEF vars, tables
<1>15. AsksRenewal(w)
  BY <1>4, <1>5, <1>10 DEF AsksRenewal
<1>16. Fitting'
  BY <1>1, <1>4, <1>5, <1>8, <1>9, <1>13, <1>14, ProcessFrame DEF Posted
<1> QED
  BY <1>15, <1>16 DEF Moves

LEMMA RenewAnsweredMoves ==
  ASSUME Fitting, now \in Nat, NEW w \in Workers, RenewAnswered(w)
  PROVE  Fitting' /\ Moves(w)
<1> DEFINE r == worker[w]
           c == worker[w].renew
           renewed == calls[c].reply = "ok" /\ now <= Deadline(c)
           t == IF renewed THEN Deadline(c) ELSE r.until
           n == now + RenewEvery
           b == r.cancelled \/ ~renewed
           row == [worker[w] EXCEPT !.renew = NoCommand, !.until = t, !.renewing = renewed,
                                    !.renewAt = n, !.cancelled = b]
<1>1. /\ UNCHANGED <<vars, pending, faults>> /\ c # NoCommand /\ calls[c].reply # NoReply
      /\ calls' = Done(c) /\ Turn(w, row)
  BY DEF RenewAnswered, Replied
<1>2. Types /\ Fits(w) /\ worker[w] \in Row /\ AwaitsRenewal(w) /\ r.pc \in Working
  BY <1>1 DEF Fitting, Types, Fits, AwaitsRenewal
<1>3. c \in Commands /\ Loose(c, w) /\ calls[c] # NoTx
  BY <1>1, <1>2 DEF AwaitsRenewal, Loose
<1>4. CallTypes' /\ Dropped(c) /\ CallsStay(c)
  BY <1>1, <1>2, <1>3, CallDropped DEF Types, CallTypes, Dropped
<1>5. t \in Int /\ n \in Nat /\ renewed \in BOOLEAN /\ b \in BOOLEAN
  <2>1. calls[c].started \in Nat
    BY <1>2, <1>3, MessageIs DEF Types
  <2> QED
    BY <1>2, <2>1, WorkerConstants, NumberConstants DEF Deadline, Row
<1>6. t = r.until \/ (renewed /\ t = Deadline(c))
  OBVIOUS
<1>7. row \in Row /\ At(row, r.pc, r.main, NoCommand, r.target, r.dest, t, r.ends) /\ Job(row, r)
  <2> HIDE DEF t, n, b, renewed
  <2> QED
    BY <1>2, <1>5, RowRenewed
<1> HIDE DEF row, t, n, b
<1>8. worker' \in [Workers -> Row] /\ worker'[w] = row /\ OthersStay(w)
  BY <1>1, <1>2, <1>7, Turned
<1>9. Types'
  BY <1>1, <1>2, <1>4, <1>8 DEF Types, CallTypes
<1>10. Renewing(w, NoCommand, t)
  BY <1>2, <1>7, <1>8 DEF Renewing, Becomes
<1>11. r.main # NoCommand => calls'[r.main] = calls[r.main] /\ r.main # NoCommand
  BY <1>2, <1>4 DEF Fits, Awaits, CallsStay
<1>12. Fits(w)'
  BY <1>1, <1>2, <1>10, <1>11, RenewalFits DEF vars, tables
<1>13. HearsRenewal(w)
  BY <1>3, <1>4, <1>6, <1>10 DEF HearsRenewal
<1>14. Fitting'
  BY <1>1, <1>3, <1>4, <1>8, <1>9, <1>12, ProcessFrame DEF Dropped
<1> QED
  BY <1>13, <1>14 DEF Moves
(* The session of a process is over. *)
LEMMA EndMoves ==
  ASSUME Fitting, NEW w \in Workers, UNCHANGED vars, faults' \in 0 .. MaxFaults,
         Turn(w, Down) \/ Turn(w, [Down EXCEPT !.pc = "idle"]),
         calls' = calls \/ \E c : Loose(c, w) /\ calls' = Done(c),
         pending' = pending \/ \E u \in Urls : pending' = [pending EXCEPT ![w][u] = NoCapture]
  PROVE  Fitting' /\ Moves(w)
<1>1. Types
  BY DEF Fitting
<1>2. worker' \in [Workers -> Row] /\ Quits(w)
  BY <1>1, Quitting
<1>3. CallTypes' /\ (calls' = calls \/ \E c : Loose(c, w) /\ Dropped(c))
  BY <1>1, CallDropped DEF Types, CallTypes, Loose
<1>4. /\ pending' \in [Workers -> [Urls -> Payloads \cup {NoCapture}]]
      /\ \A v \in Workers : v # w => pending'[v] = pending[v]
  <2>1. CASE pending' = pending
    BY <1>1, <2>1 DEF Types
  <2>2. ASSUME NEW u \in Urls, pending' = [pending EXCEPT ![w][u] = NoCapture]
        PROVE  /\ pending' \in [Workers -> [Urls -> Payloads \cup {NoCapture}]]
               /\ \A v \in Workers : v # w => pending'[v] = pending[v]
    BY <1>1, <2>2 DEF Types
  <2> QED
    BY <2>1, <2>2
<1>5. Types'
  BY <1>2, <1>3, <1>4 DEF Types, CallTypes
<1>6. SameCalls(w)
  BY <1>3, DropLoose
<1>7. Fits(w)' /\ LeavesJob(w)
  BY <1>2, <1>6, QuitFits, QuitMoves
<1>8. Fitting'
  BY <1>2, <1>3, <1>4, <1>5, <1>7, DropLoose, ProcessFrame DEF Quits
<1> QED
  BY <1>7, <1>8 DEF Moves

(* The job is given back. *)
LEMMA NackMoves ==
  ASSUME Fitting, now \in Nat, NEW w \in Workers, UNCHANGED <<vars, pending>>,
         faults' \in 0 .. MaxFaults, worker[w].pc \in Working,
         NEW c, Loose(c, w), NEW kind \in Nacks, NackWith(w, c, kind)
  PROVE  Fitting' /\ Moves(w)
<1> DEFINE r == worker[w]
           k == IF kind = Permanent /\ r.url \in Staged(w) THEN Retry ELSE kind
           row == [worker[w] EXCEPT !.pc = "nack", !.main = c, !.renew = NoCommand,
                                    !.dest = NoOrigin]
<1>1. calls' = Sending(c, w, "nack", k) /\ Turn(w, row)
  BY DEF NackWith
<1>2. Types /\ Fits(w) /\ worker[w] \in Row /\ c \in Commands /\ Sender[c] = w
  BY DEF Fitting, Types, Loose
<1>3. k \in Nacks /\ k \in Argument
  BY WorkerConstants, ConstantAssumptions DEF Argument
<1> HIDE DEF k
<1>4. CallTypes' /\ Posted(c, "nack", r.url, r.token, k)
  BY <1>1, <1>2, <1>3, Sends DEF Actions
<1>5. row \in Row /\ At(row, "nack", c, NoCommand, r.target, NoOrigin, r.until, r.ends)
      /\ Job(row, r)
  BY <1>2, RowNacks
<1> HIDE DEF row
<1>6. worker' \in [Workers -> Row] /\ worker'[w] = row /\ OthersStay(w)
  BY <1>1, <1>2, <1>5, Turned
<1>7. Types'
  BY <1>2, <1>4, <1>6 DEF Types, CallTypes
<1>8. Becomes(w, "nack", c, NoCommand, r.target, NoOrigin, r.until, r.ends)
  BY <1>5, <1>6 DEF Becomes
<1>9. Fits(w)'
  <2>1. worker'[w].pc = "nack" /\ worker'[w].main = c /\ worker'[w].renew = NoCommand
    BY <1>8 DEF Becomes, At
  <2>2. Awaits(w)'
    BY <1>2, <1>4, <2>1, WorkerConstants DEF Awaits, Posted, Working
  <2> QED
    BY <1>2, <2>1, <2>2, WorkerConstants DEF Fits, Equipped, Working, Engaged, Idles
<1>10. Written(c)'
  <2>1. Granted(r.token) /\ r.token[3] = r.url /\ k \in Asked("nack") /\ "nack" \in Calls
    BY <1>2, <1>3, AskedArgs, WorkerConstants DEF Fits, Equipped
  <2> QED
    BY <1>2, <1>4, <2>1, AsksWell DEF vars, tables
<1>11. NacksJob(w)
  BY <1>4, <1>8 DEF NacksJob
<1>12. Fitting'
  BY <1>4, <1>6, <1>7, <1>9, <1>10, ProcessFrame DEF Posted
<1> QED
  BY <1>11, <1>12 DEF Moves

(* The job goes on. *)
LEMMA GoesFits ==
  ASSUME NEW w \in Workers, Fits(w), NEW pc \in Working \ {"commit"}, NEW main,
         NEW target \in Origins, NEW dest, NEW ends, Goes(w, pc, main, target, dest, ends),
         pc \in {"authorize", "http"} => dest \in Origins,
         pending' = pending, origins' = origins,
         worker[w].renew # NoCommand => calls'[worker[w].renew] = calls[worker[w].renew],
         \/ main = NoCommand /\ pc \in Idles
         \/ main # NoCommand /\ pc \in Waits /\ Awaits(w)'
  PROVE  Fits(w)'
<1> DEFINE r == worker[w]
           s == worker'[w]
<1>1. /\ r.pc \in Engaged /\ s.pc = pc /\ s.main = main /\ s.renew = r.renew
      /\ s.target = target /\ s.dest = dest
      /\ s.url = r.url /\ s.token = r.token /\ s.resumed = r.resumed /\ s.todo = r.todo
  BY DEF Goes, Becomes, At, Job
<1> HIDE DEF s
<1>2. r.renew # NoCommand => AwaitsRenewal(w)'
  BY <1>1 DEF Fits, AwaitsRenewal, Working, s
<1>3. Equipped(w)'
  BY <1>1 DEF Fits, Equipped, Working, Engaged, Granted, s
<1>4. s.pc \in Idles => main = NoCommand
  BY <1>1 DEF Idles, Waits
<1> QED
  BY <1>1, <1>2, <1>3, <1>4 DEF Fits, Idles, Waits, s

(* A step of the job that neither sends a call nor hears an answer, or     *)
(* hears one.                                                              *)
LEMMA HearMoves ==
  ASSUME Fitting, NEW w \in Workers, UNCHANGED <<vars, pending>>, faults' = faults,
         worker' \in [Workers -> Row], OthersStay(w), Fits(w)',
         calls' = calls \/ \E c : Loose(c, w) /\ calls' = Done(c)
  PROVE  Fitting'
<1>1. Types
  BY DEF Fitting
<1>2. CallTypes' /\ (calls' = calls \/ \E c : Loose(c, w) /\ Dropped(c))
  BY <1>1, CallDropped DEF Types, CallTypes, Loose
<1>3. Types'
  BY <1>1, <1>2 DEF Types, CallTypes
<1> QED
  BY <1>2, <1>3, DropLoose, ProcessFrame

(* A step of the job that sends a call. *)
LEMMA AskMoves ==
  ASSUME Fitting, now \in Nat, NEW w \in Workers, UNCHANGED <<vars, pending>>, faults' = faults,
         NEW c \in Free(w), NEW action \in Calls, NEW arg \in Asked(action), arg \in Argument,
         calls' = Sending(c, w, action, arg), worker[w].pc \in Working,
         worker' \in [Workers -> Row], OthersStay(w),
         Posted(c, action, worker[w].url, worker[w].token, arg) => Fits(w)'
  PROVE  Fitting' /\ Loose(c, w) /\ Posted(c, action, worker[w].url, worker[w].token, arg)
<1> DEFINE r == worker[w]
<1>1. Types /\ Fits(w) /\ c \in Commands /\ Loose(c, w)
  BY FreeUnused DEF Fitting, Loose
<1>2. CallTypes' /\ Posted(c, action, r.url, r.token, arg)
  <2>1. action \in Actions \cup {"claim"}
    BY ConstantAssumptions
  <2> QED
    BY <1>1, <2>1, Sends
<1>3. Types'
  BY <1>1, <1>2 DEF Types, CallTypes
<1>4. Granted(r.token) /\ r.token[3] = r.url
  BY <1>1 DEF Fits, Equipped
<1>5. Written(c)'
  BY <1>1, <1>2, <1>4, AsksWell DEF vars, tables
<1>6. Fitting'
  BY <1>1, <1>2, <1>3, <1>5, ProcessFrame DEF Posted
<1> QED
  BY <1>1, <1>2, <1>6
LEMMA AuthorizeMoves ==
  ASSUME Fitting, now \in Nat, NEW w \in Workers, NEW o \in Origins, Authorize(w, o)
  PROVE  Fitting' /\ Moves(w)
<1> DEFINE r == worker[w]
<1>1. UNCHANGED <<vars, pending, faults>> /\ r.pc = "job" /\ now < r.until
  BY DEF Authorize, Unchanged, Step, MaySend
<1>2. PICK c \in Free(w) :
        /\ calls' = Sending(c, w, "authorize", o)
        /\ Turn(w, [worker[w] EXCEPT !.pc = "authorize", !.main = c, !.dest = o])
  BY DEF Authorize
<1>3. Types /\ Fits(w) /\ r \in Row /\ c \in Commands /\ Sender[c] = w /\ calls[c] = NoTx
  BY FreeUnused DEF Fitting, Types
<1> DEFINE row == [worker[w] EXCEPT !.pc = "authorize", !.main = c, !.dest = o]
<1>4. row \in Row /\ At(row, "authorize", c, r.renew, r.target, o, r.until, r.ends)
      /\ Job(row, r)
  BY <1>3, RowAuthorizes
<1>5. Turn(w, row)
  BY <1>2
<1> HIDE DEF row
<1>6. worker' \in [Workers -> Row] /\ worker'[w] = row /\ OthersStay(w)
  BY <1>3, <1>4, <1>5, Turned
<1>7. Goes(w, "authorize", c, r.target, o, r.ends)
  BY <1>1, <1>4, <1>6 DEF Goes, Becomes, Engaged
<1>8. "authorize" \in Calls /\ o \in Asked("authorize") /\ o \in Argument
  BY AskedArgs, WorkerConstants DEF Argument
<1>9. ASSUME Posted(c, "authorize", r.url, r.token, o)
      PROVE  Fits(w)'
  <2>1. r.target \in Origins /\ r.pc \in Working
    BY <1>1, <1>3 DEF Fits, Equipped, Working
  <2>2. r.renew # NoCommand => r.renew # c /\ calls'[r.renew] = calls[r.renew]
    BY <1>3, <1>9 DEF Fits, AwaitsRenewal, Posted, CallsStay
  <2>3. Awaits(w)'
    BY <1>3, <1>4, <1>6, <1>9, <2>2, WorkerConstants DEF Awaits, Posted, At, Job
  <2>4. "authorize" \in Working \ {"commit"} /\ "authorize" \in Waits
    BY DEF Working, Waits
  <2>5. pending' = pending /\ origins' = origins /\ c # NoCommand
    BY <1>1, <1>3, WorkerConstants DEF vars, tables
  <2> QED
    BY <1>3, <1>7, <2>1, <2>2, <2>3, <2>4, <2>5, GoesFits
<1>10. r.pc \in Working
  BY <1>1 DEF Working
<1>11. Fitting' /\ Loose(c, w) /\ Posted(c, "authorize", r.url, r.token, o)
  BY <1>1, <1>2, <1>6, <1>8, <1>9, <1>10, AskMoves
<1>12. AsksRequest(w)
  BY <1>1, <1>7, <1>11 DEF AsksRequest
<1> QED
  BY <1>11, <1>12 DEF Moves

LEMMA SendHttpMoves ==
  ASSUME Fitting, now \in Nat, NEW w \in Workers, SendHttp(w)
  PROVE  Fitting' /\ Moves(w)
<1> DEFINE r == worker[w]
           e == now + HttpMax
           row == [worker[w] EXCEPT !.pc = "http", !.main = NoCommand, !.ends = e]
<1>1. /\ UNCHANGED <<vars, pending, faults>> /\ r.pc = "authorize" /\ now < r.until
      /\ r.main # NoCommand /\ calls[r.main].reply # NoReply /\ Reply(w) = "ok"
      /\ calls' = Done(r.main) /\ Turn(w, row)
  BY DEF SendHttp, Unchanged, Step, MaySend, Replied
<1>2. Types /\ Fits(w) /\ r \in Row /\ e \in Nat /\ Awaits(w)
  BY <1>1, WorkerConstants DEF Fitting, Types, Fits
<1>3. Loose(r.main, w) /\ r.main # r.renew
  BY <1>1, <1>2 DEF Awaits, Loose
<1>4. row \in Row /\ At(row, "http", NoCommand, r.renew, r.target, r.dest, r.until, e)
      /\ Job(row, r)
  <2> HIDE DEF e
  <2> QED
    BY <1>2, RowSends
<1> HIDE DEF row, e
<1>5. worker' \in [Workers -> Row] /\ worker'[w] = row /\ OthersStay(w)
  BY <1>1, <1>2, <1>4, Turned
<1>6. Goes(w, "http", NoCommand, r.target, r.dest, e)
  BY <1>1, <1>4, <1>5 DEF Goes, Becomes, Engaged
<1>7. CallTypes' /\ Dropped(r.main)
  BY <1>1, <1>2, <1>3, CallDropped DEF Types, CallTypes, Loose
<1>8. Fits(w)'
  <2>1. r.target \in Origins /\ r.dest \in Origins
    BY <1>1, <1>2 DEF Fits, Equipped, Working
  <2>2. r.renew # NoCommand => calls'[r.renew] = calls[r.renew]
    BY <1>2, <1>3, <1>7 DEF Fits, AwaitsRenewal, Dropped, CallsStay
  <2>3. "http" \in Working \ {"commit"} /\ "http" \in Idles
    BY DEF Working, Idles
  <2>4. pending' = pending /\ origins' = origins
    BY <1>1 DEF vars, tables
  <2> QED
    BY <1>2, <1>6, <2>1, <2>2, <2>3, <2>4, GoesFits
<1>9. Fitting'
  BY <1>1, <1>3, <1>5, <1>8, HearMoves
<1>10. SendsRequest(w)
  BY <1>1, <1>3, <1>6, <1>7 DEF SendsRequest, e
<1> QED
  BY <1>9, <1>10 DEF Moves

LEMMA LandMoves ==
  ASSUME Fitting, now \in Nat, NEW w \in Workers, Continue(w) \/ Fetched(w)
  PROVE  Fitting' /\ Moves(w)
<1> DEFINE r == worker[w]
<1>1. /\ UNCHANGED <<vars, pending, calls, faults>> /\ r.pc = "http"
      /\ \E pc \in {"job", "page"} :
           Turn(w, [worker[w] EXCEPT !.pc = pc, !.ends = 0, !.dest = NoOrigin])
  BY DEF Continue, Fetched, Crawled, Step, Landed
<1>2. PICK pc \in {"job", "page"} :
        Turn(w, [worker[w] EXCEPT !.pc = pc, !.ends = 0, !.dest = NoOrigin])
  BY <1>1
<1> DEFINE row == [worker[w] EXCEPT !.pc = pc, !.ends = 0, !.dest = NoOrigin]
<1>3. Types /\ Fits(w) /\ r \in Row /\ r.main = NoCommand
  BY <1>1 DEF Fitting, Types, Fits, Idles
<1>4. row \in Row /\ At(row, pc, NoCommand, r.renew, r.target, NoOrigin, r.until, 0)
      /\ Job(row, r)
  BY <1>3, RowLands, StepNames
<1>5. Turn(w, row)
  BY <1>2
<1> HIDE DEF row
<1>6. worker' \in [Workers -> Row] /\ worker'[w] = row /\ OthersStay(w)
  BY <1>3, <1>4, <1>5, Turned
<1>7. Goes(w, pc, NoCommand, r.target, NoOrigin, 0)
  BY <1>1, <1>4, <1>6 DEF Goes, Becomes, Engaged
<1>8. Fits(w)'
  <2>1. r.target \in Origins
    BY <1>1, <1>3 DEF Fits, Equipped, Working
  <2>2. pc \in Working \ {"commit"} /\ pc \in Idles /\ pc \notin {"authorize", "http"}
    BY DEF Working, Idles
  <2>3. pending' = pending /\ origins' = origins /\ calls' = calls
    BY <1>1 DEF vars, tables
  <2> QED
    BY <1>3, <1>7, <2>1, <2>2, <2>3, GoesFits
<1>9. Fitting'
  BY <1>1, <1>6, <1>8, HearMoves
<1>10. EndsRequest(w)
  BY <1>1, <1>7 DEF EndsRequest
<1> QED
  BY <1>9, <1>10 DEF Moves

(* A call that the job sends before it goes on.                            *)
LEMMA CallMoves ==
  ASSUME Fitting, now \in Nat, NEW w \in Workers, UNCHANGED <<vars, pending, faults>>,
         NEW c \in Free(w), NEW action \in {"continue_redirect", "robots_put", "discover"},
         action \in Calls, NEW arg \in Asked(action), calls' = Sending(c, w, action, arg),
         NEW row \in Row, Turn(w, row), NEW target \in Origins,
         action = "continue_redirect" => target = arg,
         NEW dest, NEW ends, worker[w].pc \in Engaged,
         At(row, "call", c, worker[w].renew, target, dest, worker[w].until, ends),
         Job(row, worker[w])
  PROVE  /\ Fitting' /\ Loose(c, w)
         /\ Posted(c, action, worker[w].url, worker[w].token, arg)
         /\ Goes(w, "call", c, target, dest, ends)
<1> DEFINE r == worker[w]
<1>1. Types /\ Fits(w) /\ r \in Row /\ c \in Commands /\ Sender[c] = w /\ calls[c] = NoTx
  BY FreeUnused DEF Fitting, Types
<1>2. worker' \in [Workers -> Row] /\ worker'[w] = row /\ OthersStay(w)
  BY <1>1, Turned
<1>3. Goes(w, "call", c, target, dest, ends)
  BY <1>2 DEF Goes, Becomes
<1>4. arg \in Argument
  BY AskedArgs DEF Argument
<1>5. ASSUME Posted(c, action, r.url, r.token, arg)
      PROVE  Fits(w)'
  <2>1. r.renew # NoCommand => r.renew # c /\ calls'[r.renew] = calls[r.renew]
    BY <1>1, <1>5 DEF Fits, AwaitsRenewal, Posted, CallsStay
  <2>2. Awaits(w)'
    BY <1>1, <1>2, <1>5, <2>1, WorkerConstants DEF Awaits, Posted, At, Job
  <2>3. "call" \in Working \ {"commit"} /\ "call" \in Waits
    BY DEF Working, Waits
  <2>4. pending' = pending /\ origins' = origins /\ c # NoCommand
    BY <1>1, WorkerConstants DEF vars, tables
  <2> QED
    BY <1>1, <1>3, <2>1, <2>2, <2>3, <2>4, GoesFits
<1>6. r.pc \in Working
  BY EngagedSteps
<1> QED
  BY <1>2, <1>3, <1>4, <1>5, <1>6, AskMoves

LEMMA RedirectedMoves ==
  ASSUME Fitting, now \in Nat, NEW w \in Workers, NEW o \in Origins, Redirected(w, o)
  PROVE  Fitting' /\ Moves(w)
<1> DEFINE r == worker[w]
<1>1. /\ UNCHANGED <<vars, pending, faults>> /\ r.pc = "http" /\ r.dest = r.target
      /\ "continue_redirect" \in Calls
  BY DEF Redirected, Unchanged, Crawled, Step
<1>2. PICK c \in Free(w) :
        /\ calls' = Sending(c, w, "continue_redirect", o)
        /\ Turn(w, [[worker[w] EXCEPT !.pc = "call", !.ends = 0, !.dest = NoOrigin]
                      EXCEPT !.main = c, !.target = o])
  BY DEF Redirected, Landed
<1> DEFINE row == [[worker[w] EXCEPT !.pc = "call", !.ends = 0, !.dest = NoOrigin]
                      EXCEPT !.main = c, !.target = o]
<1>3. r \in Row /\ c \in Commands /\ o \in Asked("continue_redirect") /\ r.pc \in Engaged
  BY <1>1, FreeUnused, AskedArgs DEF Fitting, Types, Engaged
<1>4. row \in Row /\ At(row, "call", c, r.renew, o, NoOrigin, r.until, 0) /\ Job(row, r)
  BY <1>3, RowRedirects
<1>5. Turn(w, row)
  BY <1>2
<1> HIDE DEF row
<1>6. /\ Fitting' /\ Loose(c, w) /\ Posted(c, "continue_redirect", r.url, r.token, o)
      /\ Goes(w, "call", c, o, NoOrigin, 0)
  BY <1>1, <1>2, <1>3, <1>4, <1>5, CallMoves
<1>7. AsksCall(w)
  BY <1>1, <1>6 DEF AsksCall
<1> QED
  BY <1>6, <1>7 DEF Moves

LEMMA AskCallMoves ==
  ASSUME Fitting, now \in Nat, NEW w \in Workers,
         \/ \E a \in RobotsAnswers : SaveRobots(w, a)
         \/ \E u \in Urls : Discovered(w, u)
  PROVE  Fitting' /\ Moves(w)
<1> DEFINE r == worker[w]
<1>1. /\ UNCHANGED <<vars, pending, faults>> /\ r.pc = "job"
      /\ \E action, arg :
           /\ action \in {"robots_put", "discover"} /\ action \in Calls
           /\ arg \in Asked(action) /\ StartCall(w, action, arg, "call")
  BY AskedArgs DEF SaveRobots, Discovered, Unchanged, Step
<1>2. PICK action, arg :
        /\ action \in {"robots_put", "discover"} /\ action \in Calls
        /\ arg \in Asked(action) /\ StartCall(w, action, arg, "call")
  BY <1>1
<1>3. PICK c \in Free(w) : /\ calls' = Sending(c, w, action, arg)
                           /\ Turn(w, [worker[w] EXCEPT !.pc = "call", !.main = c])
  BY <1>2 DEF StartCall
<1> DEFINE row == [worker[w] EXCEPT !.pc = "call", !.main = c]
<1>4. r \in Row /\ c \in Commands \cup {NoCommand} /\ "call" \in Steps /\ r.pc \in Engaged
      /\ r.target \in Origins
  BY <1>1, FreeUnused, StepNames DEF Fitting, Types, Engaged, Fits, Equipped, Working
<1>5. row \in Row /\ At(row, "call", c, r.renew, r.target, r.dest, r.until, r.ends)
      /\ Job(row, r)
  BY <1>4, RowCalls
<1>6. Turn(w, row)
  BY <1>3
<1> HIDE DEF row
<1>7. action \in {"continue_redirect", "robots_put", "discover"} /\ action # "continue_redirect"
      /\ action \in Calls /\ arg \in Asked(action)
  BY <1>2
<1>8. /\ Fitting' /\ Loose(c, w) /\ Posted(c, action, r.url, r.token, arg)
      /\ Goes(w, "call", c, r.target, r.dest, r.ends)
  BY <1>1, <1>3, <1>4, <1>5, <1>6, <1>7, CallMoves
<1>9. AsksCall(w)
  BY <1>1, <1>2, <1>8 DEF AsksCall
<1> QED
  BY <1>8, <1>9 DEF Moves
LEMMA AuthorizeRefusedMoves ==
  ASSUME Fitting, now \in Nat, NEW w \in Workers, AuthorizeRefused(w)
  PROVE  Fitting' /\ Moves(w)
<1> DEFINE c == worker[w].main
<1>1. /\ UNCHANGED <<vars, pending, faults>> /\ worker[w].pc = "authorize"
      /\ c # NoCommand /\ calls[c].reply # NoReply
      /\ \E kind \in {TurnOnly, Retry} : NackWith(w, c, kind)
  BY DEF AuthorizeRefused, Unchanged, Step, Replied
<1>2. PICK kind \in {TurnOnly, Retry} : NackWith(w, c, kind)
  BY <1>1
<1>3. Loose(c, w) /\ worker[w].pc \in Working /\ faults' \in 0 .. MaxFaults /\ kind \in Nacks
  BY <1>1, WorkerConstants DEF Fitting, Types, Fits, Awaits, Loose, Working
<1> QED
  BY <1>1, <1>2, <1>3, NackMoves

LEMMA CallAnsweredMoves ==
  ASSUME Fitting, now \in Nat, NEW w \in Workers, CallAnswered(w)
  PROVE  Fitting' /\ Moves(w)
<1> DEFINE r == worker[w]
           c == worker[w].main
           row == [worker[w] EXCEPT !.pc = "job", !.main = NoCommand]
<1>1. /\ UNCHANGED <<vars, pending, faults>> /\ r.pc = "call"
      /\ c # NoCommand /\ calls[c].reply # NoReply
      /\ \/ Reply(w) = "ok" /\ Turn(w, row) /\ calls' = Done(c)
         \/ \E kind \in {TurnOnly, Retry} : NackWith(w, c, kind)
  BY DEF CallAnswered, Unchanged, Step, Replied
<1>2. Types /\ Fits(w) /\ r \in Row /\ Awaits(w) /\ Loose(c, w) /\ r.pc \in Working
  BY <1>1 DEF Fitting, Types, Fits, Awaits, Loose, Working
<1>3. ASSUME NEW kind \in {TurnOnly, Retry}, NackWith(w, c, kind)
      PROVE  Fitting' /\ Moves(w)
  <2>1. kind \in Nacks /\ faults' \in 0 .. MaxFaults
    BY <1>1, <1>2, WorkerConstants DEF Types
  <2> QED
    BY <1>1, <1>2, <1>3, <2>1, NackMoves
<1>4. CASE Reply(w) = "ok" /\ Turn(w, row) /\ calls' = Done(c)
  <2>1. row \in Row /\ At(row, "job", NoCommand, r.renew, r.target, r.dest, r.until, r.ends)
        /\ Job(row, r)
    BY <1>2, RowCalls, StepNames
  <2> HIDE DEF row
  <2>2. worker' \in [Workers -> Row] /\ worker'[w] = row /\ OthersStay(w)
    BY <1>2, <1>4, <2>1, Turned
  <2>3. Goes(w, "job", NoCommand, r.target, r.dest, r.ends)
    BY <1>1, <2>1, <2>2 DEF Goes, Becomes, Engaged
  <2>4. CallTypes' /\ Dropped(c)
    BY <1>2, <1>4, CallDropped DEF Types, CallTypes, Loose
  <2>5. Fits(w)'
    <3>1. r.target \in Origins
      BY <1>1, <1>2 DEF Fits, Equipped, Working
    <3>2. r.renew # NoCommand => calls'[r.renew] = calls[r.renew]
      BY <1>2, <2>4 DEF Fits, AwaitsRenewal, Dropped, CallsStay, Awaits
    <3>3. "job" \in Working \ {"commit"} /\ "job" \in Idles /\ "job" \notin {"authorize", "http"}
      BY DEF Working, Idles
    <3>4. pending' = pending /\ origins' = origins
      BY <1>1 DEF vars, tables
    <3> QED
      BY <1>2, <2>3, <3>1, <3>2, <3>3, <3>4, GoesFits
  <2>6. Fitting'
    BY <1>1, <1>2, <1>4, <2>2, <2>5, HearMoves
  <2>7. HearsCall(w)
    BY <1>1, <1>2, <1>4, <2>3, <2>4 DEF HearsCall
  <2> QED
    BY <2>6, <2>7 DEF Moves
<1> QED
  BY <1>1, <1>3, <1>4

LEMMA StageMoves ==
  ASSUME Fitting, now \in Nat, NEW w \in Workers, Stage(w)
  PROVE  Fitting' /\ Moves(w)
<1> DEFINE r == worker[w]
           u == worker[w].url
           capture == IF r.resumed THEN pending[w][u] ELSE Draft[w]
<1>1. /\ UNCHANGED <<vars, faults>> /\ r.pc = "page"
      /\ \E c \in Free(w) :
           \/ NackWith(w, c, TurnOnly) /\ pending' = pending
           \/ /\ pending' = [pending EXCEPT ![w][u] = capture]
              /\ calls' = Sending(c, w, "commit", capture)
              /\ Turn(w, [worker[w] EXCEPT !.pc = "commit", !.main = c])
  <2>1. PICK c \in Free(w) :
           IF Full(w) /\ ~worker[w].resumed
           THEN NackWith(w, c, TurnOnly) /\ UNCHANGED pending
           ELSE /\ pending' = [pending EXCEPT ![w][u] = capture]
                /\ calls' = Sending(c, w, "commit", capture)
                /\ Turn(w, [worker[w] EXCEPT !.pc = "commit", !.main = c])
    BY DEF Stage
  <2>2. UNCHANGED <<vars, faults>> /\ r.pc = "page"
    BY DEF Stage, Step
  <2> QED
    BY <2>1, <2>2
<1>2. PICK c \in Free(w) :
        \/ NackWith(w, c, TurnOnly) /\ pending' = pending
        \/ /\ pending' = [pending EXCEPT ![w][u] = capture]
           /\ calls' = Sending(c, w, "commit", capture)
           /\ Turn(w, [worker[w] EXCEPT !.pc = "commit", !.main = c])
  BY <1>1
<1>3. /\ Types /\ Fits(w) /\ r \in Row /\ c \in Commands /\ Sender[c] = w /\ calls[c] = NoTx
      /\ Loose(c, w) /\ r.pc \in Working
  BY <1>1, FreeUnused DEF Fitting, Types, Loose, Working
<1>4. CASE NackWith(w, c, TurnOnly) /\ pending' = pending
  <2>1. TurnOnly \in Nacks /\ faults' \in 0 .. MaxFaults
    BY <1>1, <1>3, WorkerConstants DEF Types
  <2> QED
    BY <1>1, <1>3, <1>4, <2>1, NackMoves
<1>5. CASE /\ pending' = [pending EXCEPT ![w][u] = capture]
           /\ calls' = Sending(c, w, "commit", capture)
           /\ Turn(w, [worker[w] EXCEPT !.pc = "commit", !.main = c])
  <2> DEFINE row == [worker[w] EXCEPT !.pc = "commit", !.main = c]
  <2>1. Granted(r.token) /\ r.token[3] = u /\ u \in Urls /\ r.target \in Origins
        /\ (r.resumed <=> pending[w][u] # NoCapture)
    BY <1>1, <1>3 DEF Fits, Equipped, Working, Engaged, Granted
  <2>2. capture \in Payloads
    BY <1>3, <2>1, WorkerConstants DEF Types
  <2> HIDE DEF capture
  <2>3. /\ pending' \in [Workers -> [Urls -> Payloads \cup {NoCapture}]]
        /\ pending'[w][u] = capture
        /\ \A v \in Workers : v # w => pending'[v] = pending[v]
    BY <1>3, <1>5, <2>1, <2>2 DEF Types
  <2>4. CallTypes' /\ Posted(c, "commit", u, r.token, capture)
    BY <1>3, <1>5, <2>2, Sends DEF Argument, Actions
  <2>5. row \in Row /\ At(row, "commit", c, r.renew, r.target, r.dest, r.until, r.ends)
        /\ Job(row, r)
    <3>1. "commit" \in Steps /\ c \in Commands \cup {NoCommand}
      BY <1>3, StepNames
    <3> QED
      BY <1>3, <3>1, RowCalls
  <2>6. Turn(w, row)
    BY <1>5
  <2> HIDE DEF row
  <2>7. worker' \in [Workers -> Row] /\ worker'[w] = row /\ OthersStay(w)
    BY <1>3, <2>5, <2>6, Turned
  <2>8. Types'
    BY <1>1, <1>3, <2>3, <2>4, <2>7 DEF Types, CallTypes
  <2>9. Goes(w, "commit", c, r.target, r.dest, r.ends)
    BY <1>1, <2>5, <2>7 DEF Goes, Becomes, Engaged
  <2>10. r.renew # NoCommand => r.renew # c /\ calls'[r.renew] = calls[r.renew]
    BY <1>3, <2>4 DEF Fits, AwaitsRenewal, Posted, CallsStay
  <2>11. /\ worker'[w].pc = "commit" /\ worker'[w].main = c /\ worker'[w].renew = r.renew
         /\ worker'[w].url = u /\ worker'[w].token = r.token /\ worker'[w].target = r.target
    BY <2>9 DEF Goes, Becomes, At, Job
  <2>12. Awaits(w)'
    BY <1>3, <2>3, <2>4, <2>10, <2>11, WorkerConstants DEF Awaits, Posted
  <2>13. r.renew # NoCommand => AwaitsRenewal(w)'
    BY <1>3, <2>10, <2>11 DEF Fits, AwaitsRenewal, Working
  <2>14. Equipped(w)'
    <3>1. Granted(worker[w].token)'
      BY <1>1, <2>1, <2>11 DEF Granted, vars, tables
    <3> QED
      BY <2>1, <2>2, <2>3, <2>11, <3>1, ConstantAssumptions DEF Equipped, Engaged
  <2>15. Fits(w)'
    BY <1>3, <2>11, <2>12, <2>13, <2>14, WorkerConstants DEF Fits, Idles
  <2>16. Written(c)'
    <3>1. capture \in Asked("commit") /\ "commit" \in Calls
      BY <2>2, AskedArgs, WorkerConstants
    <3> QED
      BY <1>1, <1>3, <2>1, <2>4, <3>1, AsksWell DEF vars, tables
  <2>17. Fitting'
    BY <1>1, <1>3, <2>3, <2>4, <2>7, <2>8, <2>15, <2>16, ProcessFrame DEF Posted
  <2>18. StagesPage(w)
    BY <1>1, <1>3, <2>3, <2>4, <2>9 DEF StagesPage
  <2> QED
    BY <2>17, <2>18 DEF Moves
<1> QED
  BY <1>2, <1>4, <1>5

LEMMA EndedMoves ==
  ASSUME Fitting, now \in Nat, NEW w \in Workers, Confirmed(w) \/ Nacked(w)
  PROVE  Fitting' /\ Moves(w)
<1> DEFINE c == worker[w].main
           u == worker[w].url
<1>1. /\ UNCHANGED <<vars, faults>> /\ worker[w].pc \in {"commit", "nack"}
      /\ c # NoCommand /\ calls[c].reply # NoReply /\ calls' = Done(c)
      /\ Turn(w, Down) \/ Turn(w, [Down EXCEPT !.pc = "idle"])
      /\ \/ pending' = pending
         \/ worker[w].pc = "commit" /\ pending' = [pending EXCEPT ![w][u] = NoCapture]
  BY DEF Confirmed, Nacked, Ended, Unchanged, Step, Replied
<1>2. /\ Loose(c, w) /\ (worker[w].pc = "commit" => u \in Urls)
      /\ faults' \in 0 .. MaxFaults
  BY <1>1 DEF Fitting, Types, Fits, Awaits, Loose, Equipped, Working, Granted
<1>3. pending' = pending \/ \E v \in Urls : pending' = [pending EXCEPT ![w][v] = NoCapture]
  BY <1>1, <1>2
<1> QED
  BY <1>1, <1>2, <1>3, EndMoves

LEMMA NotConfirmedMoves ==
  ASSUME Fitting, now \in Nat, NEW w \in Workers, NotConfirmed(w)
  PROVE  Fitting' /\ Moves(w)
<1> DEFINE c == worker[w].main
<1>1. /\ UNCHANGED <<vars, pending, faults>> /\ worker[w].pc = "commit"
      /\ c # NoCommand /\ calls[c].reply # NoReply
      /\ \/ Turn(w, Down) /\ calls' = Done(c)
         \/ NackWith(w, c, TurnOnly)
  BY DEF NotConfirmed, Unchanged, Step, Replied
<1>2. Loose(c, w) /\ worker[w].pc \in Working /\ faults' \in 0 .. MaxFaults /\ TurnOnly \in Nacks
  BY <1>1, WorkerConstants DEF Fitting, Types, Fits, Awaits, Loose, Working
<1>3. CASE Turn(w, Down) /\ calls' = Done(c)
  BY <1>1, <1>2, <1>3, EndMoves
<1>4. CASE NackWith(w, c, TurnOnly)
  BY <1>1, <1>2, <1>4, NackMoves
<1> QED
  BY <1>1, <1>3, <1>4

LEMMA GiveUpMoves ==
  ASSUME Fitting, now \in Nat, NEW w \in Workers,
         GivenUp(w) \/ \E kind \in GiveUps : GiveUpPage(w, kind)
  PROVE  Fitting' /\ Moves(w)
<1>1. Types /\ faults' \in 0 .. MaxFaults
  <2>1. CASE GivenUp(w)
    BY <2>1, WorkerConstants DEF GivenUp, Fault, Fitting, Types
  <2>2. CASE \E kind \in GiveUps : GiveUpPage(w, kind)
    BY <2>2 DEF GiveUpPage, Unchanged, Fitting, Types
  <2> QED
    BY <2>1, <2>2
<1>2. UNCHANGED <<vars, pending>>
  BY DEF GivenUp, GiveUpPage, Unchanged
<1>3. \/ Turn(w, Down) /\ calls' = calls
      \/ /\ worker[w].pc \in Working
         /\ \E c \in Free(w), kind \in Nacks : NackWith(w, c, kind)
  <2>1. CASE GivenUp(w)
    BY <2>1, WorkerConstants DEF GivenUp, Working
  <2>2. CASE \E kind \in GiveUps : GiveUpPage(w, kind)
    BY <2>2, WorkerConstants DEF GiveUpPage, Working, Step
  <2> QED
    BY <2>1, <2>2
<1>4. CASE Turn(w, Down) /\ calls' = calls
  BY <1>1, <1>2, <1>4, EndMoves
<1>5. ASSUME worker[w].pc \in Working, NEW c \in Free(w), NEW kind \in Nacks, NackWith(w, c, kind)
      PROVE  Fitting' /\ Moves(w)
  <2>1. Loose(c, w)
    BY FreeUnused DEF Loose
  <2> QED
    BY <1>1, <1>2, <1>5, <2>1, NackMoves
<1> QED
  BY <1>3, <1>4, <1>5

(* Every step of a process is one of the moves, and processes and messages *)
(* keep fitting each other.                                                *)
LEMMA ProcessMoves ==
  ASSUME Fitting, now \in Nat, NEW w \in Workers, Process(w) \/ Shutdown(w) \/ Crash(w)
  PROVE  Fitting' /\ Moves(w)
<1>1. CASE \/ Start(w) \/ Offer(w) \/ OfferAnswered(w) \/ Claim(w) \/ ClaimAnswered(w)
  BY <1>1, StartMoves, OfferMoves, OfferAnsweredMoves, ClaimMoves, ClaimAnsweredMoves
<1>2. CASE Renew(w) \/ RenewAnswered(w) \/ RenewGivenUp(w) \/ Shutdown(w) \/ Crash(w)
  BY <1>2, RenewMoves, RenewAnsweredMoves, RenewGivenUpMoves, ShutdownMoves, CrashMoves
<1>3. CASE \E o \in Origins : Authorize(w, o) \/ Redirected(w, o)
  BY <1>3, AuthorizeMoves, RedirectedMoves
<1>4. CASE SendHttp(w) \/ AuthorizeRefused(w) \/ Continue(w) \/ Fetched(w)
  BY <1>4, SendHttpMoves, AuthorizeRefusedMoves, LandMoves
<1>5. CASE (\E a \in RobotsAnswers : SaveRobots(w, a)) \/ (\E u \in Urls : Discovered(w, u))
  BY <1>5, AskCallMoves
<1>6. CASE CallAnswered(w) \/ Stage(w) \/ Confirmed(w) \/ NotConfirmed(w) \/ Nacked(w)
  BY <1>6, CallAnsweredMoves, StageMoves, EndedMoves, NotConfirmedMoves
<1>7. CASE GivenUp(w) \/ \E kind \in GiveUps : GiveUpPage(w, kind)
  BY <1>7, GiveUpMoves
<1> QED
  BY <1>1, <1>2, <1>3, <1>4, <1>5, <1>6, <1>7, Zenon DEF Process
-----------------------------------------------------------------------------
(* Steps of the frontier *)

(* Time passes, and epochs only grow.                                      *)
Aging ==
  /\ now \in Nat /\ now' \in Nat /\ now <= now'
  /\ \A o \in Origins : /\ origins[o].epoch \in Nat /\ origins'[o].epoch \in Nat
                        /\ origins[o].epoch <= origins'[o].epoch

LEMMA GrantedStays ==
  ASSUME Aging, NEW k \in Tokens, Granted(k)
  PROVE  Granted(k)'
BY DEF Aging, Granted, Tokens

LEMMA MessageTypes ==
  ASSUME CallTypes, NEW c \in Commands, calls[c] # NoTx
  PROVE  /\ calls[c].req \in Request /\ calls[c].req.token \in Tokens
         /\ calls[c].started \in Nat /\ calls[c].reply \in Answers
<1>1. calls[c] \in [req : Request, started : Nat, reply : Answers]
  BY MessageIs DEF CallTypes
<1>2. calls[c].req \in Request /\ calls[c].started \in Nat /\ calls[c].reply \in Answers
  BY <1>1
<1> QED
  BY <1>2 DEF Request

LEMMA WrittenStays ==
  ASSUME CallTypes, Aging, NEW c \in Commands, calls[c] # NoTx, calls'[c] = calls[c], Written(c)
  PROVE  Written(c)'
<1>1. calls[c].req.token \in Tokens /\ calls[c].started \in Nat
  BY MessageTypes
<1>2. Granted(calls[c].req.token) => Granted(calls[c].req.token)'
  <2> DEFINE k == calls[c].req.token
  <2>1. k \in Tokens /\ calls'[c].req.token = k
    BY <1>1
  <2>2. Granted(k) => /\ k[1] \in Origins /\ k[3] \in Urls /\ 1 <= k[2]
                      /\ k[2] <= origins'[k[1]].epoch
    BY <2>1 DEF Granted, Aging, Tokens
  <2> QED
    BY <2>1, <2>2 DEF Granted
<1> QED
  BY <1>1, <1>2 DEF Written, Won, Aging

(* The frontier touches the message c, if any, and no process.             *)
LEMMA ServedFrame ==
  ASSUME Fitting, Aging, worker' = worker, pending' = pending, faults' \in 0 .. MaxFaults,
         CallTypes', NEW c, CallsStay(c), c \in Commands /\ calls'[c] # NoTx => Written(c)',
         \/ c \notin Commands
         \/ /\ calls'[c] # NoTx
            /\ \/ calls'[c].req = calls[c].req
               \/ calls[c].req.action = "claim" /\ calls'[c].req.action = "claim"
         \/ \A w \in Workers : worker[w].main # c /\ worker[w].renew # c
  PROVE  /\ Types' /\ \A w \in Workers : Fits(w)'
         /\ \A d \in Commands : calls'[d] # NoTx => Written(d)'
<1>1. Types'
  BY DEF Fitting, Types, CallTypes
<1>2. ASSUME NEW d \in Commands, calls'[d] # NoTx
      PROVE  Written(d)'
  <2>1. CASE d = c
    BY <1>2, <2>1
  <2>2. CASE d # c
    <3>1. calls'[d] = calls[d] /\ CallTypes /\ Written(d)
      BY <1>2, <2>2 DEF CallsStay, Fitting, Types, CallTypes
    <3> QED
      BY <1>2, <3>1, WrittenStays
  <2> QED
    BY <2>1, <2>2
<1>3. ASSUME NEW w \in Workers
      PROVE  Fits(w)'
  <2>1. Fits(w) /\ worker[w] \in Row /\ worker[w].token \in Tokens
    BY DEF Fitting, Types, Row
  <2>2. Equipped(w)'
    <3>1. Granted(worker[w].token) => Granted(worker[w].token)'
      BY <2>1 DEF Granted, Aging, Tokens
    <3> QED
      BY <2>1, <3>1 DEF Fits, Equipped
  <2>3. worker[w].main # NoCommand => Awaits(w)'
    <3>1. SUFFICES ASSUME worker[w].main # NoCommand PROVE Awaits(w)'
      OBVIOUS
    <3>2. Awaits(w)
      BY <2>1, <3>1 DEF Fits
    <3>3. CASE worker[w].main # c
      <4>1. calls'[worker[w].main] = calls[worker[w].main]
        BY <3>2, <3>3 DEF Awaits, CallsStay
      <4> QED
        BY <3>2, <4>1 DEF Awaits
    <3>4. CASE worker[w].main = c
      <4>1. calls'[c] # NoTx /\ c \in Commands
        BY <3>2, <3>4 DEF Awaits
      <4>2. CASE calls'[c].req = calls[c].req
        BY <3>2, <3>4, <4>1, <4>2 DEF Awaits
      <4>3. CASE calls[c].req.action = "claim" /\ calls'[c].req.action = "claim"
        <5>1. worker[w].pc = "claim"
          BY <2>1, <3>1, <3>2, <3>4, <4>3 DEF Awaits, Fits, Idles, Row, Steps
        <5> QED
          BY <3>2, <3>4, <4>1, <4>3, <5>1 DEF Awaits, Working
      <4> QED
        BY <3>4, <4>1, <4>2, <4>3
    <3> QED
      BY <3>3, <3>4
  <2>4. worker[w].renew # NoCommand => AwaitsRenewal(w)'
    <3>1. SUFFICES ASSUME worker[w].renew # NoCommand PROVE AwaitsRenewal(w)'
      OBVIOUS
    <3>2. AwaitsRenewal(w)
      BY <2>1, <3>1 DEF Fits
    <3>3. CASE worker[w].renew # c
      <4>1. calls'[worker[w].renew] = calls[worker[w].renew]
        BY <3>2, <3>3 DEF AwaitsRenewal, CallsStay
      <4> QED
        BY <3>2, <4>1 DEF AwaitsRenewal
    <3>4. CASE worker[w].renew = c
      BY <3>2, <3>4 DEF AwaitsRenewal
    <3> QED
      BY <3>3, <3>4
  <2> QED
    BY <2>1, <2>2, <2>3, <2>4 DEF Fits
<1> QED
  BY <1>1, <1>2, <1>3

(* The command c is not one that a transaction or a snapshot is about. *)
LEMMA NotExecuting ==
  ASSUME NEW c \in Commands, ~Executing(c)
  PROVE  pick[c] = NoUrl /\ \A u \in Urls : tx[u] # NoTx => tx[u].req.command # c
BY DEF Executing

LEMMA UnderwayStays ==
  ASSUME Fitting, NEW c, CallsStay(c), tx' = tx, \A d \in Commands : d # c => pick'[d] = pick[d],
         \A u \in Urls : tx[u] # NoTx => tx[u].req.command # c
  PROVE  \A u \in Urls : tx'[u] # NoTx => Underway(u)'
BY DEF Fitting, Underway, CallsStay
LEMMA QuietAging ==
  ASSUME Base, origins' = origins, now' \in {now, now + 1}
  PROVE  Aging
BY LeaseTypes DEF Aging

LEMMA FinishAging ==
  ASSUME Base, Leased, NEW u \in Urls, Finish(u)
  PROVE  Aging
<1>1. now' = now
  BY DEF Finish
<1>2. \A o \in Origins : origins'[o].epoch = origins[o].epoch \/ origins'[o].epoch = origins[o].epoch + 1
  BY LeaseMoves DEF NewLease
<1> QED
  BY <1>1, <1>2, LeaseTypes DEF Aging

LEMMA PickFits ==
  ASSUME Base, Fitting, NEW c \in Commands, ServePick(c)
  PROVE  Fitting'
<1>1. /\ UNCHANGED workerVars /\ now' = now /\ origins' = origins /\ tx' = tx
      /\ \E u \in Urls : pick' = [pick EXCEPT ![c] = u]
      /\ Picking(c) /\ ~Executing(c)
  BY DEF ServePick, ClaimPick, tables, Claiming, Known, Picking
<1>2. CallsStay(c) /\ \A d \in Commands : d # c => pick'[d] = pick[d]
  BY <1>1 DEF Base, TypeOK, workerVars, CallsStay
<1>3. \A u \in Urls : tx'[u] # NoTx => Underway(u)'
  BY <1>1, <1>2, NotExecuting, UnderwayStays
<1>4. \A d \in Commands : pick'[d] # NoUrl => Picking(d)'
  BY <1>1, <1>2 DEF Fitting, Picking, workerVars
<1>5. Aging /\ CallTypes' /\ faults' \in 0 .. MaxFaults
  BY <1>1, QuietAging DEF workerVars, Fitting, Types, CallTypes
<1>6. CallsStay(NoCommand)
  BY <1>1 DEF workerVars, CallsStay
<1>7. /\ Types' /\ \A w \in Workers : Fits(w)'
      /\ \A d \in Commands : calls'[d] # NoTx => Written(d)'
  BY <1>1, <1>5, <1>6, WorkerConstants, ServedFrame DEF workerVars
<1> QED
  BY <1>3, <1>4, <1>7 DEF Fitting

(* A claim that finds nothing starts over, if its process still waits.     *)
LEMMA AskAgainFits ==
  ASSUME Base, Fitting, NEW c \in Commands, AskAgain(c), Picking(c),
         now' = now, origins' = origins, tx' = tx,
         UNCHANGED <<worker, pending, faults>>,
         \A d \in Commands : d # c => pick'[d] = pick[d],
         pick'[c] = NoUrl, \A u \in Urls : tx[u] # NoTx => tx[u].req.command # c
  PROVE  /\ Fitting'
         /\ \/ Restarts(c)
            \/ Dropped(c) /\ \A w \in Workers : worker[w].main # c /\ worker[w].renew # c
<1>1. Types /\ CallTypes /\ now \in Nat /\ Written(c) /\ calls[c] # NoTx
  BY LeaseTypes DEF Fitting, Types, CallTypes, Picking
<1>2. ASSUME NEW w \in Workers, worker[w].renew = c
      PROVE  FALSE
  BY <1>2, WorkerConstants DEF Fitting, Fits, AwaitsRenewal, Picking
<1>3. \/ Restarts(c) /\ CallTypes'
      \/ Dropped(c) /\ CallTypes' /\ \A w \in Workers : worker[w].main # c /\ worker[w].renew # c
  <2>1. CASE worker[Sender[c]].main = c
    BY <1>1, <2>1, CallRestarted DEF AskAgain
  <2>2. CASE worker[Sender[c]].main # c
    <3>1. ASSUME NEW w \in Workers, worker[w].main = c
          PROVE  FALSE
      BY <2>2, <3>1, WorkerConstants DEF Fitting, Fits, Awaits
    <3> QED
      BY <1>1, <1>2, <2>2, <3>1, CallDropped DEF AskAgain
  <2> QED
    BY <2>1, <2>2
<1>4. CallsStay(c) /\ CallTypes'
  BY <1>3 DEF Restarts, Dropped
<1>5. calls'[c] # NoTx => Written(c)'
  BY <1>1, <1>3 DEF Restarts, Dropped, Written, Won, Granted
<1>6. Aging /\ faults' \in 0 .. MaxFaults
  BY QuietAging DEF Fitting, Types
<1>7. \/ calls'[c] # NoTx /\ calls'[c].req = calls[c].req
      \/ \A w \in Workers : worker[w].main # c /\ worker[w].renew # c
  BY <1>3 DEF Restarts
<1>8. /\ Types' /\ \A w \in Workers : Fits(w)'
      /\ \A d \in Commands : calls'[d] # NoTx => Written(d)'
  BY <1>4, <1>5, <1>6, <1>7, ServedFrame
<1>9. \A u \in Urls : tx'[u] # NoTx => Underway(u)'
  BY <1>4, UnderwayStays
<1>10. \A d \in Commands : pick'[d] # NoUrl => Picking(d)'
  BY <1>4 DEF Fitting, Picking, CallsStay
<1>11. Fitting'
  BY <1>8, <1>9, <1>10 DEF Fitting
<1> QED
  BY <1>3, <1>11

LEMMA NoneFits ==
  ASSUME Base, Fitting, NEW c \in Commands, ServeNone(c) \/ ServeEmpty(c)
  PROVE  /\ Fitting'
         /\ \/ Restarts(c)
            \/ Dropped(c) /\ \A w \in Workers : worker[w].main # c /\ worker[w].renew # c
<1>1. /\ AskAgain(c) /\ now' = now /\ origins' = origins /\ tx' = tx
      /\ UNCHANGED <<worker, pending, faults>>
  BY DEF ServeNone, ServeEmpty, ClaimEmpty, vars, tables
<1>2. CASE ServeNone(c)
  <2>1. Picking(c) /\ ~Executing(c) /\ pick' = pick
    BY <1>2 DEF ServeNone, Claiming, Known, Picking, vars
  <2>2. pick[c] = NoUrl /\ \A u \in Urls : tx[u] # NoTx => tx[u].req.command # c
    BY <2>1, NotExecuting
  <2> QED
    BY <1>1, <2>1, <2>2, AskAgainFits
<1>3. CASE ServeEmpty(c)
  <2>1. pick[c] # NoUrl /\ pick' = [pick EXCEPT ![c] = NoUrl]
    BY <1>3 DEF ServeEmpty, ClaimEmpty
  <2>2. pick'[c] = NoUrl /\ (\A d \in Commands : d # c => pick'[d] = pick[d]) /\ Picking(c)
    BY <2>1 DEF Base, TypeOK, Fitting
  <2>3. \A u \in Urls : tx[u] # NoTx => tx[u].req.command # c
    BY <2>1 DEF Fitting, Underway
  <2> QED
    BY <1>1, <2>2, <2>3, AskAgainFits
<1> QED
  BY <1>2, <1>3

LEMMA ServeClaimFits ==
  ASSUME Base, Fitting, NEW c \in Commands, ServeClaim(c)
  PROVE  /\ Fitting' /\ CallsStay(c) /\ Picking(c) /\ Picking(c)'
         /\ calls'[c].started = calls[c].started
<1> DEFINE u == pick[c]
           r == [action |-> "claim", command |-> c, url |-> u,
                 token |-> <<urls[u].origin, origins[urls[u].origin].epoch + 1, u>>,
                 arg |-> urls[u].continuation]
           t == [req |-> r, at |-> now, locks |-> {urls[u].origin}, slots |-> FALSE,
                 verdict |-> "ok"]
<1>1. /\ ClaimBegin(c) /\ u # NoUrl /\ tx' = [tx EXCEPT ![u] = t]
      /\ pick' = [pick EXCEPT ![c] = NoUrl] /\ now' = now /\ origins' = origins
      /\ calls' = [calls EXCEPT ![c].req = tx'[u].req]
      /\ UNCHANGED <<worker, pending, faults>>
  BY DEF ServeClaim, ClaimBegin, ClaimGives, tables
<1>2. u \in Urls /\ tx'[u] = t /\ \A v \in Urls : v # u => tx'[v] = tx[v]
  BY <1>1 DEF Base, TypeOK
<1>3. r \in Request
  <2>2. urls[u].continuation \in Argument
    BY <1>2 DEF Base, TypeOK, UrlRow, Argument, NoUrl, NoOrigin
  <2>3. <<urls[u].origin, origins[urls[u].origin].epoch + 1, u>> \in Tokens
    <3>1. origins[urls[u].origin].epoch \in Nat
      BY <1>2 DEF Base, TypeOK, UrlRow, OriginRow
    <3>2. urls[u].origin \in Nat /\ u \in Nat
      BY <1>2, LeaseTypes, ConstantAssumptions
    <3> QED
      BY <3>1, <3>2 DEF Tokens
  <2> QED
    BY <1>2, <2>2, <2>3 DEF Request
<1>4. r.action = "claim" /\ r.command = c /\ t.req = r /\ t.at = now /\ t.verdict = "ok"
  OBVIOUS
<1> HIDE DEF r, t
<1>5. Picking(c) /\ CallTypes /\ Types /\ Written(c) /\ calls[c].reply = NoReply
  BY <1>1 DEF Fitting, Types, CallTypes, Picking
<1>6. CallTypes' /\ Rewrites(c, r)
  <2>1. calls' = [calls EXCEPT ![c].req = r]
    BY <1>1, <1>2, <1>4
  <2> QED
    BY <1>3, <1>5, <2>1, CallRewritten DEF Picking
<1>7. Written(c)'
  BY <1>1, <1>4, <1>5, <1>6 DEF Written, Won, Rewrites, NoReply
<1>8. Aging /\ faults' \in 0 .. MaxFaults /\ CallsStay(c)
  BY <1>1, <1>6, QuietAging DEF Fitting, Types, Rewrites
<1>9. calls[c].req.action = "claim" /\ calls'[c].req.action = "claim" /\ calls'[c] # NoTx
  BY <1>4, <1>5, <1>6 DEF Picking, Rewrites
<1>10. /\ Types' /\ \A w \in Workers : Fits(w)'
       /\ \A d \in Commands : calls'[d] # NoTx => Written(d)'
  BY <1>1, <1>6, <1>7, <1>8, <1>9, ServedFrame
<1>11. ASSUME NEW v \in Urls, tx'[v] # NoTx
       PROVE  Underway(v)'
  <2>1. CASE v = u
    <3>1. pick'[c] = NoUrl
      BY <1>1 DEF Base, TypeOK
    <3>2. calls'[c] # NoTx /\ calls'[c].reply = NoReply /\ calls'[c].req = r
          /\ calls'[c].started <= now
      BY <1>5, <1>6 DEF Rewrites, Written
    <3> QED
      BY <1>2, <1>4, <2>1, <3>1, <3>2 DEF Underway
  <2>2. CASE v # u
    <3>1. tx'[v] = tx[v] /\ Underway(v)
      BY <1>2, <1>11, <2>2 DEF Fitting
    <3>2. tx[v].req.command # c
      BY <1>1, <3>1 DEF Underway
    <3> QED
      BY <1>1, <1>8, <3>1, <3>2 DEF Underway, CallsStay, Base, TypeOK
  <2> QED
    BY <2>1, <2>2
<1>12. \A d \in Commands : pick'[d] # NoUrl => Picking(d)'
  BY <1>1, <1>8 DEF Fitting, Picking, CallsStay, Base, TypeOK
<1>13. Picking(c)' /\ calls'[c].started = calls[c].started
  BY <1>5, <1>6, <1>9 DEF Picking, Rewrites
<1> QED
  BY <1>5, <1>8, <1>10, <1>11, <1>12, <1>13 DEF Fitting
(* The frontier takes up a call as it was sent. *)
LEMMA ServeFits ==
  ASSUME Base, Fitting, NEW c \in Commands, Serve(c)
  PROVE  Fitting'
<1> DEFINE r == calls[c].req
<1>1. /\ calls[c] # NoTx /\ calls[c].reply = NoReply /\ ~Executing(c) /\ r.action # "claim"
      /\ Begin(r) /\ UNCHANGED workerVars
      /\ now' = now /\ origins' = origins /\ pick' = pick
  BY DEF Serve, Waiting, Known, Begin, tables
<1>2. Written(c) /\ r.command = c /\ r.url \in Urls /\ calls[c].started <= now
  BY <1>1 DEF Fitting, Written
<1>3. PICK t : tx' = [tx EXCEPT ![r.url] = t] /\ t.req = r /\ t.at = now
  BY <1>1, BeginStarts
<1>4. tx'[r.url] = t /\ \A v \in Urls : v # r.url => tx'[v] = tx[v]
  BY <1>2, <1>3 DEF Base, TypeOK
<1>5. pick[c] = NoUrl
  BY <1>1, NotExecuting
<1>6. \A v \in Urls : tx'[v] # NoTx => Underway(v)'
  <2>1. ASSUME NEW v \in Urls, tx'[v] # NoTx, v = r.url
        PROVE  Underway(v)'
    <3>1. tx'[v] = t
      BY <1>4, <2>1
    <3>2. t.req.command = c /\ calls' = calls /\ pick'[c] = NoUrl
      BY <1>1, <1>2, <1>3, <1>5 DEF workerVars
    <3> QED
      BY <1>1, <1>2, <1>3, <3>1, <3>2 DEF Underway
  <2>2. ASSUME NEW v \in Urls, tx'[v] # NoTx, v # r.url
        PROVE  Underway(v)'
    BY <1>1, <1>4, <2>2 DEF Fitting, Underway, workerVars
  <2> QED
    BY <2>1, <2>2
<1>7. \A d \in Commands : pick'[d] # NoUrl => Picking(d)'
  BY <1>1 DEF Fitting, Picking, workerVars
<1>8. Aging /\ CallTypes' /\ faults' \in 0 .. MaxFaults
  BY <1>1, QuietAging DEF workerVars, Fitting, Types, CallTypes
<1>9. CallsStay(NoCommand)
  BY <1>1 DEF workerVars, CallsStay
<1>10. /\ Types' /\ \A w \in Workers : Fits(w)'
       /\ \A d \in Commands : calls'[d] # NoTx => Written(d)'
  BY <1>1, <1>8, <1>9, WorkerConstants, ServedFrame DEF workerVars
<1> QED
  BY <1>6, <1>7, <1>10 DEF Fitting

LEMMA VerdictAnswers ==
  /\ Refusals \subseteq Answers /\ TakesSlotLock \cup {"origin_not_eligible"} \subseteq Answers
  /\ NoReply \notin Refusals \cup TakesSlotLock \cup {"origin_not_eligible"}
  /\ "ok" \notin Refusals
BY DEF Answers, NoReply, Refusals, TakesSlotLock

LEMMA RefusalFits ==
  ASSUME Base, Fitting, NEW c \in Commands, ServeRefusal(c)
  PROVE  Fitting' /\ Replies(c, Verdict(calls[c].req)) /\ calls[c].req.action # "claim"
         /\ calls[c] # NoTx
<1> DEFINE v == Verdict(calls[c].req)
<1>1. /\ calls[c] # NoTx /\ calls[c].reply = NoReply /\ ~Executing(c)
      /\ calls[c].req.action # "claim"
      /\ v \in Refusals /\ calls' = Answered(c, v)
      /\ UNCHANGED <<vars, worker, pending, faults>>
  BY DEF ServeRefusal, Waiting, Known, Refused
<1>2. v \in Answers
  BY <1>1, VerdictAnswers
<1> HIDE DEF v
<1>3. CallTypes' /\ Replies(c, v)
  BY <1>1, <1>2, CallReplied DEF Fitting, Types, CallTypes
<1>4. Written(c)'
  BY <1>1, <1>3 DEF Fitting, Written, Won, Granted, Replies, vars, tables
<1>5. Aging /\ faults' \in 0 .. MaxFaults /\ CallsStay(c)
  BY <1>1, <1>3, QuietAging DEF Fitting, Types, Replies, vars, tables
<1>6. /\ Types' /\ \A w \in Workers : Fits(w)'
      /\ \A d \in Commands : calls'[d] # NoTx => Written(d)'
  BY <1>1, <1>3, <1>4, <1>5, ServedFrame DEF Replies
<1>7. pick[c] = NoUrl /\ \A u \in Urls : tx[u] # NoTx => tx[u].req.command # c
  BY <1>1, NotExecuting
<1>8. \A u \in Urls : tx'[u] # NoTx => Underway(u)'
  BY <1>1, <1>5, <1>7, UnderwayStays DEF vars
<1>9. \A d \in Commands : pick'[d] # NoUrl => Picking(d)'
  BY <1>1, <1>5, <1>7 DEF Fitting, Picking, CallsStay, vars
<1>10. Fitting'
  BY <1>6, <1>8, <1>9 DEF Fitting
<1> QED
  BY <1>1, <1>3, <1>10 DEF v

(* The answer of a claim is the lease that its transaction has written.    *)
LEMMA FinishFits ==
  ASSUME Base, Leased, Tenured, Fitting, NEW u \in Urls, ServeFinish(u)
  PROVE  Fitting' /\ Replies(tx[u].req.command, tx[u].verdict)
<1>0. PICK t, c : t = tx[u] /\ c = tx[u].req.command
  OBVIOUS
<1>1. /\ Finish(u) /\ t # NoTx /\ calls' = Answered(c, t.verdict)
      /\ UNCHANGED <<worker, pending, faults>> /\ pick' = pick
      /\ tx' = [tx EXCEPT ![u] = NoTx] /\ now' = now
  BY <1>0 DEF ServeFinish, Finish
<1>2. Underway(u) /\ c \in Commands /\ calls[c] # NoTx /\ calls[c].req = t.req /\ Written(c)
  BY <1>0, <1>1 DEF Fitting, Underway
<1>3. t.verdict \in Answers /\ t.verdict # NoReply
      /\ (t.req.action = "claim" => t.verdict = "ok" /\ t.req.arg \in Origins \cup {NoOrigin})
  <2>1. t.verdict \in TakesSlotLock \cup {"origin_not_eligible"} /\ IsRequest(t.req)
    BY <1>0, <1>1 DEF Base, TypeOK, IsTransaction
  <2>2. t.req.action = "claim" => t.req.arg \in Origins \cup {NoOrigin}
    BY <2>1 DEF IsRequest, RequestsOf, Actions
  <2> QED
    BY <1>0, <1>2, <2>1, <2>2, VerdictAnswers DEF Underway
<1>4. CallTypes' /\ Replies(c, t.verdict)
  BY <1>1, <1>2, <1>3, CallReplied DEF Fitting, Types, CallTypes
<1>5. Aging /\ faults' \in 0 .. MaxFaults /\ CallsStay(c)
  BY <1>1, <1>4, FinishAging DEF Fitting, Types, Replies
<1>6. t.req.action = "claim" => Granted(t.req.token)' /\ t.req.token[3] = t.req.url
  <2>1. SUFFICES ASSUME t.req.action = "claim"
                 PROVE  Granted(t.req.token)' /\ t.req.token[3] = t.req.url
    OBVIOUS
  <2>2. Holds(u) /\ t.req.url = u
    BY <1>0, <1>1 DEF Leased, Holding, Base, Locked
  <2>3. PICK o \in Origins : o = urls[u].origin /\ origins[o].epoch \in Nat
    BY LeaseTypes
  <2>4. t.req.token = <<o, origins[o].epoch + 1, u>>
    BY <1>0, <2>1, <2>2, <2>3 DEF Holds
  <2>5. origins'[o].epoch = origins[o].epoch + 1
    <3>1. ClaimApply(t)
      BY <1>0, <1>1, <2>1 DEF Finish, Apply
    <3> QED
      BY <2>2, <2>3, <3>1 DEF ClaimApply, Base, TypeOK, OriginRow
  <2> QED
    BY <2>2, <2>3, <2>4, <2>5 DEF Granted
<1>7. Written(c)'
  <2>1. calls'[c].req = t.req /\ calls'[c].started = calls[c].started
        /\ calls'[c].reply = t.verdict
    BY <1>2, <1>4 DEF Replies
  <2>2. CASE t.req.action = "claim"
    BY <1>1, <1>2, <1>3, <1>6, <2>1, <2>2 DEF Written, Won, Granted
  <2>3. CASE t.req.action # "claim"
    <3>1. t.req.token \in Tokens
      BY <1>2, MessageTypes DEF Fitting, Types, CallTypes
    <3>2. Granted(t.req.token) => /\ t.req.token[1] \in Origins /\ t.req.token[3] \in Urls
                                  /\ 1 <= t.req.token[2]
                                  /\ t.req.token[2] <= origins'[t.req.token[1]].epoch
      BY <1>5, <3>1 DEF Granted, Aging, Tokens
    <3> QED
      BY <1>1, <1>2, <2>1, <2>3, <3>2 DEF Written, Won, Granted
  <2> QED
    BY <2>2, <2>3
<1>8. /\ Types' /\ \A w \in Workers : Fits(w)'
      /\ \A d \in Commands : calls'[d] # NoTx => Written(d)'
  BY <1>1, <1>4, <1>5, <1>7, ServedFrame DEF Replies
<1>9. ASSUME NEW v \in Urls, tx'[v] # NoTx
      PROVE  Underway(v)'
  <2>1. v # u /\ tx'[v] = tx[v] /\ Underway(v)
    BY <1>1, <1>9 DEF Fitting, Base, TypeOK
  <2>2. tx[v].req.command # c
    <3>1. SUFFICES ASSUME tx[v].req.command = c PROVE FALSE
      OBVIOUS
    <3>2. tx[v].req = tx[u].req
      BY <1>0, <1>2, <2>1, <3>1 DEF Underway
    <3> QED
      BY <1>0, <1>1, <1>9, <2>1, <3>2 DEF Base, Locked
  <2> QED
    BY <1>1, <1>5, <2>1, <2>2 DEF Underway, CallsStay
<1>10. \A d \in Commands : pick'[d] # NoUrl => Picking(d)'
  BY <1>0, <1>1, <1>2, <1>5 DEF Fitting, Picking, CallsStay, Underway
<1>11. Fitting'
  BY <1>8, <1>9, <1>10 DEF Fitting
<1> QED
  BY <1>0, <1>4, <1>11

(* The calls stay as they are, and a transaction may be lost. *)
LEMMA QuietFits ==
  ASSUME Base, Fitting, worker' = worker, pending' = pending, calls' = calls,
         faults' \in 0 .. MaxFaults, origins' = origins, now' \in {now, now + 1}, pick' = pick,
         \A u \in Urls : tx'[u] \in {tx[u], NoTx}
  PROVE  Fitting'
<1>1. Aging /\ CallTypes' /\ CallsStay(NoCommand)
  BY QuietAging DEF CallsStay, Fitting, Types, CallTypes
<1>2. /\ Types' /\ \A w \in Workers : Fits(w)'
      /\ \A d \in Commands : calls'[d] # NoTx => Written(d)'
  BY <1>1, WorkerConstants, ServedFrame
<1>3. \A u \in Urls : tx'[u] # NoTx => Underway(u)'
  BY DEF Fitting, Underway
<1>4. \A d \in Commands : pick'[d] # NoUrl => Picking(d)'
  BY DEF Fitting, Picking
<1> QED
  BY <1>2, <1>3, <1>4 DEF Fitting

LEMMA AbortFits ==
  ASSUME Base, Fitting, NEW u \in Urls, ServeAbort(u)
  PROVE  Fitting'
<1>1. /\ tx' = [tx EXCEPT ![u] = NoTx] /\ now' = now /\ origins' = origins /\ pick' = pick
      /\ UNCHANGED <<worker, pending, calls>>
  BY DEF ServeAbort, Abort, tables
<1>2. faults' \in 0 .. MaxFaults
  BY WorkerConstants DEF ServeAbort, Fault, Fitting, Types
<1>3. \A v \in Urls : tx'[v] \in {tx[v], NoTx}
  BY <1>1 DEF Base, TypeOK
<1> QED
  BY <1>1, <1>2, <1>3, QuietFits

LEMMA ForgetFits ==
  ASSUME Base, Fitting, NEW c \in Commands, Forget(c)
  PROVE  Fitting' /\ Dropped(c) /\ \A w \in Workers : worker[w].main # c /\ worker[w].renew # c
<1>1. /\ calls[c] # NoTx /\ ~Executing(c) /\ calls' = Done(c)
      /\ worker[Sender[c]].main # c /\ worker[Sender[c]].renew # c
      /\ UNCHANGED <<vars, worker, pending, faults>>
  BY DEF Forget
<1>2. ASSUME NEW w \in Workers, worker[w].main = c \/ worker[w].renew = c
      PROVE  FALSE
  BY <1>1, <1>2, WorkerConstants DEF Fitting, Fits, Awaits, AwaitsRenewal
<1>3. CallTypes' /\ Dropped(c)
  BY <1>1, CallDropped DEF Fitting, Types, CallTypes
<1>4. Aging /\ faults' \in 0 .. MaxFaults /\ CallsStay(c) /\ calls'[c] = NoTx
  BY <1>1, <1>3, QuietAging DEF Fitting, Types, Dropped, vars, tables
<1>5. /\ Types' /\ \A w \in Workers : Fits(w)'
      /\ \A d \in Commands : calls'[d] # NoTx => Written(d)'
  BY <1>1, <1>2, <1>3, <1>4, ServedFrame
<1>6. pick[c] = NoUrl /\ \A u \in Urls : tx[u] # NoTx => tx[u].req.command # c
  BY <1>1, NotExecuting
<1>7. \A u \in Urls : tx'[u] # NoTx => Underway(u)'
  BY <1>1, <1>4, <1>6, UnderwayStays DEF vars
<1>8. \A d \in Commands : pick'[d] # NoUrl => Picking(d)'
  BY <1>1, <1>4, <1>6 DEF Fitting, Picking, CallsStay, vars
<1> QED
  BY <1>2, <1>3, <1>5, <1>7, <1>8 DEF Fitting

(* What happens beside processes and calls. *)
World ==
  \/ \E p \in Partitions, owner \in Nodes \cup {Draining} : WTransfer(p, owner)
  \/ \E u \in Urls, k \in 0 .. MaximumUrls : WPublish(u, k)
  \/ WTick
  \/ WHorizon

LEMMA WorldFits ==
  ASSUME Base, Fitting, World
  PROVE  Fitting' /\ UNCHANGED <<worker, pending, calls, origins, tx, pick>>
<1>1. UNCHANGED <<worker, pending, calls, faults, origins, tx, pick>> /\ now' \in {now, now + 1}
  <2>1. CASE \E p \in Partitions, owner \in Nodes \cup {Draining} : WTransfer(p, owner)
    BY <2>1 DEF WTransfer, Transfer, workerVars
  <2>2. CASE \E u \in Urls, k \in 0 .. MaximumUrls : WPublish(u, k)
    BY <2>2 DEF WPublish, PublishOutbox, workerVars
  <2>3. CASE WTick
    BY <2>3 DEF WTick, Tick, workerVars, tables
  <2>4. CASE WHorizon
    BY <2>4 DEF WHorizon, allVars, workerVars, vars, tables
  <2> QED
    BY <2>1, <2>2, <2>3, <2>4 DEF World
<1>2. faults' \in 0 .. MaxFaults
  BY <1>1 DEF Fitting, Types
<1> QED
  BY <1>1, <1>2, QuietFits
-----------------------------------------------------------------------------
(* The frontier with its workers is the frontier of CentralFrontier *)

LEMMA ProcessQuiet ==
  ASSUME NEW w \in Workers, Process(w) \/ Shutdown(w) \/ Crash(w)
  PROVE  UNCHANGED vars
<1>1. CASE \/ Start(w) \/ Offer(w) \/ OfferAnswered(w) \/ Claim(w) \/ ClaimAnswered(w)
  BY <1>1 DEF Start, Offer, OfferAnswered, Claim, ClaimAnswered, Unchanged
<1>2. CASE Renew(w) \/ RenewAnswered(w) \/ RenewGivenUp(w) \/ Shutdown(w) \/ Crash(w)
  BY <1>2 DEF Renew, RenewAnswered, RenewGivenUp, Shutdown, Crash
<1>3. CASE \E o \in Origins : Authorize(w, o) \/ Redirected(w, o)
  BY <1>3 DEF Authorize, Redirected, Unchanged
<1>4. CASE SendHttp(w) \/ AuthorizeRefused(w) \/ Continue(w) \/ Fetched(w)
  BY <1>4 DEF SendHttp, AuthorizeRefused, Continue, Fetched, Unchanged
<1>5. CASE (\E a \in RobotsAnswers : SaveRobots(w, a)) \/ (\E u \in Urls : Discovered(w, u))
  BY <1>5 DEF SaveRobots, Discovered, Unchanged
<1>6. CASE CallAnswered(w) \/ Stage(w) \/ Confirmed(w) \/ NotConfirmed(w) \/ Nacked(w)
  BY <1>6 DEF CallAnswered, Stage, Confirmed, NotConfirmed, Nacked, Unchanged
<1>7. CASE GivenUp(w) \/ \E kind \in GiveUps : GiveUpPage(w, kind)
  BY <1>7 DEF GivenUp, GiveUpPage, Unchanged
<1> QED
  BY <1>1, <1>2, <1>3, <1>4, <1>5, <1>6, <1>7, Zenon DEF Process

(* A call that is served presents the token of the lease it is about: an   *)
(* offer has none, and no lease is without a token.                        *)
LEMMA ServesCall ==
  ASSUME Base, Tenured, Fitting, NEW c \in Commands, Serve(c)
  PROVE  LET r == calls[c].req IN
         /\ r.url \in Urls /\ r.action \in Calls /\ r.arg \in Asked(r.action)
         /\ Call(c, r.url, r.action, r.arg)
<1> DEFINE r == calls[c].req
           m == urls[r.url].origin
<1>1. /\ calls[c] # NoTx /\ calls[c].reply = NoReply /\ r.action # "claim" /\ Begin(r)
      /\ Written(c)
  BY DEF Serve, Waiting, Known, Fitting
<1>2. /\ r.url \in Urls /\ r.action \in Calls /\ r.arg \in Asked(r.action) /\ r.command = c
      /\ r.token[3] = r.url \/ r.token = NoToken
  BY <1>1 DEF Written
<1>3. r = [action |-> r.action, command |-> c, url |-> r.url, token |-> r.token, arg |-> r.arg]
  <2>1. r \in Request
    BY <1>1, MessageTypes DEF Fitting, Types, CallTypes
  <2> QED
    BY <1>2, <2>1 DEF Request
<1>4. ~Fenced(r)
  BY <1>1 DEF Begin, Verdict, Refusals
<1>5. /\ origins[m].token = r.token /\ m \in Origins /\ ~(origins[m].deadline <= now)
  BY <1>2, <1>4, LeaseTypes DEF Fenced
<1>6. r.token # NoToken
  BY <1>5, LeaseTypes DEF Tenured, Vacant
<1> QED
  BY <1>1, <1>2, <1>3, <1>5, <1>6 DEF Call

LEMMA StepIsStep ==
  ASSUME Base, Tenured, Fitting, [WNext]_allVars
  PROVE  [Next]_vars
<1>1. CASE UNCHANGED allVars
  BY <1>1 DEF allVars, vars
<1>2. ASSUME NEW c \in Commands,
             \/ ServePick(c) \/ ServeNone(c) \/ ServeEmpty(c) \/ ServeClaim(c)
             \/ ServeRefusal(c) \/ Forget(c)
      PROVE  [Next]_vars
  BY <1>2 DEF ServePick, ServeNone, ServeEmpty, ServeClaim, ServeRefusal, Forget, Next
<1>3. ASSUME NEW c \in Commands, Serve(c)
      PROVE  [Next]_vars
  <2>1. PICK u \in Urls, action \in Calls :
          \E arg \in Asked(action) : Call(c, u, action, arg)
    BY <1>3, ServesCall
  <2> QED
    BY <2>1 DEF Next
<1>4. ASSUME NEW u \in Urls, ServeFinish(u) \/ ServeAbort(u)
      PROVE  [Next]_vars
  BY <1>4 DEF ServeFinish, ServeAbort, Next
<1>5. ASSUME NEW w \in Workers, Process(w) \/ Shutdown(w) \/ Crash(w)
      PROVE  [Next]_vars
  BY <1>5, ProcessQuiet
<1>6. CASE World
  <2>1. CASE \E p \in Partitions, owner \in Nodes \cup {Draining} : WTransfer(p, owner)
    BY <2>1 DEF WTransfer, Next
  <2>2. CASE \E u \in Urls, k \in 0 .. MaximumUrls : WPublish(u, k)
    BY <2>2 DEF WPublish, Next
  <2>3. CASE WTick
    BY <2>3 DEF WTick, Next
  <2>4. CASE WHorizon
    BY <2>4 DEF WHorizon, allVars, vars
  <2> QED
    BY <1>6, <2>1, <2>2, <2>3, <2>4 DEF World
<1> QED
  BY <1>1, <1>2, <1>3, <1>4, <1>5, <1>6, Zenon DEF WNext, Frontier, World

LEMMA FittingInit == WInit => Fitting
<1> SUFFICES ASSUME WInit PROVE Fitting
  OBVIOUS
<1>1. /\ Init /\ worker = [w \in Workers |-> Down]
      /\ pending = [w \in Workers |-> [u \in Urls |-> NoCapture]]
      /\ calls = [c \in Commands |-> NoTx] /\ faults = 0
  BY DEF WInit
<1>2. (\A u \in Urls : tx[u] = NoTx) /\ (\A c \in Commands : pick[c] = NoUrl)
  BY <1>1 DEF Init
<1>3. Types
  <2>1. worker \in [Workers -> Row]
    BY <1>1, RestRows
  <2>2. faults \in 0 .. MaxFaults
    BY <1>1, WorkerConstants
  <2> QED
    BY <1>1, <2>1, <2>2 DEF Types
<1>4. \A w \in Workers : Fits(w)
  <2>1. Down.pc = "down" /\ Down.main = NoCommand /\ Down.renew = NoCommand
    BY DEF Down
  <2> QED
    BY <1>1, <2>1 DEF Fits, Equipped, Waits, Working, Engaged
<1> QED
  BY <1>1, <1>2, <1>3, <1>4 DEF Fitting

LEMMA FittingNext ==
  ASSUME Base, Leased, Tenured, Fitting, [WNext]_allVars
  PROVE  Fitting'
<1>0. now \in Nat
  BY LeaseTypes
<1>1. CASE UNCHANGED allVars
  <2>1. /\ UNCHANGED <<worker, pending, calls, faults, origins, now, pick>>
        /\ \A u \in Urls : tx'[u] \in {tx[u], NoTx}
    BY <1>1 DEF allVars, vars, workerVars, tables
  <2>2. faults' \in 0 .. MaxFaults
    BY <2>1 DEF Fitting, Types
  <2> QED
    BY <2>1, <2>2, QuietFits
<1>2. ASSUME NEW c \in Commands,
             \/ ServePick(c) \/ ServeNone(c) \/ ServeEmpty(c) \/ ServeClaim(c)
             \/ Serve(c) \/ ServeRefusal(c) \/ Forget(c)
      PROVE  Fitting'
  BY <1>2, PickFits, NoneFits, ServeClaimFits, ServeFits, RefusalFits, ForgetFits
<1>3. ASSUME NEW u \in Urls, ServeFinish(u) \/ ServeAbort(u)
      PROVE  Fitting'
  BY <1>3, FinishFits, AbortFits
<1>4. ASSUME NEW w \in Workers, Process(w) \/ Shutdown(w) \/ Crash(w)
      PROVE  Fitting'
  BY <1>0, <1>4, ProcessMoves
<1>5. CASE World
  BY <1>5, WorldFits
<1> QED
  BY <1>1, <1>2, <1>3, <1>4, <1>5, Zenon DEF WNext, Frontier, World

(* Everything proved of the frontier under arbitrary clients holds with    *)
(* these workers, and processes and messages fit each other.               *)
Sound == Base /\ Leased /\ Tenured /\ Fitting

LEMMA SoundNext ==
  ASSUME Sound, [WNext]_allVars
  PROVE  Sound' /\ [Next]_vars
<1>1. [Next]_vars
  BY StepIsStep DEF Sound
<1>2. Fitting'
  BY FittingNext DEF Sound
<1> QED
  BY <1>1, <1>2, BaseNext, LeasedNext, TenuredNext DEF Sound

LEMMA SoundInit == WInit => Sound
BY FittingInit, BaseInit, LeasedInit, TenuredInit DEF WInit, Sound

THEOREM SoundHolds == WSpec => []Sound
<1>1. Sound /\ [WNext]_allVars => Sound'
  BY SoundNext
<1> QED
  BY <1>1, SoundInit, PTL DEF WSpec

(* The workers are clients that CentralFrontier allows: all that holds of  *)
(* the frontier with arbitrary clients holds with them.                    *)
THEOREM WorkersAreClients == WSpec => Spec
<1>1. WInit => Init
  BY DEF WInit
<1>2. Sound /\ [WNext]_allVars => [Next]_vars
  BY SoundNext
<1> QED
  BY <1>1, <1>2, SoundHolds, PTL DEF WSpec, Spec

(* Processes, their staged captures and the messages on the way keep their *)
(* types, and the call a process waits for is on the way or answered.      *)
THEOREM WorkersTyped == WSpec => []WTypeOK
<1>1. Sound => WTypeOK
  <2> SUFFICES ASSUME Sound PROVE WTypeOK
    OBVIOUS
  <2>1. TypeOK /\ Types /\ \A w \in Workers : Fits(w)
    BY DEF Sound, Base, Fitting
  <2>2. \A w \in Workers :
          \A c \in {worker[w].main, worker[w].renew} \ {NoCommand} : calls[c] # NoTx
    BY <2>1 DEF Fits, Awaits, AwaitsRenewal
  <2> QED
    BY <2>1, <2>2 DEF WTypeOK, Types
<1> QED
  BY <1>1, SoundHolds, PTL
-----------------------------------------------------------------------------
(* Staged captures *)

(* An acknowledged commit is about the capture that the frontier stores.   *)
Acknowledged(c) ==
  calls[c] # NoTx /\ calls[c].req.action = "commit" /\ calls[c].reply \in {"ok", "duplicate"}
Recorded ==
  \A c \in Commands : Acknowledged(c) => captures[calls[c].req.url] = calls[c].req.arg

(* A message that has just been sent, or taken off the way. *)
Fresh(c) == calls'[c] = NoTx \/ calls'[c].reply = NoReply

LEMMA MovesFresh ==
  ASSUME Fitting, NEW w \in Workers, Moves(w)
  PROVE  \A c \in Commands : calls'[c] = calls[c] \/ Fresh(c)
<1>1. CASE LeavesJob(w) \/ TakesJob(w) \/ AsksRequest(w) \/ SendsRequest(w) \/ EndsRequest(w)
  BY <1>1 DEF LeavesJob, TakesJob, AsksRequest, SendsRequest, EndsRequest, SameCalls, Posted,
     Dropped, CallsStay, Fresh
<1>2. CASE AsksCall(w) \/ HearsCall(w) \/ StagesPage(w) \/ NacksJob(w)
  BY <1>2 DEF AsksCall, HearsCall, StagesPage, NacksJob, Posted, Dropped, CallsStay, Fresh
<1>3. CASE AsksRenewal(w) \/ HearsRenewal(w) \/ LosesRenewal(w)
  BY <1>3 DEF AsksRenewal, HearsRenewal, LosesRenewal, Posted, Dropped, CallsStay, Fresh
<1> QED
  BY <1>1, <1>2, <1>3 DEF Moves

(* Captures that are stored stay; what matters is each message by itself.  *)
LEMMA RecordedFrame ==
  ASSUME Fitting, Recorded, \A u \in Urls : captures[u] # NoCapture => captures'[u] = captures[u],
         \A c \in Commands : \/ calls'[c] = calls[c] \/ Fresh(c)
                             \/ calls'[c].req.action # "commit"
                             \/ captures'[calls'[c].req.url] = calls'[c].req.arg
                             \/ calls'[c].reply \notin {"ok", "duplicate"}
  PROVE  Recorded'
<1> SUFFICES ASSUME NEW c \in Commands, Acknowledged(c)', calls'[c] = calls[c]
             PROVE  captures'[calls[c].req.url] = calls[c].req.arg
  BY DEF Recorded, Acknowledged, Fresh, NoReply
<1>1. Acknowledged(c) /\ Written(c)
  BY DEF Acknowledged, Fitting
<1>2. captures[calls[c].req.url] = calls[c].req.arg /\ calls[c].req.url \in Urls
  BY <1>1 DEF Recorded, Acknowledged, Written
<1>3. calls[c].req.arg \in Payloads
  BY <1>1, Zenon DEF Written, Acknowledged, Asked, Args
<1>4. NoCapture \notin Payloads
  BY ConstantAssumptions
<1> QED
  BY <1>2, <1>3, <1>4

LEMMA RecordedNext ==
  ASSUME Sound, Unstored, Recorded, [WNext]_allVars
  PROVE  Recorded'
<1>1. \A u \in Urls : captures[u] # NoCapture => captures'[u] = captures[u]
  BY SoundNext, CapturesStay DEF Sound
<1>2. now \in Nat
  BY LeaseTypes DEF Sound
<1>3. ASSUME NEW c \in Commands, ServePick(c) \/ Serve(c)
      PROVE  Recorded'
  BY <1>1, <1>3, RecordedFrame DEF ServePick, Serve, workerVars, Sound
<1>4. ASSUME NEW c \in Commands, ServeNone(c) \/ ServeEmpty(c) \/ ServeClaim(c) \/ Forget(c)
      PROVE  Recorded'
  <2>1. CASE ServeNone(c) \/ ServeEmpty(c)
    <3>1. Picking(c)
      BY <2>1 DEF Sound, Fitting, Picking, ServeNone, ServeEmpty, ClaimEmpty, Claiming, Known
    <3>2. Restarts(c) \/ Dropped(c)
      BY <2>1, NoneFits DEF Sound
    <3> QED
      BY <1>1, <3>1, <3>2, RecordedFrame DEF Sound, Picking, Restarts, Dropped, CallsStay, Fresh
  <2>2. CASE ServeClaim(c)
    BY <1>1, <2>2, ServeClaimFits, RecordedFrame DEF Sound, Picking, CallsStay, Fresh
  <2>3. CASE Forget(c)
    BY <1>1, <2>3, ForgetFits, RecordedFrame DEF Sound, Dropped, CallsStay, Fresh
  <2> QED
    BY <1>4, <2>1, <2>2, <2>3
<1>5. ASSUME NEW c \in Commands, ServeRefusal(c)
      PROVE  Recorded'
  <2> DEFINE r == calls[c].req
  <2>1. Replies(c, Verdict(r)) /\ Verdict(r) \in Refusals /\ captures' = captures
    BY <1>5, RefusalFits DEF Sound, ServeRefusal, Refused, vars, tables
  <2>2. Verdict(r) \notin {"ok", "duplicate"} \/ captures[r.url] = r.arg
    BY <2>1, VerdictAnswers DEF Verdict, AuthorizeVerdict
  <2> QED
    BY <1>1, <2>1, <2>2, RecordedFrame DEF Sound, Replies, CallsStay
<1>6. ASSUME NEW u \in Urls, ServeFinish(u)
      PROVE  Recorded'
  <2>1. PICK t, c : t = tx[u] /\ c = tx[u].req.command
    OBVIOUS
  <2>2. /\ t # NoTx /\ Apply(t) /\ Replies(c, t.verdict) /\ c \in Commands
        /\ calls[c].req = t.req /\ t.req.url = u
    BY <1>6, <2>1, FinishFits DEF Sound, ServeFinish, Finish, Fitting, Underway, Base, Locked
  <2>3. t.req.action = "commit" => captures'[u] = t.req.arg
    BY <2>2 DEF Apply, CommitApply, Sound, Base, TypeOK
  <2> QED
    BY <1>1, <2>2, <2>3, RecordedFrame DEF Sound, Replies, CallsStay
<1>7. ASSUME NEW u \in Urls, ServeAbort(u)
      PROVE  Recorded'
  BY <1>1, <1>7, RecordedFrame DEF ServeAbort, Sound
<1>8. ASSUME NEW w \in Workers, Process(w) \/ Shutdown(w) \/ Crash(w)
      PROVE  Recorded'
  BY <1>1, <1>2, <1>8, ProcessMoves, MovesFresh, RecordedFrame DEF Sound
<1>9. CASE World \/ UNCHANGED allVars
  <2>1. calls' = calls
    BY <1>9, WorldFits DEF Sound, allVars, workerVars
  <2> QED
    BY <1>1, <2>1, RecordedFrame DEF Sound
<1> QED
  BY <1>3, <1>4, <1>5, <1>6, <1>7, <1>8, <1>9, Zenon DEF WNext, Frontier, World

(* A staged capture goes only when a process hears that it is stored.      *)
LEMMA PendingGoes ==
  ASSUME Fitting, NEW w \in Workers, Process(w) \/ Shutdown(w) \/ Crash(w),
         NEW v \in Workers, NEW u \in Urls,
         pending[v][u] # NoCapture, pending'[v][u] # pending[v][u]
  PROVE  \E c \in Commands : /\ Acknowledged(c)
                             /\ calls[c].req.url = u /\ calls[c].req.arg = pending[v][u]
<1> DEFINE c == worker[w].main
<1>1. pending \in [Workers -> [Urls -> Payloads \cup {NoCapture}]] /\ Fits(w)
  BY DEF Fitting, Types
<1>2. worker[w].main # NoCommand =>
        /\ Awaits(w) /\ c \in Commands /\ calls[c] # NoTx
  BY <1>1 DEF Fits, Awaits
<1>3. CASE OfferAnswered(w)
  <2>1. /\ Step(w, "reconcile") /\ Replied(c) /\ Reply(w) = "duplicate"
        /\ pending' = [pending EXCEPT ![w][calls[c].req.url] = NoCapture]
    BY <1>3 DEF OfferAnswered
  <2>2. v = w /\ u = calls[c].req.url
    BY <1>1, <2>1
  <2>3. /\ calls[c].req.action = "commit" /\ calls[c].req.arg = pending[w][u]
        /\ c \in Commands /\ calls[c] # NoTx
    BY <1>2, <2>1, <2>2 DEF Awaits, Step, Replied
  <2> QED
    BY <2>1, <2>2, <2>3 DEF Acknowledged, Reply
<1>4. CASE Confirmed(w)
  <2>1. /\ Step(w, "commit") /\ Replied(c) /\ Reply(w) \in {"ok", "duplicate"}
        /\ pending' = [pending EXCEPT ![w][worker[w].url] = NoCapture]
    BY <1>4 DEF Confirmed
  <2>2. v = w /\ u = worker[w].url
    BY <1>1, <2>1
  <2>3. /\ calls[c].req.action = "commit" /\ calls[c].req.arg = pending[w][u]
        /\ calls[c].req.url = u /\ c \in Commands /\ calls[c] # NoTx
    BY <1>2, <2>1, <2>2 DEF Awaits, Step, Replied, Working
  <2> QED
    BY <2>1, <2>2, <2>3 DEF Acknowledged, Reply
<1>5. CASE Stage(w)
  <2>1. Step(w, "page") /\ worker[w].resumed <=> pending[w][worker[w].url] # NoCapture
    BY <1>1, <1>5 DEF Stage, Step, Fits, Equipped, Engaged
  <2>2. \/ pending' = pending
        \/ pending' = [pending EXCEPT ![w][worker[w].url] =
                         IF worker[w].resumed THEN pending[w][worker[w].url] ELSE Draft[w]]
    BY <1>5 DEF Stage
  <2>3. v = w /\ u = worker[w].url /\ ~worker[w].resumed
    BY <1>1, <2>2
  <2> QED
    BY <1>5, <2>1, <2>3 DEF Stage
<1>6. CASE pending' = pending
  BY <1>6
<1>7. CASE Start(w) \/ Offer(w) \/ Claim(w) \/ ClaimAnswered(w)
  BY <1>7 DEF Start, Offer, Claim, ClaimAnswered, Unchanged
<1>8. CASE Renew(w) \/ RenewAnswered(w) \/ RenewGivenUp(w) \/ Shutdown(w) \/ Crash(w)
  BY <1>8 DEF Renew, RenewAnswered, RenewGivenUp, Shutdown, Crash
<1>9. CASE \E o \in Origins : Authorize(w, o) \/ Redirected(w, o)
  BY <1>9 DEF Authorize, Redirected, Unchanged
<1>10. CASE SendHttp(w) \/ AuthorizeRefused(w) \/ Continue(w) \/ Fetched(w)
  BY <1>10 DEF SendHttp, AuthorizeRefused, Continue, Fetched, Unchanged
<1>11. CASE (\E a \in RobotsAnswers : SaveRobots(w, a)) \/ (\E x \in Urls : Discovered(w, x))
  BY <1>11 DEF SaveRobots, Discovered, Unchanged
<1>12. CASE CallAnswered(w) \/ NotConfirmed(w) \/ Nacked(w)
  BY <1>12 DEF CallAnswered, NotConfirmed, Nacked, Unchanged
<1>13. CASE GivenUp(w) \/ \E kind \in GiveUps : GiveUpPage(w, kind)
  BY <1>13 DEF GivenUp, GiveUpPage, Unchanged
<1> QED
  BY <1>3, <1>4, <1>5, <1>7, <1>8, <1>9, <1>10, <1>11, <1>12, <1>13, Zenon DEF Process

(* Nothing of what a worker fetched is lost: a staged capture leaves the   *)
(* disk of its worker only when the frontier stores that very capture.     *)
THEOREM NothingFetchedIsLost == WSpec => StagedUntilStored
<1> DEFINE A == \A w \in Workers, u \in Urls :
                  pending[w][u] # NoCapture /\ pending'[w][u] # pending[w][u]
                    => captures[u] = pending[w][u]
<1>1. WInit => Recorded
  BY DEF WInit, Recorded, Acknowledged
<1>2. Sound /\ Unstored /\ Recorded /\ [WNext]_allVars => Recorded'
  BY RecordedNext
<1>3. ASSUME Sound, Recorded, [WNext]_allVars
      PROVE  A
  <2>1. ASSUME NEW w \in Workers, Process(w) \/ Shutdown(w) \/ Crash(w)
        PROVE  A
    <3> SUFFICES ASSUME NEW v \in Workers, NEW u \in Urls,
                        pending[v][u] # NoCapture, pending'[v][u] # pending[v][u]
                 PROVE  captures[u] = pending[v][u]
      OBVIOUS
    <3>1. PICK c \in Commands : /\ Acknowledged(c) /\ calls[c].req.url = u
                                /\ calls[c].req.arg = pending[v][u]
      BY <1>3, <2>1, PendingGoes DEF Sound
    <3> QED
      BY <1>3, <3>1 DEF Recorded
  <2>2. CASE pending' = pending
    BY <2>2
  <2>3. CASE \E c \in Commands :
               \/ ServePick(c) \/ ServeNone(c) \/ ServeEmpty(c) \/ ServeClaim(c)
               \/ Serve(c) \/ ServeRefusal(c) \/ Forget(c)
    BY <2>2, <2>3 DEF ServePick, ServeNone, ServeEmpty, ServeClaim, Serve, ServeRefusal, Forget,
       workerVars
  <2>4. CASE \E u \in Urls : ServeFinish(u) \/ ServeAbort(u)
    BY <2>2, <2>4 DEF ServeFinish, ServeAbort
  <2>5. CASE World \/ UNCHANGED allVars
    BY <1>3, <2>2, <2>5, WorldFits DEF Sound, allVars, workerVars
  <2> QED
    BY <1>3, <2>1, <2>3, <2>4, <2>5, Zenon DEF WNext, Frontier, World
<1>4. Sound /\ Recorded /\ [WNext]_allVars => [A]_allVars
  BY <1>3
<1> HIDE DEF A
<1>5. WSpec => []Unstored
  BY WorkersAreClients, UnstoredHolds, PTL
<1>6. WSpec => [][A]_allVars
  BY <1>1, <1>2, <1>4, <1>5, SoundHolds, PTL DEF WSpec
<1> QED
  BY <1>6 DEF A, StagedUntilStored
-----------------------------------------------------------------------------
(* A lease belongs to one process *)

(* A process works under a token, an answer brings it, a call ends it.     *)
Carries(w, k) == worker[w].pc \in Engaged /\ worker[w].token = k
Wins(c, k)    == Won(c) /\ calls[c].req.token = k
Gives(c, k)   == /\ calls[c] # NoTx /\ calls[c].req.action \in {"commit", "nack"}
                 /\ calls[c].req.token = k
Live(k) == (\E w \in Workers : Carries(w, k)) \/ \E c \in Commands : Wins(c, k)

OwnedOnce(k) ==
  /\ \A v, w \in Workers : Carries(v, k) /\ Carries(w, k) => v = w
  /\ \A c, d \in Commands : Wins(c, k) /\ Wins(d, k) => c = d
  /\ \A w \in Workers, c \in Commands : ~(Carries(w, k) /\ Wins(c, k))
  /\ \A c \in Commands : Gives(c, k) => ~Live(k)
Owned == \A k \in Tokens : OwnedOnce(k)

LEMMA OwnedFrame ==
  ASSUME NEW k, OwnedOnce(k),
         \A w \in Workers : Carries(w, k)' => Carries(w, k),
         \A c \in Commands : Wins(c, k)' => Wins(c, k),
         \A c \in Commands : Gives(c, k)' => Gives(c, k) \/ ~Live(k)'
  PROVE  OwnedOnce(k)'
<1>1. Live(k)' => Live(k)
  BY DEF Live
<1> QED
  BY <1>1 DEF OwnedOnce

LEMMA LiveIsGranted ==
  ASSUME Fitting, NEW k, Live(k)
  PROVE  Granted(k) /\ k # NoToken
<1>1. ASSUME NEW w \in Workers, Carries(w, k)
      PROVE  Granted(k)
  BY <1>1, EngagedSteps DEF Carries, Fitting, Fits, Equipped
<1>2. ASSUME NEW c \in Commands, Wins(c, k)
      PROVE  Granted(k)
  BY <1>2 DEF Wins, Won, Fitting, Written
<1>3. Granted(k)
  BY <1>1, <1>2 DEF Live
<1>4. NoToken[1] \notin Origins
  BY ConstantAssumptions DEF NoToken
<1> QED
  BY <1>3, <1>4 DEF Granted

(* What is given back has been granted, or is the token of an offer. *)
LEMMA GivenIsGranted ==
  ASSUME Fitting, NEW c \in Commands, NEW k, Gives(c, k)
  PROVE  Granted(k) \/ k = NoToken
BY DEF Gives, Fitting, Written

LEMMA MovesWins ==
  ASSUME Fitting, NEW w \in Workers, Moves(w), NEW c \in Commands, NEW k, Wins(c, k)'
  PROVE  Wins(c, k)
<1>1. calls'[c] = calls[c] \/ Fresh(c)
  BY MovesFresh
<1> QED
  BY <1>1 DEF Wins, Won, Fresh, NoReply

LEMMA MovesCarries ==
  ASSUME NEW w \in Workers, Moves(w), ~TakesJob(w), NEW v \in Workers, NEW k, Carries(v, k)'
  PROVE  Carries(v, k)
<1>1. OthersStay(w) /\ (worker'[w].pc \in Engaged =>
                          worker[w].pc \in Engaged /\ worker'[w].token = worker[w].token)
  <2>1. CASE LeavesJob(w)
    BY <2>1 DEF LeavesJob, Engaged
  <2>2. CASE AsksRequest(w) \/ SendsRequest(w) \/ EndsRequest(w)
    BY <2>2 DEF AsksRequest, SendsRequest, EndsRequest, Goes, Becomes, Job
  <2>3. CASE AsksCall(w) \/ HearsCall(w) \/ StagesPage(w)
    BY <2>3 DEF AsksCall, HearsCall, StagesPage, Goes, Becomes, Job
  <2>4. CASE NacksJob(w)
    BY <2>4 DEF NacksJob, Becomes, At, Engaged
  <2>5. CASE AsksRenewal(w) \/ HearsRenewal(w) \/ LosesRenewal(w)
    BY <2>5 DEF AsksRenewal, HearsRenewal, LosesRenewal, Renewing, Becomes, At, Job
  <2> QED
    BY <2>1, <2>2, <2>3, <2>4, <2>5 DEF Moves
<1> QED
  BY <1>1 DEF Carries, OthersStay

LEMMA MovesGives ==
  ASSUME Fitting, Fitting', Owned, NEW w \in Workers, Moves(w),
         NEW c \in Commands, NEW k \in Tokens, Gives(c, k)'
  PROVE  Gives(c, k) \/ ~Live(k)'
<1>1. CASE calls'[c] = calls[c]
  BY <1>1 DEF Gives
<1>2. CASE \E d, action, url, token, arg :
             Posted(d, action, url, token, arg) /\ action \notin {"commit", "nack"}
  BY <1>1, <1>2 DEF Posted, CallsStay, Gives
<1>3. CASE \E d : Dropped(d)
  BY <1>1, <1>3 DEF Dropped, CallsStay, Gives
<1>4. CASE \E d, u, p : Posted(d, "commit", u, NoToken, p)
  <2>1. calls'[c] # calls[c] => k = NoToken
    BY <1>4 DEF Posted, CallsStay, Gives
  <2>2. ASSUME NEW v \in Workers, Carries(v, k)'
        PROVE  Granted(k)'
    BY <2>2, EngagedSteps DEF Carries, Fitting, Fits, Equipped
  <2>3. ASSUME NEW d \in Commands, Wins(d, k)'
        PROVE  Granted(k)'
    BY <2>3 DEF Wins, Won, Fitting, Written
  <2>4. Live(k)' => k[1] \in Origins
    BY <2>2, <2>3 DEF Live, Granted
  <2>5. NoToken[1] \notin Origins
    BY ConstantAssumptions DEF NoToken
  <2> QED
    BY <1>1, <2>1, <2>4, <2>5
<1>5. ASSUME \E d, action, url, arg : Posted(d, action, url, worker[w].token, arg),
             worker[w].pc \in Working, worker'[w].pc \notin Engaged, ~TakesJob(w)
      PROVE  Gives(c, k) \/ ~Live(k)'
  <2> SUFFICES ASSUME k = worker[w].token, Live(k)' PROVE FALSE
    BY <1>1, <1>5 DEF Posted, CallsStay, Gives
  <2>1. Live(k) /\ ~Carries(w, k)'
    BY <1>5, MovesWins, MovesCarries DEF Live, Carries
  <2>2. OwnedOnce(k)
    BY DEF Owned
  <2>3. CASE worker[w].pc \in Engaged
    <3>1. Carries(w, k)
      BY <2>3 DEF Carries
    <3>2. \A v \in Workers : ~Carries(v, k)'
      BY <1>5, <2>1, <2>2, <3>1, MovesCarries DEF OwnedOnce
    <3>3. \A d \in Commands : ~Wins(d, k)'
      BY <2>2, <3>1, MovesWins DEF OwnedOnce
    <3> QED
      BY <3>2, <3>3 DEF Live
  <2>4. CASE worker[w].pc = "commit"
    <3>1. worker[w].main # NoCommand /\ Awaits(w)
      BY <2>4 DEF Fitting, Fits, Waits
    <3>2. worker[w].main \in Commands /\ Gives(worker[w].main, k)
      BY <2>4, <3>1 DEF Awaits, Gives, Working
    <3> QED
      BY <2>1, <2>2, <3>2 DEF OwnedOnce
  <2> QED
    BY <1>5, <2>3, <2>4, EngagedSteps
<1>6. CASE LeavesJob(w)
  BY <1>1, <1>2, <1>3, <1>4, <1>6 DEF LeavesJob, SameCalls
<1>7. CASE TakesJob(w) \/ SendsRequest(w) \/ EndsRequest(w) \/ HearsCall(w)
  BY <1>1, <1>3, <1>7 DEF TakesJob, SendsRequest, EndsRequest, HearsCall
<1>8. CASE AsksRequest(w) \/ AsksCall(w) \/ AsksRenewal(w)
  BY <1>2, <1>8 DEF AsksRequest, AsksCall, AsksRenewal
<1>9. CASE StagesPage(w)
  <2>1. worker[w].pc = "page" /\ worker'[w].pc = "commit"
    BY <1>9 DEF StagesPage, Goes, Becomes, At
  <2> QED
    BY <1>5, <1>9, <2>1 DEF StagesPage, Working, Engaged, TakesJob
<1>10. CASE NacksJob(w)
  <2>1. worker[w].pc \in Working /\ worker'[w].pc = "nack"
    BY <1>10 DEF NacksJob, Becomes, At
  <2> QED
    BY <1>5, <1>10, <2>1 DEF NacksJob, Working, Engaged, TakesJob
<1>11. CASE HearsRenewal(w) \/ LosesRenewal(w)
  BY <1>1, <1>3, <1>11 DEF HearsRenewal, LosesRenewal
<1> QED
  BY <1>6, <1>7, <1>8, <1>9, <1>10, <1>11 DEF Moves

LEMMA MovesOwned ==
  ASSUME Fitting, Fitting', Owned, NEW w \in Workers, Moves(w)
  PROVE  Owned'
<1> SUFFICES ASSUME NEW k \in Tokens PROVE OwnedOnce(k)'
  BY DEF Owned
<1>0. OwnedOnce(k)
  BY DEF Owned
<1>1. \A c \in Commands : Wins(c, k)' => Wins(c, k)
  BY MovesWins
<1>2. \A c \in Commands : Gives(c, k)' => Gives(c, k) \/ ~Live(k)'
  BY MovesGives
<1>3. CASE ~TakesJob(w)
  BY <1>0, <1>1, <1>2, <1>3, MovesCarries, OwnedFrame
<1>4. CASE TakesJob(w)
  <2>0. PICK c : c = worker[w].main
    OBVIOUS
  <2>1. /\ c \in Commands /\ Won(c) /\ Dropped(c) /\ OthersStay(w)
        /\ worker[w].pc = "claim" /\ worker'[w].token = calls[c].req.token
    BY <1>4, <2>0 DEF TakesJob, Loose
  <2>2. \A v \in Workers : v # w => (Carries(v, k)' <=> Carries(v, k))
    BY <2>1 DEF OthersStay, Carries
  <2>3. \A d \in Commands : d # c => /\ Wins(d, k)' <=> Wins(d, k)
                                     /\ Gives(d, k)' <=> Gives(d, k)
    BY <2>1 DEF Dropped, CallsStay, Wins, Won, Gives
  <2>4. ~Wins(c, k)' /\ ~Gives(c, k)'
    BY <2>1 DEF Dropped, Wins, Won, Gives
  <2>5. CASE k # calls[c].req.token
    <3>1. ~Carries(w, k)'
      BY <2>1, <2>5 DEF Carries
    <3> QED
      BY <1>0, <1>1, <1>2, <2>2, <3>1, OwnedFrame
  <2>6. CASE k = calls[c].req.token
    <3>1. Wins(c, k)
      BY <2>1, <2>6 DEF Wins
    <3>2. \A v \in Workers : ~Carries(v, k)
      BY <1>0, <2>1, <3>1 DEF OwnedOnce
    <3>3. \A d \in Commands : d # c => ~Wins(d, k)
      BY <1>0, <2>1, <3>1 DEF OwnedOnce
    <3>4. \A d \in Commands : ~Gives(d, k)
      BY <1>0, <2>1, <3>1 DEF OwnedOnce, Live
    <3>5. /\ \A v \in Workers : Carries(v, k)' => v = w
          /\ \A d \in Commands : ~Wins(d, k)' /\ ~Gives(d, k)'
      BY <2>2, <2>3, <2>4, <3>2, <3>3, <3>4
    <3> QED
      BY <3>5 DEF OwnedOnce
  <2> QED
    BY <2>5, <2>6
<1> QED
  BY <1>3, <1>4

(* What the frontier does to messages, other than to end a transaction.    *)
Quietly(c) ==
  \/ calls'[c] = calls[c] \/ calls'[c] = NoTx
  \/ /\ calls[c] # NoTx /\ calls'[c].reply # "ok"
     /\ calls'[c].req = calls[c].req \/ calls'[c].req.action = "claim"
Steady ==
  /\ worker' = worker /\ origins' = origins /\ request_slots' = request_slots
  /\ now' \in {now, now + 1} /\ (now' # now => \A w \in Flying : now < worker[w].ends)
  /\ \A c \in Commands : Quietly(c)

LEMMA ServesSteadily ==
  ASSUME Sound, NEW c \in Commands,
         \/ ServePick(c) \/ ServeNone(c) \/ ServeEmpty(c) \/ ServeClaim(c)
         \/ Serve(c) \/ ServeRefusal(c) \/ Forget(c)
  PROVE  Steady
<1>1. worker' = worker /\ UNCHANGED tables /\ now' = now
  <2>1. CASE ServePick(c) \/ ServeNone(c) \/ ServeEmpty(c) \/ ServeClaim(c)
    BY <2>1 DEF ServePick, ServeNone, ServeEmpty, ServeClaim, ClaimPick, ClaimEmpty, ClaimBegin,
       workerVars, vars
  <2>2. CASE Serve(c) \/ ServeRefusal(c) \/ Forget(c)
    BY <2>2 DEF Serve, ServeRefusal, Forget, Begin, workerVars, vars
  <2> QED
    BY <2>1, <2>2
<1>2. \A d \in Commands : Quietly(d)
  <2>1. CASE ServePick(c) \/ Serve(c)
    BY <2>1 DEF ServePick, Serve, workerVars, Quietly
  <2>2. CASE ServeNone(c) \/ ServeEmpty(c)
    <3>1. Picking(c)
      BY <2>2 DEF Sound, Fitting, Picking, ServeNone, ServeEmpty, ClaimEmpty, Claiming, Known
    <3>2. Restarts(c) \/ Dropped(c)
      BY <2>2, NoneFits DEF Sound
    <3> QED
      BY <3>1, <3>2 DEF Picking, Restarts, Dropped, CallsStay, Quietly, NoReply
  <2>3. CASE ServeClaim(c)
    BY <2>3, ServeClaimFits DEF Sound, Picking, CallsStay, Quietly, NoReply
  <2>4. CASE Forget(c)
    BY <2>4, ForgetFits DEF Sound, Dropped, CallsStay, Quietly
  <2>5. CASE ServeRefusal(c)
    <3>1. Verdict(calls[c].req) \in Refusals
      BY <2>5 DEF ServeRefusal, Refused
    <3>2. Replies(c, Verdict(calls[c].req)) /\ calls[c] # NoTx
      BY <2>5, RefusalFits DEF Sound
    <3> QED
      BY <3>1, <3>2, VerdictAnswers DEF Replies, CallsStay, Quietly
  <2> QED
    BY <2>1, <2>2, <2>3, <2>4, <2>5
<1> QED
  BY <1>1, <1>2 DEF Steady, tables

(* The three kinds of steps. *)
LEMMA StepKindsOfWorkers ==
  ASSUME Sound, [WNext]_allVars
  PROVE  /\ Sound'
         /\ \/ Steady
            \/ \E w \in Workers : Moves(w) /\ UNCHANGED vars
            \/ \E u \in Urls : ServeFinish(u)
<1>0. Sound' /\ now \in Nat
  BY SoundNext, LeaseTypes DEF Sound
<1>1. ASSUME NEW c \in Commands,
             \/ ServePick(c) \/ ServeNone(c) \/ ServeEmpty(c) \/ ServeClaim(c)
             \/ Serve(c) \/ ServeRefusal(c) \/ Forget(c)
      PROVE  Steady
  BY <1>1, ServesSteadily
<1>2. ASSUME NEW u \in Urls, ServeAbort(u)
      PROVE  Steady
  BY <1>2 DEF ServeAbort, Abort, tables, Steady, Quietly
<1>3. ASSUME NEW w \in Workers, Process(w) \/ Shutdown(w) \/ Crash(w)
      PROVE  Moves(w) /\ UNCHANGED vars
  BY <1>0, <1>3, ProcessMoves, ProcessQuiet DEF Sound
<1>4. ASSUME World
      PROVE  Steady
  <2>1. UNCHANGED <<worker, calls, origins, request_slots>>
    <3>1. CASE \E p \in Partitions, owner \in Nodes \cup {Draining} : WTransfer(p, owner)
      BY <3>1 DEF WTransfer, Transfer, workerVars
    <3>2. CASE \E u \in Urls, k \in 0 .. MaximumUrls : WPublish(u, k)
      BY <3>2 DEF WPublish, PublishOutbox, workerVars
    <3>3. CASE WTick \/ WHorizon
      BY <3>3 DEF WTick, Tick, WHorizon, allVars, workerVars, vars, tables
    <3> QED
      BY <1>4, <3>1, <3>2, <3>3 DEF World
  <2>2. now' \in {now, now + 1} /\ (now' # now => \A w \in Flying : now < worker[w].ends)
    BY <1>4 DEF World, WTransfer, Transfer, WPublish, PublishOutbox, WTick, Tick, WHorizon,
       allVars, vars
  <2> QED
    BY <2>1, <2>2 DEF Steady, Quietly
<1>5. ASSUME UNCHANGED allVars
      PROVE  Steady
  BY <1>5 DEF allVars, vars, tables, workerVars, Steady, Quietly
<1> QED
  BY <1>0, <1>1, <1>2, <1>3, <1>4, <1>5, Zenon DEF WNext, Frontier, World

(* The answer that a finished transaction sends.                           *)
Answering(u, t, c) ==
  /\ t = tx[u] /\ c = tx[u].req.command
  /\ t # NoTx /\ t.req.url = u /\ Finish(u) /\ Apply(t)
  /\ c \in Commands /\ calls[c] # NoTx /\ calls[c].req = t.req /\ Replies(c, t.verdict)
  /\ calls[c].reply = NoReply /\ calls[c].started <= t.at
  /\ worker' = worker /\ now' = now

LEMMA FinishAnswers ==
  ASSUME Sound, NEW u \in Urls, ServeFinish(u)
  PROVE  \E t, c : Answering(u, t, c)
<1>1. PICK t, c : t = tx[u] /\ c = tx[u].req.command
  OBVIOUS
<1>2. /\ t # NoTx /\ Finish(u) /\ Apply(t) /\ worker' = worker /\ now' = now
  BY <1>1 DEF ServeFinish, Finish
<1>3. t.req.url = u
  BY <1>1, <1>2 DEF Sound, Base, Locked
<1>4. /\ c \in Commands /\ calls[c] # NoTx /\ calls[c].req = t.req
      /\ calls[c].reply = NoReply /\ calls[c].started <= t.at
  BY <1>1, <1>2 DEF Sound, Fitting, Underway
<1>5. Replies(c, t.verdict)
  BY <1>1, FinishFits DEF Sound
<1> QED
  BY <1>1, <1>2, <1>3, <1>4, <1>5 DEF Answering

(* A claim in progress will bring a token that nobody has seen.            *)
LEMMA ClaimIsNew ==
  ASSUME Sound, NEW u \in Urls, tx[u] # NoTx, tx[u].req.action = "claim",
         NEW k, k = tx[u].req.token, Granted(k) \/ k = NoToken
  PROVE  FALSE
<1> DEFINE m == urls[u].origin
<1>1. k = <<m, origins[m].epoch + 1, u>> /\ m \in Origins /\ origins[m].epoch \in Nat
  BY LeaseTypes DEF Sound, Leased, Holding, Holds
<1>2. m # 0
  BY <1>1, ConstantAssumptions
<1> QED
  BY <1>1, <1>2 DEF Granted, NoToken

LEMMA FinishOwned ==
  ASSUME Sound, Owned, NEW u \in Urls, ServeFinish(u)
  PROVE  Owned'
<1>0. PICK t, c : Answering(u, t, c)
  BY FinishAnswers
<1>1. /\ t = tx[u] /\ t # NoTx /\ worker' = worker /\ CallsStay(c) /\ calls'[c] # NoTx
      /\ c \in Commands /\ calls[c] # NoTx /\ calls[c].reply # "ok"
      /\ calls[c].req = t.req /\ calls'[c].req = t.req
  BY <1>0 DEF Answering, Replies, NoReply
<1> SUFFICES ASSUME NEW k \in Tokens PROVE OwnedOnce(k)'
  BY DEF Owned
<1>2. OwnedOnce(k)
  BY DEF Owned
<1>3. \A w \in Workers : Carries(w, k)' <=> Carries(w, k)
  BY <1>1 DEF Carries
<1>4. \A d \in Commands : Gives(d, k)' <=> Gives(d, k)
  BY <1>1 DEF Gives, CallsStay
<1>5. \A d \in Commands : d # c => (Wins(d, k)' <=> Wins(d, k))
  BY <1>1 DEF Wins, Won, CallsStay
<1>6. CASE ~Wins(c, k)'
  BY <1>2, <1>3, <1>4, <1>5, <1>6, OwnedFrame
<1>7. CASE Wins(c, k)'
  <2>1. t.req.action = "claim" /\ k = t.req.token
    BY <1>1, <1>7 DEF Wins, Won
  <2>2. ~Granted(k) /\ k # NoToken
    BY <1>1, <2>1, ClaimIsNew
  <2>3. ~Live(k)
    BY <2>2, LiveIsGranted DEF Sound
  <2>4. \A d \in Commands : ~Gives(d, k)
    BY <2>2, GivenIsGranted DEF Sound
  <2>5. /\ \A w \in Workers : ~Carries(w, k)'
        /\ \A d \in Commands : ~Gives(d, k)' /\ (Wins(d, k)' => d = c)
    BY <1>3, <1>4, <1>5, <2>3, <2>4 DEF Live
  <2> QED
    BY <2>5 DEF OwnedOnce
<1> QED
  BY <1>6, <1>7

LEMMA SteadyOwned ==
  ASSUME Owned, Steady
  PROVE  Owned'
<1> SUFFICES ASSUME NEW k \in Tokens PROVE OwnedOnce(k)'
  BY DEF Owned
<1>1. OwnedOnce(k)
  BY DEF Owned
<1>2. \A w \in Workers : Carries(w, k)' <=> Carries(w, k)
  BY DEF Steady, Carries
<1>3. ASSUME NEW c \in Commands
      PROVE  (Wins(c, k)' => Wins(c, k)) /\ (Gives(c, k)' => Gives(c, k))
  <2>1. Quietly(c)
    BY DEF Steady
  <2> QED
    BY <2>1 DEF Quietly, Wins, Won, Gives
<1> QED
  BY <1>1, <1>2, <1>3, OwnedFrame

LEMMA OwnedNext ==
  ASSUME Sound, Owned, [WNext]_allVars
  PROVE  Owned'
<1>1. Sound'
  BY StepKindsOfWorkers
<1>2. ASSUME NEW w \in Workers, Moves(w)
      PROVE  Owned'
  BY <1>1, <1>2, MovesOwned DEF Sound
<1> QED
  BY <1>2, SteadyOwned, FinishOwned, StepKindsOfWorkers
-----------------------------------------------------------------------------
(* What a process may rely on *)

Held(k) == origins[k[1]].token = k

(* A local deadline is never later than that of the lease. *)
Until(k, t) == now < t => Held(k) /\ t <= origins[k[1]].deadline

(* Until the lease has cooled down, an admitted request to d is covered:   *)
(* the origin d is held with it, and so is a request slot.                 *)
Warm(k) == Held(k) /\ now < origins[k[1]].deadline + Cooldown

(* So is one while the lease is being renewed, however long that takes:    *)
(* the renewal has locked all that is held by the token.                   *)
Extending(k) == tx[k[3]] # NoTx /\ tx[k[3]].req.action = "renew"
Lasting(k) == Warm(k) \/ (Held(k) /\ Extending(k))
Covered(k, d) ==
  /\ origins[d].token = k
  /\ request_slots[k[3]] >= origins[k[1]].deadline + Cooldown

Secure(w) ==
  LET r == worker[w]  k == worker[w].token IN
  r.pc \in Engaged =>
    /\ Until(k, r.until)
    /\ r.renew # NoCommand /\ calls[r.renew].reply = "ok" => Until(k, Deadline(r.renew))
    /\ r.pc = "authorize" /\ Reply(w) = "ok" => (Lasting(k) => Covered(k, r.dest))
    /\ r.pc = "http" => /\ Warm(k) /\ Covered(k, r.dest)
                        /\ now <= r.ends /\ r.ends < origins[k[1]].deadline + Cooldown
Promised(c) == Won(c) => Until(calls[c].req.token, Deadline(c))
InLease == (\A w \in Workers : Secure(w)) /\ \A c \in Commands : Promised(c)

(* A renewal has locked every origin held by its token. *)
LEMMA RenewLocksAll ==
  ASSUME Base, Leased, Tenured, NEW k \in Tokens, Granted(k), k # NoToken, Held(k), Extending(k),
         NEW o \in Origins, origins[o].token = k
  PROVE  o \in tx[k[3]].locks
<1>1. PICK m, v : m = k[1] /\ v = k[3] /\ m \in Origins /\ v \in Urls
  BY DEF Granted
<1>2. origins[m].token = k /\ urls[v].origin = m
  BY <1>1 DEF Held, Tenured, Rooted
<1>3. /\ tx[v] # NoTx /\ Holds(v) /\ SharedAux(v) \subseteq tx[v].locks
      /\ m \in tx[v].locks
  BY <1>1, <1>2 DEF Extending, Leased, Holding, Holds, Base, Locked
<1>4. CASE k[1] = o
  BY <1>1, <1>3, <1>4
<1>5. ASSUME NEW x \in Urls, o \in OwnAux(x)
      PROVE  o \in tx[v].locks
  <2>1. x = v /\ auxiliary_origins[x][o] # NoRow
    BY <1>1, <1>5, OwnedByUrl DEF Leased
  <2>2. o \in SharedAux(v)
    BY <1>2, <2>1 DEF SharedAux, AuxRows
  <2> QED
    BY <1>3, <2>2
<1> QED
  BY <1>1, <1>4, <1>5 DEF Leased, HeldOriginHasRow

(* A lease that has cooled down does not come back, unless by a renewal    *)
(* that began before and is still on its way.                              *)
LEMMA HeldBefore ==
  ASSUME Base, Leased, Tenured, NEW u \in Urls, Finish(u), NEW k \in Tokens, Granted(k), Held(k)'
  PROVE  Held(k) /\ (SameLease(k[1]) \/ (u = k[3] /\ tx[u].req.action = "renew"))
<1>1. PICK t, m : t = tx[u] /\ m = k[1] /\ m \in Origins /\ origins'[m].token = k
  BY DEF Granted, Held
<1>2. t # NoTx /\ k # NoToken
  <2>1. NoToken[1] \notin Origins
    BY ConstantAssumptions DEF NoToken
  <2> QED
    BY <1>1, <2>1 DEF Finish
<1> DEFINE G == Held(k) /\ (SameLease(m) \/ (u = k[3] /\ t.req.action = "renew"))
<1>3. ASSUME SameLease(m) PROVE G
  BY <1>1, <1>3 DEF SameLease, Held
<1>4. t.req.action # "claim" =>
        /\ t.req.token = origins[urls[u].origin].token /\ t.req.token[1] = urls[u].origin
        /\ t.req.token[3] = u
  BY <1>1, <1>2, TokenOfCall
<1>5. ASSUME Claimed(t, u) PROVE G
  <2>1. ASSUME m = urls[u].origin PROVE FALSE
    <3>1. k = t.req.token /\ t.req.token = <<m, origins[m].epoch + 1, u>>
      BY <1>1, <1>2, <1>5, <2>1 DEF Claimed, NewLease, Leased, Holding, Holds
    <3>2. origins[m].epoch \in Nat /\ k[2] <= origins[m].epoch
      BY <1>1, LeaseTypes DEF Granted
    <3> QED
      BY <3>1, <3>2
  <2> QED
    BY <1>1, <1>3, <1>5, <2>1 DEF Claimed
<1>6. ASSUME Acquired(t, u) PROVE G
  <2>1. m # t.req.arg
    BY <1>1, <1>4, <1>6 DEF Acquired, NewLease
  <2> QED
    BY <1>1, <1>3, <1>6, <2>1 DEF Acquired
<1>7. ASSUME Renewed(t, u) PROVE G
  <2>1. CASE m \notin t.locks
    BY <1>1, <1>3, <1>7, <2>1 DEF Renewed
  <2>2. CASE m \in t.locks
    <3>1. origins[m].token = k
      BY <1>1, <1>7, <2>2 DEF Renewed
    <3>2. origins[m].token = t.req.token
      BY <1>1, <1>2, <1>7, <2>2 DEF Renewed, Leased, Holding, Holds
    <3> QED
      BY <1>1, <1>4, <1>7, <3>1, <3>2 DEF Renewed, Held
  <2> QED
    BY <2>1, <2>2
<1>8. ASSUME GivenBack(t, u) PROVE G
  <2>1. m \notin t.locks
    BY <1>1, <1>2, <1>8 DEF GivenBack
  <2> QED
    BY <1>1, <1>3, <1>8, <2>1 DEF GivenBack
<1>9. ASSUME LeasesStay PROVE G
  BY <1>1, <1>3, <1>9 DEF LeasesStay
<1> HIDE DEF G
<1>10. G
  BY <1>1, <1>5, <1>6, <1>7, <1>8, <1>9, FinishLeases
<1> QED
  BY <1>1, <1>10 DEF G

LEMMA WasLasting ==
  ASSUME Base, Leased, Tenured, [Next]_vars, NEW k \in Tokens, Granted(k), Lasting(k)'
  PROVE  Lasting(k)
<1>0. PICK m, v : m = k[1] /\ v = k[3] /\ m \in Origins /\ v \in Urls /\ m # 0
  BY ConstantAssumptions DEF Granted
<1>1. /\ origins'[m].token = k /\ k # NoToken /\ Held(k)'
      /\ \/ now' < origins'[m].deadline + Cooldown
         \/ tx'[v] # NoTx /\ tx'[v].req.action = "renew"
  BY <1>0 DEF Lasting, Warm, Held, Extending, NoToken
<1>2. /\ now \in Nat /\ now' \in {now, now + 1} /\ origins[m].deadline \in Int
      /\ Cooldown \in Nat /\ DOMAIN tx = Urls
  BY <1>0, LeaseTypes, ClockSteps, NumberConstants DEF Base
<1>3. ASSUME Held(k), SameLease(m), tx'[v] = tx[v]
      PROVE  Lasting(k)
  BY <1>0, <1>1, <1>2, <1>3 DEF Lasting, Warm, Held, Extending, SameLease
<1>4. ASSUME origins' = origins, tx'[v] = tx[v] \/ tx'[v] = NoTx
      PROVE  Lasting(k)
  BY <1>0, <1>1, <1>2, <1>4 DEF Lasting, Warm, Held, Extending
<1>5. ASSUME NEW r, IsRequest(r), Begin(r)
      PROVE  Lasting(k)
  <2>1. PICK t : tx' = [tx EXCEPT ![r.url] = t] /\ t.req = r
    BY <1>5, BeginStarts
  <2>2. origins' = origins /\ Verdict(r) \notin Refusals
    BY <1>5 DEF Begin, tables
  <2>3. CASE r.url = v /\ r.action = "renew"
    <3>1. ~Fenced(r)
      BY <2>2, <2>3 DEF Verdict, Refusals
    <3>2. urls[v].origin = m
      BY <1>0, <1>1, <2>2 DEF Tenured, Rooted
    <3>3. ~(origins[m].deadline <= now)
      BY <2>3, <3>1, <3>2 DEF Fenced
    <3> QED
      BY <1>0, <1>1, <1>2, <2>2, <3>3, NumberConstants DEF Lasting, Warm, Held
  <2>4. CASE r.url = v /\ r.action # "renew"
    BY <1>0, <1>1, <1>2, <2>1, <2>2, <2>4 DEF Lasting, Warm, Held
  <2>5. CASE r.url # v
    BY <1>0, <1>2, <1>4, <2>1, <2>2, <2>5
  <2> QED
    BY <2>3, <2>4, <2>5
<1>6. ASSUME NEW c \in Commands, ClaimBegin(c)
      PROVE  Lasting(k)
  <2>1. PICK t : tx' = [tx EXCEPT ![pick[c]] = t] /\ t.req.action = "claim"
    BY <1>6, ClaimStarts
  <2>2. origins' = origins
    BY <1>6 DEF ClaimBegin, tables
  <2>3. CASE pick[c] = v
    BY <1>0, <1>1, <1>2, <2>1, <2>2, <2>3 DEF Lasting, Warm, Held
  <2>4. CASE pick[c] # v
    BY <1>0, <1>2, <1>4, <2>1, <2>2, <2>4
  <2> QED
    BY <2>3, <2>4
<1>7. ASSUME NEW u \in Urls, Finish(u)
      PROVE  Lasting(k)
  <2>1. Held(k) /\ (SameLease(m) \/ (u = v /\ tx[u].req.action = "renew"))
    BY <1>0, <1>1, <1>7, HeldBefore
  <2>2. tx' = [tx EXCEPT ![u] = NoTx] /\ tx[u] # NoTx /\ now' = now
    BY <1>7 DEF Finish
  <2>3. CASE u = v /\ tx[u].req.action = "renew"
    <3>1. Extending(k)
      BY <1>0, <2>2, <2>3, Zenon DEF Extending
    <3> QED
      BY <2>1, <3>1, Zenon DEF Lasting
  <2>4. CASE SameLease(m) /\ u = v
    <3>1. tx'[v] = NoTx
      BY <1>0, <1>2, <2>2, <2>4
    <3> QED
      BY <1>0, <1>1, <1>2, <2>1, <2>2, <2>4, <3>1 DEF Lasting, Warm, SameLease
  <2>5. CASE SameLease(m) /\ u # v
    BY <1>0, <1>2, <1>3, <2>1, <2>2, <2>5
  <2> QED
    BY <2>1, <2>3, <2>4, <2>5
<1>8. ASSUME NEW u \in Urls, Abort(u)
      PROVE  Lasting(k)
  <2>1. tx' = [tx EXCEPT ![u] = NoTx] /\ origins' = origins
    BY <1>8 DEF Abort, tables
  <2> QED
    BY <1>0, <1>2, <1>4, <2>1
<1>9. CASE Aside
  BY <1>4, <1>9 DEF Aside
<1> QED
  BY <1>5, <1>6, <1>7, <1>8, <1>9, StepKinds DEF Base

(* What a lease is worth lasts while the frontier finishes other calls.    *)
LEMMA Endures ==
  ASSUME Sound, Owned, NEW u \in Urls, ServeFinish(u),
         NEW k \in Tokens, Live(k), Lasting(k), NEW o \in Origins, origins[o].token = k
  PROVE  origins'[o].token = k /\ origins'[o].deadline >= origins[o].deadline
<1>0. PICK t, c : Answering(u, t, c)
  BY FinishAnswers
<1>1. t.req.action \in {"commit", "nack"} => t.req.token # k
  <2> SUFFICES ASSUME t.req.action \in {"commit", "nack"}, t.req.token = k PROVE FALSE
    OBVIOUS
  <2>1. c \in Commands /\ Gives(c, k)
    BY <1>0 DEF Answering, Gives
  <2> QED
    BY <2>1 DEF Owned, OwnedOnce
<1>2. k[1] \in Origins /\ k[3] \in Urls /\ k # NoToken /\ Granted(k)
  BY LiveIsGranted DEF Sound, Granted
<1>3. origins[k[1]].token = k /\ Held(k)
  BY DEF Lasting, Warm, Held
<1>4. t = tx[u] /\ t # NoTx /\ Finish(u) /\ Apply(t)
  BY <1>0 DEF Answering
<1>5. CASE Warm(k)
  BY <1>1, <1>2, <1>3, <1>4, <1>5, LeaseLasts DEF Sound, Warm
<1>6. CASE Extending(k)
  <2>1. o \in tx[k[3]].locks
    BY <1>2, <1>3, <1>6, RenewLocksAll DEF Sound
  <2>2. CASE u = k[3]
    <3>1. RenewApply(t) /\ t.locks \subseteq Origins
      BY <1>4, <1>6, <2>2, TransactionFields DEF Extending, Apply, Sound, Base
    <3>2. Renewed(t, u)
      BY <1>4, <1>6, <2>2, <3>1, RenewWrites DEF Extending, Sound, Base
    <3>3. origins[o].deadline <= t.at + Lease
      BY <1>4, <2>1, <2>2 DEF Sound, Tenured, Cleared
    <3>4. origins[o].deadline \in Int /\ t.at \in Nat /\ Lease \in Nat
      BY <1>4, LeaseTypes, TransactionFields, NumberConstants DEF Sound, Base
    <3> QED
      BY <1>4, <2>1, <2>2, <3>2, <3>3, <3>4 DEF Renewed
  <2>3. CASE u # k[3]
    <3>1. tx'[k[3]] # NoTx
      BY <1>2, <1>4, <1>6, <2>3, LeaseTypes DEF Finish, Extending, Sound
    <3>2. origins'[o] = origins[o]
      BY <1>2, <1>4, <2>1, <3>1, LocksHold DEF Sound
    <3>3. origins[o].deadline \in Int
      BY LeaseTypes DEF Sound
    <3> QED
      BY <3>2, <3>3
  <2> QED
    BY <2>2, <2>3
<1> QED
  BY <1>5, <1>6 DEF Lasting

(* The URL of a live lease is filed under the origin of the lease, and no  *)
(* other call ends it.                                                     *)
LEMMA LiveCall ==
  ASSUME Sound, Owned, NEW u \in Urls, tx[u] # NoTx, tx[u].req.action # "claim",
         NEW k \in Tokens, Live(k), Held(k)
  PROVE  /\ k[1] \in Origins /\ k[3] \in Urls /\ urls[k[3]].origin = k[1]
         /\ (tx[u].req.token = k <=> u = k[3])
         /\ (u = k[3] => tx[u].req.action \notin {"commit", "nack"})
<1>1. k[1] \in Origins /\ k[3] \in Urls /\ k # NoToken
  BY LiveIsGranted DEF Sound, Granted
<1>2. urls[k[3]].origin = k[1]
  BY <1>1 DEF Held, Sound, Tenured, Rooted
<1>3. tx[u].req.token = origins[urls[u].origin].token /\ tx[u].req.token[3] = u
  BY TokenOfCall DEF Sound
<1>4. tx[u].req.token = k <=> u = k[3]
  BY <1>2, <1>3 DEF Held
<1>5. ASSUME u = k[3], tx[u].req.action \in {"commit", "nack"}
      PROVE  FALSE
  <2>1. Underway(u)
    BY DEF Sound, Fitting
  <2>2. Gives(tx[u].req.command, k) /\ tx[u].req.command \in Commands
    BY <1>4, <1>5, <2>1 DEF Underway, Gives
  <2> QED
    BY <2>2 DEF Owned, OwnedOnce
<1> QED
  BY <1>1, <1>2, <1>4, <1>5

(* What an authorize call does to the lease and to the slots.              *)
LEMMA SlotGranted ==
  ASSUME Base, Leased, Tenured, NEW u \in Urls, NEW t, t = tx[u], t # NoTx, t.req.url = u,
         t.req.action = "authorize", AuthorizeApply(t), NEW m, m = urls[u].origin
  PROVE  /\ m \in Origins /\ origins'[m].deadline = origins[m].deadline
         /\ t.req.arg \in Origins
         /\ t.verdict = "ok" => origins'[t.req.arg].token = t.req.token
         /\ t.slots /\ t.verdict \in TakesSlot =>
              request_slots'[u] >= origins[m].deadline + Cooldown
         /\ \A v \in Urls : request_slots[v] > t.at /\ ~(t.slots /\ t.verdict \in TakesSlot /\ v = u)
              => request_slots'[v] = request_slots[v]
<1> DEFINE d == t.req.arg
           held == IF Acquires(t)
                   THEN [origins[d] EXCEPT !.epoch = @ + 1, !.owner = Sender[t.req.command],
                                           !.token = t.req.token, !.deadline = t.at + Lease]
                   ELSE origins[d]
           until == held.deadline + Cooldown
           delay == Max2(MinimumDelay, CrawlDelay(d, t.at))
           row == IF t.verdict = "ok" THEN [held EXCEPT !.eligible_at = t.at + delay] ELSE held
<1>a. IsRequest(t.req) /\ t.at \in Nat /\ t.slots \in BOOLEAN
  BY TransactionFields DEF Base
<1>b. d \in Origins
  BY <1>a, RequestFields
<1>c. t.at <= now /\ origins \in [Origins -> OriginRow] /\ request_slots \in [Urls -> Nat]
  BY DEF Base, TypeOK, InTime
<1>1. /\ m \in Origins /\ d \in Origins /\ t.at \in Nat /\ t.at <= now /\ now \in Nat
      /\ origins \in [Origins -> OriginRow] /\ request_slots \in [Urls -> Nat]
      /\ t.slots \in BOOLEAN
  BY <1>a, <1>b, <1>c, LeaseTypes
<1>2. /\ t.req.token = origins[m].token /\ t.req.token[1] = m /\ m # 0
      /\ origins[m].deadline <= t.at + Lease
  BY <1>1, TokenOfCall, ConstantAssumptions DEF Leased, Holding, Holds
<1>3. origins' = [origins EXCEPT ![d] = row]
  BY DEF AuthorizeApply
<1>s. request_slots' = IF t.slots
        THEN [v \in Urls |-> IF v = t.req.url /\ t.verdict \in TakesSlot THEN until
                             ELSE IF request_slots[v] <= t.at THEN 0 ELSE request_slots[v]]
        ELSE request_slots
  BY DEF AuthorizeApply, SlotUntil
<1>4. Acquires(t) <=> d # m /\ origins[d].token # t.req.token
  BY DEF Acquires
<1>5. /\ held.token = IF Acquires(t) THEN t.req.token ELSE origins[d].token
      /\ held.deadline = IF Acquires(t) THEN t.at + Lease ELSE origins[d].deadline
      /\ DOMAIN held = DOMAIN origins[d]
  BY <1>1 DEF OriginRow
<1> HIDE DEF delay
<1>6. row.token = held.token /\ row.deadline = held.deadline
  BY <1>1, <1>5 DEF OriginRow
<1> HIDE DEF row
<1>7. origins'[d].token = held.token /\ origins'[d].deadline = held.deadline
  BY <1>1, <1>3, <1>6
<1>8. \A o \in Origins : o # d => origins'[o] = origins[o]
  BY <1>1, <1>3
<1> HIDE DEF held
<1>9. held.token = t.req.token
  BY <1>2, <1>4, <1>5
<1>10. origins'[m].deadline = origins[m].deadline
  BY <1>1, <1>4, <1>5, <1>7, <1>8
<1>11. held.deadline >= origins[m].deadline /\ held.deadline \in Int /\ origins[m].deadline \in Int
  <2>1. CASE Acquires(t)
    BY <1>1, <1>2, <1>5, <2>1, LeaseTypes
  <2>2. CASE ~Acquires(t)
    <3>1. origins[d].token = origins[m].token /\ origins[m].token # NoToken
      BY <1>2, <1>4, <2>2 DEF NoToken
    <3>2. origins[d].deadline >= origins[m].deadline
      BY <1>1, <1>2, <3>1, TokenCovers
    <3> QED
      BY <1>1, <1>5, <2>2, <3>2, LeaseTypes
  <2> QED
    BY <2>1, <2>2
<1>12. t.slots /\ t.verdict \in TakesSlot => request_slots'[u] = held.deadline + Cooldown
  BY <1>s
<1>13. \A v \in Urls : request_slots[v] > t.at /\ ~(t.slots /\ t.verdict \in TakesSlot /\ v = u)
         => request_slots'[v] = request_slots[v]
  BY <1>1, <1>s
<1> QED
  BY <1>1, <1>7, <1>9, <1>10, <1>11, <1>12, <1>13, NumberConstants


(* Only a renewal moves the deadline of a live lease. *)
LEMMA DeadlineStays ==
  ASSUME Sound, Owned, NEW u \in Urls, ServeFinish(u), NEW k \in Tokens, Live(k), Lasting(k),
         NEW t, t = tx[u]
  PROVE  /\ k[1] \in Origins /\ origins'[k[1]].token = k
         /\ \/ origins'[k[1]].deadline = origins[k[1]].deadline
            \/ t.req.action = "renew" /\ u = k[3]
         /\ t.req.action = "renew" /\ u = k[3] => origins'[k[1]].deadline = t.at + Lease
<1>0. PICK c : Answering(u, t, c)
  BY FinishAnswers DEF Answering
<1>1. t # NoTx /\ Finish(u) /\ t.req.url = u
  BY <1>0 DEF Answering
<1>2. PICK m : m = k[1] /\ m \in Origins /\ origins[m].token = k /\ Held(k) /\ k # NoToken
  BY LiveIsGranted DEF Sound, Granted, Lasting, Warm, Held
<1>3. origins'[m].token = k
  BY <1>2, Endures
<1>4. t.req.action # "claim" =>
        /\ urls[k[3]].origin = m /\ (t.req.token = k <=> u = k[3])
        /\ t.req.token[1] = urls[u].origin
  BY <1>1, <1>2, LiveCall, TokenOfCall DEF Sound
<1>5. SameLease(m) => origins'[m].deadline = origins[m].deadline
  BY DEF SameLease
<1>6. CASE Claimed(t, u)
  <2>1. m # urls[u].origin
    <3> SUFFICES ASSUME m = urls[u].origin PROVE FALSE
      OBVIOUS
    <3>1. k = t.req.token
      BY <1>3, <1>6 DEF Claimed, NewLease
    <3>2. Granted(k)
      BY LiveIsGranted DEF Sound
    <3> QED
      BY <1>1, <1>6, <3>1, <3>2, ClaimIsNew DEF Claimed
  <2> QED
    BY <1>2, <1>3, <1>5, <1>6, <2>1 DEF Claimed
<1>7. CASE Acquired(t, u)
  <2>1. m # t.req.arg
    BY <1>2, <1>3, <1>4, <1>7 DEF Acquired, NewLease
  <2> QED
    BY <1>2, <1>3, <1>5, <1>7, <2>1 DEF Acquired
<1>8. CASE Renewed(t, u)
  <2>1. CASE m \in t.locks
    <3>1. origins[m].token = t.req.token
      BY <1>1, <1>8, <2>1 DEF Renewed, Sound, Leased, Holding, Holds
    <3> QED
      BY <1>2, <1>3, <1>4, <1>8, <2>1, <3>1 DEF Renewed
  <2>2. CASE m \notin t.locks
    <3>1. u # k[3]
      BY <1>1, <1>4, <1>8, <2>2 DEF Renewed, Sound, Base, Locked
    <3> QED
      BY <1>2, <1>3, <1>5, <1>8, <2>2, <3>1 DEF Renewed
  <2> QED
    BY <2>1, <2>2
<1>9. CASE GivenBack(t, u)
  <2>1. m \notin t.locks
    BY <1>2, <1>3, <1>9 DEF GivenBack
  <2> QED
    BY <1>2, <1>3, <1>5, <1>9, <2>1 DEF GivenBack
<1>10. CASE LeasesStay /\ t.req.action # "renew"
  BY <1>2, <1>3, <1>5, <1>10 DEF LeasesStay
<1>11. t.req.action = "renew" => Renewed(t, u)
  <2> SUFFICES ASSUME t.req.action = "renew" PROVE Renewed(t, u)
    OBVIOUS
  <2>1. RenewApply(t)
    BY <1>0 DEF Answering, Apply
  <2>2. t.locks \subseteq Origins
    BY <1>1, TransactionFields DEF Sound, Base
  <2> QED
    BY <2>1, <2>2, RenewWrites DEF Sound, Base
<1> QED
  BY <1>1, <1>6, <1>7, <1>8, <1>9, <1>10, <1>11, FinishLeases DEF Sound

(* The slot of a lease lasts as long: one that has expired is not deleted  *)
(* while a renewal is about to extend it.                                  *)
LEMMA SlotsEndure ==
  ASSUME Sound, Owned, UnderLease, Slotted, NEW u \in Urls, ServeFinish(u),
         NEW k \in Tokens, Live(k), Lasting(k),
         request_slots[k[3]] >= origins[k[1]].deadline + Cooldown
  PROVE  request_slots'[k[3]] >= origins'[k[1]].deadline + Cooldown
<1>0. PICK t, c : Answering(u, t, c)
  BY FinishAnswers
<1>1. t = tx[u] /\ t # NoTx /\ t.req.url = u /\ Apply(t) /\ Finish(u)
  BY <1>0 DEF Answering
<1>2. PICK m, v : m = k[1] /\ v = k[3] /\ m \in Origins /\ v \in Urls /\ Held(k)
  BY LiveIsGranted DEF Sound, Granted, Lasting, Warm
<1>3. /\ request_slots \in [Urls -> Nat] /\ origins[m].deadline \in Int
      /\ t.at \in Nat /\ t.at <= now /\ now \in Nat
  BY <1>1, <1>2, TransactionFields, LeaseTypes DEF Sound, Base, TypeOK, InTime
<1>4. /\ request_slots[v] # 0
      /\ request_slots[v] > t.at \/ (Extending(k) /\ ~(t.slots /\ u # v))
  <2>1. CASE Warm(k)
    BY <1>2, <1>3, <2>1, NumberConstants DEF Warm
  <2>2. CASE Extending(k)
    <3>1. tx[v] # NoTx /\ tx[v].req.action = "renew" /\ tx[v].at \in Nat
      BY <1>2, <2>2, TransactionFields DEF Extending, Sound, Base
    <3>2. urls[v].origin = m
      BY <1>2, LiveIsGranted DEF Held, Sound, Tenured, Rooted
    <3>3. tx[v].at < origins[m].deadline
      BY <1>2, <3>1, <3>2 DEF UnderLease
    <3>4. request_slots[v] # 0
      BY <1>2, <1>3, <3>1, <3>3, NumberConstants
    <3>5. t.slots /\ u # v => ~(request_slots[v] <= t.at)
      BY <1>1, <1>2, <3>1, <3>4 DEF Slotted, Unrevived, SlotWriters, Expired
    <3> QED
      BY <1>2, <1>3, <2>2, <3>4, <3>5
  <2> QED
    BY <2>1, <2>2 DEF Lasting
<1>5. /\ origins'[m].deadline = origins[m].deadline \/ (t.req.action = "renew" /\ u = v)
      /\ t.req.action = "renew" /\ u = v => origins'[m].deadline = t.at + Lease
  BY <1>1, <1>2, DeadlineStays
<1>6. t.req.action # "claim" =>
        /\ urls[v].origin = m
        /\ u = v => t.req.action \notin {"commit", "nack"}
  BY <1>1, <1>2, LiveCall
<1>7. CASE request_slots'[v] = request_slots[v] /\ ~(t.req.action = "renew" /\ u = v)
  BY <1>2, <1>5, <1>7
<1>8. CASE t.req.action = "renew"
  <2>1. request_slots' = [request_slots EXCEPT ![u] =
          IF request_slots[u] = 0 THEN 0 ELSE t.at + Lease + Cooldown]
    BY <1>1, <1>8 DEF Apply, RenewApply
  <2> QED
    BY <1>2, <1>3, <1>4, <1>5, <1>7, <1>8, <2>1, NumberConstants
<1>9. CASE t.req.action \in {"commit", "nack"}
  <2>1. request_slots' = [request_slots EXCEPT ![u] = Cooling(t, request_slots[u])]
    BY <1>1, <1>9 DEF Apply, CommitApply, NackApply, ReleaseApply
  <2>2. u # v
    BY <1>6, <1>9
  <2> QED
    BY <1>2, <1>3, <1>7, <1>9, <2>1, <2>2
<1>10. CASE t.req.action = "authorize"
  <2>1. AuthorizeApply(t)
    BY <1>1, <1>10 DEF Apply
  <2>2. PICK n : n = urls[u].origin
    OBVIOUS
  <2>3. /\ t.slots /\ t.verdict \in TakesSlot =>
             request_slots'[u] >= origins[n].deadline + Cooldown
        /\ \A x \in Urls :
             request_slots[x] > t.at /\ ~(t.slots /\ t.verdict \in TakesSlot /\ x = u)
               => request_slots'[x] = request_slots[x]
    BY <1>1, <1>10, <2>1, <2>2, SlotGranted DEF Sound
  <2>4. CASE t.slots /\ t.verdict \in TakesSlot /\ v = u
    BY <1>2, <1>5, <1>6, <1>10, <2>2, <2>3, <2>4
  <2>5. CASE ~(t.slots /\ t.verdict \in TakesSlot /\ v = u) /\ request_slots[v] > t.at
    BY <1>2, <1>7, <1>10, <2>3, <2>5
  <2>6. CASE Extending(k) /\ ~(t.slots /\ u # v)
    <3>1. u # v
      BY <1>1, <1>2, <1>10, <2>6 DEF Extending
    <3>2. request_slots' = request_slots
      BY <2>1, <2>6, <3>1 DEF AuthorizeApply
    <3> QED
      BY <1>7, <1>10, <3>2
  <2> QED
    BY <1>4, <2>4, <2>5, <2>6
<1>11. CASE t.req.action \in {"claim", "robots_put", "continue_redirect", "discover"}
  <2>1. request_slots' = request_slots
    BY <1>1, <1>11 DEF Apply, ClaimApply, RobotsPutApply, ContinueApply, DiscoverApply
  <2> QED
    BY <1>7, <1>11, <2>1
<1> QED
  BY <1>1, <1>8, <1>9, <1>10, <1>11 DEF Apply

LEMMA RowFields ==
  ASSUME Types, NEW w \in Workers
  PROVE  /\ worker[w].token \in Tokens /\ worker[w].until \in Int /\ worker[w].ends \in Nat
         /\ worker[w].pc \in Steps
BY DEF Types, Row

LEMMA UntilEndures ==
  ASSUME Sound, Owned, NEW u \in Urls, ServeFinish(u), NEW k \in Tokens, Live(k),
         NEW n \in Int, Until(k, n)
  PROVE  Until(k, n)'
<1>0. PICK m : m = k[1] /\ m \in Origins
  BY LiveIsGranted DEF Sound, Granted
<1>1. now' = now /\ now \in Nat /\ origins[m].deadline \in Int /\ Cooldown \in Nat \ {0}
  BY <1>0, FinishAnswers, LeaseTypes, NumberConstants DEF Answering, Sound
<1>2. origins'[m].deadline \in Int
  <2>1. Sound'
    BY StepKindsOfWorkers DEF WNext, Frontier
  <2>2. origins'[m].deadline \in Nat \cup {NoDeadline}
    BY <1>0, <2>1 DEF Sound, Base, TypeOK, OriginRow
  <2> QED
    BY <2>2, LeaseTypes DEF Sound
<1>3. SUFFICES ASSUME now < n PROVE Held(k)' /\ n <= origins'[m].deadline
  BY <1>0, <1>1 DEF Until
<1>4. origins[m].token = k /\ n <= origins[m].deadline
  BY <1>0, <1>3 DEF Until, Held
<1>5. Warm(k)
  BY <1>0, <1>1, <1>3, <1>4 DEF Warm, Held
<1>6. origins'[m].token = k /\ origins'[m].deadline >= origins[m].deadline
  BY <1>0, <1>4, <1>5, Endures DEF Lasting
<1> QED
  BY <1>0, <1>1, <1>2, <1>4, <1>6 DEF Held

LEMMA CoverEndures ==
  ASSUME Sound, Owned, UnderLease, Slotted, NEW u \in Urls, ServeFinish(u),
         NEW k \in Tokens, Live(k), Lasting(k), NEW d \in Origins, Covered(k, d)
  PROVE  /\ Held(k)' /\ origins'[k[1]].deadline >= origins[k[1]].deadline
         /\ Covered(k, d)'
<1>0. PICK m : m = k[1] /\ m \in Origins
  BY LiveIsGranted DEF Sound, Granted
<1>1. origins[m].token = k /\ origins[d].token = k
      /\ request_slots[k[3]] >= origins[k[1]].deadline + Cooldown
  BY <1>0 DEF Lasting, Warm, Held, Covered
<1>2. origins'[m].token = k /\ origins'[m].deadline >= origins[m].deadline
  BY <1>0, <1>1, Endures
<1>3. origins'[d].token = k
  BY <1>1, Endures
<1>4. request_slots'[k[3]] >= origins'[k[1]].deadline + Cooldown
  BY <1>1, SlotsEndure
<1> QED
  BY <1>0, <1>2, <1>3, <1>4 DEF Held, Covered

(* A renewal that was granted has set the deadline for its token. *)
LEMMA RenewalGranted ==
  ASSUME Sound, Owned, NEW u \in Urls, ServeFinish(u), NEW t, NEW c, Answering(u, t, c),
         t.req.action = "renew", NEW k, k = t.req.token
  PROVE  Until(k, Deadline(c))'
<1>1. t = tx[u] /\ t # NoTx /\ t.req.url = u /\ Finish(u) /\ Apply(t)
      /\ calls[c].started <= t.at /\ calls'[c].started = calls[c].started /\ c \in Commands
      /\ calls[c] # NoTx
  BY DEF Answering, Replies
<1>2. PICK m : m = urls[u].origin /\ m \in Origins /\ k[1] = m /\ origins[m].token = k
               /\ m \in t.locks
  BY <1>1, TokenOfCall, LeaseTypes DEF Sound, Base, Locked
<1>3. Renewed(t, u)
  <2>1. RenewApply(t)
    BY <1>1 DEF Apply
  <2>2. t.locks \subseteq Origins
    BY <1>1, TransactionFields DEF Sound, Base
  <2> QED
    BY <1>1, <2>1, <2>2, RenewWrites DEF Sound, Base
<1>4. origins'[m].token = k /\ origins'[m].deadline = t.at + Lease
  BY <1>2, <1>3 DEF Renewed
<1>5. t.at \in Nat /\ calls[c].started \in Nat /\ Lease \in Nat /\ Margin \in Nat
  BY <1>1, TransactionFields, MessageTypes, NumberConstants, WorkerConstants
     DEF Sound, Base, Fitting, Types, CallTypes
<1>6. calls'[c].started + Lease - Margin <= t.at + Lease
  BY <1>1, <1>5
<1> QED
  BY <1>2, <1>4, <1>6, <1>1 DEF Until, Held, Deadline

(* A claim that was granted holds its origin. *)
LEMMA ClaimGranted ==
  ASSUME Sound, NEW u \in Urls, ServeFinish(u), NEW t, NEW c, Answering(u, t, c),
         t.req.action = "claim", NEW k, k = t.req.token
  PROVE  Until(k, Deadline(c))'
<1>1. t = tx[u] /\ t # NoTx /\ Finish(u)
      /\ calls[c].started <= t.at /\ calls'[c].started = calls[c].started /\ c \in Commands
      /\ calls[c] # NoTx
  BY DEF Answering, Replies
<1>2. PICK m : m = urls[u].origin /\ m \in Origins /\ k[1] = m
  BY <1>1, LeaseTypes DEF Sound, Leased, Holding, Holds
<1>3. Claimed(t, u)
  <2>1. ClaimApply(t) /\ t.req.url = u
    BY DEF Answering, Apply
  <2> QED
    BY <1>1, <2>1, ClaimWrites DEF Sound, Base
<1>4. origins'[m].token = k /\ origins'[m].deadline = t.at + Lease
  BY <1>2, <1>3 DEF Claimed, NewLease
<1>5. t.at \in Nat /\ calls[c].started \in Nat /\ Lease \in Nat /\ Margin \in Nat
  BY <1>1, TransactionFields, MessageTypes, NumberConstants, WorkerConstants
     DEF Sound, Base, Fitting, Types, CallTypes
<1>6. calls'[c].started + Lease - Margin <= t.at + Lease
  BY <1>1, <1>5
<1> QED
  BY <1>2, <1>4, <1>6, <1>1 DEF Until, Held, Deadline

(* An admission covers the request it admits. *)
LEMMA RequestGranted ==
  ASSUME Sound, Quota, NEW u \in Urls, ServeFinish(u), NEW t, NEW c, Answering(u, t, c),
         t.req.action = "authorize", t.verdict = "ok", NEW k, k = t.req.token
  PROVE  Covered(k, t.req.arg)'
<1>1. t = tx[u] /\ t # NoTx /\ t.req.url = u /\ AuthorizeApply(t)
  BY DEF Answering, Apply
<1>2. PICK m : m = urls[u].origin /\ k[1] = m /\ k[3] = u
  BY <1>1, TokenOfCall DEF Sound
<1>3. t.slots /\ "ok" \in TakesSlot
  BY <1>1 DEF Quota, TakesSlot
<1>4. PICK d : d = t.req.arg
  OBVIOUS
<1>5. /\ origins'[m].deadline = origins[m].deadline /\ origins'[d].token = k
      /\ request_slots'[u] >= origins[m].deadline + Cooldown
  BY <1>1, <1>2, <1>3, <1>4, SlotGranted DEF Sound
<1>6. request_slots'[u] >= origins'[m].deadline + Cooldown
  BY <1>5
<1> QED
  BY <1>2, <1>4, <1>5, <1>6 DEF Covered

LEMMA FinishInLease ==
  ASSUME Sound, UnderLease, Quota, Slotted, Owned, InLease, [WNext]_allVars,
         NEW u \in Urls, ServeFinish(u)
  PROVE  InLease'
<1>0. PICK t, c : Answering(u, t, c)
  BY FinishAnswers
<1>1. /\ c \in Commands /\ worker' = worker /\ now' = now /\ CallsStay(c)
      /\ calls[c] # NoTx /\ calls[c].req = t.req /\ calls[c].reply # "ok"
      /\ calls'[c].req = t.req /\ calls'[c].reply = t.verdict
      /\ calls'[c].started = calls[c].started
  BY <1>0 DEF Answering, Replies, NoReply
<1>2. Lease \in Nat /\ Margin \in Nat /\ now \in Nat /\ Types /\ Fitting
  BY LeaseTypes, WorkerConstants DEF Sound, Fitting
<1>3. ASSUME NEW d \in Commands, d # c, calls[d] # NoTx, NEW k \in Tokens, Live(k),
             Until(k, Deadline(d))
      PROVE  Until(k, Deadline(d))'
  <2>1. PICK n : n = Deadline(d)
    OBVIOUS
  <2>2. n \in Int
    BY <1>2, <1>3, <2>1, MessageTypes DEF Deadline, Types, CallTypes
  <2>3. n = Deadline(d)'
    BY <1>1, <1>3, <2>1 DEF Deadline, CallsStay
  <2>4. Until(k, n)'
    BY <1>3, <2>1, <2>2, UntilEndures
  <2> QED
    BY <2>3, <2>4 DEF Until
<1>4. ASSUME NEW d \in Commands
      PROVE  Promised(d)'
  <2>1. SUFFICES ASSUME Won(d)' PROVE Until(calls[d].req.token, Deadline(d))'
    BY DEF Promised
  <2>2. CASE d = c
    <3>1. t.req.action = "claim"
      BY <1>1, <2>1, <2>2 DEF Won
    <3>2. Until(t.req.token, Deadline(c))'
      BY <1>0, <3>1, ClaimGranted
    <3> QED
      BY <1>1, <2>2, <3>2 DEF Until
  <2>3. CASE d # c
    <3>1. calls'[d] = calls[d] /\ Won(d)
      BY <1>1, <2>1, <2>3 DEF CallsStay, Won
    <3>2. PICK k \in Tokens : k = calls[d].req.token
      BY <1>2, <3>1, MessageTypes DEF Won, Types, CallTypes
    <3>3. Live(k) /\ Until(k, Deadline(d)) /\ calls[d] # NoTx
      BY <3>1, <3>2 DEF Live, Wins, InLease, Promised, Won
    <3>4. Until(k, Deadline(d))'
      BY <1>3, <2>3, <3>3
    <3> QED
      BY <3>1, <3>2, <3>4 DEF Until
  <2> QED
    BY <2>2, <2>3
<1>5. ASSUME NEW w \in Workers
      PROVE  Secure(w)'
  <2>1. SUFFICES ASSUME worker[w].pc \in Engaged PROVE Secure(w)'
    BY <1>1 DEF Secure
  <2>2. PICK r : r = worker[w] /\ r = worker'[w]
    BY <1>1
  <2>3. PICK k : k = r.token /\ k \in Tokens /\ Live(k) /\ r.until \in Int
    BY <1>2, <2>1, <2>2, RowFields DEF Live, Carries
  <2>4. /\ r.pc \in Engaged /\ r.pc \in Working /\ Fits(w)
    BY <1>2, <2>1, <2>2, EngagedSteps DEF Fitting
  <2>5. /\ Until(k, r.until)
        /\ r.renew # NoCommand /\ calls[r.renew].reply = "ok" => Until(k, Deadline(r.renew))
        /\ r.pc = "authorize" /\ calls[r.main].reply = "ok" => (Lasting(k) => Covered(k, r.dest))
        /\ r.pc = "http" => /\ Warm(k) /\ Covered(k, r.dest)
                            /\ now <= r.ends /\ r.ends < origins[k[1]].deadline + Cooldown
    BY <2>1, <2>2, <2>3 DEF InLease, Secure, Reply
  <2>6. Until(k, r.until)'
    BY <2>3, <2>5, UntilEndures
  <2>7. ASSUME r.renew # NoCommand, calls'[r.renew].reply = "ok"
        PROVE  Until(k, Deadline(r.renew))'
    <3>1. /\ r.renew \in Commands /\ calls[r.renew] # NoTx
          /\ calls[r.renew].req.action = "renew" /\ calls[r.renew].req.token = k
      BY <2>2, <2>3, <2>4, <2>7 DEF Fits, AwaitsRenewal
    <3>2. CASE r.renew = c
      BY <1>0, <1>1, <3>1, <3>2, RenewalGranted
    <3>3. CASE r.renew # c
      <4>1. calls'[r.renew] = calls[r.renew]
        BY <1>1, <3>1, <3>3 DEF CallsStay
      <4> QED
        BY <1>3, <2>3, <2>5, <2>7, <3>1, <3>3, <4>1
    <3> QED
      BY <3>2, <3>3
  <2>8. ASSUME r.pc = "authorize", calls'[r.main].reply = "ok", Lasting(k)'
        PROVE  Covered(k, r.dest)'
    <3>1. /\ r.main \in Commands /\ r.dest \in Origins
          /\ calls[r.main].req.action = "authorize" /\ calls[r.main].req.token = k
          /\ calls[r.main].req.arg = r.dest
      BY <2>2, <2>3, <2>4, <2>8 DEF Fits, Awaits, Equipped, Waits
    <3>2. CASE r.main = c
      BY <1>0, <1>1, <2>8, <3>1, <3>2, RequestGranted
    <3>3. CASE r.main # c
      <4>1. calls'[r.main] = calls[r.main]
        BY <1>1, <3>1, <3>3 DEF CallsStay
      <4>2. Granted(k)
        BY <1>2, <2>3, LiveIsGranted
      <4>3. Lasting(k)
        BY <2>3, <2>8, <4>2, SoundNext, WasLasting DEF Sound
      <4> QED
        BY <2>3, <2>5, <2>8, <3>1, <4>1, <4>3, CoverEndures
    <3> QED
      BY <3>2, <3>3
  <2>9. ASSUME r.pc = "http"
        PROVE  /\ Warm(k)' /\ Covered(k, r.dest)'
               /\ now' <= r.ends /\ r.ends < origins'[k[1]].deadline + Cooldown
    <3>1. r.dest \in Origins /\ r.ends \in Nat
      BY <1>2, <2>2, <2>4, <2>9, RowFields DEF Fits, Equipped
    <3>2. PICK m : m = k[1] /\ m \in Origins
      BY <1>2, <2>3, LiveIsGranted DEF Granted
    <3>3. /\ Held(k)' /\ Covered(k, r.dest)' /\ origins'[m].deadline >= origins[m].deadline
      BY <2>3, <2>5, <2>9, <3>1, <3>2, CoverEndures DEF Lasting
    <3>4. origins[m].deadline \in Int /\ origins'[m].deadline \in Int /\ Cooldown \in Nat
      <4>1. Sound'
        BY StepKindsOfWorkers DEF WNext, Frontier
      <4>2. origins'[m].deadline \in Nat \cup {NoDeadline}
        BY <3>2, <4>1 DEF Sound, Base, TypeOK, OriginRow
      <4> QED
        BY <3>2, <4>2, LeaseTypes, NumberConstants DEF Sound
    <3>5. now <= r.ends /\ r.ends < origins[m].deadline + Cooldown
      BY <2>5, <2>9, <3>2
    <3>6. now' <= r.ends /\ r.ends < origins'[m].deadline + Cooldown
          /\ now' < origins'[m].deadline + Cooldown
      BY <1>1, <1>2, <3>1, <3>3, <3>4, <3>5
    <3> QED
      BY <3>2, <3>3, <3>6 DEF Warm
  <2> QED
    BY <2>2, <2>3, <2>6, <2>7, <2>8, <2>9 DEF Secure, Reply
<1> QED
  BY <1>4, <1>5 DEF InLease

(* Other steps leave leases and slots alone: time goes by, and no call is  *)
(* answered with consent.                                                  *)
Unanswered(c) == calls'[c] = calls[c] \/ calls'[c] = NoTx \/ calls'[c].reply # "ok"
Unserved ==
  /\ origins' = origins /\ request_slots' = request_slots
  /\ now \in Nat /\ now' \in Nat /\ now <= now'
  /\ \A c \in Commands : Unanswered(c)

(* What the row of v then relies on was there before.                      *)
Relies(v) ==
  LET r == worker[v]  s == worker'[v] IN
  s.pc \in Engaged =>
    /\ Until(s.token, s.until)
    /\ \/ s.renew = NoCommand \/ calls'[s.renew].reply # "ok"
       \/ r.pc \in Engaged /\ s.token = r.token /\ s.renew = r.renew
    /\ s.pc = "authorize" =>
         \/ calls'[s.main].reply # "ok"
         \/ r.pc = "authorize" /\ s.token = r.token /\ s.main = r.main /\ s.dest = r.dest
    /\ s.pc = "http" => /\ Held(s.token) /\ Covered(s.token, s.dest)
                        /\ now' <= s.ends
                        /\ s.ends < origins[s.token[1]].deadline + Cooldown

LEMMA UnservedFrame ==
  ASSUME Sound, Fitting', Unserved, NEW v \in Workers, Secure(v), Relies(v),
         \A k \in Tokens : Granted(k) /\ Lasting(k)' => Lasting(k)
  PROVE  Secure(v)'
<1>1. PICK r, s : r = worker[v] /\ s = worker'[v]
  OBVIOUS
<1>2. SUFFICES ASSUME s.pc \in Engaged PROVE Secure(v)'
  BY <1>1 DEF Secure
<1>3. PICK k : k = s.token /\ k \in Tokens /\ s.until \in Int /\ s.ends \in Nat
  BY <1>1 DEF Fitting, Types, Row
<1>4. Granted(k)' /\ Fits(v)' /\ s.pc \in Working
  BY <1>1, <1>2, <1>3, EngagedSteps DEF Fitting, Fits, Equipped
<1>5. PICK m : m = k[1] /\ m \in Origins
  BY <1>4 DEF Granted
<1>6. origins'[m] = origins[m] /\ origins[m].deadline \in Int /\ Cooldown \in Nat
      /\ now \in Nat /\ now' \in Nat /\ now <= now'
  BY <1>5, LeaseTypes, NumberConstants DEF Unserved, Sound
<1>7. Until(k, s.until)'
  BY <1>1, <1>2, <1>3, <1>5, <1>6 DEF Relies, Until, Held
<1>8. ASSUME s.renew # NoCommand, calls'[s.renew].reply = "ok"
      PROVE  Until(k, Deadline(s.renew))'
  <2>1. r.pc \in Engaged /\ r.token = k /\ s.renew = r.renew
    BY <1>1, <1>2, <1>3, <1>8 DEF Relies
  <2>2. s.renew \in Commands /\ calls'[s.renew] # NoTx
    BY <1>1, <1>4, <1>8 DEF Fits, AwaitsRenewal
  <2>3. calls'[s.renew] = calls[s.renew]
    BY <1>8, <2>2 DEF Unserved, Unanswered
  <2>4. Until(k, Deadline(s.renew))
    BY <1>1, <1>8, <2>1, <2>3 DEF Secure
  <2>5. PICK n : n = Deadline(s.renew) /\ n = Deadline(s.renew)'
    BY <2>3 DEF Deadline
  <2>6. n \in Int
    BY <2>2, <2>3, <2>5, MessageTypes, NumberConstants, WorkerConstants
       DEF Deadline, Sound, Fitting, Types, CallTypes
  <2> QED
    BY <1>5, <1>6, <2>4, <2>5, <2>6 DEF Until, Held
<1>9. ASSUME s.pc = "authorize", calls'[s.main].reply = "ok", Lasting(k)'
      PROVE  Covered(k, s.dest)'
  <2>1. r.pc = "authorize" /\ r.token = k /\ s.main = r.main /\ s.dest = r.dest
    BY <1>1, <1>2, <1>3, <1>9 DEF Relies
  <2>2. s.main \in Commands /\ calls'[s.main] # NoTx
    BY <1>1, <1>4, <1>9 DEF Fits, Awaits, Waits
  <2>3. calls'[s.main] = calls[s.main]
    BY <1>9, <2>2 DEF Unserved, Unanswered
  <2>4. Lasting(k)
    <3>1. Granted(k)
      BY <1>4 DEF Unserved, Granted
    <3> QED
      BY <1>3, <1>9, <3>1
  <2>5. Covered(k, s.dest)
    BY <1>1, <1>9, <2>1, <2>3, <2>4 DEF Secure, Engaged, Reply
  <2> QED
    BY <1>5, <2>5 DEF Covered, Unserved
<1>10. ASSUME s.pc = "http"
       PROVE  /\ Warm(k)' /\ Covered(k, s.dest)'
              /\ now' <= s.ends /\ s.ends < origins'[m].deadline + Cooldown
  <2>1. /\ Held(k) /\ Covered(k, s.dest)
        /\ now' <= s.ends /\ s.ends < origins[m].deadline + Cooldown
    BY <1>1, <1>2, <1>3, <1>5, <1>10 DEF Relies
  <2>2. Covered(k, s.dest)'
    BY <1>5, <2>1 DEF Covered, Unserved
  <2>3. Held(k)' /\ now' < origins'[m].deadline + Cooldown
    BY <1>3, <1>5, <1>6, <2>1 DEF Held
  <2> QED
    BY <1>5, <1>6, <2>1, <2>2, <2>3 DEF Warm
<1> QED
  BY <1>1, <1>3, <1>5, <1>7, <1>8, <1>9, <1>10 DEF Secure, Reply

LEMMA UnservedPromises ==
  ASSUME Sound, Fitting', Unserved, NEW c \in Commands, Promised(c)
  PROVE  Promised(c)'
<1>1. SUFFICES ASSUME Won(c)' PROVE Until(calls[c].req.token, Deadline(c))'
  BY DEF Promised
<1>2. calls'[c] = calls[c] /\ Won(c)
  BY <1>1 DEF Unserved, Unanswered, Won
<1>3. PICK k, n : k = calls[c].req.token /\ n = Deadline(c) /\ k = calls'[c].req.token
                  /\ n = Deadline(c)'
  BY <1>2 DEF Deadline
<1>4. Until(k, n) /\ k[1] \in Origins /\ n \in Int
  <2>1. Granted(k)
    BY <1>2, <1>3 DEF Sound, Fitting, Written, Won
  <2>2. n \in Int
    BY <1>2, <1>3, MessageTypes, NumberConstants, WorkerConstants
       DEF Deadline, Sound, Fitting, Types, CallTypes, Won
  <2> QED
    BY <1>2, <1>3, <2>1, <2>2 DEF Promised, Granted
<1>5. origins[k[1]].deadline \in Int
  BY <1>4, LeaseTypes DEF Sound
<1> QED
  BY <1>3, <1>4, <1>5 DEF Until, Held, Unserved

LEMMA SteadyInLease ==
  ASSUME Sound, Sound', InLease, Steady, [WNext]_allVars
  PROVE  InLease'
<1>1. Unserved
  <2>1. now \in Nat /\ now' \in Nat /\ now <= now'
    BY LeaseTypes DEF Sound, Steady
  <2>2. \A c \in Commands : Unanswered(c)
    BY DEF Steady, Quietly, Unanswered
  <2> QED
    BY <2>1, <2>2 DEF Unserved, Steady
<1>2. ASSUME NEW v \in Workers
      PROVE  Relies(v)
  <2>1. SUFFICES ASSUME worker[v].pc \in Engaged PROVE Relies(v)
    BY DEF Relies, Steady
  <2>2. worker[v].pc = "http" => now' <= worker[v].ends
    <3>1. SUFFICES ASSUME worker[v].pc = "http" PROVE now' <= worker[v].ends
      OBVIOUS
    <3>2. worker[v].ends \in Nat /\ now \in Nat /\ now <= worker[v].ends
      BY <2>1, <3>1, RowFields, LeaseTypes DEF Sound, Fitting, InLease, Secure
    <3> QED
      BY <3>1, <3>2 DEF Steady, Flying, Step
  <2> QED
    BY <2>1, <2>2 DEF Relies, Steady, InLease, Secure, Warm
<1>3. ASSUME NEW k \in Tokens, Granted(k), Lasting(k)'
      PROVE  Lasting(k)
  <2>1. Base /\ Leased /\ Tenured /\ [Next]_vars
    BY SoundNext DEF Sound
  <2> QED
    BY <1>3, <2>1, WasLasting
<1> QED
  BY <1>1, <1>2, <1>3, UnservedFrame, UnservedPromises DEF InLease, Sound

(* A process that takes a job has been promised its lease. *)
LEMMA TakesInLease ==
  ASSUME Sound, Fitting', UNCHANGED vars, InLease, NEW w \in Workers, TakesJob(w)
  PROVE  Secure(w)'
<1>1. PICK c, s : c = worker[w].main /\ s = worker'[w]
  OBVIOUS
<1>2. /\ c \in Commands /\ Won(c) /\ s.token = calls[c].req.token
      /\ s.pc \in {"job", "page"} /\ s.renew = NoCommand /\ s.until = Deadline(c)
  BY <1>1 DEF TakesJob, Loose, At
<1>3. Until(s.token, s.until)
  BY <1>2 DEF InLease, Promised
<1> QED
  BY <1>1, <1>2, <1>3 DEF Secure, Until, Held, vars, tables

LEMMA MovesRely ==
  ASSUME Sound, Fitting', UNCHANGED vars, InLease, NEW w \in Workers, Moves(w), ~TakesJob(w)
  PROVE  Relies(w)
<1>1. PICK r, s : r = worker[w] /\ s = worker'[w]
  OBVIOUS
<1>2. /\ now \in Nat /\ now' = now /\ r.until \in Int /\ r.ends \in Nat
      /\ HttpMax \in Nat /\ Cooldown \in Nat /\ HttpMax < Cooldown
  BY <1>1, RowFields, LeaseTypes, NumberConstants, WorkerConstants DEF Sound, Fitting, vars
<1>3. SUFFICES ASSUME s.pc \in Engaged PROVE Relies(w)
  BY <1>1 DEF Relies
<1>4. /\ s.token = r.token /\ r.pc \in Engaged
      /\ \/ s.until = r.until /\ s.renew = r.renew
         \/ s.until = r.until /\ s.renew = NoCommand
         \/ s.until = r.until /\ calls'[s.renew].reply # "ok"
         \/ r.renew # NoCommand /\ s.renew = NoCommand
            /\ calls[r.renew].reply = "ok" /\ s.until = Deadline(r.renew)
  <2>1. CASE AsksRenewal(w)
    BY <1>1, <1>3, <2>1 DEF AsksRenewal, Renewing, Becomes, At, Job, Posted, NoReply
  <2>2. CASE HearsRenewal(w)
    BY <1>1, <1>3, <2>2, WorkerConstants DEF HearsRenewal, Renewing, Becomes, At, Job, Loose
  <2>3. CASE LosesRenewal(w)
    BY <1>1, <1>3, <2>3 DEF LosesRenewal, Renewing, Becomes, At, Job
  <2>4. ASSUME NEW pc, NEW main, NEW target, NEW dest, NEW ends,
               Goes(w, pc, main, target, dest, ends)
        PROVE  s.token = r.token /\ r.pc \in Engaged /\ s.until = r.until /\ s.renew = r.renew
    BY <1>1, <2>4 DEF Goes, Becomes, At, Job
  <2>5. CASE LeavesJob(w) \/ NacksJob(w) \/ StagesPage(w)
    BY <1>1, <1>3, <2>5 DEF LeavesJob, NacksJob, StagesPage, Goes, Becomes, At, Engaged
  <2>6. CASE AsksRequest(w) \/ SendsRequest(w) \/ EndsRequest(w) \/ AsksCall(w) \/ HearsCall(w)
    BY <2>4, <2>6 DEF AsksRequest, SendsRequest, EndsRequest, AsksCall, HearsCall
  <2> QED
    BY <2>1, <2>2, <2>3, <2>5, <2>6 DEF Moves
<1>5. Until(s.token, s.until)
  BY <1>1, <1>4 DEF InLease, Secure
<1>6. ASSUME s.pc = "authorize"
      PROVE  \/ calls'[s.main].reply # "ok"
             \/ r.pc = "authorize" /\ s.main = r.main /\ s.dest = r.dest
  <2>1. CASE AsksRequest(w)
    BY <1>1, <2>1 DEF AsksRequest, Goes, Becomes, At, Posted, NoReply
  <2>2. CASE AsksRenewal(w) \/ HearsRenewal(w) \/ LosesRenewal(w)
    BY <1>1, <1>6, <2>2 DEF AsksRenewal, HearsRenewal, LosesRenewal, Renewing, Becomes, At
  <2>3. CASE LeavesJob(w) \/ NacksJob(w) \/ StagesPage(w)
    BY <1>1, <1>6, <2>3 DEF LeavesJob, NacksJob, StagesPage, Goes, Becomes, At
  <2>4. CASE SendsRequest(w) \/ EndsRequest(w) \/ AsksCall(w) \/ HearsCall(w)
    BY <1>1, <1>6, <2>4 DEF SendsRequest, EndsRequest, AsksCall, HearsCall, Goes, Becomes, At
  <2> QED
    BY <2>1, <2>2, <2>3, <2>4 DEF Moves
<1>7. ASSUME s.pc = "http"
      PROVE  /\ Held(s.token) /\ Covered(s.token, s.dest)
             /\ now' <= s.ends /\ s.ends < origins[s.token[1]].deadline + Cooldown
  <2>1. CASE SendsRequest(w)
    <3>1. /\ r.pc = "authorize" /\ now < r.until /\ calls[r.main].reply = "ok"
          /\ s.dest = r.dest /\ s.ends = now + HttpMax
      BY <1>1, <2>1 DEF SendsRequest, Reply, Goes, Becomes, At
    <3>2. PICK k, m : k = r.token /\ m = k[1] /\ m \in Origins
      BY <1>1, <1>4, EngagedSteps DEF Sound, Fitting, Fits, Equipped, Granted
    <3>3. Held(k) /\ r.until <= origins[m].deadline
      BY <1>1, <1>4, <3>1, <3>2 DEF InLease, Secure, Until
    <3>4. origins[m].deadline \in Int
      BY <3>2, LeaseTypes DEF Sound
    <3>5. Warm(k)
      BY <1>2, <3>1, <3>2, <3>3, <3>4 DEF Warm
    <3>6. Covered(k, r.dest)
      BY <1>1, <1>4, <3>1, <3>2, <3>5 DEF InLease, Secure, Reply, Lasting
    <3> QED
      BY <1>2, <1>4, <3>1, <3>2, <3>3, <3>4, <3>6
  <2>2. CASE AsksRenewal(w) \/ HearsRenewal(w) \/ LosesRenewal(w)
    <3>1. r.pc = "http" /\ s.dest = r.dest /\ s.ends = r.ends
      BY <1>1, <1>7, <2>2 DEF AsksRenewal, HearsRenewal, LosesRenewal, Renewing, Becomes, At
    <3> QED
      BY <1>1, <1>2, <1>4, <3>1 DEF InLease, Secure, Warm
  <2>3. CASE LeavesJob(w) \/ NacksJob(w) \/ StagesPage(w)
    BY <1>1, <1>7, <2>3 DEF LeavesJob, NacksJob, StagesPage, Goes, Becomes, At
  <2>4. CASE AsksRequest(w) \/ EndsRequest(w) \/ AsksCall(w) \/ HearsCall(w)
    BY <1>1, <1>7, <2>4 DEF AsksRequest, EndsRequest, AsksCall, HearsCall, Goes, Becomes, At
  <2> QED
    BY <2>1, <2>2, <2>3, <2>4 DEF Moves
<1> QED
  BY <1>1, <1>4, <1>5, <1>6, <1>7 DEF Relies

LEMMA MovesInLease ==
  ASSUME Sound, Sound', UNCHANGED vars, InLease, NEW w \in Workers, Moves(w)
  PROVE  InLease'
<1>1. Unserved
  <2>1. now \in Nat /\ now' = now /\ origins' = origins /\ request_slots' = request_slots
    BY LeaseTypes DEF Sound, vars, tables
  <2>2. \A c \in Commands : Unanswered(c)
    BY MovesFresh DEF Unanswered, Fresh, Sound, NoReply
  <2> QED
    BY <2>1, <2>2 DEF Unserved
<1>2. ASSUME NEW v \in Workers, v # w
      PROVE  Relies(v)
  <2>1. worker'[v] = worker[v]
    <3>1. OthersStay(w)
      BY DEF Moves, LeavesJob, TakesJob, AsksRequest, SendsRequest, EndsRequest, AsksCall,
             HearsCall, StagesPage, NacksJob, AsksRenewal, HearsRenewal, LosesRenewal, Goes,
             Renewing, Becomes
    <3> QED
      BY <1>2, <3>1 DEF OthersStay
  <2>2. now' = now
    BY DEF vars
  <2> QED
    BY <2>1, <2>2 DEF Relies, InLease, Secure, Warm
<1>4. ASSUME NEW k \in Tokens, Lasting(k)'
      PROVE  Lasting(k)
  BY <1>4 DEF Lasting, Warm, Held, Extending, vars, tables
<1>3. Secure(w)'
  BY <1>1, <1>4, MovesRely, TakesInLease, UnservedFrame DEF InLease, Sound
<1> QED
  BY <1>1, <1>2, <1>3, <1>4, UnservedFrame, UnservedPromises DEF InLease, Sound

LEMMA InLeaseNext ==
  ASSUME Sound, UnderLease, Quota, Slotted, Owned, InLease, [WNext]_allVars
  PROVE  InLease'
<1>1. Sound'
  BY StepKindsOfWorkers
<1> QED
  BY <1>1, StepKindsOfWorkers, SteadyInLease, MovesInLease, FinishInLease

(* Each process sends its requests under a lease of its own: its local     *)
(* deadline never outlives the lease, and what it has on the wire ends     *)
(* before the lease has cooled down.                                       *)
THEOREM RequestsUnderLease == WSpec => [](Owned /\ InLease)
<1>1. WInit => Owned /\ InLease
  <2> SUFFICES ASSUME WInit PROVE Owned /\ InLease
    OBVIOUS
  <2>1. \A w \in Workers : worker[w].pc \notin Engaged
    BY DEF WInit, Down, Engaged
  <2>2. \A c \in Commands : calls[c] = NoTx
    BY DEF WInit
  <2> QED
    BY <2>1, <2>2 DEF Owned, OwnedOnce, Carries, Wins, Gives, Won, InLease, Secure, Promised
<1>2. Sound /\ UnderLease /\ Counted /\ Slotted /\ Owned /\ InLease /\ [WNext]_allVars
        => Owned' /\ InLease'
  BY OwnedNext, InLeaseNext DEF Counted
<1>3. WSpec => []UnderLease
  BY WorkersAreClients, UnderLeaseHolds, PTL
<1>4. WSpec => []Counted
  BY WorkersAreClients, CountedHolds, PTL
<1>5. WSpec => []Slotted
  BY WorkersAreClients, SlottedHolds, PTL
<1> QED
  BY <1>1, <1>2, <1>3, <1>4, <1>5, SoundHolds, PTL DEF WSpec

(* A process with a request on the wire holds its origin by its token.     *)
LEMMA FlyingHold ==
  ASSUME Sound, InLease, NEW w \in Flying
  PROVE  LET k == worker[w].token IN
         /\ k \in Tokens /\ Granted(k) /\ Carries(w, k)
         /\ Warm(k) /\ Covered(k, worker[w].dest)
         /\ now <= worker[w].ends /\ worker[w].ends < origins[k[1]].deadline + Cooldown
         /\ worker[w].dest \in Origins
<1>1. w \in Workers /\ worker[w].pc = "http" /\ worker[w].pc \in Engaged
  BY DEF Flying, Step, Engaged
<1>2. worker[w].token \in Tokens /\ Granted(worker[w].token) /\ worker[w].dest \in Origins
  BY <1>1, RowFields, EngagedSteps DEF Sound, Fitting, Fits, Equipped
<1> QED
  BY <1>1, <1>2 DEF InLease, Secure, Carries

LEMMA FlyingApart ==
  ASSUME Sound, Owned, InLease
  PROVE  OneRequestPerOrigin
<1> SUFFICES ASSUME NEW v \in Flying, NEW w \in Flying, worker[v].dest = worker[w].dest
             PROVE  v = w
  BY DEF OneRequestPerOrigin
<1>1. worker[v].token = worker[w].token
  BY FlyingHold DEF Covered
<1>2. PICK k \in Tokens : Carries(v, k) /\ Carries(w, k)
  BY <1>1, FlyingHold
<1> QED
  BY <1>2 DEF Owned, OwnedOnce, Flying

(* At most one process has a request on the wire to an origin, whatever    *)
(* crashes, repeated calls, late answers and stalled commits happen.       *)
THEOREM OneProcessPerOrigin == WSpec => []OneRequestPerOrigin
BY FlyingApart, RequestsUnderLease, SoundHolds, PTL

(* The slots that the frontier has given out cover what is on the wire:    *)
(* each process with a request there has a slot of its own.                *)
THEOREM WireWithinLimit == WSpec => []GlobalLimitOnTheWire
<1>1. Sound /\ Owned /\ InLease /\ SlotsWithinLimit => GlobalLimitOnTheWire
  <2> SUFFICES ASSUME Sound, Owned, InLease, SlotsWithinLimit PROVE GlobalLimitOnTheWire
    OBVIOUS
  <2> DEFINE f == [w \in Flying |-> worker[w].token[3]]
  <2>1. ASSUME NEW w \in Flying
        PROVE  worker[w].token[3] \in LiveSlots
    <3>1. PICK k : k = worker[w].token
      OBVIOUS
    <3>2. k[3] \in Urls /\ k[1] \in Origins /\ now < origins[k[1]].deadline + Cooldown
          /\ request_slots[k[3]] >= origins[k[1]].deadline + Cooldown
      BY <3>1, FlyingHold DEF Granted, Warm, Covered
    <3>3. request_slots[k[3]] \in Nat /\ now \in Nat /\ Cooldown \in Nat
          /\ origins[k[1]].deadline \in Int
      BY <3>2, LeaseTypes, NumberConstants DEF Sound, Base, TypeOK
    <3>4. now < request_slots[k[3]]
      BY <3>2, <3>3
    <3> QED
      BY <3>1, <3>2, <3>3, <3>4 DEF LiveSlots
  <2>2. ASSUME NEW v \in Flying, NEW w \in Flying, worker[v].token[3] = worker[w].token[3]
        PROVE  v = w
    <3>1. PICK j, k : j = worker[v].token /\ k = worker[w].token
      OBVIOUS
    <3>2. /\ j \in Tokens /\ Carries(v, j) /\ Granted(j) /\ Held(j)
          /\ k \in Tokens /\ Carries(w, k) /\ Granted(k) /\ Held(k)
      BY <3>1, FlyingHold DEF Warm
    <3>3. j # NoToken /\ k # NoToken
      BY <3>2, LiveIsGranted DEF Live, Sound, Flying
    <3>4. urls[j[3]].origin = j[1] /\ urls[k[3]].origin = k[1]
      BY <3>2, <3>3 DEF Granted, Held, Sound, Tenured, Rooted
    <3>5. j = k
      BY <2>2, <3>1, <3>2, <3>4 DEF Held
    <3> QED
      BY <3>2, <3>5 DEF Owned, OwnedOnce, Flying
  <2>3. f \in Injection(Flying, LiveSlots)
    <3>1. f \in [Flying -> LiveSlots]
      BY <2>1
    <3>2. \A v, w \in Flying : f[v] = f[w] => v = w
      BY <2>2
    <3> QED
      BY <3>1, <3>2 DEF Injection, IsInjective
  <2>4. IsFiniteSet(LiveSlots)
    <3>1. LiveSlots \in SUBSET Urls
      BY DEF LiveSlots
    <3> QED
      BY <3>1, FS_Subset, ConstantAssumptions
  <2>5. IsFiniteSet(Flying) /\ Cardinality(Flying) <= Cardinality(LiveSlots)
    BY <2>3, <2>4, FS_Injection
  <2>6. Cardinality(Flying) \in Nat /\ Cardinality(LiveSlots) \in Nat /\ GlobalConcurrency \in Nat
    <3>1. {GlobalConcurrency} \subseteq Nat
      BY ConstantAssumptions
    <3> QED
      BY <2>4, <2>5, <3>1, FS_CardinalityType
  <2> QED
    BY <2>5, <2>6 DEF SlotsWithinLimit, GlobalLimitOnTheWire
<1>2. WSpec => []SlotsWithinLimit
  BY WorkersAreClients, SlotsAreKept, PTL
<1> QED
  BY <1>1, <1>2, RequestsUnderLease, SoundHolds, PTL

-----------------------------------------------------------------------------
(* The promise to an origin *)

AllGrants == Tokens \subseteq Grants /\ Int \subseteq Instants
PromiseStep == Authority!Next \/ UNCHANGED Authority!vars

LEMMA SameMaps ==
  /\ Holder \in [Origins -> {origins[o].token : o \in Origins}]
  /\ \A o \in Origins : Holder[o] = origins[o].token /\ Lapse[o] = origins[o].deadline
  /\ \A o \in Origins : Holder'[o] = origins'[o].token /\ Lapse'[o] = origins'[o].deadline
BY DEF Holder, Lapse

(* An auxiliary origin stays with a process as long as its main origin.    *)
LEMMA CoverLasts ==
  ASSUME Sound, NEW k, Granted(k), Held(k), NEW d \in Origins, origins[d].token = k
  PROVE  origins[d].deadline >= origins[k[1]].deadline
<1>1. PICK m, v : m = k[1] /\ v = k[3] /\ m \in Origins /\ v \in Urls /\ origins[m].token = k
  BY DEF Granted, Held
<1>2. k # NoToken
  BY <1>1, ConstantAssumptions DEF NoToken
<1>3. urls[v].origin = m
  BY <1>1, <1>2 DEF Sound, Tenured, Rooted
<1>4. origins[m].deadline \in Int
  BY <1>1, LeaseTypes DEF Sound
<1>5. CASE d = m
  BY <1>1, <1>4, <1>5
<1>6. CASE d # m
  <2>1. PICK u \in Urls : d \in OwnAux(u)
    BY <1>1, <1>2, <1>6 DEF Sound, Leased, HeldOriginHasRow
  <2>2. auxiliary_origins[u][d] # NoRow /\ auxiliary_origins[u][d][1] = k
    BY <2>1 DEF OwnAux, AuxRows
  <2>3. u = v
    BY <1>1, <2>2 DEF Sound, Leased, RowsKnown
  <2> QED
    BY <1>1, <1>3, <2>1, <2>3 DEF Sound, Leased, AuxCoversMain
<1> QED
  BY <1>5, <1>6

(* The frontier ends a call: a lease is taken, extended or given back.     *)
LEMMA PromiseFinish ==
  ASSUME AllGrants, Sound, Owned, InLease, NEW u \in Urls, ServeFinish(u)
  PROVE  PromiseStep
<1>0. PICK t, c, m : Answering(u, t, c) /\ m = urls[u].origin
  BY FinishAnswers
<1>1. /\ t = tx[u] /\ t # NoTx /\ t.req.url = u /\ Finish(u) /\ c \in Commands
      /\ calls[c] # NoTx /\ calls[c].req = t.req /\ worker' = worker /\ now' = now
  BY <1>0 DEF Answering
<1>2. /\ m \in Origins /\ t.at \in Nat /\ t.at <= now /\ now \in Nat /\ Lease \in Nat
      /\ Cooldown \in Nat /\ t.locks \subseteq Origins
      /\ \A o \in Origins : origins[o].deadline \in Int
  BY <1>0, <1>1, TransactionFields, LeaseTypes, NumberConstants DEF Sound, Base, InTime
<1>3. t.req.token \in Tokens /\ t.req.token # NoToken /\ t.req.token[3] = u
  BY <1>0, <1>1, MessageTypes, LeaseTypes
     DEF Sound, Leased, Holding, Holds, Fitting, Types, CallTypes
<1>4. Wire' = Wire
  BY <1>1 DEF Wire, Flying, Step, Flight
<1>5. Cleared(u)
  BY <1>1 DEF Sound, Tenured
<1>6. ASSUME NEW o \in Origins, NewLease(o, t), origins[o].deadline + Cooldown <= t.at,
             \A p \in Origins : p # o => SameLease(p)
      PROVE  PromiseStep
  <2>1. /\ origins'[o].token = t.req.token /\ origins'[o].deadline = t.at + Lease
        /\ \A p \in Origins : p # o => /\ origins'[p].token = origins[p].token
                                       /\ origins'[p].deadline = origins[p].deadline
    BY <1>6 DEF NewLease, SameLease
  <2>2. Holder' = [Holder EXCEPT ![o] = t.req.token]
    BY <2>1 DEF Holder
  <2>3. Lapse' = [Lapse EXCEPT ![o] = t.at + Lease]
    BY <2>1 DEF Lapse
  <2>4. Lapse[o] + Cooldown <= now /\ t.at + Lease >= Lapse[o]
    BY <1>2, <1>6, SameMaps
  <2>5. Authority!Acquire(o, t.req.token, t.at + Lease)
    BY <1>1, <1>4, <2>2, <2>3, <2>4 DEF Authority!Acquire
  <2>6. t.at + Lease \in Instants /\ t.req.token \in Grants
    BY <1>2, <1>3 DEF AllGrants
  <2> QED
    BY <1>3, <2>5, <2>6 DEF PromiseStep, Authority!Next
<1>7. CASE Claimed(t, u)
  <2>1. origins[m].deadline + Cooldown <= t.at
    BY <1>0, <1>1, <1>5, <1>7 DEF Cleared, Claimed
  <2> QED
    BY <1>0, <1>2, <1>6, <1>7, <2>1 DEF Claimed
<1>8. CASE Acquired(t, u)
  <2>1. t.req.arg \in Origins
    BY <1>1, <1>8, TransactionFields, RequestFields DEF Acquired, Sound, Base
  <2>2. origins[t.req.arg].deadline + Cooldown <= t.at
    BY <1>1, <1>5, <1>8 DEF Cleared, Acquired
  <2> QED
    BY <1>6, <1>8, <2>1, <2>2 DEF Acquired
<1>9. CASE Renewed(t, u)
  <2>1. \A o \in t.locks : origins[o].token = t.req.token
    BY <1>1, <1>9 DEF Renewed, Sound, Leased, Holding, Holds
  <2>2. \A o \in t.locks : origins[o].deadline <= t.at + Lease
    BY <1>1, <1>5 DEF Cleared
  <2>3. \A o \in Origins :
          /\ origins'[o].token = origins[o].token
          /\ origins'[o].deadline = IF o \in t.locks THEN t.at + Lease ELSE origins[o].deadline
    BY <1>9 DEF Renewed, SameLease
  <2>4. Holder' = Holder /\ Lapse' = [o \in Origins |-> IF o \in t.locks THEN t.at + Lease ELSE Lapse[o]]
    BY <2>3 DEF Holder, Lapse
  <2>5. \A o \in t.locks : Holder[o] # NoToken /\ t.at + Lease >= Lapse[o]
    BY <1>2, <1>3, <2>1, <2>2, SameMaps
  <2>6. Authority!Extend(t.locks, t.at + Lease)
    BY <1>1, <1>4, <2>4, <2>5 DEF Authority!Extend
  <2>7. t.at + Lease \in Instants
    BY <1>2 DEF AllGrants
  <2> QED
    BY <1>2, <2>6, <2>7 DEF PromiseStep, Authority!Next
<1>10. CASE GivenBack(t, u)
  <2>1. ASSUME NEW w \in Flying, worker[w].dest \in t.locks
        PROVE  FALSE
    <3>1. PICK k, o : k = worker[w].token /\ o = worker[w].dest
      OBVIOUS
    <3>2. /\ k \in Tokens /\ Carries(w, k) /\ w \in Workers /\ origins[k[1]].token = k
          /\ origins[o].token = k /\ o \in t.locks
      BY <2>1, <3>1, FlyingHold DEF Warm, Held, Covered, Flying
    <3>3. Live(k)
      BY <3>2 DEF Live
    <3>4. k[3] = u
      <4>1. o = m \/ o \in OwnAux(u)
        BY <1>0, <1>1, <1>5, <1>10, <3>2 DEF Cleared, GivenBack
      <4>2. CASE o = m
        BY <1>0, <1>1, <1>10, <3>2, <4>2, TokenOfCall DEF GivenBack, Sound
      <4>3. CASE o \in OwnAux(u)
        BY <3>2, <4>3 DEF OwnAux, AuxRows, Sound, Leased, RowsKnown
      <4> QED
        BY <4>1, <4>2, <4>3
    <3>5. t.req.token = k
      BY <1>1, <1>10, <3>2, <3>3, <3>4, LiveCall DEF GivenBack, Held
    <3>6. Gives(c, k)
      BY <1>1, <1>10, <3>5 DEF Gives, GivenBack
    <3> QED
      BY <1>1, <3>2, <3>3, <3>6 DEF Owned, OwnedOnce
  <2>2. \A f \in Wire : f.origin \notin t.locks
    BY <2>1 DEF Wire, Flight
  <2>3. \A o \in Origins :
          /\ origins'[o].token = IF o \in t.locks THEN NoToken ELSE origins[o].token
          /\ origins'[o].deadline = IF o \in t.locks THEN NoDeadline ELSE origins[o].deadline
    BY <1>10 DEF GivenBack, SameLease
  <2>4. Holder' = [o \in Origins |-> IF o \in t.locks THEN NoToken ELSE Holder[o]]
    BY <2>3 DEF Holder
  <2>5. Lapse' = [o \in Origins |-> IF o \in t.locks THEN NoDeadline ELSE Lapse[o]]
    BY <2>3 DEF Lapse
  <2>6. NoDeadline = Authority!NoLapse
    BY DEF NoDeadline, Authority!NoLapse
  <2>7. Authority!Release(t.locks)
    BY <1>1, <1>4, <2>2, <2>4, <2>5, <2>6 DEF Authority!Release
  <2> QED
    BY <1>2, <2>7 DEF PromiseStep, Authority!Next
<1>11. CASE LeasesStay
  <2>1. Holder' = Holder /\ Lapse' = Lapse
    BY <1>11 DEF Holder, Lapse, LeasesStay, SameLease
  <2> QED
    BY <1>1, <1>4, <2>1 DEF PromiseStep, Authority!vars
<1> QED
  BY <1>1, <1>7, <1>8, <1>9, <1>10, <1>11, FinishLeases DEF Sound

(* A row that flies before and after a step of its process is the same on  *)
(* the wire, and a row that starts to fly has just been sent.              *)
LEMMA FlightMoves ==
  ASSUME Sound, UNCHANGED vars, NEW w \in Workers, Moves(w)
  PROVE  /\ OthersStay(w)
         /\ \/ w \notin Flying /\ w \notin Flying'
            \/ w \in Flying /\ w \notin Flying'
            \/ w \in Flying /\ w \in Flying' /\ Flight(w)' = Flight(w)
            \/ w \notin Flying /\ w \in Flying' /\ SendsRequest(w)
<1>1. PICK r, s : r = worker[w] /\ s = worker'[w]
  OBVIOUS
<1>2. OthersStay(w)
  BY DEF Moves, LeavesJob, TakesJob, AsksRequest, SendsRequest, EndsRequest, AsksCall,
         HearsCall, StagesPage, NacksJob, AsksRenewal, HearsRenewal, LosesRenewal, Goes,
         Renewing, Becomes
<1>3. (w \in Flying <=> r.pc = "http") /\ (w \in Flying' <=> s.pc = "http")
  BY <1>1 DEF Flying, Step
<1>4. CASE SendsRequest(w)
  BY <1>1, <1>2, <1>3, <1>4 DEF SendsRequest, Goes, Becomes, At
<1>5. CASE AsksRenewal(w) \/ HearsRenewal(w) \/ LosesRenewal(w)
  <2>1. s.pc = r.pc /\ s.dest = r.dest /\ s.token = r.token /\ s.ends = r.ends
    BY <1>1, <1>5 DEF AsksRenewal, HearsRenewal, LosesRenewal, Renewing, Becomes, At, Job
  <2> QED
    BY <1>1, <1>2, <1>3, <2>1 DEF Flight
<1>6. CASE LeavesJob(w) \/ TakesJob(w) \/ AsksRequest(w) \/ EndsRequest(w) \/ AsksCall(w)
           \/ HearsCall(w) \/ StagesPage(w) \/ NacksJob(w)
  <2>1. s.pc # "http"
    BY <1>1, <1>6 DEF LeavesJob, TakesJob, AsksRequest, EndsRequest, AsksCall, HearsCall,
       StagesPage, NacksJob, Goes, Becomes, At
  <2> QED
    BY <1>2, <1>3, <2>1
<1> QED
  BY <1>4, <1>5, <1>6 DEF Moves

(* A process sends a request, or hears its end. *)
LEMMA PromiseMoves ==
  ASSUME AllGrants, Sound, Sound', Owned, InLease, InLease', UNCHANGED vars, NEW w \in Workers, Moves(w)
  PROVE  PromiseStep
<1>1. /\ now' = now /\ origins' = origins /\ Holder' = Holder /\ Lapse' = Lapse
  BY DEF vars, tables, Holder, Lapse
<1>2. \A v \in Workers : v # w => (v \in Flying' <=> v \in Flying) /\ Flight(v)' = Flight(v)
  BY FlightMoves DEF OthersStay, Flying, Step, Flight
<1>3. CASE w \notin Flying /\ w \notin Flying'
  <2>1. Wire' = Wire
    BY <1>2, <1>3 DEF Wire, Flying
  <2> QED
    BY <1>1, <2>1 DEF PromiseStep, Authority!vars
<1>4. CASE w \in Flying /\ w \in Flying' /\ Flight(w)' = Flight(w)
  <2>1. Wire' = Wire
    BY <1>2, <1>4 DEF Wire, Flying
  <2> QED
    BY <1>1, <2>1 DEF PromiseStep, Authority!vars
<1>5. CASE w \in Flying /\ w \notin Flying'
  <2>1. \A v \in Flying : Flight(v) = Flight(w) => v = w
    BY <1>5, FlyingApart DEF OneRequestPerOrigin, Flight
  <2>2. Wire' = Wire \ {Flight(w)}
    BY <1>2, <1>5, <2>1 DEF Wire, Flying
  <2>3. Flight(w) \in Wire
    BY <1>5 DEF Wire
  <2>4. Authority!Land(Flight(w))
    BY <1>1, <2>2, <2>3 DEF Authority!Land
  <2> QED
    BY <2>3, <2>4 DEF PromiseStep, Authority!Next
<1>6. CASE w \notin Flying /\ w \in Flying' /\ SendsRequest(w)
  <2>1. PICK k, d, n : k = worker[w].token /\ d = worker[w].dest /\ n = worker[w].until
    OBVIOUS
  <2>2. /\ worker[w].pc = "authorize" /\ now < n /\ Reply(w) = "ok" /\ worker[w].pc \in Engaged
        /\ worker'[w].token = k /\ worker'[w].dest = d /\ worker'[w].ends = now + HttpMax
    BY <1>6, <2>1 DEF SendsRequest, Goes, Becomes, At, Job
  <2>3. Granted(k) /\ d \in Origins /\ n \in Int
    BY <2>1, <2>2, RowFields, EngagedSteps DEF Sound, Fitting, Fits, Equipped
  <2>4. PICK m : m = k[1] /\ m \in Origins
    BY <2>3 DEF Granted
  <2>5. Held(k) /\ n <= origins[m].deadline
    BY <2>1, <2>2, <2>4 DEF InLease, Secure, Until
  <2>6. /\ now \in Nat /\ Cooldown \in Nat
        /\ \A o \in Origins : origins[o].deadline \in Int
    BY LeaseTypes, NumberConstants DEF Sound
  <2>7. now < origins[m].deadline /\ Warm(k)
    BY <2>2, <2>3, <2>4, <2>5, <2>6 DEF Warm
  <2>8. origins[d].token = k
    BY <2>1, <2>2, <2>7 DEF InLease, Secure, Covered, Lasting
  <2>9. now < origins[d].deadline
    <3>1. origins[d].deadline >= origins[m].deadline
      BY <2>3, <2>4, <2>5, <2>8, CoverLasts
    <3> QED
      BY <2>3, <2>4, <2>6, <2>7, <3>1
  <2>10. k # NoToken
    BY <2>3, ConstantAssumptions DEF Granted, NoToken
  <2>11. Flight(w)' = [origin |-> d, token |-> k, ends |-> now + HttpMax]
    BY <2>2 DEF Flight
  <2>12. Wire' = Wire \cup {[origin |-> d, token |-> k, ends |-> now + HttpMax]}
    BY <1>2, <1>6, <2>11 DEF Wire, Flying
  <2>13. Authority!Send(d)
    BY <1>1, <2>3, <2>8, <2>9, <2>10, <2>12, SameMaps DEF Authority!Send
  <2> QED
    BY <2>3, <2>13 DEF PromiseStep, Authority!Next
<1> QED
  BY <1>3, <1>4, <1>5, <1>6, FlightMoves

(* Otherwise only time passes. *)
LEMMA PromiseSteady ==
  ASSUME AllGrants, Sound, InLease, Steady
  PROVE  PromiseStep
<1>1. Holder' = Holder /\ Lapse' = Lapse /\ Wire' = Wire
  BY DEF Steady, Holder, Lapse, Wire, Flying, Step, Flight
<1>2. CASE now' = now
  BY <1>1, <1>2 DEF PromiseStep, Authority!vars
<1>3. CASE now' # now
  <2>1. now' = now + 1 /\ \A w \in Flying : now < worker[w].ends
    BY <1>3 DEF Steady
  <2>2. now + 1 \in Instants
    BY LeaseTypes DEF Sound, AllGrants
  <2>3. \A f \in Wire : now < f.ends
    BY <2>1 DEF Wire, Flight
  <2>4. Authority!Tick
    BY <1>1, <2>1, <2>2, <2>3 DEF Authority!Tick
  <2> QED
    BY <2>4 DEF PromiseStep, Authority!Next
<1> QED
  BY <1>2, <1>3

(* The frontier and its workers, over a network that delays, repeats and   *)
(* loses calls, keep the promise of OriginLease: an origin changes hands   *)
(* only after a lapsed lease has cooled down or was given back with        *)
(* nothing on the wire, and requests go out under live leases.             *)
THEOREM PromiseKept ==
  ASSUME AllGrants
  PROVE  WSpec => LeaseKept
<1>1. WInit => Authority!Init
  <2> SUFFICES ASSUME WInit PROVE Authority!Init
    OBVIOUS
  <2>1. Init /\ Flying = {}
    BY DEF WInit, Flying, Step, Down
  <2>2. \A o \in Origins : origins[o].token = NoToken /\ origins[o].deadline = NoDeadline
    BY <2>1 DEF Init
  <2>3. Holder = [o \in Origins |-> NoToken] /\ Lapse = [o \in Origins |-> NoDeadline]
    BY <2>2 DEF Holder, Lapse
  <2>4. Wire = {} /\ now = 0
    BY <2>1 DEF Wire, Init
  <2> QED
    BY <2>3, <2>4 DEF Authority!Init, Authority!NoLapse, NoDeadline
<1>2. ASSUME Sound, UnderLease, Counted, Slotted, Owned, InLease, [WNext]_allVars
      PROVE  PromiseStep
  <2>1. InLease'
    BY <1>2, InLeaseNext DEF Counted
  <2>2. Sound'
    BY <1>2, StepKindsOfWorkers
  <2> QED
    BY <1>2, <2>1, <2>2, StepKindsOfWorkers, PromiseSteady, PromiseMoves, PromiseFinish
<1>3. Sound /\ UnderLease /\ Counted /\ Slotted /\ Owned /\ InLease /\ [WNext]_allVars
        => [Authority!Next]_Authority!vars
  BY <1>2 DEF PromiseStep
<1>4. WSpec => []UnderLease
  BY WorkersAreClients, UnderLeaseHolds, PTL
<1>5. WSpec => []Counted
  BY WorkersAreClients, CountedHolds, PTL
<1>6. WSpec => []Slotted
  BY WorkersAreClients, SlottedHolds, PTL
<1> QED
  BY <1>1, <1>3, <1>4, <1>5, <1>6, RequestsUnderLease, SoundHolds, PTL DEF WSpec, LeaseKept, Authority!Spec

-----------------------------------------------------------------------------
(* Pages are fetched under main leases *)

(* A redirect to another origin has been saved with the URL of the lease.  *)
Onward(k) == urls[k[3]].next_origin # NoOrigin
Asking(w) ==
  /\ worker[w].pc = "call" /\ calls[worker[w].main].req.action = "continue_redirect"
  /\ Reply(w) # "ok"

(* A process that heads for a page of another origin has saved it, or is   *)
(* about to; no page of another origin is admitted to it.                  *)
Heads(w) ==
  LET r == worker[w]  k == worker[w].token IN
  /\ r.pc \in Engaged /\ Held(k) /\ r.target # k[1] => (Onward(k) \/ Asking(w))
  /\ r.dest = r.target /\ (r.pc = "http" \/ (r.pc = "authorize" /\ Reply(w) = "ok"))
       => r.dest = k[1]
Passes(c) ==
  LET q == calls[c].req IN
  Won(c) /\ Held(q.token) /\ q.arg \notin {NoOrigin, q.token[1]} => Onward(q.token)
Admits(u) ==
  LET t == tx[u] IN
  tx[u] # NoTx =>
    /\ t.req.action = "claim" => t.req.arg = urls[u].continuation
    /\ t.req.action = "authorize" /\ t.verdict = "ok" =>
         \A w \in Workers :
           worker[w].pc = "authorize" /\ worker[w].main = t.req.command
           /\ worker[w].dest = worker[w].target => worker[w].dest = worker[w].token[1]
Saved ==
  /\ \A w \in Workers : Heads(w)
  /\ \A c \in Commands : Passes(c)
  /\ \A u \in Urls : Admits(u)

(* The transactions after a step of the frontier.                          *)
LEMMA TxBegins ==
  ASSUME Base, [Next]_vars, NEW u \in Urls, tx'[u] # NoTx
  PROVE  \/ tx'[u] = tx[u] /\ Kept(u)
         \/ UNCHANGED tables /\ tx'[u].req.action = "claim"
            /\ tx'[u].req.arg = urls[u].continuation
         \/ UNCHANGED tables /\ tx'[u].req.action # "claim" /\ tx'[u].req.url = u
            /\ Verdict(tx'[u].req) = tx'[u].verdict
<1> DEFINE G == \/ tx'[u] = tx[u] /\ Kept(u)
                \/ UNCHANGED tables /\ tx'[u].req.action = "claim"
                   /\ tx'[u].req.arg = urls[u].continuation
                \/ UNCHANGED tables /\ tx'[u].req.action # "claim" /\ tx'[u].req.url = u
                   /\ Verdict(tx'[u].req) = tx'[u].verdict
<1>0. DOMAIN tx = Urls
  BY LeaseTypes
<1>1. ASSUME NEW r, IsRequest(r), r.action \in Actions, Begin(r) PROVE G
  <2>1. UNCHANGED tables /\ r.action # "claim"
    BY <1>1 DEF Begin, Actions
  <2>2. CASE u = r.url
    <3>1. tx'[u].req = r /\ tx'[u].verdict = Verdict(r)
      BY <1>0, <1>1, <2>2 DEF Begin
    <3> QED
      BY <2>1, <2>2, <3>1
  <2>3. CASE u # r.url
    BY <1>0, <1>1, <2>1, <2>3 DEF Begin, tables, Kept
  <2> QED
    BY <2>2, <2>3
<1>2. ASSUME NEW c \in Commands, ClaimBegin(c) PROVE G
  <2>1. CASE u = pick[c]
    BY <1>0, <1>2, <2>1 DEF ClaimBegin
  <2>2. CASE u # pick[c]
    BY <1>0, <1>2, <2>2 DEF ClaimBegin, tables, Kept
  <2> QED
    BY <2>1, <2>2
<1>3. ASSUME NEW v \in Urls, Finish(v) PROVE G
  <2>1. u # v /\ tx'[u] = tx[u]
    BY <1>0, <1>3 DEF Finish
  <2> QED
    BY <1>3, <2>1, FinishKeeps
<1>4. ASSUME NEW v \in Urls, Abort(v) PROVE G
  BY <1>0, <1>4 DEF Abort, tables, Kept
<1>5. ASSUME Aside PROVE G
  BY <1>5, AsideKeeps DEF Aside
<1> QED
  BY <1>1, <1>2, <1>3, <1>4, <1>5, StepKinds DEF Base

(* What a process has saved stays saved while it holds the lease. *)
LEMMA OnwardStays ==
  ASSUME Sound, Owned, [Next]_vars, NEW k \in Tokens, Live(k), Held(k), Onward(k)
  PROVE  Onward(k)'
<1>1. PICK v : v = k[3] /\ v \in Urls /\ urls[v].next_origin # NoOrigin
  BY LiveIsGranted DEF Sound, Granted, Onward
<1>2. ASSUME Kept(v) PROVE Onward(k)'
  BY <1>1, <1>2 DEF Kept, Onward
<1>3. ASSUME Finish(v) PROVE Onward(k)'
  <2>1. PICK t : t = tx[v] /\ t # NoTx /\ t.req.url = v /\ Apply(t)
    BY <1>1, <1>3 DEF Sound, Base, Locked, Finish
  <2>2. urls[v] \in UrlRow /\ DOMAIN urls = Urls
    BY <1>1 DEF Sound, Base, TypeOK
  <2>3. t.req.action \notin {"commit", "nack"}
    BY <1>1, <2>1, LiveCall
  <2>4. ASSUME ClaimApply(t) PROVE Onward(k)'
    BY <1>1, <2>1, <2>2, <2>4 DEF ClaimApply, Onward, UrlRow
  <2>5. ASSUME AuthorizeApply(t) PROVE Onward(k)'
    <3>1. urls' = urls \/ urls' = [urls EXCEPT ![v].eligible_at = ((t.at \div Day) + 1) * Day]
      BY <2>1, <2>5 DEF AuthorizeApply
    <3> QED
      BY <1>1, <2>2, <3>1 DEF Onward, UrlRow
  <2>6. ASSUME t.req.action = "continue_redirect", ContinueApply(t) PROVE Onward(k)'
    <3>1. t.req.arg # NoOrigin
      BY <1>1, <2>1, <2>6, TransactionFields, RequestFields, ConstantAssumptions
         DEF Sound, Base, NoOrigin
    <3>2. urls'[v].next_origin = t.req.arg
      BY <1>1, <2>1, <2>2, <2>6 DEF ContinueApply, UrlRow
    <3> QED
      BY <1>1, <3>1, <3>2 DEF Onward
  <2>7. ASSUME DiscoverApply(t) PROVE Onward(k)'
    BY <1>1, <1>2, <2>7, InsertedKeeps DEF Sound, Base, DiscoverApply
  <2>8. ASSUME urls' = urls PROVE Onward(k)'
    BY <1>1, <2>8 DEF Onward
  <2> QED
    BY <2>1, <2>3, <2>4, <2>5, <2>6, <2>7, <2>8 DEF Apply, RenewApply, RobotsPutApply
<1>4. ASSUME urls' = urls PROVE Onward(k)'
  BY <1>1, <1>4 DEF Onward
<1>5. ASSUME NEW u \in Urls, Finish(u) PROVE Onward(k)'
  BY <1>1, <1>2, <1>3, <1>5, FinishKeeps DEF Sound
<1> QED
  BY <1>1, <1>2, <1>4, <1>5, AsideKeeps, StepKinds
     DEF Sound, Base, Begin, ClaimBegin, Abort, tables

(* A token that was granted earlier is not granted again. *)
LEMMA WasHeld ==
  ASSUME Sound, [Next]_vars, NEW k, Granted(k), Held(k)'
  PROVE  Held(k)
<1>1. PICK m : m = k[1] /\ m \in Origins /\ origins'[m].token = k /\ k # NoToken
  <2>1. NoToken[1] \notin Origins
    BY ConstantAssumptions DEF NoToken
  <2> QED
    BY <2>1 DEF Granted, Held
<1>2. CASE origins'[m].token = origins[m].token
  BY <1>1, <1>2 DEF Held
<1>3. ASSUME NEW u \in Urls, Finish(u) PROVE Held(k)
  <2>1. PICK t : t = tx[u] /\ t # NoTx
    BY <1>3 DEF Finish
  <2>2. ~(t.req.action = "claim" /\ k = t.req.token)
    BY <2>1, ClaimIsNew
  <2>3. t.req.action # "claim" => t.req.token[1] = urls[u].origin
    BY <2>1, TokenOfCall DEF Sound
  <2>4. CASE Claimed(t, u)
    BY <1>1, <1>2, <2>2, <2>4 DEF Claimed, NewLease, SameLease
  <2>5. CASE Acquired(t, u)
    <3>1. m # t.req.arg
      BY <1>1, <2>3, <2>5 DEF Acquired, NewLease
    <3> QED
      BY <1>1, <1>2, <2>5, <3>1 DEF Acquired, SameLease
  <2>6. CASE Renewed(t, u)
    BY <1>1, <1>2, <2>6 DEF Renewed, SameLease
  <2>7. CASE GivenBack(t, u)
    BY <1>1, <1>2, <2>7 DEF GivenBack, SameLease
  <2>8. CASE LeasesStay
    BY <1>1, <1>2, <2>8 DEF LeasesStay, SameLease
  <2> QED
    BY <1>3, <2>1, <2>4, <2>5, <2>6, <2>7, <2>8, FinishLeases DEF Sound
<1>4. ASSUME origins' = origins PROVE Held(k)
  BY <1>1, <1>2, <1>4
<1> QED
  BY <1>3, <1>4, StepKinds DEF Sound, Base, Begin, ClaimBegin, Abort, Aside, tables

(* Steps of the frontier: the rows of the processes stay. *)

(* A page is admitted to the main origin of the lease alone. *)
LEMMA AdmitsServed ==
  ASSUME Sound, Sound', Saved, worker' = worker, [Next]_vars, NEW u \in Urls
  PROVE  Admits(u)'
<1>1. SUFFICES ASSUME tx'[u] # NoTx PROVE Admits(u)'
  BY DEF Admits
<1>2. PICK t : t = tx'[u]
  OBVIOUS
<1>3. CASE tx'[u] = tx[u] /\ Kept(u)
  BY <1>1, <1>3 DEF Saved, Admits, Kept
<1>4. CASE UNCHANGED tables /\ t.req.action = "claim" /\ t.req.arg = urls[u].continuation
  BY <1>2, <1>4 DEF Admits, tables
<1>5. CASE UNCHANGED tables /\ t.req.action # "claim" /\ t.req.url = u
           /\ Verdict(t.req) = t.verdict
  <2>1. SUFFICES ASSUME t.req.action = "authorize", t.verdict = "ok", NEW w \in Workers,
                        worker[w].pc = "authorize", worker[w].main = t.req.command,
                        worker[w].dest = worker[w].target
                 PROVE  worker[w].dest = worker[w].token[1]
    BY <1>2, <1>5 DEF Admits
  <2>2. PICK r, k : r = worker[w] /\ k = worker[w].token
    OBVIOUS
  <2>3. r.pc \in Engaged /\ r.pc \in Working
    BY <2>1, <2>2, EngagedSteps DEF Engaged
  <2>4. Fits(w)' /\ Underway(u)'
    BY <1>1 DEF Sound, Fitting
  <2>5. /\ t.req.token = k /\ t.req.arg = r.dest /\ t.req.url = r.url
    BY <1>2, <2>1, <2>2, <2>3, <2>4 DEF Fits, Waits, Awaits, Underway
  <2>6. Granted(k) /\ k[3] = u
    BY <1>5, <2>2, <2>3, <2>5 DEF Sound, Fitting, Fits, Equipped
  <2>7. ~Fenced(t.req) /\ AuthorizeVerdict(t.req) = "ok"
    BY <1>5, <2>1 DEF Verdict
  <2>8. PICK m : m = urls[u].origin /\ origins[m].token = k
    BY <1>5, <2>5, <2>7 DEF Fenced
  <2>9. k[1] = m
    BY <2>6, <2>8, MainToken DEF Sound, Tenured
  <2>10. t.req.arg = m \/ urls[u].next_origin = NoOrigin
    BY <1>5, <2>7, <2>8 DEF AuthorizeVerdict, Foreign
  <2>11. r.target # k[1] => Onward(k)
    BY <2>1, <2>2, <2>3, <2>8, <2>9 DEF Saved, Heads, Held, Asking
  <2> QED
    BY <2>1, <2>2, <2>5, <2>6, <2>9, <2>10, <2>11 DEF Onward
<1> QED
  BY <1>1, <1>2, <1>3, <1>4, <1>5, TxBegins DEF Sound

(* A process keeps what it has saved, while no call of it is granted.      *)
LEMMA HeadsServed ==
  ASSUME Sound, Sound', Owned, [Next]_vars, worker' = worker, NEW w \in Workers, Heads(w),
         Asking(w) => Asking(w)' \/ Onward(worker[w].token)',
         worker[w].pc = "authorize" /\ Reply(w)' = "ok" =>
           Reply(w) = "ok" \/ (worker[w].dest = worker[w].target
                                 => worker[w].dest = worker[w].token[1])
  PROVE  Heads(w)'
<1>1. PICK r, k : r = worker[w] /\ r = worker'[w] /\ k = r.token
  OBVIOUS
<1>2. ASSUME r.pc \in Engaged, Held(k)', r.target # k[1]
      PROVE  Onward(k)' \/ Asking(w)'
  <2>1. Granted(k) /\ k \in Tokens /\ Live(k)
    BY <1>1, <1>2, RowFields, EngagedSteps
       DEF Sound, Fitting, Fits, Equipped, Live, Carries
  <2>2. Held(k)
    BY <1>2, <2>1, WasHeld
  <2>3. Onward(k) \/ Asking(w)
    BY <1>1, <1>2, <2>2 DEF Heads
  <2> QED
    BY <1>1, <2>1, <2>2, <2>3, OnwardStays
<1>3. Onward(k)' <=> Onward(worker[w].token)'
  BY <1>1 DEF Onward
<1> QED
  BY <1>1, <1>2, <1>3 DEF Heads, Held, Onward

LEMMA PassesServed ==
  ASSUME Sound, Owned, [Next]_vars, NEW c \in Commands, Passes(c), calls'[c] = calls[c]
  PROVE  Passes(c)'
<1>1. PICK k, arg : k = calls[c].req.token /\ k = calls'[c].req.token
                    /\ arg = calls[c].req.arg /\ arg = calls'[c].req.arg
  OBVIOUS
<1>2. SUFFICES ASSUME Won(c), Held(k)', arg \notin {NoOrigin, k[1]} PROVE Onward(k)'
  BY <1>1 DEF Passes, Won, Held, Onward
<1>3. Granted(k) /\ k \in Tokens /\ Live(k)
  BY <1>1, <1>2, MessageTypes
     DEF Won, Sound, Fitting, Written, Types, CallTypes, Live, Wins
<1>4. Held(k)
  BY <1>2, <1>3, WasHeld
<1> QED
  BY <1>1, <1>2, <1>3, <1>4, OnwardStays DEF Passes

LEMMA SteadySaved ==
  ASSUME Sound, Sound', Owned, Saved, Steady, [Next]_vars
  PROVE  Saved'
<1>1. worker' = worker /\ \A c \in Commands : Quietly(c)
  BY DEF Steady
<1>2. ASSUME NEW w \in Workers PROVE Heads(w)'
  <2>1. Fits(w) /\ Fits(w)'
    BY DEF Sound, Fitting
  <2>2. ASSUME Asking(w) PROVE Asking(w)'
    <3>1. PICK c \in Commands : c = worker[w].main /\ calls[c] # NoTx /\ calls'[c] # NoTx
                                /\ calls'[c].req.action # "claim"
      BY <1>1, <2>1, <2>2, StepNames DEF Asking, Fits, Waits, Awaits
    <3>2. calls'[c].req = calls[c].req /\ calls'[c].reply # "ok"
      BY <1>1, <2>2, <3>1 DEF Quietly, Asking, Reply
    <3> QED
      BY <1>1, <2>2, <3>1, <3>2 DEF Asking, Reply
  <2>3. ASSUME worker[w].pc = "authorize", Reply(w)' = "ok" PROVE Reply(w) = "ok"
    <3>1. PICK c \in Commands : c = worker[w].main /\ calls'[c] # NoTx
      BY <1>1, <2>1, <2>3 DEF Fits, Waits, Awaits
    <3> QED
      BY <1>1, <2>3, <3>1 DEF Quietly, Reply
  <2> QED
    BY <1>1, <2>2, <2>3, HeadsServed DEF Saved
<1>3. ASSUME NEW c \in Commands PROVE Passes(c)'
  <2>1. calls'[c] = calls[c] \/ ~Won(c)'
    BY <1>1 DEF Quietly, Won
  <2> QED
    BY <2>1, PassesServed DEF Saved, Passes
<1>4. \A u \in Urls : Admits(u)'
  BY <1>1, AdmitsServed
<1> QED
  BY <1>2, <1>3, <1>4 DEF Saved

(* The frontier ends a call.                                               *)
LEMMA FinishSaved ==
  ASSUME Sound, Sound', Owned, Saved, ResumesUnderLease, [Next]_vars,
         NEW u \in Urls, ServeFinish(u)
  PROVE  Saved'
<1>0. PICK t, c : Answering(u, t, c)
  BY FinishAnswers
<1>1. /\ t = tx[u] /\ t # NoTx /\ t.req.url = u /\ Apply(t) /\ c \in Commands
      /\ CallsStay(c) /\ worker' = worker /\ calls[c] # NoTx /\ calls[c].req = t.req
      /\ calls'[c].req = t.req /\ calls'[c].reply = t.verdict /\ t.req.command = c
      /\ Admits(u)
      /\ urls[u] \in UrlRow /\ DOMAIN urls = Urls
  BY <1>0 DEF Answering, Replies, Saved, Sound, Base, TypeOK
<1>2. ASSUME NEW w \in Workers PROVE Heads(w)'
  <2>1. Fits(w) /\ Fits(w)' /\ worker'[w] = worker[w]
    BY <1>1 DEF Sound, Fitting
  <2>2. ASSUME Asking(w) PROVE Asking(w)' \/ Onward(worker[w].token)'
    <3>1. PICK d \in Commands : d = worker[w].main /\ calls[d].req.token = worker[w].token
                                /\ calls[d].req.url = worker[w].url
      BY <2>1, <2>2, EngagedSteps DEF Asking, Fits, Waits, Awaits, Engaged
    <3>2. CASE d = c
      <4>1. t.req.action = "continue_redirect" /\ t.req.token = worker[w].token
        BY <1>1, <2>2, <3>1, <3>2 DEF Asking
      <4>2. ContinueApply(t) /\ t.req.token[3] = u
        BY <1>1, <4>1, TokenOfCall DEF Apply, Sound
      <4>3. t.req.arg # NoOrigin
        BY <1>1, <4>1, TransactionFields, RequestFields, ConstantAssumptions
           DEF Sound, Base, NoOrigin
      <4>4. urls'[u].next_origin = t.req.arg
        BY <1>1, <4>2 DEF ContinueApply, UrlRow
      <4> QED
        BY <4>1, <4>2, <4>3, <4>4, <2>1 DEF Onward
    <3>3. CASE d # c
      BY <1>1, <2>2, <3>1, <3>3 DEF CallsStay, Asking, Reply
    <3> QED
      BY <3>2, <3>3
  <2>3. ASSUME worker[w].pc = "authorize", Reply(w)' = "ok"
        PROVE  Reply(w) = "ok" \/ (worker[w].dest = worker[w].target
                                     => worker[w].dest = worker[w].token[1])
    <3>1. PICK d \in Commands : d = worker[w].main /\ calls[d].req.action = "authorize"
      BY <2>1, <2>3 DEF Fits, Waits, Awaits
    <3>2. CASE d = c
      BY <1>1, <2>1, <2>3, <3>1, <3>2 DEF Admits, Reply
    <3>3. CASE d # c
      BY <1>1, <2>1, <2>3, <3>1, <3>3 DEF CallsStay, Reply
    <3> QED
      BY <3>2, <3>3
  <2> QED
    BY <1>1, <2>2, <2>3, HeadsServed DEF Saved
<1>3. ASSUME NEW d \in Commands PROVE Passes(d)'
  <2>1. CASE d # c
    BY <1>1, <2>1, PassesServed DEF CallsStay, Saved
  <2>2. CASE d = c
    <3>1. SUFFICES ASSUME t.req.action = "claim", t.req.arg \notin {NoOrigin, t.req.token[1]}
                   PROVE  Onward(t.req.token)'
      BY <1>1, <2>2 DEF Passes, Won, Onward
    <3>2. t.req.token[1] = urls[u].origin /\ t.req.token[3] = u
      BY <1>1, <3>1, LeaseTypes DEF Sound, Leased, Holding, Holds
    <3>3. urls[u].next_origin # NoOrigin
      BY <1>1, <3>1, <3>2 DEF Admits, ResumesUnderLease
    <3>4. urls'[u].next_origin = urls[u].next_origin
      BY <1>1, <3>1 DEF Apply, ClaimApply, UrlRow
    <3> QED
      BY <3>2, <3>3, <3>4 DEF Onward
  <2> QED
    BY <2>1, <2>2
<1>4. \A v \in Urls : Admits(v)'
  BY <1>1, AdmitsServed
<1> QED
  BY <1>2, <1>3, <1>4 DEF Saved

(* Steps of a process. *)

(* A process that is renewing its lease still waits for the same answer.   *)
LEMMA RenewalSaved ==
  ASSUME Sound, Sound', UNCHANGED vars, NEW w \in Workers, Heads(w),
         AsksRenewal(w) \/ HearsRenewal(w) \/ LosesRenewal(w)
  PROVE  Heads(w)'
<1>1. PICK r, s : r = worker[w] /\ s = worker'[w]
  OBVIOUS
<1>2. /\ s.pc = r.pc /\ s.main = r.main /\ s.target = r.target /\ s.dest = r.dest
      /\ s.token = r.token
  BY <1>1 DEF AsksRenewal, HearsRenewal, LosesRenewal, Renewing, Becomes, At, Job
<1>3. ASSUME r.pc \in {"authorize", "call"}
      PROVE  calls'[r.main] = calls[r.main]
  <2>1. Fits(w) /\ Fits(w)'
    BY DEF Sound, Fitting
  <2>2. r.main \in Commands /\ r.main # r.renew /\ s.main # s.renew
    BY <1>1, <1>2, <1>3, <2>1 DEF Fits, Waits, Awaits
  <2>3. CASE AsksRenewal(w)
    BY <1>1, <1>2, <2>2, <2>3 DEF AsksRenewal, Posted, CallsStay, Renewing, Becomes, At
  <2>4. CASE HearsRenewal(w)
    BY <1>1, <2>2, <2>4 DEF HearsRenewal, Dropped, CallsStay
  <2>5. CASE LosesRenewal(w)
    BY <2>5 DEF LosesRenewal
  <2> QED
    BY <2>3, <2>4, <2>5
<1>4. Held(s.token)' <=> Held(r.token)
  BY <1>2 DEF Held, vars, tables
<1>5. Onward(s.token)' <=> Onward(r.token)
  BY <1>2 DEF Onward, vars, tables
<1>6. Asking(w)' <=> Asking(w)
  BY <1>1, <1>2, <1>3 DEF Asking, Reply
<1> QED
  BY <1>1, <1>2, <1>3, <1>4, <1>5, <1>6 DEF Heads, Reply

LEMMA MovesHeads ==
  ASSUME Sound, Sound', UNCHANGED vars, Saved, NEW w \in Workers, Moves(w)
  PROVE  Heads(w)'
<1>1. PICK r, s : r = worker[w] /\ s = worker'[w]
  OBVIOUS
<1>2. Heads(w) /\ origins' = origins /\ urls' = urls
  BY DEF Saved, vars, tables
<1>3. CASE TakesJob(w)
  <2>1. PICK c \in Commands :
          /\ Passes(c) /\ Won(c) /\ s.token = calls[c].req.token
          /\ s.pc \in {"job", "page"}
          /\ s.target = IF calls[c].req.arg = NoOrigin THEN s.token[1] ELSE calls[c].req.arg
    BY <1>1, <1>3 DEF TakesJob, Loose, At, Saved
  <2>2. Held(s.token)' /\ s.target # s.token[1] => Onward(s.token)'
    BY <1>2, <2>1 DEF Passes, Held, Onward
  <2> QED
    BY <1>1, <2>1, <2>2 DEF Heads
<1>4. CASE AsksRenewal(w) \/ HearsRenewal(w) \/ LosesRenewal(w)
  BY <1>2, <1>4, RenewalSaved
<1>5. CASE LeavesJob(w) \/ NacksJob(w) \/ StagesPage(w)
  BY <1>5 DEF LeavesJob, NacksJob, StagesPage, Goes, Becomes, At, Heads, Engaged
<1>6. ASSUME NEW c, NEW arg, r.pc = "http", Posted(c, "continue_redirect", r.url, r.token, arg),
             Goes(w, "call", c, arg, NoOrigin, 0)
      PROVE  Heads(w)'
  <2>1. s.pc = "call" /\ s.main = c
    BY <1>1, <1>6 DEF Goes, Becomes, At
  <2>2. Asking(w)'
    BY <1>1, <1>6, <2>1 DEF Asking, Posted, Reply, NoReply
  <2> QED
    BY <1>1, <2>1, <2>2 DEF Heads
<1>7. ASSUME NEW pc, NEW main, NEW dest, NEW ends, Goes(w, pc, main, r.target, dest, ends),
             r.pc = "call" => Reply(w) = "ok",
             pc = "authorize" => calls'[main].reply # "ok",
             pc = "http" => r.pc = "authorize" /\ Reply(w) = "ok" /\ dest = r.dest
      PROVE  Heads(w)'
  <2>1. /\ r.pc \in Engaged /\ s.pc = pc /\ s.main = main /\ s.target = r.target
        /\ s.dest = dest /\ s.token = r.token
    BY <1>1, <1>7 DEF Goes, Becomes, At, Job
  <2>2. ~Asking(w)
    BY <1>1, <1>7 DEF Asking
  <2>3. Held(s.token)' /\ s.target # s.token[1] => Onward(s.token)'
    BY <1>1, <1>2, <2>1, <2>2 DEF Heads, Held, Onward
  <2> QED
    BY <1>1, <1>2, <1>7, <2>1, <2>3 DEF Heads, Reply
<1>8. CASE AsksRequest(w)
  BY <1>1, <1>7, <1>8 DEF AsksRequest, Posted, NoReply
<1>9. CASE SendsRequest(w)
  BY <1>1, <1>7, <1>9 DEF SendsRequest
<1>10. CASE EndsRequest(w)
  BY <1>1, <1>7, <1>10 DEF EndsRequest
<1>11. CASE AsksCall(w)
  BY <1>1, <1>6, <1>7, <1>11 DEF AsksCall
<1>12. CASE HearsCall(w)
  BY <1>1, <1>7, <1>12 DEF HearsCall
<1> QED
  BY <1>3, <1>4, <1>5, <1>8, <1>9, <1>10, <1>11, <1>12 DEF Moves

LEMMA MovesSaved ==
  ASSUME Sound, Sound', UNCHANGED vars, Saved, NEW w \in Workers, Moves(w)
  PROVE  Saved'
<1>1. ASSUME NEW v \in Workers, v # w
      PROVE  Heads(v)'
  <2>1. worker'[v] = worker[v]
    <3>1. OthersStay(w)
      BY DEF Moves, LeavesJob, TakesJob, AsksRequest, SendsRequest, EndsRequest, AsksCall,
             HearsCall, StagesPage, NacksJob, AsksRenewal, HearsRenewal, LosesRenewal, Goes,
             Renewing, Becomes
    <3> QED
      BY <1>1, <3>1 DEF OthersStay
  <2>2. ASSUME worker[v].pc \in {"authorize", "call"}
        PROVE  calls'[worker[v].main] = calls[worker[v].main]
    <3>1. worker[v].main \in Commands /\ Sender[worker[v].main] = v
      BY <2>2 DEF Sound, Fitting, Fits, Waits, Awaits
    <3>2. calls' = calls \/ \E x : Loose(x, w) /\ CallsStay(x)
      BY DEF Moves, LeavesJob, SameCalls, TakesJob, AsksRequest, SendsRequest, EndsRequest,
             AsksCall, HearsCall, StagesPage, NacksJob, AsksRenewal, HearsRenewal, LosesRenewal,
             Posted, Dropped
    <3> QED
      BY <1>1, <3>1, <3>2 DEF Loose, CallsStay
  <2>3. Asking(v)' <=> Asking(v)
    BY <2>1, <2>2 DEF Asking, Reply
  <2>4. Heads(v)
    BY DEF Saved
  <2> QED
    BY <2>1, <2>2, <2>3, <2>4 DEF Heads, Held, Onward, Reply, vars, tables
<1>2. Heads(w)'
  BY MovesHeads
<1>3. ASSUME NEW c \in Commands
      PROVE  Passes(c)'
  <2>1. calls'[c] = calls[c] \/ ~Won(c)'
    BY MovesFresh DEF Fresh, Won, Sound, NoReply
  <2> QED
    BY <2>1 DEF Saved, Passes, Won, Held, Onward, vars, tables
<1>4. ASSUME NEW u \in Urls
      PROVE  Admits(u)'
  <2>1. SUFFICES ASSUME tx[u] # NoTx, tx[u].req.action = "authorize", tx[u].verdict = "ok",
                        NEW v \in Workers, worker'[v].pc = "authorize",
                        worker'[v].main = tx[u].req.command,
                        worker'[v].dest = worker'[v].target
                 PROVE  worker'[v].dest = worker'[v].token[1]
    BY DEF Admits, Saved, vars, tables
  <2>2. /\ calls[worker'[v].main] # NoTx /\ calls[worker'[v].main].reply = NoReply
    BY <2>1 DEF Sound, Fitting, Underway
  <2>3. /\ worker[v].pc = "authorize" /\ worker[v].main = worker'[v].main
        /\ worker[v].dest = worker'[v].dest /\ worker[v].target = worker'[v].target
        /\ worker[v].token = worker'[v].token
    <3>1. CASE v = w
      <4>1. CASE AsksRequest(w)
        BY <2>1, <2>2, <3>1, <4>1 DEF AsksRequest, Loose, Goes, Becomes, At
      <4>2. CASE AsksRenewal(w) \/ HearsRenewal(w) \/ LosesRenewal(w)
        BY <2>1, <3>1, <4>2
           DEF AsksRenewal, HearsRenewal, LosesRenewal, Renewing, Becomes, At, Job
      <4>3. CASE LeavesJob(w) \/ TakesJob(w) \/ NacksJob(w) \/ StagesPage(w)
        BY <2>1, <3>1, <4>3 DEF LeavesJob, TakesJob, NacksJob, StagesPage, Goes, Becomes, At
      <4>4. CASE SendsRequest(w) \/ EndsRequest(w) \/ AsksCall(w) \/ HearsCall(w)
        BY <2>1, <3>1, <4>4
           DEF SendsRequest, EndsRequest, AsksCall, HearsCall, Goes, Becomes, At
      <4> QED
        BY <4>1, <4>2, <4>3, <4>4 DEF Moves
    <3>2. CASE v # w
      <4>1. OthersStay(w)
        BY DEF Moves, LeavesJob, TakesJob, AsksRequest, SendsRequest, EndsRequest, AsksCall,
               HearsCall, StagesPage, NacksJob, AsksRenewal, HearsRenewal, LosesRenewal, Goes,
               Renewing, Becomes
      <4> QED
        BY <2>1, <3>2, <4>1 DEF OthersStay
    <3> QED
      BY <3>1, <3>2
  <2> QED
    BY <2>1, <2>3 DEF Saved, Admits
<1> QED
  BY <1>1, <1>2, <1>3, <1>4 DEF Saved

LEMMA SavedNext ==
  ASSUME Sound, Owned, Saved, ResumesUnderLease, [WNext]_allVars
  PROVE  Saved'
<1>1. Sound' /\ [Next]_vars
  BY SoundNext
<1> QED
  BY <1>1, StepKindsOfWorkers, SteadySaved, MovesSaved, FinishSaved

(* A page is requested under the main lease of its origin alone: what a    *)
(* redirect to another origin asks for is saved before it is followed, and *)
(* the frontier admits a page of a saved redirect to no other lease.       *)
THEOREM PagesUnderMainLease == WSpec => []PageUnderMainLease
<1>1. WInit => Owned /\ Saved
  <2> SUFFICES ASSUME WInit PROVE Owned /\ Saved
    OBVIOUS
  <2>1. \A w \in Workers : worker[w].pc = "down"
    BY DEF WInit, Down
  <2>2. /\ \A c \in Commands : calls[c] = NoTx
        /\ \A u \in Urls : tx[u] = NoTx
    BY DEF WInit, Init
  <2> QED
    BY <2>1, <2>2 DEF Owned, OwnedOnce, Carries, Wins, Gives, Won, Saved, Heads, Passes, Admits,
       Engaged
<1>2. Sound /\ ResumesUnderLease /\ Owned /\ Saved /\ [WNext]_allVars => Owned' /\ Saved'
  BY OwnedNext, SavedNext
<1>3. Saved => PageUnderMainLease
  BY DEF Saved, Heads, PageUnderMainLease, Flying, Step
<1>4. WSpec => []ResumesUnderLease
  BY WorkersAreClients, RedirectsResume, PTL
<1> QED
  BY <1>1, <1>2, <1>3, <1>4, SoundHolds, PTL DEF WSpec

=============================================================================
