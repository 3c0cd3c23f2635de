----------------------------- MODULE OriginLease -----------------------------
(***************************************************************************)
(* What the central frontier and its workers promise to a web origin: at   *)
(* any time one lease may talk to it.  A lease lapses at a time the holder *)
(* can push forward but never back; once it has lapsed the origin is left  *)
(* alone for Cooldown before it can be leased again, long enough for the   *)
(* last request of the old holder to end.                                  *)
(***************************************************************************)
EXTENDS Integers

CONSTANTS
  Origins, Tokens, NoToken,
  Times,     \* instants: of the clock, and at which a lease may lapse
  Cooldown,  \* quiet time after a lease has lapsed
  HttpMax    \* longest HTTP request

\* What the proofs assume of the constants.
OriginLeaseAssumptions ==
  /\ Cooldown \in Nat /\ HttpMax \in Nat
  /\ HttpMax <= Cooldown
  /\ Times \subseteq Int
  /\ NoToken \in Tokens

VARIABLES
  now,
  holder,   \* holder[o]: token that owns the origin
  lapse,    \* lapse[o]: first instant at which the lease is over
  flights   \* HTTP requests on the wire: [origin, token, ends]

vars == <<now, holder, lapse, flights>>

NoLapse == 0 - Cooldown
Flight == [origin : Origins, token : Tokens, ends : Int]
To(o) == {f \in flights : f.origin = o}

Init ==
  /\ now = 0
  /\ holder = [o \in Origins |-> NoToken]
  /\ lapse = [o \in Origins |-> NoLapse]
  /\ flights = {}

Acquire(o, t, l) ==
  /\ lapse[o] + Cooldown <= now
  /\ l >= lapse[o]
  /\ holder' = [holder EXCEPT ![o] = t]
  /\ lapse' = [lapse EXCEPT ![o] = l]
  /\ UNCHANGED <<now, flights>>

(* One call extends the lease of the main origin and of the auxiliary ones. *)
Extend(O, l) ==
  /\ \A o \in O : holder[o] # NoToken /\ l >= lapse[o]
  /\ lapse' = [o \in Origins |-> IF o \in O THEN l ELSE lapse[o]]
  /\ UNCHANGED <<now, holder, flights>>

(* Given back by a holder that has nothing on the wire. *)
Release(O) ==
  /\ \A f \in flights : f.origin \notin O
  /\ holder' = [o \in Origins |-> IF o \in O THEN NoToken ELSE holder[o]]
  /\ lapse' = [o \in Origins |-> IF o \in O THEN NoLapse ELSE lapse[o]]
  /\ UNCHANGED <<now, flights>>

Send(o) ==
  /\ holder[o] # NoToken
  /\ now < lapse[o]
  /\ flights' = flights \cup {[origin |-> o, token |-> holder[o], ends |-> now + HttpMax]}
  /\ UNCHANGED <<now, holder, lapse>>

Land(f) ==
  /\ f \in flights
  /\ flights' = flights \ {f}
  /\ UNCHANGED <<now, holder, lapse>>

Tick ==
  /\ \A f \in flights : now < f.ends
  /\ now + 1 \in Times
  /\ now' = now + 1
  /\ UNCHANGED <<holder, lapse, flights>>

Next ==
  \/ \E o \in Origins, t \in Tokens \ {NoToken}, l \in Times : Acquire(o, t, l)
  \/ \E O \in SUBSET Origins, l \in Times : Extend(O, l)
  \/ \E O \in SUBSET Origins : Release(O)
  \/ \E o \in Origins : Send(o)
  \/ \E f \in flights : Land(f)
  \/ Tick

Spec == Init /\ [][Next]_vars
-----------------------------------------------------------------------------
TypeOK ==
  /\ now \in Nat
  /\ holder \in [Origins -> Tokens]
  /\ lapse \in [Origins -> Int]
  /\ flights \in SUBSET Flight

(* Requests on the wire to one origin were all sent under one lease. *)
OneLeaseOnTheWire ==
  \A f, g \in flights : f.origin = g.origin => f.token = g.token

(* A request on the wire belongs to the current holder and ends before the *)
(* origin can change hands: what makes the promise inductive.              *)
FlightsInsideLease ==
  \A f \in flights :
    /\ f.token = holder[f.origin]
    /\ f.ends >= now
    /\ f.ends < lapse[f.origin] + Cooldown

(* An origin changes hands only with nothing on the wire to it. *)
QuietStep == \A o \in Origins : holder'[o] # holder[o] => To(o) = {}
QuietHandover == [][QuietStep]_vars
=============================================================================
