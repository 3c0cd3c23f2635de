--------------------------- MODULE OriginLeaseProofs ---------------------------
(***************************************************************************)
(* Proofs about OriginLease, for any origins, tokens and times.            *)
(*                                                                         *)
(* The promise, one lease per origin on the wire, is not inductive: it     *)
(* says nothing of when a request ends.  FlightsInsideLease adds that a    *)
(* request belongs to the current holder and ends before the cooldown of   *)
(* the lease does.  Taking an origin needs that cooldown to be over, so    *)
(* nothing can then be on the wire to it.                                  *)
(***************************************************************************)
EXTENDS OriginLease, TLAPS

IInv == TypeOK /\ FlightsInsideLease

LEMMA InitHolds ==
  ASSUME OriginLeaseAssumptions
  PROVE  Init => IInv
BY DEF OriginLeaseAssumptions, Init, IInv, TypeOK, FlightsInsideLease, NoLapse, Flight

(* A request to an origin is over once the lease has cooled down. *)
LEMMA CooledIsQuiet ==
  ASSUME OriginLeaseAssumptions, IInv, NEW o \in Origins, lapse[o] + Cooldown <= now
  PROVE  To(o) = {}
<1> SUFFICES ASSUME NEW f \in flights, f.origin = o PROVE FALSE
  BY DEF To
<1>1. f \in Flight
  BY DEF IInv, TypeOK
<1>2. f.ends \in Int /\ lapse[o] \in Int /\ now \in Int /\ Cooldown \in Int
  BY <1>1 DEF OriginLeaseAssumptions, IInv, TypeOK, Flight
<1>3. f.ends >= now /\ f.ends < lapse[o] + Cooldown
  BY DEF IInv, FlightsInsideLease
<1> QED
  BY <1>2, <1>3

LEMMA NextKeeps ==
  ASSUME OriginLeaseAssumptions
  PROVE  IInv /\ [Next]_vars => IInv'
<1> SUFFICES ASSUME IInv, [Next]_vars PROVE IInv'
  OBVIOUS
<1> USE DEF OriginLeaseAssumptions
<1>1. ASSUME NEW o \in Origins, NEW t \in Tokens \ {NoToken}, NEW l \in Times, Acquire(o, t, l)
      PROVE  IInv'
  <2>1. TypeOK'
    BY <1>1 DEF IInv, TypeOK, Acquire
  <2>2. \A f \in flights : f.origin # o
    BY <1>1, CooledIsQuiet DEF Acquire, To
  <2>3. ASSUME NEW f \in flights
        PROVE  holder'[f.origin] = holder[f.origin] /\ lapse'[f.origin] = lapse[f.origin]
    BY <1>1, <2>2, <2>3 DEF IInv, TypeOK, Flight, Acquire
  <2>4. FlightsInsideLease'
    BY <1>1, <2>3 DEF IInv, FlightsInsideLease, Acquire
  <2> QED
    BY <2>1, <2>4 DEF IInv
<1>2. ASSUME NEW O \in SUBSET Origins, NEW l \in Times, Extend(O, l)
      PROVE  IInv'
  <2>1. TypeOK'
    BY <1>2 DEF IInv, TypeOK, Extend
  <2>2. ASSUME NEW f \in flights
        PROVE  lapse[f.origin] \in Int /\ lapse'[f.origin] \in Int
                 /\ lapse'[f.origin] >= lapse[f.origin]
    <3>1. f.origin \in Origins /\ l \in Int
      BY <2>2 DEF IInv, TypeOK, Flight
    <3>2. lapse'[f.origin] = IF f.origin \in O THEN l ELSE lapse[f.origin]
      BY <1>2, <3>1 DEF Extend
    <3>3. f.origin \in O => l >= lapse[f.origin]
      BY <1>2 DEF Extend
    <3>4. lapse[f.origin] \in Int
      BY <3>1 DEF IInv, TypeOK
    <3> QED
      BY <3>1, <3>2, <3>3, <3>4
  <2>3. ASSUME NEW f \in flights
        PROVE  f.token = holder'[f.origin] /\ f.ends >= now'
                 /\ f.ends < lapse'[f.origin] + Cooldown
    <3>1. f.ends \in Int
      BY <2>3 DEF IInv, TypeOK, Flight
    <3>2. f.token = holder[f.origin] /\ f.ends >= now /\ f.ends < lapse[f.origin] + Cooldown
      BY <2>3 DEF IInv, FlightsInsideLease
    <3>3. holder' = holder /\ now' = now
      BY <1>2 DEF Extend
    <3> QED
      BY <2>2, <3>1, <3>2, <3>3
  <2>4. flights' = flights
    BY <1>2 DEF Extend
  <2> QED
    BY <2>1, <2>3, <2>4 DEF IInv, FlightsInsideLease
<1>3. ASSUME NEW O \in SUBSET Origins, Release(O)
      PROVE  IInv'
  <2>1. TypeOK'
    BY <1>3 DEF IInv, TypeOK, Release, NoLapse
  <2>2. ASSUME NEW f \in flights
        PROVE  holder'[f.origin] = holder[f.origin] /\ lapse'[f.origin] = lapse[f.origin]
    BY <1>3, <2>2 DEF IInv, TypeOK, Flight, Release
  <2>3. FlightsInsideLease'
    BY <1>3, <2>2 DEF IInv, FlightsInsideLease, Release
  <2> QED
    BY <2>1, <2>3 DEF IInv
<1>4. ASSUME NEW o \in Origins, Send(o)
      PROVE  IInv'
  <2> DEFINE g == [origin |-> o, token |-> holder[o], ends |-> now + HttpMax]
  <2>1. g \in Flight
    BY DEF IInv, TypeOK, Flight
  <2>2. TypeOK'
    BY <1>4, <2>1 DEF IInv, TypeOK, Send
  <2>3. g.token = holder[g.origin] /\ g.ends >= now /\ g.ends < lapse[g.origin] + Cooldown
    BY <1>4 DEF IInv, TypeOK, Send
  <2>4. FlightsInsideLease'
    BY <1>4, <2>3 DEF IInv, FlightsInsideLease, Send
  <2> QED
    BY <2>2, <2>4 DEF IInv
<1>5. ASSUME NEW f \in flights, Land(f)
      PROVE  IInv'
  BY <1>5 DEF IInv, TypeOK, FlightsInsideLease, Land
<1>6. CASE Tick
  <2>1. TypeOK'
    BY <1>6 DEF IInv, TypeOK, Tick
  <2>2. ASSUME NEW f \in flights
        PROVE  f.ends >= now + 1
    <3>1. f.ends \in Int /\ now \in Int
      BY <2>2 DEF IInv, TypeOK, Flight
    <3> QED
      BY <1>6, <2>2, <3>1 DEF Tick
  <2>3. FlightsInsideLease'
    BY <1>6, <2>2 DEF IInv, FlightsInsideLease, Tick
  <2> QED
    BY <2>1, <2>3 DEF IInv
<1>7. CASE UNCHANGED vars
  BY <1>7 DEF IInv, TypeOK, FlightsInsideLease, vars
<1> QED
  BY <1>1, <1>2, <1>3, <1>4, <1>5, <1>6, <1>7 DEF Next

THEOREM Inductive ==
  ASSUME OriginLeaseAssumptions
  PROVE  Spec => []IInv
BY InitHolds, NextKeeps, PTL DEF Spec

(* Types of the abstract lease. *)
THEOREM Typed ==
  ASSUME OriginLeaseAssumptions
  PROVE  Spec => []TypeOK
<1>1. IInv => TypeOK
  BY DEF IInv
<1> QED
  BY <1>1, Inductive, PTL

(* A request on the wire ends before its origin can change hands: the      *)
(* strengthening behind the promise of schema.sql and leased.rs.           *)
THEOREM EndsInTime ==
  ASSUME OriginLeaseAssumptions
  PROVE  Spec => []FlightsInsideLease
<1>1. IInv => FlightsInsideLease
  BY DEF IInv
<1> QED
  BY <1>1, Inductive, PTL

(* The promise to a web origin: requests of one lease at a time. *)
THEOREM OneLease ==
  ASSUME OriginLeaseAssumptions
  PROVE  Spec => []OneLeaseOnTheWire
<1>1. IInv => OneLeaseOnTheWire
  BY DEF IInv, FlightsInsideLease, OneLeaseOnTheWire
<1> QED
  BY <1>1, Inductive, PTL

(* A new claim, an auxiliary lease or a release never finds a request of   *)
(* the previous holder on the wire.                                        *)
THEOREM Quiet ==
  ASSUME OriginLeaseAssumptions
  PROVE  Spec => QuietHandover
<1>1. IInv /\ [Next]_vars => [QuietStep]_vars
  <2> SUFFICES ASSUME IInv, Next, NEW o \in Origins, holder'[o] # holder[o]
               PROVE  To(o) = {}
    BY DEF QuietStep
  <2>1. ASSUME NEW p \in Origins, NEW t \in Tokens \ {NoToken}, NEW l \in Times, Acquire(p, t, l)
        PROVE  To(o) = {}
    <3>1. p = o
      BY <2>1 DEF IInv, TypeOK, Acquire
    <3> QED
      BY <2>1, <3>1, CooledIsQuiet DEF Acquire
  <2>2. ASSUME NEW O \in SUBSET Origins, Release(O)
        PROVE  To(o) = {}
    <3>1. o \in O
      BY <2>2 DEF Release, IInv, TypeOK
    <3> QED
      BY <2>2, <3>1 DEF Release, To
  <2>3. CASE UNCHANGED holder
    BY <2>3
  <2> QED
    BY <2>1, <2>2, <2>3 DEF Next, Extend, Send, Land, Tick
<1> QED
  BY <1>1, Inductive, PTL DEF Spec, QuietHandover
=============================================================================
