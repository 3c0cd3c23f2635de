-------------------------- MODULE MCCentralFrontier --------------------------
(* Values of the constants of CentralFrontier for model checking. *)
EXTENDS CentralFrontier, TLC

CONSTANTS w1, w2, n1, n2, p1, p2, ip1, draft1, draft2, rules1, throttled

Self      == [c \in Commands |-> c]
OneNode   == [w \in Workers |-> n1]
OneHost   == [o \in Origins |-> {ip1}]
NoHosts   == [o \in Origins |-> {}]
SameOrigin == [u \in Urls |-> 1]
OwnOrigin == [u \in Urls |-> u]
OnePartition == [o \in Origins |-> p1]
OneLink   == [u \in Urls |-> IF u = 1 THEN <<2, 3>> ELSE <<>>]
Busy      == [a \in RobotsAnswers |-> [ttl |-> 3, delay |-> 2, failed |-> a = throttled]]
NoLinks   == [u \in Urls |-> <<>>]
Alike     == Permutations(Workers)
NoRules   == [a \in {} |-> {}]
=============================================================================
