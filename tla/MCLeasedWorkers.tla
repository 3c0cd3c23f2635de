-------------------------- MODULE MCLeasedWorkers --------------------------
(* Values of the constants of LeasedWorkers for model checking. *)
EXTENDS LeasedWorkers, TLC

CONSTANTS w1, w2, n1, n2, p1, ip1, rules1

TwoCommands == Workers \X {1, 2}
SenderOf   == [c \in Commands |-> c[1]]
OneNode    == [w \in Workers |-> n1]
OneHost    == [o \in Origins |-> Ips]
SameOrigin == [u \in Urls |-> 1]
OwnOrigin  == [u \in Urls |-> u]
OnePartition == [o \in Origins |-> p1]
Linked     == [u \in Urls |-> IF u = 1 THEN <<1, 2>> ELSE <<>>]
NoLinks    == [u \in Urls |-> <<>>]
Slow       == [a \in RobotsAnswers |-> [ttl |-> 1, delay |-> 1, failed |-> FALSE]]
Busy       == [a \in RobotsAnswers |-> [ttl |-> 3, delay |-> 1, failed |-> TRUE]]
NoRules    == [a \in {} |-> {}]
DraftOf    == [w \in Workers |-> w]
FewGrants  == {NoToken} \cup (Origins \X (1 .. 4) \X Urls)
ModelTimes == 0 - Cooldown .. MaxTime + Lease
Alike      == Permutations(Workers)

(* Instants that have passed compare alike ever after, so states that only *)
(* differ in them are one state of the search.                             *)
Past(t) == IF t <= now THEN 0 ELSE t
Recent ==
  <<now, partitions, captures, outbox, capacity, auxiliary_origins, budgets, tx, pick, pending,
    faults,
    [o \in Origins |-> [origins[o] EXCEPT
       !.deadline = IF @ + Cooldown <= now THEN NoDeadline ELSE @,
       !.eligible_at = Past(@),
       !.last_turn = IF Cardinality(Origins) = 1 THEN 0 ELSE @]],
    [u \in Urls |-> [urls[u] EXCEPT !.eligible_at = IF Cardinality(Urls) = 1 THEN Past(@) ELSE @]],
    [u \in Urls |-> IF request_slots[u] \in 1 .. now THEN 1 ELSE request_slots[u]],
    [u \in Urls |-> [i \in Ips |-> Past(ip_slots[u][i])]],
    [o \in Origins |-> [robots_cache[o] EXCEPT !.expires_at = Past(@)]],
    [w \in Workers |-> [worker[w] EXCEPT !.until = Past(@), !.renewAt = Past(@)]],
    [c \in Commands |-> IF calls[c] = NoTx THEN NoTx ELSE
       [calls[c] EXCEPT !.started = IF @ + Lease - Margin < now THEN 0 - Lease ELSE @]]>>
=============================================================================
