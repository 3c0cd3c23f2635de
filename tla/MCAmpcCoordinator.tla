-------------------------- MODULE MCAmpcCoordinator --------------------------
(* Values of the constants of AmpcCoordinator for model checking. *)
EXTENDS AmpcCoordinator

Anywhere == [j \in Jobs |-> Workers]
(* The first two jobs can be done anywhere, as equal ones can; the third   *)
(* by one worker only.                                                     *)
Shards == [j \in Jobs |-> IF j = 3 THEN {2} ELSE Workers]
=============================================================================
