--------------------------- MODULE CaptureArchive ---------------------------
(***************************************************************************)
(* What the spool promises to the crawler and to those who read its        *)
(* captures: a capture that was acknowledged can be read back whatever     *)
(* crash follows, and leaves the spool only when the object store has it.  *)
(***************************************************************************)
CONSTANT Captures

VARIABLES
  kept,      \* captures the spool can read back after a loss of power
  acked,     \* captures whose storing was reported to the crawler
  archived   \* captures the object store holds

vars == <<kept, acked, archived>>

Init == kept = {} /\ acked = {} /\ archived = {}

(* A commit group becomes durable, all or nothing. *)
Keep(C) ==
  /\ kept' = kept \cup C
  /\ UNCHANGED <<acked, archived>>

Acknowledge(C) ==
  /\ C \subseteq kept
  /\ acked' = acked \cup C
  /\ UNCHANGED <<kept, archived>>

Archive(C) ==
  /\ C \subseteq kept
  /\ archived' = archived \cup C
  /\ UNCHANGED <<kept, acked>>

Discard(C) ==
  /\ C \subseteq archived
  /\ kept' = kept \ C
  /\ UNCHANGED <<acked, archived>>

Next == \E C \in SUBSET Captures : Keep(C) \/ Acknowledge(C) \/ Archive(C) \/ Discard(C)

Spec == Init /\ [][Next]_vars
-----------------------------------------------------------------------------
(* An acknowledged capture is in the spool or in the object store. *)
NothingLost == acked \subseteq kept \cup archived
=============================================================================
