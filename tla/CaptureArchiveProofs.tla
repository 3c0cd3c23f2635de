------------------------ MODULE CaptureArchiveProofs ------------------------
(***************************************************************************)
(* What the archive's promise is worth: an acknowledged capture is never   *)
(* lost, whatever the spool and the object store do.                       *)
(***************************************************************************)
EXTENDS CaptureArchive, TLAPS

(* A step that discards only what the object store has loses nothing. *)
LEMMA DiscardLosesNothing ==
  ASSUME NEW C, NothingLost, Discard(C)
  PROVE  NothingLost'
  BY DEF Discard, NothingLost

(* A capture whose storing was reported is in the spool or in the object    *)
(* store, after any number of crashes, uploads and deletions.               *)
THEOREM AcknowledgedStay == Spec => []NothingLost
<1>1. Init => NothingLost
  BY DEF Init, NothingLost
<1>2. NothingLost /\ [Next]_vars => NothingLost'
  <2> SUFFICES ASSUME NothingLost, [Next]_vars PROVE NothingLost'
    OBVIOUS
  <2>1. ASSUME NEW C, Keep(C) PROVE NothingLost'
    BY <2>1 DEF Keep, NothingLost
  <2>2. ASSUME NEW C, Acknowledge(C) PROVE NothingLost'
    BY <2>2 DEF Acknowledge, NothingLost
  <2>3. ASSUME NEW C, Archive(C) PROVE NothingLost'
    BY <2>3 DEF Archive, NothingLost
  <2>4. ASSUME UNCHANGED vars PROVE NothingLost'
    BY <2>4 DEF vars, NothingLost
  <2> QED
    BY <2>1, <2>2, <2>3, <2>4, DiscardLosesNothing DEF Next
<1> QED
  BY <1>1, <1>2, PTL DEF Spec
=============================================================================
