---------------------------- MODULE MCEventClaim ----------------------------
(* TLC instances of EventClaim: label sets and symmetry. *)
EXTENDS EventClaim, TLC

AllLabels == Labels \ {"idle"}

(* Labels at which a crash leaves either no reservation, or a reservation  *)
(* with its marker: the next delivery can tell.                            *)
CleanCrash == AllLabels \ {"dropOrphan", "mark", "undo", "undoErr", "retake"}
(* Same for failing statements: not the double failure of undo, not the    *)
(* insert of the marker after the stale one was dropped.                   *)
CleanFail == AllLabels \ {"undo", "undoErr", "retake"}

Symmetry == Permutations(Workers)
=============================================================================
