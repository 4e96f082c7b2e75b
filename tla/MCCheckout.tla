----------------------------- MODULE MCCheckout -----------------------------
(* TLC instances of Checkout: label sets and symmetry. *)
EXTENDS Checkout, TLC

(* A worker in the claim protocol is where at says, not pc. *)
AllLabels == (Steps \ {"idle", "claim", "finish"}) \cup
  {"reserve", "look", "consult", "expire", "retake", "dropOrphan", "mark", "undo",
   "undoErr", "working", "complete", "unreserve", "unmark", "done", "busy", "error"}
Symmetry == Permutations(Workers)
=============================================================================
