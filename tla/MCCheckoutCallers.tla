-------------------------- MODULE MCCheckoutCallers --------------------------
(* The TLC instance of CheckoutCallers: which statements fail, and where a *)
(* caller dies.                                                            *)
EXTENDS CheckoutCallers

(* Writes outside the claim; a failed read ends like a failed lookup, or   *)
(* like a failed insert of the reservation.                                *)
Writes == {"unpend", "pendAck", "pendNack", "dropPending", "dropFailed"}

(* Statements of the claim after which, failing or dying, it leaves no     *)
(* reservation, or a reservation with its marker: the next caller can tell.*)
CleanFail  == Writes \cup
  {"reserve", "dropOrphan", "mark", "complete", "unreserve", "unmark"}
CleanCrash == Writes \cup
  {"lookup", "reserve", "expire", "working", "complete", "unreserve", "unmark", "busy"}
=============================================================================
