----------------------------- MODULE UsageBilling -----------------------------
(***************************************************************************)
(* What usage metering promises about the customer's bill (the comments at *)
(* MeteredBillingSyncer, internal/service/metered_sync.go): a unit of      *)
(* counted usage becomes at most one Stripe meter event, and only usage    *)
(* that was counted is billed.  Usage may go unbilled, never billed twice. *)
(***************************************************************************)
EXTENDS Integers

CONSTANT Quantities
VARIABLES unbilled,    \* counted usage that is not on a bill
          bill         \* what the customer is billed

Init == unbilled = 0 /\ bill = 0

CountUsage == \E q \in Quantities : unbilled' = unbilled + q /\ UNCHANGED bill

BillUsage ==
  \E q \in Quantities :
    /\ q <= unbilled
    /\ unbilled' = unbilled - q
    /\ bill' = bill + q

Next == CountUsage \/ BillUsage

Spec == Init /\ [][Next]_<<unbilled, bill>>
=============================================================================
