--------------------------- MODULE CheckoutCallers ---------------------------
(***************************************************************************)
(* The callers of fulfillCheckout in the two settings in which they keep   *)
(* their promises, one of which is chosen at the beginning.  Together: any *)
(* number of callers at once, where lookups and statements fail, but no    *)
(* claim is disturbed.  Alone: one caller at a time, whose insert fails or *)
(* which dies, and leaves two claim rows the next caller can read.         *)
(***************************************************************************)
EXTENDS Checkout

VARIABLE setting

Settings == {"together", "alone"}

CallersInit == Init /\ setting \in Settings

MayStep(w) == setting = "alone" => \A v \in Workers \ {w} : pc[v] = "idle"

(* Together, a license insert does not fail, ... *)
Pursue(w) == Fulfil(w) /\ (setting = "together" => at'[w] # "unreserve")

(* ... nor does the insert of the in-flight marker, and nobody dies.       *)
Suffer(w) ==
  \/ StepFails(w)
  \/ ClaimStatementFails(w) /\ (setting = "together" => at[w] # "mark")
  \/ setting = "alone" /\ Crash(w)

Work(w) == MayStep(w) /\ (Pursue(w) \/ Answer(w) \/ Suffer(w))

CallersNext ==
  /\ UNCHANGED setting
  /\ \/ Stripe \/ TimePasses \/ SweepPending
     \/ \E w \in Workers :
          \/ /\ MayStep(w)
             /\ Deliver(w) \/ VisitSuccessPage(w) \/ ScanRecent(w) \/ ScanPending(w)
          \/ Work(w)

callersVars == <<setting, vars>>

(* The fairness of Checkout, in the setting at hand. *)
CallersFairness ==
  /\ SF_vars(\E w \in Workers : MayStep(w) /\ Deliver(w))
  /\ SF_vars(\E w \in Workers : MayStep(w) /\ ScanPending(w))
  /\ SF_vars(\E w \in Workers : Lookup(w))
  /\ SF_vars(\E w \in Workers : InsertLicense(w))
  /\ \A w \in Workers : WF_vars(Work(w))
  /\ WF_vars(SweepPending)
  /\ WF_vars(TimePasses)

CallersSpec == CallersInit /\ [][CallersNext]_callersVars /\ CallersFairness

-----------------------------------------------------------------------------
(* With callers together, a license is mailed in the end and the pending   *)
(* markers of licensed sessions are swept (fulfillCheckout,                *)
(* DeleteFulfilledPendingSessions).                                        *)
LicensedSettles == setting = "together" => LicensedIsMailed /\ PendingSettles
=============================================================================
