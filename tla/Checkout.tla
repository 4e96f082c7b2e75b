------------------------------- MODULE Checkout -------------------------------
(***************************************************************************)
(* Fulfilment of one Stripe checkout session (fulfillCheckout and its four *)
(* callers in internal/payment/stripe.go): webhook deliveries, the success *)
(* page, the scan of recent sessions and the scan of pending ones all try  *)
(* to turn a paid session into one license.  Each database statement that  *)
(* another caller can observe is a step.                                   *)
(*                                                                         *)
(* The session claim is EventClaim, statement by statement, with the       *)
(* license row as its fulfilled() record.  The claim of the webhook event  *)
(* itself is taken at its promise (EventDelivery): one delivery of an      *)
(* event at a time, redelivered until acknowledged.                        *)
(***************************************************************************)
EXTENDS Integers, FiniteSets

CONSTANTS
  Workers,        \* requests and sync loops, on any replica
  Losable,        \* events Stripe may give up delivering
  LookupFails,    \* the Stripe and plan lookups may fail transiently
  NoPlan,         \* the session may (for now) resolve to no plan or email
  InsertFails,    \* the license insert may fail transiently
  SlowHandlers,   \* a claimant may outlive staleClaimAge
  FailAt,         \* labels whose statement may fail
  CrashAt,        \* labels at which a worker may die
  MaxTakeovers, MaxFaults  \* bounds, as in EventClaim

VARIABLES
  payment,        \* what Stripe says of the session
  outstanding,    \* events Stripe still delivers
  recent,         \* created less than ten minutes ago (SyncRecentCheckouts)
  pending,        \* the stripe_pending_session row
  licensed,       \* a license row carries the session id (unique index)
  mails,          \* history: license e-mails enqueued
  pc, job,        \* of each worker: next step; what it runs for
  reservation, marker, at, takeovers,   \* the session's claim (EventClaim)
  faults

claim == <<reservation, marker, at, takeovers>>
stripe == <<payment, outstanding, recent>>
vars == <<stripe, pending, licensed, mails, pc, job, claim, faults>>

Claim == INSTANCE EventClaim WITH
  HasRecord <- TRUE, HandlerFails <- InsertFails,
  applied <- IF licensed THEN 1 ELSE 0, acked <- FALSE

Events     == {"completed_unpaid", "completed_paid", "async_succeeded", "async_failed"}
Jobs       == Events \cup {"none", "verify", "recent", "pending"}

(* sessionFulfilled runs before the lookups and again after a lost claim.  *)
Checks  == {"license1", "reservation1", "marker1", "license2", "reservation2", "marker2"}
Results == {"ok", "no", "retry"}
Steps   == {"idle", "lookup", "claim", "finish", "unpend", "mail", "pendAck",
            "pendNack", "dropPending", "dropFailed"} \cup Checks \cup Results

ASSUME CheckoutConstantsOK ==
  /\ Losable \subseteq Events
  /\ {LookupFails, NoPlan, InsertFails, SlowHandlers} \subseteq BOOLEAN
  /\ FailAt \subseteq Steps \cup Claim!Labels
  /\ CrashAt \subseteq Steps \cup Claim!Labels

TypeOK ==
  /\ payment \in {"open", "unpaid", "paid", "failed"}
  /\ outstanding \subseteq Events
  /\ recent \in BOOLEAN
  /\ pending \in BOOLEAN
  /\ licensed \in BOOLEAN
  /\ mails \in Nat
  /\ pc \in [Workers -> Steps]
  /\ job \in [Workers -> Jobs]
  /\ at \in [Workers -> Claim!Labels]
  /\ reservation \in BOOLEAN
  /\ marker \in {"none", "fresh", "stale"}
  /\ takeovers \in Nat
  /\ faults \in Nat

-----------------------------------------------------------------------------
(* Stripe (external) *)

(* The customer completes the session, paying now or later. *)
CompletePaid ==
  /\ payment = "open" /\ payment' = "paid"
  /\ outstanding' = outstanding \cup {"completed_paid"}
  /\ UNCHANGED recent

CompleteUnpaid ==
  /\ payment = "open" /\ payment' = "unpaid"
  /\ outstanding' = outstanding \cup {"completed_unpaid"}
  /\ UNCHANGED recent

DelayedPaymentSettles ==
  /\ payment = "unpaid" /\ payment' = "paid"
  /\ outstanding' = outstanding \cup {"async_succeeded"}
  /\ UNCHANGED recent

DelayedPaymentFails ==
  /\ payment = "unpaid" /\ payment' = "failed"
  /\ outstanding' = outstanding \cup {"async_failed"}
  /\ UNCHANGED recent

EventLost ==
  /\ \E e \in outstanding \cap Losable : outstanding' = outstanding \ {e}
  /\ UNCHANGED <<payment, recent>>

LeavesRecentWindow ==
  /\ recent /\ recent' = FALSE
  /\ UNCHANGED <<payment, outstanding>>

Stripe ==
  /\ \/ CompletePaid \/ CompleteUnpaid \/ DelayedPaymentSettles
     \/ DelayedPaymentFails \/ EventLost \/ LeavesRecentWindow
  /\ UNCHANGED <<pending, licensed, mails, pc, job, claim, faults>>

-----------------------------------------------------------------------------
(* Callers: what starts a worker, and what it does with the outcome *)

Goto(w, step) == pc' = [pc EXCEPT ![w] = step]

Start(w, j, step) ==
  /\ pc[w] = "idle"
  /\ job' = [job EXCEPT ![w] = j]
  /\ Goto(w, step)
  /\ UNCHANGED <<stripe, pending, licensed, mails, claim, faults>>

(* Mutant: an unpaid completion is fulfilled at once. *)
Deliver_Unpaid(w) ==
  \E e \in outstanding :
    /\ \A v \in Workers : job[v] # e
    /\ Start(w, e, IF e = "async_failed" THEN "dropFailed" ELSE "license1")

(* Webhook: by the payload's payment status and the event's type. *)
Deliver(w) ==
  \E e \in outstanding :
    /\ \A v \in Workers : job[v] # e
    /\ Start(w, e, IF e = "completed_unpaid" THEN "pendAck"
                   ELSE IF e = "async_failed" THEN "dropFailed"
                   ELSE "license1")

(* VerifyCheckoutSession, visited after payment. *)
VisitSuccessPage(w) == payment = "paid" /\ Start(w, "verify", "license1")

(* SyncRecentCheckouts: completed sessions created in the last ten minutes. *)
ScanRecent(w) ==
  /\ recent /\ payment # "open"
  /\ Start(w, "recent", IF payment = "paid" THEN "license1" ELSE "pendNack")

(* Mutant: a claim row, not a license, hides a pending session. *)
ScanPending_HiddenByClaim(w) ==
  /\ pending /\ ~reservation /\ payment = "paid"
  /\ Start(w, "pending", "license1")

(* SyncPendingCheckouts: markers whose session has no license; a session   *)
(* that is not paid is left for a later round.                             *)
ScanPending(w) ==
  /\ pending /\ ~licensed /\ payment = "paid"
  /\ Start(w, "pending", "license1")

(* Mutant: the sweep looks for a claim instead of a license. *)
SweepPending_ByClaim ==
  /\ pending /\ marker # "none"
  /\ pending' = FALSE
  /\ UNCHANGED <<stripe, licensed, mails, pc, job, claim, faults>>

(* DeleteFulfilledPendingSessions, at the start of each round. *)
SweepPending ==
  /\ pending /\ licensed
  /\ pending' = FALSE
  /\ UNCHANGED <<stripe, licensed, mails, pc, job, claim, faults>>

Finish(w) ==
  /\ Goto(w, "idle")
  /\ job' = [job EXCEPT ![w] = "none"]
  /\ UNCHANGED <<payment, recent, licensed, mails, claim, faults>>

(* fulfillCheckout returned ok: answer the caller.  The pending scan first *)
(* drops the marker.                                                       *)
ReturnFulfilled(w) ==
  /\ pc[w] = "ok"
  /\ IF job[w] = "pending"
       THEN /\ Goto(w, "dropPending")
            /\ UNCHANGED <<stripe, pending, licensed, mails, job, claim, faults>>
       ELSE /\ Finish(w)
            /\ outstanding' = outstanding \ {job[w]}
            /\ UNCHANGED pending

(* Mutants: the pending scan drops the marker of a session it could not    *)
(* fulfil; a transient failure is acknowledged without a pending marker.   *)
ReturnUnfulfilled_ScanDrops(w) ==
  /\ pc[w] \in {"no", "retry"}
  /\ Goto(w, IF job[w] = "pending" THEN "dropPending"
             ELSE IF pc[w] = "no" THEN "pendAck" ELSE "pendNack")
  /\ UNCHANGED <<stripe, pending, licensed, mails, job, claim, faults>>
ReturnUnfulfilled_Acks(w) ==
  /\ pc[w] \in {"no", "retry"}
  /\ Finish(w)
  /\ outstanding' = outstanding \ {job[w]}
  /\ UNCHANGED pending

(* Not fulfilled: everyone but the pending scan records the pending marker; *)
(* a webhook without a transient error is acknowledged after that.         *)
ReturnUnfulfilled(w) ==
  /\ pc[w] \in {"no", "retry"}
  /\ IF job[w] = "pending"
       THEN Finish(w) /\ UNCHANGED <<outstanding, pending>>
       ELSE /\ Goto(w, IF pc[w] = "no" THEN "pendAck" ELSE "pendNack")
            /\ UNCHANGED <<stripe, pending, licensed, mails, job, claim, faults>>

RecordPending(w) ==
  /\ pc[w] \in {"pendAck", "pendNack"}
  /\ pending' = TRUE
  /\ outstanding' = IF pc[w] = "pendAck" THEN outstanding \ {job[w]} ELSE outstanding
  /\ Finish(w)

(* The pending scan after fulfilment, and onAsyncPaymentFailed. *)
DropPending(w) ==
  /\ pc[w] \in {"dropPending", "dropFailed"}
  /\ pending' = FALSE
  /\ outstanding' = outstanding \ {job[w]}
  /\ Finish(w)

-----------------------------------------------------------------------------
(* fulfillCheckout *)

Advance(w, step) ==
  /\ Goto(w, step)
  /\ UNCHANGED <<stripe, pending, licensed, mails, job, claim, faults>>

(* sessionFulfilled: a license, or a reservation without a marker, read one *)
(* after the other.                                                        *)
ReadLicense(w) ==
  \/ pc[w] = "license1" /\ Advance(w, IF licensed THEN "ok" ELSE "reservation1")
  \/ pc[w] = "license2" /\ Advance(w, IF licensed THEN "ok" ELSE "reservation2")

ReadReservation(w) ==
  \/ pc[w] = "reservation1" /\ Advance(w, IF reservation THEN "marker1" ELSE "lookup")
  \/ pc[w] = "reservation2" /\ Advance(w, IF reservation THEN "marker2" ELSE "no")

ReadMarker(w) ==
  \/ pc[w] = "marker1" /\ Advance(w, IF marker = "none" THEN "ok" ELSE "lookup")
  \/ pc[w] = "marker2" /\ Advance(w, IF marker = "none" THEN "ok" ELSE "no")

(* Plan and customer are resolved before anything is claimed. *)
Lookup(w) ==
  /\ pc[w] = "lookup"
  /\ Goto(w, "claim")
  /\ at' = [at EXCEPT ![w] = "reserve"]
  /\ UNCHANGED <<stripe, pending, licensed, mails, job, reservation, marker,
                 takeovers, faults>>

(* Mutant: a session without a plan counts as fulfilled. *)
LookupRefused_Ok(w) ==
  /\ pc[w] = "lookup"
  /\ \/ LookupFails /\ Advance(w, "retry")
     \/ NoPlan /\ Advance(w, "ok")

LookupRefused(w) ==
  /\ pc[w] = "lookup"
  /\ \/ LookupFails /\ Advance(w, "retry")
     \/ NoPlan /\ Advance(w, "no")

ClaimStatement(w) ==
  /\ Claim!Statement(w, licensed)
  /\ UNCHANGED <<stripe, pending, licensed, mails, pc, job, faults>>

LeaveClaim(w, step) ==
  /\ Goto(w, step)
  /\ at' = [at EXCEPT ![w] = "idle"]
  /\ UNCHANGED <<stripe, pending, licensed, mails, job, reservation, marker,
                 takeovers, faults>>

(* Not claimed: look again whether the session is fulfilled.  A database   *)
(* error, or the release after a failed insert, is a transient failure.    *)
ClaimRefused(w) ==
  /\ pc[w] = "claim"
  /\ \/ at[w] \in {"done", "busy"} /\ LeaveClaim(w, "license2")
     \/ at[w] = "error" /\ LeaveClaim(w, "retry")

(* CreateLicenseWithSubscription *)
InsertLicense(w) ==
  /\ at[w] = "working" /\ ~licensed
  /\ licensed' = TRUE
  /\ Goto(w, "finish")
  /\ at' = [at EXCEPT ![w] = "complete"]
  /\ UNCHANGED <<stripe, pending, mails, job, reservation, marker, takeovers, faults>>

(* Mutant: the loser of the race goes on as if its license existed. *)
InsertConflicts_Proceeds(w) ==
  at[w] = "working" /\ licensed /\ LeaveClaim(w, "unpend")

(* The unique index refuses a second license for the session. *)
InsertConflicts(w) ==
  at[w] = "working" /\ licensed /\ LeaveClaim(w, "ok")

InsertFailsTransiently(w) ==
  /\ InsertFails /\ at[w] = "working"
  /\ at' = [at EXCEPT ![w] = "unreserve"]
  /\ UNCHANGED <<stripe, pending, licensed, mails, pc, job, reservation, marker,
                 takeovers, faults>>

(* Mutant: the completion step returns early, into a step nobody runs. *)
Completed_Strays(w) ==
  pc[w] = "finish" /\ at[w] \in {"ok", "error"} /\ LeaveClaim(w, "finished")

(* The in-flight marker is gone, or could not be deleted: not fatal. *)
Completed(w) ==
  pc[w] = "finish" /\ at[w] \in {"ok", "error"} /\ LeaveClaim(w, "unpend")

(* Mutant: fulfilment returns once the pending marker is gone. *)
ClearPending_NoMail(w) ==
  /\ pc[w] = "unpend"
  /\ pending' = FALSE
  /\ Goto(w, "ok")
  /\ UNCHANGED <<stripe, licensed, mails, job, claim, faults>>

ClearPending(w) ==
  /\ pc[w] = "unpend"
  /\ pending' = FALSE
  /\ Goto(w, "mail")
  /\ UNCHANGED <<stripe, licensed, mails, job, claim, faults>>

MailLicense(w) ==
  /\ pc[w] = "mail"
  /\ mails' = mails + 1
  /\ Goto(w, "ok")
  /\ UNCHANGED <<stripe, pending, licensed, job, claim, faults>>

-----------------------------------------------------------------------------
(* Faults *)

Fault == faults < MaxFaults /\ faults' = faults + 1

ClaimStatementFails(w) ==
  /\ Fault
  /\ Claim!StatementFails(w)
  /\ UNCHANGED <<stripe, pending, licensed, mails, pc, job>>

(* A failed read is a transient error; a failed pending marker leaves the  *)
(* event unacknowledged; failed deletes of it and a failed enqueue are     *)
(* ignored.                                                                *)
StepFails(w) ==
  /\ Fault
  /\ pc[w] \in FailAt
  /\ \/ pc[w] \in Checks /\ Goto(w, "retry") /\ UNCHANGED <<job, outstanding>>
     \/ pc[w] = "unpend" /\ Goto(w, "mail") /\ UNCHANGED <<job, outstanding>>
     \/ pc[w] = "mail" /\ Goto(w, "ok") /\ UNCHANGED <<job, outstanding>>
     \/ /\ pc[w] \in {"pendAck", "pendNack", "dropPending", "dropFailed"}
        /\ Goto(w, "idle")
        /\ job' = [job EXCEPT ![w] = "none"]
        /\ outstanding' = IF pc[w] = "dropFailed" THEN outstanding \ {job[w]} ELSE outstanding
  /\ UNCHANGED <<payment, recent, pending, licensed, mails, claim>>

Crash(w) ==
  /\ Fault
  /\ pc[w] \in CrashAt \/ (pc[w] \in {"claim", "finish"} /\ at[w] \in CrashAt)
  /\ Goto(w, "idle")
  /\ job' = [job EXCEPT ![w] = "none"]
  /\ at' = [at EXCEPT ![w] = "idle"]
  /\ UNCHANGED <<stripe, pending, licensed, mails, reservation, marker, takeovers>>

TimePasses ==
  /\ Claim!MarkerAges
  /\ UNCHANGED <<stripe, pending, licensed, mails, pc, job, faults>>

-----------------------------------------------------------------------------
Init ==
  /\ payment = "open" /\ outstanding = {} /\ recent = TRUE
  /\ pending = FALSE /\ licensed = FALSE /\ mails = 0
  /\ pc = [w \in Workers |-> "idle"]
  /\ job = [w \in Workers |-> "none"]
  /\ reservation = FALSE /\ marker = "none" /\ takeovers = 0
  /\ at = [w \in Workers |-> "idle"]
  /\ faults = 0

Fulfil(w) ==
  \/ ReadLicense(w) \/ ReadReservation(w) \/ ReadMarker(w)
  \/ Lookup(w) \/ LookupRefused(w)
  \/ ClaimStatement(w) \/ ClaimRefused(w)
  \/ InsertLicense(w) \/ InsertConflicts(w) \/ InsertFailsTransiently(w)
  \/ Completed(w) \/ ClearPending(w) \/ MailLicense(w)

Answer(w) ==
  ReturnFulfilled(w) \/ ReturnUnfulfilled(w) \/ RecordPending(w) \/ DropPending(w)

Faulty(w) == ClaimStatementFails(w) \/ StepFails(w) \/ Crash(w)

Next ==
  \/ Stripe \/ TimePasses \/ SweepPending
  \/ \E w \in Workers :
       \/ Deliver(w) \/ VisitSuccessPage(w) \/ ScanRecent(w) \/ ScanPending(w)
       \/ Fulfil(w) \/ Answer(w) \/ Faulty(w)

Spec == Init /\ [][Next]_vars

(* Stripe redelivers what it has not given up, the loops of main.go tick   *)
(* every five minutes, started work runs on, time passes.  Lookups and the *)
(* insert succeed in the end.  Nobody has to visit the success page.       *)
Fairness ==
  /\ SF_vars(\E w \in Workers : Deliver(w))
  /\ SF_vars(\E w \in Workers : ScanPending(w))
  /\ SF_vars(\E w \in Workers : Lookup(w))
  /\ SF_vars(\E w \in Workers : InsertLicense(w))
  /\ \A w \in Workers : WF_vars(Fulfil(w) \/ Answer(w) \/ Faulty(w))
  /\ WF_vars(SweepPending)
  /\ WF_vars(TimePasses)

FairSpec == Spec /\ Fairness

-----------------------------------------------------------------------------
(* Properties *)

(* Workers that may still produce the license. *)
OnIt == {w \in Workers : at[w] \in Claim!Claiming \cup {"working"}}

(* One session, one license e-mail, whatever the four callers do (the      *)
(* unique index behind fulfillCheckout, stripe.go:676-683).                *)
MailedOnce == mails <= 1

(* A license is only written for a session whose money has arrived         *)
(* (onCheckoutCompleted, stripe.go:443-476).                               *)
OnlyPaidIsLicensed == licensed => payment = "paid"

(* "Fulfilled" is only ever reported for a session with a license, or one  *)
(* that another caller is about to license (fulfillCheckout's result).     *)
OkMeansTaken == (\E w \in Workers : pc[w] = "ok") => licensed \/ OnIt # {}

(* A paid session without a license is never forgotten: someone works on   *)
(* it, Stripe will deliver an event that fulfils or records it, or the     *)
(* pending scan sees it (stripe.go:487-494, 820-824).                      *)
NeverForgotten ==
  payment = "paid" /\ ~licensed =>
    \/ pending
    \/ outstanding \ {"async_failed"} # {}
    \/ \E w \in Workers : pc[w] # "idle"

(* The pending marker is only dropped for a session that is licensed, or   *)
(* about to be, or whose payment failed (syncPendingSession).              *)
PendingDroppedLate ==
  [][pending /\ ~pending' => licensed \/ OnIt # {} \/ payment = "failed"]_vars

(* A paid session is licensed in the end, and its license mailed. *)
PaidIsLicensed == payment = "paid" ~> licensed
LicensedIsMailed == licensed ~> mails > 0

(* Pending markers of licensed sessions are swept. *)
PendingSettles == <>[](licensed => ~pending)

=============================================================================
