--------------------------- MODULE Checkout_proofs ---------------------------
(***************************************************************************)
(* Proofs about Checkout, for any set of workers and whatever is lost,     *)
(* fails, crashes or outlives its claim; and about its callers in the two  *)
(* settings of CheckoutCallers, for any number of faults.                  *)
(***************************************************************************)
EXTENDS CheckoutCallers, TLAPS

(* The claim's statements move one worker to another label and never touch *)
(* one that is not in the claim.                                           *)
LEMMA StatementMoves ==
  ASSUME TypeOK, NEW w \in Workers, Claim!Statement(w, licensed)
  PROVE  /\ at[w] # "idle"
         /\ \E label \in Claim!Labels : at' = [at EXCEPT ![w] = label]
         /\ reservation' \in BOOLEAN
         /\ marker' \in {"none", "fresh", "stale"}
         /\ takeovers' \in Nat
<1> USE DEF Claim!Statement, Claim!InsertReservation, Claim!DropOrphan,
      Claim!InsertMarker, Claim!UndoReservation, Claim!LookForMarker, Claim!Consult,
      Claim!ReleaseStale, Claim!Retake, Claim!Complete, Claim!ReleaseReservation,
      Claim!ReleaseMarker, Claim!Goto
<1>1. at[w] # "idle"
  OBVIOUS
<1>2. \E label \in Claim!Labels : at' = [at EXCEPT ![w] = label]
  BY DEF Claim!Labels, Claim!StatementLabels, Claim!Reserving, Claim!Claiming,
    Claim!Finishing, Claim!Replies
<1>3. reservation' \in BOOLEAN /\ marker' \in {"none", "fresh", "stale"}
  BY DEF TypeOK
<1>4. takeovers' = takeovers \/ takeovers' = takeovers + 1
  OBVIOUS
<1>5. takeovers' \in Nat
  BY <1>4 DEF TypeOK
<1>6. QED
  BY <1>1, <1>2, <1>3, <1>5

(* So does the failure of a statement, which changes no row. *)
LEMMA StatementFailureMoves ==
  ASSUME TypeOK, NEW w \in Workers, Claim!StatementFails(w)
  PROVE  /\ at[w] # "idle"
         /\ \E label \in Claim!Labels : at' = [at EXCEPT ![w] = label]
         /\ UNCHANGED <<reservation, marker, takeovers>>
  BY DEF Claim!StatementFails, Claim!AfterFailure, Claim!Goto, Claim!Labels,
    Claim!StatementLabels, Claim!Reserving, Claim!Claiming, Claim!Finishing, Claim!Replies

-----------------------------------------------------------------------------
(* Every variable keeps its type: a worker is always at a known step of    *)
(* fulfillCheckout or of the claim.                                        *)
THEOREM TypeCorrect == Spec => []TypeOK
<1>1. Init => TypeOK
  <2>1. Init => /\ recent \in BOOLEAN /\ pending \in BOOLEAN /\ licensed \in BOOLEAN
                /\ reservation \in BOOLEAN
    BY DEF Init
  <2>2. Init => /\ payment \in {"open", "unpaid", "paid", "failed"}
                /\ outstanding \subseteq Events /\ mails \in Nat
                /\ pc \in [Workers -> Steps] /\ job \in [Workers -> Jobs]
                /\ at \in [Workers -> Claim!Labels]
                /\ marker \in {"none", "fresh", "stale"}
                /\ takeovers \in Nat /\ faults \in Nat
    BY DEF Init, Steps, Jobs, Claim!Labels
  <2>3. QED
    BY <2>1, <2>2 DEF TypeOK
<1>2. TypeOK /\ [Next]_vars => TypeOK'
  <2> SUFFICES ASSUME TypeOK, [Next]_vars PROVE TypeOK'
    OBVIOUS
  <2>1. ASSUME Stripe PROVE TypeOK'
    BY <2>1 DEF TypeOK, Stripe, CompletePaid, CompleteUnpaid, DelayedPaymentSettles,
      DelayedPaymentFails, EventLost, LeavesRecentWindow, claim, Events
  <2>2. ASSUME TimePasses \/ SweepPending PROVE TypeOK'
    BY <2>2 DEF TypeOK, TimePasses, SweepPending, Claim!MarkerAges, stripe, claim
  <2>3. ASSUME NEW w \in Workers,
               Deliver(w) \/ VisitSuccessPage(w) \/ ScanRecent(w) \/ ScanPending(w)
        PROVE  TypeOK'
    BY <2>3 DEF TypeOK, Deliver, VisitSuccessPage, ScanRecent, ScanPending, Start, Goto,
      stripe, claim, Steps, Checks, Jobs, Events
  <2>4. ASSUME NEW w \in Workers, Fulfil(w) PROVE TypeOK'
    <3>1. CASE ReadLicense(w) \/ ReadReservation(w) \/ ReadMarker(w) \/ LookupRefused(w)
      BY <3>1 DEF TypeOK, ReadLicense, ReadReservation, ReadMarker, LookupRefused, Advance,
        Goto, stripe, claim, Steps, Checks, Results
    <3>2. CASE Lookup(w) \/ InsertFailsTransiently(w)
      BY <3>2 DEF TypeOK, Lookup, InsertFailsTransiently, Goto, stripe, Steps,
        Claim!Labels, Claim!StatementLabels, Claim!Reserving
    <3>3. CASE ClaimStatement(w)
      BY <3>3, StatementMoves DEF TypeOK, ClaimStatement, stripe
    <3>4. CASE ClaimRefused(w) \/ InsertConflicts(w) \/ Completed(w)
      BY <3>4 DEF TypeOK, ClaimRefused, InsertConflicts, Completed, LeaveClaim, Goto,
        stripe, Steps, Checks, Results, Claim!Labels
    <3>5. CASE InsertLicense(w)
      BY <3>5 DEF TypeOK, InsertLicense, Goto, stripe, Steps, Claim!Labels,
        Claim!StatementLabels, Claim!Finishing
    <3>6. CASE ClearPending(w)
      <4>1. pc' \in [Workers -> Steps]
        BY <3>6 DEF TypeOK, ClearPending, Goto, Steps
      <4>2. QED
        BY <3>6, <4>1 DEF TypeOK, ClearPending, stripe, claim
    <3>7. CASE MailLicense(w)
      <4>1. pc' \in [Workers -> Steps] /\ mails' \in Nat
        BY <3>7 DEF TypeOK, MailLicense, Goto, Steps, Results
      <4>2. QED
        BY <3>7, <4>1 DEF TypeOK, MailLicense, stripe, claim
    <3>8. QED
      BY <2>4, <3>1, <3>2, <3>3, <3>4, <3>5, <3>6, <3>7 DEF Fulfil
  <2>5. ASSUME NEW w \in Workers, Answer(w) PROVE TypeOK'
    BY <2>5 DEF TypeOK, Answer, ReturnFulfilled, ReturnUnfulfilled, RecordPending,
      DropPending, Finish, Goto, stripe, claim, Steps, Jobs
  <2>6. ASSUME NEW w \in Workers, Faulty(w) PROVE TypeOK'
    <3>1. CASE ClaimStatementFails(w)
      BY <3>1, StatementFailureMoves DEF TypeOK, ClaimStatementFails, Fault, stripe
    <3>2. CASE StepFails(w)
      BY <3>2 DEF TypeOK, StepFails, Fault, Goto, claim, Steps, Results, Jobs
    <3>3. CASE Crash(w)
      BY <3>3 DEF TypeOK, Crash, Fault, Goto, stripe, Steps, Jobs, Claim!Labels
    <3>4. QED
      BY <2>6, <3>1, <3>2, <3>3 DEF Faulty
  <2>7. CASE UNCHANGED vars
    BY <2>7 DEF TypeOK, vars, stripe, claim
  <2> QED
    BY <2>1, <2>2, <2>3, <2>4, <2>5, <2>6, <2>7 DEF Next
<1>3. QED
  BY <1>1, <1>2, PTL DEF Spec

-----------------------------------------------------------------------------
(* Who works towards a license, and who has just written it. *)
Fulfilling == Checks \cup {"lookup", "claim", "finish", "unpend", "mail"}
Mailing    == {"finish", "unpend", "mail"}

(* Nobody works on a session that is not paid, and Stripe announces a      *)
(* payment only when it is there.                                          *)
PaidFirst ==
  /\ \A w \in Workers : pc[w] \in Fulfilling \/ at[w] # "idle" => payment = "paid"
  /\ {"completed_paid", "async_succeeded"} \cap outstanding # {} => payment = "paid"
  /\ OnlyPaidIsLicensed

(* A license is only written for a session whose money has arrived: every  *)
(* caller checks the payment before it starts, and a paid session stays    *)
(* paid (onCheckoutCompleted, stripe.go:443-476).                          *)
THEOREM OnlyPaidIsEverLicensed == Spec => []OnlyPaidIsLicensed
<1>1. Init => PaidFirst
  BY DEF Init, PaidFirst, OnlyPaidIsLicensed, Fulfilling, Checks
<1>2. TypeOK /\ PaidFirst /\ [Next]_vars => PaidFirst'
  <2> SUFFICES ASSUME TypeOK, PaidFirst, [Next]_vars PROVE PaidFirst'
    OBVIOUS
  <2> USE DEF PaidFirst, OnlyPaidIsLicensed
  <2>1. ASSUME Stripe PROVE PaidFirst'
    BY <2>1 DEF TypeOK, Stripe, CompletePaid, CompleteUnpaid, DelayedPaymentSettles,
      DelayedPaymentFails, EventLost, LeavesRecentWindow, claim
  <2>2. ASSUME TimePasses \/ SweepPending PROVE PaidFirst'
    BY <2>2 DEF TimePasses, SweepPending, Claim!MarkerAges, stripe, claim
  <2>3. ASSUME NEW w \in Workers,
               Deliver(w) \/ VisitSuccessPage(w) \/ ScanRecent(w) \/ ScanPending(w)
        PROVE  PaidFirst'
    BY <2>3 DEF TypeOK, Deliver, VisitSuccessPage, ScanRecent, ScanPending, Start, Goto,
      stripe, claim, Fulfilling, Checks, Events
  <2>4. ASSUME NEW w \in Workers, Fulfil(w) PROVE PaidFirst'
    <3>1. CASE ReadLicense(w) \/ ReadReservation(w) \/ ReadMarker(w) \/ LookupRefused(w)
      BY <3>1 DEF TypeOK, ReadLicense, ReadReservation, ReadMarker, LookupRefused, Advance,
        Goto, stripe, claim, Fulfilling, Checks
    <3>2. CASE Lookup(w) \/ InsertFailsTransiently(w)
      BY <3>2 DEF TypeOK, Lookup, InsertFailsTransiently, Goto, stripe, Fulfilling
    <3>3. CASE ClaimStatement(w)
      BY <3>3, StatementMoves DEF TypeOK, ClaimStatement, stripe
    <3>4. CASE ClaimRefused(w) \/ InsertConflicts(w) \/ Completed(w)
      BY <3>4 DEF TypeOK, ClaimRefused, InsertConflicts, Completed, LeaveClaim, Goto,
        stripe, Fulfilling, Checks
    <3>5. CASE InsertLicense(w)
      BY <3>5 DEF TypeOK, InsertLicense, Goto, stripe
    <3>6. CASE ClearPending(w) \/ MailLicense(w)
      BY <3>6 DEF TypeOK, ClearPending, MailLicense, Goto, stripe, claim, Fulfilling
    <3>7. QED
      BY <2>4, <3>1, <3>2, <3>3, <3>4, <3>5, <3>6 DEF Fulfil
  <2>5. ASSUME NEW w \in Workers, Answer(w) PROVE PaidFirst'
    BY <2>5 DEF TypeOK, Answer, ReturnFulfilled, ReturnUnfulfilled, RecordPending,
      DropPending, Finish, Goto, stripe, claim, Fulfilling, Checks
  <2>6. ASSUME NEW w \in Workers, Faulty(w) PROVE PaidFirst'
    <3>1. CASE ClaimStatementFails(w)
      BY <3>1, StatementFailureMoves DEF TypeOK, ClaimStatementFails, stripe
    <3>2. CASE StepFails(w)
      BY <3>2 DEF TypeOK, StepFails, Goto, claim, Fulfilling, Checks
    <3>3. CASE Crash(w)
      BY <3>3 DEF TypeOK, Crash, Goto, stripe, Fulfilling, Checks
    <3>4. QED
      BY <2>6, <3>1, <3>2, <3>3 DEF Faulty
  <2>7. CASE UNCHANGED vars
    BY <2>7 DEF vars, stripe, claim
  <2> QED
    BY <2>1, <2>2, <2>3, <2>4, <2>5, <2>6, <2>7 DEF Next
<1>3. QED
  BY <1>1, <1>2, TypeCorrect, PTL DEF PaidFirst, Spec

-----------------------------------------------------------------------------
(* There is no mail before the license, the caller that inserted it is the *)
(* only one on its way to the mail, and nobody is once it went out.        *)
OneMailer ==
  /\ mails \in {0, 1}
  /\ ~ licensed => mails = 0
  /\ \A w \in Workers : pc[w] \in Mailing => licensed /\ mails = 0
  /\ \A v, w \in Workers : pc[v] \in Mailing /\ pc[w] \in Mailing => v = w

(* One session, one license e-mail, whatever the four callers do: the      *)
(* unique index lets one insert through, and only its caller goes on to    *)
(* the mail (stripe.go:676-683).                                           *)
THEOREM MailedAtMostOnce == Spec => []MailedOnce
<1>1. Init => OneMailer
  BY DEF Init, OneMailer, Mailing
<1>2. TypeOK /\ OneMailer /\ [Next]_vars => OneMailer'
  <2> SUFFICES ASSUME TypeOK, OneMailer, [Next]_vars PROVE OneMailer'
    OBVIOUS
  <2> USE DEF OneMailer, Mailing
  <2>1. ASSUME Stripe \/ TimePasses \/ SweepPending PROVE OneMailer'
    BY <2>1 DEF Stripe, TimePasses, SweepPending
  <2>2. ASSUME NEW w \in Workers,
               \/ Deliver(w) \/ VisitSuccessPage(w) \/ ScanRecent(w) \/ ScanPending(w)
               \/ Answer(w) \/ Crash(w)
        PROVE  OneMailer'
    <3>1. licensed' = licensed /\ mails' = mails
      BY <2>2 DEF Deliver, VisitSuccessPage, ScanRecent, ScanPending, Start, Answer,
        ReturnFulfilled, ReturnUnfulfilled, RecordPending, DropPending, Finish, Crash
    <3>2. \E step \in Steps \ Mailing : pc' = [pc EXCEPT ![w] = step]
      BY <2>2 DEF Deliver, VisitSuccessPage, ScanRecent, ScanPending, Start, Answer,
        ReturnFulfilled, ReturnUnfulfilled, RecordPending, DropPending, Finish, Crash,
        Goto, Steps, Checks
    <3>3. QED
      BY <3>1, <3>2 DEF TypeOK
  <2>3. ASSUME NEW w \in Workers, Fulfil(w) PROVE OneMailer'
    <3>1. CASE \/ ReadLicense(w) \/ ReadReservation(w) \/ ReadMarker(w) \/ LookupRefused(w)
               \/ Lookup(w) \/ ClaimRefused(w) \/ InsertConflicts(w)
      BY <3>1 DEF TypeOK, ReadLicense, ReadReservation, ReadMarker, LookupRefused, Advance,
        Lookup, ClaimRefused, InsertConflicts, LeaveClaim, Goto
    <3>2. CASE ClaimStatement(w) \/ InsertFailsTransiently(w)
      BY <3>2 DEF ClaimStatement, InsertFailsTransiently
    <3>3. CASE InsertLicense(w)
      BY <3>3 DEF TypeOK, InsertLicense, Goto
    <3>4. CASE Completed(w) \/ ClearPending(w) \/ MailLicense(w)
      BY <3>4 DEF TypeOK, Completed, LeaveClaim, ClearPending, MailLicense, Goto
    <3>5. QED
      BY <2>3, <3>1, <3>2, <3>3, <3>4 DEF Fulfil
  <2>4. ASSUME NEW w \in Workers, ClaimStatementFails(w) PROVE OneMailer'
    BY <2>4 DEF ClaimStatementFails
  <2>5. ASSUME NEW w \in Workers, StepFails(w) PROVE OneMailer'
    BY <2>5 DEF TypeOK, StepFails, Goto, Checks
  <2>6. CASE UNCHANGED vars
    BY <2>6 DEF vars
  <2> QED
    BY <2>1, <2>2, <2>3, <2>4, <2>5, <2>6 DEF Next, Faulty
<1>3. OneMailer => MailedOnce
  BY DEF OneMailer, MailedOnce
<1>4. QED
  BY <1>1, <1>2, <1>3, TypeCorrect, PTL DEF Spec

-----------------------------------------------------------------------------
(* The callers in the settings of CheckoutCallers. *)

(* No failure or death leaves a reservation that nobody can tell from that *)
(* of a caller at work; events of a completed session are not lost.        *)
Recoverable ==
  /\ ~ SlowHandlers
  /\ FailAt \cap {"undo", "undoErr", "retake"} = {}
  /\ CrashAt \cap {"claim", "dropOrphan", "mark", "undo", "undoErr", "retake"} = {}
  /\ Losable \subseteq {"async_succeeded", "async_failed"}

(* Who is in the claim is at one of its statements; after the insert there *)
(* is a license.                                                           *)
Places ==
  /\ \A w \in Workers :
       /\ pc[w] = "claim" => at[w] \in Claim!Labels \ {"idle", "complete", "ok"}
       /\ pc[w] = "finish" => at[w] \in {"complete", "ok", "error"}
       /\ pc[w] \notin {"claim", "finish"} => at[w] = "idle"
  /\ (\E w \in Workers : pc[w] \in Mailing) => licensed

(* A statement of the claim, seen from fulfillCheckout. *)
LEMMA StatementPlaces ==
  ASSUME TypeOK, Places, NEW w \in Workers,
         Claim!Statement(w, licensed) \/ Claim!StatementFails(w), UNCHANGED <<pc, licensed>>
  PROVE  Places'
<1>1. at[w] # "idle" /\ \E label \in Claim!Labels : at' = [at EXCEPT ![w] = label]
  BY StatementMoves, StatementFailureMoves
<1>2. at'[w] # "idle" /\ (at'[w] \in {"complete", "ok"} => at[w] = "complete")
  BY DEF TypeOK, Claim!Statement, Claim!InsertReservation, Claim!DropOrphan,
      Claim!InsertMarker, Claim!UndoReservation, Claim!LookForMarker, Claim!Consult,
      Claim!ReleaseStale, Claim!Retake, Claim!Complete, Claim!ReleaseReservation,
      Claim!ReleaseMarker, Claim!Goto, Claim!StatementFails, Claim!AfterFailure
<1>3. at[w] = "complete" => at'[w] \in {"ok", "error"}
  BY DEF TypeOK, Claim!Statement, Claim!InsertReservation, Claim!DropOrphan,
      Claim!InsertMarker, Claim!UndoReservation, Claim!LookForMarker, Claim!Consult,
      Claim!ReleaseStale, Claim!Retake, Claim!Complete, Claim!ReleaseReservation,
      Claim!ReleaseMarker, Claim!Goto, Claim!StatementFails, Claim!AfterFailure
<1>4. at[w] \notin {"ok", "error"}
  BY DEF TypeOK, Claim!Statement, Claim!InsertReservation, Claim!DropOrphan,
      Claim!InsertMarker, Claim!UndoReservation, Claim!LookForMarker, Claim!Consult,
      Claim!ReleaseStale, Claim!Retake, Claim!Complete, Claim!ReleaseReservation,
      Claim!ReleaseMarker, Claim!StatementFails, Claim!StatementLabels, Claim!Reserving,
      Claim!Claiming, Claim!Finishing
<1>5. \A v \in Workers : v # w => at'[v] = at[v]
  BY <1>1 DEF TypeOK
<1>6. at'[w] \in Claim!Labels
  BY <1>1 DEF TypeOK
<1> QED
  BY <1>1, <1>2, <1>3, <1>4, <1>5, <1>6 DEF Places

(* Every step keeps the places. *)
LEMMA PlacesKept == TypeOK /\ Places /\ [Next]_vars => Places'
<1> SUFFICES ASSUME TypeOK, Places, [Next]_vars PROVE Places'
  OBVIOUS
<1> USE DEF Mailing
<1>1. CASE Stripe \/ TimePasses \/ SweepPending
  BY <1>1 DEF Places, Stripe, TimePasses, SweepPending, Claim!MarkerAges, claim
<1>2. ASSUME NEW w \in Workers,
             \/ Deliver(w) \/ VisitSuccessPage(w) \/ ScanRecent(w) \/ ScanPending(w)
             \/ Answer(w)
      PROVE  Places'
  BY <1>2 DEF Places, TypeOK, Deliver, VisitSuccessPage, ScanRecent, ScanPending, Start, Goto,
    Answer, ReturnFulfilled, ReturnUnfulfilled, RecordPending, DropPending, Finish, claim
<1>3. ASSUME NEW w \in Workers, Fulfil(w) PROVE Places'
  <2>1. CASE ReadLicense(w) \/ ReadReservation(w) \/ ReadMarker(w) \/ LookupRefused(w)
    BY <2>1 DEF Places, TypeOK, ReadLicense, ReadReservation, ReadMarker, LookupRefused,
      Advance, Goto, claim
  <2>2. CASE Lookup(w) \/ InsertFailsTransiently(w) \/ InsertLicense(w)
    BY <2>2 DEF Places, TypeOK, Lookup, InsertFailsTransiently, InsertLicense, Goto,
      Claim!Labels, Claim!StatementLabels, Claim!Reserving
  <2>3. CASE ClaimStatement(w)
    BY <2>3, StatementPlaces DEF ClaimStatement
  <2>4. CASE ClaimRefused(w) \/ InsertConflicts(w) \/ Completed(w)
    BY <2>4 DEF Places, TypeOK, ClaimRefused, InsertConflicts, Completed, LeaveClaim, Goto
  <2>5. CASE ClearPending(w) \/ MailLicense(w)
    BY <2>5 DEF Places, TypeOK, ClearPending, MailLicense, Goto, claim
  <2> QED
    BY <1>3, <2>1, <2>2, <2>3, <2>4, <2>5 DEF Fulfil
<1>4. ASSUME NEW w \in Workers, Faulty(w) PROVE Places'
  <2>1. CASE ClaimStatementFails(w)
    BY <2>1, StatementPlaces DEF ClaimStatementFails
  <2>2. CASE StepFails(w)
    BY <2>2 DEF Places, TypeOK, StepFails, Goto, claim, Checks
  <2>3. CASE Crash(w)
    BY <2>3 DEF Places, TypeOK, Crash, Goto
  <2> QED
    BY <1>4, <2>1, <2>2, <2>3 DEF Faulty
<1>5. CASE UNCHANGED vars
  BY <1>5 DEF Places, vars, claim
<1> QED
  BY <1>1, <1>2, <1>3, <1>4, <1>5 DEF Next

(* The callers keep the promises of Checkout; they only do less. *)
LEMMA CallersAreCheckout == CallersSpec => Spec
<1>1. CallersInit => Init
  BY DEF CallersInit
<1>2. [CallersNext]_callersVars => [Next]_vars
  BY DEF CallersNext, callersVars, Work, Pursue, Suffer, Next, Faulty
<1> QED
  BY <1>1, <1>2, PTL DEF CallersSpec, Spec

-----------------------------------------------------------------------------
(* Together: at most one caller owns the two rows, and they say at what    *)
(* step it is; the reservation is only there for a license or a claimant.  *)
Owning     == {"dropOrphan", "mark", "working", "complete", "retake"}
Begetting  == {"dropOrphan", "mark", "working"}

RowsTell ==
  /\ \A w \in Workers : at[w] \notin {"undo", "undoErr", "unreserve", "unmark"}
  /\ \A v, w \in Workers : at[v] \in Owning /\ at[w] \in Owning => v = w
  /\ \A w \in Workers :
       /\ at[w] \in {"dropOrphan", "mark"} => reservation /\ marker = "none"
       /\ at[w] = "working" => reservation /\ marker = "fresh"
       /\ at[w] = "complete" => reservation /\ marker = "fresh" /\ licensed
       /\ at[w] = "retake" => reservation /\ marker = "none" /\ licensed
       /\ at[w] \in {"look", "consult", "expire"} => reservation
  /\ reservation => licensed \/ \E w \in Workers : at[w] \in Begetting
  /\ marker # "none" => reservation

(* A statement of the claim. *)
LEMMA StatementTells ==
  ASSUME TypeOK, RowsTell, NEW w \in Workers, Claim!Statement(w, licensed), UNCHANGED licensed
  PROVE  RowsTell'
<1> USE DEF Claim!Goto
<1>a. at \in [Workers -> Claim!Labels] /\ reservation \in BOOLEAN /\ marker \in {"none", "fresh", "stale"}
  BY DEF TypeOK
<1>1. CASE Claim!InsertReservation(w)
  <2>1. CASE reservation
    BY <1>1, <1>a, <2>1 DEF RowsTell, Claim!InsertReservation, Owning, Begetting
  <2>2. CASE ~ reservation
    <3>1. \A v \in Workers : at[v] \notin Owning
      BY <2>2 DEF RowsTell, Owning
    <3> QED
      BY <1>1, <1>a, <2>2, <3>1 DEF RowsTell, Claim!InsertReservation, Owning, Begetting
  <2> QED
    BY <2>1, <2>2
<1>2. CASE Claim!DropOrphan(w)
  BY <1>2, <1>a DEF RowsTell, Claim!DropOrphan, Owning, Begetting
<1>3. CASE Claim!InsertMarker(w)
  BY <1>3, <1>a DEF RowsTell, Claim!InsertMarker, Owning, Begetting
<1>4. CASE Claim!UndoReservation(w) \/ Claim!ReleaseReservation(w) \/ Claim!ReleaseMarker(w)
  BY <1>4 DEF RowsTell, Claim!UndoReservation, Claim!ReleaseReservation, Claim!ReleaseMarker
<1>5. CASE Claim!LookForMarker(w)
  BY <1>5, <1>a DEF RowsTell, Claim!LookForMarker, Owning, Begetting
<1>6. CASE Claim!Consult(w, licensed)
  BY <1>6, <1>a DEF RowsTell, Claim!Consult, Owning, Begetting
<1>7. CASE Claim!ReleaseStale(w)
  <2>1. CASE marker = "stale"
    <3>1. \A v \in Workers : at[v] \notin Owning
      BY <2>1 DEF RowsTell, Owning
    <3> QED
      BY <1>7, <1>a, <2>1, <3>1 DEF RowsTell, Claim!ReleaseStale, Owning, Begetting
  <2>2. CASE marker # "stale"
    BY <1>7, <1>a, <2>2 DEF RowsTell, Claim!ReleaseStale, Owning, Begetting
  <2> QED
    BY <2>1, <2>2
<1>8. CASE Claim!Retake(w)
  BY <1>8, <1>a DEF RowsTell, Claim!Retake, Owning, Begetting
<1>9. CASE Claim!Complete(w)
  BY <1>9, <1>a DEF RowsTell, Claim!Complete, Owning, Begetting
<1> QED
  BY <1>1, <1>2, <1>3, <1>4, <1>5, <1>6, <1>7, <1>8, <1>9 DEF Claim!Statement

(* A caller that begins or leaves its claim. *)
LEMMA OutsideTells ==
  ASSUME TypeOK, RowsTell, NEW w \in Workers, UNCHANGED <<reservation, marker>>, licensed => licensed',
         \/ at' = at
         \/ /\ \E label \in {"idle", "reserve", "error", "ok"} : at' = [at EXCEPT ![w] = label]
            /\ at[w] \in Begetting => licensed'
  PROVE  RowsTell'
  BY DEF TypeOK, RowsTell, Owning, Begetting

(* What callers do but for the claim's statements: no row changes, and who *)
(* leaves a claim while it may still beget the license has failed or died. *)
LEMMA WorkOutside ==
  ASSUME TypeOK, Places, NEW w \in Workers,
         \/ Deliver(w) \/ VisitSuccessPage(w) \/ ScanRecent(w) \/ ScanPending(w)
         \/ Answer(w) \/ StepFails(w)
         \/ Fulfil(w) /\ ~ ClaimStatement(w) /\ ~ InsertFailsTransiently(w) /\ ~ InsertLicense(w)
  PROVE  /\ UNCHANGED <<reservation, marker>> /\ (licensed => licensed')
         /\ \/ at' = at
            \/ /\ \E label \in {"idle", "reserve", "error", "ok"} : at' = [at EXCEPT ![w] = label]
               /\ at[w] \in {"idle", "done", "busy", "ok", "error"} \/ (at[w] = "working" /\ licensed)
<1>1. CASE Deliver(w) \/ VisitSuccessPage(w) \/ ScanRecent(w) \/ ScanPending(w)
  BY <1>1 DEF Deliver, VisitSuccessPage, ScanRecent, ScanPending, Start, claim
<1>2. CASE Answer(w)
  BY <1>2 DEF Answer, ReturnFulfilled, ReturnUnfulfilled, RecordPending, DropPending, Finish, claim
<1>3. CASE StepFails(w)
  BY <1>3 DEF StepFails, claim
<1>4. CASE ReadLicense(w) \/ ReadReservation(w) \/ ReadMarker(w) \/ LookupRefused(w)
  BY <1>4 DEF ReadLicense, ReadReservation, ReadMarker, LookupRefused, Advance, claim
<1>5. CASE Lookup(w)
  BY <1>5 DEF Places, Lookup
<1>6. CASE ClaimRefused(w) \/ InsertConflicts(w) \/ Completed(w)
  BY <1>6 DEF Places, ClaimRefused, InsertConflicts, Completed, LeaveClaim
<1>7. CASE ClearPending(w) \/ MailLicense(w)
  BY <1>7 DEF ClearPending, MailLicense, claim
<1> QED
  BY <1>1, <1>2, <1>3, <1>4, <1>5, <1>6, <1>7 DEF Fulfil

(* Together, every step keeps what the rows tell, ... *)
LEMMA TogetherTells ==
  ASSUME Recoverable, TypeOK, Places, RowsTell, setting = "together", [CallersNext]_callersVars
  PROVE  RowsTell' /\ (reservation => reservation')
<1>a. at \in [Workers -> Claim!Labels] /\ reservation \in BOOLEAN
  BY DEF TypeOK
<1>b. ASSUME UNCHANGED <<reservation, marker, at, licensed>>
      PROVE  RowsTell' /\ (reservation => reservation')
  BY <1>b DEF RowsTell, Begetting, Owning
<1>1. CASE Stripe \/ SweepPending \/ UNCHANGED callersVars
  BY <1>1, <1>b DEF Stripe, SweepPending, callersVars, vars, claim
<1>2. CASE TimePasses
  <2>1. /\ \A w \in Workers : at[w] \in {"idle"} \cup Claim!Reserving \cup Claim!Replies
        /\ marker = "fresh" /\ marker' = "stale" /\ UNCHANGED <<reservation, at, licensed>>
    BY <1>2 DEF TimePasses, Claim!MarkerAges, Recoverable
  <2>2. \A w \in Workers : at[w] \notin Owning
    BY <2>1 DEF RowsTell, Owning, Claim!Reserving, Claim!Replies
  <2> QED
    BY <2>1, <2>2 DEF RowsTell, Owning, Begetting
<1>3. ASSUME NEW w \in Workers,
             \/ Deliver(w) \/ VisitSuccessPage(w) \/ ScanRecent(w) \/ ScanPending(w)
             \/ Answer(w) \/ StepFails(w)
             \/ Fulfil(w) /\ ~ ClaimStatement(w) /\ ~ InsertFailsTransiently(w) /\ ~ InsertLicense(w)
      PROVE  RowsTell' /\ (reservation => reservation')
  BY <1>3, WorkOutside, OutsideTells DEF Begetting
<1>4. ASSUME NEW w \in Workers, ClaimStatement(w)
      PROVE  RowsTell' /\ (reservation => reservation')
  <2>1. RowsTell'
    BY <1>4, StatementTells DEF ClaimStatement
  <2>2. reservation => reservation'
    BY <1>4, <1>a DEF ClaimStatement, RowsTell, Claim!Statement, Claim!InsertReservation,
      Claim!DropOrphan, Claim!InsertMarker, Claim!UndoReservation, Claim!LookForMarker,
      Claim!Consult, Claim!ReleaseStale, Claim!Retake, Claim!Complete,
      Claim!ReleaseReservation, Claim!ReleaseMarker
  <2> QED
    BY <2>1, <2>2
<1>5. ASSUME NEW w \in Workers, InsertLicense(w)
      PROVE  RowsTell' /\ (reservation => reservation')
  BY <1>5, <1>a DEF InsertLicense, RowsTell, Owning, Begetting
<1>6. ASSUME NEW w \in Workers, ClaimStatementFails(w), at[w] # "mark"
      PROVE  RowsTell' /\ (reservation => reservation')
  <2>1. /\ at[w] \notin {"undo", "undoErr", "retake", "working"}
        /\ at' = [at EXCEPT ![w] = Claim!AfterFailure(at[w])]
        /\ UNCHANGED <<reservation, marker, licensed>>
    BY <1>6 DEF ClaimStatementFails, Claim!StatementFails, Claim!Goto, Recoverable,
      Claim!StatementLabels, Claim!Reserving, Claim!Claiming, Claim!Finishing
  <2>2. at'[w] = IF at[w] = "dropOrphan" THEN "mark" ELSE "error"
    BY <1>6, <1>a, <2>1 DEF Claim!AfterFailure
  <2>3. \A v \in Workers : at'[v] = IF v = w THEN at'[w] ELSE at[v]
    BY <1>a, <2>1
  <2>4. CASE at[w] = "dropOrphan"
    <3>1. \A v \in Workers : (at'[v] \in Owning) => (at[v] \in Owning)
      BY <2>2, <2>3, <2>4 DEF Owning
    <3>7. \A v \in Workers : (at[v] \in Begetting) => (at'[v] \in Begetting)
      BY <2>2, <2>3, <2>4 DEF Owning, Begetting
    <3>2. \A v \in Workers : at'[v] = at[v] \/ (v = w /\ at'[v] = "mark")
      BY <2>2, <2>3, <2>4
    <3>3. reservation /\ marker = "none"
      BY <2>4 DEF RowsTell
    <3>4. \A v \in Workers :
            /\ at'[v] \notin {"undo", "undoErr", "unreserve", "unmark"}
            /\ at'[v] = "working" => marker = "fresh"
            /\ at'[v] = "retake" => licensed /\ marker = "none"
            /\ at'[v] = "complete" => licensed /\ marker = "fresh"
      BY <3>2 DEF RowsTell
    <3>5. \A u, v \in Workers : at'[u] \in Owning /\ at'[v] \in Owning => u = v
      <4> SUFFICES ASSUME NEW u \in Workers, NEW v \in Workers,
                          at'[u] \in Owning, at'[v] \in Owning
                   PROVE  u = v
        OBVIOUS
      <4>1. at[u] \in Owning /\ at[v] \in Owning
        BY <3>1
      <4> QED
        BY <4>1 DEF RowsTell
    <3>6. reservation => licensed \/ \E v \in Workers : at'[v] \in Begetting
      BY <3>7 DEF RowsTell
    <3> QED
      BY <2>1, <3>3, <3>4, <3>5, <3>6 DEF RowsTell
  <2>5. CASE at[w] # "dropOrphan"
    <3>1. at'[w] = "error" /\ at[w] \notin Begetting
      BY <1>6, <2>1, <2>2, <2>5 DEF Begetting
    <3> QED
      BY <2>1, <2>3, <3>1 DEF RowsTell, Owning, Begetting
  <2> QED
    BY <2>4, <2>5
<1>7. ASSUME NEW w \in Workers PROVE ~ (InsertFailsTransiently(w) /\ at'[w] # "unreserve")
  BY <1>a DEF InsertFailsTransiently
<1> QED
  BY <1>1, <1>2, <1>3, <1>4, <1>5, <1>6, <1>7 DEF CallersNext, Work, Pursue, Suffer

-----------------------------------------------------------------------------
(* Alone: a reservation without marker or license is one whose owner is at *)
(* work on it.                                                             *)
Fragile == {"dropOrphan", "mark", "undo", "undoErr", "retake"}

RowsAlone ==
  /\ \A v, w \in Workers : pc[v] # "idle" /\ pc[w] # "idle" => v = w
  /\ \A w \in Workers : at[w] = "unmark" => ~ reservation
  /\ reservation /\ marker = "none" /\ ~ licensed => \E w \in Workers : at[w] \in Fragile

(* The only caller that is not idle takes a step, ... *)
LEMMA OneMoves ==
  ASSUME TypeOK, Places, RowsAlone, NEW w \in Workers,
         \A v \in Workers \ {w} : pc[v] = "idle",
         \A v \in Workers \ {w} : pc'[v] = pc[v] /\ at'[v] = at[v],
         at'[w] = "unmark" => ~ reservation',
         reservation' /\ marker' = "none" /\ ~ licensed' => at'[w] \in Fragile
  PROVE  RowsAlone'
<1>1. \A v \in Workers \ {w} : pc'[v] = "idle" /\ at'[v] = "idle"
  BY DEF Places
<1> QED
  BY <1>1 DEF RowsAlone

(* ... at a statement of its claim, ... *)
LEMMA StatementAlone ==
  ASSUME Recoverable, TypeOK, Places, RowsAlone, NEW w \in Workers, UNCHANGED licensed,
         \A v \in Workers \ {w} : pc[v] = "idle",
         Claim!Statement(w, licensed) \/ Claim!StatementFails(w)
  PROVE  /\ at'[w] = "unmark" => ~ reservation'
         /\ reservation' /\ marker' = "none" /\ ~ licensed' => at'[w] \in Fragile
<1> USE DEF Claim!Goto
<1>1. /\ at \in [Workers -> Claim!Labels] /\ reservation \in BOOLEAN
      /\ at[w] = "unmark" => ~ reservation
  BY DEF TypeOK, RowsAlone
<1>2. reservation /\ marker = "none" /\ ~ licensed => at[w] \in Fragile
  BY DEF RowsAlone, Places, Fragile
<1>3. at[w] = "complete" => licensed
  BY DEF Places, Mailing
<1>4. CASE Claim!InsertReservation(w) \/ Claim!DropOrphan(w) \/ Claim!InsertMarker(w)
  BY <1>1, <1>2, <1>4 DEF Claim!InsertReservation, Claim!DropOrphan, Claim!InsertMarker, Fragile
<1>5. CASE Claim!UndoReservation(w) \/ Claim!LookForMarker(w) \/ Claim!Consult(w, licensed)
  BY <1>1, <1>2, <1>5 DEF Claim!UndoReservation, Claim!LookForMarker, Claim!Consult, Fragile
<1>6. CASE Claim!ReleaseStale(w) \/ Claim!Retake(w) \/ Claim!Complete(w)
  BY <1>1, <1>2, <1>3, <1>6 DEF Claim!ReleaseStale, Claim!Retake, Claim!Complete, Fragile
<1>7. CASE Claim!ReleaseReservation(w) \/ Claim!ReleaseMarker(w)
  BY <1>1, <1>7 DEF Claim!ReleaseReservation, Claim!ReleaseMarker
<1>8. CASE Claim!StatementFails(w)
  <2>1. /\ at[w] \notin {"undo", "undoErr", "retake"}
        /\ at'[w] = Claim!AfterFailure(at[w])
        /\ UNCHANGED <<reservation, marker, licensed>>
    BY <1>1, <1>8 DEF Claim!StatementFails, Recoverable
  <2>2. at'[w] = IF at[w] = "dropOrphan" THEN "mark" ELSE IF at[w] = "mark" THEN "undoErr" ELSE "error"
    BY <2>1 DEF Claim!AfterFailure
  <2> QED
    BY <1>2, <2>1, <2>2 DEF Fragile
<1> QED
  BY <1>4, <1>5, <1>6, <1>7, <1>8 DEF Claim!Statement

(* ... or elsewhere. *)
LEMMA ElsewhereAlone ==
  ASSUME Recoverable, TypeOK, Places, RowsAlone, NEW w \in Workers,
         \A v \in Workers \ {w} : pc[v] = "idle",
         UNCHANGED reservation, marker' = marker, licensed => licensed',
         at' = at \/ at'[w] # "unmark",
         at' = at \/ at[w] \notin Fragile \/ licensed'
  PROVE  /\ at'[w] = "unmark" => ~ reservation'
         /\ reservation' /\ marker' = "none" /\ ~ licensed' => at'[w] \in Fragile
<1>1. reservation /\ marker = "none" /\ ~ licensed => at[w] \in Fragile
  BY DEF RowsAlone, Places, Fragile
<1> QED
  BY <1>1 DEF TypeOK, RowsAlone

(* A caller's step leaves the other callers where they are. *)
LEMMA OthersStay ==
  ASSUME TypeOK, NEW w \in Workers,
         \/ Deliver(w) \/ VisitSuccessPage(w) \/ ScanRecent(w) \/ ScanPending(w)
         \/ Fulfil(w) \/ Answer(w) \/ Faulty(w)
  PROVE  \A v \in Workers \ {w} : pc'[v] = pc[v] /\ at'[v] = at[v]
<1> USE DEF Goto, claim
<1>1. CASE Deliver(w) \/ VisitSuccessPage(w) \/ ScanRecent(w) \/ ScanPending(w)
  BY <1>1 DEF TypeOK, Deliver, VisitSuccessPage, ScanRecent, ScanPending, Start
<1>2. CASE Answer(w)
  BY <1>2 DEF TypeOK, Answer, ReturnFulfilled, ReturnUnfulfilled, RecordPending, DropPending, Finish
<1>3. CASE ClaimStatement(w) \/ ClaimStatementFails(w)
  BY <1>3, StatementMoves, StatementFailureMoves DEF TypeOK, ClaimStatement, ClaimStatementFails
<1>4. CASE StepFails(w) \/ Crash(w)
  BY <1>4 DEF TypeOK, StepFails, Crash
<1>5. CASE ReadLicense(w) \/ ReadReservation(w) \/ ReadMarker(w) \/ LookupRefused(w)
  BY <1>5 DEF TypeOK, ReadLicense, ReadReservation, ReadMarker, LookupRefused, Advance
<1>6. CASE Lookup(w) \/ InsertLicense(w) \/ InsertFailsTransiently(w)
  BY <1>6 DEF TypeOK, Lookup, InsertLicense, InsertFailsTransiently
<1>7. CASE ClaimRefused(w) \/ InsertConflicts(w) \/ Completed(w)
  BY <1>7 DEF TypeOK, ClaimRefused, InsertConflicts, Completed, LeaveClaim
<1>8. CASE ClearPending(w) \/ MailLicense(w)
  BY <1>8 DEF TypeOK, ClearPending, MailLicense
<1> QED
  BY <1>1, <1>2, <1>3, <1>4, <1>5, <1>6, <1>7, <1>8 DEF Fulfil, Faulty

(* Alone, every step keeps what the rows tell. *)
LEMMA AloneTells ==
  ASSUME Recoverable, TypeOK, Places, RowsAlone, setting = "alone", [CallersNext]_callersVars
  PROVE  RowsAlone'
<1>1. CASE Stripe \/ SweepPending \/ UNCHANGED callersVars
  BY <1>1 DEF Stripe, SweepPending, callersVars, vars, claim, RowsAlone, Fragile
<1>2. CASE TimePasses
  BY <1>2 DEF TimePasses, Claim!MarkerAges, RowsAlone, Fragile
<1>3. ASSUME NEW w \in Workers, \A v \in Workers \ {w} : pc[v] = "idle",
             \/ Deliver(w) \/ VisitSuccessPage(w) \/ ScanRecent(w) \/ ScanPending(w)
             \/ Fulfil(w) \/ Answer(w) \/ Faulty(w)
      PROVE  RowsAlone'
  <2>1. CASE ClaimStatement(w) \/ ClaimStatementFails(w)
    <3>1. UNCHANGED licensed /\ (Claim!Statement(w, licensed) \/ Claim!StatementFails(w))
      BY <2>1 DEF ClaimStatement, ClaimStatementFails
    <3> QED
      BY <1>3, <3>1, StatementAlone, OthersStay, OneMoves
  <2>2. CASE ~ ClaimStatement(w) /\ ~ ClaimStatementFails(w)
    <3>1. /\ UNCHANGED <<reservation, marker>> /\ (licensed => licensed')
          /\ at' = at \/ at'[w] # "unmark"
          /\ at' = at \/ at[w] \notin Fragile \/ licensed'
      <4>1. CASE InsertLicense(w) \/ InsertFailsTransiently(w)
        BY <4>1 DEF TypeOK, InsertLicense, InsertFailsTransiently, Fragile
      <4>2. CASE Crash(w)
        BY <4>2 DEF TypeOK, Places, Crash, Recoverable, Fragile, claim, stripe
      <4>3. CASE ~ InsertLicense(w) /\ ~ InsertFailsTransiently(w) /\ ~ Crash(w)
        BY <1>3, <2>2, <4>3, WorkOutside DEF TypeOK, Faulty, Fragile
      <4> QED
        BY <4>1, <4>2, <4>3
    <3> QED
      BY <1>3, <3>1, ElsewhereAlone, OthersStay, OneMoves
  <2> QED
    BY <2>1, <2>2
<1> QED
  BY <1>1, <1>2, <1>3 DEF CallersNext, Work, MayStep, Pursue, Suffer, Faulty

-----------------------------------------------------------------------------
(* What the callers know.                                                  *)

(* The session has its license, or, together, a reservation that will.     *)
Promised == licensed \/ (setting = "together" /\ reservation)

Completions == {"completed_unpaid", "completed_paid"}

Kept ==
  /\ \A w \in Workers :
       /\ pc[w] \in {"ok", "dropPending"} => Promised
       /\ pc[w] \in {"marker1", "marker2"} => reservation
       /\ pc[w] = "dropFailed" => payment = "failed"
  /\ payment \in {"unpaid", "paid"} =>
       Promised \/ pending \/ outstanding \cap Completions # {}
  /\ "async_failed" \in outstanding => payment = "failed"

CallersInv ==
  /\ TypeOK /\ Places /\ Kept
  /\ setting \in Settings
  /\ setting = "together" => RowsTell
  /\ setting = "alone" => RowsAlone

(* A license stays, and so does a promise; a reservation that a caller has *)
(* read is still there when it reads the marker.                           *)
LEMMA PromisesStay ==
  ASSUME Recoverable, CallersInv, [CallersNext]_callersVars
  PROVE  /\ setting' = setting /\ (licensed => licensed')
         /\ Promised => Promised'
         /\ \A w \in Workers : pc[w] \in {"marker1", "marker2"} => reservation'
<1>1. setting' = setting
  BY DEF CallersNext, callersVars
<1>2. licensed => licensed'
  <2>1. ASSUME NEW w \in Workers, Fulfil(w) \/ Answer(w) \/ Faulty(w) PROVE licensed => licensed'
    BY <2>1 DEF Fulfil, Answer, Faulty, ReadLicense, ReadReservation, ReadMarker, Lookup,
      LookupRefused, Advance, ClaimStatement, ClaimRefused, LeaveClaim, InsertLicense,
      InsertConflicts, InsertFailsTransiently, Completed, ClearPending, MailLicense,
      ReturnFulfilled, ReturnUnfulfilled, RecordPending, DropPending, Finish,
      ClaimStatementFails, StepFails, Crash
  <2> QED
    BY <2>1 DEF CallersNext, Work, Pursue, Suffer, Faulty, Stripe, TimePasses, SweepPending,
      Deliver, VisitSuccessPage, ScanRecent, ScanPending, Start, callersVars, vars
<1>3. CASE setting = "together"
  BY <1>1, <1>2, <1>3, TogetherTells DEF CallersInv, Promised, Kept
<1>4. CASE setting = "alone"
  <2>1. ASSUME NEW w \in Workers, Fulfil(w) \/ Answer(w) \/ Faulty(w)
        PROVE  reservation' = reservation \/ at[w] # "idle"
    BY <2>1, StatementMoves DEF Fulfil, Answer, Faulty, ReadLicense, ReadReservation, ReadMarker,
      Lookup, LookupRefused, Advance, ClaimStatement, ClaimRefused, LeaveClaim, InsertLicense,
      InsertConflicts, InsertFailsTransiently, Completed, ClearPending, MailLicense,
      ReturnFulfilled, ReturnUnfulfilled, RecordPending, DropPending, Finish,
      ClaimStatementFails, Claim!StatementFails, StepFails, Crash, claim, CallersInv
  <2>2. reservation' = reservation \/ \E w \in Workers : at[w] # "idle"
    BY <2>1 DEF CallersNext, Work, Pursue, Suffer, Faulty, Stripe, TimePasses, SweepPending,
      Deliver, VisitSuccessPage, ScanRecent, ScanPending, Start, callersVars, vars, claim,
      Claim!MarkerAges
  <2>3. ASSUME NEW w \in Workers, pc[w] \in {"marker1", "marker2"} PROVE reservation'
    <3>1. reservation /\ \A v \in Workers : at[v] = "idle"
      BY <1>4, <2>3 DEF CallersInv, Kept, RowsAlone, Places
    <3> QED
      BY <2>2, <3>1
  <2> QED
    BY <1>1, <1>2, <1>4, <2>3 DEF Promised
<1> QED
  BY <1>3, <1>4 DEF CallersInv, Settings

(* Who reads that the marker is gone may say the session is fulfilled. *)
LEMMA MarkerTells ==
  ASSUME CallersInv, NEW w \in Workers, pc[w] \in {"marker1", "marker2"}, marker = "none"
  PROVE  Promised
<1>1. reservation /\ at[w] = "idle"
  BY DEF CallersInv, Kept, Places
<1>2. CASE setting = "alone"
  <2>1. \A v \in Workers : at[v] = "idle"
    BY <1>2 DEF CallersInv, RowsAlone, Places
  <2> QED
    BY <1>1, <1>2, <2>1 DEF CallersInv, RowsAlone, Promised, Fragile
<1> QED
  BY <1>1, <1>2 DEF CallersInv, Settings, Promised

(* What a caller may do to the pending marker, to Stripe's events and to   *)
(* itself: it stops only with a promise, or when the payment has failed.   *)
LEMMA WorkerKeeps ==
  ASSUME Recoverable, CallersInv, Promised => Promised', licensed => licensed',
         pc' \in [Workers -> Steps], NEW w \in Workers,
         \/ Deliver(w) \/ VisitSuccessPage(w) \/ ScanRecent(w) \/ ScanPending(w)
         \/ Fulfil(w) \/ Answer(w) \/ Faulty(w)
  PROVE  /\ payment' = payment /\ outstanding' \subseteq outstanding
         /\ pc'[w] \in {"ok", "dropPending"} => Promised'
         /\ pc'[w] \in {"marker1", "marker2"} /\ pc'[w] # pc[w] => reservation'
         /\ pc'[w] = "dropFailed" => payment = "failed"
         /\ pending => pending' \/ Promised' \/ payment = "failed"
         /\ outstanding' # outstanding => pending' \/ Promised' \/ payment = "failed"
<1> USE DEF Goto, claim, stripe
<1>a. /\ pc \in [Workers -> Steps] /\ job \in [Workers -> Jobs]
      /\ pc[w] \in {"ok", "dropPending"} => Promised
      /\ pc[w] = "dropFailed" => payment = "failed"
      /\ "async_failed" \in outstanding => payment = "failed"
  BY DEF CallersInv, TypeOK, Kept
<1>b. pc[w] \in {"finish", "unpend", "mail"} => licensed
  BY DEF CallersInv, Places, Mailing
<1>c. licensed => Promised'
  BY DEF Promised
<1>1. CASE Deliver(w) \/ VisitSuccessPage(w) \/ ScanRecent(w) \/ ScanPending(w)
  BY <1>1, <1>a DEF Deliver, VisitSuccessPage, ScanRecent, ScanPending, Start
<1>2. CASE Answer(w)
  BY <1>2, <1>a DEF Answer, ReturnFulfilled, ReturnUnfulfilled, RecordPending, DropPending, Finish
<1>3. CASE ClaimStatement(w) \/ ClaimStatementFails(w)
  BY <1>3, <1>a DEF ClaimStatement, ClaimStatementFails
<1>4. CASE StepFails(w) \/ Crash(w)
  BY <1>4, <1>a, <1>b, <1>c DEF StepFails, Crash, Checks
<1>5. CASE ReadLicense(w) \/ ReadReservation(w) \/ LookupRefused(w)
  BY <1>5, <1>a, <1>c DEF ReadLicense, ReadReservation, LookupRefused, Advance, CallersInv, TypeOK
<1>6. CASE ReadMarker(w)
  BY <1>6, <1>a, MarkerTells DEF ReadMarker, Advance
<1>7. CASE Lookup(w) \/ InsertLicense(w) \/ InsertFailsTransiently(w)
  BY <1>7, <1>a DEF Lookup, InsertLicense, InsertFailsTransiently
<1>8. CASE ClaimRefused(w) \/ InsertConflicts(w) \/ Completed(w)
  BY <1>8, <1>a, <1>c DEF ClaimRefused, InsertConflicts, Completed, LeaveClaim
<1>9. CASE ClearPending(w) \/ MailLicense(w)
  BY <1>9, <1>a, <1>b, <1>c DEF ClearPending, MailLicense
<1> QED
  BY <1>1, <1>2, <1>3, <1>4, <1>5, <1>6, <1>7, <1>8, <1>9 DEF Fulfil, Faulty

(* What the callers know stays true. *)
LEMMA KeptKept ==
  ASSUME Recoverable, CallersInv, TypeOK', [CallersNext]_callersVars
  PROVE  Kept'
<1>1. /\ setting' = setting /\ (licensed => licensed')
      /\ Promised => Promised'
      /\ \A w \in Workers : pc[w] \in {"marker1", "marker2"} => reservation'
  BY PromisesStay
<1>2. CASE Stripe
  <2>1. UNCHANGED <<pending, pc>>
    BY <1>2 DEF Stripe
  <2>2. /\ payment' \in {"unpaid", "paid"} =>
             Promised \/ pending \/ outstanding' \cap Completions # {}
        /\ "async_failed" \in outstanding' => payment' = "failed"
        /\ payment = "failed" => payment' = "failed"
    BY <1>2 DEF CallersInv, Kept, Completions, Recoverable, Stripe, CompletePaid, CompleteUnpaid,
      DelayedPaymentSettles, DelayedPaymentFails, EventLost, LeavesRecentWindow
  <2> QED
    BY <1>1, <2>1, <2>2 DEF CallersInv, Kept
<1>3. CASE TimePasses \/ SweepPending \/ UNCHANGED callersVars
  BY <1>1, <1>3 DEF TimePasses, SweepPending, callersVars, vars, stripe, CallersInv, Kept, Promised
<1>4. ASSUME NEW w \in Workers,
             \/ Deliver(w) \/ VisitSuccessPage(w) \/ ScanRecent(w) \/ ScanPending(w)
             \/ Fulfil(w) \/ Answer(w) \/ Faulty(w)
      PROVE  Kept'
  <2>1. pc' \in [Workers -> Steps]
    BY DEF TypeOK
  <2>2. /\ payment' = payment /\ outstanding' \subseteq outstanding
        /\ pc'[w] \in {"ok", "dropPending"} => Promised'
        /\ pc'[w] \in {"marker1", "marker2"} /\ pc'[w] # pc[w] => reservation'
        /\ pc'[w] = "dropFailed" => payment = "failed"
        /\ pending => pending' \/ Promised' \/ payment = "failed"
        /\ outstanding' # outstanding => pending' \/ Promised' \/ payment = "failed"
    BY <1>1, <1>4, <2>1, WorkerKeeps
  <2>3. \A v \in Workers \ {w} : pc'[v] = pc[v]
    BY <1>4, OthersStay DEF CallersInv
  <2> QED
    BY <1>1, <2>2, <2>3 DEF CallersInv, Kept
<1> QED
  BY <1>2, <1>3, <1>4 DEF CallersNext, Work, Pursue, Suffer, Faulty

(* The invariant of the callers: the types, the places, what the rows tell *)
(* in the setting at hand, and what the callers know.                      *)
LEMMA CallersInvariant == ASSUME Recoverable PROVE CallersSpec => []CallersInv
<1>1. CallersInit => CallersInv
  <2> SUFFICES ASSUME CallersInit PROVE CallersInv
    OBVIOUS
  <2>1. TypeOK
    BY DEF CallersInit, Init, TypeOK, Steps, Jobs, Claim!Labels
  <2>2. Places /\ RowsTell /\ RowsAlone /\ Kept
    BY DEF CallersInit, Init, Places, Kept, RowsTell, RowsAlone, Mailing, Owning
  <2> QED
    BY <2>1, <2>2 DEF CallersInit, CallersInv
<1>2. CallersInv /\ TypeOK' /\ [CallersNext]_callersVars => CallersInv'
  <2> SUFFICES ASSUME CallersInv, TypeOK', [CallersNext]_callersVars PROVE CallersInv'
    OBVIOUS
  <2>1. Places'
    <3>1. [Next]_vars
      BY DEF CallersNext, callersVars, Work, Pursue, Suffer, Next, Faulty
    <3> QED
      BY <3>1, PlacesKept DEF CallersInv
  <2>2. setting' = setting
    BY PromisesStay
  <2>3. setting = "together" => RowsTell'
    BY TogetherTells DEF CallersInv
  <2>4. setting = "alone" => RowsAlone'
    BY AloneTells DEF CallersInv
  <2> QED
    BY <2>1, <2>2, <2>3, <2>4, KeptKept DEF CallersInv
<1>3. CallersSpec => []TypeOK
  BY CallersAreCheckout, TypeCorrect, PTL
<1> QED
  BY <1>1, <1>2, <1>3, PTL DEF CallersSpec

-----------------------------------------------------------------------------
(* With a promise there is a license, or a caller that will insert it. *)
LEMMA PromiseIsWork == CallersInv /\ Promised => licensed \/ \E w \in OnIt : pc[w] # "idle"
<1> SUFFICES ASSUME CallersInv, Promised, ~ licensed PROVE \E w \in OnIt : pc[w] # "idle"
  OBVIOUS
<1>1. PICK w \in Workers : at[w] \in Begetting
  BY DEF CallersInv, Promised, RowsTell
<1>2. w \in OnIt
  BY <1>1 DEF OnIt, Begetting, Claim!Claiming
<1>3. pc[w] # "idle"
  BY <1>1 DEF CallersInv, Places, Begetting
<1> QED
  BY <1>2, <1>3

(* "Fulfilled" is only reported for a session with a license, or one that  *)
(* another caller is about to license (fulfillCheckout's result), however  *)
(* many callers there are and whatever fails within Recoverable.           *)
THEOREM OkIsTrue == ASSUME Recoverable PROVE CallersSpec => []OkMeansTaken
<1>1. CallersInv => OkMeansTaken
  BY PromiseIsWork DEF CallersInv, Kept, OkMeansTaken
<1> QED
  BY <1>1, CallersInvariant, PTL

(* A paid session without a license is never forgotten: it has its pending *)
(* marker, an event that Stripe still delivers, or a caller at work        *)
(* (stripe.go:487-494, 820-824).                                           *)
THEOREM PaidIsRemembered == ASSUME Recoverable PROVE CallersSpec => []NeverForgotten
<1>1. CallersInv => NeverForgotten
  <2> SUFFICES ASSUME CallersInv, payment = "paid", ~ licensed, ~ pending,
                      outstanding \ {"async_failed"} = {}
               PROVE  \E w \in Workers : pc[w] # "idle"
    BY DEF NeverForgotten
  <2>1. Promised
    BY DEF CallersInv, Kept, Completions
  <2> QED
    BY <2>1, PromiseIsWork DEF OnIt
<1> QED
  BY <1>1, CallersInvariant, PTL

(* The pending marker is only dropped for a session that is licensed, or   *)
(* about to be, or whose payment failed (syncPendingSession,               *)
(* DeleteFulfilledPendingSessions, onAsyncPaymentFailed).                  *)
THEOREM PendingIsKept == ASSUME Recoverable PROVE CallersSpec => PendingDroppedLate
<1>1. CallersInv /\ [CallersNext]_callersVars =>
        [pending /\ ~pending' => licensed \/ OnIt # {} \/ payment = "failed"]_vars
  <2> SUFFICES ASSUME CallersInv, [CallersNext]_callersVars, pending, ~ pending',
                      payment # "failed"
               PROVE  licensed \/ OnIt # {}
    OBVIOUS
  <2>1. CASE SweepPending
    BY <2>1 DEF SweepPending
  <2>2. CASE Stripe \/ TimePasses \/ UNCHANGED callersVars
    BY <2>2 DEF Stripe, TimePasses, callersVars, vars
  <2>3. ASSUME NEW w \in Workers,
               \/ Deliver(w) \/ VisitSuccessPage(w) \/ ScanRecent(w) \/ ScanPending(w)
               \/ Fulfil(w) \/ Answer(w) \/ Faulty(w)
        PROVE  pc[w] = "unpend" \/ pc[w] = "dropPending" \/ pc[w] = "dropFailed"
    BY <2>3 DEF Deliver, VisitSuccessPage, ScanRecent, ScanPending, Start, Fulfil, Answer, Faulty,
      ReadLicense, ReadReservation, ReadMarker, Lookup, LookupRefused, Advance, ClaimStatement,
      ClaimRefused, LeaveClaim, InsertLicense, InsertConflicts, InsertFailsTransiently, Completed,
      ClearPending, MailLicense, ReturnFulfilled, ReturnUnfulfilled, RecordPending, DropPending,
      Finish, ClaimStatementFails, StepFails, Crash
  <2>4. ASSUME NEW w \in Workers, pc[w] \in {"unpend", "dropPending", "dropFailed"}
        PROVE  licensed \/ OnIt # {}
    BY <2>4, PromiseIsWork DEF CallersInv, Kept, Places, Mailing
  <2> QED
    BY <2>1, <2>2, <2>3, <2>4 DEF CallersNext, Work, Pursue, Suffer, Faulty
<1> QED
  BY <1>1, CallersInvariant, PTL DEF CallersSpec, PendingDroppedLate

=============================================================================
