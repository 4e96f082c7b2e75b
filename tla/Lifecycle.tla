------------------------------ MODULE Lifecycle ------------------------------
(***************************************************************************)
(* The row of one Stripe-billed license and of its subscription, as Stripe *)
(* events, the customer, administrators and the hourly expiry checker      *)
(* change it (internal/payment/stripe.go, internal/service/expiry.go,      *)
(* internal/store).  All of them read the license, decide on what they     *)
(* read, and write some columns back: nothing locks the row in between.    *)
(*                                                                         *)
(* Time is counted in days.  Stripe may deliver any event with any payload *)
(* at any time: events are neither ordered nor tied to one another.        *)
(***************************************************************************)
EXTENDS Integers

CONSTANTS
  Handlers,       \* webhook deliveries, customer and administrator requests
  Checkers,       \* expiry passes: one loop per replica, and on demand
  Inputs,         \* the events and requests that occur
  Ends,           \* period ends Stripe may report (days)
  GraceDays,      \* of the plan
  First, Second, Final,  \* the dunning ladder (1, 7 and 14 days)
  PastDueTimeout,        \* 30 days
  HandlersSpanDays,      \* a day may pass while a handler works on the row
  LastEventDay, LastDay, \* bounds: of events, of the calendar
  MayCrash,              \* processes may die between two steps
  MaxFaults              \* bound: failed writes and crashes

VARIABLES
  day,
  lic,            \* status, valid_until and past_due_at of the license
  sub,            \* status of the subscriptions row
  notes,          \* tags of the notifications rows
  mails,          \* history: how often each tagged mail was sent
  healthy,        \* history: the last day the license was active
  job,            \* of each worker: what it does next
  seen,           \* of each worker: status and past_due_at as it read them
  tag,            \* of each worker: the notification it deals with
  faults

rows == <<lic, sub, healthy>>
mine == <<job, seen, tag>>
vars == <<day, rows, notes, mails, mine, faults>>

Workers  == Handlers \cup Checkers
None     == -1
Days     == 0..LastDay
Statuses == {"active", "trialing", "past_due", "canceled", "expired", "suspended", "revoked"}
Row      == [status : Statuses, until : Days \cup {None}, dueAt : Days \cup {None}]

Events   == {"invoice.paid", "subscription.updated", "subscription.deleted",
             "payment_failed", "charge.refunded", "subscription.paused",
             "subscription.resumed"}
Requests == {"refund", "cancel_now", "cancel_later"}
Admin    == {"revoke", "suspend", "reinstate"}
Pass     == {"grace", "trials", "pastDue", "dunning", "sync"}
Expiring == {"expireGrace", "expireTrial", "expirePastDue"}
Mailing  == {"check", "send", "record"}
Jobs     == {"idle", "mirror"} \cup Events \cup Requests \cup Pass \cup Expiring \cup Mailing

Tiers    == {"dunning_first", "dunning_second", "dunning_final"}
Tags     == (Tiers \X Days) \cup ({"recovered"} \X (Days \cup {None}))
NoTag    == <<"none", None>>
Read     == [status : Statuses, dueAt : Days \cup {None}]
Unread   == [status |-> "active", dueAt |-> None]

ASSUME LifecycleConstantsOK ==
  /\ Handlers \cap Checkers = {}
  /\ Inputs \subseteq Events \cup Requests \cup Admin
  /\ LastDay \in Nat /\ LastEventDay \in Nat
  /\ Ends \subseteq Days
  /\ GraceDays \in Nat /\ MaxFaults \in Nat
  /\ First \in Nat /\ Second \in Nat /\ Final \in Nat /\ PastDueTimeout \in Nat
  /\ First < Second /\ Second < Final /\ Final <= PastDueTimeout
  /\ HandlersSpanDays \in BOOLEAN /\ MayCrash \in BOOLEAN

TypeOK ==
  /\ day \in Days
  /\ lic \in Row
  /\ sub \in Statuses
  /\ notes \subseteq Tags
  /\ mails \in [Tags -> Nat]
  /\ healthy \in Days
  /\ job \in [Workers -> Jobs]
  /\ seen \in [Workers -> Read]
  /\ tag \in [Workers -> Tags \cup {NoTag}]
  /\ faults \in Nat

-----------------------------------------------------------------------------
(* Reading and writing the rows *)

Goto(w, j) == job' = [job EXCEPT ![w] = j]

Finish(w) ==
  /\ Goto(w, "idle")
  /\ seen' = [seen EXCEPT ![w] = Unread]
  /\ tag' = [tag EXCEPT ![w] = NoTag]

(* What a worker does after its write: an expiry pass goes on. *)
Resume(w, stage) ==
  IF w \in Checkers
    THEN /\ Goto(w, stage)
         /\ seen' = [seen EXCEPT ![w] = Unread]
         /\ tag' = [tag EXCEPT ![w] = NoTag]
    ELSE Finish(w)

Fault == faults < MaxFaults /\ faults' = faults + 1

(* UPDATE of the license, alone (UpdateLicense). *)
WriteLicense(row) ==
  /\ lic' = row
  /\ healthy' = IF row.status = "active" THEN day ELSE healthy

(* Mutant: the subscription is left alone. *)
Save_LicenseOnly(row) ==
  WriteLicense(row) /\ UNCHANGED <<sub, faults>>

(* UpdateLicenseAndSubscription: one transaction.  Most handlers ignore its *)
(* error and go on.                                                        *)
Save(row) ==
  \/ /\ WriteLicense(row)
     /\ sub' = row.status
     /\ UNCHANGED faults
  \/ Fault /\ UNCHANGED rows

-----------------------------------------------------------------------------
(* Stripe events *)

(* A delivery, or a request, reads the license. *)
Load(h) ==
  /\ job[h] = "idle" /\ day <= LastEventDay
  /\ \E j \in Inputs \cap (Events \cup Requests) : Goto(h, j)
  /\ seen' = [seen EXCEPT ![h] = [status |-> lic.status, dueAt |-> lic.dueAt]]
  /\ UNCHANGED <<day, rows, notes, mails, tag, faults>>

(* The payment-recovered mail is tagged with the episode that was read. *)
AfterUpdate(h, recovered) ==
  IF recovered
    THEN /\ Goto(h, "check")
         /\ tag' = [tag EXCEPT ![h] = <<"recovered", seen[h].dueAt>>]
         /\ UNCHANGED seen
    ELSE Finish(h)

(* Mutant: a paid invoice leaves the dunning clock running. *)
InvoicePaid_KeepsClock(h) ==
  /\ job[h] = "invoice.paid"
  /\ \E end \in Ends : Save([lic EXCEPT !.status = "active", !.until = end])
  /\ AfterUpdate(h, seen[h].status = "past_due")
  /\ UNCHANGED <<day, notes, mails>>

InvoicePaid(h) ==
  /\ job[h] = "invoice.paid"
  /\ \E end \in Ends :
       Save([status |-> "active", until |-> end, dueAt |-> None])
  /\ AfterUpdate(h, seen[h].status = "past_due")
  /\ UNCHANGED <<day, notes, mails>>

(* Mutant: entering past_due does not start the dunning clock. *)
Reported_NoClock(old, status) ==
  CASE status = "active"   -> [status |-> "active", dueAt |-> None]
    [] status = "past_due" -> [status |-> "past_due", dueAt |-> old.dueAt]
    [] status = "canceled" -> [status |-> "canceled", dueAt |-> None]
    [] status = "trialing" -> [status |-> "trialing", dueAt |-> old.dueAt]
    [] OTHER               -> [status |-> old.status, dueAt |-> old.dueAt]

(* The switch on the subscription's status: what it makes of the license   *)
(* that was read.  Stripe's other statuses (incomplete, ...) fall through. *)
Reported(old, status) ==
  CASE status = "active"   -> [status |-> "active", dueAt |-> None]
    [] status = "past_due" -> [status |-> "past_due",
                               dueAt |-> IF old.dueAt = None THEN day ELSE old.dueAt]
    [] status = "canceled" -> [status |-> "canceled", dueAt |-> None]
    [] status = "trialing" -> [status |-> "trialing", dueAt |-> old.dueAt]
    [] OTHER               -> [status |-> old.status, dueAt |-> old.dueAt]

(* The payload's period end moves valid_until, when there is one. *)
SubscriptionUpdated(h) ==
  /\ job[h] = "subscription.updated"
  /\ \E status \in {"active", "past_due", "canceled", "trialing", "other"},
        end \in Ends \cup {None} :
       LET new == Reported(seen[h], status)
       IN  /\ Save([status |-> new.status, dueAt |-> new.dueAt,
                    until |-> IF end = None THEN lic.until ELSE end])
           /\ AfterUpdate(h, seen[h].status = "past_due" /\ new.status = "active")
  /\ UNCHANGED <<day, notes, mails>>

(* Mutant: the name of the event for the status. *)
SubscriptionDeleted_Deleted(h) ==
  /\ job[h] = "subscription.deleted"
  /\ Save([lic EXCEPT !.status = "deleted", !.dueAt = None])
  /\ Finish(h)
  /\ UNCHANGED <<day, notes, mails>>

SubscriptionDeleted(h) ==
  /\ job[h] = "subscription.deleted"
  /\ Save([lic EXCEPT !.status = "canceled", !.dueAt = None])
  /\ Finish(h)
  /\ UNCHANGED <<day, notes, mails>>

PaymentFailed(h) ==
  /\ job[h] = "payment_failed"
  /\ IF seen[h].status = "active"
       THEN Save([lic EXCEPT !.status = "past_due", !.dueAt = day])
       ELSE UNCHANGED <<rows, faults>>
  /\ Finish(h)
  /\ UNCHANGED <<day, notes, mails>>

(* A full refund; the admin's RefundLicense revokes whatever it read. *)
Refunded(h) ==
  /\ job[h] \in {"charge.refunded", "refund"}
  /\ IF job[h] = "charge.refunded" /\ seen[h].status = "revoked"
       THEN UNCHANGED <<rows, faults>>
       ELSE Save([lic EXCEPT !.status = "revoked"])
  /\ Finish(h)
  /\ UNCHANGED <<day, notes, mails>>

Paused(h) ==
  /\ job[h] = "subscription.paused"
  /\ Save([lic EXCEPT !.status = "suspended"])
  /\ Finish(h)
  /\ UNCHANGED <<day, notes, mails>>

Resumed(h) ==
  /\ job[h] = "subscription.resumed"
  /\ Save([lic EXCEPT !.status = "active"])
  /\ Finish(h)
  /\ UNCHANGED <<day, notes, mails>>

(* CancelSubscription, at once or at the period's end: the license only. *)
Canceled(h) ==
  /\ \/ /\ job[h] = "cancel_now"
        /\ WriteLicense([lic EXCEPT !.status = "canceled", !.until = day])
     \/ /\ job[h] = "cancel_later"
        /\ \E end \in Ends : WriteLicense([lic EXCEPT !.until = end])
  /\ Finish(h)
  /\ UNCHANGED <<day, sub, notes, mails, faults>>

(* Administrators: one UPDATE of the license, another of the subscription. *)
AdminWrites(h) ==
  /\ job[h] = "idle" /\ day <= LastEventDay
  /\ \E j \in Inputs \cap Admin :
       /\ j = "reinstate" => lic.status \in {"suspended", "expired", "canceled"}
       /\ LET status == CASE j = "revoke" -> "revoked" [] j = "suspend" -> "suspended"
                          [] OTHER -> "active"
          IN  /\ WriteLicense([lic EXCEPT !.status = status])
              /\ seen' = [seen EXCEPT ![h] = [Unread EXCEPT !.status = status]]
  /\ Goto(h, "mirror")
  /\ UNCHANGED <<day, sub, notes, mails, tag, faults>>

AdminMirrors(h) ==
  /\ job[h] = "mirror"
  /\ sub' = seen[h].status
  /\ Finish(h)
  /\ UNCHANGED <<day, lic, healthy, notes, mails, faults>>

-----------------------------------------------------------------------------
(* An expiry pass (RunAll): each check reads, then writes. *)

StartPass(c) ==
  /\ job[c] = "idle"
  /\ Goto(c, "grace")
  /\ UNCHANGED <<day, rows, notes, mails, seen, tag, faults>>

Scan(c, stage, found, write, next) ==
  /\ job[c] = stage
  /\ Goto(c, IF found THEN write ELSE next)
  /\ UNCHANGED <<day, rows, notes, mails, seen, tag, faults>>

ScanGrace(c) ==
  Scan(c, "grace",
       /\ lic.status \in {"active", "past_due"}
       /\ lic.until # None /\ lic.until < day /\ lic.until + GraceDays < day,
       "expireGrace", "trials")

ScanTrials(c) ==
  Scan(c, "trials",
       lic.status = "trialing" /\ lic.until # None /\ lic.until < day,
       "expireTrial", "pastDue")

(* A missing past_due_at counts from updated_at; PastDueHasClock excludes it. *)
ScanPastDue(c) ==
  Scan(c, "pastDue",
       lic.status = "past_due" /\ lic.dueAt # None /\ lic.dueAt + PastDueTimeout < day,
       "expirePastDue", "dunning")

Expire(c) ==
  /\ job[c] \in Expiring
  /\ Save([lic EXCEPT !.status = "expired"])
  /\ Resume(c, CASE job[c] = "expireGrace" -> "trials"
                 [] job[c] = "expireTrial" -> "pastDue"
                 [] OTHER -> "dunning")
  /\ UNCHANGED <<day, notes, mails>>

(* Mutant: the last step of the ladder has a window of a single day. *)
TierReached_Window(days) ==
  CASE days = Final                     -> "dunning_final"
    [] days >= Second /\ days < Final   -> "dunning_second"
    [] days >= First /\ days < Second   -> "dunning_first"
    [] OTHER                            -> "none"

(* The highest tier reached wins; one mail per pass. *)
TierReached(days) ==
  CASE days >= Final                  -> "dunning_final"
    [] days >= Second /\ days < Final -> "dunning_second"
    [] days >= First /\ days < Second -> "dunning_first"
    [] OTHER                          -> "none"

(* Mutant: when the highest tier was mailed the next lower one is tried. *)
ScanDunning_FallsThrough(c) ==
  /\ job[c] = "dunning"
  /\ LET days == day - lic.dueAt
         sent(t) == <<t, lic.dueAt>> \in notes
         tier == CASE lic.status # "past_due"  -> "none"
                   [] days >= Final /\ ~ sent("dunning_final")   -> "dunning_final"
                   [] days >= Second /\ ~ sent("dunning_second") -> "dunning_second"
                   [] days >= First /\ ~ sent("dunning_first")   -> "dunning_first"
                   [] OTHER            -> "none"
     IN  IF tier = "none"
           THEN Goto(c, "sync") /\ UNCHANGED tag
           ELSE Goto(c, "check") /\ tag' = [tag EXCEPT ![c] = <<tier, lic.dueAt>>]
  /\ UNCHANGED <<day, rows, notes, mails, seen, faults>>

ScanDunning(c) ==
  /\ job[c] = "dunning"
  /\ LET tier == IF lic.status = "past_due" /\ lic.dueAt # None
                   THEN TierReached(day - lic.dueAt) ELSE "none"
     IN  IF tier = "none"
           THEN Goto(c, "sync") /\ UNCHANGED tag
           ELSE Goto(c, "check") /\ tag' = [tag EXCEPT ![c] = <<tier, lic.dueAt>>]
  /\ UNCHANGED <<day, rows, notes, mails, seen, faults>>

(* Mutant: canceled is not among the statuses that are mirrored. *)
SyncSubscription_NotCanceled(c) ==
  /\ job[c] = "sync"
  /\ sub' = IF lic.status \in {"expired", "revoked"} THEN lic.status ELSE sub
  /\ Finish(c)
  /\ UNCHANGED <<day, lic, healthy, notes, mails, faults>>

(* SyncSubscriptionStatuses, for the terminal statuses. *)
SyncSubscription(c) ==
  /\ job[c] = "sync"
  /\ sub' = IF lic.status \in {"expired", "canceled", "revoked"} THEN lic.status ELSE sub
  /\ Finish(c)
  /\ UNCHANGED <<day, lic, healthy, notes, mails, faults>>

-----------------------------------------------------------------------------
(* Tagged mails (notifyPaymentRecovered, SendPaymentFailureReminders) *)

(* Mutant: the notifications are not consulted. *)
CheckNotification_Skipped(w) ==
  /\ job[w] = "check"
  /\ Goto(w, "send")
  /\ UNCHANGED <<day, rows, notes, mails, seen, tag, faults>>

CheckNotification(w) ==
  /\ job[w] = "check"
  /\ IF tag[w] \in notes THEN Resume(w, "sync") ELSE Goto(w, "send") /\ UNCHANGED <<seen, tag>>
  /\ UNCHANGED <<day, rows, notes, mails, faults>>

SendMail(w) ==
  /\ job[w] = "send"
  /\ mails' = [mails EXCEPT ![tag[w]] = @ + 1]
  /\ Goto(w, "record")
  /\ UNCHANGED <<day, rows, notes, seen, tag, faults>>

(* Mutant: the notification is not recorded. *)
RecordNotification_Forgets(w) ==
  /\ job[w] = "record"
  /\ Resume(w, "sync")
  /\ UNCHANGED <<day, rows, notes, mails, faults>>

RecordNotification(w) ==
  /\ job[w] = "record"
  /\ notes' = notes \cup {tag[w]}
  /\ Resume(w, "sync")
  /\ UNCHANGED <<day, rows, mails, faults>>

-----------------------------------------------------------------------------
Crash(w) ==
  /\ MayCrash /\ job[w] # "idle" /\ Fault
  /\ Finish(w)
  /\ UNCHANGED <<day, rows, notes, mails>>

NextDay ==
  /\ day < LastDay
  /\ HandlersSpanDays \/ \A h \in Handlers : job[h] = "idle"
  /\ day' = day + 1
  /\ healthy' = IF lic.status = "active" THEN day + 1 ELSE healthy
  /\ UNCHANGED <<lic, sub, notes, mails, mine, faults>>

(* A license just bought (CreateLicenseWithSubscription). *)
Init ==
  /\ day = 0
  /\ lic \in [status : {"active"}, until : {None}, dueAt : {None}]
           \cup [status : {"trialing"}, until : Ends, dueAt : {None}]
  /\ sub = lic.status
  /\ notes = {}
  /\ mails = [t \in Tags |-> 0]
  /\ healthy = 0
  /\ job = [w \in Workers |-> "idle"]
  /\ seen = [w \in Workers |-> Unread]
  /\ tag = [w \in Workers |-> NoTag]
  /\ faults = 0

Handle(h) ==
  \/ InvoicePaid(h) \/ SubscriptionUpdated(h) \/ SubscriptionDeleted(h)
  \/ PaymentFailed(h) \/ Refunded(h) \/ Paused(h) \/ Resumed(h)
  \/ Canceled(h) \/ AdminMirrors(h)

Check(c) ==
  \/ ScanGrace(c) \/ ScanTrials(c) \/ ScanPastDue(c) \/ Expire(c)
  \/ ScanDunning(c) \/ SyncSubscription(c)

Mail(w) == CheckNotification(w) \/ SendMail(w) \/ RecordNotification(w)

Next ==
  \/ NextDay
  \/ \E h \in Handlers : Load(h) \/ AdminWrites(h) \/ Handle(h)
  \/ \E c \in Checkers : StartPass(c) \/ Check(c)
  \/ \E w \in Workers : Mail(w) \/ Crash(w)

Spec == Init /\ [][Next]_vars

(* The calendar advances (strongly: it may have to wait for the handlers), *)
(* the hourly loop keeps running (a restart begins with a pass), and work  *)
(* that was started goes on.                                               *)
Fairness ==
  /\ SF_vars(NextDay)
  /\ \A c \in Checkers : WF_vars(StartPass(c)) /\ WF_vars(Check(c) \/ Mail(c))
  /\ \A h \in Handlers : WF_vars(Handle(h) \/ Mail(h))

FairSpec == Spec /\ Fairness

-----------------------------------------------------------------------------
(* Properties *)

(* Whatever interleaves, a past-due license has a dunning clock: without   *)
(* past_due_at the ladder (expiry.go:209-218) would skip it for good.      *)
PastDueHasClock == lic.status = "past_due" => lic.dueAt # None

(* The dunning clock belongs to the present episode: it is not older than  *)
(* the last day the license was active (stripe.go:1086-1099).              *)
ClockIsFresh == lic.status = "past_due" => lic.dueAt >= healthy

(* No mail of an episode goes out twice, neither the recovered mail        *)
(* (notifyPaymentRecovered, stripe.go:1132-1134) nor a rung of the ladder  *)
(* (expiry.go:199-202), except for one more with each crash.               *)
MailsOnce == \A t \in Tags : mails[t] <= 1 + faults

(* The ladder only climbs: no lower tier is mailed in an episode after a   *)
(* higher one (expiry.go:228-233).                                         *)
LadderClimbs ==
  [][\A d \in Days :
       /\ mails[<<"dunning_final", d>>] > 0 =>
            /\ mails'[<<"dunning_second", d>>] = mails[<<"dunning_second", d>>]
            /\ mails'[<<"dunning_first", d>>] = mails[<<"dunning_first", d>>]
       /\ mails[<<"dunning_second", d>>] > 0 =>
            mails'[<<"dunning_first", d>>] = mails[<<"dunning_first", d>>]]_vars

(* A license only expires when its own dates call for it: after the grace  *)
(* period, after the trial, or after the past-due timeout (expiry.go:52-53). *)
ExpiryIsDue ==
  [][lic.status # "expired" /\ lic'.status = "expired" =>
       \/ lic.status # "trialing" /\ lic.until # None /\ lic.until + GraceDays < day
       \/ lic.status = "trialing" /\ lic.until # None /\ lic.until < day
       \/ lic.status = "past_due" /\ lic.dueAt + PastDueTimeout < day]_vars

(* Whatever interleaves or fails, the two rows agree: all writers use      *)
(* UpdateLicenseAndSubscription (store.go:612-640), but a cancellation.    *)
SubscriptionFollows ==
  \/ sub = lic.status
  \/ lic.status = "canceled" /\ "cancel_now" \in Inputs

(* A cancellation that only reached the license reaches the subscription   *)
(* with a later pass (expiry.go:309-312).                                  *)
CancellationSettles ==
  lic.status = "canceled" ~> (sub = "canceled" \/ lic.status # "canceled")

(* A debtor who stays past due long enough is warned a last time, even     *)
(* when passes are missed or interrupted (expiry.go:203-205).              *)
DebtorsAreWarned ==
  lic.status = "past_due" /\ lic.dueAt + Final <= day ~>
    \/ lic.status # "past_due"
    \/ mails[<<"dunning_final", lic.dueAt>>] > 0

=============================================================================
