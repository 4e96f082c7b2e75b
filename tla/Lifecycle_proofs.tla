-------------------------- MODULE Lifecycle_proofs --------------------------
(***************************************************************************)
(* Facts about Lifecycle for any number of handlers and checkers, any set  *)
(* of inputs and any calendar.                                             *)
(***************************************************************************)
EXTENDS Lifecycle, TLAPS

(* Whoever acts on a past-due license that it read earlier has read a      *)
(* dunning clock as well: a status that falls through the switch of        *)
(* onSubscriptionUpdated writes back exactly what was read.                *)
ReadsHaveClock ==
  \A w \in Workers : seen[w].status = "past_due" => seen[w].dueAt # None

(* Whoever is about to send a mail knows which one. *)
MailsAreTagged == \A w \in Workers : job[w] \in Mailing => tag[w] \in Tags

(* The inductive invariant. *)
ClockInv == TypeOK /\ PastDueHasClock /\ ReadsHaveClock /\ MailsAreTagged

-----------------------------------------------------------------------------
(* The steps every worker ends with. *)

LEMMA NoneIsNoDay == None \notin Days
  BY LifecycleConstantsOK DEF None, Days

LEMMA FinishTypes ==
  ASSUME NEW w \in Workers, ClockInv, Finish(w)
  PROVE  /\ job' \in [Workers -> Jobs]
         /\ seen' \in [Workers -> Read]
         /\ tag' \in [Workers -> Tags \cup {NoTag}]
         /\ ReadsHaveClock'
         /\ MailsAreTagged'
  <1>1. Unread \in Read /\ Unread.status = "active"
    BY DEF Unread, Read, Statuses
  <1>2. job' \in [Workers -> Jobs]
    BY DEF Finish, Goto, ClockInv, TypeOK, Jobs
  <1>3. tag' \in [Workers -> Tags \cup {NoTag}]
    BY DEF Finish, ClockInv, TypeOK
  <1>4. seen' = [seen EXCEPT ![w] = Unread] /\ seen \in [Workers -> Read]
    BY DEF Finish, ClockInv, TypeOK
  <1>5. seen' \in [Workers -> Read]
    BY <1>1, <1>4
  <1>6. ReadsHaveClock'
    BY <1>1, <1>4 DEF ReadsHaveClock, ClockInv
  <1>7. MailsAreTagged'
    BY DEF Finish, Goto, MailsAreTagged, Mailing, ClockInv, TypeOK
  <1> QED BY <1>2, <1>3, <1>5, <1>6, <1>7

LEMMA ResumeTypes ==
  ASSUME NEW w \in Workers, NEW stage \in Jobs \ Mailing, ClockInv, Resume(w, stage)
  PROVE  /\ job' \in [Workers -> Jobs]
         /\ seen' \in [Workers -> Read]
         /\ tag' \in [Workers -> Tags \cup {NoTag}]
         /\ ReadsHaveClock'
         /\ MailsAreTagged'
  <1>1. CASE w \in Checkers
    <2>1. /\ Unread \in Read /\ Unread.status = "active"
          /\ seen' = [seen EXCEPT ![w] = Unread] /\ seen \in [Workers -> Read]
      BY <1>1 DEF Unread, Read, Statuses, Resume, ClockInv, TypeOK
    <2>2. ReadsHaveClock'
      BY <2>1 DEF ReadsHaveClock, ClockInv
    <2>3. job' \in [Workers -> Jobs] /\ tag' \in [Workers -> Tags \cup {NoTag}]
      BY <1>1 DEF Resume, Goto, ClockInv, TypeOK
    <2>4. MailsAreTagged'
      BY <1>1 DEF Resume, Goto, MailsAreTagged, ClockInv, TypeOK
    <2> QED BY <2>1, <2>2, <2>3, <2>4
  <1>2. CASE w \notin Checkers
    BY <1>2, FinishTypes DEF Resume
  <1> QED BY <1>1, <1>2

LEMMA WriteTypes ==
  ASSUME ClockInv, NEW row \in Row, WriteLicense(row)
  PROVE  lic' \in Row /\ healthy' \in Days
  BY DEF WriteLicense, ClockInv, TypeOK

LEMMA SaveTypes ==
  ASSUME ClockInv, NEW row \in Row, Save(row),
         row.status = "past_due" => row.dueAt # None
  PROVE  /\ lic' \in Row /\ healthy' \in Days /\ sub' \in Statuses /\ faults' \in Nat
         /\ PastDueHasClock'
  <1>1. CASE WriteLicense(row) /\ sub' = row.status /\ UNCHANGED faults
    BY <1>1 DEF WriteLicense, ClockInv, TypeOK, PastDueHasClock, Row
  <1>2. CASE Fault /\ UNCHANGED rows
    BY <1>2 DEF Fault, rows, ClockInv, TypeOK, PastDueHasClock
  <1> QED BY <1>1, <1>2 DEF Save

(* The row of SubscriptionUpdated: past_due always comes with a clock. *)
LEMMA ReportedHasClock ==
  ASSUME ClockInv, NEW w \in Workers,
         NEW status \in {"active", "past_due", "canceled", "trialing", "other"}
  PROVE  /\ Reported(seen[w], status).status \in Statuses
         /\ Reported(seen[w], status).dueAt \in Days \cup {None}
         /\ Reported(seen[w], status).status = "past_due" =>
              Reported(seen[w], status).dueAt # None
  <1>1. /\ seen[w].status \in Statuses /\ seen[w].dueAt \in Days \cup {None}
        /\ seen[w].status = "past_due" => seen[w].dueAt # None
        /\ day \in Days /\ day # None
    BY NoneIsNoDay DEF ClockInv, TypeOK, Read, ReadsHaveClock
  <1> QED BY <1>1 DEF Reported, Statuses

-----------------------------------------------------------------------------
(* Handlers and administrators *)

LEMMA WorkersOf == Handlers \subseteq Workers /\ Checkers \subseteq Workers
  BY DEF Workers

LEMMA LoadStep ==
  ASSUME NEW h \in Handlers, ClockInv, Load(h) PROVE ClockInv'
  <1>1. /\ lic.status \in Statuses /\ lic.dueAt \in Days \cup {None}
        /\ lic.status = "past_due" => lic.dueAt # None
    BY DEF ClockInv, TypeOK, Row, PastDueHasClock
  <1>2. PICK j \in Inputs \cap (Events \cup Requests) : Goto(h, j)
    BY DEF Load
  <1>3. job' \in [Workers -> Jobs]
    BY <1>2 DEF Goto, ClockInv, TypeOK, Jobs
  <1>4. /\ seen \in [Workers -> Read]
        /\ seen' = [seen EXCEPT ![h] = [status |-> lic.status, dueAt |-> lic.dueAt]]
    BY DEF Load, ClockInv, TypeOK
  <1>5. seen' \in [Workers -> Read] /\ ReadsHaveClock'
    BY <1>1, <1>4 DEF Read, ReadsHaveClock, ClockInv
  <1>6. UNCHANGED <<day, lic, sub, healthy, notes, mails, tag, faults>>
    BY DEF Load, rows
  <1>7. MailsAreTagged'
    BY <1>2, <1>6
    DEF Goto, MailsAreTagged, ClockInv, TypeOK, Mailing, Events, Requests
  <1> QED BY <1>3, <1>5, <1>6, <1>7 DEF ClockInv, TypeOK, PastDueHasClock

(* The mail of a recovered license: its tag is the clock that was read. *)
LEMMA AfterUpdateTypes ==
  ASSUME NEW h \in Handlers, NEW recovered \in BOOLEAN, ClockInv,
         AfterUpdate(h, recovered)
  PROVE  /\ job' \in [Workers -> Jobs]
         /\ seen' \in [Workers -> Read]
         /\ tag' \in [Workers -> Tags \cup {NoTag}]
         /\ ReadsHaveClock'
         /\ MailsAreTagged'
  <1>1. CASE recovered
    <2>1. <<"recovered", seen[h].dueAt>> \in Tags
      BY WorkersOf DEF ClockInv, TypeOK, Read, Tags
    <2> QED
      BY <1>1, <2>1, WorkersOf
      DEF AfterUpdate, Goto, ClockInv, TypeOK, Jobs, Mailing, ReadsHaveClock,
          MailsAreTagged
  <1>2. CASE ~ recovered
    BY <1>2, FinishTypes, WorkersOf DEF AfterUpdate
  <1> QED BY <1>1, <1>2

(* What is left of a step whose write and whose end are typed. *)
LEMMA Assembled ==
  ASSUME ClockInv,
         lic' \in Row, healthy' \in Days, sub' \in Statuses, faults' \in Nat,
         PastDueHasClock', ReadsHaveClock', MailsAreTagged',
         job' \in [Workers -> Jobs], seen' \in [Workers -> Read],
         tag' \in [Workers -> Tags \cup {NoTag}],
         UNCHANGED <<day, notes, mails>>
  PROVE  ClockInv'
  BY DEF ClockInv, TypeOK

LEMMA InvoicePaidStep ==
  ASSUME NEW h \in Handlers, ClockInv, InvoicePaid(h) PROVE ClockInv'
  <1>1. PICK end \in Ends : Save([status |-> "active", until |-> end, dueAt |-> None])
    BY DEF InvoicePaid
  <1>2. [status |-> "active", until |-> end, dueAt |-> None] \in Row
    BY LifecycleConstantsOK DEF Row, Statuses
  <1>3. /\ lic' \in Row /\ healthy' \in Days /\ sub' \in Statuses /\ faults' \in Nat
        /\ PastDueHasClock'
    BY <1>1, <1>2, SaveTypes
  <1>4. AfterUpdate(h, seen[h].status = "past_due") /\ UNCHANGED <<day, notes, mails>>
    BY DEF InvoicePaid
  <1> QED BY <1>3, <1>4, AfterUpdateTypes, Assembled

LEMMA SubscriptionUpdatedStep ==
  ASSUME NEW h \in Handlers, ClockInv, SubscriptionUpdated(h) PROVE ClockInv'
  <1> DEFINE new(status) == Reported(seen[h], status)
             row(status, end) ==
               [status |-> new(status).status, dueAt |-> new(status).dueAt,
                until |-> IF end = None THEN lic.until ELSE end]
  <1>1. PICK status \in {"active", "past_due", "canceled", "trialing", "other"},
             end \in Ends \cup {None} :
          /\ Save(row(status, end))
          /\ AfterUpdate(h, seen[h].status = "past_due" /\ new(status).status = "active")
    BY DEF SubscriptionUpdated
  <1>2. /\ new(status).status \in Statuses /\ new(status).dueAt \in Days \cup {None}
        /\ new(status).status = "past_due" => new(status).dueAt # None
    BY ReportedHasClock, WorkersOf
  <1>3. lic.until \in Days \cup {None} /\ Ends \subseteq Days
    BY LifecycleConstantsOK DEF ClockInv, TypeOK, Row
  <1> HIDE DEF new
  <1>4. /\ row(status, end) \in Row
        /\ row(status, end).status = "past_due" => row(status, end).dueAt # None
    BY <1>2, <1>3 DEF Row
  <1> HIDE DEF row
  <1>5. /\ lic' \in Row /\ healthy' \in Days /\ sub' \in Statuses /\ faults' \in Nat
        /\ PastDueHasClock'
    BY <1>1, <1>4, SaveTypes
  <1>6. UNCHANGED <<day, notes, mails>>
    BY DEF SubscriptionUpdated
  <1> QED BY <1>1, <1>5, <1>6, AfterUpdateTypes, Assembled

(* A handler that saves another status and is done. *)
LEMMA SaveAndFinish ==
  ASSUME NEW w \in Workers, ClockInv, NEW status \in Statuses, status # "past_due",
         Finish(w), UNCHANGED <<day, notes, mails>>,
         \/ Save([lic EXCEPT !.status = status])
         \/ Save([lic EXCEPT !.status = status, !.dueAt = None])
  PROVE  ClockInv'
  <1>1. /\ [lic EXCEPT !.status = status] \in Row
        /\ [lic EXCEPT !.status = status].status = status
        /\ [lic EXCEPT !.status = status, !.dueAt = None] \in Row
        /\ [lic EXCEPT !.status = status, !.dueAt = None].status = status
    BY DEF ClockInv, TypeOK, Row
  <1> QED BY <1>1, SaveTypes, FinishTypes, Assembled

(* A step of a worker that writes nothing and is done. *)
LEMMA OnlyFinish ==
  ASSUME NEW w \in Workers, ClockInv, Finish(w), faults' \in Nat,
         UNCHANGED <<day, rows, notes, mails>>
  PROVE  ClockInv'
  BY FinishTypes DEF rows, ClockInv, TypeOK, PastDueHasClock

LEMMA StatusNames ==
  {"active", "canceled", "expired", "suspended", "revoked"} \subseteq Statuses
  BY DEF Statuses

LEMMA OtherEventStep ==
  ASSUME NEW h \in Handlers, ClockInv,
         \/ SubscriptionDeleted(h) \/ PaymentFailed(h) \/ Refunded(h)
         \/ Paused(h) \/ Resumed(h)
  PROVE  ClockInv'
  <1>1. h \in Workers /\ faults \in Nat /\ day \in Days /\ day # None
    BY WorkersOf, NoneIsNoDay DEF ClockInv, TypeOK
  <1>2. CASE SubscriptionDeleted(h)
    BY <1>1, <1>2, StatusNames, SaveAndFinish DEF SubscriptionDeleted
  <1>3. CASE PaymentFailed(h)
    <2>1. CASE seen[h].status = "active"
      <3> DEFINE row == [lic EXCEPT !.status = "past_due", !.dueAt = day]
      <3>1. row \in Row /\ row.dueAt # None
        BY <1>1 DEF ClockInv, TypeOK, Row, Statuses
      <3>2. Save(row) /\ Finish(h) /\ UNCHANGED <<day, notes, mails>>
        BY <1>3, <2>1 DEF PaymentFailed
      <3> HIDE DEF row
      <3> QED BY <1>1, <3>1, <3>2, SaveTypes, FinishTypes, Assembled
    <2>2. CASE seen[h].status # "active"
      BY <1>1, <1>3, <2>2, OnlyFinish DEF PaymentFailed
    <2> QED BY <2>1, <2>2
  <1>4. CASE Refunded(h)
    <2>1. CASE job[h] = "charge.refunded" /\ seen[h].status = "revoked"
      BY <1>1, <1>4, <2>1, OnlyFinish DEF Refunded
    <2>2. CASE ~ (job[h] = "charge.refunded" /\ seen[h].status = "revoked")
      BY <1>1, <1>4, <2>2, StatusNames, SaveAndFinish DEF Refunded
    <2> QED BY <2>1, <2>2
  <1>5. CASE Paused(h)
    BY <1>1, <1>5, StatusNames, SaveAndFinish DEF Paused
  <1>6. CASE Resumed(h)
    BY <1>1, <1>6, StatusNames, SaveAndFinish DEF Resumed
  <1> QED BY <1>2, <1>3, <1>4, <1>5, <1>6

(* A license written alone, with a clock if it is past due. *)
LEMMA WriteAndFinish ==
  ASSUME NEW w \in Workers, ClockInv, NEW row \in Row, WriteLicense(row),
         row.status = "past_due" => row.dueAt # None,
         Finish(w), UNCHANGED <<day, sub, notes, mails, faults>>
  PROVE  ClockInv'
  <1>1. lic' = row /\ lic' \in Row /\ healthy' \in Days
    BY WriteTypes DEF WriteLicense
  <1>2. PastDueHasClock'
    BY <1>1 DEF PastDueHasClock
  <1> QED BY <1>1, <1>2, FinishTypes DEF ClockInv, TypeOK

LEMMA CanceledStep ==
  ASSUME NEW h \in Handlers, ClockInv, Canceled(h) PROVE ClockInv'
  <1>1. h \in Workers /\ day \in Days /\ Ends \subseteq Days
    BY WorkersOf, LifecycleConstantsOK DEF ClockInv, TypeOK
  <1>2. Finish(h) /\ UNCHANGED <<day, sub, notes, mails, faults>>
    BY DEF Canceled
  <1>3. CASE WriteLicense([lic EXCEPT !.status = "canceled", !.until = day])
    <2>1. /\ [lic EXCEPT !.status = "canceled", !.until = day] \in Row
          /\ [lic EXCEPT !.status = "canceled", !.until = day].status = "canceled"
      BY <1>1 DEF ClockInv, TypeOK, Row, Statuses
    <2> QED BY <1>1, <1>2, <1>3, <2>1, WriteAndFinish
  <1>4. ASSUME NEW end \in Ends, WriteLicense([lic EXCEPT !.until = end])
        PROVE  ClockInv'
    <2>1. /\ [lic EXCEPT !.until = end] \in Row
          /\ [lic EXCEPT !.until = end].status = lic.status
          /\ [lic EXCEPT !.until = end].dueAt = lic.dueAt
      BY <1>1 DEF ClockInv, TypeOK, Row
    <2> QED BY <1>1, <1>2, <1>4, <2>1, WriteAndFinish DEF ClockInv, PastDueHasClock
  <1> QED BY <1>3, <1>4 DEF Canceled

LEMMA AdminStep ==
  ASSUME NEW h \in Handlers, ClockInv, AdminWrites(h) \/ AdminMirrors(h)
  PROVE  ClockInv'
  <1>1. h \in Workers
    BY WorkersOf
  <1>2. CASE AdminWrites(h)
    <2>1. PICK status \in {"revoked", "suspended", "active"} :
            /\ WriteLicense([lic EXCEPT !.status = status])
            /\ seen' = [seen EXCEPT ![h] = [Unread EXCEPT !.status = status]]
      BY <1>2 DEF AdminWrites
    <2>2. /\ [lic EXCEPT !.status = status] \in Row
          /\ [lic EXCEPT !.status = status].status = status
          /\ [Unread EXCEPT !.status = status] \in Read
          /\ [Unread EXCEPT !.status = status].status = status
      BY DEF ClockInv, TypeOK, Row, Read, Unread, Statuses
    <2>3. lic' \in Row /\ healthy' \in Days /\ lic'.status = status
      BY <2>1, <2>2, WriteTypes DEF WriteLicense
    <2>4. seen' \in [Workers -> Read] /\ ReadsHaveClock'
      BY <1>1, <2>1, <2>2 DEF ReadsHaveClock, ClockInv, TypeOK
    <2>5. job' \in [Workers -> Jobs]
      BY <1>2 DEF AdminWrites, Goto, ClockInv, TypeOK, Jobs
    <2>6. PastDueHasClock'
      BY <2>3 DEF PastDueHasClock
    <2>7. UNCHANGED <<day, sub, notes, mails, tag, faults>>
      BY <1>2 DEF AdminWrites
    <2>8. MailsAreTagged'
      BY <1>2, <2>7 DEF AdminWrites, Goto, MailsAreTagged, Mailing, ClockInv, TypeOK
    <2> QED BY <2>3, <2>4, <2>5, <2>6, <2>7, <2>8 DEF ClockInv, TypeOK
  <1>3. CASE AdminMirrors(h)
    <2>1. sub' \in Statuses
      BY <1>1, <1>3 DEF AdminMirrors, ClockInv, TypeOK, Read
    <2> QED
      BY <1>1, <1>3, <2>1, FinishTypes
      DEF AdminMirrors, ClockInv, TypeOK, PastDueHasClock
  <1> QED BY <1>2, <1>3

-----------------------------------------------------------------------------
(* Expiry passes and mails *)

(* A step of a worker that only decides where to go on. *)
LEMMA OnlyGoto ==
  ASSUME NEW w \in Workers, NEW j \in Jobs, ClockInv, Goto(w, j),
         NEW t \in Tags \cup {NoTag}, tag' = [tag EXCEPT ![w] = t],
         j \in Mailing => t \in Tags,
         notes' \subseteq Tags, mails' \in [Tags -> Nat],
         UNCHANGED <<day, rows, seen, faults>>
  PROVE  ClockInv'
  <1>1. MailsAreTagged'
    BY DEF Goto, MailsAreTagged, ClockInv, TypeOK
  <1> QED
    BY <1>1 DEF Goto, rows, ClockInv, TypeOK, PastDueHasClock, ReadsHaveClock

LEMMA SameTag ==
  ASSUME NEW w \in Workers, ClockInv, UNCHANGED tag
  PROVE  /\ tag[w] \in Tags \cup {NoTag}
         /\ tag' = [tag EXCEPT ![w] = tag[w]]
         /\ job[w] \in Mailing => tag[w] \in Tags
         /\ notes \subseteq Tags /\ mails \in [Tags -> Nat]
  BY DEF ClockInv, TypeOK, MailsAreTagged

LEMMA OnlyResume ==
  ASSUME NEW w \in Workers, NEW stage \in Jobs \ Mailing, ClockInv, Resume(w, stage),
         notes' \subseteq Tags, UNCHANGED <<day, rows, mails, faults>>
  PROVE  ClockInv'
  BY ResumeTypes DEF rows, ClockInv, TypeOK, PastDueHasClock

LEMMA ScanStep ==
  ASSUME NEW c \in Checkers, NEW stage, NEW found \in BOOLEAN, NEW write \in Jobs \ Mailing,
         NEW next \in Jobs \ Mailing, ClockInv, Scan(c, stage, found, write, next)
  PROVE  ClockInv'
  <1>1. \E j \in Jobs \ Mailing : Goto(c, j)
    BY DEF Scan
  <1>2. UNCHANGED <<day, rows, notes, mails, seen, tag, faults>>
    BY DEF Scan
  <1> QED BY <1>1, <1>2, WorkersOf, SameTag, OnlyGoto

LEMMA ExpireStep ==
  ASSUME NEW c \in Checkers, ClockInv, Expire(c) PROVE ClockInv'
  <1>1. PICK stage \in {"trials", "pastDue", "dunning"} : Resume(c, stage)
    BY DEF Expire
  <1>2. c \in Workers /\ stage \in Jobs \ Mailing
    BY WorkersOf DEF Jobs, Pass, Mailing
  <1>3. /\ [lic EXCEPT !.status = "expired"] \in Row
        /\ [lic EXCEPT !.status = "expired"].status = "expired"
    BY DEF ClockInv, TypeOK, Row, Statuses
  <1>4. Save([lic EXCEPT !.status = "expired"]) /\ UNCHANGED <<day, notes, mails>>
    BY DEF Expire
  <1> QED BY <1>1, <1>2, <1>3, <1>4, SaveTypes, ResumeTypes, Assembled

LEMMA DunningStep ==
  ASSUME NEW c \in Checkers, ClockInv, ScanDunning(c) PROVE ClockInv'
  <1> DEFINE tier == IF lic.status = "past_due" /\ lic.dueAt # None
                       THEN TierReached(day - lic.dueAt) ELSE "none"
  <1>1. c \in Workers /\ "sync" \in Jobs \ Mailing /\ "check" \in Jobs
    BY WorkersOf DEF Jobs, Pass, Mailing
  <1>2. CASE tier = "none"
    <2>1. Goto(c, "sync") /\ UNCHANGED <<day, rows, notes, mails, seen, tag, faults>>
      BY <1>2 DEF ScanDunning
    <2> QED BY <1>1, <2>1, SameTag, OnlyGoto
  <1>3. CASE tier # "none"
    <2>1. TierReached(day - lic.dueAt) \in Tiers \cup {"none"}
      BY DEF TierReached, Tiers
    <2>2. <<tier, lic.dueAt>> \in Tags
      BY <1>3, <2>1 DEF Tags, ClockInv, TypeOK, Row
    <2>3. /\ Goto(c, "check") /\ tag' = [tag EXCEPT ![c] = <<tier, lic.dueAt>>]
          /\ UNCHANGED <<day, rows, notes, mails, seen, faults>>
      BY <1>3 DEF ScanDunning
    <2> HIDE DEF tier
    <2> QED BY <1>1, <2>2, <2>3, OnlyGoto DEF ClockInv, TypeOK
  <1> QED BY <1>2, <1>3

LEMMA CheckStep ==
  ASSUME NEW c \in Checkers, ClockInv, StartPass(c) \/ Check(c) PROVE ClockInv'
  <1>1. /\ c \in Workers
        /\ {"grace", "trials", "pastDue", "dunning", "expireGrace", "expireTrial",
            "expirePastDue"} \subseteq Jobs \ Mailing
    BY WorkersOf DEF Jobs, Pass, Expiring, Mailing
  <1>2. CASE StartPass(c)
    BY <1>1, <1>2, SameTag, OnlyGoto DEF StartPass
  <1>3. CASE ScanGrace(c)
    BY <1>1, <1>3, ScanStep DEF ScanGrace
  <1>4. CASE ScanTrials(c)
    BY <1>1, <1>4, ScanStep DEF ScanTrials
  <1>5. CASE ScanPastDue(c)
    BY <1>1, <1>5, ScanStep DEF ScanPastDue
  <1>6. CASE SyncSubscription(c)
    <2>1. sub' \in Statuses
      BY <1>6 DEF SyncSubscription, ClockInv, TypeOK, Statuses
    <2> QED
      BY <1>1, <1>6, <2>1, FinishTypes
      DEF SyncSubscription, ClockInv, TypeOK, PastDueHasClock
  <1> QED BY <1>2, <1>3, <1>4, <1>5, <1>6, ExpireStep, DunningStep DEF Check

LEMMA MailStep ==
  ASSUME NEW w \in Workers, ClockInv, Mail(w) PROVE ClockInv'
  <1>1. "sync" \in Jobs \ Mailing /\ {"check", "send", "record"} \subseteq Jobs \cap Mailing
    BY DEF Jobs, Pass, Mailing
  <1>2. job[w] \in Mailing /\ tag[w] \in Tags
    BY <1>1 DEF Mail, CheckNotification, SendMail, RecordNotification,
                ClockInv, MailsAreTagged
  <1>3. CASE CheckNotification(w)
    <2>1. CASE tag[w] \in notes
      BY <1>1, <1>3, <2>1, OnlyResume DEF CheckNotification, ClockInv, TypeOK
    <2>2. CASE tag[w] \notin notes
      BY <1>1, <1>2, <1>3, <2>2, SameTag, OnlyGoto DEF CheckNotification
    <2> QED BY <2>1, <2>2
  <1>4. CASE SendMail(w)
    <2>1. mails' \in [Tags -> Nat]
      BY <1>2, <1>4 DEF SendMail, ClockInv, TypeOK
    <2>2. Goto(w, "record") /\ UNCHANGED <<day, rows, notes, seen, tag, faults>>
      BY <1>4 DEF SendMail
    <2> QED BY <1>1, <1>2, <2>1, <2>2, SameTag, OnlyGoto
  <1>5. CASE RecordNotification(w)
    <2>1. notes' \subseteq Tags
      BY <1>2, <1>5 DEF RecordNotification, ClockInv, TypeOK
    <2>2. Resume(w, "sync") /\ UNCHANGED <<day, rows, mails, faults>>
      BY <1>5 DEF RecordNotification
    <2> QED BY <1>1, <2>1, <2>2, OnlyResume
  <1> QED BY <1>3, <1>4, <1>5 DEF Mail

-----------------------------------------------------------------------------
(* The theorems *)

(* Every step keeps the inductive invariant. *)
LEMMA ClockInvHolds == Spec => []ClockInv
<1>1. Init => ClockInv
  <2> SUFFICES ASSUME Init PROVE ClockInv
    OBVIOUS
  <2>1. lic \in Row /\ lic.status # "past_due" /\ sub \in Statuses
    BY LifecycleConstantsOK DEF Init, Row, Statuses
  <2>2. /\ day \in Days /\ healthy \in Days /\ faults \in Nat /\ notes \subseteq Tags
        /\ mails \in [Tags -> Nat]
    BY LifecycleConstantsOK DEF Init, Days
  <2>3. /\ Unread \in Read /\ Unread.status = "active"
        /\ "idle" \in Jobs \ Mailing
    BY DEF Unread, Read, Statuses, Jobs, Mailing
  <2>4. /\ job \in [Workers -> Jobs] /\ seen \in [Workers -> Read]
        /\ tag \in [Workers -> Tags \cup {NoTag}]
        /\ \A w \in Workers : job[w] = "idle" /\ seen[w] = Unread
    BY <2>3 DEF Init
  <2> QED
    BY <2>1, <2>2, <2>3, <2>4
    DEF ClockInv, TypeOK, PastDueHasClock, ReadsHaveClock, MailsAreTagged
<1>2. ClockInv /\ [Next]_vars => ClockInv'
  <2> SUFFICES ASSUME ClockInv, [Next]_vars PROVE ClockInv'
    OBVIOUS
  <2>1. CASE NextDay
    BY <2>1, LifecycleConstantsOK
    DEF NextDay, mine, ClockInv, TypeOK, Days, PastDueHasClock, ReadsHaveClock,
        MailsAreTagged
  <2>2. ASSUME NEW h \in Handlers, Load(h) \/ AdminWrites(h) \/ Handle(h)
        PROVE  ClockInv'
    BY <2>2, LoadStep, AdminStep, InvoicePaidStep, SubscriptionUpdatedStep,
       OtherEventStep, CanceledStep DEF Handle
  <2>3. ASSUME NEW c \in Checkers, StartPass(c) \/ Check(c) PROVE ClockInv'
    BY <2>3, CheckStep
  <2>4. ASSUME NEW w \in Workers, Mail(w) PROVE ClockInv'
    BY <2>4, MailStep
  <2>5. ASSUME NEW w \in Workers, Crash(w) PROVE ClockInv'
    <3>1. faults' \in Nat
      BY <2>5 DEF Crash, Fault, ClockInv, TypeOK
    <3> QED BY <2>5, <3>1, OnlyFinish DEF Crash
  <2>6. CASE UNCHANGED vars
    BY <2>6 DEF vars, rows, mine, ClockInv, TypeOK, PastDueHasClock, ReadsHaveClock,
                MailsAreTagged
  <2> QED BY <2>1, <2>2, <2>3, <2>4, <2>5, <2>6 DEF Next
<1> QED BY <1>1, <1>2, PTL DEF Spec

(* Whatever order events, requests and passes come in, the rows and the    *)
(* workers keep their types (stripe.go:1029-1345, expiry.go:42-316).       *)
THEOREM TypeCorrect == Spec => []TypeOK
<1>1. ClockInv => TypeOK
  BY DEF ClockInv
<1> QED BY <1>1, ClockInvHolds, PTL

(* No interleaving of events, requests and expiry passes, and no failed    *)
(* write, leaves a past-due license without its dunning clock, so the      *)
(* ladder of SendPaymentFailureReminders never skips one (expiry.go:213).  *)
THEOREM PastDueAlwaysHasClock == Spec => []PastDueHasClock
<1>1. ClockInv => PastDueHasClock
  BY DEF ClockInv
<1> QED BY <1>1, ClockInvHolds, PTL

-----------------------------------------------------------------------------
(* Nobody is at a step that writes one of the two rows alone. *)
Alone == {"mirror"} \cup ({"cancel_now"} \ Inputs)

BothRowsInv ==
  /\ SubscriptionFollows
  /\ \A w \in Workers : job[w] \notin Alone
  /\ job \in [Workers -> Jobs]

(* A transaction that writes both rows. *)
LEMMA SavesBoth ==
  ASSUME SubscriptionFollows, NEW row, Save(row) PROVE SubscriptionFollows'
  BY DEF SubscriptionFollows, Save, WriteLicense, rows

(* A worker that goes on to such a step. *)
LEMMA JobsChange ==
  ASSUME NEW w \in Workers, BothRowsInv,
         NEW j \in Jobs \ Alone, Goto(w, j)
  PROVE  /\ job' \in [Workers -> Jobs]
         /\ \A v \in Workers : job'[v] \notin Alone
  BY DEF BothRowsInv, Goto

(* The steps of passes, of events and of mails are among them. *)
LEMMA JobsOf ==
  /\ {"idle", "check", "send", "record"} \cup Pass \cup Expiring
       \subseteq Jobs \ Alone
  /\ Events \cup {"refund"} \subseteq Jobs \ Alone
  BY DEF Alone, Jobs, Pass, Expiring, Mailing, Events, Requests

(* Every step of a worker goes to a job that writes both rows. *)
LEMMA StepJobs ==
  ASSUME Inputs \cap Admin = {}, BothRowsInv, NEW w \in Workers,
         \/ w \in Handlers /\ (Load(w) \/ AdminWrites(w) \/ Handle(w))
         \/ w \in Checkers /\ (StartPass(w) \/ Check(w))
         \/ Mail(w) \/ Crash(w)
  PROVE  \E j \in Jobs \ Alone : Goto(w, j)
  <1>1. Inputs \cap (Events \cup Requests) \subseteq Jobs \ Alone
    BY DEF Alone, Jobs, Events, Requests
  <1>2. CASE Load(w)
    BY <1>1, <1>2 DEF Load
  <1>3. ~ AdminWrites(w) /\ ~ AdminMirrors(w)
    BY DEF AdminWrites, AdminMirrors, BothRowsInv, Alone
  <1>4. CASE Finish(w)
    BY <1>4, JobsOf DEF Finish
  <1>5. ASSUME NEW stage \in Pass, Resume(w, stage)
        PROVE  \E j \in Jobs \ Alone : Goto(w, j)
    BY <1>4, <1>5, JobsOf DEF Resume
  <1>6. ASSUME NEW recovered, AfterUpdate(w, recovered)
        PROVE  \E j \in Jobs \ Alone : Goto(w, j)
    BY <1>4, <1>6, JobsOf DEF AfterUpdate
  <1>7. CASE Handle(w)
    <2>1. CASE InvoicePaid(w) \/ SubscriptionUpdated(w)
      BY <1>6, <2>1 DEF InvoicePaid, SubscriptionUpdated
    <2>2. CASE \/ SubscriptionDeleted(w) \/ PaymentFailed(w) \/ Refunded(w)
               \/ Paused(w) \/ Resumed(w) \/ Canceled(w)
      BY <1>4, <2>2
      DEF SubscriptionDeleted, PaymentFailed, Refunded, Paused, Resumed, Canceled
    <2> QED BY <1>3, <1>7, <2>1, <2>2 DEF Handle
  <1>8. CASE StartPass(w) \/ Check(w)
    <2>1. CASE StartPass(w) \/ ScanGrace(w) \/ ScanTrials(w) \/ ScanPastDue(w)
      BY <2>1, JobsOf DEF StartPass, ScanGrace, ScanTrials, ScanPastDue, Scan, Pass, Expiring
    <2>2. CASE Expire(w)
      <3>1. \E stage \in Pass : Resume(w, stage)
        BY <2>2 DEF Expire, Pass
      <3> QED BY <1>5, <3>1
    <2>3. CASE ScanDunning(w)
      BY <2>3, JobsOf DEF ScanDunning, Pass
    <2>4. CASE SyncSubscription(w)
      BY <1>4, <2>4 DEF SyncSubscription
    <2> QED BY <1>8, <2>1, <2>2, <2>3, <2>4 DEF Check
  <1>9. CASE Mail(w)
    <2>1. CASE CheckNotification(w)
      BY <1>5, <2>1, JobsOf DEF CheckNotification, Pass
    <2>2. CASE SendMail(w)
      BY <2>2, JobsOf DEF SendMail
    <2>3. CASE RecordNotification(w)
      BY <1>5, <2>3 DEF RecordNotification, Pass
    <2> QED BY <1>9, <2>1, <2>2, <2>3 DEF Mail
  <1>10. CASE Crash(w)
    BY <1>4, <1>10 DEF Crash
  <1> QED BY <1>2, <1>3, <1>7, <1>8, <1>9, <1>10

(* ... and writes both or none. *)
LEMMA StepRows ==
  ASSUME Inputs \cap Admin = {}, TypeOK, BothRowsInv, NEW w \in Workers,
         \/ Load(w) \/ AdminWrites(w) \/ Handle(w)
         \/ StartPass(w) \/ Check(w) \/ Mail(w) \/ Crash(w)
  PROVE  SubscriptionFollows'
  <1>1. ~ AdminWrites(w) /\ ~ AdminMirrors(w)
    BY DEF AdminWrites, AdminMirrors, BothRowsInv, Alone
  <1>2. CASE UNCHANGED rows
    BY <1>2 DEF rows, BothRowsInv, SubscriptionFollows
  <1>3. ASSUME NEW row, Save(row) PROVE SubscriptionFollows'
    BY <1>3, SavesBoth DEF BothRowsInv
  <1>4. CASE Handle(w)
    <2>1. CASE job[w] = "cancel_now" /\ Canceled(w)
      <3>1. lic' = [lic EXCEPT !.status = "canceled", !.until = day] /\ "cancel_now" \in Inputs
        BY <2>1 DEF Canceled, WriteLicense, BothRowsInv, Alone
      <3> QED BY <3>1 DEF SubscriptionFollows, TypeOK, Row
    <2>2. CASE job[w] # "cancel_now" /\ Canceled(w)
      <3>1. lic'.status = lic.status /\ sub' = sub
        BY <2>2 DEF Canceled, WriteLicense, TypeOK, Row
      <3> QED BY <3>1 DEF SubscriptionFollows, BothRowsInv
    <2> QED
      BY <1>1, <1>2, <1>3, <1>4, <2>1, <2>2
      DEF Handle, InvoicePaid, SubscriptionUpdated, SubscriptionDeleted, PaymentFailed,
          Refunded, Paused, Resumed
  <1>5. CASE Check(w)
    <2>1. CASE SyncSubscription(w)
      BY <2>1 DEF SyncSubscription, BothRowsInv, SubscriptionFollows
    <2> QED
      BY <1>2, <1>3, <1>5, <2>1
      DEF Check, ScanGrace, ScanTrials, ScanPastDue, Scan, Expire, ScanDunning
  <1> QED
    BY <1>1, <1>2, <1>4, <1>5
    DEF Load, StartPass, Mail, CheckNotification, SendMail, RecordNotification, Crash

(* As long as no administrator changes the license by hand, its            *)
(* subscription agrees with it at every moment, whatever events, requests  *)
(* and expiry passes interleave, fail or crash: all that change the status *)
(* write through UpdateLicenseAndSubscription (store.go:613-640), but for  *)
(* the customer's immediate cancellation, which leaves it "canceled".      *)
THEOREM SubscriptionAlwaysFollows ==
  ASSUME Inputs \cap Admin = {}
  PROVE  Spec => []SubscriptionFollows
<1>1. Init => BothRowsInv
  BY JobsOf DEF Init, BothRowsInv, SubscriptionFollows
<1>2. TypeOK /\ BothRowsInv /\ [Next]_vars => BothRowsInv'
  <2> SUFFICES ASSUME TypeOK, BothRowsInv, [Next]_vars PROVE BothRowsInv'
    OBVIOUS
  <2>1. CASE NextDay \/ UNCHANGED vars
    BY <2>1 DEF NextDay, vars, rows, mine, BothRowsInv, SubscriptionFollows
  <2>2. ASSUME NEW w \in Workers,
               \/ w \in Handlers /\ (Load(w) \/ AdminWrites(w) \/ Handle(w))
               \/ w \in Checkers /\ (StartPass(w) \/ Check(w))
               \/ Mail(w) \/ Crash(w)
        PROVE  BothRowsInv'
    BY <2>2, StepJobs, StepRows, JobsChange DEF BothRowsInv
  <2> QED BY <2>1, <2>2, WorkersOf DEF Next
<1>3. BothRowsInv => SubscriptionFollows
  BY DEF BothRowsInv
<1> QED BY <1>1, <1>2, <1>3, TypeCorrect, PTL DEF Spec

-----------------------------------------------------------------------------
(* The dunning clock, where one event is handled at a time, within a day,  *)
(* and nothing but a payment makes a license active again.                 *)
OneAtATime ==
  /\ \A g, h \in Handlers : g = h
  /\ ~ HandlersSpanDays
  /\ "subscription.resumed" \notin Inputs /\ "reinstate" \notin Inputs

(* An active license has no clock; a clock is not older than the last day  *)
(* the license was active.                                                 *)
FreshOf(status, dueAt) ==
  /\ status = "active" => dueAt = None
  /\ dueAt # None => healthy <= dueAt

ClocksFresh ==
  /\ FreshOf(lic.status, lic.dueAt)
  /\ healthy <= day
  /\ \A h \in Handlers : job[h] \in Events => FreshOf(seen[h].status, seen[h].dueAt)
  /\ \A h \in Handlers : job[h] # "subscription.resumed"

(* A row that is fresh is fresh when it is written. *)
LEMMA FreshWrite ==
  ASSUME ClockInv, ClocksFresh, NEW row \in Row, FreshOf(row.status, row.dueAt),
         WriteLicense(row) \/ Save(row), UNCHANGED day
  PROVE  /\ FreshOf(lic.status, lic.dueAt)' /\ (healthy <= day)'
         /\ row.status # "active" => healthy' = healthy
<1>1. day \in Int /\ healthy \in Int
  BY LifecycleConstantsOK DEF ClockInv, TypeOK, Days
<1>2. CASE WriteLicense(row)
  BY <1>1, <1>2 DEF WriteLicense, FreshOf, ClocksFresh
<1>3. CASE UNCHANGED rows
  BY <1>3 DEF rows, FreshOf, ClocksFresh
<1>4. QED
  BY <1>2, <1>3 DEF Save

(* Who handles the only event is done with it. *)
LEMMA EventDone ==
  ASSUME OneAtATime, ClockInv, NEW h \in Handlers,
         NEW j \in {"idle", "check", "mirror"}, Goto(h, j)
  PROVE  \A g \in Handlers : job'[g] \notin Events
<1>1. job'[h] = j /\ \A g \in Handlers : g = h
  BY WorkersOf DEF Goto, ClockInv, TypeOK, OneAtATime
<1>2. QED
  BY <1>1 DEF Events

(* A handler's write of a fresh row. *)
LEMMA HandlerWrites ==
  ASSUME OneAtATime, ClockInv, ClocksFresh, NEW h \in Handlers,
         NEW j \in {"idle", "check", "mirror"}, Goto(h, j),
         NEW row \in Row, FreshOf(row.status, row.dueAt),
         WriteLicense(row) \/ Save(row), UNCHANGED day
  PROVE  ClocksFresh'
<1>1. \A g \in Handlers : job'[g] \notin Events
  BY EventDone
<1>2. QED
  BY <1>1, FreshWrite DEF ClocksFresh, Events

(* A handler ends without a write. *)
LEMMA HandlerLeaves ==
  ASSUME OneAtATime, ClockInv, ClocksFresh, NEW h \in Handlers,
         NEW j \in {"idle", "check", "mirror"}, Goto(h, j),
         UNCHANGED <<day, lic, healthy>>
  PROVE  ClocksFresh'
<1>1. \A g \in Handlers : job'[g] \notin Events
  BY EventDone
<1>2. QED
  BY <1>1 DEF ClocksFresh, Events, FreshOf

(* The rows that keep the clock, and those that clear it. *)
LEMMA FreshRows ==
  ASSUME ClockInv, ClocksFresh, NEW status \in Statuses, NEW until \in Days \cup {None}
  PROVE  /\ status # "active" =>
              /\ [lic EXCEPT !.status = status] \in Row
              /\ FreshOf([lic EXCEPT !.status = status].status, [lic EXCEPT !.status = status].dueAt)
         /\ [lic EXCEPT !.until = until] \in Row
         /\ FreshOf([lic EXCEPT !.until = until].status, [lic EXCEPT !.until = until].dueAt)
         /\ status # "active" =>
              /\ [lic EXCEPT !.status = status, !.until = until] \in Row
              /\ FreshOf([lic EXCEPT !.status = status, !.until = until].status,
                         [lic EXCEPT !.status = status, !.until = until].dueAt)
         /\ [lic EXCEPT !.status = status, !.dueAt = None] \in Row
         /\ FreshOf([lic EXCEPT !.status = status, !.dueAt = None].status,
                    [lic EXCEPT !.status = status, !.dueAt = None].dueAt)
         /\ [status |-> status, until |-> until, dueAt |-> None] \in Row
         /\ FreshOf(status, None)
         /\ [lic EXCEPT !.status = "past_due", !.dueAt = day] \in Row
         /\ FreshOf([lic EXCEPT !.status = "past_due", !.dueAt = day].status,
                    [lic EXCEPT !.status = "past_due", !.dueAt = day].dueAt)
<1>1. /\ lic \in Row /\ day \in Days
      /\ lic.status = "active" => lic.dueAt = None
      /\ lic.dueAt # None => healthy <= lic.dueAt
      /\ healthy <= day
  BY DEF ClockInv, TypeOK, ClocksFresh, FreshOf
<1>2. QED
  BY <1>1 DEF FreshOf, Row, Statuses

(* What an event makes of a fresh row that was read is fresh. *)
LEMMA ReportedFresh ==
  ASSUME ClockInv, ClocksFresh, NEW h \in Handlers, job[h] = "subscription.updated",
         NEW status \in {"active", "past_due", "canceled", "trialing", "other"}
  PROVE  FreshOf(Reported(seen[h], status).status, Reported(seen[h], status).dueAt)
<1>1. FreshOf(seen[h].status, seen[h].dueAt) /\ healthy <= day
  BY DEF ClocksFresh, Events
<1>2. QED
  BY <1>1 DEF FreshOf, Reported

(* An event or a request of a handler. *)
LEMMA HandleFresh ==
  ASSUME OneAtATime, ClockInv, ClocksFresh, NEW h \in Handlers, Handle(h)
  PROVE  ClocksFresh'
<1>0. /\ Finish(h) => Goto(h, "idle")
      /\ \A recovered : AfterUpdate(h, recovered) => Goto(h, "idle") \/ Goto(h, "check")
  BY DEF AfterUpdate, Finish
<1>00. lic.until \in Days \cup {None} /\ Ends \subseteq Days /\ day \in Days
  BY LifecycleConstantsOK DEF ClockInv, TypeOK, Row
<1>1. CASE InvoicePaid(h)
  <2>1. PICK end \in Ends : Save([status |-> "active", until |-> end, dueAt |-> None])
    BY <1>1 DEF InvoicePaid
  <2>2. [status |-> "active", until |-> end, dueAt |-> None] \in Row /\ FreshOf("active", None)
    BY <1>00, FreshRows DEF Statuses
  <2>3. (Goto(h, "idle") \/ Goto(h, "check")) /\ UNCHANGED day
    BY <1>0, <1>1 DEF InvoicePaid
  <2> DEFINE row == [status |-> "active", until |-> end, dueAt |-> None]
  <2>4. row \in Row /\ FreshOf(row.status, row.dueAt) /\ Save(row)
    BY <2>1, <2>2
  <2> HIDE DEF row
  <2>5. QED
    BY <2>3, <2>4, HandlerWrites
<1>2. CASE SubscriptionUpdated(h)
  <2> DEFINE new(status) == Reported(seen[h], status)
             row(status, end) ==
               [status |-> new(status).status, dueAt |-> new(status).dueAt,
                until |-> IF end = None THEN lic.until ELSE end]
  <2>1. PICK status \in {"active", "past_due", "canceled", "trialing", "other"},
             end \in Ends \cup {None} : Save(row(status, end))
    BY <1>2 DEF SubscriptionUpdated
  <2>2. /\ new(status).status \in Statuses /\ new(status).dueAt \in Days \cup {None}
        /\ FreshOf(new(status).status, new(status).dueAt)
    BY <1>2, ReportedHasClock, ReportedFresh, WorkersOf DEF SubscriptionUpdated
  <2>3. (Goto(h, "idle") \/ Goto(h, "check")) /\ UNCHANGED day
    BY <1>0, <1>2 DEF SubscriptionUpdated
  <2> HIDE DEF new
  <2>4. /\ row(status, end) \in Row
        /\ row(status, end).status = new(status).status
        /\ row(status, end).dueAt = new(status).dueAt
    BY <1>00, <2>2 DEF Row
  <2>5. FreshOf(row(status, end).status, row(status, end).dueAt)
    BY <2>2, <2>4
  <2> HIDE DEF row
  <2>6. QED
    BY <2>1, <2>3, <2>4, <2>5, HandlerWrites
<1>3. CASE SubscriptionDeleted(h)
  <2>1. Save([lic EXCEPT !.status = "canceled", !.dueAt = None]) /\ Goto(h, "idle") /\ UNCHANGED day
    BY <1>0, <1>3 DEF SubscriptionDeleted
  <2>2. "canceled" \in Statuses
    BY DEF Statuses
  <2>3. QED
    BY <1>00, <2>1, <2>2, FreshRows, HandlerWrites
<1>4. CASE PaymentFailed(h)
  <2>1. Goto(h, "idle") /\ UNCHANGED day
    BY <1>0, <1>4 DEF PaymentFailed
  <2>2. CASE UNCHANGED rows
    BY <2>1, <2>2, HandlerLeaves DEF rows
  <2>3. CASE Save([lic EXCEPT !.status = "past_due", !.dueAt = day])
    <3>1. "active" \in Statuses
      BY DEF Statuses
    <3>2. QED
      BY <1>00, <2>1, <2>3, <3>1, FreshRows, HandlerWrites
  <2>4. QED
    BY <1>4, <2>2, <2>3 DEF PaymentFailed
<1>5. CASE Refunded(h) \/ Paused(h)
  <2>1. Goto(h, "idle") /\ UNCHANGED day
    BY <1>0, <1>5 DEF Refunded, Paused
  <2>2. CASE UNCHANGED rows
    BY <2>1, <2>2, HandlerLeaves DEF rows
  <2>3. ASSUME NEW status \in {"revoked", "suspended"}, Save([lic EXCEPT !.status = status])
        PROVE  ClocksFresh'
    <3>1. status \in Statuses /\ status # "active"
      BY DEF Statuses
    <3>2. QED
      BY <1>00, <2>1, <2>3, <3>1, FreshRows, HandlerWrites
  <2>4. QED
    BY <1>5, <2>2, <2>3 DEF Refunded, Paused
<1>6. CASE Resumed(h)
  BY <1>6 DEF Resumed, ClocksFresh
<1>7. CASE Canceled(h)
  <2>1. Goto(h, "idle") /\ UNCHANGED day
    BY <1>0, <1>7 DEF Canceled
  <2>2. CASE WriteLicense([lic EXCEPT !.status = "canceled", !.until = day])
    <3>1. "canceled" \in Statuses
      BY DEF Statuses
    <3>2. QED
      BY <1>00, <2>1, <2>2, <3>1, FreshRows, HandlerWrites
  <2>3. ASSUME NEW end \in Ends, WriteLicense([lic EXCEPT !.until = end])
        PROVE  ClocksFresh'
    <3>1. "active" \in Statuses
      BY DEF Statuses
    <3>2. QED
      BY <1>00, <2>1, <2>3, <3>1, FreshRows, HandlerWrites
  <2>4. QED
    BY <1>7, <2>2, <2>3 DEF Canceled
<1>8. CASE AdminMirrors(h)
  BY <1>0, <1>8, HandlerLeaves DEF AdminMirrors
<1>9. QED
  BY <1>1, <1>2, <1>3, <1>4, <1>5, <1>6, <1>7, <1>8 DEF Handle

(* A handler reads a fresh license; an administrator makes none active.    *)
LEMMA RequestFresh ==
  ASSUME OneAtATime, ClockInv, ClocksFresh, NEW h \in Handlers, Load(h) \/ AdminWrites(h)
  PROVE  ClocksFresh'
<1>1. CASE Load(h)
  <2>1. PICK j \in Inputs : Goto(h, j)
    BY <1>1 DEF Load
  <2>2. /\ seen' = [seen EXCEPT ![h] = [status |-> lic.status, dueAt |-> lic.dueAt]]
        /\ UNCHANGED <<day, lic, healthy>>
    BY <1>1 DEF Load, rows
  <2>3. \A g \in Handlers : g = h /\ job'[g] = j
    BY <2>1, WorkersOf DEF Goto, ClockInv, TypeOK, OneAtATime
  <2>4. seen'[h] = [status |-> lic.status, dueAt |-> lic.dueAt]
    BY <2>2, WorkersOf DEF ClockInv, TypeOK
  <2>5. FreshOf(lic.status, lic.dueAt)' /\ (healthy <= day)'
    BY <2>2 DEF ClocksFresh, FreshOf
  <2>6. \A g \in Handlers : FreshOf(seen[g].status, seen[g].dueAt)'
    BY <2>2, <2>3, <2>4 DEF ClocksFresh, FreshOf
  <2>7. \A g \in Handlers : job'[g] # "subscription.resumed"
    BY <2>3 DEF OneAtATime
  <2> QED
    BY <2>5, <2>6, <2>7 DEF ClocksFresh, Events
<1>2. CASE AdminWrites(h)
  <2>1. PICK status \in {"revoked", "suspended"} : WriteLicense([lic EXCEPT !.status = status])
    BY <1>2 DEF AdminWrites, Admin, OneAtATime
  <2>2. Goto(h, "mirror") /\ UNCHANGED day
    BY <1>2 DEF AdminWrites
  <2>3. status \in Statuses /\ status # "active" /\ None \in Days \cup {None}
    BY DEF Statuses
  <2> QED
    BY <2>1, <2>2, <2>3, FreshRows, HandlerWrites
<1> QED
  BY <1>1, <1>2

(* No handler sees the steps of another worker. *)
LEMMA OthersKeep ==
  ASSUME ClockInv, ClocksFresh, NEW w \in Workers \ Handlers, NEW j, Goto(w, j),
         \/ UNCHANGED seen
         \/ seen' = [seen EXCEPT ![w] = Unread],
         FreshOf(lic.status, lic.dueAt)', (healthy <= day)', UNCHANGED healthy
  PROVE  ClocksFresh'
<1>1. \A h \in Handlers : job'[h] = job[h] /\ seen'[h] = seen[h]
  BY WorkersOf DEF Goto, ClockInv, TypeOK
<1> QED
  BY <1>1 DEF ClocksFresh, FreshOf

(* An expiry pass writes "expired" or leaves the license alone.            *)
LEMMA PassFresh ==
  ASSUME ClockInv, ClocksFresh, NEW c \in Checkers, StartPass(c) \/ Check(c)
  PROVE  ClocksFresh'
<1>1. c \in Workers \ Handlers
  BY LifecycleConstantsOK DEF Workers
<1>2. ASSUME UNCHANGED <<day, lic, healthy>>
      PROVE  FreshOf(lic.status, lic.dueAt)' /\ (healthy <= day)'
  BY <1>2 DEF ClocksFresh, FreshOf
<1>3. CASE StartPass(c) \/ ScanGrace(c) \/ ScanTrials(c) \/ ScanPastDue(c) \/ ScanDunning(c)
  <2>1. UNCHANGED <<day, lic, healthy, seen>>
    BY <1>3 DEF StartPass, ScanGrace, ScanTrials, ScanPastDue, Scan, ScanDunning, rows
  <2>2. \E j : Goto(c, j)
    BY <1>3 DEF StartPass, ScanGrace, ScanTrials, ScanPastDue, Scan, ScanDunning
  <2> QED
    BY <1>1, <1>2, <2>1, <2>2, OthersKeep
<1>4. CASE SyncSubscription(c)
  BY <1>1, <1>2, <1>4, OthersKeep DEF SyncSubscription, Finish
<1>5. CASE Expire(c)
  <2>1. \E j : Goto(c, j) /\ seen' = [seen EXCEPT ![c] = Unread]
    BY <1>5 DEF Expire, Resume
  <2>2. Save([lic EXCEPT !.status = "expired"]) /\ UNCHANGED day
    BY <1>5 DEF Expire
  <2>3. /\ "expired" \in Statuses /\ None \in Days \cup {None}
        /\ [lic EXCEPT !.status = "expired"].status = "expired"
    BY DEF Statuses, ClockInv, TypeOK, Row
  <2>4. FreshOf(lic.status, lic.dueAt)' /\ (healthy <= day)' /\ UNCHANGED healthy
    BY <2>2, <2>3, FreshRows, FreshWrite
  <2> QED
    BY <1>1, <2>1, <2>4, OthersKeep
<1> QED
  BY <1>3, <1>4, <1>5 DEF Check

(* Mails and crashes leave the license alone. *)
LEMMA MailFresh ==
  ASSUME OneAtATime, ClockInv, ClocksFresh, NEW w \in Workers, Mail(w) \/ Crash(w)
  PROVE  ClocksFresh'
<1>1. UNCHANGED <<day, lic, healthy>>
  BY DEF Mail, CheckNotification, SendMail, RecordNotification, Crash, rows
<1>2. /\ \E j \in {"idle", "sync", "send", "record"} : Goto(w, j)
      /\ w \in Handlers => \E j \in {"idle", "send", "record"} : Goto(w, j)
      /\ \/ UNCHANGED seen
         \/ seen' = [seen EXCEPT ![w] = Unread]
  BY LifecycleConstantsOK
  DEF Mail, CheckNotification, SendMail, RecordNotification, Crash, Resume, Finish
<1>3. FreshOf(lic.status, lic.dueAt)' /\ (healthy <= day)'
  BY <1>1 DEF ClocksFresh, FreshOf
<1>4. CASE w \in Handlers
  <2>1. \A h \in Handlers : job'[h] \notin Events
    BY <1>2, <1>4, WorkersOf DEF Goto, ClockInv, TypeOK, OneAtATime, Events
  <2> QED
    BY <1>3, <2>1 DEF ClocksFresh, Events
<1>5. CASE w \notin Handlers
  BY <1>1, <1>2, <1>3, <1>5, OthersKeep
<1> QED
  BY <1>4, <1>5

(* The calendar moves when no event is being handled. *)
LEMMA DayFresh ==
  ASSUME OneAtATime, ClockInv, ClocksFresh, NextDay PROVE ClocksFresh'
<1>1. \A h \in Handlers : job'[h] = "idle"
  BY DEF NextDay, OneAtATime, mine
<1>2. day \in Int /\ healthy \in Int
  BY LifecycleConstantsOK DEF ClockInv, TypeOK, Days
<1>3. FreshOf(lic.status, lic.dueAt)' /\ (healthy <= day)'
  BY <1>2 DEF NextDay, ClocksFresh, FreshOf
<1> QED
  BY <1>1, <1>3 DEF ClocksFresh, Events

(* Where events are handled one at a time and within a day, and only a     *)
(* payment makes a license active, the dunning clock of a past-due license *)
(* is never older than the last day it was active, whatever expiry passes, *)
(* failed writes and crashes come between (stripe.go:1086-1099,            *)
(* 1316-1345).  A resumed subscription and a reinstated license keep an    *)
(* old clock: the hypothesis leaves them out.                              *)
THEOREM ClockStaysFresh ==
  ASSUME OneAtATime PROVE Spec => []ClockIsFresh
<1>1. Init => ClocksFresh
  <2> SUFFICES ASSUME Init PROVE ClocksFresh
    OBVIOUS
  <2>1. \A h \in Handlers : job[h] = "idle"
    BY WorkersOf DEF Init
  <2>2. lic.dueAt = None /\ healthy <= day
    BY DEF Init
  <2> QED
    BY <2>1, <2>2 DEF ClocksFresh, FreshOf, Events
<1>2. ClockInv /\ ClocksFresh /\ [Next]_vars => ClocksFresh'
  <2> SUFFICES ASSUME ClockInv, ClocksFresh, [Next]_vars PROVE ClocksFresh'
    OBVIOUS
  <2>1. CASE UNCHANGED vars
    BY <2>1 DEF vars, rows, mine, ClocksFresh, FreshOf
  <2> QED
    BY <2>1, RequestFresh, HandleFresh, PassFresh, MailFresh, DayFresh DEF Next
<1>3. ClockInv /\ ClocksFresh => ClockIsFresh
  <2> SUFFICES ASSUME ClockInv, ClocksFresh, lic.status = "past_due" PROVE lic.dueAt >= healthy
    BY DEF ClockIsFresh
  <2>1. lic.dueAt # None /\ lic.dueAt \in Days /\ healthy \in Days
    BY DEF ClockInv, TypeOK, PastDueHasClock, Row
  <2>2. lic.dueAt \in Int /\ healthy \in Int /\ healthy <= lic.dueAt
    BY <2>1, LifecycleConstantsOK DEF Days, ClocksFresh, FreshOf
  <2> QED
    BY <2>2
<1> QED
  BY <1>1, <1>2, <1>3, ClockInvHolds, PTL DEF Spec

-----------------------------------------------------------------------------
(* Tagged mails, where there is one handler and one expiry pass at a time. *)
OnePass   == \A c, d \in Checkers : c = d
OneOfEach == OnePass /\ \A g, h \in Handlers : g = h

Rungs == Tiers \X Days
Mails == {"recovered"} \X (Days \cup {None})

(* The days after which a rung of the ladder is due, and when it is. *)
DaysOf(tier) ==
  CASE tier = "dunning_first" -> First [] tier = "dunning_second" -> Second [] OTHER -> Final

Due(tier, d) == d + DaysOf(tier) <= day

(* The rung a pass is about to mail is due, and no higher one is. *)
HighestDue(t) ==
  \E tier \in Tiers, d \in Days :
    /\ t = <<tier, d>> /\ Due(tier, d)
    /\ \A s \in Tiers : DaysOf(tier) < DaysOf(s) => ~ Due(s, d)

RightTag(w, t) ==
  /\ w \in Handlers => t \in Mails
  /\ w \in Checkers => t \in Rungs /\ HighestDue(t)

(* A worker's step that sends and records nothing. *)
Quiet(w) ==
  /\ \E j \in Jobs \ {"send", "record"}, t \in Tags \cup {NoTag} :
       /\ Goto(w, j) /\ tag' = [tag EXCEPT ![w] = t]
       /\ j = "check" => RightTag(w, t)
  /\ UNCHANGED <<day, notes, mails>>
  /\ faults' \in {faults, faults + 1}
  /\ job[w] = "record" => faults' = faults + 1

(* The rung that TierReached chooses is the highest that is due. *)
LEMMA TierIsHighest ==
  ASSUME day \in Days, NEW d \in Days, NEW tier, tier = TierReached(day - d), tier # "none"
  PROVE  tier \in Tiers /\ HighestDue(<<tier, d>>)
<1>1. day \in Int /\ d \in Int /\ First \in Int /\ Second \in Int /\ Final \in Int
      /\ First < Second /\ Second < Final
  BY LifecycleConstantsOK DEF Days
<1>2. tier \in Tiers /\ Due(tier, d)
  BY <1>1 DEF TierReached, Tiers, Due, DaysOf
<1>3. ASSUME NEW s \in Tiers, DaysOf(tier) < DaysOf(s) PROVE ~ Due(s, d)
  <2>1. /\ DaysOf("dunning_first") = First /\ DaysOf("dunning_second") = Second
        /\ DaysOf("dunning_final") = Final
    BY DEF DaysOf
  <2>2. /\ tier = "dunning_first" => day < d + Second
        /\ tier = "dunning_second" => day < d + Final
    BY <1>1 DEF TierReached
  <2>3. day < d + DaysOf(s)
    BY <1>1, <1>2, <1>3, <2>1, <2>2 DEF Tiers
  <2> QED
    BY <1>1, <2>1, <2>3 DEF Due, Tiers
<1> QED
  BY <1>2, <1>3 DEF HighestDue

(* A worker that ends, or a pass that goes on, sends nothing. *)
LEMMA EndsQuietly ==
  ASSUME ClockInv, NEW w \in Workers, NEW stage \in Pass,
         Finish(w) \/ Resume(w, stage) \/ AdminWrites(w) \/ Load(w),
         UNCHANGED <<day, notes, mails>>, faults' \in {faults, faults + 1},
         job[w] = "record" => faults' = faults + 1
  PROVE  Quiet(w)
<1>1. tag[w] \in Tags \cup {NoTag} /\ tag = [tag EXCEPT ![w] = tag[w]]
  BY DEF ClockInv, TypeOK
<1>2. /\ {"idle", "mirror"} \cup Pass \subseteq Jobs \ {"send", "record", "check"}
      /\ Inputs \cap (Events \cup Requests) \subseteq Jobs \ {"send", "record", "check"}
  BY DEF Jobs, Pass, Events, Requests
<1>3. \E j \in Jobs \ {"send", "record", "check"}, t \in Tags \cup {NoTag} :
        Goto(w, j) /\ tag' = [tag EXCEPT ![w] = t]
  BY <1>1, <1>2 DEF Finish, Resume, AdminWrites, Load
<1> QED
  BY <1>3 DEF Quiet

(* Events and requests send nothing: they may decide to. *)
LEMMA HandlesQuietly ==
  ASSUME ClockInv, NEW h \in Handlers, Load(h) \/ AdminWrites(h) \/ Handle(h)
  PROVE  Quiet(h)
<1>1. h \in Workers /\ h \notin Checkers /\ "sync" \in Pass
  BY WorkersOf, LifecycleConstantsOK DEF Pass
<1>2. job[h] # "record" /\ UNCHANGED <<day, notes, mails>> /\ faults' \in {faults, faults + 1}
  BY DEF Load, AdminWrites, Handle, InvoicePaid, SubscriptionUpdated, SubscriptionDeleted,
         PaymentFailed, Refunded, Paused, Resumed, Canceled, AdminMirrors, Save, Fault
<1>3. CASE \E recovered \in BOOLEAN : AfterUpdate(h, recovered) /\ ~ Finish(h)
  <2>1. Goto(h, "check") /\ tag' = [tag EXCEPT ![h] = <<"recovered", seen[h].dueAt>>]
    BY <1>3 DEF AfterUpdate
  <2>2. <<"recovered", seen[h].dueAt>> \in Mails /\ Mails \subseteq Tags
    BY <1>1 DEF ClockInv, TypeOK, Read, Mails, Tags
  <2>3. "check" \in Jobs \ {"send", "record"}
    BY DEF Jobs, Mailing
  <2> QED
    BY <1>1, <1>2, <2>1, <2>2, <2>3 DEF Quiet, RightTag
<1>4. CASE Finish(h) \/ AdminWrites(h) \/ Load(h)
  BY <1>1, <1>2, <1>4, EndsQuietly
<1> QED
  BY <1>3, <1>4
  DEF Handle, InvoicePaid, SubscriptionUpdated, SubscriptionDeleted,
      PaymentFailed, Refunded, Paused, Resumed, Canceled, AdminMirrors

(* Neither do the checks of an expiry pass. *)
LEMMA PassesQuietly ==
  ASSUME ClockInv, NEW c \in Checkers, StartPass(c) \/ Check(c)
  PROVE  Quiet(c)
<1>1. c \in Workers /\ c \notin Handlers /\ Expiring \cup Pass \subseteq Jobs \ {"send", "record", "check"}
  BY WorkersOf, LifecycleConstantsOK DEF Pass, Expiring, Jobs
<1>2. job[c] # "record" /\ UNCHANGED <<day, notes, mails>> /\ faults' \in {faults, faults + 1}
  BY DEF StartPass, Check, ScanGrace, ScanTrials, ScanPastDue, Scan, Expire, Expiring,
         ScanDunning, SyncSubscription, Save, Fault
<1>3. CASE Finish(c) \/ \E stage \in Pass : Resume(c, stage)
  BY <1>1, <1>2, <1>3, EndsQuietly DEF Pass
<1>4. ASSUME NEW j \in Expiring \cup Pass, Goto(c, j), UNCHANGED tag PROVE Quiet(c)
  <2>1. tag[c] \in Tags \cup {NoTag} /\ tag' = [tag EXCEPT ![c] = tag[c]]
    BY <1>1, <1>4 DEF ClockInv, TypeOK
  <2> QED
    BY <1>1, <1>2, <1>4, <2>1 DEF Quiet
<1>5. CASE ScanDunning(c)
  <2> DEFINE tier == IF lic.status = "past_due" /\ lic.dueAt # None
                       THEN TierReached(day - lic.dueAt) ELSE "none"
  <2>1. CASE tier = "none"
    BY <1>4, <1>5, <2>1 DEF ScanDunning, Pass
  <2>2. CASE tier # "none"
    <3>1. /\ Goto(c, "check") /\ tag' = [tag EXCEPT ![c] = <<tier, lic.dueAt>>]
          /\ lic.dueAt \in Days /\ day \in Days /\ tier = TierReached(day - lic.dueAt)
      BY <1>5, <2>2 DEF ScanDunning, ClockInv, TypeOK, Row
    <3>2. tier \in Tiers /\ HighestDue(<<tier, lic.dueAt>>)
      BY <2>2, <3>1, TierIsHighest
    <3>3. <<tier, lic.dueAt>> \in Rungs /\ Rungs \subseteq Tags /\ "check" \in Jobs \ {"send", "record"}
      BY <3>1, <3>2 DEF Rungs, Tags, Jobs, Mailing
    <3> QED
      BY <1>1, <1>2, <3>1, <3>2, <3>3 DEF Quiet, RightTag
  <2> QED
    BY <2>1, <2>2
<1> QED
  BY <1>3, <1>4, <1>5
  DEF StartPass, Check, ScanGrace, ScanTrials, ScanPastDue, Scan, Expire, SyncSubscription,
      Pass, Expiring

(* A crash counts as a fault. *)
LEMMA CrashesQuietly ==
  ASSUME ClockInv, NEW w \in Workers, Crash(w) PROVE Quiet(w)
  BY EndsQuietly DEF Crash, Fault, Pass

(* Nobody is about to send what was recorded; what was sent is recorded,   *)
(* about to be, or was lost in a crash.                                    *)
SentOnce ==
  /\ \A w \in Workers : job[w] \in Mailing => IF w \in Handlers THEN tag[w] \in Mails ELSE tag[w] \in Rungs
  /\ \A w \in Workers : job[w] = "send" => tag[w] \notin notes
  /\ \A t \in Tags :
       \/ mails[t] <= faults
       \/ /\ mails[t] <= 1 + faults
          /\ t \in notes \/ \E w \in Workers : job[w] = "record" /\ tag[w] = t

(* Handlers and passes mail different things. *)
LEMMA MailsAreNoRungs == Mails \cap Rungs = {}
  BY DEF Mails, Rungs, Tiers

(* Quiet steps keep it: a crash loses a mail's record, and counts. *)
LEMMA QuietSentOnce ==
  ASSUME ClockInv, SentOnce, NEW w \in Workers, Quiet(w) PROVE SentOnce'
<1>1. PICK j \in Jobs \ {"send", "record"}, t \in Tags \cup {NoTag} :
        /\ Goto(w, j) /\ tag' = [tag EXCEPT ![w] = t]
        /\ j = "check" => RightTag(w, t)
  BY DEF Quiet
<1>2. /\ UNCHANGED <<notes, mails>> /\ faults \in Int /\ mails \in [Tags -> Int]
      /\ faults' = faults \/ faults' = faults + 1
      /\ job[w] = "record" => faults' = faults + 1
  BY DEF Quiet, ClockInv, TypeOK
<1>3. /\ job'[w] = j /\ tag'[w] = t
      /\ \A v \in Workers : v # w => job'[v] = job[v] /\ tag'[v] = tag[v]
  BY <1>1 DEF Goto, ClockInv, TypeOK
<1>4. \A v \in Workers : job'[v] \in Mailing => IF v \in Handlers THEN tag'[v] \in Mails ELSE tag'[v] \in Rungs
  BY <1>1, <1>3 DEF SentOnce, Mailing, RightTag, Workers
<1>5. \A v \in Workers : job'[v] = "send" => tag'[v] \notin notes'
  BY <1>1, <1>2, <1>3 DEF SentOnce
<1>6. ASSUME NEW s \in Tags
      PROVE  \/ mails[s] <= faults'
             \/ /\ mails[s] <= 1 + faults'
                /\ s \in notes \/ \E v \in Workers : job'[v] = "record" /\ tag'[v] = s
  <2>1. CASE mails[s] <= faults
    BY <1>2, <2>1
  <2>2. CASE mails[s] <= 1 + faults /\ s \in notes
    BY <1>2, <2>2
  <2>3. ASSUME mails[s] <= 1 + faults, NEW v \in Workers, job[v] = "record", tag[v] = s
        PROVE  \/ mails[s] <= faults'
               \/ mails[s] <= 1 + faults' /\ job'[v] = "record" /\ tag'[v] = s
    BY <1>2, <1>3, <2>3
  <2> QED
    BY <2>1, <2>2, <2>3 DEF SentOnce
<1> QED
  BY <1>2, <1>4, <1>5, <1>6 DEF SentOnce

(* Looking a mail up, sending it and recording it. *)
LEMMA MailSentOnce ==
  ASSUME OneOfEach, ClockInv, SentOnce, NEW w \in Workers, Mail(w) PROVE SentOnce'
<1>1. /\ job[w] \in Mailing /\ tag[w] \in Tags /\ faults \in Int /\ mails \in [Tags -> Int]
      /\ UNCHANGED faults
  BY DEF Mail, CheckNotification, SendMail, RecordNotification, Mailing, ClockInv, TypeOK, MailsAreTagged
<1>2. ASSUME NEW v \in Workers, v # w, job[v] \in Mailing PROVE tag[v] # tag[w]
  BY <1>1, <1>2, MailsAreNoRungs DEF SentOnce, OneOfEach, OnePass, Workers
<1>3. CASE CheckNotification(w)
  <2>1. CASE tag[w] \in notes
    <3>1. Resume(w, "sync") /\ UNCHANGED <<day, notes, mails>> /\ job[w] # "record"
      BY <1>3, <2>1 DEF CheckNotification
    <3> QED
      BY <1>1, <3>1, EndsQuietly, QuietSentOnce DEF Pass
  <2>2. CASE tag[w] \notin notes
    <3>1. Goto(w, "send") /\ UNCHANGED <<notes, mails, tag>> /\ job[w] = "check"
      BY <1>3, <2>2 DEF CheckNotification
    <3>2. \A v \in Workers : job'[v] = IF v = w THEN "send" ELSE job[v]
      BY <3>1 DEF Goto, ClockInv, TypeOK
    <3> QED
      BY <1>1, <2>2, <3>1, <3>2 DEF SentOnce, Mailing
  <2> QED
    BY <2>1, <2>2
<1>4. CASE SendMail(w)
  <2>1. /\ job[w] = "send" /\ Goto(w, "record") /\ UNCHANGED <<notes, tag>>
        /\ mails' = [mails EXCEPT ![tag[w]] = mails[tag[w]] + 1]
    BY <1>4 DEF SendMail
  <2>2. \A v \in Workers : job'[v] = IF v = w THEN "record" ELSE job[v]
    BY <2>1 DEF Goto, ClockInv, TypeOK
  <2>3. mails[tag[w]] <= faults
    <3>1. tag[w] \notin notes
      BY <2>1 DEF SentOnce
    <3>2. \A v \in Workers : ~ (job[v] = "record" /\ tag[v] = tag[w])
      BY <1>2, <2>1 DEF Mailing
    <3> QED
      BY <1>1, <3>1, <3>2 DEF SentOnce
  <2>4. ASSUME NEW s \in Tags
        PROVE  \/ mails'[s] <= faults
               \/ /\ mails'[s] <= 1 + faults
                  /\ s \in notes \/ \E v \in Workers : job'[v] = "record" /\ tag[v] = s
    <3>1. CASE s = tag[w]
      BY <1>1, <2>1, <2>2, <2>3, <3>1
    <3>2. CASE s # tag[w]
      <4>1. mails'[s] = mails[s]
        BY <1>1, <2>1, <3>2
      <4>2. \A v \in Workers : job[v] = "record" /\ tag[v] = s => job'[v] = "record"
        BY <2>2
      <4> QED
        BY <4>1, <4>2 DEF SentOnce
    <3> QED
      BY <3>1, <3>2
  <2>5. \A v \in Workers : job'[v] = "send" => tag'[v] \notin notes'
    BY <2>1, <2>2 DEF SentOnce
  <2>6. \A v \in Workers : job'[v] \in Mailing => job[v] \in Mailing /\ tag'[v] = tag[v]
    BY <1>1, <2>1, <2>2
  <2> QED
    BY <1>1, <2>1, <2>4, <2>5, <2>6 DEF SentOnce
<1>5. CASE RecordNotification(w)
  <2>1. /\ job[w] = "record" /\ notes' = notes \cup {tag[w]} /\ UNCHANGED mails
        /\ \E j \in {"idle", "sync"} : Goto(w, j)
        /\ tag' = [tag EXCEPT ![w] = NoTag]
    BY <1>5 DEF RecordNotification, Resume, Finish
  <2>2. /\ \A v \in Workers : v # w => job'[v] = job[v] /\ tag'[v] = tag[v]
        /\ job'[w] \in {"idle", "sync"}
    BY <2>1 DEF Goto, ClockInv, TypeOK
  <2>3. \A v \in Workers : job'[v] \in Mailing => v # w /\ job[v] \in Mailing /\ tag'[v] = tag[v]
    BY <2>2 DEF Mailing
  <2>4. \A v \in Workers : job'[v] = "send" => tag'[v] \notin notes'
    BY <1>2, <2>1, <2>2 DEF SentOnce, Mailing
  <2>5. \A s \in Tags :
          \/ mails[s] <= faults
          \/ /\ mails[s] <= 1 + faults
             /\ s \in notes' \/ \E v \in Workers : job'[v] = "record" /\ tag'[v] = s
    BY <2>1, <2>2 DEF SentOnce
  <2> QED
    BY <1>1, <2>1, <2>3, <2>4, <2>5 DEF SentOnce
<1> QED
  BY <1>3, <1>4, <1>5 DEF Mail

(* Where one handler works next to one expiry pass, no mail of an episode  *)
(* goes out twice, but for one more with each crash between sending and    *)
(* recording it (stripe.go:1132-1134, expiry.go:199-202, 228-262).         *)
THEOREM MailsGoOutOnce ==
  ASSUME OneOfEach PROVE Spec => []MailsOnce
<1>1. Init => SentOnce
  <2> SUFFICES ASSUME Init PROVE SentOnce
    OBVIOUS
  <2>1. (\A w \in Workers : job[w] = "idle") /\ (\A t \in Tags : mails[t] = 0) /\ faults = 0
    BY DEF Init
  <2> QED
    BY <2>1 DEF SentOnce, Mailing
<1>2. ClockInv /\ SentOnce /\ [Next]_vars => SentOnce'
  <2> SUFFICES ASSUME ClockInv, SentOnce, [Next]_vars PROVE SentOnce'
    OBVIOUS
  <2>1. CASE NextDay \/ UNCHANGED vars
    BY <2>1 DEF NextDay, vars, rows, mine, SentOnce
  <2> QED
    BY <2>1, HandlesQuietly, PassesQuietly, CrashesQuietly, QuietSentOnce, MailSentOnce, WorkersOf
    DEF Next
<1>3. ClockInv /\ SentOnce => MailsOnce
  <2> SUFFICES ASSUME ClockInv, SentOnce, NEW t \in Tags PROVE mails[t] <= 1 + faults
    BY DEF MailsOnce
  <2>1. mails[t] \in Int /\ faults \in Int
    BY DEF ClockInv, TypeOK
  <2> QED
    BY <2>1 DEF SentOnce
<1> QED
  BY <1>1, <1>2, <1>3, ClockInvHolds, PTL DEF Spec

-----------------------------------------------------------------------------
(* The ladder, where there is one expiry pass at a time and any number of  *)
(* handlers: a rung that was mailed is due, and above the rung that a pass *)
(* is about to mail nothing was mailed.                                    *)
TopRung(t) ==
  \E tier \in Tiers, d \in Days :
    /\ t = <<tier, d>> /\ Due(tier, d)
    /\ \A s \in Tiers : DaysOf(tier) < DaysOf(s) => mails[<<s, d>>] = 0

Climbing ==
  /\ \A tier \in Tiers, d \in Days : mails[<<tier, d>>] > 0 => Due(tier, d)
  /\ \A c \in Checkers : job[c] \in {"check", "send"} => TopRung(tag[c])
  /\ \A h \in Handlers : job[h] \in Mailing => tag[h] \in Mails

(* What the ladder is made of. *)
LEMMA Rung ==
  ASSUME ClockInv, NEW tier \in Tiers, NEW d \in Days
  PROVE  /\ <<tier, d>> \in Tags /\ mails[<<tier, d>>] \in Nat /\ <<tier, d>> \notin Mails
         /\ day \in Int /\ d \in Int /\ DaysOf(tier) \in Int
<1>1. <<tier, d>> \in Tags /\ <<tier, d>> \notin Mails
  BY DEF Tags, Mails, Tiers
<1> QED
  BY <1>1, LifecycleConstantsOK DEF ClockInv, TypeOK, Days, DaysOf

(* The highest rung that is due has none above it that was mailed. *)
LEMMA DueIsTop ==
  ASSUME ClockInv, Climbing, NEW t, HighestDue(t) PROVE TopRung(t)
<1>1. PICK tier \in Tiers, d \in Days :
        /\ t = <<tier, d>> /\ Due(tier, d)
        /\ \A s \in Tiers : DaysOf(tier) < DaysOf(s) => ~ Due(s, d)
  BY DEF HighestDue
<1>2. ASSUME NEW s \in Tiers, DaysOf(tier) < DaysOf(s) PROVE mails[<<s, d>>] = 0
  <2>1. mails[<<s, d>>] \in Nat
    BY Rung
  <2>2. ~ (mails[<<s, d>>] > 0)
    BY <1>1, <1>2 DEF Climbing
  <2> QED
    BY <2>1, <2>2
<1> QED
  BY <1>1, <1>2 DEF TopRung

(* Quiet steps, and those that mail, keep the ladder. *)
LEMMA QuietClimbing ==
  ASSUME ClockInv, Climbing, NEW w \in Workers, Quiet(w) PROVE Climbing'
<1>1. PICK j \in Jobs \ {"send", "record"}, t \in Tags \cup {NoTag} :
        /\ Goto(w, j) /\ tag' = [tag EXCEPT ![w] = t]
        /\ j = "check" => RightTag(w, t)
  BY DEF Quiet
<1>2. UNCHANGED <<day, mails>>
  BY DEF Quiet
<1>3. /\ job'[w] = j /\ tag'[w] = t
      /\ \A v \in Workers : v # w => job'[v] = job[v] /\ tag'[v] = tag[v]
  BY <1>1 DEF Goto, ClockInv, TypeOK
<1>4. \A tier \in Tiers, d \in Days : mails'[<<tier, d>>] > 0 => Due(tier, d)'
  BY <1>2 DEF Climbing, Due
<1>5. ASSUME NEW c \in Checkers, job'[c] \in {"check", "send"} PROVE TopRung(tag[c])'
  <2>1. TopRung(tag'[c])
    BY <1>1, <1>3, <1>5, DueIsTop, WorkersOf DEF RightTag, Climbing
  <2> QED
    BY <1>2, <2>1 DEF TopRung, Due
<1>6. \A h \in Handlers : job'[h] \in Mailing => tag'[h] \in Mails
  BY <1>1, <1>3, WorkersOf DEF RightTag, Climbing, Mailing
<1> QED
  BY <1>4, <1>5, <1>6 DEF Climbing

(* The one pass sends the rung above which nothing was mailed; handlers    *)
(* send no rung.                                                           *)
LEMMA SendsTop ==
  ASSUME ClockInv, Climbing, NEW w \in Workers, SendMail(w),
         NEW tier \in Tiers, NEW d \in Days, mails'[<<tier, d>>] # mails[<<tier, d>>]
  PROVE  w \in Checkers /\ tag[w] = <<tier, d>> /\ TopRung(<<tier, d>>)
<1>1. tag[w] = <<tier, d>> /\ job[w] = "send"
  BY DEF SendMail, ClockInv, TypeOK
<1>2. w \in Checkers
  BY <1>1, Rung DEF Climbing, Mailing, Workers
<1> QED
  BY <1>1, <1>2 DEF Climbing

(* One more rung is mailed: the one the pass chose. *)
LEMMA MailClimbing ==
  ASSUME OnePass, ClockInv, Climbing, NEW w \in Workers, Mail(w)
  PROVE  Climbing'
<1>1. job[w] \in Mailing /\ tag[w] \in Tags /\ UNCHANGED <<day, faults>>
  BY DEF Mail, CheckNotification, SendMail, RecordNotification, Mailing, ClockInv, MailsAreTagged
<1>2. CASE UNCHANGED mails /\ UNCHANGED tag /\ job[w] = "check" /\ Goto(w, "send")
  <2>1. \A v \in Workers : job'[v] = IF v = w THEN "send" ELSE job[v]
    BY <1>2 DEF Goto, ClockInv, TypeOK
  <2>2. ASSUME NEW c \in Checkers, job'[c] \in {"check", "send"} PROVE TopRung(tag[c])'
    <3>1. TopRung(tag[c])
      BY <1>2, <2>1, <2>2, WorkersOf DEF Climbing
    <3> QED
      BY <1>1, <1>2, <3>1 DEF TopRung, Due
  <2>3. \A h \in Handlers : job'[h] \in Mailing => tag'[h] \in Mails
    BY <1>2, <2>1, WorkersOf DEF Climbing, Mailing
  <2> QED
    BY <1>1, <1>2, <2>2, <2>3 DEF Climbing, Due
<1>3. CASE UNCHANGED mails /\ Resume(w, "sync")
  <2>1. (\E j \in {"idle", "sync"} : Goto(w, j)) /\ tag' = [tag EXCEPT ![w] = NoTag]
    BY <1>3 DEF Resume, Finish
  <2>2. /\ job'[w] \in {"idle", "sync"}
        /\ \A v \in Workers : v # w => job'[v] = job[v] /\ tag'[v] = tag[v]
    BY <2>1 DEF Goto, ClockInv, TypeOK
  <2>3. ASSUME NEW c \in Checkers, job'[c] \in {"check", "send"} PROVE TopRung(tag[c])'
    <3>1. TopRung(tag[c]) /\ tag'[c] = tag[c]
      BY <2>2, <2>3, WorkersOf DEF Climbing
    <3> QED
      BY <1>1, <1>3, <3>1 DEF TopRung, Due
  <2>4. \A h \in Handlers : job'[h] \in Mailing => tag'[h] \in Mails
    BY <2>2, WorkersOf DEF Climbing, Mailing
  <2> QED
    BY <1>1, <1>3, <2>3, <2>4 DEF Climbing, Due
<1>4. CASE SendMail(w)
  <2>1. Goto(w, "record") /\ UNCHANGED tag
    BY <1>4 DEF SendMail
  <2>2. \A v \in Workers : job'[v] = IF v = w THEN "record" ELSE job[v]
    BY <2>1 DEF Goto, ClockInv, TypeOK
  <2>3. ASSUME NEW tier \in Tiers, NEW d \in Days, mails'[<<tier, d>>] > 0
        PROVE  Due(tier, d)'
    <3>1. Due(tier, d)
      <4>1. CASE mails'[<<tier, d>>] = mails[<<tier, d>>]
        BY <2>3, <4>1 DEF Climbing
      <4>2. CASE mails'[<<tier, d>>] # mails[<<tier, d>>]
        BY <1>4, <4>2, SendsTop DEF TopRung
      <4> QED
        BY <4>1, <4>2
    <3> QED
      BY <1>1, <3>1 DEF Due
  <2>4. ASSUME NEW c \in Checkers, job'[c] \in {"check", "send"} PROVE TopRung(tag[c])'
    <3>1. c # w /\ job[c] \in {"check", "send"} /\ w \in Handlers
      BY <2>2, <2>4, WorkersOf DEF OnePass, Workers
    <3>2. PICK tier \in Tiers, d \in Days :
            /\ tag[c] = <<tier, d>> /\ Due(tier, d)
            /\ \A s \in Tiers : DaysOf(tier) < DaysOf(s) => mails[<<s, d>>] = 0
      BY <3>1 DEF Climbing, TopRung
    <3>3. \A s \in Tiers : mails'[<<s, d>>] = mails[<<s, d>>]
      BY <1>4, <3>1, SendsTop, LifecycleConstantsOK
    <3> QED
      BY <1>1, <2>1, <3>2, <3>3 DEF TopRung, Due
  <2>5. \A h \in Handlers : job'[h] \in Mailing => tag'[h] \in Mails
    BY <1>1, <2>1, <2>2, WorkersOf DEF Climbing
  <2> QED
    BY <2>3, <2>4, <2>5 DEF Climbing
<1> QED
  BY <1>2, <1>3, <1>4 DEF Mail, CheckNotification, RecordNotification

(* The calendar only makes more rungs due. *)
LEMMA DayClimbing ==
  ASSUME ClockInv, Climbing, NextDay PROVE Climbing'
<1>1. UNCHANGED <<mails, job, tag>> /\ day' = day + 1
  BY DEF NextDay, mine
<1>2. ASSUME NEW tier \in Tiers, NEW d \in Days, Due(tier, d) PROVE Due(tier, d)'
  <2>1. day \in Int /\ d \in Int /\ DaysOf(tier) \in Int
    BY Rung
  <2>2. d + DaysOf(tier) <= day
    BY <1>2 DEF Due
  <2>3. d + DaysOf(tier) <= day'
    BY <1>1, <2>1, <2>2
  <2>4. Due(tier, d)' <=> d + DaysOf(tier) <= day'
    BY DEF Due, DaysOf
  <2> QED
    BY <2>3, <2>4
<1>3. ASSUME NEW c \in Checkers, job'[c] \in {"check", "send"} PROVE TopRung(tag[c])'
  <2>1. TopRung(tag[c])
    BY <1>1, <1>3 DEF Climbing
  <2> QED
    BY <1>1, <1>2, <2>1 DEF TopRung
<1> QED
  BY <1>1, <1>2, <1>3 DEF Climbing

(* Where there is one expiry pass at a time, the ladder only climbs: no    *)
(* lower rung of an episode is mailed after a higher one, whatever crashes *)
(* and however many days pass between a pass's look and its mail           *)
(* (expiry.go:205-262).                                                    *)
THEOREM LadderAlwaysClimbs ==
  ASSUME OnePass PROVE Spec => LadderClimbs
<1>1. Init => Climbing
  <2> SUFFICES ASSUME Init PROVE Climbing
    OBVIOUS
  <2>1. (\A w \in Workers : job[w] = "idle") /\ mails = [t \in Tags |-> 0]
    BY DEF Init
  <2>2. \A tier \in Tiers, d \in Days : <<tier, d>> \in Tags
    BY DEF Tags
  <2> QED
    BY <2>1, <2>2, WorkersOf DEF Climbing, Mailing
<1>2. ClockInv /\ Climbing /\ [Next]_vars => Climbing'
  <2> SUFFICES ASSUME ClockInv, Climbing, [Next]_vars PROVE Climbing'
    OBVIOUS
  <2>1. CASE UNCHANGED vars
    BY <2>1 DEF vars, rows, mine, Climbing, TopRung, Due
  <2> QED
    BY <2>1, HandlesQuietly, PassesQuietly, CrashesQuietly, QuietClimbing, MailClimbing,
       DayClimbing, WorkersOf DEF Next
<1> DEFINE Higher ==
      \A d \in Days :
        /\ mails[<<"dunning_final", d>>] > 0 =>
             /\ mails'[<<"dunning_second", d>>] = mails[<<"dunning_second", d>>]
             /\ mails'[<<"dunning_first", d>>] = mails[<<"dunning_first", d>>]
        /\ mails[<<"dunning_second", d>>] > 0 =>
             mails'[<<"dunning_first", d>>] = mails[<<"dunning_first", d>>]
<1>3. ClockInv /\ Climbing /\ [Next]_vars => [Higher]_vars
  <2> SUFFICES ASSUME ClockInv, Climbing, [Next]_vars PROVE Higher
    OBVIOUS
  <2>1. CASE UNCHANGED mails
    BY <2>1
  <2>2. ASSUME NEW w \in Workers, SendMail(w) PROVE Higher
    <3>1. ASSUME NEW low \in Tiers, NEW high \in Tiers, DaysOf(low) < DaysOf(high),
                 NEW d \in Days, mails[<<high, d>>] > 0
          PROVE  mails'[<<low, d>>] = mails[<<low, d>>]
      <4>1. TopRung(<<low, d>>) => mails[<<high, d>>] = 0
        BY <3>1 DEF TopRung
      <4> QED
        BY <2>2, <3>1, <4>1, SendsTop
    <3>2. /\ DaysOf("dunning_first") = First /\ DaysOf("dunning_second") = Second
          /\ DaysOf("dunning_final") = Final
          /\ "dunning_first" \in Tiers /\ "dunning_second" \in Tiers /\ "dunning_final" \in Tiers
      BY DEF DaysOf, Tiers
    <3>3. First < Second /\ Second < Final /\ First < Final
      BY LifecycleConstantsOK
    <3> QED
      BY <3>1, <3>2, <3>3
  <2>3. UNCHANGED mails \/ \E w \in Workers : SendMail(w)
    <3>1. ASSUME NEW w \in Workers, Quiet(w) PROVE UNCHANGED mails
      BY <3>1 DEF Quiet
    <3> QED
      BY <3>1, HandlesQuietly, PassesQuietly, CrashesQuietly, WorkersOf
      DEF Next, NextDay, vars, Mail, CheckNotification, RecordNotification
  <2> QED
    BY <2>1, <2>2, <2>3
<1> QED
  BY <1>1, <1>2, <1>3, ClockInvHolds, PTL DEF Spec, LadderClimbs

=============================================================================
