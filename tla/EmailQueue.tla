------------------------------ MODULE EmailQueue ------------------------------
(***************************************************************************)
(* The queue of mails (internal/store/store.go, EnqueueEmail on) and the   *)
(* SMTP conversation that sends one (internal/service/email.go).  A pass   *)
(* lists pending mails and sends each, a second time when the first        *)
(* conversation fails; the result is written by an update whose failure is *)
(* ignored.  Mails the code sends from a goroutine of their own make the   *)
(* same conversation, and leave no row.                                    *)
(***************************************************************************)
EXTENDS Integers, FiniteSets

CONSTANTS
  Mails,            \* bound: mails ever enqueued, oldest first
  MailBatch,        \* mails of a pass
  MaxMailAttempts,  \* of a row
  HasUser,          \* SMTP_USERNAME is set
  MaxMailFaults     \* bound: writes and passes lost

ASSUME MailConstantsOK ==
  /\ Mails \subseteq Nat \ {0}
  /\ MailBatch \in Nat \ {0} /\ MaxMailAttempts \in Nat \ {0}
  /\ HasUser \in BOOLEAN /\ MaxMailFaults \in Nat

VARIABLES
  mail,          \* of each mail: its row
  listed,        \* the pass: mails listed and not yet written
  talk,          \* the conversation: mail, first or second try, step, what the
                 \* server offers
  mailFaults,    \* bounded counter
  taken,         \* history: how often the server took each mail
  unknown        \* history: how often it did, and the row does not know

emailVars == <<mail, listed, talk, mailFaults, taken, unknown>>

NoMail == [status |-> "none", tries |-> 0, next |-> "unset"]
NoTalk == [mail |-> 0, try |-> 1, step |-> "idle", took |-> FALSE]

MailRow == [status : {"none", "pending", "sent", "failed"}, tries : Nat,
            next : {"unset", "held", "due"}]
Conversation ==
  [mail : Mails \cup {0}, try : 1..2, took : BOOLEAN,
   step : {"idle", "hello", "auth", "envelope", "data", "quit", "ok", "error"}]

EmailTypeOK ==
  /\ mail \in [Mails -> MailRow]
  /\ listed \subseteq Mails
  /\ talk \in Conversation
  /\ mailFaults \in Nat
  /\ taken \in [Mails -> Nat] /\ unknown \in [Mails -> Nat]

Due == {m \in Mails : mail[m].status = "pending" /\ mail[m].next # "held"}
Say(step) == talk' = [talk EXCEPT !.step = step]

(* The license of a checkout (payment/stripe.go:725). *)
EnqueueEmail(m) ==
  /\ mail[m].status = "none" /\ \A n \in Mails : n < m => mail[n].status # "none"
  /\ mail' = [mail EXCEPT ![m] = [NoMail EXCEPT !.status = "pending"]]
  /\ UNCHANGED <<listed, talk, mailFaults, taken, unknown>>

ListPendingEmails ==
  /\ listed = {} /\ Due # {}
  /\ listed' = {m \in Due : Cardinality({n \in Due : n < m}) < MailBatch}
  /\ UNCHANGED <<mail, talk, mailFaults, taken, unknown>>

-----------------------------------------------------------------------------
(* Send and sendOnce *)

(* Dial and EHLO, with STARTTLS where it is offered; any of it may fail.   *)
Connect ==
  /\ listed # {} /\ talk.step = "idle"
  /\ talk' \in {[talk EXCEPT !.mail = CHOOSE m \in listed : \A n \in listed : m <= n,
                             !.step = step] : step \in {"hello", "error"}}
  /\ UNCHANGED <<mail, listed, mailFaults, taken, unknown>>

(* pickAuth: PLAIN, then LOGIN, or an error when neither is offered.       *)
PickAuth ==
  /\ talk.step = "hello"
  /\ IF HasUser
       THEN \E offered \in SUBSET {"PLAIN", "LOGIN"} :
              IF offered = {} THEN Say("error") ELSE Say("auth")
       ELSE Say("envelope")
  /\ UNCHANGED <<mail, listed, mailFaults, taken, unknown>>

Auth ==
  /\ talk.step = "auth"
  /\ Say("envelope") \/ Say("error")
  /\ UNCHANGED <<mail, listed, mailFaults, taken, unknown>>

Envelope ==
  /\ talk.step = "envelope"
  /\ Say("data") \/ Say("error")
  /\ UNCHANGED <<mail, listed, mailFaults, taken, unknown>>

(* The server takes the mail, and its answer arrives or does not. *)
Data ==
  /\ talk.step = "data"
  /\ \/ Say("error") /\ UNCHANGED taken
     \/ /\ taken' = [taken EXCEPT ![talk.mail] = @ + 1]
        /\ talk' \in {[talk EXCEPT !.step = step, !.took = TRUE] : step \in {"quit", "error"}}
  /\ UNCHANGED <<mail, listed, mailFaults, unknown>>

(* An error of QUIT is an error of the whole conversation. *)
Quit ==
  /\ talk.step = "quit"
  /\ Say("ok") \/ Say("error")
  /\ UNCHANGED <<mail, listed, mailFaults, taken, unknown>>

(* Mutant: a mail is sent twice to be sure. *)
SendAgain_Always ==
  /\ talk.step \in {"ok", "error"} /\ talk.try = 1
  /\ unknown' = IF talk.took /\ talk.step = "error"
                  THEN [unknown EXCEPT ![talk.mail] = @ + 1] ELSE unknown
  /\ talk' = [talk EXCEPT !.try = 2, !.step = "idle", !.took = FALSE]
  /\ UNCHANGED <<mail, listed, mailFaults, taken>>

(* Once more after three seconds, whatever the error was. *)
SendAgain ==
  /\ talk.step = "error" /\ talk.try = 1
  /\ unknown' = IF talk.took THEN [unknown EXCEPT ![talk.mail] = @ + 1] ELSE unknown
  /\ talk' = [talk EXCEPT !.try = 2, !.step = "idle", !.took = FALSE]
  /\ UNCHANGED <<mail, listed, mailFaults, taken>>

Leave == listed' = listed \ {talk.mail} /\ talk' = NoTalk

MarkEmailSent ==
  /\ talk.step = "ok"
  /\ mail' = [mail EXCEPT ![talk.mail].status = "sent", ![talk.mail].tries = @ + 1]
  /\ Leave /\ UNCHANGED <<mailFaults, taken, unknown>>

(* Mutant: one attempt more than max_attempts. *)
MarkEmailFailed_OneMore ==
  LET m == talk.mail
      tries == mail[m].tries + 1
  IN
  /\ talk.step = "error" /\ talk.try = 2
  /\ mail' = [mail EXCEPT ![m] =
       [status |-> IF tries > MaxMailAttempts THEN "failed" ELSE @.status,
        next   |-> IF tries > MaxMailAttempts THEN "unset" ELSE "held",
        tries  |-> tries]]
  /\ unknown' = IF talk.took THEN [unknown EXCEPT ![m] = @ + 1] ELSE unknown
  /\ Leave /\ UNCHANGED <<mailFaults, taken>>

(* Mutant: a failed mail is put off, however often it failed. *)
MarkEmailFailed_Forever ==
  LET m == talk.mail IN
  /\ talk.step = "error" /\ talk.try = 2
  /\ mail' = [mail EXCEPT ![m].next = "held"]
  /\ unknown' = IF talk.took THEN [unknown EXCEPT ![m] = @ + 1] ELSE unknown
  /\ Leave /\ UNCHANGED <<mailFaults, taken>>

MarkEmailFailed ==
  LET m == talk.mail
      tries == mail[m].tries + 1
  IN
  /\ talk.step = "error" /\ talk.try = 2
  /\ mail' = [mail EXCEPT ![m] =
       [status |-> IF tries >= MaxMailAttempts THEN "failed" ELSE @.status,
        next   |-> IF tries >= MaxMailAttempts THEN "unset" ELSE "held",
        tries  |-> tries]]
  /\ unknown' = IF talk.took THEN [unknown EXCEPT ![m] = @ + 1] ELSE unknown
  /\ Leave /\ UNCHANGED <<mailFaults, taken>>

(* The update fails, which nobody looks at: the row is listed again. *)
MarkLost ==
  /\ talk.step = "ok" \/ (talk.step = "error" /\ talk.try = 2)
  /\ mailFaults < MaxMailFaults /\ mailFaults' = mailFaults + 1
  /\ unknown' = IF talk.took THEN [unknown EXCEPT ![talk.mail] = @ + 1] ELSE unknown
  /\ Leave /\ UNCHANGED <<mail, taken>>

(* The process restarts: the pass is forgotten. *)
Restart ==
  /\ listed # {}
  /\ mailFaults < MaxMailFaults /\ mailFaults' = mailFaults + 1
  /\ unknown' = IF talk.took THEN [unknown EXCEPT ![talk.mail] = @ + 1] ELSE unknown
  /\ listed' = {} /\ talk' = NoTalk
  /\ UNCHANGED <<mail, taken>>

BackOffPasses(m) ==
  /\ mail[m].status = "pending" /\ mail[m].next = "held"
  /\ mail' = [mail EXCEPT ![m].next = "due"]
  /\ UNCHANGED <<listed, talk, mailFaults, taken, unknown>>

EmailInit ==
  /\ mail = [m \in Mails |-> NoMail]
  /\ listed = {} /\ talk = NoTalk /\ mailFaults = 0
  /\ taken = [m \in Mails |-> 0] /\ unknown = [m \in Mails |-> 0]

processQueue ==
  \/ ListPendingEmails \/ Connect \/ PickAuth \/ Auth \/ Envelope \/ Data \/ Quit
  \/ SendAgain \/ MarkEmailSent \/ MarkEmailFailed

EmailNext ==
  \/ processQueue \/ MarkLost \/ Restart
  \/ \E m \in Mails : EnqueueEmail(m) \/ BackOffPasses(m)

EmailSpec == EmailInit /\ [][EmailNext]_emailVars

-----------------------------------------------------------------------------
(* Properties *)

(* The server takes a mail once, and again only when the code could not    *)
(* know that it had: the answer or QUIT failed, the update was lost or the *)
(* process died (service/email.go:104-117, 656-662).                       *)
MailedOnceIfKnown ==
  \A m \in Mails : taken[m] <= 1 + unknown[m]

(* A mail that fails is given up after MaxAttempts attempts, and only then *)
(* (store/store.go:1256-1265).                                             *)
GivenUpAtLast ==
  \A m \in Mails :
    /\ mail[m].tries <= MaxMailAttempts
    /\ mail[m].status = "failed" <=> mail[m].tries = MaxMailAttempts /\ mail[m].status # "sent"

(* A row that says sent was taken by the server, and no mail waits for     *)
(* ever, whatever its server answers (service/email.go:652-664).           *)
EveryMailSettles ==
  \A m \in Mails :
    mail[m].status = "pending" ~>
      mail[m].status = "failed" \/ (mail[m].status = "sent" /\ taken[m] > 0)
=============================================================================
