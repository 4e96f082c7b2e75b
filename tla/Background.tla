----------------------------- MODULE Background -----------------------------
(***************************************************************************)
(* What must happen in the end: retries of webhooks, mails, requests and   *)
(* Stripe events, the drains of metered usage, the clearing of dead        *)
(* activations.  One component, chosen at the beginning, moves in a        *)
(* behaviour, under the fairness its loop or its clients justify.          *)
(***************************************************************************)
EXTENDS Webhooks, EmailQueue, Idempotency, Metering, Activation, EventClaim

VARIABLE focus  \* the component that moves

Foci == {"webhooks", "mails", "retries", "billing", "activations", "claims"}

BackgroundInit ==
  /\ focus \in Foci
  /\ WebhooksInit /\ EmailInit /\ IdempotencyInit
  /\ MeteringInit /\ ActivationInit /\ Init

BackgroundNext ==
  /\ UNCHANGED focus
  /\ IF focus = "webhooks" THEN WebhooksNext ELSE UNCHANGED webhookVars
  /\ IF focus = "mails" THEN EmailNext ELSE UNCHANGED emailVars
  /\ IF focus = "retries" THEN IdempotencyNext ELSE UNCHANGED idemVars
  /\ IF focus = "billing" THEN MeteringNext ELSE UNCHANGED meteringVars
  /\ IF focus = "activations" THEN ActivationNext ELSE UNCHANGED activationVars
  /\ IF focus = "claims" THEN Next ELSE UNCHANGED vars

backgroundVars ==
  <<focus, webhookVars, emailVars, idemVars, meteringVars, activationVars, vars>>

(* Time passes, requests end, and the loop's ticker fires (StartRetryLoop). *)
WebhooksFair ==
  /\ \A d \in Deliveries : WF_webhookVars(focus = "webhooks" /\ HoldPasses(d))
  /\ \A s \in Slots : WF_webhookVars(focus = "webhooks" /\ deliver(s))
  /\ \A l \in Loops : WF_webhookVars(focus = "webhooks" /\ ProcessRetries(l))

(* The processor runs every half minute, and a conversation ends. *)
MailsFair ==
  /\ WF_emailVars(focus = "mails" /\ processQueue)
  /\ \A m \in Mails : WF_emailVars(focus = "mails" /\ BackOffPasses(m))

(* A client repeats its request, the server answers, the hourly prune runs. *)
RetriesFair ==
  /\ WF_idemVars(focus = "retries" /\ Prune)
  /\ \A w \in Callers :
       /\ WF_idemVars(focus = "retries" /\ Send(w))
       /\ WF_idemVars(focus = "retries" /\ Proceed(w))

(* The sync loop lists every five minutes and a drain that has begun goes  *)
(* on (StartSyncLoop); only the bounded faults make a push fail.           *)
BillingFair ==
  \A d \in Drainers :
    /\ WF_meteringVars(focus = "billing" /\ List(d))
    /\ WF_meteringVars(focus = "billing" /\ Sync(d))

(* Requests that were begun end, and the hourly pass runs. *)
ActivationsFair ==
  /\ WF_activationVars(focus = "activations" /\ DeleteExpiredActivations)
  /\ \A r \in Requests : WF_activationVars(focus = "activations" /\ Serve(r))

(* Stripe redelivers until a 2xx, a live process runs on, and time passes. *)
ClaimsFair ==
  /\ \A w \in Workers :
       /\ WF_vars(focus = "claims" /\ ~acked /\ Deliver(w))
       /\ WF_vars(focus = "claims" /\ (ClaimStatement(w) \/ ClaimStatementFails(w)))
       /\ WF_vars(focus = "claims" /\ HandlerSucceeds(w))
       /\ WF_vars(focus = "claims" /\ Reply(w))
  /\ WF_vars(focus = "claims" /\ TimePasses)

BackgroundFairness ==
  WebhooksFair /\ MailsFair /\ RetriesFair /\ BillingFair /\ ActivationsFair /\ ClaimsFair

BackgroundSpec == BackgroundInit /\ [][BackgroundNext]_backgroundVars /\ BackgroundFairness

-----------------------------------------------------------------------------
(* A delivery has one attempt in flight and a bounded number in all; a     *)
(* mail is taken once, as far as the code can know, and given up at its    *)
(* last attempt (webhook.go:417-421, 538-543, 621-623, email.go:104-117,   *)
(* store.go:1256-1265).                                                    *)
OutboxSafe ==
  /\ WebhooksTypeOK /\ OneAttempt /\ PostsBounded
  /\ EmailTypeOK /\ MailedOnceIfKnown /\ GivenUpAtLast

(* A 2xx to Stripe means that the event is taken, however its deliveries   *)
(* overlap, and while a handler runs its claim says so (stripe.go:281-285).*)
EventsAreTaken == AckedMeansTaken /\ HandlerVisible

(* Whatever crashes or fails, every delivery is delivered or given up,     *)
(* every mail sent or given up, every row of usage synced or out of        *)
(* attempts, every Stripe event handled, and the activations of a license  *)
(* that stays dead are gone (webhook.go:608-634, email.go:652-664,         *)
(* store/metered.go:34-38, stripe.go:306-309, store.go:846).               *)
EverythingSettles ==
  /\ EveryDeliverySettles
  /\ EveryMailSettles
  /\ NotStarved
  /\ (focus = "claims") ~> applied > 0
  /\ <>[](focus = "activations" /\ license.status \in {"expired", "revoked"})
       => <>[](Active = {})

(* No client is told IDEMPOTENCY_IN_FLIGHT for ever: one that repeats its  *)
(* request gets a final answer (middleware/idempotency.go:123-125).        *)
RepeatersAreServed == \A w \in Callers : (focus = "retries") ~> (w \in served)
=============================================================================
