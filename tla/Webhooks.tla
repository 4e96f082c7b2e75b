------------------------------- MODULE Webhooks -------------------------------
(***************************************************************************)
(* The deliveries of a product's webhooks (internal/service/webhook.go,    *)
(* internal/store/webhook.go, internal/handler/webhook_admin.go).  A       *)
(* delivery is a row and, while it is attempted, a goroutine with its own  *)
(* copy of the row, which it writes back whole.  The time of the next      *)
(* retry is in the future ("held"), past ("due"), or not set, which counts *)
(* as past.  Goroutines that wait for the semaphore are attempts as well.  *)
(***************************************************************************)
EXTENDS Integers, FiniteSets

CONSTANTS
  Hooks,
  Deliveries,     \* bound: numbers of the rows ever created, oldest first
  Loops,          \* processes that run the retry loop
  Slots,          \* bound: attempts in progress at a time
  MaxRetries,     \* WEBHOOK_MAX_ATTEMPTS, of which 0 does what 1 does
  HookBatch,      \* rows a pass takes
  Saturated,      \* whether an attempt can outlast the time it is held for
  MaxTurns,       \* bound: webhooks switched off or on
  MaxHookFaults   \* bound: writes that fail, attempts that die

ASSUME HookConstantsOK ==
  /\ 0 \notin Hooks /\ Deliveries \subseteq Nat \ {0}
  /\ MaxRetries \in Nat \ {0} /\ HookBatch \in Nat \ {0}
  /\ Saturated \in BOOLEAN /\ MaxTurns \in Nat /\ MaxHookFaults \in Nat

VARIABLES
  hook,           \* of each webhook: on, off or deleted
  row,            \* of each delivery: its row
  attempt,        \* of each slot: delivery, attempts so far, and next step
  pass,           \* of each loop: listed rows, as they were, not yet looked at
  turns, hookFaults, \* bounded counters
  posts,          \* history: requests sent of each delivery
  unrecorded      \* history: of those, the ones whose result was not written

webhookVars == <<hook, row, attempt, pass, turns, hookFaults, posts, unrecorded>>

NoRow     == [status |-> "none", hook |-> 0, tries |-> 0, next |-> "unset"]
NoAttempt == [delivery |-> 0, tries |-> 0, step |-> "free", ok |-> FALSE]

DeliveryRow ==
  [status : {"none", "pending", "delivered", "failed"}, hook : Hooks \cup {0},
   tries : Nat, next : {"unset", "held", "due"}]
Attempt ==
  [delivery : Deliveries \cup {0}, tries : Nat,
   step : {"free", "queued", "answered"}, ok : BOOLEAN]
ListedRow == [delivery : Deliveries, tries : Nat]

WebhooksTypeOK ==
  /\ hook \in [Hooks -> {"on", "off", "deleted"}]
  /\ row \in [Deliveries -> DeliveryRow]
  /\ attempt \in [Slots -> Attempt]
  /\ pass \in [Loops -> SUBSET ListedRow]
  /\ turns \in Nat /\ hookFaults \in Nat
  /\ posts \in [Deliveries -> Nat] /\ unrecorded \in [Deliveries -> Nat]

Attempted(d) == \E s \in Slots : attempt[s].delivery = d
PendingDeliveries == {d \in Deliveries : row[d].status = "pending" /\ row[d].next # "held"}
Exists(d) == row[d].status # "none" /\ hook[row[d].hook] # "deleted"

(* go deliver(...): with a copy of the row. *)
Spawn(d, tries) ==
  \E s \in Slots :
    /\ attempt[s].step = "free"
    /\ attempt' = [attempt EXCEPT ![s] =
         [delivery |-> d, tries |-> tries, step |-> "queued", ok |-> FALSE]]

-----------------------------------------------------------------------------

(* Mutant: the first attempt does not hold off the retry loop. *)
Create_Unset(h) ==
  \E d \in Deliveries :
    /\ row[d].status = "none" /\ \A e \in Deliveries : e < d => row[e].status # "none"
    /\ row' = [row EXCEPT ![d] = [NoRow EXCEPT !.status = "pending", !.hook = h]]
    /\ Spawn(d, 0)

(* CreateWebhookDelivery, held while the first attempt is in flight. *)
Create(h) ==
  \E d \in Deliveries :
    /\ row[d].status = "none" /\ \A e \in Deliveries : e < d => row[e].status # "none"
    /\ row' = [row EXCEPT ![d] = [NoRow EXCEPT !.status = "pending", !.hook = h, !.next = "held"]]
    /\ Spawn(d, 0)

(* One of the webhooks an event of the product goes to. *)
DispatchWithLog(h) ==
  /\ hook[h] = "on" /\ Create(h)
  /\ UNCHANGED <<hook, pass, turns, hookFaults, posts, unrecorded>>

(* The administrator waits for the result, but it is delivered likewise.   *)
DeliverTest(h) ==
  /\ hook[h] = "on" /\ Create(h)
  /\ UNCHANGED <<hook, pass, turns, hookFaults, posts, unrecorded>>

(* A new row with the payload of another of the same webhook. *)
Redispatch(d) ==
  /\ Exists(d) /\ hook[row[d].hook] = "on"
  /\ Create(row[d].hook)
  /\ UNCHANGED <<hook, pass, turns, hookFaults, posts, unrecorded>>

(* The request is sent and answered, or it times out. *)
Post(s) ==
  /\ attempt[s].step = "queued"
  /\ posts' = [posts EXCEPT ![attempt[s].delivery] = @ + 1]
  /\ \E ok \in BOOLEAN :
       attempt' = [attempt EXCEPT ![s].step = "answered", ![s].ok = ok, ![s].tries = @ + 1]
  /\ UNCHANGED <<hook, row, pass, turns, hookFaults, unrecorded>>

(* Mutant: the last attempt is scheduled again, like the others. *)
Written_Forever(a) ==
  CASE a.ok -> [status |-> "delivered", next |-> "held"]
    [] OTHER -> [status |-> "pending", next |-> "held"]

(* deliver, failDelivery and scheduleRetry: what is written back. *)
Written(a) ==
  CASE a.ok -> [status |-> "delivered", next |-> "held"]
    [] ~ a.ok /\ a.tries >= MaxRetries -> [status |-> "failed", next |-> "held"]
    [] OTHER -> [status |-> "pending", next |-> "held"]

UpdateWebhookDelivery(s) ==
  LET a == attempt[s] IN
  /\ a.step = "answered"
  /\ row' = IF Exists(a.delivery)
              THEN [row EXCEPT ![a.delivery] =
                     [@ EXCEPT !.status = Written(a).status, !.next = Written(a).next,
                               !.tries = a.tries]]
              ELSE row
  /\ attempt' = [attempt EXCEPT ![s] = NoAttempt]
  /\ UNCHANGED <<hook, pass, turns, hookFaults, posts, unrecorded>>

(* The write fails, which is ignored, or the process dies. *)
AttemptLost(s) ==
  /\ attempt[s].step # "free"
  /\ hookFaults < MaxHookFaults /\ hookFaults' = hookFaults + 1
  /\ unrecorded' = IF attempt[s].step = "answered"
                     THEN [unrecorded EXCEPT ![attempt[s].delivery] = @ + 1] ELSE unrecorded
  /\ attempt' = [attempt EXCEPT ![s] = NoAttempt]
  /\ UNCHANGED <<hook, row, pass, turns, posts>>

-----------------------------------------------------------------------------
(* ProcessRetries *)

ListPendingDeliveries(l) ==
  /\ pass[l] = {} /\ PendingDeliveries # {}
  /\ pass' = [pass EXCEPT ![l] =
       {[delivery |-> d, tries |-> row[d].tries] :
          d \in {d \in PendingDeliveries : Cardinality({e \in PendingDeliveries : e < d}) < HookBatch}}]
  /\ UNCHANGED <<hook, row, attempt, turns, hookFaults, posts, unrecorded>>

OldestListed(listed) == CHOOSE c \in listed : \A e \in listed : c.delivery <= e.delivery

(* Mutant: a delivery whose webhook is off is passed over. *)
Retry_PassesOver(l) ==
  LET c == OldestListed(pass[l])
      d == c.delivery
  IN
  /\ pass[l] # {}
  /\ pass' = [pass EXCEPT ![l] = @ \ {c}]
  /\ IF hook[row[d].hook] # "on"
       THEN UNCHANGED <<row, attempt>>
       ELSE row' = [row EXCEPT ![d].next = "held"] /\ Spawn(d, c.tries)
  /\ UNCHANGED <<hook, turns, hookFaults, posts, unrecorded>>

(* Mutant: the row is attempted without being claimed first. *)
Retry_Unclaimed(l) ==
  LET c == OldestListed(pass[l])
      d == c.delivery
  IN
  /\ pass[l] # {}
  /\ pass' = [pass EXCEPT ![l] = @ \ {c}]
  /\ IF hook[row[d].hook] # "on"
       THEN /\ row' = IF Exists(d) THEN [row EXCEPT ![d].status = "failed", ![d].next = "unset"]
                                   ELSE row
            /\ UNCHANGED attempt
       ELSE UNCHANGED row /\ Spawn(d, c.tries)
  /\ UNCHANGED <<hook, turns, hookFaults, posts, unrecorded>>

(* A row whose webhook is off or gone is given up; another is claimed by   *)
(* holding it, and attempted.  What is written is the listed copy: it has  *)
(* the attempts and the status of then.                                    *)
Retry(l) ==
  LET c == OldestListed(pass[l])
      d == c.delivery
  IN
  /\ pass[l] # {}
  /\ pass' = [pass EXCEPT ![l] = @ \ {c}]
  /\ IF hook[row[d].hook] # "on"
       THEN /\ row' = IF Exists(d) THEN [row EXCEPT ![d].status = "failed", ![d].next = "unset"]
                                   ELSE row
            /\ UNCHANGED attempt
       ELSE /\ row' = [row EXCEPT ![d].status = "pending", ![d].next = "held",
                                 ![d].tries = c.tries]
            /\ Spawn(d, c.tries)
  /\ UNCHANGED <<hook, turns, hookFaults, posts, unrecorded>>

(* The claim fails, or the process dies and the rest of the pass with it.  *)
PassLost(l) ==
  /\ pass[l] # {}
  /\ hookFaults < MaxHookFaults /\ hookFaults' = hookFaults + 1
  /\ \E rest \in SUBSET pass[l] : rest # pass[l] /\ pass' = [pass EXCEPT ![l] = rest]
  /\ UNCHANGED <<hook, row, attempt, turns, posts, unrecorded>>

(* It is held for two timeouts and half a minute, or for the back-off.     *)
HoldPasses(d) ==
  /\ row[d].status = "pending" /\ row[d].next = "held"
  /\ Saturated \/ ~ Attempted(d)
  /\ row' = [row EXCEPT ![d].next = "due"]
  /\ UNCHANGED <<hook, attempt, pass, turns, hookFaults, posts, unrecorded>>

(* UpdateWebhook and DeleteWebhook; deliveries are deleted by cascade. *)
TurnHook(h) ==
  /\ turns < MaxTurns /\ turns' = turns + 1
  /\ hook[h] # "deleted"
  /\ \E to \in {"on", "off", "deleted"} \ {hook[h]} :
       /\ hook' = [hook EXCEPT ![h] = to]
       /\ row' = IF to = "deleted"
                   THEN [d \in Deliveries |-> IF row[d].hook = h
                                                THEN [row[d] EXCEPT !.status = "failed",
                                                                    !.next = "unset"]
                                                ELSE row[d]]
                   ELSE row
  /\ UNCHANGED <<attempt, pass, hookFaults, posts, unrecorded>>

WebhooksInit ==
  /\ hook = [h \in Hooks |-> "on"]
  /\ row = [d \in Deliveries |-> NoRow]
  /\ attempt = [s \in Slots |-> NoAttempt]
  /\ pass = [l \in Loops |-> {}]
  /\ turns = 0 /\ hookFaults = 0
  /\ posts = [d \in Deliveries |-> 0] /\ unrecorded = [d \in Deliveries |-> 0]

ProcessRetries(l) == ListPendingDeliveries(l) \/ Retry(l)
deliver(s) == Post(s) \/ UpdateWebhookDelivery(s)

WebhooksNext ==
  \/ \E h \in Hooks : DispatchWithLog(h) \/ DeliverTest(h) \/ TurnHook(h)
  \/ \E d \in Deliveries : Redispatch(d) \/ HoldPasses(d)
  \/ \E s \in Slots : deliver(s) \/ AttemptLost(s)
  \/ \E l \in Loops : ProcessRetries(l) \/ PassLost(l)

WebhooksSpec == WebhooksInit /\ [][WebhooksNext]_webhookVars

-----------------------------------------------------------------------------
(* Properties *)

(* The retry loop never posts a delivery a second time while an attempt is *)
(* in flight (service/webhook.go:417-421, 621-623).                        *)
OneAttempt ==
  \A s, t \in Slots : attempt[s].delivery = attempt[t].delivery =>
    s = t \/ attempt[s].delivery = 0

(* A delivery is sent at most MaxRetries times, not counting the attempts  *)
(* whose result was lost with the process or the write (service/           *)
(* webhook.go:538-543).                                                    *)
PostsBounded == \A d \in Deliveries : posts[d] <= MaxRetries + unrecorded[d]

(* What the receiver accepted stays delivered: no older copy of the row is *)
(* written over it (service/webhook.go:535, 611-632).                      *)
DeliveredIsFinal ==
  [][\A d \in Deliveries : row[d].status = "delivered" =>
       row'[d].status = "delivered" \/ hook'[row[d].hook] = "deleted"]_webhookVars

(* Every delivery ends delivered or failed, whatever crashes and whichever *)
(* webhooks are switched off (service/webhook.go:608-634).                 *)
EveryDeliverySettles ==
  \A d \in Deliveries : row[d].status = "pending" ~> row[d].status \in {"delivered", "failed"}
=============================================================================
