---------------------------- MODULE EventDelivery ----------------------------
(***************************************************************************)
(* What the webhook endpoint promises about one Stripe event (the comments *)
(* at Webhook, claimEvent and release, internal/payment/stripe.go): one    *)
(* handler at a time, retried until its work is committed, acknowledged    *)
(* only after that.                                                        *)
(***************************************************************************)
VARIABLES
  phase,             \* "waiting", "handling" or "applied"
  acked              \* Stripe was told that the event is delivered

vars == <<phase, acked>>

Init == phase = "waiting" /\ acked = FALSE

Begin == phase = "waiting" /\ phase' = "handling" /\ UNCHANGED acked
Apply == phase = "handling" /\ phase' = "applied" /\ UNCHANGED acked
Fail  == phase = "handling" /\ phase' = "waiting" /\ UNCHANGED acked
Ack   == phase = "applied" /\ acked' = TRUE /\ UNCHANGED phase

Next == Begin \/ Apply \/ Fail \/ Ack

Fairness == WF_vars(Begin) /\ SF_vars(Apply) /\ WF_vars(Ack /\ ~acked)

Spec == Init /\ [][Next]_vars /\ Fairness
=============================================================================
