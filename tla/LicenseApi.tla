------------------------------ MODULE LicenseApi ------------------------------
(***************************************************************************)
(* The components behind the API that the customers' programs call, side   *)
(* by side: idempotency keys, activations, floating sessions, seats, usage *)
(* and the rate limiter.  They share no state but the license, which each  *)
(* reads as it pleases, so one of them, chosen at the beginning, moves in  *)
(* a behaviour.                                                            *)
(***************************************************************************)
EXTENDS Idempotency, Activation, Floating, Seats, Metering, Throttle

VARIABLE focus  \* the component that moves

Foci == {"idempotency", "activation", "floating", "seats", "metering", "throttle"}

Init ==
  /\ focus \in Foci
  /\ IdempotencyInit /\ ActivationInit
  /\ FloatingInit /\ SeatsInit /\ MeteringInit
  /\ ThrottleInit

Next ==
  /\ UNCHANGED focus
  /\ IF focus = "idempotency" THEN IdempotencyNext ELSE UNCHANGED idemVars
  /\ IF focus = "activation" THEN ActivationNext ELSE UNCHANGED activationVars
  /\ IF focus = "floating" THEN FloatingNext ELSE UNCHANGED floatingVars
  /\ IF focus = "seats" THEN SeatsNext ELSE UNCHANGED seatsVars
  /\ IF focus = "metering" THEN MeteringNext ELSE UNCHANGED meteringVars
  /\ IF focus = "throttle" THEN ThrottleNext ELSE UNCHANGED throttleVars

apiVars == <<focus, idemVars, activationVars, floatingVars, seatsVars, meteringVars, throttleVars>>

Spec == Init /\ [][Next]_apiVars

-----------------------------------------------------------------------------
(* Types; and a request is between its count and its insert only while it  *)
(* holds the license's row lock (ActivateWithinLimit,                      *)
(* CheckOutFloatingWithLimit, AddSeatWithinLimit).                         *)
TypesAndLocks ==
  /\ IdempotencyTypeOK /\ MeteringTypeOK /\ ThrottleTypeOK
  /\ ActivationTypeOK /\ ActivationLockHeld
  /\ FloatingTypeOK /\ FloatingLockHeld
  /\ SeatsTypeOK /\ SeatsLockHeld

(* However requests overlap, fail and are repeated, a license never has    *)
(* more devices, sessions or seats, or counts more usage, than its plan    *)
(* allows (the transactions under the lock of the license's row or the     *)
(* counter's: store.go:1178, floating.go, seats.go:74-79, usage.go:49-52), *)
(* and an address never sends more than its windows allow (ratelimit.go).  *)
LimitsKept ==
  /\ DeviceLimitKept /\ SessionLimitKept /\ SeatLimitKept
  /\ QuotaKept /\ RateKept

(* An operation behind an idempotency key is executed once, and no client  *)
(* gets the answer to another body                                         *)
(* (store/idempotency.go:44-75); an invitation is accepted once, even when *)
(* the acceptance was taken back (store/seats.go:301-310).                 *)
OnceOnly ==
  /\ ExecutionBudget /\ ExecutedOnce /\ ReplayIsOwn
  /\ TokenSpentOnce

(* A unit of usage is billed at most once and, unless the meter was taken  *)
(* off, before its row is called synced; a row is not pushed for ever; the *)
(* owner is warned once (metered_sync.go:21-24, 116-121, usage.go:138).    *)
UsageBilledOnce ==
  /\ BilledOnce /\ SyncedIsBilled
  /\ AttemptsBounded /\ WarnedOnce
=============================================================================
