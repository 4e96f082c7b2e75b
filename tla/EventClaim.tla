------------------------------ MODULE EventClaim ------------------------------
(***************************************************************************)
(* The two-row claim that guards every Stripe event and every checkout     *)
(* session (StripeHandler.reserve and release in                           *)
(* internal/payment/stripe.go, on the processed_events table):             *)
(*                                                                         *)
(*   reservation   the row under the "done" provider name; it is inserted  *)
(*                 first and stays behind as the done marker               *)
(*   marker        the in-flight row; deleted when the work is complete    *)
(*                                                                         *)
(* One module instance is one event id.  Each SQL statement is a step of   *)
(* its own: statements of different requests interleave freely, since the  *)
(* code opens no transaction around them.                                  *)
(***************************************************************************)
EXTENDS Integers, FiniteSets

CONSTANTS
  Workers,       \* requests (and background loops) that may claim the id
  HasRecord,     \* reserve is given a fulfilled() callback (sessions only)
  FailAt,        \* labels whose SQL statement may return an error
  CrashAt,       \* labels at which the process may die, or its request
                 \* context be cancelled so that no later statement runs
  HandlerFails,  \* the guarded work may report a transient failure
  SlowHandlers,  \* the work may outlive staleClaimAge
  MaxTakeovers,  \* bound: a marker only goes stale below this count
  MaxFaults     \* bound: number of crashes and failed statements

VARIABLES
  reservation,   \* the reservation row exists
  marker,        \* "none", or the age of the in-flight row
  at,            \* the statement each worker executes next
  takeovers,     \* history: stale markers successfully retaken
  applied,       \* history: how often the guarded work was committed
  acked,         \* Stripe got a 2xx for the event and stops retrying
  faults

claimRows == <<reservation, marker, at, takeovers>>
vars == <<claimRows, applied, acked, faults>>

(* Statements of reserve up to a claim; of the claimant; replies.          *)
Reserving  == {"reserve", "look", "consult", "expire", "retake"}
Claiming   == {"dropOrphan", "mark", "undo", "undoErr"}
Finishing  == {"complete", "unmark"}
Replies    == {"done", "busy", "error", "ok"}
StatementLabels == Reserving \cup Claiming \cup Finishing \cup {"unreserve"}
Labels     == {"idle", "working"} \cup StatementLabels \cup Replies

ASSUME ConstantsOK ==
  /\ IsFiniteSet(Workers)
  /\ {HasRecord, HandlerFails, SlowHandlers} \subseteq BOOLEAN
  /\ FailAt \subseteq Labels /\ CrashAt \subseteq Labels
  /\ MaxTakeovers \in Nat /\ MaxFaults \in Nat

TypeOK ==
  /\ reservation \in BOOLEAN
  /\ marker \in {"none", "fresh", "stale"}
  /\ at \in [Workers -> Labels]
  /\ takeovers \in Nat
  /\ applied \in Nat
  /\ acked \in BOOLEAN
  /\ faults \in Nat

(* Workers that own the id and have not committed the work: they inserted  *)
(* the reservation, or retook a stale marker, and have neither committed   *)
(* nor given the reservation back.                                         *)
Claimants == {w \in Workers : at[w] \in Claiming \cup {"working", "unreserve"}}
Handling  == {w \in Workers : at[w] = "working"}

-----------------------------------------------------------------------------
(* Statements of reserve *)

Goto(w, label) == at' = [at EXCEPT ![w] = label]

(* Mutant: the conflict on the reservation goes unnoticed. *)
InsertReservation_NoConflict(w) ==
  /\ at[w] = "reserve"
  /\ reservation' = TRUE
  /\ Goto(w, "dropOrphan")
  /\ UNCHANGED <<marker, takeovers>>

(* INSERT of the reservation, ON CONFLICT DO NOTHING. *)
InsertReservation(w) ==
  /\ at[w] = "reserve"
  /\ reservation' = TRUE
  /\ Goto(w, IF reservation THEN "look" ELSE "dropOrphan")
  /\ UNCHANGED <<marker, takeovers>>

(* The reservation is ours: a marker without one is an orphan. *)
DropOrphan(w) ==
  /\ at[w] = "dropOrphan"
  /\ marker' = "none"
  /\ Goto(w, "mark")
  /\ UNCHANGED <<reservation, takeovers>>

InsertMarker(w) ==
  /\ at[w] = "mark"
  /\ Goto(w, IF marker = "none" THEN "working" ELSE "undo")
  /\ marker' = IF marker = "none" THEN "fresh" ELSE marker
  /\ UNCHANGED <<reservation, takeovers>>

(* The marker could not be inserted: give the reservation back. *)
UndoReservation(w) ==
  /\ at[w] \in {"undo", "undoErr"}
  /\ reservation' = FALSE
  /\ Goto(w, IF at[w] = "undo" THEN "busy" ELSE "error")
  /\ UNCHANGED <<marker, takeovers>>

(* Mutant: a reservation without marker is taken for an abandoned one. *)
LookForMarker_Resumes(w) ==
  /\ at[w] = "look"
  /\ Goto(w, IF marker = "none" THEN "working"
             ELSE IF HasRecord THEN "consult" ELSE "expire")
  /\ UNCHANGED <<reservation, marker, takeovers>>

(* Reserved by someone: without a marker the id is taken to be done. *)
LookForMarker(w) ==
  /\ at[w] = "look"
  /\ Goto(w, IF marker = "none" THEN "done"
             ELSE IF HasRecord THEN "consult" ELSE "expire")
  /\ UNCHANGED <<reservation, marker, takeovers>>

(* The fulfilled() callback: recorded says whether the work's result exists. *)
Consult(w, recorded) ==
  /\ at[w] = "consult"
  /\ Goto(w, IF recorded THEN "done" ELSE "expire")
  /\ UNCHANGED <<reservation, marker, takeovers>>

(* Mutant: the age of the marker is not looked at. *)
ReleaseStale_AnyAge(w) ==
  /\ at[w] = "expire"
  /\ marker' = "none" /\ Goto(w, "retake")
  /\ UNCHANGED <<reservation, takeovers>>

(* Mutant: stale markers are respected like fresh ones. *)
ReleaseStale_Never(w) ==
  /\ at[w] = "expire"
  /\ Goto(w, "busy") /\ UNCHANGED <<reservation, marker, takeovers>>

(* DELETE of the marker if it is older than staleClaimAge. *)
ReleaseStale(w) ==
  /\ at[w] = "expire"
  /\ IF marker = "stale"
       THEN marker' = "none" /\ Goto(w, "retake")
       ELSE Goto(w, "busy") /\ UNCHANGED marker
  /\ UNCHANGED <<reservation, takeovers>>

Retake(w) ==
  /\ at[w] = "retake"
  /\ IF marker = "none"
       THEN marker' = "fresh" /\ Goto(w, "working") /\ takeovers' = takeovers + 1
       ELSE Goto(w, "busy") /\ UNCHANGED <<marker, takeovers>>
  /\ UNCHANGED reservation

(* Mutant: completion forgets the reservation as well. *)
Complete_BothRows(w) ==
  /\ at[w] = "complete"
  /\ marker' = "none" /\ reservation' = FALSE
  /\ Goto(w, "ok")
  /\ UNCHANGED takeovers

(* CompleteProcessedEvent, and release: reservation first, then marker. *)
Complete(w) ==
  /\ at[w] = "complete"
  /\ marker' = "none"
  /\ Goto(w, "ok")
  /\ UNCHANGED <<reservation, takeovers>>

(* Mutant: release only removes the marker. *)
ReleaseReservation_Keeps(w) ==
  /\ at[w] = "unreserve"
  /\ Goto(w, "unmark")
  /\ UNCHANGED <<reservation, marker, takeovers>>

ReleaseReservation(w) ==
  /\ at[w] = "unreserve"
  /\ reservation' = FALSE
  /\ Goto(w, "unmark")
  /\ UNCHANGED <<marker, takeovers>>

(* Mutant: release ends in a state nobody handles. *)
ReleaseMarker_NoReply(w) ==
  /\ at[w] = "unmark"
  /\ marker' = "none"
  /\ Goto(w, "released")
  /\ UNCHANGED <<reservation, takeovers>>

ReleaseMarker(w) ==
  /\ at[w] = "unmark"
  /\ marker' = "none"
  /\ Goto(w, "error")
  /\ UNCHANGED <<reservation, takeovers>>

(* Mutants: a failed insert reads as "already processed"; an event whose   *)
(* completion could not be recorded is released.                           *)
AfterFailure_ReadsDone(label) ==
  CASE label = "reserve"    -> "done"
    [] label = "dropOrphan" -> "mark"
    [] label = "mark"       -> "undoErr"
    [] label = "undo"       -> "busy"
    [] OTHER                -> "error"
AfterFailure_Releases(label) ==
  CASE label = "complete"   -> "unreserve"
    [] label = "dropOrphan" -> "mark"
    [] label = "mark"       -> "undoErr"
    [] label = "undo"       -> "busy"
    [] OTHER                -> "error"

(* A statement fails.  Two deletes ignore their error; the insert of the   *)
(* marker still tries to give the reservation back.                        *)
AfterFailure(label) ==
  CASE label = "dropOrphan" -> "mark"
    [] label = "mark"       -> "undoErr"
    [] label = "undo"       -> "busy"
    [] OTHER                -> "error"

StatementFails(w) ==
  /\ at[w] \in FailAt \cap StatementLabels
  /\ Goto(w, AfterFailure(at[w]))
  /\ UNCHANGED <<reservation, marker, takeovers>>

(* Ten minutes pass (staleClaimAge).  Without slow handlers this happens   *)
(* only to a marker whose owner is gone.                                   *)
MarkerAges ==
  /\ marker = "fresh" /\ takeovers < MaxTakeovers
  /\ SlowHandlers \/ \A w \in Workers : at[w] \in {"idle"} \cup Reserving \cup Replies
  /\ marker' = "stale"
  /\ UNCHANGED <<reservation, at, takeovers>>

(* The statements of reserve and release, for whoever composes them. *)
Statement(w, recorded) ==
  \/ InsertReservation(w) \/ DropOrphan(w) \/ InsertMarker(w)
  \/ UndoReservation(w) \/ LookForMarker(w) \/ Consult(w, recorded)
  \/ ReleaseStale(w) \/ Retake(w) \/ Complete(w)
  \/ ReleaseReservation(w) \/ ReleaseMarker(w)

-----------------------------------------------------------------------------
(* A Stripe event (Webhook in stripe.go): Stripe delivers it, the handler  *)
(* claims it, runs, and answers.  A delivery is retried until a 2xx and    *)
(* may be duplicated at any time.                                          *)

Deliver(w) ==
  /\ at[w] = "idle"
  /\ Goto(w, "reserve")
  /\ UNCHANGED <<reservation, marker, takeovers, applied, acked, faults>>

ClaimStatement(w) ==
  /\ Statement(w, applied > 0)
  /\ UNCHANGED <<applied, acked, faults>>

ClaimStatementFails(w) ==
  /\ faults < MaxFaults
  /\ faults' = faults + 1
  /\ StatementFails(w)
  /\ UNCHANGED <<applied, acked>>

(* The event's handler commits its changes and returns nil. *)
HandlerSucceeds(w) ==
  /\ at[w] = "working"
  /\ applied' = applied + 1
  /\ Goto(w, "complete")
  /\ UNCHANGED <<reservation, marker, takeovers, acked, faults>>

(* The handler returns an error: release the claim and ask for a retry. *)
HandlerFailsTransiently(w) ==
  /\ HandlerFails
  /\ at[w] = "working"
  /\ Goto(w, "unreserve")
  /\ UNCHANGED <<reservation, marker, takeovers, applied, acked, faults>>

(* Mutant: a database error is acknowledged. *)
Reply_AcksErrors(w) ==
  /\ at[w] \in Replies
  /\ acked' = (acked \/ at[w] \in {"ok", "done", "error"})
  /\ Goto(w, "idle")
  /\ UNCHANGED <<reservation, marker, takeovers, applied, faults>>

(* 200 for a completed or a skipped event, 503 or 500 otherwise. *)
Reply(w) ==
  /\ at[w] \in Replies
  /\ acked' = (acked \/ at[w] \in {"ok", "done"})
  /\ Goto(w, "idle")
  /\ UNCHANGED <<reservation, marker, takeovers, applied, faults>>

Crash(w) ==
  /\ at[w] \in CrashAt
  /\ faults < MaxFaults
  /\ faults' = faults + 1
  /\ Goto(w, "idle")
  /\ UNCHANGED <<reservation, marker, takeovers, applied, acked>>

TimePasses ==
  /\ MarkerAges
  /\ UNCHANGED <<applied, acked, faults>>

Init ==
  /\ reservation = FALSE
  /\ marker = "none"
  /\ at = [w \in Workers |-> "idle"]
  /\ takeovers = 0
  /\ applied = 0
  /\ acked = FALSE
  /\ faults = 0

Next ==
  \/ \E w \in Workers :
       \/ Deliver(w) \/ ClaimStatement(w) \/ ClaimStatementFails(w)
       \/ HandlerSucceeds(w) \/ HandlerFailsTransiently(w)
       \/ Reply(w) \/ Crash(w)
  \/ TimePasses

Spec == Init /\ [][Next]_vars

(* Stripe redelivers until a 2xx; a live process runs on; time passes.  A  *)
(* handler that is attempted again and again succeeds in the end (strong   *)
(* fairness: the attempts in between may fail).                            *)
Fairness ==
  /\ \A w \in Workers :
       /\ WF_vars(~acked /\ Deliver(w))
       /\ WF_vars(ClaimStatement(w) \/ ClaimStatementFails(w))
       /\ WF_vars(HandlerSucceeds(w) \/ HandlerFailsTransiently(w))
       /\ SF_vars(HandlerSucceeds(w))
       /\ WF_vars(Reply(w))
  /\ WF_vars(TimePasses)

FairSpec == Spec /\ Fairness

-----------------------------------------------------------------------------
(* Properties *)

(* However deliveries overlap, fail, crash and outlive their claim, each   *)
(* takeover of a stale marker admits at most one more concurrent handler   *)
(* (reserve, stripe.go:396-431).                                           *)
OverlapBounded == Cardinality(Handling) <= 1 + takeovers

(* The effects of an event are committed at most once, plus once for each  *)
(* takeover: retries and duplicates alone never repeat them.               *)
AppliedBounded == applied <= 1 + takeovers

(* The claim is exact when no stale marker is taken over: nobody else is   *)
(* handling, or about to handle, an event whose work is committed.         *)
NoRepeatWithoutTakeover == takeovers = 0 /\ applied > 0 => Claimants = {}

(* Why the three bounds above hold: committed work, claimants and an absent *)
(* reservation draw on one budget, which only a takeover extends.          *)
ClaimBudget ==
  applied + Cardinality(Claimants) + (IF reservation THEN 0 ELSE 1) <= 1 + takeovers

(* The comment at stripe.go:281-285: an event whose handling failed is not *)
(* mistaken for a completed one.  A 2xx is only given once the event's     *)
(* work is committed, or while a claimant is still on it.                  *)
AckedMeansTaken == acked => applied > 0 \/ Claimants # {}

(* While a handler runs, the two rows say so: another delivery is told to  *)
(* come back, not that the event is done.                                  *)
HandlerVisible == Handling # {} => reservation /\ marker # "none"

(* With deliveries one at a time, claim rows, faults and retries add up   *)
(* to the promise of EventDelivery.                                   *)
Handled == INSTANCE EventDelivery WITH
  phase <- IF applied > 0 THEN "applied"
           ELSE IF Claimants # {} THEN "handling" ELSE "waiting",
  acked <- acked

ImplementsDelivery == Handled!Spec

=============================================================================
