------------------------------- MODULE Floating -------------------------------
(***************************************************************************)
(* The floating sessions of one license (internal/service/floating.go and  *)
(* internal/store/floating.go): checkouts count and insert under the lock  *)
(* of the license row; heartbeats, check-ins and the clean-up loop write   *)
(* without it.  In a transaction now() is the time it began, so a session  *)
(* that has expired since still counts.                                    *)
(***************************************************************************)
EXTENDS Integers, FiniteSets

CONSTANTS
  Machines,      \* identifiers that ask for sessions
  Checkouts,     \* checkout requests in progress at a time
  NoCheckout,
  MaxSessions,   \* max_activations of the plan
  MaxExpiries    \* bound: how often a session expires

ASSUME FloatingConstantsOK ==
  /\ IsFiniteSet(Machines) /\ Machines # {} /\ NoCheckout \notin Checkouts
  /\ MaxSessions \in Nat /\ MaxExpiries \in Nat

VARIABLES
  session,       \* of each machine: its row
  checkout,      \* of each request: machine, next step, sessions live at its start
  floatingLock,   \* who holds the row lock of the license
  late,          \* history: machines whose row was extended after it expired
  expiries,      \* bounded counter
  misled         \* history: a heartbeat without a session was answered 200

floatingVars == <<session, checkout, floatingLock, late, expiries, misled>>

Rows == {m \in Machines : session[m] # "none"}
Live == {m \in Machines : session[m] = "live"}

CheckoutSteps == {"idle", "refresh", "lock", "count", "insert"}
CheckoutRow == [step : CheckoutSteps, machine : Machines, seen : SUBSET Machines]

FloatingTypeOK ==
  /\ session \in [Machines -> {"none", "live", "expired"}]
  /\ checkout \in [Checkouts -> CheckoutRow]
  /\ floatingLock \in Checkouts \cup {NoCheckout}
  /\ late \subseteq Machines /\ expiries \in Nat /\ misled \in BOOLEAN

CheckoutStep(c, step) == checkout' = [checkout EXCEPT ![c].step = step]

NotAsking == [step |-> "idle", machine |-> CHOOSE m \in Machines : TRUE, seen |-> {}]

(* The transaction ends; the lock, if it has it, is released. *)
EndCheckout(c) ==
  /\ checkout' = [checkout EXCEPT ![c] = NotAsking]
  /\ floatingLock' = IF floatingLock = c THEN NoCheckout ELSE floatingLock

(* now() of the transaction: what was live then counts as live. *)
ActiveFor(c) == {m \in Rows : session[m] = "live" \/ m \in checkout[c].seen}

(* UPDATE ... SET expires_at of the machine's row, expired or not. *)
Extend(m) ==
  /\ session' = [session EXCEPT ![m] = "live"]
  /\ late' = IF session[m] = "expired" THEN late \cup {m} ELSE late

(* CheckOut of a usable license with a floating plan *)
BeginCheckout(c) ==
  /\ checkout[c].step = "idle"
  /\ \E m \in Machines :
       checkout' = [checkout EXCEPT ![c] = [step |-> "refresh", machine |-> m, seen |-> Live]]
  /\ UNCHANGED <<session, floatingLock, late, expiries, misled>>

(* A machine that already has a session gets it extended, under the lock   *)
(* of its row.                                                             *)
Refresh(c) ==
  LET m == checkout[c].machine IN
  /\ checkout[c].step = "refresh"
  /\ \/ m \in ActiveFor(c) /\ Extend(m) /\ EndCheckout(c)
     \/ m \notin ActiveFor(c) /\ CheckoutStep(c, "lock") /\ UNCHANGED <<session, late, floatingLock>>
  /\ UNCHANGED <<expiries, misled>>

(* Mutant: the sessions are locked, not the license; there may be none. *)
LockForCheckout_LocksNothing(c) ==
  /\ checkout[c].step = "lock"
  /\ floatingLock' = c
  /\ CheckoutStep(c, "count")
  /\ UNCHANGED <<session, late, expiries, misled>>

(* SELECT ... FROM licenses ... FOR UPDATE *)
LockForCheckout(c) ==
  /\ checkout[c].step = "lock" /\ floatingLock = NoCheckout
  /\ floatingLock' = c
  /\ CheckoutStep(c, "count")
  /\ UNCHANGED <<session, late, expiries, misled>>

(* 409 FLOATING_LIMIT when every session is in use. *)
CountSessions(c) ==
  /\ checkout[c].step = "count"
  /\ IF Cardinality(ActiveFor(c)) >= MaxSessions
       THEN EndCheckout(c)
       ELSE CheckoutStep(c, "insert") /\ UNCHANGED floatingLock
  /\ UNCHANGED <<session, late, expiries, misled>>

(* The insert commits, or fails on the machine's expired row. *)
InsertSession(c) ==
  LET m == checkout[c].machine IN
  /\ checkout[c].step = "insert"
  /\ session' = IF m \in Rows THEN session ELSE [session EXCEPT ![m] = "live"]
  /\ EndCheckout(c)
  /\ UNCHANGED <<late, expiries, misled>>

(* A statement fails, or the process dies: the transaction is rolled back. *)
CheckoutFails(c) ==
  /\ checkout[c].step # "idle"
  /\ EndCheckout(c)
  /\ UNCHANGED <<session, late, expiries, misled>>

(* HeartbeatFloating: an update without a row to update is no error. *)
Heartbeat(m) ==
  /\ \/ m \in Rows /\ Extend(m) /\ UNCHANGED misled
     \/ m \notin Rows /\ misled' = TRUE /\ UNCHANGED <<session, late>>
  /\ UNCHANGED <<checkout, floatingLock, expiries>>

Remove(gone) ==
  /\ session' = [m \in Machines |-> IF m \in gone THEN "none" ELSE session[m]]
  /\ late' = late \ gone
  /\ UNCHANGED <<checkout, floatingLock, expiries, misled>>

(* CheckInFloating *)
CheckIn(m) == m \in Rows /\ Remove({m})

(* CleanExpiredFloating, every minute *)
CleanExpired == Rows \ Live # {} /\ Remove(Rows \ Live)

SessionExpires(m) ==
  /\ m \in Live /\ expiries < MaxExpiries
  /\ session' = [session EXCEPT ![m] = "expired"]
  /\ expiries' = expiries + 1
  /\ UNCHANGED <<checkout, floatingLock, late, misled>>

FloatingInit ==
  /\ session = [m \in Machines |-> "none"]
  /\ checkout = [c \in Checkouts |-> NotAsking]
  /\ floatingLock = NoCheckout
  /\ late = {} /\ expiries = 0 /\ misled = FALSE

FloatingNext ==
  \/ \E c \in Checkouts :
       \/ BeginCheckout(c) \/ Refresh(c) \/ LockForCheckout(c) \/ CountSessions(c)
       \/ InsertSession(c) \/ CheckoutFails(c)
  \/ \E m \in Machines : Heartbeat(m) \/ CheckIn(m) \/ SessionExpires(m)
  \/ CleanExpired

FloatingSpec == FloatingInit /\ [][FloatingNext]_floatingVars

-----------------------------------------------------------------------------
(* Properties *)

(* Who counts and inserts holds the row of the license, and nobody else.   *)
FloatingLockHeld == \A c \in Checkouts : checkout[c].step \in {"count", "insert"} <=> floatingLock = c

(* Concurrent checkouts never exceed max_activations (docs/openapi.yaml:   *)
(* 534): the sessions in use are at most MaxSessions, not counting those   *)
(* a heartbeat (or a refresh that began in time) brought back after they   *)
(* expired and their place was free for another (store/floating.go:99).    *)
SessionLimitKept == Cardinality(Live \ late) <= MaxSessions

(* docs/openapi.yaml:594: a heartbeat answered 200 extended a session. *)
OkMeansExtended == ~ misled
=============================================================================
