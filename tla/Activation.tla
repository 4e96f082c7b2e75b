------------------------------ MODULE Activation ------------------------------
(***************************************************************************)
(* The activations of one license and the offline tokens it hands out      *)
(* (internal/service/license.go, internal/handler/portal_activations.go,   *)
(* internal/store/store.go).  A request loads the license first and acts   *)
(* on what it read; activations are counted and inserted under the lock of *)
(* the license row.  Days are numbers.                                     *)
(***************************************************************************)
EXTENDS Integers, FiniteSets

CONSTANTS
  Devices,
  Requests,       \* requests in progress at a time
  NoRequest,
  MaxActivations, \* of the plan
  GraceDays, TokenDays,  \* of the plan; 7 if it sets none
  Terms,          \* end dates the license may be given
  LastDay,        \* bound: the last day
  MaxIds,         \* bound: activations ever made
  MaxChanges      \* bound: changes of the license

ASSUME ActivationConstantsOK ==
  /\ IsFiniteSet(Devices) /\ Devices # {} /\ NoRequest \notin Requests
  /\ Terms \subseteq Int /\ Terms # {}
  /\ MaxActivations \in Nat /\ GraceDays \in Nat /\ TokenDays \in Nat
  /\ LastDay \in Nat /\ MaxIds \in Nat /\ MaxChanges \in Nat

VARIABLES
  license,        \* status, end date and, as history, a version
  activation,     \* of each device: the id of its activation, 0 if none
  ids,            \* activations ever made
  request,        \* of each request: what it is, where it is, what it read
  activationLock,    \* who holds the row lock of the license
  tokens,         \* history: tokens handed out
  today

activationVars == <<license, activation, ids, request, activationLock, tokens, today>>

Statuses == {"active", "trialing", "past_due", "canceled", "suspended", "revoked", "expired"}
Graced   == {"active", "trialing", "past_due"}
License  == [status : Statuses, until : Terms, version : 0..MaxChanges]
Active   == {d \in Devices : activation[d] # 0}

Idle == [op |-> "none", step |-> "idle", device |-> CHOOSE d \in Devices : TRUE,
         read |-> [status |-> "active", until |-> CHOOSE u \in Terms : TRUE, version |-> 0],
         found |-> 0]

RequestSteps == {"idle", "find", "lock", "count", "insert", "sign", "delete"}
RequestRow ==
  [op : {"none", "activate", "verify", "deactivate"}, step : RequestSteps,
   device : Devices, read : License, found : 0..MaxIds]

ActivationTypeOK ==
  /\ license \in License
  /\ activation \in [Devices -> 0..MaxIds] /\ ids \in 0..MaxIds
  /\ request \in [Requests -> RequestRow]
  /\ activationLock \in Requests \cup {NoRequest}
  /\ tokens \subseteq [expires : Int, version : 0..MaxChanges]
  /\ today \in 0..LastDay

RequestStep(r, step) == request' = [request EXCEPT ![r].step = step]

(* Mutant: every license gets the grace of its plan. *)
EffectiveGrace_OfPlan(lic) == GraceDays

(* effectiveGraceDays: a canceled license is paid up to its end, and ends. *)
EffectiveGrace(lic) == IF lic.status \in Graced THEN GraceDays ELSE 0

(* assertUsable *)
Usable(lic) ==
  \/ lic.status \in Graced /\ today <= lic.until + GraceDays
  \/ lic.status = "canceled" /\ today < lic.until

(* The end of a request, with the lock released if it has it. *)
EndRequest(r) ==
  /\ request' = [request EXCEPT ![r] = Idle]
  /\ activationLock' = IF activationLock = r THEN NoRequest ELSE activationLock

(* The license is loaded; Activate and Verify refuse one that is not       *)
(* usable, Deactivate does not look.                                       *)
Load(r) ==
  /\ request[r].step = "idle"
  /\ \E op \in {"activate", "verify", "deactivate"}, d \in Devices :
       /\ op = "deactivate" \/ Usable(license)
       /\ request' = [request EXCEPT ![r] =
            [op |-> op, step |-> "find", device |-> d, read |-> license, found |-> 0]]
  /\ UNCHANGED <<license, activation, ids, activationLock, tokens, today>>

(* FindActivation, outside of any transaction. *)
FindActivation(r) ==
  LET id == activation[request[r].device] IN
  /\ request[r].step = "find"
  /\ IF id # 0
       THEN request' = [request EXCEPT ![r].found = id,
              ![r].step = IF request[r].op = "deactivate" THEN "delete" ELSE "sign"]
       ELSE request' = IF request[r].op = "activate"
                         THEN [request EXCEPT ![r].step = "lock"]
                         ELSE [request EXCEPT ![r] = Idle]
  /\ UNCHANGED <<license, activation, ids, activationLock, tokens, today>>

(* Mutant: the activations are counted without the lock. *)
LockLicense_Skips(r) ==
  /\ request[r].step = "lock"
  /\ RequestStep(r, "count")
  /\ UNCHANGED <<license, activation, ids, activationLock, tokens, today>>

(* ActivateWithinLimit: lock, count, insert and commit. *)
LockLicense(r) ==
  /\ request[r].step = "lock" /\ activationLock = NoRequest
  /\ activationLock' = r
  /\ RequestStep(r, "count")
  /\ UNCHANGED <<license, activation, ids, tokens, today>>

CountActivations(r) ==
  /\ request[r].step = "count"
  /\ IF Cardinality(Active) >= MaxActivations
       THEN EndRequest(r)
       ELSE RequestStep(r, "insert") /\ UNCHANGED activationLock
  /\ UNCHANGED <<license, activation, ids, tokens, today>>

(* The insert fails if another request activated the device since.         *)
InsertActivation(r) ==
  LET d == request[r].device IN
  /\ request[r].step = "insert"
  /\ IF d \in Active
       THEN EndRequest(r) /\ UNCHANGED <<activation, ids>>
       ELSE /\ ids < MaxIds /\ ids' = ids + 1
            /\ activation' = [activation EXCEPT ![d] = ids']
            /\ request' = [request EXCEPT ![r].step = "sign"]
            /\ activationLock' = IF activationLock = r THEN NoRequest ELSE activationLock
  /\ UNCHANGED <<license, tokens, today>>

(* signToken, of the license as it was read: the check-in interval, cut    *)
(* short at the end of the license.                                        *)
SignToken(r) ==
  LET lic == request[r].read
      checkIn  == today + TokenDays
      deadline == lic.until + EffectiveGrace(lic)
  IN
  /\ request[r].step = "sign"
  /\ tokens' = tokens \cup {[expires |-> IF deadline < checkIn THEN deadline ELSE checkIn,
                             version |-> lic.version]}
  /\ request' = [request EXCEPT ![r] = Idle]
  /\ UNCHANGED <<license, activation, ids, activationLock, today>>

DeleteId(id) ==
  activation' = [d \in Devices |-> IF activation[d] = id THEN 0 ELSE activation[d]]

(* DeleteActivation, by the id that was found. *)
Deactivate(r) ==
  /\ request[r].step = "delete"
  /\ DeleteId(request[r].found)
  /\ request' = [request EXCEPT ![r] = Idle]
  /\ UNCHANGED <<license, ids, activationLock, tokens, today>>

RequestFails(r) ==
  /\ request[r].step # "idle"
  /\ EndRequest(r)
  /\ UNCHANGED <<license, activation, ids, tokens, today>>

(* The owner, a seat or an administrator frees a slot. *)
FreeSlot ==
  /\ \E d \in Active : DeleteId(activation[d])
  /\ UNCHANGED <<license, ids, request, activationLock, tokens, today>>

(* Mutant: only lapsed licenses are cleaned up. *)
DeleteExpiredActivations_NotRevoked ==
  /\ license.status = "expired" /\ Active # {}
  /\ activation' = [d \in Devices |-> 0]
  /\ UNCHANGED <<license, ids, request, activationLock, tokens, today>>

(* DeleteExpiredActivations, in the hourly pass. *)
DeleteExpiredActivations ==
  /\ license.status \in {"expired", "revoked"} /\ Active # {}
  /\ activation' = [d \in Devices |-> 0]
  /\ UNCHANGED <<license, ids, request, activationLock, tokens, today>>

(* Payments, administrators and the expiry pass change the license (module *)
(* Lifecycle); not while an activation holds its row lock.                 *)
LicenseChanges ==
  /\ license.version < MaxChanges /\ activationLock = NoRequest
  /\ \E s \in Statuses, u \in Terms :
       license' = [status |-> s, until |-> u, version |-> license.version + 1]
  /\ UNCHANGED <<activation, ids, request, activationLock, tokens, today>>

NextDay ==
  /\ today < LastDay /\ today' = today + 1
  /\ UNCHANGED <<license, activation, ids, request, activationLock, tokens>>

ActivationInit ==
  /\ license \in [status : {"active"}, until : Terms, version : {0}]
  /\ activation = [d \in Devices |-> 0] /\ ids = 0
  /\ request = [r \in Requests |-> Idle]
  /\ activationLock = NoRequest
  /\ tokens = {} /\ today = 0

Serve(r) ==
  \/ FindActivation(r) \/ LockLicense(r) \/ CountActivations(r) \/ InsertActivation(r)
  \/ SignToken(r) \/ Deactivate(r)

ActivationNext ==
  \/ \E r \in Requests : Load(r) \/ Serve(r) \/ RequestFails(r)
  \/ FreeSlot \/ DeleteExpiredActivations \/ LicenseChanges \/ NextDay

ActivationSpec == ActivationInit /\ [][ActivationNext]_activationVars

-----------------------------------------------------------------------------
(* Properties *)

(* Who counts and inserts holds the row of the license, and nobody else.   *)
ActivationLockHeld == \A r \in Requests : request[r].step \in {"count", "insert"} <=> activationLock = r

(* However activations overlap, no more devices are active than the plan   *)
(* allows (store.go:1178-1180).                                            *)
DeviceLimitKept == Cardinality(Active) <= MaxActivations

(* A token is never trusted offline when the server would already refuse   *)
(* the license it was signed for, unchanged since: the token, the envelope *)
(* and assertUsable agree on its end (license.go:490-494, 540-552).        *)
OfflineAgrees ==
  \A t \in tokens :
    t.version = license.version /\ today < t.expires => Usable(license)
=============================================================================
