--------------------------- MODULE Limits_proofs ------------------------------
(*****************************************************************************)
(* Proofs that a license never has more devices, floating sessions or seats  *)
(* than its plan allows, and of what its tokens say: the requests that count *)
(* under the lock of the license's row and then insert.                      *)
(*****************************************************************************)
EXTENDS Activation, Floating, Seats, FiniteSetTheorems, TLAPS

-----------------------------------------------------------------------------
(*****************************************************************************)
(* Devices: the devices of a license, for any number of them, of             *)
(* overlapping requests and of changes of the license.                       *)
(*****************************************************************************)
USE ActivationConstantsOK DEF ActivationConstantsOK

RequestsTyped ==
  /\ license \in License
  /\ activation \in [Devices -> 0..MaxIds] /\ ids \in 0..MaxIds
  /\ request \in [Requests -> RequestRow]

(* Who is about to insert counted a free slot, and nobody has taken it     *)
(* since: slots are only taken under the lock.                             *)
SlotCounted ==
  /\ RequestsTyped
  /\ ActivationLockHeld
  /\ DeviceLimitKept
  /\ \A r \in Requests : request[r].step = "insert" => Cardinality(Active) < MaxActivations

(* How the number of active devices changes with the set of them. *)
LEMMA ActiveCounted ==
         /\ IsFiniteSet(Active) /\ Cardinality(Active) \in Nat
         /\ Active' \subseteq Active =>
              Cardinality(Active)' \in Nat /\ Cardinality(Active)' <= Cardinality(Active)
         /\ \A d \in Devices \ Active : Active' = Active \cup {d} =>
              Cardinality(Active)' = Cardinality(Active) + 1
<1>1. IsFiniteSet(Active)
  BY FS_Subset DEF Active
<1>2. Cardinality(Active) \in Nat
  BY <1>1, FS_CardinalityType
<1>3. ASSUME Active' \subseteq Active
      PROVE  Cardinality(Active)' \in Nat /\ Cardinality(Active)' <= Cardinality(Active)
  BY <1>1, <1>3, FS_Subset, FS_CardinalityType
<1>4. ASSUME NEW d \in Devices \ Active, Active' = Active \cup {d}
      PROVE  Cardinality(Active)' = Cardinality(Active) + 1
  BY <1>1, <1>4, FS_AddElement
<1>5. QED
  BY <1>1, <1>2, <1>3, <1>4

(* A request moves on: the lock and the slots are as they were. *)
LEMMA RequestMoves ==
  ASSUME SlotCounted, RequestsTyped',
         Active' \subseteq Active,
         \A r \in Requests : /\ request'[r].step = "insert" => request[r].step = "insert"
                             /\ request'[r].step \in {"count", "insert"} <=> activationLock' = r
  PROVE  SlotCounted'
<1>1. Cardinality(Active) \in Nat /\ Cardinality(Active)' \in Nat
        /\ Cardinality(Active)' <= Cardinality(Active)
  BY ActiveCounted
<1>2. DeviceLimitKept' /\ ActivationLockHeld'
  BY <1>1 DEF SlotCounted, DeviceLimitKept, ActivationLockHeld
<1>3. QED
  BY <1>1, <1>2 DEF SlotCounted

-----------------------------------------------------------------------------
(* The step of one request. *)
LEMMA RequestStepTyped ==
  ASSUME RequestsTyped, NEW r \in Requests, NEW step \in RequestSteps, request' = [request EXCEPT ![r].step = step]
  PROVE  /\ request' \in [Requests -> RequestRow]
         /\ request'[r].step = step
         /\ \A o \in Requests \ {r} : request'[o] = request[o]
<1>1. request[r] \in RequestRow
  BY DEF RequestsTyped
<1>2. [request[r] EXCEPT !.step = step] \in RequestRow
  BY <1>1 DEF RequestRow, RequestSteps
<1>3. request'[r] = [request[r] EXCEPT !.step = step]
  BY DEF RequestsTyped
<1>4. request'[r].step = step
  BY <1>1, <1>3 DEF RequestRow
<1>5. request' = [request EXCEPT ![r] = [request[r] EXCEPT !.step = step]]
  OBVIOUS
<1>6. request' \in [Requests -> RequestRow]
  BY <1>2, <1>5 DEF RequestsTyped
<1>7. QED
  BY <1>4, <1>6 DEF RequestsTyped

(* The end of one request. *)
LEMMA RequestEndTyped ==
  ASSUME RequestsTyped,
         NEW r \in Requests, request' = [request EXCEPT ![r] = Idle]
  PROVE  /\ request' \in [Requests -> RequestRow]
         /\ request'[r].step = "idle"
         /\ \A o \in Requests \ {r} : request'[o] = request[o]
<1>1. Idle.read \in License /\ Idle.device \in Devices
  BY DEF Idle, License, Statuses
<1>2. Idle \in RequestRow /\ Idle.step = "idle"
  BY <1>1 DEF Idle, RequestRow, RequestSteps
<1>3. QED
  BY <1>2 DEF RequestsTyped

(* Every step keeps what the count established.                            *)
LEMMA SlotStaysCounted ==
  ASSUME SlotCounted, [ActivationNext]_activationVars
  PROVE  SlotCounted'
<1> USE DEF SlotCounted
<1>1. ASSUME NEW r \in Requests, Load(r) PROVE SlotCounted'
  <2>1. PICK op \in {"activate", "verify", "deactivate"}, d \in Devices :
          request' = [request EXCEPT ![r] =
            [op |-> op, step |-> "find", device |-> d, read |-> license, found |-> 0]]
    BY <1>1 DEF Load
  <2>2. [op |-> op, step |-> "find", device |-> d, read |-> license, found |-> 0] \in RequestRow
    BY DEF RequestsTyped, RequestRow, RequestSteps
  <2>3. /\ RequestsTyped' /\ request'[r].step = "find"
        /\ \A o \in Requests \ {r} : request'[o] = request[o]
    BY <1>1, <2>1, <2>2 DEF RequestsTyped, Load
  <2>4. request[r].step = "idle" /\ activationLock' = activationLock /\ Active' = Active
    BY <1>1 DEF Load, Active
  <2>5. QED
    BY <2>3, <2>4, RequestMoves DEF ActivationLockHeld
<1>2. ASSUME NEW r \in Requests, FindActivation(r) PROVE SlotCounted'
  <2>1. /\ request[r].step = "find" /\ UNCHANGED <<license, activation, ids, activationLock>>
    BY <1>2 DEF FindActivation
  <2>2. CASE activation[request[r].device] # 0
    <3> DEFINE id == activation[request[r].device]
               step == IF request[r].op = "deactivate" THEN "delete" ELSE "sign"
    <3>1. request[r] \in RequestRow /\ id \in 0..MaxIds
      BY DEF RequestsTyped, RequestRow, RequestSteps
    <3>2. request' = [request EXCEPT ![r] = [request[r] EXCEPT !.found = id, !.step = step]]
      BY <1>2, <2>2 DEF FindActivation
    <3>3. [request[r] EXCEPT !.found = id] \in RequestRow
      BY <3>1 DEF RequestRow, RequestSteps
    <3>4. \A row \in RequestRow, s \in {"delete", "sign"} : [row EXCEPT !.step = s] \in RequestRow
      BY DEF RequestRow, RequestSteps
    <3>5. [request[r] EXCEPT !.found = id, !.step = step] \in RequestRow
      BY <3>3, <3>4
    <3>6. [request[r] EXCEPT !.found = id, !.step = step].step = step
      BY <3>1 DEF RequestRow, RequestSteps
    <3>7. /\ request' \in [Requests -> RequestRow] /\ request'[r].step \in {"delete", "sign"}
          /\ \A o \in Requests \ {r} : request'[o] = request[o]
      BY <3>2, <3>5, <3>6 DEF RequestsTyped
    <3>8. RequestsTyped' /\ Active' = Active
      BY <2>1, <3>7 DEF RequestsTyped, Active
    <3>9. QED
      BY <2>1, <3>7, <3>8, RequestMoves DEF ActivationLockHeld
  <2>3. CASE activation[request[r].device] = 0
    <3>1. \/ request' = [request EXCEPT ![r].step = "lock"]
          \/ request' = [request EXCEPT ![r] = Idle]
      BY <1>2, <2>3 DEF FindActivation
    <3>2. /\ request' \in [Requests -> RequestRow] /\ request'[r].step \in {"lock", "idle"}
          /\ \A o \in Requests \ {r} : request'[o] = request[o]
      BY <3>1, RequestStepTyped, RequestEndTyped DEF RequestSteps
    <3>3. RequestsTyped' /\ Active' = Active
      BY <2>1, <3>2 DEF RequestsTyped, Active
    <3>4. QED
      BY <2>1, <3>2, <3>3, RequestMoves DEF ActivationLockHeld
  <2>4. QED
    BY <2>2, <2>3
<1>3. ASSUME NEW r \in Requests, LockLicense(r) PROVE SlotCounted'
  <2>1. /\ request' = [request EXCEPT ![r].step = "count"]
        /\ activationLock = NoRequest /\ activationLock' = r
        /\ UNCHANGED <<license, activation, ids>>
    BY <1>3 DEF LockLicense, RequestStep
  <2>2. /\ request' \in [Requests -> RequestRow] /\ request'[r].step = "count"
        /\ \A o \in Requests \ {r} : request'[o] = request[o]
    BY <2>1, RequestStepTyped DEF RequestSteps
  <2>3. RequestsTyped' /\ Active' = Active
    BY <2>1, <2>2 DEF RequestsTyped, Active
  <2>4. QED
    BY <2>1, <2>2, <2>3, RequestMoves DEF ActivationLockHeld
<1>4. ASSUME NEW r \in Requests, CountActivations(r) PROVE SlotCounted'
  <2>1. /\ request[r].step = "count" /\ UNCHANGED <<license, activation, ids>>
        /\ activationLock = r
    BY <1>4 DEF CountActivations, ActivationLockHeld
  <2>2. Active' = Active
    BY <2>1 DEF Active
  <2>3. CASE Cardinality(Active) >= MaxActivations
    <3>1. request' = [request EXCEPT ![r] = Idle] /\ activationLock' = NoRequest
      BY <1>4, <2>1, <2>3 DEF CountActivations, EndRequest
    <3>2. /\ request' \in [Requests -> RequestRow] /\ request'[r].step = "idle"
          /\ \A o \in Requests \ {r} : request'[o] = request[o]
      BY <3>1, RequestEndTyped
    <3>3. RequestsTyped'
      BY <2>1, <3>2 DEF RequestsTyped
    <3>4. QED
      BY <2>1, <2>2, <3>1, <3>2, <3>3, RequestMoves DEF ActivationLockHeld
  <2>4. CASE ~ (Cardinality(Active) >= MaxActivations)
    <3>1. request' = [request EXCEPT ![r].step = "insert"] /\ activationLock' = activationLock
      BY <1>4, <2>4 DEF CountActivations, RequestStep
    <3>2. /\ request' \in [Requests -> RequestRow] /\ request'[r].step = "insert"
          /\ \A o \in Requests \ {r} : request'[o] = request[o]
      BY <3>1, RequestStepTyped DEF RequestSteps
    <3>3. Cardinality(Active) < MaxActivations /\ Cardinality(Active)' = Cardinality(Active)
      BY <2>2, <2>4, ActiveCounted
    <3>4. RequestsTyped' /\ ActivationLockHeld' /\ DeviceLimitKept'
      BY <2>1, <3>1, <3>2, <3>3 DEF RequestsTyped, ActivationLockHeld, DeviceLimitKept
    <3>5. QED
      BY <3>3, <3>4
  <2>5. QED
    BY <2>3, <2>4
<1>5. ASSUME NEW r \in Requests, InsertActivation(r) PROVE SlotCounted'
  <2>1. request[r].step = "insert" /\ activationLock = r /\ license' = license
    BY <1>5 DEF InsertActivation, ActivationLockHeld
  <2>2. CASE request[r].device \in Active
    <3>1. /\ request' = [request EXCEPT ![r] = Idle] /\ activationLock' = NoRequest
          /\ UNCHANGED <<activation, ids>>
      BY <1>5, <2>1, <2>2 DEF InsertActivation, EndRequest
    <3>2. /\ request' \in [Requests -> RequestRow] /\ request'[r].step = "idle"
          /\ \A o \in Requests \ {r} : request'[o] = request[o]
      BY <3>1, RequestEndTyped
    <3>3. RequestsTyped' /\ Active' = Active
      BY <2>1, <3>1, <3>2 DEF RequestsTyped, Active
    <3>4. QED
      BY <2>1, <3>1, <3>2, <3>3, RequestMoves DEF ActivationLockHeld
  <2>3. CASE request[r].device \notin Active
    <3> DEFINE d == request[r].device
    <3>1. /\ ids < MaxIds /\ ids' = ids + 1 /\ activation' = [activation EXCEPT ![d] = ids']
          /\ request' = [request EXCEPT ![r].step = "sign"] /\ activationLock' = NoRequest
      BY <1>5, <2>1, <2>3 DEF InsertActivation
    <3>2. /\ request' \in [Requests -> RequestRow] /\ request'[r].step = "sign"
          /\ \A o \in Requests \ {r} : request'[o] = request[o]
      BY <3>1, RequestStepTyped DEF RequestSteps
    <3>3. d \in Devices /\ ids' \in 0..MaxIds /\ ids' # 0
      BY <3>1 DEF RequestsTyped, RequestRow, RequestSteps
    <3>4. RequestsTyped'
      BY <2>1, <3>1, <3>2, <3>3 DEF RequestsTyped
    <3>5. Active' = Active \cup {d}
      BY <3>1, <3>3 DEF Active, RequestsTyped
    <3>6. Cardinality(Active)' = Cardinality(Active) + 1 /\ Cardinality(Active) \in Nat
      BY <2>3, <3>3, <3>5, ActiveCounted
    <3>7. DeviceLimitKept'
      BY <2>1, <3>6 DEF DeviceLimitKept
    <3>8. ActivationLockHeld' /\ \A o \in Requests : request'[o].step # "insert"
      BY <2>1, <3>1, <3>2 DEF ActivationLockHeld
    <3>9. QED
      BY <3>4, <3>7, <3>8
  <2>4. QED
    BY <2>2, <2>3
<1>6. ASSUME NEW r \in Requests, SignToken(r) \/ Deactivate(r) PROVE SlotCounted'
  <2>1. /\ request' = [request EXCEPT ![r] = Idle] /\ UNCHANGED <<license, ids, activationLock>>
        /\ request[r].step \in {"sign", "delete"}
        /\ \/ activation' = activation
           \/ activation' = [d \in Devices |-> IF activation[d] = request[r].found THEN 0 ELSE activation[d]]
    BY <1>6 DEF SignToken, Deactivate, DeleteId
  <2>2. /\ request' \in [Requests -> RequestRow] /\ request'[r].step = "idle"
        /\ \A o \in Requests \ {r} : request'[o] = request[o]
    BY <2>1, RequestEndTyped
  <2>3. RequestsTyped' /\ Active' \subseteq Active
    BY <2>1, <2>2 DEF RequestsTyped, Active
  <2>4. QED
    BY <2>1, <2>2, <2>3, RequestMoves DEF ActivationLockHeld
<1>7. ASSUME NEW r \in Requests, RequestFails(r) PROVE SlotCounted'
  <2>1. /\ request' = [request EXCEPT ![r] = Idle] /\ UNCHANGED <<license, activation, ids>>
        /\ activationLock' = IF activationLock = r THEN NoRequest ELSE activationLock
    BY <1>7 DEF RequestFails, EndRequest
  <2>2. /\ request' \in [Requests -> RequestRow] /\ request'[r].step = "idle"
        /\ \A o \in Requests \ {r} : request'[o] = request[o]
    BY <2>1, RequestEndTyped
  <2>3. RequestsTyped' /\ Active' = Active
    BY <2>1, <2>2 DEF RequestsTyped, Active
  <2>4. QED
    BY <2>1, <2>2, <2>3, RequestMoves DEF ActivationLockHeld
<1>8. CASE FreeSlot \/ DeleteExpiredActivations
  <2>1. /\ UNCHANGED <<license, ids, request, activationLock>>
        /\ activation' \in [Devices -> 0..MaxIds] /\ Active' \subseteq Active
    BY <1>8 DEF FreeSlot, DeleteExpiredActivations, DeleteId, RequestsTyped, Active
  <2>2. QED
    BY <2>1, RequestMoves DEF ActivationLockHeld, RequestsTyped
<1>9. CASE LicenseChanges \/ NextDay \/ UNCHANGED activationVars
  <2>1. UNCHANGED <<activation, ids, request, activationLock>> /\ license' \in License
    BY <1>9 DEF LicenseChanges, NextDay, activationVars, RequestsTyped, License
  <2>2. QED
    BY <2>1, RequestMoves DEF ActivationLockHeld, RequestsTyped, Active
<1>10. QED
  BY <1>1, <1>2, <1>3, <1>4, <1>5, <1>6, <1>7, <1>8, <1>9 DEF ActivationNext, Serve

(* Nobody has counted a slot at the beginning. *)
LEMMA SlotsBeginCounted ==
  ASSUME ActivationInit
  PROVE  SlotCounted
<1>1. Idle.read \in License /\ Idle.device \in Devices
  BY DEF Idle, License, Statuses
<1>2. Idle \in RequestRow /\ Idle.step = "idle"
  BY <1>1 DEF Idle, RequestRow, RequestSteps
<1>3. RequestsTyped /\ \A r \in Requests : request[r].step = "idle"
  BY <1>2 DEF ActivationInit, RequestsTyped, License, Statuses
<1>4. Active = {} /\ activationLock = NoRequest
  BY DEF ActivationInit, Active
<1>5. Cardinality(Active) = 0
  BY <1>4, FS_EmptySet
<1>6. QED
  BY <1>3, <1>4, <1>5 DEF SlotCounted, ActivationLockHeld, DeviceLimitKept

(* However activations overlap, fail half way or race the release of a     *)
(* slot, no more devices are active than the plan allows, and the count    *)
(* and the insert run under the row lock (store.go:1178-1180).             *)
THEOREM DevicesWithinLimit == ActivationSpec => [](DeviceLimitKept /\ ActivationLockHeld)
<1>1. ActivationInit => SlotCounted
  BY SlotsBeginCounted
<1>2. SlotCounted /\ [ActivationNext]_activationVars => SlotCounted'
  BY SlotStaysCounted
<1>3. SlotCounted => DeviceLimitKept /\ ActivationLockHeld
  BY DEF SlotCounted
<1>4. QED
  BY <1>1, <1>2, <1>3, PTL DEF ActivationSpec

-----------------------------------------------------------------------------
(* Offline tokens *)

GoodStanding == Graced \cup {"canceled"}

(* What a request read is the license as it is, or as it was before an     *)
(* earlier change; and who may sign has read a usable one.                 *)
ReadInTime(row) ==
  row.step # "idle" =>
    /\ row.read.version <= license.version
    /\ row.read.version = license.version => row.read = license
    /\ row.op # "deactivate" => row.read.status \in GoodStanding
    /\ row.step \in {"lock", "count", "insert", "sign"} => row.op # "deactivate"

(* A token of the present license ends when its grace ends, or before.     *)
TokenInTime(t) ==
  /\ t.version <= license.version
  /\ t.version = license.version =>
       /\ license.status \in GoodStanding
       /\ t.expires <= license.until + EffectiveGrace(license)

TokensInTime ==
  /\ activationLock \in Requests \cup {NoRequest} /\ today \in 0..LastDay
  /\ tokens \subseteq [expires : Int, version : 0..MaxChanges]
  /\ \A r \in Requests : ReadInTime(request[r])
  /\ \A t \in tokens : TokenInTime(t)

(* A request that goes on keeps what it is and what it has read. *)
LEMMA RequestGoesOn ==
  ASSUME RequestsTyped, NEW r \in Requests, Serve(r) \/ RequestFails(r)
  PROVE  \A o \in Requests :
           \/ request'[o].step = "idle"
           \/ /\ request[o].step # "idle"
              /\ request'[o].read = request[o].read /\ request'[o].op = request[o].op
              /\ request'[o].step \in {"lock", "count", "insert", "sign"} =>
                   \/ request[o].step \in {"lock", "count", "insert", "sign"}
                   \/ request[o].op # "deactivate"
<1> DEFINE row == request[r]
<1>0. row \in RequestRow /\ Idle.step = "idle"
  BY DEF RequestsTyped, Idle
<1>1. ASSUME request' = [request EXCEPT ![r] = Idle] PROVE request'[r].step = "idle"
  BY <1>0, <1>1 DEF RequestsTyped
<1>2. ASSUME NEW step \in RequestSteps, request' = [request EXCEPT ![r].step = step]
      PROVE  request'[r].step = step /\ request'[r].read = row.read /\ request'[r].op = row.op
  <2>1. request'[r] = [row EXCEPT !.step = step]
    BY <1>2 DEF RequestsTyped
  <2>2. QED
    BY <1>0, <2>1 DEF RequestRow
<1>3. \A o \in Requests \ {r} : request'[o] = request[o]
  BY DEF RequestsTyped, Serve, FindActivation, LockLicense, CountActivations, InsertActivation,
         SignToken, Deactivate, RequestFails, RequestStep, EndRequest
<1>4. row.step # "idle"
  BY DEF Serve, FindActivation, LockLicense, CountActivations, InsertActivation, SignToken,
         Deactivate, RequestFails
<1>5. CASE FindActivation(r)
  <2>1. row.step = "find"
    BY <1>5 DEF FindActivation
  <2>2. CASE activation[row.device] # 0
    <3> DEFINE id == activation[row.device]
               step == IF row.op = "deactivate" THEN "delete" ELSE "sign"
    <3>1. request'[r] = [row EXCEPT !.found = id, !.step = step]
      BY <1>5, <2>2 DEF FindActivation, RequestsTyped
    <3>2. request'[r].step = step /\ request'[r].read = row.read /\ request'[r].op = row.op
      BY <1>0, <3>1 DEF RequestRow
    <3>3. QED
      BY <1>3, <1>4, <3>2
  <2>3. CASE activation[row.device] = 0
    <3>1. CASE row.op = "activate"
      <4>1. request' = [request EXCEPT ![r].step = "lock"]
        BY <1>5, <2>3, <3>1 DEF FindActivation
      <4>2. request'[r].step = "lock" /\ request'[r].read = row.read /\ request'[r].op = row.op
        BY <1>2, <4>1 DEF RequestSteps
      <4>3. QED
        BY <1>3, <1>4, <3>1, <4>2
    <3>2. CASE row.op # "activate"
      BY <1>1, <1>3, <1>5, <2>3, <3>2 DEF FindActivation
    <3>3. QED
      BY <3>1, <3>2
  <2>4. QED
    BY <2>2, <2>3
<1>6. CASE LockLicense(r) \/ CountActivations(r) \/ InsertActivation(r)
  <2>1. /\ row.step \in {"lock", "count", "insert"}
        /\ \/ request' = [request EXCEPT ![r] = Idle]
           \/ \E step \in {"count", "insert", "sign"} : request' = [request EXCEPT ![r].step = step]
    BY <1>6 DEF LockLicense, CountActivations, InsertActivation, RequestStep, EndRequest
  <2>2. CASE request' = [request EXCEPT ![r] = Idle]
    BY <1>1, <1>3, <2>2
  <2>3. ASSUME NEW step \in {"count", "insert", "sign"}, request' = [request EXCEPT ![r].step = step]
        PROVE  request'[r].step = step /\ request'[r].read = row.read /\ request'[r].op = row.op
    BY <1>2, <2>3 DEF RequestSteps
  <2>4. QED
    BY <1>3, <1>4, <2>1, <2>2, <2>3
<1>7. CASE SignToken(r) \/ Deactivate(r) \/ RequestFails(r)
  <2>1. request' = [request EXCEPT ![r] = Idle]
    BY <1>7 DEF SignToken, Deactivate, RequestFails, EndRequest
  <2>2. QED
    BY <1>1, <1>3, <2>1
<1>8. QED
  BY <1>5, <1>6, <1>7 DEF Serve

(* A license that is signed for is usable as it was read. *)
LEMMA UsableStands ==
  ASSUME RequestsTyped, Usable(license)
  PROVE  license.status \in GoodStanding
  BY DEF Usable, GoodStanding

(* The parts of a license, with its end date as the integer it is. *)
LEMMA LicenseParts ==
  ASSUME NEW lic \in License
  PROVE  /\ lic.status \in Statuses /\ lic.version \in 0..MaxChanges
         /\ lic.until \in Int /\ EffectiveGrace(lic) \in Int
<1>1. lic.status \in Statuses /\ lic.until \in Terms /\ lic.version \in 0..MaxChanges
  BY DEF License
<1>2. lic.until \in Int
  BY <1>1
<1>3. EffectiveGrace(lic) \in Int
  BY DEF EffectiveGrace
<1>4. QED
  BY <1>1, <1>2, <1>3

(* No step makes a token outlive what the license granted. *)
LEMMA TokensStayInTime ==
  ASSUME RequestsTyped, TokensInTime, [ActivationNext]_activationVars
  PROVE  TokensInTime'
<1>0. /\ license \in License /\ license.version \in 0..MaxChanges /\ license.until \in Int
      /\ today \in Nat
  <2>1. license \in License /\ today \in 0..LastDay
    BY DEF RequestsTyped, TokensInTime
  <2>2. QED
    BY <2>1, LicenseParts
<1>1. ASSUME NEW r \in Requests, Load(r) PROVE TokensInTime'
  <2>1. PICK op \in {"activate", "verify", "deactivate"}, d \in Devices :
          /\ op = "deactivate" \/ Usable(license)
          /\ request' = [request EXCEPT ![r] =
               [op |-> op, step |-> "find", device |-> d, read |-> license, found |-> 0]]
    BY <1>1 DEF Load
  <2>2. UNCHANGED <<license, activationLock, tokens, today>>
    BY <1>1 DEF Load
  <2>3. \A o \in Requests \ {r} : request'[o] = request[o]
    BY <2>1 DEF RequestsTyped
  <2>4. /\ request'[r].step = "find" /\ request'[r].read = license
        /\ request'[r].op = "deactivate" \/ Usable(license)
    BY <2>1 DEF RequestsTyped
  <2>5. ReadInTime(request[r])'
    BY <1>0, <2>2, <2>4, UsableStands DEF ReadInTime
  <2>6. \A o \in Requests : ReadInTime(request[o])'
    BY <2>2, <2>3, <2>5 DEF ReadInTime, TokensInTime
  <2>7. QED
    BY <2>2, <2>6 DEF TokensInTime, TokenInTime, EffectiveGrace
<1>2. ASSUME NEW r \in Requests, Serve(r) \/ RequestFails(r) PROVE TokensInTime'
  <2>1. UNCHANGED <<license, today>>
    BY <1>2 DEF Serve, FindActivation, LockLicense, CountActivations, InsertActivation, SignToken,
                Deactivate, RequestFails
  <2>2. activationLock' \in Requests \cup {NoRequest}
    BY <1>2 DEF TokensInTime, Serve, FindActivation, LockLicense, CountActivations,
                InsertActivation, SignToken, Deactivate, RequestFails, EndRequest, RequestStep
  <2>3. \A o \in Requests : ReadInTime(request[o])'
    BY <1>2, <2>1, RequestGoesOn DEF ReadInTime, TokensInTime
  <2>4. /\ tokens' \subseteq [expires : Int, version : 0..MaxChanges]
        /\ \A t \in tokens' : TokenInTime(t)
    <3>1. CASE SignToken(r)
      <4> DEFINE lic == request[r].read
                 checkIn == today + TokenDays
                 deadline == lic.until + EffectiveGrace(lic)
                 new == [expires |-> IF deadline < checkIn THEN deadline ELSE checkIn,
                         version |-> lic.version]
      <4>1. tokens' = tokens \cup {new} /\ request[r].step = "sign"
        BY <3>1 DEF SignToken
      <4>2. /\ lic \in License /\ lic.version \in 0..MaxChanges /\ lic.until \in Int
            /\ EffectiveGrace(lic) \in Int
        <5>1. lic \in License
          BY DEF RequestsTyped, RequestRow
        <5>2. QED
          BY <5>1, LicenseParts
      <4>3. /\ lic.version <= license.version /\ lic.status \in GoodStanding
            /\ lic.version = license.version => lic = license
        BY <4>1 DEF TokensInTime, ReadInTime
      <4>4. /\ new.expires \in Int /\ new.expires <= deadline /\ new.version = lic.version
            /\ new \in [expires : Int, version : 0..MaxChanges]
        BY <1>0, <4>2
      <4>5. TokenInTime(new)
        BY <4>3, <4>4 DEF TokenInTime
      <4>6. QED
        BY <4>1, <4>4, <4>5 DEF TokensInTime
    <3>2. CASE ~ SignToken(r)
      <4>1. tokens' = tokens
        BY <1>2, <3>2 DEF Serve, FindActivation, LockLicense, CountActivations, InsertActivation,
                          Deactivate, RequestFails
      <4>2. QED
        BY <4>1 DEF TokensInTime
    <3>3. QED
      BY <3>1, <3>2
  <2>5. \A t \in tokens' : TokenInTime(t)'
    BY <2>1, <2>4 DEF TokenInTime, EffectiveGrace
  <2>6. QED
    BY <2>1, <2>2, <2>3, <2>4, <2>5 DEF TokensInTime
<1>3. CASE LicenseChanges
  <2>1. /\ license'.version = license.version + 1
        /\ UNCHANGED <<request, activationLock, tokens, today>>
    BY <1>3 DEF LicenseChanges
  <2>2. \A o \in Requests : ReadInTime(request[o])'
    <3> SUFFICES ASSUME NEW o \in Requests, request[o].step # "idle"
                 PROVE  /\ request[o].read.version < license'.version
                        /\ request[o].op # "deactivate" => request[o].read.status \in GoodStanding
                        /\ request[o].step \in {"lock", "count", "insert", "sign"} =>
                             request[o].op # "deactivate"
      BY <2>1 DEF ReadInTime, RequestsTyped, RequestRow, License
    <3>1. request[o].read.version \in 0..MaxChanges /\ request[o].read.version <= license.version
      BY DEF RequestsTyped, RequestRow, License, TokensInTime, ReadInTime
    <3>2. QED
      BY <1>0, <2>1, <3>1 DEF TokensInTime, ReadInTime
  <2>3. \A t \in tokens : TokenInTime(t)'
    <3> SUFFICES ASSUME NEW t \in tokens PROVE t.version < license'.version
      BY <1>0, <2>1 DEF TokenInTime, TokensInTime
    <3>1. t.version \in 0..MaxChanges /\ t.version <= license.version
      BY DEF TokensInTime, TokenInTime
    <3>2. QED
      BY <1>0, <2>1, <3>1
  <2>4. QED
    BY <2>1, <2>2, <2>3 DEF TokensInTime
<1>4. CASE NextDay
  <2>1. today' \in 0..LastDay /\ UNCHANGED <<license, request, activationLock, tokens>>
    BY <1>0, <1>4 DEF NextDay, TokensInTime
  <2>2. QED
    BY <2>1 DEF TokensInTime, ReadInTime, TokenInTime, EffectiveGrace
<1>5. CASE FreeSlot \/ DeleteExpiredActivations \/ UNCHANGED activationVars
  <2>1. UNCHANGED <<license, request, activationLock, tokens, today>>
    BY <1>5 DEF FreeSlot, DeleteExpiredActivations, activationVars
  <2>2. QED
    BY <2>1 DEF TokensInTime, ReadInTime, TokenInTime, EffectiveGrace
<1>6. QED
  BY <1>1, <1>2, <1>3, <1>4, <1>5 DEF ActivationNext

(* A token is not trusted offline when the server would refuse the license *)
(* it was signed for, whatever happened between the reading and the        *)
(* signing (license.go:490-494, 540-552).                                  *)
THEOREM TokensAgreeOffline == ActivationSpec => [](ActivationTypeOK /\ OfflineAgrees)
<1>1. ActivationInit => SlotCounted /\ TokensInTime
  <2> SUFFICES ASSUME ActivationInit PROVE TokensInTime
    BY SlotsBeginCounted
  <2>1. \A r \in Requests : request[r].step = "idle"
    BY DEF ActivationInit, Idle
  <2>2. QED
    BY <2>1 DEF ActivationInit, TokensInTime, ReadInTime
<1>2. SlotCounted /\ TokensInTime /\ [ActivationNext]_activationVars => SlotCounted' /\ TokensInTime'
  <2>1. SlotCounted => RequestsTyped
    BY DEF SlotCounted
  <2>2. QED
    BY <2>1, SlotStaysCounted, TokensStayInTime
<1>3. SlotCounted /\ TokensInTime => ActivationTypeOK /\ OfflineAgrees
  <2> SUFFICES ASSUME SlotCounted, TokensInTime PROVE ActivationTypeOK /\ OfflineAgrees
    OBVIOUS
  <2>1. ActivationTypeOK
    BY DEF SlotCounted, RequestsTyped, TokensInTime, ActivationTypeOK
  <2>2. ASSUME NEW t \in tokens, t.version = license.version, today < t.expires
        PROVE  Usable(license)
    <3>1. /\ license.status \in GoodStanding /\ t.expires <= license.until + EffectiveGrace(license)
          /\ t.expires \in Int /\ today \in Int /\ license.until \in Int
      <4>1. license \in License /\ today \in 0..LastDay /\ t \in [expires : Int, version : 0..MaxChanges]
        BY DEF TokensInTime, SlotCounted, RequestsTyped
      <4>2. t.expires \in Int
        BY <4>1
      <4>3. license.status \in GoodStanding /\ t.expires <= license.until + EffectiveGrace(license)
        BY <2>2 DEF TokensInTime, TokenInTime
      <4>4. QED
        BY <4>1, <4>2, <4>3, LicenseParts
    <3>2. CASE license.status \in Graced
      BY <2>2, <3>1, <3>2 DEF EffectiveGrace, Usable
    <3>3. CASE license.status = "canceled"
      BY <2>2, <3>1, <3>3 DEF EffectiveGrace, Usable, Graced
    <3>4. QED
      BY <3>1, <3>2, <3>3 DEF GoodStanding
  <2>3. QED
    BY <2>1, <2>2 DEF OfflineAgrees
<1>4. QED
  BY <1>1, <1>2, <1>3, PTL DEF ActivationSpec

HIDE ActivationConstantsOK DEF ActivationConstantsOK
-----------------------------------------------------------------------------
(*****************************************************************************)
(* Floating sessions, for any number of machines and requests.               *)
(*****************************************************************************)
(* Who is about to insert counted a free session.  Sessions that were      *)
(* brought back after they expired are not counted: a heartbeat asks       *)
(* nobody.                                                                 *)
SessionCounted ==
  /\ FloatingTypeOK
  /\ FloatingLockHeld
  /\ SessionLimitKept
  /\ \A c \in Checkouts :
       checkout[c].step = "insert" => Cardinality(ActiveFor(c) \ late) < MaxSessions

-----------------------------------------------------------------------------
(* The machines are finite in number, and so is every set of them.         *)
LEMMA MachinesCounted ==
  ASSUME NEW S \in SUBSET Machines
  PROVE  /\ IsFiniteSet(S) /\ Cardinality(S) \in Nat
         /\ \A T \in SUBSET S : Cardinality(T) \in Nat /\ Cardinality(T) <= Cardinality(S)
         /\ \A m \in Machines \ S : Cardinality(S \cup {m}) = Cardinality(S) + 1
<1>1. IsFiniteSet(S)
  BY FloatingConstantsOK, FS_Subset DEF FloatingConstantsOK
<1>2. QED
  BY <1>1, FS_CardinalityType, FS_Subset, FS_AddElement

(* A step that makes no session counts no session. *)
LEMMA SessionsStand ==
  ASSUME SessionCounted, FloatingTypeOK', FloatingLockHeld',
         (Live \ late)' \subseteq Live \ late,
         \A c \in Checkouts : checkout'[c].step = "insert" =>
           checkout[c].step = "insert" /\ (ActiveFor(c) \ late)' \subseteq ActiveFor(c) \ late
  PROVE  SessionCounted'
<1>1. Cardinality((Live \ late)') <= Cardinality(Live \ late) /\ Cardinality(Live \ late) \in Nat
        /\ Cardinality((Live \ late)') \in Nat
  BY MachinesCounted DEF Live
<1>2. SessionLimitKept'
  BY <1>1, FloatingConstantsOK DEF SessionLimitKept, SessionCounted, FloatingConstantsOK
<1>3. ASSUME NEW c \in Checkouts, checkout'[c].step = "insert"
      PROVE  Cardinality((ActiveFor(c) \ late)') < MaxSessions
  <2>1. Cardinality(ActiveFor(c) \ late) < MaxSessions
    BY <1>3 DEF SessionCounted
  <2>2. ActiveFor(c) \ late \in SUBSET Machines
    BY DEF ActiveFor, Rows
  <2>3. Cardinality((ActiveFor(c) \ late)') <= Cardinality(ActiveFor(c) \ late)
          /\ Cardinality(ActiveFor(c) \ late) \in Nat /\ Cardinality((ActiveFor(c) \ late)') \in Nat
    BY <1>3, <2>2, MachinesCounted
  <2>4. QED
    BY <2>1, <2>3, FloatingConstantsOK DEF FloatingConstantsOK
<1>4. QED
  BY <1>2, <1>3 DEF SessionCounted

-----------------------------------------------------------------------------
(* What a step, or the end, of a checkout does to it. *)
LEMMA CheckoutMoves ==
  ASSUME FloatingTypeOK, NEW c \in Checkouts, NEW step \in CheckoutSteps, CheckoutStep(c, step)
  PROVE  /\ checkout' \in [Checkouts -> CheckoutRow]
         /\ checkout'[c].step = step /\ checkout'[c].seen = checkout[c].seen
         /\ \A o \in Checkouts \ {c} : checkout'[o] = checkout[o]
<1>1. checkout[c] \in CheckoutRow
  BY DEF FloatingTypeOK
<1>2. /\ [checkout[c] EXCEPT !.step = step] \in CheckoutRow
      /\ [checkout[c] EXCEPT !.step = step].step = step
      /\ [checkout[c] EXCEPT !.step = step].seen = checkout[c].seen
  BY <1>1 DEF CheckoutRow
<1>3. checkout' = [checkout EXCEPT ![c] = [checkout[c] EXCEPT !.step = step]]
  BY DEF CheckoutStep
<1>4. QED
  BY <1>2, <1>3 DEF FloatingTypeOK

(* A checkout that ends gives the lock back. *)
LEMMA CheckoutEnds ==
  ASSUME FloatingTypeOK, FloatingLockHeld, NEW c \in Checkouts, EndCheckout(c)
  PROVE  /\ checkout' \in [Checkouts -> CheckoutRow]
         /\ checkout'[c].step = "idle"
         /\ \A o \in Checkouts \ {c} : checkout'[o] = checkout[o]
         /\ floatingLock' \in Checkouts \cup {NoCheckout}
         /\ FloatingLockHeld'
<1>1. NotAsking \in CheckoutRow /\ NotAsking.step = "idle"
  <2>1. (CHOOSE m \in Machines : TRUE) \in Machines
    BY FloatingConstantsOK DEF FloatingConstantsOK
  <2>2. QED
    BY <2>1 DEF NotAsking, CheckoutRow, CheckoutSteps
<1>2. /\ checkout' \in [Checkouts -> CheckoutRow] /\ checkout'[c].step = "idle"
      /\ \A o \in Checkouts \ {c} : checkout'[o] = checkout[o]
  BY <1>1 DEF EndCheckout, FloatingTypeOK
<1>3. floatingLock' \in Checkouts \cup {NoCheckout}
  BY DEF EndCheckout, FloatingTypeOK
<1>4. FloatingLockHeld'
  BY <1>2, FloatingConstantsOK DEF EndCheckout, FloatingLockHeld, FloatingConstantsOK
<1>5. QED
  BY <1>2, <1>3, <1>4

(* A row that is extended: it counts as late unless it was live.           *)
LEMMA ExtendedIsLate ==
  ASSUME FloatingTypeOK, NEW m \in Rows, Extend(m)
  PROVE  /\ session' \in [Machines -> {"none", "live", "expired"}] /\ late' \subseteq Machines
         /\ (Live \ late)' \subseteq Live \ late
         /\ \A c \in Checkouts : checkout'[c] = checkout[c] =>
              (ActiveFor(c) \ late)' \subseteq ActiveFor(c) \ late
<1>1. m \in Machines /\ session[m] \in {"live", "expired"}
  BY DEF Rows, FloatingTypeOK
<1>2. CASE session[m] = "live"
  <2>1. session' = session /\ late' = late
    BY <1>1, <1>2 DEF Extend, FloatingTypeOK
  <2>2. QED
    BY <2>1 DEF FloatingTypeOK, Live, ActiveFor, Rows
<1>3. CASE session[m] = "expired"
  <2>1. /\ late' = late \cup {m}
        /\ session' \in [Machines -> {"none", "live", "expired"}]
        /\ \A o \in Machines \ {m} : session'[o] = session[o]
    BY <1>1, <1>3 DEF Extend, FloatingTypeOK
  <2>2. QED
    BY <1>1, <2>1 DEF FloatingTypeOK, Live, ActiveFor, Rows
<1>4. QED
  BY <1>1, <1>2, <1>3

(* Removed rows are neither live nor late. *)
LEMMA RemovedIsGone ==
  ASSUME FloatingTypeOK, NEW gone \in SUBSET Machines, Remove(gone)
  PROVE  /\ session' \in [Machines -> {"none", "live", "expired"}] /\ late' \subseteq Machines
         /\ (Live \ late)' \subseteq Live \ late
         /\ \A c \in Checkouts : (ActiveFor(c) \ late)' \subseteq ActiveFor(c) \ late
<1>1. /\ session' \in [Machines -> {"none", "live", "expired"}] /\ late' = late \ gone
      /\ checkout' = checkout
      /\ \A m \in gone : session'[m] = "none"
      /\ \A m \in Machines \ gone : session'[m] = session[m]
  BY DEF Remove, FloatingTypeOK
<1>2. QED
  BY <1>1 DEF FloatingTypeOK, Live, ActiveFor, Rows

(* Every step keeps what the count established. *)
LEMMA SessionStaysCounted ==
  ASSUME SessionCounted, [FloatingNext]_floatingVars
  PROVE  SessionCounted'
<1>0. FloatingTypeOK /\ FloatingLockHeld
  BY DEF SessionCounted
<1>1. ASSUME NEW c \in Checkouts, BeginCheckout(c) PROVE SessionCounted'
  <2>1. PICK m \in Machines :
          checkout' = [checkout EXCEPT ![c] = [step |-> "refresh", machine |-> m, seen |-> Live]]
    BY <1>1 DEF BeginCheckout
  <2>2. [step |-> "refresh", machine |-> m, seen |-> Live] \in CheckoutRow
    BY DEF CheckoutRow, CheckoutSteps, Live
  <2>3. /\ checkout' \in [Checkouts -> CheckoutRow] /\ checkout'[c].step = "refresh"
        /\ \A o \in Checkouts \ {c} : checkout'[o] = checkout[o]
    BY <1>0, <2>1, <2>2 DEF FloatingTypeOK
  <2>4. checkout[c].step = "idle" /\ UNCHANGED <<session, floatingLock, late, expiries, misled>>
    BY <1>1 DEF BeginCheckout
  <2>5. FloatingTypeOK' /\ FloatingLockHeld'
    BY <1>0, <2>3, <2>4 DEF FloatingTypeOK, FloatingLockHeld
  <2>6. QED
    BY <2>3, <2>4, <2>5, SessionsStand DEF Live, ActiveFor, Rows
<1>2. ASSUME NEW c \in Checkouts, Refresh(c) PROVE SessionCounted'
  <2>1. checkout[c].step = "refresh" /\ UNCHANGED <<expiries, misled>>
    BY <1>2 DEF Refresh
  <2>2. CASE checkout[c].machine \in ActiveFor(c)
    <3> DEFINE m == checkout[c].machine
    <3>1. m \in Rows /\ Extend(m) /\ EndCheckout(c)
      BY <1>2, <2>2 DEF Refresh, ActiveFor
    <3>2. FloatingTypeOK' /\ FloatingLockHeld'
      BY <1>0, <2>1, <3>1, ExtendedIsLate, CheckoutEnds DEF FloatingTypeOK
    <3>3. /\ checkout'[c].step = "idle"
          /\ \A o \in Checkouts \ {c} : checkout'[o] = checkout[o]
      BY <1>0, <3>1, CheckoutEnds
    <3>4. /\ (Live \ late)' \subseteq Live \ late
          /\ \A o \in Checkouts : checkout'[o] = checkout[o] =>
               (ActiveFor(o) \ late)' \subseteq ActiveFor(o) \ late
      BY <1>0, <3>1, ExtendedIsLate
    <3>5. QED
      BY <3>2, <3>3, <3>4, SessionsStand
  <2>3. CASE checkout[c].machine \notin ActiveFor(c)
    <3>1. CheckoutStep(c, "lock") /\ UNCHANGED <<session, late, floatingLock>>
      BY <1>2, <2>3 DEF Refresh
    <3>2. /\ checkout' \in [Checkouts -> CheckoutRow] /\ checkout'[c].step = "lock"
          /\ \A o \in Checkouts \ {c} : checkout'[o] = checkout[o]
      BY <1>0, <3>1, CheckoutMoves DEF CheckoutSteps
    <3>3. FloatingTypeOK' /\ FloatingLockHeld'
      BY <1>0, <2>1, <3>1, <3>2 DEF FloatingTypeOK, FloatingLockHeld
    <3>4. QED
      BY <3>1, <3>2, <3>3, SessionsStand DEF Live, ActiveFor, Rows
  <2>4. QED
    BY <2>2, <2>3
<1>3. ASSUME NEW c \in Checkouts, LockForCheckout(c) PROVE SessionCounted'
  <2>1. /\ checkout[c].step = "lock" /\ floatingLock = NoCheckout /\ floatingLock' = c
        /\ CheckoutStep(c, "count") /\ UNCHANGED <<session, late, expiries, misled>>
    BY <1>3 DEF LockForCheckout
  <2>2. /\ checkout' \in [Checkouts -> CheckoutRow] /\ checkout'[c].step = "count"
        /\ \A o \in Checkouts \ {c} : checkout'[o] = checkout[o]
    BY <1>0, <2>1, CheckoutMoves DEF CheckoutSteps
  <2>3. FloatingTypeOK' /\ FloatingLockHeld'
    BY <1>0, <2>1, <2>2, FloatingConstantsOK DEF FloatingTypeOK, FloatingLockHeld, FloatingConstantsOK
  <2>4. QED
    BY <2>1, <2>2, <2>3, SessionsStand DEF Live, ActiveFor, Rows
<1>4. ASSUME NEW c \in Checkouts, CountSessions(c) PROVE SessionCounted'
  <2>1. checkout[c].step = "count" /\ UNCHANGED <<session, late, expiries, misled>>
    BY <1>4 DEF CountSessions
  <2>2. CASE Cardinality(ActiveFor(c)) >= MaxSessions
    <3>1. EndCheckout(c)
      BY <1>4, <2>2 DEF CountSessions
    <3>2. /\ FloatingTypeOK' /\ FloatingLockHeld' /\ checkout'[c].step = "idle"
          /\ \A o \in Checkouts \ {c} : checkout'[o] = checkout[o]
      BY <1>0, <2>1, <3>1, CheckoutEnds DEF FloatingTypeOK
    <3>3. QED
      BY <2>1, <3>2, SessionsStand DEF Live, ActiveFor, Rows
  <2>3. CASE ~ (Cardinality(ActiveFor(c)) >= MaxSessions)
    <3>1. CheckoutStep(c, "insert") /\ floatingLock' = floatingLock
      BY <1>4, <2>3 DEF CountSessions
    <3>2. /\ checkout' \in [Checkouts -> CheckoutRow] /\ checkout'[c].step = "insert"
          /\ checkout'[c].seen = checkout[c].seen
          /\ \A o \in Checkouts \ {c} : checkout'[o] = checkout[o]
      BY <1>0, <3>1, CheckoutMoves DEF CheckoutSteps
    <3>3. FloatingTypeOK' /\ FloatingLockHeld'
      BY <1>0, <2>1, <3>1, <3>2 DEF FloatingTypeOK, FloatingLockHeld
    <3>4. /\ (Live \ late)' = Live \ late /\ MaxSessions' = MaxSessions
          /\ \A o \in Checkouts : (ActiveFor(o) \ late)' = ActiveFor(o) \ late
      BY <2>1, <3>2 DEF Live, ActiveFor, Rows
    <3>5. Cardinality(ActiveFor(c) \ late) < MaxSessions
      <4>1. /\ Cardinality(ActiveFor(c)) \in Nat /\ Cardinality(ActiveFor(c) \ late) \in Nat
            /\ Cardinality(ActiveFor(c) \ late) <= Cardinality(ActiveFor(c))
        BY MachinesCounted DEF ActiveFor, Rows
      <4>2. QED
        BY <2>3, <4>1, FloatingConstantsOK DEF FloatingConstantsOK
    <3>6. SessionLimitKept'
      BY <3>4 DEF SessionCounted, SessionLimitKept
    <3>7. ASSUME NEW o \in Checkouts, checkout'[o].step = "insert"
          PROVE  Cardinality((ActiveFor(o) \ late)') < MaxSessions
      BY <3>2, <3>4, <3>5, <3>7 DEF SessionCounted
    <3>8. QED
      BY <3>3, <3>6, <3>7 DEF SessionCounted
  <2>4. QED
    BY <2>2, <2>3
<1>5. ASSUME NEW c \in Checkouts, InsertSession(c) PROVE SessionCounted'
  <2> DEFINE m == checkout[c].machine
  <2>1. /\ checkout[c].step = "insert" /\ EndCheckout(c) /\ UNCHANGED <<late, expiries, misled>>
        /\ session' = IF m \in Rows THEN session ELSE [session EXCEPT ![m] = "live"]
    BY <1>5 DEF InsertSession
  <2>2. m \in Machines /\ Cardinality(ActiveFor(c) \ late) < MaxSessions
    BY <1>0, <2>1 DEF SessionCounted, FloatingTypeOK, CheckoutRow
  <2>3. session' \in [Machines -> {"none", "live", "expired"}]
    BY <1>0, <2>1, <2>2 DEF FloatingTypeOK
  <2>4. /\ FloatingTypeOK' /\ FloatingLockHeld' /\ checkout'[c].step = "idle"
        /\ \A o \in Checkouts \ {c} : checkout'[o] = checkout[o]
    BY <1>0, <2>1, <2>3, CheckoutEnds DEF FloatingTypeOK
  <2>5. \A o \in Checkouts : checkout'[o].step # "insert"
    BY <1>0, <2>1, <2>4 DEF FloatingLockHeld
  <2>6. (Live \ late)' \subseteq (ActiveFor(c) \ late) \cup {m}
    BY <1>0, <2>1, <2>2 DEF Live, ActiveFor, Rows, FloatingTypeOK
  <2>7. Cardinality((Live \ late)') <= MaxSessions
    <3>1. ActiveFor(c) \ late \in SUBSET Machines
      BY DEF ActiveFor, Rows
    <3>2. Cardinality((ActiveFor(c) \ late) \cup {m}) <= MaxSessions
            /\ Cardinality((ActiveFor(c) \ late) \cup {m}) \in Nat
      <4>1. CASE m \in ActiveFor(c) \ late
        <5>1. (ActiveFor(c) \ late) \cup {m} = ActiveFor(c) \ late
          BY <4>1
        <5>2. QED
          BY <2>2, <3>1, <5>1, MachinesCounted, FloatingConstantsOK DEF FloatingConstantsOK
      <4>2. CASE m \notin ActiveFor(c) \ late
        BY <2>2, <3>1, <4>2, MachinesCounted, FloatingConstantsOK DEF FloatingConstantsOK
      <4>3. QED
        BY <4>1, <4>2
    <3>3. (ActiveFor(c) \ late) \cup {m} \in SUBSET Machines
      BY <2>2, <3>1
    <3>4. /\ Cardinality((Live \ late)') <= Cardinality((ActiveFor(c) \ late) \cup {m})
          /\ Cardinality((Live \ late)') \in Nat
      BY <2>6, <3>3, MachinesCounted
    <3>5. QED
      BY <3>2, <3>4, FloatingConstantsOK DEF FloatingConstantsOK
  <2>8. QED
    BY <2>4, <2>5, <2>7 DEF SessionCounted, SessionLimitKept
<1>6. ASSUME NEW c \in Checkouts, CheckoutFails(c) PROVE SessionCounted'
  <2>1. EndCheckout(c) /\ UNCHANGED <<session, late, expiries, misled>>
    BY <1>6 DEF CheckoutFails
  <2>2. /\ FloatingTypeOK' /\ FloatingLockHeld' /\ checkout'[c].step = "idle"
        /\ \A o \in Checkouts \ {c} : checkout'[o] = checkout[o]
    BY <1>0, <2>1, CheckoutEnds DEF FloatingTypeOK
  <2>3. QED
    BY <2>1, <2>2, SessionsStand DEF Live, ActiveFor, Rows
<1>7. ASSUME NEW m \in Machines, Heartbeat(m) PROVE SessionCounted'
  <2>1. UNCHANGED <<checkout, floatingLock, expiries>>
    BY <1>7 DEF Heartbeat
  <2>2. CASE m \in Rows
    <3>1. Extend(m) /\ misled' = misled
      BY <1>7, <2>2 DEF Heartbeat
    <3>2. FloatingTypeOK' /\ FloatingLockHeld'
      BY <1>0, <2>1, <2>2, <3>1, ExtendedIsLate DEF FloatingTypeOK, FloatingLockHeld
    <3>3. QED
      BY <1>0, <2>1, <2>2, <3>1, <3>2, ExtendedIsLate, SessionsStand
  <2>3. CASE m \notin Rows
    <3>1. misled' = TRUE /\ UNCHANGED <<session, late>>
      BY <1>7, <2>3 DEF Heartbeat
    <3>2. FloatingTypeOK' /\ FloatingLockHeld'
      BY <1>0, <2>1, <3>1 DEF FloatingTypeOK, FloatingLockHeld
    <3>3. QED
      BY <2>1, <3>1, <3>2, SessionsStand DEF Live, ActiveFor, Rows
  <2>4. QED
    BY <2>2, <2>3
<1>8. ASSUME NEW gone \in SUBSET Machines, Remove(gone) PROVE SessionCounted'
  <2>1. UNCHANGED <<checkout, floatingLock, expiries, misled>>
    BY <1>8 DEF Remove
  <2>2. FloatingTypeOK' /\ FloatingLockHeld'
    BY <1>0, <1>8, <2>1, RemovedIsGone DEF FloatingTypeOK, FloatingLockHeld
  <2>3. QED
    BY <1>0, <1>8, <2>1, <2>2, RemovedIsGone, SessionsStand
<1>9. ASSUME NEW m \in Machines, SessionExpires(m) PROVE SessionCounted'
  <2>1. /\ session' = [session EXCEPT ![m] = "expired"] /\ expiries' = expiries + 1
        /\ UNCHANGED <<checkout, floatingLock, late, misled>>
    BY <1>9 DEF SessionExpires
  <2>2. FloatingTypeOK' /\ FloatingLockHeld'
    BY <1>0, <2>1 DEF FloatingTypeOK, FloatingLockHeld
  <2>3. m \in Live
    BY <1>9 DEF SessionExpires
  <2>4. QED
    BY <1>0, <2>1, <2>2, <2>3, SessionsStand DEF Live, ActiveFor, Rows, FloatingTypeOK
<1>10. CASE UNCHANGED floatingVars
  <2>1. FloatingTypeOK' /\ FloatingLockHeld'
    BY <1>0, <1>10 DEF floatingVars, FloatingTypeOK, FloatingLockHeld
  <2>2. QED
    BY <1>10, <2>1, SessionsStand DEF floatingVars, Live, ActiveFor, Rows
<1>11. ASSUME NEW m \in Machines, CheckIn(m) PROVE SessionCounted'
  BY <1>8, <1>11 DEF CheckIn
<1>12. ASSUME CleanExpired PROVE SessionCounted'
  BY <1>8, <1>12 DEF CleanExpired, Rows
<1>13. QED
  BY <1>1, <1>2, <1>3, <1>4, <1>5, <1>6, <1>7, <1>9, <1>10, <1>11, <1>12 DEF FloatingNext

(* However checkouts, heartbeats, check-ins and the clean-up overlap, a    *)
(* license never has more sessions than its plan allows, but for those a   *)
(* heartbeat brought back after they expired; and the count and the insert *)
(* run under the row lock (store/floating.go:99, docs/openapi.yaml:534).   *)
THEOREM SessionsWithinLimit ==
  FloatingSpec => [](FloatingTypeOK /\ SessionLimitKept /\ FloatingLockHeld)
<1>1. FloatingInit => SessionCounted
  <2> SUFFICES ASSUME FloatingInit PROVE SessionCounted
    OBVIOUS
  <2>1. (CHOOSE m \in Machines : TRUE) \in Machines
    BY FloatingConstantsOK DEF FloatingConstantsOK
  <2>2. NotAsking \in CheckoutRow /\ NotAsking.step = "idle"
    BY <2>1 DEF NotAsking, CheckoutRow, CheckoutSteps
  <2>3. FloatingTypeOK /\ \A c \in Checkouts : checkout[c].step = "idle"
    BY <2>2 DEF FloatingInit, FloatingTypeOK
  <2>4. FloatingLockHeld
    BY <2>3, FloatingConstantsOK DEF FloatingInit, FloatingLockHeld, FloatingConstantsOK
  <2>5. Live \ late = {}
    BY DEF FloatingInit, Live
  <2>6. Cardinality(Live \ late) = 0
    BY <2>5, FS_EmptySet
  <2>7. QED
    BY <2>3, <2>4, <2>6, FloatingConstantsOK DEF SessionCounted, SessionLimitKept, FloatingConstantsOK
<1>2. SessionCounted /\ [FloatingNext]_floatingVars => SessionCounted'
  BY SessionStaysCounted
<1>3. SessionCounted => FloatingTypeOK /\ SessionLimitKept /\ FloatingLockHeld
  BY DEF SessionCounted
<1>4. QED
  BY <1>1, <1>2, <1>3, PTL DEF FloatingSpec

-----------------------------------------------------------------------------
(*****************************************************************************)
(* Seats, for any number of people, invitations and acceptances.             *)
(*****************************************************************************)
USE SeatsConstantsOK DEF SeatsConstantsOK

SeatsTyped ==
  /\ seat \in [People -> SeatRow]
  /\ invitation \in [Inviters -> InvitationRow]
  /\ acceptance \in [Acceptors -> [step : {"idle", "check", "rollback"}, person : People]]
  /\ minted \in 0..MaxTokens
  /\ spent \in [Tokens -> Nat]

(* Who is about to add a seat counted a free one, and nobody has taken it  *)
(* since: seats are only added under the lock.                             *)
SeatCounted ==
  /\ SeatsTyped
  /\ SeatsLockHeld
  /\ SeatLimitKept
  /\ \A i \in Inviters :
       invitation[i].step = "write" /\ MaxSeats > 0 => Cardinality(Seated) < MaxSeats

(* A token is in one place: at a seat, or with the invitation that will    *)
(* put it there; a token that was spent is in none.                        *)
TokensApart ==
  /\ SeatsTyped
  /\ \A p, q \in People : seat[p].token # 0 /\ seat[p].token = seat[q].token => p = q
  /\ \A i, j \in Inviters :
       invitation[i].token # 0 /\ invitation[i].token = invitation[j].token => i = j
  /\ \A p \in People, i \in Inviters : seat[p].token # 0 => seat[p].token # invitation[i].token
  /\ \A p \in People : seat[p].token <= minted
  /\ \A i \in Inviters : invitation[i].token <= minted
  /\ \A t \in Tokens : spent[t] # 0 =>
       /\ spent[t] = 1 /\ t <= minted
       /\ \A p \in People : seat[p].token # t
       /\ \A i \in Inviters : invitation[i].token # t

-----------------------------------------------------------------------------
(* What a step does to its invitation. *)
LEMMA InvitationStepTyped ==
  ASSUME SeatsTyped, NEW i \in Inviters, NEW step \in InvitationSteps, InvitationStep(i, step)
  PROVE  /\ invitation' \in [Inviters -> InvitationRow]
         /\ invitation'[i].step = step /\ invitation'[i].token = invitation[i].token
         /\ \A j \in Inviters \ {i} : invitation'[j] = invitation[j]
<1>1. invitation[i] \in InvitationRow
  BY DEF SeatsTyped
<1>2. /\ [invitation[i] EXCEPT !.step = step] \in InvitationRow
      /\ [invitation[i] EXCEPT !.step = step].step = step
      /\ [invitation[i] EXCEPT !.step = step].token = invitation[i].token
  BY <1>1 DEF InvitationRow
<1>3. invitation' = [invitation EXCEPT ![i] = [invitation[i] EXCEPT !.step = step]]
  BY DEF InvitationStep
<1>4. QED
  BY <1>2, <1>3 DEF SeatsTyped

(* An invitation that ends carries no token. *)
LEMMA InvitationEndTyped ==
  ASSUME SeatsTyped, NEW i \in Inviters, EndInvitation(i)
  PROVE  /\ invitation' \in [Inviters -> InvitationRow]
         /\ invitation'[i].step = "idle" /\ invitation'[i].token = 0
         /\ \A j \in Inviters \ {i} : invitation'[j] = invitation[j]
<1>1. NoInvitation \in InvitationRow /\ NoInvitation.step = "idle" /\ NoInvitation.token = 0
  <2>1. SomePerson \in People
    BY DEF SomePerson
  <2>2. QED
    BY <2>1 DEF NoInvitation, InvitationRow, InvitationSteps, Roles
<1>2. QED
  BY <1>1 DEF SeatsTyped, EndInvitation

(* What a write does to its seat. *)
LEMMA SeatWritten ==
  ASSUME SeatsTyped, NEW p \in People, NEW row \in SeatRow, seat' = [seat EXCEPT ![p] = row]
  PROVE  /\ seat' \in [People -> SeatRow]
         /\ seat'[p] = row
         /\ \A q \in People \ {p} : seat'[q] = seat[q]
  BY DEF SeatsTyped

(* Writing a token at a seat touches no other seat. *)
LEMMA TokenPut ==
  ASSUME SeatsTyped, NEW p \in People, NEW role \in Roles, NEW token \in 0..MaxTokens,
         seat' = [seat EXCEPT ![p].role = role, ![p].token = token]
  PROVE  /\ seat' \in [People -> SeatRow]
         /\ seat'[p].state = seat[p].state /\ seat'[p].token = token
         /\ \A q \in People \ {p} : seat'[q] = seat[q]
<1> DEFINE row == [seat[p] EXCEPT !.role = role, !.token = token]
<1>1. seat[p] \in SeatRow
  BY DEF SeatsTyped
<1>2. [seat[p] EXCEPT !.role = role] \in SeatRow /\ [seat[p] EXCEPT !.role = role].state = seat[p].state
  BY <1>1 DEF SeatRow
<1>3. \A r \in SeatRow : /\ [r EXCEPT !.token = token] \in SeatRow
                         /\ [r EXCEPT !.token = token].token = token
                         /\ [r EXCEPT !.token = token].state = r.state
  BY DEF SeatRow
<1>4. row \in SeatRow /\ row.token = token /\ row.state = seat[p].state
  BY <1>2, <1>3
<1>5. seat' = [seat EXCEPT ![p] = row]
  BY DEF SeatsTyped
<1>6. QED
  BY <1>4, <1>5, SeatWritten

(* Accepting an invitation takes the token off its seat alone. *)
LEMMA TokenTaken ==
  ASSUME SeatsTyped, NEW p \in People,
         seat' = [seat EXCEPT ![p].accepted = TRUE, ![p].token = 0]
  PROVE  /\ seat' \in [People -> SeatRow]
         /\ seat'[p].state = seat[p].state /\ seat'[p].token = 0
         /\ \A q \in People \ {p} : seat'[q] = seat[q]
<1> DEFINE row == [seat[p] EXCEPT !.accepted = TRUE, !.token = 0]
<1>1. seat[p] \in SeatRow
  BY DEF SeatsTyped
<1>2. /\ [seat[p] EXCEPT !.accepted = TRUE] \in SeatRow
      /\ [seat[p] EXCEPT !.accepted = TRUE].state = seat[p].state
  BY <1>1 DEF SeatRow
<1>3. \A r \in SeatRow : /\ [r EXCEPT !.token = 0] \in SeatRow
                         /\ [r EXCEPT !.token = 0].token = 0
                         /\ [r EXCEPT !.token = 0].state = r.state
  BY DEF SeatRow
<1>4. row \in SeatRow /\ row.token = 0 /\ row.state = seat[p].state
  BY <1>2, <1>3
<1>5. seat' = [seat EXCEPT ![p] = row]
  BY DEF SeatsTyped
<1>6. QED
  BY <1>4, <1>5, SeatWritten

(* The writes of one column. *)
LEMMA ColumnWritten ==
  ASSUME SeatsTyped, NEW p \in People,
         \/ seat' = [seat EXCEPT ![p].accepted = FALSE]
         \/ seat' = [seat EXCEPT ![p].state = "removed"]
         \/ seat' = [seat EXCEPT ![p].token = 0]
  PROVE  /\ seat' \in [People -> SeatRow]
         /\ seat'[p].state \in {seat[p].state, "removed"} /\ seat'[p].token \in {seat[p].token, 0}
         /\ \A q \in People \ {p} : seat'[q] = seat[q]
<1>1. seat[p] \in SeatRow
  BY DEF SeatsTyped
<1>2. PICK row \in SeatRow : /\ seat' = [seat EXCEPT ![p] = row]
                             /\ row.state \in {seat[p].state, "removed"}
                             /\ row.token \in {seat[p].token, 0}
  <2>1. CASE seat' = [seat EXCEPT ![p].accepted = FALSE]
    <3>1. /\ [seat[p] EXCEPT !.accepted = FALSE] \in SeatRow
          /\ [seat[p] EXCEPT !.accepted = FALSE].state = seat[p].state
          /\ [seat[p] EXCEPT !.accepted = FALSE].token = seat[p].token
      BY <1>1 DEF SeatRow
    <3>2. seat' = [seat EXCEPT ![p] = [seat[p] EXCEPT !.accepted = FALSE]]
      BY <2>1
    <3>3. QED
      BY <3>1, <3>2
  <2>2. CASE seat' = [seat EXCEPT ![p].state = "removed"]
    <3>1. /\ [seat[p] EXCEPT !.state = "removed"] \in SeatRow
          /\ [seat[p] EXCEPT !.state = "removed"].state = "removed"
          /\ [seat[p] EXCEPT !.state = "removed"].token = seat[p].token
      BY <1>1 DEF SeatRow
    <3>2. seat' = [seat EXCEPT ![p] = [seat[p] EXCEPT !.state = "removed"]]
      BY <2>2
    <3>3. QED
      BY <3>1, <3>2
  <2>3. CASE seat' = [seat EXCEPT ![p].token = 0]
    <3>1. /\ [seat[p] EXCEPT !.token = 0] \in SeatRow
          /\ [seat[p] EXCEPT !.token = 0].state = seat[p].state
          /\ [seat[p] EXCEPT !.token = 0].token = 0
      BY <1>1 DEF SeatRow
    <3>2. seat' = [seat EXCEPT ![p] = [seat[p] EXCEPT !.token = 0]]
      BY <2>3
    <3>3. QED
      BY <3>1, <3>2
  <2>4. QED
    BY <2>1, <2>2, <2>3
<1>3. QED
  BY <1>2, SeatWritten

(* What the end, or a step, of an acceptance does. *)
LEMMA AcceptanceTyped ==
  ASSUME SeatsTyped, NEW a \in Acceptors,
         \/ EndAcceptance(a)
         \/ \E step \in {"idle", "check", "rollback"}, p \in People : AcceptStep(a, step, p)
  PROVE  acceptance' \in [Acceptors -> [step : {"idle", "check", "rollback"}, person : People]]
<1>1. NoAcceptance \in [step : {"idle", "check", "rollback"}, person : People]
  <2>1. SomePerson \in People
    BY DEF SomePerson
  <2>2. QED
    BY <2>1 DEF NoAcceptance
<1>2. PICK row \in [step : {"idle", "check", "rollback"}, person : People] :
        acceptance' = [acceptance EXCEPT ![a] = row]
  BY <1>1 DEF EndAcceptance, AcceptStep
<1>3. QED
  BY <1>2 DEF SeatsTyped

-----------------------------------------------------------------------------
(* How the number of seats changes with the set of them. *)
LEMMA SeatedCounted ==
         /\ IsFiniteSet(Seated) /\ Cardinality(Seated) \in Nat
         /\ Seated' \subseteq Seated =>
              Cardinality(Seated)' \in Nat /\ Cardinality(Seated)' <= Cardinality(Seated)
         /\ \A p \in People \ Seated : Seated' = Seated \cup {p} =>
              Cardinality(Seated)' = Cardinality(Seated) + 1
<1>1. IsFiniteSet(Seated)
  BY FS_Subset DEF Seated
<1>2. Cardinality(Seated) \in Nat
  BY <1>1, FS_CardinalityType
<1>3. ASSUME Seated' \subseteq Seated
      PROVE  Cardinality(Seated)' \in Nat /\ Cardinality(Seated)' <= Cardinality(Seated)
  BY <1>1, <1>3, FS_Subset, FS_CardinalityType
<1>4. ASSUME NEW p \in People \ Seated, Seated' = Seated \cup {p}
      PROVE  Cardinality(Seated)' = Cardinality(Seated) + 1
  BY <1>1, <1>4, FS_AddElement
<1>5. QED
  BY <1>1, <1>2, <1>3, <1>4

(* No seat is added and nobody comes to add one: the count stands. *)
LEMMA CountStands ==
  ASSUME SeatCounted, SeatsTyped', SeatsLockHeld',
         Seated' \subseteq Seated,
         \A i \in Inviters : invitation'[i].step = "write" => invitation[i].step = "write"
  PROVE  SeatCounted'
<1>1. Cardinality(Seated) \in Nat /\ Cardinality(Seated)' \in Nat
        /\ Cardinality(Seated)' <= Cardinality(Seated)
  BY SeatedCounted
<1>2. SeatLimitKept'
  BY <1>1 DEF SeatCounted, SeatLimitKept
<1>3. QED
  BY <1>1, <1>2 DEF SeatCounted

(* Tokens stay where they are, or are dropped. *)
LEMMA TokensStay ==
  ASSUME TokensApart, SeatsTyped', UNCHANGED <<minted, spent>>,
         \A p \in People : seat'[p].token \in {0, seat[p].token},
         \A i \in Inviters : invitation'[i].token \in {0, invitation[i].token}
  PROVE  TokensApart'
<1>1. minted \in Nat /\ \A t \in Tokens : t # 0
  BY DEF TokensApart, SeatsTyped, Tokens
<1>2. QED
  BY <1>1 DEF TokensApart

(* An invitation puts its token at a seat and ends. *)
LEMMA TokenDelivered ==
  ASSUME TokensApart, SeatsTyped', UNCHANGED <<minted, spent>>,
         NEW p \in People, NEW i \in Inviters,
         seat'[p].token = invitation[i].token, \A q \in People \ {p} : seat'[q] = seat[q],
         invitation'[i].token = 0, \A j \in Inviters \ {i} : invitation'[j] = invitation[j]
  PROVE  TokensApart'
<1>1. minted \in Nat /\ \A t \in Tokens : t # 0
  BY DEF TokensApart, SeatsTyped, Tokens
<1>2. QED
  BY <1>1 DEF TokensApart

-----------------------------------------------------------------------------
SeatsInv == SeatCounted /\ TokensApart

(* No step breaks the count of the seats or brings a token back. *)
LEMMA SeatsStayInOrder ==
  ASSUME SeatsInv, [SeatsNext]_seatsVars
  PROVE  SeatsInv'
<1> USE DEF SeatsInv, SeatCounted
<1>1. ASSUME NEW i \in Inviters, BeginInvitation(i) PROVE SeatsInv'
  <2>1. PICK p \in People, role \in Roles :
          invitation' = [invitation EXCEPT ![i] =
            [step |-> "lock", person |-> p, role |-> role, token |-> minted']]
    BY <1>1 DEF BeginInvitation
  <2>2. /\ invitation[i].step = "idle" /\ minted' = minted + 1 /\ minted' \in 0..MaxTokens
        /\ minted \in Nat
        /\ UNCHANGED <<seat, acceptance, seatsLock, spent>>
    BY <1>1 DEF BeginInvitation, SeatsTyped
  <2>3. [step |-> "lock", person |-> p, role |-> role, token |-> minted'] \in InvitationRow
    BY <2>2 DEF InvitationRow, InvitationSteps
  <2>4. /\ invitation' \in [Inviters -> InvitationRow]
        /\ invitation'[i].step = "lock" /\ invitation'[i].token = minted + 1
        /\ \A j \in Inviters \ {i} : invitation'[j] = invitation[j]
    BY <2>1, <2>2, <2>3 DEF SeatsTyped
  <2>5. SeatsTyped'
    BY <2>2, <2>4 DEF SeatsTyped
  <2>6. SeatsLockHeld' /\ Seated' = Seated
    BY <2>2, <2>4 DEF SeatsLockHeld, Seated
  <2>7. SeatCounted'
    BY <2>4, <2>5, <2>6, CountStands
  <2>8. /\ \A q \in People : seat[q].token \in Nat /\ seat[q].token <= minted
        /\ \A j \in Inviters : invitation[j].token \in Nat /\ invitation[j].token <= minted
        /\ \A t \in Tokens : spent[t] # 0 => t <= minted
        /\ \A t \in Tokens : t \in Nat
    BY DEF TokensApart, SeatsTyped, SeatRow, InvitationRow, Tokens
  <2>9. TokensApart'
    BY <2>2, <2>4, <2>5, <2>8 DEF TokensApart
  <2>10. QED
    BY <2>7, <2>9
<1>2. ASSUME NEW i \in Inviters, LockForInvitation(i) PROVE SeatsInv'
  <2>1. /\ invitation[i].step = "lock" /\ seatsLock = NoInviter /\ seatsLock' = i
        /\ InvitationStep(i, "find") /\ UNCHANGED <<seat, acceptance, minted, spent>>
    BY <1>2 DEF LockForInvitation
  <2>2. /\ invitation' \in [Inviters -> InvitationRow]
        /\ invitation'[i].step = "find" /\ invitation'[i].token = invitation[i].token
        /\ \A j \in Inviters \ {i} : invitation'[j] = invitation[j]
    BY <2>1, InvitationStepTyped DEF InvitationSteps
  <2>3. SeatsTyped' /\ SeatsLockHeld' /\ Seated' = Seated
    BY <2>1, <2>2 DEF SeatsTyped, SeatsLockHeld, Seated
  <2>4. SeatCounted'
    BY <2>2, <2>3, CountStands
  <2>5. TokensApart'
    BY <2>1, <2>2, <2>3, TokensStay
  <2>6. QED
    BY <2>4, <2>5
<1>3. ASSUME NEW i \in Inviters, FindSeat(i) \/ CountSeats(i) \/ InvitationFails(i) PROVE SeatsInv'
  <2>1. UNCHANGED <<seat, acceptance, minted, spent>> /\ Seated' = Seated
    BY <1>3 DEF FindSeat, CountSeats, InvitationFails, Seated
  <2>2. CASE EndInvitation(i)
    <3>1. /\ invitation' \in [Inviters -> InvitationRow]
          /\ invitation'[i].step = "idle" /\ invitation'[i].token = 0
          /\ \A j \in Inviters \ {i} : invitation'[j] = invitation[j]
      BY <2>2, InvitationEndTyped
    <3>2. SeatsTyped' /\ SeatsLockHeld'
      BY <2>1, <2>2, <3>1 DEF SeatsTyped, SeatsLockHeld, EndInvitation
    <3>3. SeatCounted'
      BY <2>1, <3>1, <3>2, CountStands
    <3>4. TokensApart'
      BY <2>1, <3>1, <3>2, TokensStay
    <3>5. QED
      BY <3>3, <3>4
  <2>3. ASSUME NEW step \in {"rotate", "count", "write"}, InvitationStep(i, step), seatsLock' = seatsLock,
               invitation[i].step \in {"find", "count"},
               step = "write" => ~ (MaxSeats > 0 /\ Cardinality(Seated) >= MaxSeats)
        PROVE  SeatsInv'
    <3>1. /\ invitation' \in [Inviters -> InvitationRow]
          /\ invitation'[i].step = step /\ invitation'[i].token = invitation[i].token
          /\ \A j \in Inviters \ {i} : invitation'[j] = invitation[j]
      BY <2>3, InvitationStepTyped DEF InvitationSteps
    <3>2. SeatsTyped' /\ SeatsLockHeld'
      BY <2>1, <2>3, <3>1 DEF SeatsTyped, SeatsLockHeld
    <3>3. Cardinality(Seated)' = Cardinality(Seated) /\ Cardinality(Seated) \in Nat
      BY <2>1, SeatedCounted
    <3>4. SeatLimitKept'
      BY <3>3 DEF SeatLimitKept
    <3>5. \A j \in Inviters :
            invitation'[j].step = "write" /\ MaxSeats > 0 => Cardinality(Seated)' < MaxSeats
      BY <2>3, <3>1, <3>3
    <3>6. TokensApart'
      BY <2>1, <3>1, <3>2, TokensStay
    <3>7. QED
      BY <3>2, <3>4, <3>5, <3>6
  <2>4. QED
    BY <1>3, <2>2, <2>3 DEF FindSeat, CountSeats, InvitationFails
<1>4. ASSUME NEW i \in Inviters, RotateToken(i) PROVE SeatsInv'
  <2> DEFINE v == invitation[i]
  <2>1. /\ v.step = "rotate" /\ EndInvitation(i) /\ UNCHANGED <<acceptance, minted, spent>>
        /\ seat' = [seat EXCEPT ![v.person].role = v.role, ![v.person].token = v.token]
    BY <1>4 DEF RotateToken
  <2>2. v.person \in People /\ v.role \in Roles /\ v.token \in 0..MaxTokens
    BY DEF SeatsTyped, InvitationRow
  <2>3. /\ seat' \in [People -> SeatRow]
        /\ seat'[v.person].state = seat[v.person].state /\ seat'[v.person].token = v.token
        /\ \A q \in People \ {v.person} : seat'[q] = seat[q]
    BY <2>1, <2>2, TokenPut
  <2>4. /\ invitation' \in [Inviters -> InvitationRow]
        /\ invitation'[i].step = "idle" /\ invitation'[i].token = 0
        /\ \A j \in Inviters \ {i} : invitation'[j] = invitation[j]
    BY <2>1, InvitationEndTyped
  <2>5. SeatsTyped' /\ SeatsLockHeld'
    BY <2>1, <2>3, <2>4 DEF SeatsTyped, SeatsLockHeld, EndInvitation
  <2>6. Seated' = Seated
    BY <2>3 DEF Seated
  <2>7. SeatCounted'
    BY <2>4, <2>5, <2>6, CountStands
  <2>8. TokensApart'
    BY <2>1, <2>2, <2>3, <2>4, <2>5, TokenDelivered
  <2>9. QED
    BY <2>7, <2>8
<1>5. ASSUME NEW i \in Inviters, WriteSeat(i) PROVE SeatsInv'
  <2> DEFINE v == invitation[i]
             row == [state |-> "live", accepted |-> FALSE, role |-> v.role, token |-> v.token]
  <2>1. /\ v.step = "write" /\ EndInvitation(i) /\ UNCHANGED <<acceptance, minted, spent>>
        /\ seat' = IF seat[v.person].state = "live" THEN seat
                   ELSE [seat EXCEPT ![v.person] = row]
    BY <1>5 DEF WriteSeat
  <2>2. v.person \in People /\ v.role \in Roles /\ v.token \in 0..MaxTokens
    BY DEF SeatsTyped, InvitationRow
  <2>3. /\ invitation' \in [Inviters -> InvitationRow]
        /\ invitation'[i].step = "idle" /\ invitation'[i].token = 0
        /\ \A j \in Inviters \ {i} : invitation'[j] = invitation[j]
    BY <2>1, InvitationEndTyped
  <2>4. SeatsLockHeld' /\ \A j \in Inviters : invitation'[j].step # "write"
    BY <2>1, <2>3 DEF SeatsLockHeld, EndInvitation
  <2>5. CASE seat[v.person].state = "live"
    <3>1. seat' = seat /\ Seated' = Seated
      BY <2>1, <2>5 DEF Seated
    <3>2. SeatsTyped'
      BY <2>1, <2>3, <3>1 DEF SeatsTyped
    <3>3. SeatCounted'
      BY <2>3, <2>4, <3>1, <3>2, CountStands
    <3>4. TokensApart'
      BY <2>1, <2>3, <3>1, <3>2, TokensStay
    <3>5. QED
      BY <3>3, <3>4
  <2>6. CASE seat[v.person].state # "live"
    <3>1. row \in SeatRow /\ row.state = "live" /\ row.token = v.token
      BY <2>2 DEF SeatRow
    <3>2. /\ seat' \in [People -> SeatRow] /\ seat'[v.person] = row
          /\ \A q \in People \ {v.person} : seat'[q] = seat[q]
      BY <2>1, <2>2, <2>6, <3>1, SeatWritten
    <3>3. SeatsTyped'
      BY <2>1, <2>3, <3>2 DEF SeatsTyped
    <3>4. v.person \in People \ Seated /\ Seated' = Seated \cup {v.person}
      BY <2>2, <2>6, <3>1, <3>2 DEF Seated
    <3>5. Cardinality(Seated)' = Cardinality(Seated) + 1 /\ Cardinality(Seated) \in Nat
      BY <3>4, SeatedCounted
    <3>6. SeatLimitKept'
      BY <2>1, <3>5 DEF SeatLimitKept
    <3>7. TokensApart'
      BY <2>1, <2>2, <2>3, <3>1, <3>2, <3>3, TokenDelivered
    <3>8. QED
      BY <2>4, <3>3, <3>6, <3>7
  <2>7. QED
    BY <2>5, <2>6
<1>6. ASSUME NEW a \in Acceptors, SpendToken(a) PROVE SeatsInv'
  <2>1. PICK p \in Seated :
          /\ seat[p].token # 0
          /\ seat' = [seat EXCEPT ![p].accepted = TRUE, ![p].token = 0]
          /\ spent' = [spent EXCEPT ![seat[p].token] = @ + 1]
          /\ AcceptStep(a, "check", p)
    BY <1>6 DEF SpendToken
  <2> DEFINE token == seat[p].token
  <2>2. p \in People /\ UNCHANGED <<invitation, seatsLock, minted>>
    BY <1>6 DEF SpendToken, Seated
  <2>3. /\ seat' \in [People -> SeatRow]
        /\ seat'[p].state = seat[p].state /\ seat'[p].token = 0
        /\ \A q \in People \ {p} : seat'[q] = seat[q]
    BY <2>1, <2>2, TokenTaken
  <2>4. token \in Tokens /\ token <= minted
    BY <2>1, <2>2 DEF SeatsTyped, SeatRow, Tokens, TokensApart
  <2>5. spent[token] = 0
    BY <2>2, <2>4 DEF TokensApart
  <2>6. /\ spent' \in [Tokens -> Nat] /\ spent'[token] = 1
        /\ \A t \in Tokens \ {token} : spent'[t] = spent[t]
    BY <2>1, <2>4, <2>5 DEF SeatsTyped
  <2>7. SeatsTyped'
    BY <2>1, <2>2, <2>3, <2>6, AcceptanceTyped DEF SeatsTyped
  <2>8. SeatsLockHeld' /\ Seated' = Seated
    BY <2>2, <2>3 DEF SeatsLockHeld, Seated
  <2>9. SeatCounted'
    BY <2>2, <2>7, <2>8, CountStands
  <2>10. /\ \A q \in People : seat'[q].token # token
         /\ \A i \in Inviters : invitation'[i].token # token
    BY <2>1, <2>2, <2>3 DEF TokensApart
  <2>11. \A q \in People : seat'[q].token \in {0, seat[q].token}
    BY <2>3
  <2>12. minted \in Nat /\ \A t \in Tokens : t # 0
    BY DEF SeatsTyped, Tokens
  <2>13. \A t \in Tokens : spent'[t] # 0 =>
           /\ spent'[t] = 1 /\ t <= minted'
           /\ \A q \in People : seat'[q].token # t
           /\ \A i \in Inviters : invitation'[i].token # t
    BY <2>2, <2>4, <2>6, <2>10, <2>11, <2>12 DEF TokensApart
  <2>14. TokensApart'
    BY <2>2, <2>7, <2>11, <2>12, <2>13 DEF TokensApart
  <2>15. QED
    BY <2>9, <2>14
<1>7. ASSUME NEW a \in Acceptors, CheckLicense(a) \/ AcceptanceFails(a) PROVE SeatsInv'
  <2>1. /\ UNCHANGED <<seat, invitation, seatsLock, minted, spent>>
        /\ EndAcceptance(a) \/ AcceptStep(a, "rollback", acceptance[a].person)
        /\ acceptance[a].person \in People
    BY <1>7 DEF CheckLicense, AcceptanceFails, SeatsTyped
  <2>2. SeatsTyped' /\ SeatsLockHeld' /\ Seated' = Seated
    BY <2>1, AcceptanceTyped DEF SeatsTyped, SeatsLockHeld, Seated
  <2>3. SeatCounted'
    BY <2>1, <2>2, CountStands
  <2>4. TokensApart'
    BY <2>1, <2>2, TokensStay
  <2>5. QED
    BY <2>3, <2>4
<1>8. ASSUME NEW p \in People,
             \/ seat' = [seat EXCEPT ![p].accepted = FALSE]
             \/ seat' = [seat EXCEPT ![p].state = "removed"]
             \/ seat' = [seat EXCEPT ![p].token = 0],
             UNCHANGED <<invitation, seatsLock, minted, spent>>,
             acceptance' = acceptance \/ \E a \in Acceptors : EndAcceptance(a)
      PROVE  SeatsInv'
  <2>1. /\ seat' \in [People -> SeatRow]
        /\ seat'[p].state \in {seat[p].state, "removed"} /\ seat'[p].token \in {seat[p].token, 0}
        /\ \A q \in People \ {p} : seat'[q] = seat[q]
    BY <1>8, ColumnWritten
  <2>2. SeatsTyped'
    BY <1>8, <2>1, AcceptanceTyped DEF SeatsTyped
  <2>3. SeatsLockHeld' /\ Seated' \subseteq Seated
    BY <1>8, <2>1 DEF SeatsLockHeld, Seated
  <2>4. SeatCounted'
    BY <1>8, <2>2, <2>3, CountStands
  <2>5. TokensApart'
    BY <1>8, <2>1, <2>2, TokensStay
  <2>6. QED
    BY <2>4, <2>5
<1>9. ASSUME NEW a \in Acceptors, RollBack(a) PROVE SeatsInv'
  <2>1. acceptance[a].person \in People
    BY DEF SeatsTyped
  <2>2. QED
    BY <1>8, <1>9, <2>1 DEF RollBack
<1>10. CASE RemoveSeat \/ InviteExpires
  BY <1>8, <1>10 DEF RemoveSeat, InviteExpires, Seated
<1>11. CASE StandingChanges \/ UNCHANGED seatsVars
  <2>1. UNCHANGED <<seat, invitation, acceptance, seatsLock, minted, spent>>
    BY <1>11 DEF StandingChanges, seatsVars
  <2>2. SeatsTyped' /\ SeatsLockHeld' /\ Seated' = Seated
    BY <2>1 DEF SeatsTyped, SeatsLockHeld, Seated
  <2>3. SeatCounted'
    BY <2>1, <2>2, CountStands
  <2>4. TokensApart'
    BY <2>1, <2>2, TokensStay
  <2>5. QED
    BY <2>3, <2>4
<1>12. QED
  BY <1>1, <1>2, <1>3, <1>4, <1>5, <1>6, <1>7, <1>9, <1>10, <1>11 DEF SeatsNext

(* There are no seats and no tokens at the beginning. *)
LEMMA SeatsBeginInOrder ==
  ASSUME SeatsInit
  PROVE  SeatsInv
<1>1. NoInvitation \in InvitationRow /\ NoInvitation.step = "idle" /\ NoInvitation.token = 0
  <2>1. SomePerson \in People
    BY DEF SomePerson
  <2>2. QED
    BY <2>1 DEF NoInvitation, InvitationRow, InvitationSteps, Roles
<1>2. NoAcceptance \in [step : {"idle", "check", "rollback"}, person : People]
  <2>1. SomePerson \in People
    BY DEF SomePerson
  <2>2. QED
    BY <2>1 DEF NoAcceptance
<1>3. NoSeat \in SeatRow /\ NoSeat.state = "none" /\ NoSeat.token = 0
  BY DEF NoSeat, SeatRow, Roles
<1>4. SeatsTyped
  BY <1>1, <1>2, <1>3 DEF SeatsInit, SeatsTyped
<1>5. /\ \A i \in Inviters : invitation[i].step = "idle" /\ invitation[i].token = 0
      /\ \A p \in People : seat[p].state = "none" /\ seat[p].token = 0
      /\ \A t \in Tokens : spent[t] = 0
      /\ seatsLock = NoInviter /\ minted = 0
  BY <1>1, <1>3 DEF SeatsInit
<1>6. Cardinality(Seated) = 0
  <2>1. Seated = {}
    BY <1>5 DEF Seated
  <2>2. QED
    BY <2>1, FS_EmptySet
<1>7. SeatCounted
  BY <1>4, <1>5, <1>6 DEF SeatCounted, SeatsLockHeld, SeatLimitKept
<1>8. TokensApart
  BY <1>4, <1>5 DEF TokensApart
<1>9. QED
  BY <1>7, <1>8 DEF SeatsInv

(* The rest of the types. *)
SeatsRestTyped ==
  /\ seatsLock \in Inviters \cup {NoInviter}
  /\ standing \in {"usable", "lapsed", "closed"} /\ turns \in Nat

(* The rest of the variables of Seats keep their types. *)
LEMMA SeatsRestStaysTyped ==
  ASSUME SeatsRestTyped, [SeatsNext]_seatsVars
  PROVE  SeatsRestTyped'
<1> USE DEF SeatsRestTyped
<1>1. ASSUME NEW i \in Inviters,
             \/ BeginInvitation(i) \/ LockForInvitation(i) \/ FindSeat(i) \/ RotateToken(i)
             \/ CountSeats(i) \/ WriteSeat(i) \/ InvitationFails(i)
      PROVE  SeatsRestTyped'
  BY <1>1 DEF BeginInvitation, LockForInvitation, FindSeat, RotateToken, CountSeats, WriteSeat,
              InvitationFails, EndInvitation, InvitationStep
<1>2. ASSUME NEW a \in Acceptors,
             SpendToken(a) \/ CheckLicense(a) \/ RollBack(a) \/ AcceptanceFails(a)
      PROVE  SeatsRestTyped'
  BY <1>2 DEF SpendToken, CheckLicense, RollBack, AcceptanceFails
<1>3. CASE RemoveSeat \/ InviteExpires \/ UNCHANGED seatsVars
  BY <1>3 DEF RemoveSeat, InviteExpires, seatsVars
<1>4. CASE StandingChanges
  BY <1>4 DEF StandingChanges
<1>5. QED
  BY <1>1, <1>2, <1>3, <1>4 DEF SeatsNext

(* However invitations, restored seats and removals overlap and fail half  *)
(* way, a license never has more seats than its plan allows, and the count *)
(* and the write run under the row lock (store/seats.go:74-79).            *)
THEOREM SeatsWithinPlan == SeatsSpec => [](SeatsTypeOK /\ SeatLimitKept /\ SeatsLockHeld)
<1>1. SeatsInit => SeatsInv /\ SeatsRestTyped
  BY SeatsBeginInOrder DEF SeatsInit, SeatsRestTyped
<1>2. SeatsInv /\ SeatsRestTyped /\ [SeatsNext]_seatsVars => SeatsInv' /\ SeatsRestTyped'
  BY SeatsStayInOrder, SeatsRestStaysTyped
<1>3. SeatsInv /\ SeatsRestTyped => SeatsTypeOK /\ SeatLimitKept /\ SeatsLockHeld
  BY DEF SeatsInv, SeatCounted, SeatsTyped, SeatsRestTyped, SeatsTypeOK
<1>4. QED
  BY <1>1, <1>2, <1>3, PTL DEF SeatsSpec

(* An invitation is accepted at most once, for any number of acceptances,  *)
(* rotations and roll-backs: a token is in one place until it is spent,    *)
(* and nothing puts it back (store/seats.go:301-310).                      *)
THEOREM TokensAreSpentOnce == SeatsSpec => []TokenSpentOnce
<1>1. SeatsInit => SeatsInv
  BY SeatsBeginInOrder
<1>2. SeatsInv /\ [SeatsNext]_seatsVars => SeatsInv'
  BY SeatsStayInOrder
<1>3. SeatsInv => TokenSpentOnce
  BY DEF SeatsInv, TokensApart, SeatsTyped, TokenSpentOnce
<1>4. QED
  BY <1>1, <1>2, <1>3, PTL DEF SeatsSpec

HIDE SeatsConstantsOK DEF SeatsConstantsOK
===============================================================================
