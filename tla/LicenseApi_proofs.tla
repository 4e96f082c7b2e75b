------------------------- MODULE LicenseApi_proofs ----------------------------
(*****************************************************************************)
(* Proofs about the rest of the API of the customers' programs (idempotency  *)
(* keys, usage and its billing, the rate limiter) and, from the theorems of  *)
(* all its components, about LicenseApi.                                     *)
(*****************************************************************************)
EXTENDS LicenseApi, Limits_proofs, WellFoundedInduction

-----------------------------------------------------------------------------
(*****************************************************************************)
(* Idempotency keys, for any number of callers and whatever fails, dies      *)
(* or is pruned.                                                             *)
(*****************************************************************************)
USE IdempotencyConstantsOK DEF IdempotencyConstantsOK

CallsTyped ==
  /\ slot \in [body : Bodies \cup {NoBody}, complete : BOOLEAN, answer : Bodies \cup {NoBody}]
  /\ call \in [Callers -> [step : {"idle", "insert", "select", "run", "complete", "abandon"},
                           body : Bodies \cup {NoBody}]]
  /\ \A w \in Callers : call[w].step # "idle" => call[w].body \in Bodies

CountersTyped == executions \in Nat /\ vanished \in Nat /\ pruned \in Nat

(* As long as no row has vanished, a request that is past its claim is the *)
(* only one, the row is its own, and an answer is that of the row's body.  *)
RowIsOwn ==
  vanished = 0 =>
    /\ ~ crossed
    /\ slot.complete => slot.answer = slot.body
    /\ \A v, w \in Running : v = w
    /\ \A w \in Running : slot # NoSlot /\ slot.body = call[w].body

-----------------------------------------------------------------------------
(* What one caller's step does to the calls. *)
LEMMA CallMoves ==
  ASSUME CallsTyped, NEW w \in Callers, call[w].step # "idle",
         NEW step \in {"insert", "select", "run", "complete", "abandon"}, GoOn(w, step)
  PROVE  /\ call' \in [Callers -> [step : {"idle", "insert", "select", "run", "complete", "abandon"},
                                   body : Bodies \cup {NoBody}]]
         /\ \A v \in Callers : call'[v].step # "idle" => call'[v].body \in Bodies
         /\ call'[w].step = step /\ call'[w].body = call[w].body
         /\ \A v \in Callers \ {w} : call'[v] = call[v]
  BY DEF CallsTyped, GoOn

(* What a caller that ends its call does to the calls. *)
LEMMA CallRests ==
  ASSUME CallsTyped, NEW w \in Callers, Rest(w)
  PROVE  /\ call' \in [Callers -> [step : {"idle", "insert", "select", "run", "complete", "abandon"},
                                   body : Bodies \cup {NoBody}]]
         /\ \A v \in Callers : call'[v].step # "idle" => call'[v].body \in Bodies
         /\ call'[w].step = "idle"
         /\ \A v \in Callers \ {w} : call'[v] = call[v]
  BY DEF CallsTyped, Rest, Waiting

(* A claimed row is not a free key. *)
LEMMA ClaimIsNoFreeKey ==
  ASSUME NEW b \in Bodies
  PROVE  [NoSlot EXCEPT !.body = b] # NoSlot
  BY DEF NoSlot

(* A completed row is not a free key. *)
LEMMA AnswerIsNoFreeKey ==
  ASSUME CallsTyped, NEW b, slot' = [slot EXCEPT !.complete = TRUE, !.answer = b]
  PROVE  slot' # NoSlot /\ slot'.complete /\ slot'.answer = b /\ slot'.body = slot.body
  BY DEF NoSlot, CallsTyped

(* The calls and the row keep their types. *)
LEMMA CallsStayTyped ==
  ASSUME CallsTyped, [IdempotencyNext]_idemVars
  PROVE  CallsTyped'
<1>1. ASSUME NEW w \in Callers, Send(w) PROVE CallsTyped'
  BY <1>1 DEF Send, CallsTyped
<1>2. ASSUME NEW w \in Callers, InsertSlot(w) PROVE CallsTyped'
  <2>1. call[w].step # "idle" /\ call[w].body \in Bodies
    BY <1>2 DEF InsertSlot, CallsTyped
  <2>2. slot' \in [body : Bodies \cup {NoBody}, complete : BOOLEAN, answer : Bodies \cup {NoBody}]
    BY <1>2, <2>1 DEF InsertSlot, CallsTyped, NoSlot
  <2>3. GoOn(w, "run") \/ GoOn(w, "select")
    BY <1>2 DEF InsertSlot
  <2>4. QED
    BY <2>1, <2>2, <2>3, CallMoves DEF CallsTyped
<1>3. ASSUME NEW w \in Callers, ReadSlot(w) PROVE CallsTyped'
  <2>1. call[w].step # "idle" /\ slot' = slot /\ (GoOn(w, "run") \/ Rest(w))
    BY <1>3 DEF ReadSlot
  <2>2. QED
    BY <2>1, CallMoves, CallRests DEF CallsTyped
<1>4. ASSUME NEW w \in Callers, HandlerAnswers(w) \/ OperationFails(w) PROVE CallsTyped'
  <2>1. call[w].step # "idle" /\ slot' = slot /\ (GoOn(w, "complete") \/ GoOn(w, "abandon"))
    BY <1>4 DEF HandlerAnswers, OperationFails
  <2>2. QED
    BY <2>1, CallMoves DEF CallsTyped
<1>5. ASSUME NEW w \in Callers, CompleteSlot(w) \/ AbandonSlot(w) PROVE CallsTyped'
  <2>1. Rest(w)
    BY <1>5 DEF CompleteSlot, AbandonSlot
  <2>2. slot' \in [body : Bodies \cup {NoBody}, complete : BOOLEAN, answer : Bodies \cup {NoBody}]
    <3>1. call[w].body \in Bodies \cup {NoBody} /\ slot.complete \in BOOLEAN
      BY DEF CallsTyped
    <3>2. \/ slot' = NoSlot \/ slot' = slot
          \/ slot' = [slot EXCEPT !.complete = TRUE, !.answer = call[w].body]
      BY <1>5 DEF CompleteSlot, AbandonSlot
    <3>3. [slot EXCEPT !.complete = TRUE, !.answer = call[w].body]
            \in [body : Bodies \cup {NoBody}, complete : BOOLEAN, answer : Bodies \cup {NoBody}]
      BY <3>1 DEF CallsTyped
    <3>4. NoSlot \in [body : Bodies \cup {NoBody}, complete : BOOLEAN, answer : Bodies \cup {NoBody}]
      BY DEF NoSlot
    <3>5. slot \in [body : Bodies \cup {NoBody}, complete : BOOLEAN, answer : Bodies \cup {NoBody}]
      BY DEF CallsTyped
    <3>6. QED
      BY <3>2, <3>3, <3>4, <3>5
  <2>3. QED
    BY <2>1, <2>2, CallRests DEF CallsTyped
<1>6. ASSUME NEW w \in Callers, CallFails(w) \/ CallerDies(w) PROVE CallsTyped'
  <2>1. Rest(w) /\ slot' = slot
    BY <1>6 DEF CallFails, CallerDies
  <2>2. QED
    BY <2>1, CallRests DEF CallsTyped
<1>7. CASE Prune
  BY <1>7 DEF Prune, CallsTyped, NoSlot
<1>8. CASE UNCHANGED idemVars
  BY <1>8 DEF idemVars, CallsTyped
<1>9. QED
  BY <1>1, <1>2, <1>3, <1>4, <1>5, <1>6, <1>7, <1>8 DEF IdempotencyNext, Proceed

-----------------------------------------------------------------------------
(* How the number of claims changes when one caller moves. *)
LEMMA ClaimsCounted ==
         /\ IsFiniteSet(HoldingKey) /\ Cardinality(HoldingKey) \in Nat
         /\ HoldingKey' \subseteq HoldingKey =>
              Cardinality(HoldingKey)' \in Nat /\ Cardinality(HoldingKey)' <= Cardinality(HoldingKey)
         /\ \A w \in Callers \ HoldingKey : HoldingKey' = HoldingKey \cup {w} =>
              Cardinality(HoldingKey)' = Cardinality(HoldingKey) + 1
         /\ \A w \in HoldingKey : HoldingKey' = HoldingKey \ {w} =>
              Cardinality(HoldingKey)' = Cardinality(HoldingKey) - 1
<1>1. IsFiniteSet(HoldingKey)
  BY FS_Subset DEF HoldingKey
<1>2. Cardinality(HoldingKey) \in Nat
  BY <1>1, FS_CardinalityType
<1>3. ASSUME HoldingKey' \subseteq HoldingKey
      PROVE  Cardinality(HoldingKey)' \in Nat /\ Cardinality(HoldingKey)' <= Cardinality(HoldingKey)
  BY <1>1, <1>3, FS_Subset, FS_CardinalityType
<1>4. ASSUME NEW w \in Callers \ HoldingKey, HoldingKey' = HoldingKey \cup {w}
      PROVE  Cardinality(HoldingKey)' = Cardinality(HoldingKey) + 1
  BY <1>1, <1>4, FS_AddElement
<1>5. ASSUME NEW w \in HoldingKey, HoldingKey' = HoldingKey \ {w}
      PROVE  Cardinality(HoldingKey)' = Cardinality(HoldingKey) - 1
  BY <1>1, <1>5, FS_RemoveElement
<1>6. QED
  BY <1>1, <1>2, <1>3, <1>4, <1>5

CallsCounted == CallsTyped /\ CountersTyped /\ ExecutionBudget

(* Every execution beyond the first was paid for by a row that went. *)
LEMMA BudgetStaysKept ==
  ASSUME CallsCounted, [IdempotencyNext]_idemVars
  PROVE  CallsCounted'
<1> DEFINE Free == IF slot = NoSlot THEN 1 ELSE 0
<1> USE DEF CallsCounted, CountersTyped, ExecutionBudget
<1>0. CallsTyped' /\ Cardinality(HoldingKey) \in Nat /\ Cardinality(HoldingKey)' \in Int
  <2>1. CallsTyped'
    BY CallsStayTyped
  <2>2. IsFiniteSet(HoldingKey')
    BY FS_Subset DEF HoldingKey
  <2>3. QED
    BY <2>1, <2>2, ClaimsCounted, FS_CardinalityType
<1>1. ASSUME NEW w \in Callers, Send(w) PROVE CallsCounted'
  <2>1. HoldingKey' = HoldingKey
    BY <1>1 DEF Send, HoldingKey, CallsTyped
  <2>2. QED
    BY <1>0, <1>1, <2>1 DEF Send
<1>2. ASSUME NEW w \in Callers, InsertSlot(w) PROVE CallsCounted'
  <2>1. call[w].step = "insert" /\ call[w].body \in Bodies /\ w \notin HoldingKey
    BY <1>2 DEF InsertSlot, CallsTyped, HoldingKey
  <2>2. CASE slot = NoSlot
    <3>1. slot' # NoSlot /\ GoOn(w, "run") /\ UNCHANGED <<executions, vanished, pruned>>
      BY <1>2, <2>1, <2>2, ClaimIsNoFreeKey DEF InsertSlot
    <3>2. HoldingKey' = HoldingKey \cup {w}
      BY <2>1, <3>1, CallMoves DEF HoldingKey
    <3>3. Cardinality(HoldingKey)' = Cardinality(HoldingKey) + 1
      BY <2>1, <3>2, ClaimsCounted
    <3>4. Free = 1 /\ Free' = 0
      BY <2>2, <3>1
    <3>5. QED
      BY <1>0, <3>1, <3>3, <3>4
  <2>3. CASE slot # NoSlot
    <3>1. GoOn(w, "select") /\ UNCHANGED <<slot, executions, vanished, pruned>>
      BY <1>2, <2>3 DEF InsertSlot
    <3>2. HoldingKey' = HoldingKey
      BY <2>1, <3>1, CallMoves DEF HoldingKey
    <3>3. QED
      BY <1>0, <3>1, <3>2
  <2>4. QED
    BY <2>2, <2>3
<1>3. ASSUME NEW w \in Callers, ReadSlot(w) PROVE CallsCounted'
  <2>1. w \notin HoldingKey /\ call[w].step # "idle" /\ UNCHANGED <<slot, executions, pruned>>
    BY <1>3 DEF ReadSlot, HoldingKey
  <2>2. CASE GoOn(w, "run") /\ vanished' = vanished + 1
    <3>1. HoldingKey' = HoldingKey \cup {w}
      BY <2>1, <2>2, CallMoves DEF HoldingKey
    <3>2. Cardinality(HoldingKey)' = Cardinality(HoldingKey) + 1
      BY <2>1, <3>1, ClaimsCounted
    <3>3. QED
      BY <1>0, <2>1, <2>2, <3>2
  <2>3. CASE Rest(w) /\ vanished' = vanished
    <3>1. HoldingKey' = HoldingKey
      BY <2>1, <2>3, CallRests DEF HoldingKey
    <3>2. QED
      BY <1>0, <2>1, <2>3, <3>1
  <2>4. QED
    BY <1>3, <2>2, <2>3 DEF ReadSlot
<1>4. ASSUME NEW w \in Callers, HandlerAnswers(w) PROVE CallsCounted'
  <2>1. /\ w \in HoldingKey /\ call[w].step # "idle" /\ GoOn(w, "complete")
        /\ executions' = executions + 1 /\ UNCHANGED <<slot, vanished, pruned>>
    BY <1>4 DEF HandlerAnswers, HoldingKey
  <2>2. HoldingKey' = HoldingKey \ {w}
    BY <2>1, CallMoves DEF HoldingKey
  <2>3. Cardinality(HoldingKey)' = Cardinality(HoldingKey) - 1
    BY <2>1, <2>2, ClaimsCounted
  <2>4. QED
    BY <1>0, <2>1, <2>3
<1>5. ASSUME NEW w \in Callers, OperationFails(w) PROVE CallsCounted'
  <2>1. /\ w \in HoldingKey /\ call[w].step # "idle" /\ GoOn(w, "abandon")
        /\ UNCHANGED <<slot, executions, vanished, pruned>>
    BY <1>5 DEF OperationFails, HoldingKey
  <2>2. HoldingKey' = HoldingKey
    BY <2>1, CallMoves DEF HoldingKey
  <2>3. QED
    BY <1>0, <2>1, <2>2
<1>6. ASSUME NEW w \in Callers, CompleteSlot(w) PROVE CallsCounted'
  <2>1. /\ w \notin HoldingKey /\ call[w].step # "idle" /\ Rest(w)
        /\ UNCHANGED <<executions, vanished, pruned>>
    BY <1>6 DEF CompleteSlot, HoldingKey
  <2>2. HoldingKey' = HoldingKey
    BY <2>1, CallRests DEF HoldingKey
  <2>3. slot' = NoSlot <=> slot = NoSlot
    BY <1>6, AnswerIsNoFreeKey DEF CompleteSlot
  <2>4. QED
    BY <1>0, <2>1, <2>2, <2>3
<1>7. ASSUME NEW w \in Callers, AbandonSlot(w) PROVE CallsCounted'
  <2>1. w \in HoldingKey /\ Rest(w) /\ UNCHANGED <<executions, vanished, pruned>>
    BY <1>7 DEF AbandonSlot, HoldingKey
  <2>2. HoldingKey' = HoldingKey \ {w}
    BY <2>1, CallRests DEF HoldingKey
  <2>3. Cardinality(HoldingKey)' = Cardinality(HoldingKey) - 1
    BY <2>1, <2>2, ClaimsCounted
  <2>4. QED
    BY <1>0, <2>1, <2>3
<1>8. ASSUME NEW w \in Callers, CallFails(w) \/ CallerDies(w) PROVE CallsCounted'
  <2>1. Rest(w) /\ UNCHANGED <<slot, executions, vanished, pruned>>
    BY <1>8 DEF CallFails, CallerDies
  <2>2. HoldingKey' \subseteq HoldingKey
    BY <2>1, CallRests DEF HoldingKey
  <2>3. Cardinality(HoldingKey)' <= Cardinality(HoldingKey)
    BY <2>2, ClaimsCounted
  <2>4. QED
    BY <1>0, <2>1, <2>3
<1>9. CASE Prune
  <2>1. /\ slot # NoSlot /\ slot' = NoSlot /\ pruned' = pruned + 1
        /\ UNCHANGED <<call, executions, vanished>>
    BY <1>9 DEF Prune
  <2>2. HoldingKey' = HoldingKey
    BY <2>1 DEF HoldingKey
  <2>3. QED
    BY <1>0, <2>1, <2>2
<1>10. CASE UNCHANGED idemVars
  BY <1>0, <1>10 DEF idemVars, HoldingKey
<1>11. QED
  BY <1>1, <1>2, <1>3, <1>4, <1>5, <1>6, <1>7, <1>8, <1>9, <1>10 DEF IdempotencyNext, Proceed

(* The rest of the types. *)
CallsRestTyped == idemFaults \in Nat /\ crossed \in BOOLEAN /\ served \subseteq Callers

(* The rest of the variables of Idempotency keep their types. *)
LEMMA CallsRestStaysTyped ==
  ASSUME CallsRestTyped, [IdempotencyNext]_idemVars
  PROVE  CallsRestTyped'
<1> USE DEF CallsRestTyped, IdemFault
<1>1. ASSUME NEW w \in Callers,
             \/ Send(w) \/ InsertSlot(w) \/ HandlerAnswers(w) \/ OperationFails(w)
             \/ CompleteSlot(w) \/ AbandonSlot(w) \/ CallFails(w) \/ CallerDies(w)
      PROVE  CallsRestTyped'
  BY <1>1 DEF Send, InsertSlot, HandlerAnswers, OperationFails, CompleteSlot, AbandonSlot,
              CallFails, CallerDies
<1>2. ASSUME NEW w \in Callers, ReadSlot(w) PROVE CallsRestTyped'
  BY <1>2 DEF ReadSlot
<1>3. CASE Prune \/ UNCHANGED idemVars
  BY <1>3 DEF Prune, idemVars
<1>4. QED
  BY <1>1, <1>2, <1>3 DEF IdempotencyNext, Proceed

(* Nothing was executed at the beginning. *)
LEMMA CallsBeginCounted ==
  ASSUME IdempotencyInit
  PROVE  CallsCounted /\ CallsRestTyped
<1>1. CallsTyped /\ CountersTyped /\ CallsRestTyped
  BY DEF IdempotencyInit, CallsTyped, CountersTyped, CallsRestTyped, NoSlot, Waiting
<1>2. HoldingKey = {}
  BY DEF IdempotencyInit, HoldingKey, Waiting
<1>3. Cardinality(HoldingKey) = 0
  BY <1>2, FS_EmptySet
<1>4. QED
  BY <1>1, <1>3 DEF IdempotencyInit, CallsCounted, ExecutionBudget

(* Executions, claims and a free key share one budget: however requests    *)
(* with one key overlap, fail, die and are repeated, its operation is      *)
(* executed once, and once more for each row that was pruned or vanished   *)
(* between the two statements of a claim (store/idempotency.go:44-75).     *)
THEOREM OperationExecutedOnce ==
  IdempotencySpec => [](IdempotencyTypeOK /\ ExecutionBudget /\ ExecutedOnce)
<1>1. IdempotencyInit => CallsCounted /\ CallsRestTyped
  BY CallsBeginCounted
<1>2. CallsCounted /\ CallsRestTyped /\ [IdempotencyNext]_idemVars => CallsCounted' /\ CallsRestTyped'
  BY BudgetStaysKept, CallsRestStaysTyped
<1>3. CallsCounted /\ CallsRestTyped => IdempotencyTypeOK /\ ExecutionBudget /\ ExecutedOnce
  <2> SUFFICES ASSUME CallsCounted, CallsRestTyped PROVE IdempotencyTypeOK /\ ExecutedOnce
    BY DEF CallsCounted
  <2>1. Cardinality(HoldingKey) \in Nat
    BY ClaimsCounted
  <2>2. ExecutedOnce
    BY <2>1 DEF CallsCounted, CountersTyped, ExecutionBudget, ExecutedOnce
  <2>3. IdempotencyTypeOK
    BY DEF CallsCounted, CallsTyped, CountersTyped, CallsRestTyped, IdempotencyTypeOK
  <2>4. QED
    BY <2>2, <2>3
<1>4. QED
  BY <1>1, <1>2, <1>3, PTL DEF IdempotencySpec

-----------------------------------------------------------------------------
RowOwned == CallsTyped /\ CountersTyped /\ RowIsOwn

(* The row stays the running request's own. *)
LEMMA RowStaysOwn ==
  ASSUME RowOwned, [IdempotencyNext]_idemVars
  PROVE  RowOwned'
<1> USE DEF RowOwned, CountersTyped
<1>0. CallsTyped'
  BY CallsStayTyped
<1>1. ASSUME NEW w \in Callers, Send(w) PROVE RowOwned'
  <2>1. /\ Running' = Running /\ \A v \in Running : call'[v] = call[v]
        /\ UNCHANGED <<slot, executions, vanished, pruned, crossed>>
    BY <1>1 DEF Send, Running, CallsTyped
  <2>2. QED
    BY <1>0, <2>1 DEF RowIsOwn
<1>2. ASSUME NEW w \in Callers, InsertSlot(w) PROVE RowOwned'
  <2>1. /\ call[w].step = "insert" /\ call[w].body \in Bodies /\ w \notin Running
        /\ UNCHANGED <<executions, vanished, pruned, crossed>>
    BY <1>2 DEF InsertSlot, CallsTyped, Running
  <2>2. CASE slot = NoSlot
    <3>1. slot' = [NoSlot EXCEPT !.body = call[w].body] /\ GoOn(w, "run")
      BY <1>2, <2>2 DEF InsertSlot
    <3>2. /\ slot' # NoSlot /\ ~ slot'.complete /\ slot'.body = call[w].body
      BY <2>1, <3>1, ClaimIsNoFreeKey DEF NoSlot
    <3>3. Running' = Running \cup {w} /\ call'[w].body = call[w].body
      BY <2>1, <3>1, CallMoves DEF Running
    <3>4. vanished = 0 => Running = {}
      BY <2>2 DEF RowIsOwn
    <3>5. QED
      BY <1>0, <2>1, <3>2, <3>3, <3>4 DEF RowIsOwn
  <2>3. CASE slot # NoSlot
    <3>1. GoOn(w, "select") /\ slot' = slot
      BY <1>2, <2>3 DEF InsertSlot
    <3>2. Running' = Running /\ \A v \in Running : call'[v] = call[v]
      BY <2>1, <3>1, CallMoves DEF Running
    <3>3. QED
      BY <1>0, <2>1, <3>1, <3>2 DEF RowIsOwn
  <2>4. QED
    BY <2>2, <2>3
<1>3. ASSUME NEW w \in Callers, ReadSlot(w) PROVE RowOwned'
  <2>1. w \notin Running /\ call[w].step # "idle" /\ UNCHANGED <<slot, executions, pruned>>
    BY <1>3 DEF ReadSlot, Running
  <2>2. CASE vanished' = vanished + 1
    BY <1>0, <2>1, <2>2 DEF RowIsOwn
  <2>3. CASE /\ Rest(w) /\ vanished' = vanished
             /\ \/ crossed' = crossed
                \/ /\ slot.complete /\ slot.body = call[w].body
                   /\ crossed' = (crossed \/ slot.answer # call[w].body)
    <3>1. Running' = Running /\ \A v \in Running : call'[v] = call[v]
      BY <2>1, <2>3, CallRests DEF Running
    <3>2. vanished = 0 => ~ crossed'
      BY <2>3 DEF RowIsOwn
    <3>3. QED
      BY <1>0, <2>1, <2>3, <3>1, <3>2 DEF RowIsOwn
  <2>4. QED
    BY <1>3, <2>2, <2>3 DEF ReadSlot
<1>4. ASSUME NEW w \in Callers, HandlerAnswers(w) \/ OperationFails(w) PROVE RowOwned'
  <2>1. /\ w \in Running /\ call[w].step # "idle" /\ executions' \in Nat
        /\ GoOn(w, "complete") \/ GoOn(w, "abandon")
        /\ UNCHANGED <<slot, vanished, pruned, crossed>>
    BY <1>4 DEF HandlerAnswers, OperationFails, Running
  <2>2. Running' = Running /\ \A v \in Running : call'[v].body = call[v].body
    BY <2>1, CallMoves DEF Running
  <2>3. QED
    BY <1>0, <2>1, <2>2 DEF RowIsOwn
<1>5. ASSUME NEW w \in Callers, CompleteSlot(w) PROVE RowOwned'
  <2>1. w \in Running /\ Rest(w) /\ UNCHANGED <<executions, vanished, pruned, crossed>>
    BY <1>5 DEF CompleteSlot, Running
  <2>2. Running' = Running \ {w}
    BY <2>1, CallRests DEF Running
  <2>3. vanished = 0 => Running' = {}
    BY <2>1, <2>2 DEF RowIsOwn
  <2>4. vanished = 0 => slot'.complete /\ slot'.answer = slot'.body
    <3>1. SUFFICES ASSUME vanished = 0 PROVE slot'.complete /\ slot'.answer = slot'.body
      OBVIOUS
    <3>2. slot # NoSlot /\ slot.body = call[w].body
      BY <2>1, <3>1 DEF RowIsOwn
    <3>3. slot' = [slot EXCEPT !.complete = TRUE, !.answer = call[w].body]
      BY <1>5, <3>2 DEF CompleteSlot
    <3>4. QED
      BY <3>2, <3>3, AnswerIsNoFreeKey
  <2>5. QED
    BY <1>0, <2>1, <2>3, <2>4 DEF RowIsOwn
<1>6. ASSUME NEW w \in Callers, AbandonSlot(w) PROVE RowOwned'
  <2>1. /\ w \in Running /\ Rest(w) /\ UNCHANGED <<executions, vanished, pruned, crossed>>
        /\ slot' = IF slot.complete THEN slot ELSE NoSlot
    BY <1>6 DEF AbandonSlot, Running
  <2>2. Running' = Running \ {w}
    BY <2>1, CallRests DEF Running
  <2>3. vanished = 0 => Running' = {}
    BY <2>1, <2>2 DEF RowIsOwn
  <2>4. vanished = 0 => (slot'.complete => slot'.answer = slot'.body)
    BY <2>1 DEF RowIsOwn, NoSlot
  <2>5. QED
    BY <1>0, <2>1, <2>3, <2>4 DEF RowIsOwn
<1>7. ASSUME NEW w \in Callers, CallFails(w) \/ CallerDies(w) PROVE RowOwned'
  <2>1. Rest(w) /\ UNCHANGED <<slot, executions, vanished, pruned, crossed>>
    BY <1>7 DEF CallFails, CallerDies
  <2>2. Running' \subseteq Running /\ \A v \in Running' : call'[v] = call[v]
    BY <2>1, CallRests DEF Running
  <2>3. QED
    BY <1>0, <2>1, <2>2 DEF RowIsOwn
<1>8. CASE Prune
  <2>1. /\ slot' = NoSlot /\ pruned' \in Nat /\ Running' = {}
        /\ UNCHANGED <<executions, vanished, crossed>>
    BY <1>8 DEF Prune, Running
  <2>2. QED
    BY <1>0, <2>1 DEF RowIsOwn, NoSlot
<1>9. CASE UNCHANGED idemVars
  BY <1>0, <1>9 DEF idemVars, RowIsOwn, Running
<1>10. QED
  BY <1>1, <1>2, <1>3, <1>4, <1>5, <1>6, <1>7, <1>8, <1>9 DEF IdempotencyNext, Proceed

(* An answer is only replayed to a request with the body it was given for  *)
(* (middleware/idempotency.go:22-25): a row is completed by the request    *)
(* that claimed it, as long as no row vanishes during a claim.             *)
THEOREM ReplayedToItsBody ==
  IdempotencySpec => []ReplayIsOwn
<1>1. IdempotencyInit => RowOwned
  BY DEF IdempotencyInit, RowOwned, CallsTyped, CountersTyped, RowIsOwn, Running, NoSlot, Waiting
<1>2. RowOwned /\ [IdempotencyNext]_idemVars => RowOwned'
  BY RowStaysOwn
<1>3. RowOwned => ReplayIsOwn
  BY DEF RowOwned, CountersTyped, RowIsOwn, ReplayIsOwn
<1>4. QED
  BY <1>1, <1>2, <1>3, PTL DEF IdempotencySpec

HIDE IdempotencyConstantsOK DEF IdempotencyConstantsOK
-----------------------------------------------------------------------------
(*****************************************************************************)
(* Usage and its billing, for any number of clients, drainers, periods       *)
(* and rows.                                                                 *)
(*****************************************************************************)
USE MeteringConstantsOK DEF MeteringConstantsOK

UsageTyped ==
  /\ limit \in Limits /\ wired \in BOOLEAN /\ unwired \in BOOLEAN
  /\ period \in Periods
  /\ used \in [Periods -> 0..MaxInt]
  /\ usageRequest \in [Clients -> UsageRequest]
  /\ requests \in Nat /\ resets \in Nat /\ forgets \in Nat /\ meteringFaults \in Nat
  /\ accepted \in Nat
  /\ warned \in [Periods -> Nat]

(* Requests that may still append a row. *)
Inserting == {c \in Clients : usageRequest[c].step \in {"count", "enqueue"}}

(* The log has room for what is still to come, and a drain has only rows   *)
(* of the log on its list.                                                 *)
QueueTyped ==
  /\ rows \in Seq(Row)
  /\ Len(rows) + Cardinality(Inserting) <= requests
  /\ requests \in 0..MaxRequests
  /\ drain \in [Drainers -> Draining]
  /\ \A d \in Drainers : /\ drain[d].list \subseteq 1..Len(rows)
                         /\ drain[d].step = "idle" <=> drain[d].list = {}
  /\ known \subseteq Ids
  /\ billed \in [Ids -> Nat]

LogTyped == UsageTyped /\ QueueTyped

-----------------------------------------------------------------------------
(* Requests. *)
LEMMA NoOneTyped == NoOne \in UsageRequest /\ NoOne.step = "idle"
  BY DEF NoOne, UsageRequest

(* A request that goes on to its next step changes no other request. *)
LEMMA UsageGoesOn ==
  ASSUME usageRequest \in [Clients -> UsageRequest], NEW c \in Clients,
         NEW step \in {"idle", "count", "enqueue", "warn"},
         usageRequest' = [usageRequest EXCEPT ![c].step = step]
  PROVE  /\ usageRequest' \in [Clients -> UsageRequest]
         /\ usageRequest'[c] = [usageRequest[c] EXCEPT !.step = step]
         /\ usageRequest'[c].step = step
         /\ usageRequest'[c].period = usageRequest[c].period
         /\ usageRequest'[c].used = usageRequest[c].used
         /\ usageRequest'[c].quantity = usageRequest[c].quantity
         /\ \A o \in Clients \ {c} : usageRequest'[o] = usageRequest[o]
<1>1. usageRequest[c] \in UsageRequest
  OBVIOUS
<1>2. /\ [usageRequest[c] EXCEPT !.step = step] \in UsageRequest
      /\ [usageRequest[c] EXCEPT !.step = step].step = step
      /\ [usageRequest[c] EXCEPT !.step = step].period = usageRequest[c].period
      /\ [usageRequest[c] EXCEPT !.step = step].used = usageRequest[c].used
      /\ [usageRequest[c] EXCEPT !.step = step].quantity = usageRequest[c].quantity
  BY <1>1 DEF UsageRequest
<1>3. usageRequest' = [usageRequest EXCEPT ![c] = [usageRequest[c] EXCEPT !.step = step]]
  OBVIOUS
<1>4. QED
  BY <1>2, <1>3

(* A request that ends changes no other request. *)
LEMMA UsageEnds ==
  ASSUME usageRequest \in [Clients -> UsageRequest], NEW c \in Clients,
         usageRequest' = [usageRequest EXCEPT ![c] = NoOne]
  PROVE  /\ usageRequest' \in [Clients -> UsageRequest]
         /\ usageRequest'[c].step = "idle"
         /\ \A o \in Clients \ {c} : usageRequest'[o] = usageRequest[o]
  BY NoOneTyped

(* What counts as new usage fits the counter. *)
LEMMA UsageCounted ==
  ASSUME UsageTyped, NEW c \in Clients, Count(c)
  PROVE  \/ usageRequest' = [usageRequest EXCEPT ![c] = NoOne] /\ UNCHANGED counter
         \/ /\ ~ Exceeds(used[usageRequest[c].period], usageRequest[c].quantity)
            /\ used[usageRequest[c].period] + usageRequest[c].quantity \in 0..MaxInt
            /\ used' = [used EXCEPT ![usageRequest[c].period] = @ + usageRequest[c].quantity]
            /\ accepted' = accepted + usageRequest[c].quantity
            /\ \E step \in {"enqueue", "warn"} : usageRequest' = [usageRequest EXCEPT ![c] =
                 [usageRequest[c] EXCEPT !.step = step, !.used = used'[usageRequest[c].period]]]
<1> DEFINE r == usageRequest[c]
<1>1. r \in UsageRequest
  BY DEF UsageTyped
<1>2. r.period \in Periods /\ r.quantity \in Nat /\ used[r.period] \in 0..MaxInt
  BY <1>1 DEF UsageTyped, UsageRequest
<1>3. CASE TooLarge(used[r.period], r.quantity) \/ Exceeds(used[r.period], r.quantity)
  BY <1>3 DEF Count
<1>4. CASE ~ (TooLarge(used[r.period], r.quantity) \/ Exceeds(used[r.period], r.quantity))
  <2>1. used[r.period] + r.quantity \in 0..MaxInt
    BY <1>2, <1>4 DEF TooLarge
  <2>2. /\ used' = [used EXCEPT ![r.period] = @ + r.quantity]
        /\ accepted' = accepted + r.quantity
        /\ usageRequest' = [usageRequest EXCEPT ![c].step = IF r.metered THEN "enqueue" ELSE "warn",
                                                ![c].used = used'[r.period]]
    BY <1>4 DEF Count
  <2>3. usageRequest' = [usageRequest EXCEPT ![c] =
          [r EXCEPT !.step = IF r.metered THEN "enqueue" ELSE "warn", !.used = used'[r.period]]]
    <3> DEFINE step == IF r.metered THEN "enqueue" ELSE "warn"
               now == used'[r.period]
    <3>1. usageRequest' = [usageRequest EXCEPT ![c].step = step, ![c].used = now]
      BY <2>2
    <3> HIDE DEF step, now
    <3>2. usageRequest' = [usageRequest EXCEPT ![c] = [r EXCEPT !.step = step, !.used = now]]
      BY <3>1 DEF UsageTyped
    <3>3. QED
      BY <3>2 DEF step, now
  <2>4. (IF r.metered THEN "enqueue" ELSE "warn") \in {"enqueue", "warn"}
    OBVIOUS
  <2>5. QED
    BY <1>4, <2>1, <2>2, <2>3, <2>4
<1>5. QED
  BY <1>3, <1>4

(* The record of a request that was counted. *)
LEMMA CountedTyped ==
  ASSUME UsageTyped, NEW c \in Clients, NEW step \in {"enqueue", "warn"}, NEW now \in 0..MaxInt,
         usageRequest' = [usageRequest EXCEPT ![c] = [usageRequest[c] EXCEPT !.step = step, !.used = now]]
  PROVE  /\ usageRequest' \in [Clients -> UsageRequest]
         /\ usageRequest'[c].step = step /\ usageRequest'[c].used = now
         /\ usageRequest'[c].period = usageRequest[c].period
         /\ usageRequest'[c].quantity = usageRequest[c].quantity
         /\ \A o \in Clients \ {c} : usageRequest'[o] = usageRequest[o]
<1>1. usageRequest[c] \in UsageRequest
  BY DEF UsageTyped
<1>2. \A row \in UsageRequest :
        /\ [row EXCEPT !.step = step] \in UsageRequest
        /\ [row EXCEPT !.step = step].period = row.period
        /\ [row EXCEPT !.step = step].quantity = row.quantity
        /\ [row EXCEPT !.step = step].step = step
  BY DEF UsageRequest
<1>3. \A row \in UsageRequest :
        /\ [row EXCEPT !.used = now] \in UsageRequest
        /\ [row EXCEPT !.used = now].period = row.period
        /\ [row EXCEPT !.used = now].quantity = row.quantity
        /\ [row EXCEPT !.used = now].step = row.step
        /\ [row EXCEPT !.used = now].used = now
  BY DEF UsageRequest
<1> DEFINE new == [usageRequest[c] EXCEPT !.step = step, !.used = now]
<1>4. new = [[usageRequest[c] EXCEPT !.step = step] EXCEPT !.used = now]
  OBVIOUS
<1>5. /\ new \in UsageRequest /\ new.step = step /\ new.used = now
      /\ new.period = usageRequest[c].period /\ new.quantity = usageRequest[c].quantity
  BY <1>1, <1>2, <1>3, <1>4
<1>6. QED
  BY <1>5 DEF UsageTyped

(* The counters and the requests keep their types. *)
LEMMA UsageStaysTyped ==
  ASSUME UsageTyped, [MeteringNext]_meteringVars
  PROVE  UsageTyped'
<1> USE DEF UsageTyped, counter, stripe, Fault
<1>1. ASSUME NEW c \in Clients, Ask(c) PROVE UsageTyped'
  <2>1. PICK q \in Asked : usageRequest' = [usageRequest EXCEPT ![c] =
          [step |-> "count", quantity |-> IF q <= 0 THEN 1 ELSE q,
           period |-> period, used |-> 0, metered |-> wired]]
    BY <1>1 DEF Ask
  <2>2. (IF q <= 0 THEN 1 ELSE q) \in Nat
    OBVIOUS
  <2>3. [step |-> "count", quantity |-> IF q <= 0 THEN 1 ELSE q,
         period |-> period, used |-> 0, metered |-> wired] \in UsageRequest
    BY <2>2 DEF UsageRequest
  <2>4. usageRequest' \in [Clients -> UsageRequest]
    BY <2>1, <2>3
  <2>5. QED
    BY <1>1, <2>4 DEF Ask
<1>2. ASSUME NEW c \in Clients, Count(c) PROVE UsageTyped'
  <2>1. CASE usageRequest' = [usageRequest EXCEPT ![c] = NoOne] /\ UNCHANGED counter
    BY <1>2, <2>1, UsageEnds DEF Count
  <2>2. CASE ~ (usageRequest' = [usageRequest EXCEPT ![c] = NoOne] /\ UNCHANGED counter)
    <3> DEFINE r == usageRequest[c]
    <3>1. /\ used[r.period] + r.quantity \in 0..MaxInt
          /\ used' = [used EXCEPT ![r.period] = @ + r.quantity]
          /\ accepted' = accepted + r.quantity
      BY <1>2, <2>2, UsageCounted
    <3>2. PICK step \in {"enqueue", "warn"} : usageRequest' = [usageRequest EXCEPT ![c] =
            [r EXCEPT !.step = step, !.used = used'[r.period]]]
      BY <1>2, <2>2, UsageCounted
    <3>3. r.period \in Periods /\ r.quantity \in Nat
      BY DEF UsageRequest
    <3>4. used' \in [Periods -> 0..MaxInt] /\ used'[r.period] \in 0..MaxInt
      BY <3>1, <3>3
    <3>5. usageRequest' \in [Clients -> UsageRequest]
      BY <3>2, <3>4, CountedTyped
    <3>6. QED
      BY <1>2, <3>1, <3>3, <3>4, <3>5 DEF Count
  <2>3. QED
    BY <2>1, <2>2
<1>3. ASSUME NEW c \in Clients, Enqueue(c) \/ UsageFails(c) \/ UsageDies(c) PROVE UsageTyped'
  <2>1. \/ usageRequest' = [usageRequest EXCEPT ![c] = NoOne]
        \/ usageRequest' = [usageRequest EXCEPT ![c].step = "warn"]
    BY <1>3 DEF Enqueue, UsageFails, UsageDies
  <2>2. usageRequest' \in [Clients -> UsageRequest]
    BY <2>1, UsageEnds, UsageGoesOn
  <2>3. /\ UNCHANGED <<limit, wired, period, used, accepted, forgets, requests, resets, warned, unwired>>
        /\ meteringFaults' \in {meteringFaults, meteringFaults + 1}
    BY <1>3 DEF Enqueue, UsageFails, UsageDies
  <2>4. QED
    BY <2>2, <2>3
<1>4. ASSUME NEW c \in Clients, Warn(c) PROVE UsageTyped'
  <2>1. usageRequest' \in [Clients -> UsageRequest]
    BY <1>4, UsageEnds DEF Warn
  <2>2. usageRequest[c].period \in Periods
    BY DEF UsageRequest
  <2>3. \/ warned' = [warned EXCEPT ![usageRequest[c].period] = @ + 1]
        \/ warned' = warned
    BY <1>4 DEF Warn
  <2>4. warned' \in [Periods -> Nat]
    BY <2>2, <2>3
  <2>5. QED
    BY <1>4, <2>1, <2>4 DEF Warn
<1>5. CASE Reset \/ Reconfigure \/ NextPeriod
  <2>1. CASE Reset
    BY <2>1 DEF Reset
  <2>2. CASE Reconfigure
    BY <2>2 DEF Reconfigure
  <2>3. CASE NextPeriod
    BY <2>3 DEF NextPeriod
  <2>4. QED
    BY <1>5, <2>1, <2>2, <2>3
<1>6. CASE Forget \/ UNCHANGED meteringVars
  BY <1>6 DEF Forget, meteringVars
<1>7. ASSUME NEW d \in Drainers,
             List(d) \/ Sync(d) \/ DrainFails(d) \/ DrainDies(d)
      PROVE  UsageTyped'
  <2>1. UNCHANGED <<limit, wired, period, used, accepted, usageRequest, forgets, requests, resets,
                    warned, unwired>>
    BY <1>7 DEF List, Sync, Take, Push, Mark, RecordFailure, DrainFails, DrainDies
  <2>2. meteringFaults' \in {meteringFaults, meteringFaults + 1}
    BY <1>7 DEF List, Sync, Take, Push, Mark, RecordFailure, DrainFails, DrainDies
  <2>3. QED
    BY <2>1, <2>2
<1>8. QED
  BY <1>1, <1>2, <1>3, <1>4, <1>5, <1>6, <1>7 DEF MeteringNext, ServeUsage

-----------------------------------------------------------------------------
(* The drains. *)

(* The oldest of some rows. *)
LEMMA LeastExists ==
  ASSUME NEW S \in SUBSET Nat, S # {}
  PROVE  \E i \in S : \A j \in S : i <= j
<1> DEFINE Upto(i) == 0..i
           T == {Upto(i) : i \in S}
           R == StrictSubsetOrdering(Nat)
<1>1. T \subseteq FiniteSubsetsOf(Nat) /\ T # {}
  <2>1. \A i \in S : IsFiniteSet(Upto(i)) /\ Upto(i) \in SUBSET Nat
    BY FS_Interval
  <2>2. QED
    BY <2>1 DEF FiniteSubsetsOf
<1>2. PICK x \in T : \A y \in T : ~ (<<y, x>> \in R)
  BY <1>1, FS_StrictSubsetOrderingWellFounded, WFMin
<1>3. PICK i \in S : x = Upto(i)
  OBVIOUS
<1>4. ASSUME NEW j \in S, j < i PROVE FALSE
  <2>1. Upto(j) \subseteq Upto(i) /\ i \in Upto(i) /\ i \notin Upto(j)
    BY <1>4
  <2>2. <<Upto(j), x>> \in R
    BY <1>3, <2>1 DEF StrictSubsetOrdering
  <2>3. QED
    BY <1>2, <2>2
<1>5. QED
  BY <1>4

(* The row that a drain is at is on its list. *)
LEMMA CurrentListed ==
  ASSUME NEW d \in Drainers, drain[d].list \in SUBSET Nat, drain[d].list # {}
  PROVE  Current(d) \in drain[d].list
  BY LeastExists DEF Current

(* A batch of rows found is some of them, and not none. *)
LEMMA OldestSome ==
  ASSUME NEW found \in SUBSET Nat, found # {}
  PROVE  Oldest(found) \subseteq found /\ Oldest(found) # {}
<1>1. PICK i \in found : \A j \in found : i <= j
  BY LeastExists
<1>2. {j \in found : j < i} = {}
  <2>1. \A j \in found : ~ (j < i)
    BY <1>1
  <2>2. QED
    BY <2>1
<1>3. Cardinality({j \in found : j < i}) < Batch
  BY <1>2, FS_EmptySet
<1>4. QED
  BY <1>3 DEF Oldest

(* What a step does to its drain. *)
LEMMA DrainGoesOn ==
  ASSUME drain \in [Drainers -> Draining], NEW d \in Drainers,
         NEW step \in {"take", "push", "mark", "skip", "fail"}, DrainStep(d, step)
  PROVE  /\ drain' \in [Drainers -> Draining]
         /\ drain'[d].step = step /\ drain'[d].list = drain[d].list
         /\ \A o \in Drainers \ {d} : drain'[o] = drain[o]
<1>1. drain[d] \in Draining
  OBVIOUS
<1>2. /\ [drain[d] EXCEPT !.step = step] \in Draining
      /\ [drain[d] EXCEPT !.step = step].step = step
      /\ [drain[d] EXCEPT !.step = step].list = drain[d].list
  BY <1>1 DEF Draining
<1>3. drain' = [drain EXCEPT ![d] = [drain[d] EXCEPT !.step = step]]
  BY DEF DrainStep
<1>4. QED
  BY <1>2, <1>3

(* A drain that is done with a row takes it off its list, and rests after  *)
(* the last.                                                               *)
LEMMA DrainDone ==
  ASSUME drain \in [Drainers -> Draining], NEW d \in Drainers, Done(d)
  PROVE  /\ drain' \in [Drainers -> Draining]
         /\ drain'[d].list = drain[d].list \ {Current(d)}
         /\ drain'[d].step = IF drain'[d].list = {} THEN "idle" ELSE "take"
         /\ \A o \in Drainers \ {d} : drain'[o] = drain[o]
<1> DEFINE rest == drain[d].list \ {Current(d)}
<1>1. rest \in SUBSET Ids
  BY DEF Draining
<1>2. CASE rest = {}
  <2>1. drain' = [drain EXCEPT ![d] = Resting]
    BY <1>2 DEF Done
  <2>2. Resting \in Draining /\ Resting.list = {} /\ Resting.step = "idle"
    BY DEF Resting, Draining
  <2>3. QED
    BY <1>2, <2>1, <2>2
<1>3. CASE rest # {}
  <2>1. drain' = [drain EXCEPT ![d] = [step |-> "take", list |-> rest]]
    BY <1>3 DEF Done
  <2>2. [step |-> "take", list |-> rest] \in Draining
    BY <1>1 DEF Draining
  <2>3. QED
    BY <1>3, <2>1, <2>2
<1>4. QED
  BY <1>2, <1>3

(* A drain that rests has nothing on its list. *)
LEMMA DrainRests ==
  ASSUME drain \in [Drainers -> Draining], NEW d \in Drainers,
         drain' = [drain EXCEPT ![d] = Resting]
  PROVE  /\ drain' \in [Drainers -> Draining]
         /\ drain'[d].list = {} /\ drain'[d].step = "idle"
         /\ \A o \in Drainers \ {d} : drain'[o] = drain[o]
<1>1. Resting \in Draining /\ Resting.list = {} /\ Resting.step = "idle"
  BY DEF Resting, Draining
<1>2. QED
  BY <1>1

-----------------------------------------------------------------------------
(* The rows. *)
LEMMA RowWritten ==
  ASSUME rows \in Seq(Row), NEW i \in 1..Len(rows), NEW row \in Row, rows' = [rows EXCEPT ![i] = row]
  PROVE  /\ rows' \in Seq(Row) /\ Len(rows') = Len(rows)
         /\ rows'[i] = row
         /\ \A j \in 1..Len(rows) : j # i => rows'[j] = rows[j]
  OBVIOUS

(* Marking a row as synced changes nothing else of the queue. *)
LEMMA RowMarked ==
  ASSUME rows \in Seq(Row), NEW i \in 1..Len(rows), rows' = [rows EXCEPT ![i].synced = TRUE]
  PROVE  /\ rows' \in Seq(Row) /\ Len(rows') = Len(rows)
         /\ rows'[i].attempts = rows[i].attempts
         /\ \A j \in 1..Len(rows) : j # i => rows'[j] = rows[j]
<1> DEFINE row == [rows[i] EXCEPT !.synced = TRUE]
<1>1. rows[i] \in Row
  OBVIOUS
<1>2. row \in Row /\ row.attempts = rows[i].attempts
  BY <1>1 DEF Row
<1>3. rows' = [rows EXCEPT ![i] = row]
  OBVIOUS
<1> HIDE DEF row
<1>4. QED
  BY <1>2, <1>3, RowWritten

(* Recording a failed push changes nothing else of the queue. *)
LEMMA AttemptRecorded ==
  ASSUME rows \in Seq(Row), NEW i \in 1..Len(rows), rows' = [rows EXCEPT ![i].attempts = @ + 1]
  PROVE  /\ rows' \in Seq(Row) /\ Len(rows') = Len(rows)
         /\ rows'[i].attempts = rows[i].attempts + 1 /\ rows'[i].synced = rows[i].synced
         /\ \A j \in 1..Len(rows) : j # i => rows'[j] = rows[j]
<1> DEFINE row == [rows[i] EXCEPT !.attempts = @ + 1]
<1>1. rows[i] \in Row /\ rows[i].attempts + 1 \in Nat
  <2>1. rows[i] \in Row
    OBVIOUS
  <2>2. rows[i].attempts \in Nat
    BY <2>1 DEF Row
  <2>3. QED
    BY <2>1, <2>2
<1>2. \A old \in Row, n \in Nat : /\ [old EXCEPT !.attempts = n] \in Row
                                 /\ [old EXCEPT !.attempts = n].attempts = n
                                 /\ [old EXCEPT !.attempts = n].synced = old.synced
  BY DEF Row
<1>3. row \in Row /\ row.attempts = rows[i].attempts + 1 /\ row.synced = rows[i].synced
  BY <1>1, <1>2
<1>4. rows' = [rows EXCEPT ![i] = row]
  OBVIOUS
<1> HIDE DEF row
<1>5. QED
  BY <1>3, <1>4, RowWritten

(* A new row is the last of the queue, pending, and never tried. *)
LEMMA RowAppended ==
  ASSUME UsageTyped, rows \in Seq(Row), NEW c \in Clients, Enqueue(c)
  PROVE  /\ rows' \in Seq(Row) /\ Len(rows') = Len(rows) + 1
         /\ rows'[Len(rows) + 1].attempts = 0 /\ ~ rows'[Len(rows) + 1].synced
         /\ \A j \in 1..Len(rows) : rows'[j] = rows[j]
<1> DEFINE row == [quantity |-> usageRequest[c].quantity, synced |-> FALSE, attempts |-> 0]
<1>1. usageRequest[c].quantity \in Nat
  BY DEF UsageTyped, UsageRequest
<1>2. row \in Row /\ row.attempts = 0 /\ ~ row.synced
  BY <1>1 DEF Row
<1>3. rows' = Append(rows, row)
  BY DEF Enqueue
<1> HIDE DEF row
<1>4. QED
  BY <1>2, <1>3

(* How the number of requests that may still insert changes. *)
LEMMA InsertingCounted ==
  /\ Cardinality(Inserting) \in Nat
  /\ Inserting' \subseteq Inserting =>
       Cardinality(Inserting)' \in Nat /\ Cardinality(Inserting)' <= Cardinality(Inserting)
  /\ \A c \in Clients : Inserting' = Inserting \cup {c} =>
       Cardinality(Inserting)' \in Nat /\ Cardinality(Inserting)' <= Cardinality(Inserting) + 1
  /\ \A c \in Inserting : Inserting' = Inserting \ {c} =>
       Cardinality(Inserting)' = Cardinality(Inserting) - 1
<1>1. IsFiniteSet(Inserting)
  BY FS_Subset DEF Inserting
<1>2. Cardinality(Inserting) \in Nat
  BY <1>1, FS_CardinalityType
<1>3. ASSUME Inserting' \subseteq Inserting
      PROVE  Cardinality(Inserting)' \in Nat /\ Cardinality(Inserting)' <= Cardinality(Inserting)
  BY <1>1, <1>3, FS_Subset, FS_CardinalityType
<1>4. ASSUME NEW c \in Clients, Inserting' = Inserting \cup {c}
      PROVE  Cardinality(Inserting)' \in Nat /\ Cardinality(Inserting)' <= Cardinality(Inserting) + 1
  <2>1. Cardinality(Inserting \cup {c}) =
          IF c \in Inserting THEN Cardinality(Inserting) ELSE Cardinality(Inserting) + 1
    BY <1>1, FS_AddElement
  <2>2. QED
    BY <1>2, <1>4, <2>1
<1>5. ASSUME NEW c \in Inserting, Inserting' = Inserting \ {c}
      PROVE  Cardinality(Inserting)' = Cardinality(Inserting) - 1
  BY <1>1, <1>5, FS_RemoveElement
<1>6. QED
  BY <1>2, <1>3, <1>4, <1>5

(* Every row of the log has an identifier. *)
LEMMA RowsHaveIds ==
  ASSUME QueueTyped
  PROVE  Len(rows) \in Nat /\ Len(rows) <= MaxRequests /\ 1..Len(rows) \subseteq Ids
<1>1. Cardinality(Inserting) \in Nat /\ Len(rows) \in Nat
  BY InsertingCounted DEF QueueTyped
<1>2. QED
  BY <1>1 DEF QueueTyped, Ids

(* Who drains has a row to drain. *)
LEMMA DrainHasRow ==
  ASSUME QueueTyped, NEW d \in Drainers, drain[d].step # "idle"
  PROVE  /\ Current(d) \in drain[d].list /\ Current(d) \in 1..Len(rows)
         /\ Current(d) \in Ids
<1>1. drain[d].list # {} /\ drain[d].list \subseteq 1..Len(rows)
  BY DEF QueueTyped
<1>2. drain[d].list \in SUBSET Nat
  BY <1>1
<1>3. QED
  BY <1>1, <1>2, CurrentListed, RowsHaveIds

(* The steps by what they do to a drain. *)
LEMMA DrainSteps ==
  ASSUME QueueTyped, NEW d \in Drainers, Sync(d) \/ DrainFails(d) \/ DrainDies(d)
  PROVE  /\ drain[d].step # "idle"
         /\ drain' \in [Drainers -> Draining]
         /\ drain'[d].list \subseteq drain[d].list
         /\ drain'[d].step = "idle" <=> drain'[d].list = {}
         /\ \A o \in Drainers \ {d} : drain'[o] = drain[o]
<1> USE DEF QueueTyped
<1>1. drain[d].step # "idle"
  BY DEF Sync, Take, Push, Mark, RecordFailure, DrainFails, DrainDies
<1>2. \/ \E step \in {"take", "push", "mark", "skip", "fail"} : DrainStep(d, step)
      \/ Done(d)
      \/ drain' = [drain EXCEPT ![d] = Resting]
  BY DEF Sync, Take, Push, Mark, RecordFailure, DrainFails, DrainDies
<1>3. ASSUME NEW step \in {"take", "push", "mark", "skip", "fail"}, DrainStep(d, step)
      PROVE  /\ drain' \in [Drainers -> Draining]
             /\ drain'[d].list = drain[d].list /\ drain'[d].step # "idle"
             /\ \A o \in Drainers \ {d} : drain'[o] = drain[o]
  BY <1>3, DrainGoesOn
<1>4. QED
  BY <1>1, <1>2, <1>3, DrainDone, DrainRests

(* A drain lists rows that are pending. *)
LEMMA DrainLists ==
  ASSUME QueueTyped, NEW d \in Drainers, List(d)
  PROVE  /\ drain' \in [Drainers -> Draining]
         /\ drain'[d].step = "take" /\ drain'[d].list # {}
         /\ drain'[d].list \subseteq {i \in 1..Len(rows) : Pending(rows[i])}
         /\ \A o \in Drainers \ {d} : drain'[o] = drain[o]
<1> DEFINE found == {i \in 1..Len(rows) : Pending(rows[i])}
<1>1. /\ found # {}
      /\ drain' = [drain EXCEPT ![d] = [step |-> "take", list |-> Oldest(found)]]
  BY DEF List
<1>2. found \in SUBSET Nat
  OBVIOUS
<1>3. Oldest(found) \subseteq found /\ Oldest(found) # {}
  BY <1>1, <1>2, OldestSome
<1>4. 1..Len(rows) \subseteq Ids
  BY RowsHaveIds
<1>5. [step |-> "take", list |-> Oldest(found)] \in Draining
  BY <1>3, <1>4 DEF Draining
<1> HIDE DEF found
<1>6. drain'[d] = [step |-> "take", list |-> Oldest(found)]
  BY <1>1 DEF QueueTyped
<1>7. QED
  BY <1>1, <1>3, <1>5, <1>6 DEF QueueTyped, found

-----------------------------------------------------------------------------
(* The log has room for the rows that are still to come, and the lists of  *)
(* the drains only name rows of the log.                                   *)
LEMMA QueueStaysTyped ==
  ASSUME UsageTyped, QueueTyped, [MeteringNext]_meteringVars
  PROVE  QueueTyped'
<1>0. /\ rows \in Seq(Row) /\ Len(rows) \in Nat /\ Cardinality(Inserting) \in Nat
      /\ usageRequest \in [Clients -> UsageRequest]
  BY InsertingCounted DEF QueueTyped, UsageTyped
<1>1. ASSUME NEW c \in Clients, Ask(c) PROVE QueueTyped'
  <2>1. /\ requests < MaxRequests /\ requests' = requests + 1
        /\ UNCHANGED <<rows, drain, known, billed>>
    BY <1>1 DEF Ask, stripe
  <2>2. \A o \in Clients \ {c} : usageRequest'[o] = usageRequest[o]
    BY <1>0, <1>1 DEF Ask
  <2>3. Inserting' = Inserting \cup {c} \/ Inserting' \subseteq Inserting
    BY <2>2 DEF Inserting
  <2>4. Cardinality(Inserting)' \in Nat /\ Cardinality(Inserting)' <= Cardinality(Inserting) + 1
    BY <1>0, <2>3, InsertingCounted
  <2>5. QED
    BY <1>0, <2>1, <2>4 DEF QueueTyped
<1>2. ASSUME NEW c \in Clients, Count(c) \/ Warn(c) \/ UsageFails(c) \/ UsageDies(c)
      PROVE  QueueTyped'
  <2>1. UNCHANGED <<rows, drain, known, billed, requests>>
    BY <1>2 DEF Count, Warn, UsageFails, UsageDies, stripe
  <2>2. /\ \A o \in Clients \ {c} : usageRequest'[o] = usageRequest[o]
        /\ c \in Inserting' => c \in Inserting
    <3>1. CASE Count(c)
      <4>1. usageRequest[c].step = "count"
        BY <3>1 DEF Count
      <4>2. \A o \in Clients \ {c} : usageRequest'[o] = usageRequest[o]
        BY <1>0, <3>1, UsageCounted
      <4>3. QED
        BY <4>1, <4>2 DEF Inserting
    <3>2. CASE Warn(c) \/ UsageFails(c) \/ UsageDies(c)
      <4>1. \/ usageRequest' = [usageRequest EXCEPT ![c] = NoOne]
            \/ usageRequest' = [usageRequest EXCEPT ![c].step = "warn"]
        BY <3>2 DEF Warn, UsageFails, UsageDies
      <4>2. /\ usageRequest'[c].step \in {"idle", "warn"}
            /\ \A o \in Clients \ {c} : usageRequest'[o] = usageRequest[o]
        BY <1>0, <4>1, UsageEnds, UsageGoesOn
      <4>3. QED
        BY <4>2 DEF Inserting
    <3>3. QED
      BY <1>2, <3>1, <3>2
  <2>3. Inserting' \subseteq Inserting
    BY <2>2 DEF Inserting
  <2>4. QED
    BY <1>0, <2>1, <2>3, InsertingCounted DEF QueueTyped
<1>3. ASSUME NEW c \in Clients, Enqueue(c) PROVE QueueTyped'
  <2>1. /\ usageRequest[c].step = "enqueue"
        /\ usageRequest' = [usageRequest EXCEPT ![c].step = "warn"]
        /\ UNCHANGED <<drain, known, billed, requests>>
    BY <1>3 DEF Enqueue, stripe
  <2>2. usageRequest'[c].step = "warn" /\ \A o \in Clients \ {c} : usageRequest'[o] = usageRequest[o]
    BY <1>0, <2>1, UsageGoesOn
  <2>3. c \in Inserting /\ Inserting' = Inserting \ {c}
    BY <2>1, <2>2 DEF Inserting
  <2>4. Cardinality(Inserting)' = Cardinality(Inserting) - 1
    BY <2>3, InsertingCounted
  <2>5. rows' \in Seq(Row) /\ Len(rows') = Len(rows) + 1
    BY <1>0, <1>3, RowAppended
  <2>6. 1..Len(rows) \subseteq 1..Len(rows')
    BY <1>0, <2>5
  <2>7. QED
    BY <1>0, <2>1, <2>4, <2>5, <2>6 DEF QueueTyped
<1>4. ASSUME NEW d \in Drainers, Sync(d) \/ DrainFails(d) \/ DrainDies(d) PROVE QueueTyped'
  <2>1. UNCHANGED <<usageRequest, requests>> /\ Inserting' = Inserting
    BY <1>4 DEF Sync, Take, Push, Mark, RecordFailure, DrainFails, DrainDies, Inserting
  <2>2. /\ drain[d].step # "idle"
        /\ drain' \in [Drainers -> Draining]
        /\ drain'[d].list \subseteq drain[d].list
        /\ drain'[d].step = "idle" <=> drain'[d].list = {}
        /\ \A o \in Drainers \ {d} : drain'[o] = drain[o]
    BY <1>4, DrainSteps
  <2>3. Current(d) \in 1..Len(rows) /\ Current(d) \in Ids
    BY <2>2, DrainHasRow
  <2>4. rows' \in Seq(Row) /\ Len(rows') = Len(rows)
    <3>1. \/ UNCHANGED rows
          \/ rows' = [rows EXCEPT ![Current(d)].synced = TRUE]
          \/ rows' = [rows EXCEPT ![Current(d)].attempts = @ + 1]
      BY <1>4 DEF Sync, Take, Push, Mark, RecordFailure, DrainFails, DrainDies
    <3>2. QED
      BY <1>0, <2>3, <3>1, RowMarked, AttemptRecorded
  <2>5. known' \subseteq Ids /\ billed' \in [Ids -> Nat]
    <3>1. UNCHANGED <<known, billed>> \/ Bill(Current(d))
      BY <1>4 DEF Sync, Take, Push, Mark, RecordFailure, DrainFails, DrainDies, stripe
    <3>2. QED
      BY <2>3, <3>1 DEF Bill, QueueTyped
  <2>6. \A o \in Drainers : /\ drain'[o].list \subseteq 1..Len(rows')
                           /\ drain'[o].step = "idle" <=> drain'[o].list = {}
    BY <2>2, <2>4 DEF QueueTyped
  <2>7. QED
    BY <2>1, <2>2, <2>4, <2>5, <2>6 DEF QueueTyped
<1>5. ASSUME NEW d \in Drainers, List(d) PROVE QueueTyped'
  <2>1. UNCHANGED <<usageRequest, requests, rows, known, billed>> /\ Inserting' = Inserting
    BY <1>5 DEF List, Inserting, stripe
  <2>2. /\ drain' \in [Drainers -> Draining]
        /\ drain'[d].step = "take" /\ drain'[d].list # {}
        /\ drain'[d].list \subseteq 1..Len(rows)
        /\ \A o \in Drainers \ {d} : drain'[o] = drain[o]
    BY <1>5, DrainLists
  <2>3. QED
    BY <2>1, <2>2 DEF QueueTyped
<1>6. CASE Reset \/ Reconfigure \/ NextPeriod \/ UNCHANGED meteringVars
  <2>1. UNCHANGED <<usageRequest, requests, rows, drain, known, billed>>
    BY <1>6 DEF Reset, Reconfigure, NextPeriod, stripe, meteringVars
  <2>2. Inserting' = Inserting
    BY <2>1 DEF Inserting
  <2>3. QED
    BY <2>1, <2>2 DEF QueueTyped
<1>7. CASE Forget
  <2>1. UNCHANGED <<usageRequest, requests, rows, drain, billed>> /\ known' \subseteq known
    BY <1>7 DEF Forget
  <2>2. Inserting' = Inserting
    BY <2>1 DEF Inserting
  <2>3. QED
    BY <2>1, <2>2 DEF QueueTyped
<1>8. QED
  BY <1>1, <1>2, <1>3, <1>4, <1>5, <1>6, <1>7 DEF MeteringNext, ServeUsage

-----------------------------------------------------------------------------
(* What Stripe remembers it has billed; what it does not, it has billed at *)
(* most once for each time it forgot.                                      *)
BilledInTime ==
  \A i \in Ids : /\ billed[i] <= IF i \in known THEN 1 + forgets ELSE forgets
                 /\ i \in known => billed[i] > 0

(* Who knows an identifier bills it no more. *)
LEMMA BilledStaysInTime ==
  ASSUME LogTyped, BilledInTime, [MeteringNext]_meteringVars
  PROVE  BilledInTime'
<1> USE DEF LogTyped, BilledInTime
<1>0. billed \in [Ids -> Nat] /\ forgets \in Nat
  BY DEF QueueTyped, UsageTyped
<1>1. ASSUME NEW d \in Drainers, Push(d) PROVE BilledInTime'
  <2>1. drain[d].step # "idle" /\ forgets' = forgets
    BY <1>1 DEF Push
  <2>2. Current(d) \in Ids
    BY <2>1, DrainHasRow
  <2>3. CASE Bill(Current(d))
    BY <1>0, <2>1, <2>2, <2>3 DEF Bill
  <2>4. CASE UNCHANGED <<billed, known>>
    BY <2>1, <2>4
  <2>5. QED
    BY <1>1, <2>3, <2>4 DEF Push
<1>2. CASE Forget
  <2>1. known' \subseteq known /\ billed' = billed /\ forgets' = forgets + 1
    BY <1>2 DEF Forget
  <2>2. QED
    BY <1>0, <2>1
<1>3. CASE UNCHANGED stripe
  BY <1>3 DEF stripe
<1>4. QED
  <2>1. ASSUME NEW c \in Clients, Ask(c) \/ ServeUsage(c) \/ UsageFails(c) \/ UsageDies(c)
        PROVE  UNCHANGED stripe
    BY <2>1 DEF Ask, ServeUsage, Count, Enqueue, Warn, UsageFails, UsageDies
  <2>2. ASSUME NEW d \in Drainers, \/ List(d) \/ Take(d) \/ Mark(d) \/ RecordFailure(d)
                                   \/ DrainFails(d) \/ DrainDies(d)
        PROVE  UNCHANGED stripe
    BY <2>2 DEF List, Take, Mark, RecordFailure, DrainFails, DrainDies
  <2>3. ASSUME Reset \/ Reconfigure \/ NextPeriod \/ UNCHANGED meteringVars
        PROVE  UNCHANGED stripe
    BY <2>3 DEF Reset, Reconfigure, NextPeriod, meteringVars
  <2>4. QED
    BY <1>1, <1>2, <1>3, <2>1, <2>2, <2>3 DEF MeteringNext, Sync

-----------------------------------------------------------------------------
(* Who is about to mark a row has it on the bill, or found no meter.       *)
DrainersKnow ==
  \A d \in Drainers : /\ drain[d].step = "mark" => billed[Current(d)] > 0
                      /\ drain[d].step = "skip" => unwired

MarkedIsBilled == (~ wired => unwired) /\ SyncedIsBilled /\ DrainersKnow

(* A drain whose list stands is at the same row. *)
LEMMA CurrentStays ==
  ASSUME NEW d \in Drainers, drain'[d].list = drain[d].list
  PROVE  Current(d)' = Current(d)
  BY DEF Current

(* The bill only grows. *)
LEMMA BillGrows ==
  ASSUME LogTyped, [MeteringNext]_meteringVars
  PROVE  /\ billed' \in [Ids -> Nat]
         /\ \A i \in Ids : billed[i] <= billed'[i]
<1>1. billed' \in [Ids -> Nat] /\ billed \in [Ids -> Nat]
  BY QueueStaysTyped DEF LogTyped, QueueTyped
<1>2. ASSUME NEW i, Bill(i) PROVE \A j \in Ids : billed[j] <= billed'[j]
  BY <1>1, <1>2 DEF Bill
<1>3. billed' = billed \/ \E i : Bill(i)
  <2>1. ASSUME NEW c \in Clients, Ask(c) \/ ServeUsage(c) \/ UsageFails(c) \/ UsageDies(c)
        PROVE  billed' = billed
    BY <2>1 DEF Ask, ServeUsage, Count, Enqueue, Warn, UsageFails, UsageDies, stripe
  <2>2. ASSUME NEW d \in Drainers, List(d) \/ Sync(d) \/ DrainFails(d) \/ DrainDies(d)
        PROVE  billed' = billed \/ \E i : Bill(i)
    BY <2>2 DEF List, Sync, Take, Push, Mark, RecordFailure, DrainFails, DrainDies, stripe
  <2>3. ASSUME Reset \/ Reconfigure \/ NextPeriod \/ Forget \/ UNCHANGED meteringVars
        PROVE  billed' = billed
    BY <2>3 DEF Reset, Reconfigure, NextPeriod, Forget, stripe, meteringVars
  <2>4. QED
    BY <2>1, <2>2, <2>3 DEF MeteringNext
<1>4. QED
  BY <1>1, <1>2, <1>3

(* Only what was billed is marked as synced, while the meter is wired. *)
LEMMA MarkedStaysBilled ==
  ASSUME LogTyped, BilledInTime, MarkedIsBilled, [MeteringNext]_meteringVars
  PROVE  MarkedIsBilled'
<1> USE DEF LogTyped
<1>0. /\ billed \in [Ids -> Nat] /\ billed' \in [Ids -> Nat]
      /\ \A i \in Ids : billed[i] > 0 => billed'[i] > 0
      /\ rows \in Seq(Row) /\ Len(rows) \in Nat /\ 1..Len(rows) \subseteq Ids
      /\ \A d \in Drainers : drain[d].step # "idle" => Current(d) \in Ids
      /\ drain \in [Drainers -> Draining]
      /\ wired \in BOOLEAN /\ unwired \in BOOLEAN
  <2>1. /\ billed \in [Ids -> Nat] /\ billed' \in [Ids -> Nat]
        /\ \A i \in Ids : billed[i] <= billed'[i]
    BY BillGrows DEF QueueTyped
  <2>2. \A i \in Ids : billed[i] > 0 => billed'[i] > 0
    BY <2>1
  <2>3. QED
    BY <2>1, <2>2, RowsHaveIds, DrainHasRow DEF QueueTyped, UsageTyped
<1>1. ASSUME UNCHANGED <<wired, unwired, rows, drain>> PROVE MarkedIsBilled'
  <2>1. \A d \in Drainers : Current(d)' = Current(d)
    BY <1>1, CurrentStays
  <2>2. QED
    BY <1>0, <1>1, <2>1 DEF MarkedIsBilled, DrainersKnow, SyncedIsBilled
<1>2. ASSUME NEW c \in Clients, Enqueue(c) PROVE MarkedIsBilled'
  <2>1. UNCHANGED <<wired, unwired, drain, billed>>
    BY <1>2 DEF Enqueue, stripe
  <2>2. \A d \in Drainers : Current(d)' = Current(d)
    BY <2>1, CurrentStays
  <2>3. /\ Len(rows') = Len(rows) + 1 /\ ~ rows'[Len(rows) + 1].synced
        /\ \A j \in 1..Len(rows) : rows'[j] = rows[j]
    BY <1>0, <1>2, RowAppended
  <2>4. SyncedIsBilled'
    BY <1>0, <2>1, <2>3 DEF MarkedIsBilled, DrainersKnow, SyncedIsBilled
  <2>5. QED
    BY <2>1, <2>2, <2>4 DEF MarkedIsBilled, DrainersKnow
<1>3. CASE Reconfigure
  <2>1. wired' = (~ wired) /\ unwired' = (unwired \/ wired) /\ UNCHANGED <<rows, drain, billed>>
    BY <1>3 DEF Reconfigure, stripe
  <2>2. \A d \in Drainers : Current(d)' = Current(d)
    BY <2>1, CurrentStays
  <2>3. ~ wired' => unwired'
    BY <1>0, <2>1
  <2>4. unwired => unwired'
    BY <2>1
  <2>5. QED
    BY <2>1, <2>2, <2>3, <2>4 DEF MarkedIsBilled, DrainersKnow, SyncedIsBilled
<1>4. ASSUME NEW e \in Drainers, Sync(e) \/ DrainFails(e) \/ DrainDies(e) PROVE MarkedIsBilled'
  <2>1. UNCHANGED <<wired, unwired>> /\ drain[e].step # "idle"
    BY <1>4 DEF Sync, Take, Push, Mark, RecordFailure, DrainFails, DrainDies
  <2>2. \A o \in Drainers \ {e} : drain'[o] = drain[o]
    BY <1>4, DrainSteps
  <2>3. Current(e) \in 1..Len(rows) /\ Current(e) \in Ids
    BY <2>1, DrainHasRow
  <2>4. /\ drain'[e].step = "mark" => billed'[Current(e)'] > 0
        /\ drain'[e].step = "skip" => unwired
    <3>1. CASE Take(e)
      <4>1. drain'[e].step = IF wired THEN "push" ELSE "skip"
        BY <1>0, <3>1, DrainGoesOn DEF Take
      <4>2. QED
        BY <4>1 DEF MarkedIsBilled, DrainersKnow
    <3>2. CASE Push(e) /\ DrainStep(e, "mark")
      <4>1. drain'[e].step = "mark" /\ drain'[e].list = drain[e].list
        BY <1>0, <3>2, DrainGoesOn
      <4>2. Current(e)' = Current(e)
        BY <4>1, CurrentStays
      <4>3. Bill(Current(e)) \/ DrainStep(e, "fail")
        BY <3>2 DEF Push
      <4>4. ~ DrainStep(e, "fail")
        <5>1. ASSUME DrainStep(e, "fail") PROVE FALSE
          BY <1>0, <4>1, <5>1, DrainGoesOn
        <5>2. QED
          BY <5>1
      <4>5. billed'[Current(e)] > 0
        BY <1>0, <2>3, <4>3, <4>4 DEF Bill, BilledInTime
      <4>6. QED
        BY <4>1, <4>2, <4>5
    <3>3. CASE DrainStep(e, "fail")
      BY <1>0, <3>3, DrainGoesOn
    <3>4. CASE Done(e)
      BY <1>0, <3>4, DrainDone
    <3>5. CASE DrainDies(e)
      BY <1>0, <3>5, DrainRests DEF DrainDies
    <3>6. QED
      BY <1>4, <3>1, <3>2, <3>3, <3>4, <3>5 DEF Sync, Push, Mark, RecordFailure, DrainFails
  <2>5. SyncedIsBilled'
    <3>1. CASE Mark(e)
      <4>1. /\ drain[e].step \in {"mark", "skip"}
            /\ rows' = [rows EXCEPT ![Current(e)].synced = TRUE]
        BY <3>1 DEF Mark
      <4>2. billed[Current(e)] > 0 \/ unwired
        BY <4>1 DEF MarkedIsBilled, DrainersKnow
      <4>3. /\ Len(rows') = Len(rows)
            /\ \A j \in 1..Len(rows) : j # Current(e) => rows'[j] = rows[j]
        BY <1>0, <2>3, <4>1, RowMarked
      <4>4. QED
        BY <1>0, <2>1, <2>3, <4>2, <4>3 DEF MarkedIsBilled, DrainersKnow, SyncedIsBilled
    <3>2. CASE RecordFailure(e)
      <4>1. rows' = [rows EXCEPT ![Current(e)].attempts = @ + 1]
        BY <3>2 DEF RecordFailure
      <4>2. /\ Len(rows') = Len(rows)
            /\ \A j \in 1..Len(rows) : rows'[j].synced = rows[j].synced
        BY <1>0, <2>3, <4>1, AttemptRecorded
      <4>3. QED
        BY <1>0, <2>1, <4>2 DEF MarkedIsBilled, DrainersKnow, SyncedIsBilled
    <3>3. CASE UNCHANGED rows
      BY <1>0, <2>1, <3>3 DEF MarkedIsBilled, DrainersKnow, SyncedIsBilled
    <3>4. QED
      BY <1>4, <3>1, <3>2, <3>3 DEF Sync, Take, Push, DrainFails, DrainDies
  <2>6. ~ wired' => unwired'
    BY <2>1 DEF MarkedIsBilled
  <2>7. DrainersKnow'
    <3> SUFFICES ASSUME NEW o \in Drainers
                 PROVE  (/\ drain[o].step = "mark" => billed[Current(o)] > 0
                         /\ drain[o].step = "skip" => unwired)'
      BY DEF DrainersKnow
    <3>1. CASE o = e
      BY <2>1, <2>4, <3>1
    <3>2. CASE o # e
      <4>1. drain'[o] = drain[o] /\ Current(o)' = Current(o)
        BY <2>2, <3>2, CurrentStays
      <4>2. drain[o].step = "mark" => Current(o) \in Ids /\ billed[Current(o)] > 0
        BY <1>0 DEF MarkedIsBilled, DrainersKnow
      <4>3. drain[o].step = "skip" => unwired
        BY DEF MarkedIsBilled, DrainersKnow
      <4>4. QED
        BY <1>0, <2>1, <4>1, <4>2, <4>3
    <3>3. QED
      BY <3>1, <3>2
  <2>8. QED
    BY <2>5, <2>6, <2>7 DEF MarkedIsBilled
<1>5. ASSUME NEW e \in Drainers, List(e) PROVE MarkedIsBilled'
  <2>1. UNCHANGED <<wired, unwired, rows, billed>>
    BY <1>5 DEF List, stripe
  <2>2. drain'[e].step = "take" /\ \A o \in Drainers \ {e} : drain'[o] = drain[o]
    BY <1>5, DrainLists
  <2>3. \A o \in Drainers \ {e} : Current(o)' = Current(o)
    BY <2>2, CurrentStays
  <2>4. QED
    BY <2>1, <2>2, <2>3 DEF MarkedIsBilled, DrainersKnow, SyncedIsBilled
<1>6. QED
  <2>1. ASSUME NEW c \in Clients,
               Ask(c) \/ Count(c) \/ Warn(c) \/ UsageFails(c) \/ UsageDies(c)
        PROVE  UNCHANGED <<wired, unwired, rows, drain>>
    BY <2>1 DEF Ask, Count, Warn, UsageFails, UsageDies
  <2>2. ASSUME Reset \/ NextPeriod \/ Forget \/ UNCHANGED meteringVars
        PROVE  UNCHANGED <<wired, unwired, rows, drain>>
    BY <2>2 DEF Reset, NextPeriod, Forget, meteringVars
  <2>3. QED
    BY <1>1, <1>2, <1>3, <1>4, <1>5, <2>1, <2>2 DEF MeteringNext, ServeUsage

-----------------------------------------------------------------------------
(* The drains that have a row on their list. *)
Listing(i) == {d \in Drainers : i \in drain[d].list}

(* Each of them may record one more failure of the row. *)
AttemptsLeft ==
  \A i \in 1..Len(rows) :
    rows[i].attempts + Cardinality(Listing(i)) < MaxAttempts + Cardinality(Drainers)

(* The drainers are finite in number, and so is every set of them. *)
LEMMA DrainersCounted ==
  ASSUME NEW S \in SUBSET Drainers, NEW T \in SUBSET Drainers
  PROVE  /\ Cardinality(S) \in Nat /\ Cardinality(Drainers) \in Nat
         /\ Cardinality(S) <= Cardinality(Drainers)
         /\ T \subseteq S => Cardinality(T) \in Nat /\ Cardinality(T) <= Cardinality(S)
         /\ \A d \in S : T \subseteq S \ {d} => Cardinality(T) \in Nat /\ Cardinality(T) < Cardinality(S)
<1>1. IsFiniteSet(S) /\ IsFiniteSet(T)
  BY FS_Subset
<1>2. /\ Cardinality(S) \in Nat /\ Cardinality(T) \in Nat /\ Cardinality(Drainers) \in Nat
      /\ Cardinality(S) <= Cardinality(Drainers)
  BY <1>1, FS_Subset, FS_CardinalityType
<1>3. T \subseteq S => Cardinality(T) <= Cardinality(S)
  BY <1>1, FS_Subset
<1>4. ASSUME NEW d \in S, T \subseteq S \ {d}
      PROVE  Cardinality(T) < Cardinality(S)
  <2>1. Cardinality(S \ {d}) = Cardinality(S) - 1 /\ IsFiniteSet(S \ {d})
    BY <1>1, FS_RemoveElement
  <2>2. Cardinality(T) <= Cardinality(S \ {d})
    BY <1>4, <2>1, FS_Subset
  <2>3. QED
    BY <1>2, <2>1, <2>2
<1>5. QED
  BY <1>2, <1>3, <1>4

(* A row is tried again at most once by each drain that listed it in time. *)
LEMMA AttemptsStayLeft ==
  ASSUME LogTyped, AttemptsLeft, [MeteringNext]_meteringVars
  PROVE  AttemptsLeft'
<1> USE DEF LogTyped
<1>0. /\ rows \in Seq(Row) /\ Len(rows) \in Nat /\ drain \in [Drainers -> Draining]
      /\ \A i \in 1..Len(rows) : rows[i].attempts \in Nat
  <2>1. rows \in Seq(Row)
    BY DEF QueueTyped
  <2>2. \A i \in 1..Len(rows) : rows[i] \in Row
    BY <2>1
  <2>3. QED
    BY <2>1, <2>2 DEF QueueTyped, Row
<1>1. CASE UNCHANGED <<rows, drain>>
  BY <1>1 DEF AttemptsLeft, Listing
<1>2. ASSUME NEW c \in Clients, Enqueue(c) PROVE AttemptsLeft'
  <2> DEFINE n == Len(rows) + 1
  <2>1. /\ drain' = drain
        /\ Len(rows') = n /\ rows'[n].attempts = 0
        /\ \A j \in 1..Len(rows) : rows'[j] = rows[j]
    BY <1>0, <1>2, RowAppended DEF Enqueue
  <2> SUFFICES ASSUME NEW i \in 1..Len(rows')
               PROVE  rows'[i].attempts + Cardinality(Listing(i)) < MaxAttempts + Cardinality(Drainers)
    BY <2>1 DEF AttemptsLeft, Listing
  <2>2. CASE i = n
    <3>1. Listing(i) = {}
      BY <1>0, <2>2 DEF QueueTyped, Listing
    <3>2. Cardinality(Listing(i)) = 0 /\ Cardinality(Drainers) \in Nat
      BY <3>1, FS_EmptySet, FS_CardinalityType
    <3>3. QED
      BY <2>1, <2>2, <3>2
  <2>3. CASE i # n
    <3>1. i \in 1..Len(rows)
      BY <1>0, <2>1, <2>3
    <3>2. QED
      BY <2>1, <3>1 DEF AttemptsLeft
  <2>4. QED
    BY <2>2, <2>3
<1>3. ASSUME NEW e \in Drainers, Sync(e) \/ DrainFails(e) \/ DrainDies(e) PROVE AttemptsLeft'
  <2>1. /\ drain[e].step # "idle" /\ drain'[e].list \subseteq drain[e].list
        /\ \A o \in Drainers \ {e} : drain'[o] = drain[o]
    BY <1>3, DrainSteps
  <2>2. Current(e) \in drain[e].list /\ Current(e) \in 1..Len(rows)
    BY <2>1, DrainHasRow
  <2>3. /\ Len(rows') = Len(rows)
        /\ \A j \in 1..Len(rows) :
             \/ rows'[j].attempts = rows[j].attempts
             \/ /\ rows'[j].attempts = rows[j].attempts + 1
                /\ j = Current(e) /\ drain'[e].list = drain[e].list \ {Current(e)}
    <3>1. CASE RecordFailure(e)
      <4>1. rows' = [rows EXCEPT ![Current(e)].attempts = @ + 1] /\ Done(e)
        BY <3>1 DEF RecordFailure
      <4>2. QED
        BY <1>0, <2>2, <4>1, AttemptRecorded, DrainDone
    <3>2. CASE Mark(e)
      <4>1. rows' = [rows EXCEPT ![Current(e)].synced = TRUE]
        BY <3>2 DEF Mark
      <4>2. QED
        BY <1>0, <2>2, <4>1, RowMarked
    <3>3. CASE UNCHANGED rows
      BY <3>3
    <3>4. QED
      BY <1>3, <3>1, <3>2, <3>3 DEF Sync, Take, Push, DrainFails, DrainDies
  <2> SUFFICES ASSUME NEW i \in 1..Len(rows)
               PROVE  rows'[i].attempts + Cardinality({d \in Drainers : i \in drain'[d].list})
                        < MaxAttempts + Cardinality(Drainers)
    BY <2>3 DEF AttemptsLeft, Listing
  <2> DEFINE S == Listing(i)
             T == {d \in Drainers : i \in drain'[d].list}
  <2>4. S \in SUBSET Drainers /\ T \in SUBSET Drainers /\ T \subseteq S
    BY <2>1 DEF Listing
  <2>5. rows[i].attempts + Cardinality(S) < MaxAttempts + Cardinality(Drainers)
    BY DEF AttemptsLeft
  <2>6. (e \in S /\ T \subseteq S \ {e}) \/ rows'[i].attempts = rows[i].attempts
    BY <2>1, <2>2, <2>3 DEF Listing
  <2> HIDE DEF S, T
  <2>7. /\ Cardinality(S) \in Nat /\ Cardinality(T) \in Nat /\ Cardinality(T) <= Cardinality(S)
        /\ e \in S /\ T \subseteq S \ {e} => Cardinality(T) < Cardinality(S)
        /\ Cardinality(Drainers) \in Nat
    BY <2>4, DrainersCounted
  <2>8. rows'[i].attempts + Cardinality(T) < MaxAttempts + Cardinality(Drainers)
    BY <1>0, <2>3, <2>5, <2>6, <2>7
  <2>9. QED
    BY <2>8 DEF T
<1>4. ASSUME NEW e \in Drainers, List(e) PROVE AttemptsLeft'
  <2>1. rows' = rows /\ drain[e].step = "idle" /\ drain[e].list = {}
    BY <1>4 DEF List, QueueTyped
  <2>2. /\ drain'[e].list \subseteq {i \in 1..Len(rows) : Pending(rows[i])}
        /\ \A o \in Drainers \ {e} : drain'[o] = drain[o]
    BY <1>4, DrainLists
  <2> SUFFICES ASSUME NEW i \in 1..Len(rows)
               PROVE  rows[i].attempts + Cardinality({d \in Drainers : i \in drain'[d].list})
                        < MaxAttempts + Cardinality(Drainers)
    BY <2>1 DEF AttemptsLeft, Listing
  <2> DEFINE T == {d \in Drainers : i \in drain'[d].list}
  <2>3. CASE i \in drain'[e].list
    <3>1. rows[i].attempts < MaxAttempts
      BY <2>2, <2>3 DEF Pending
    <3>2. T \in SUBSET Drainers
      OBVIOUS
    <3>3. Cardinality(T) \in Nat /\ Cardinality(T) <= Cardinality(Drainers) /\ Cardinality(Drainers) \in Nat
      BY <3>2, DrainersCounted
    <3>4. QED
      BY <1>0, <3>1, <3>3
  <2>4. CASE i \notin drain'[e].list
    <3>1. T = Listing(i)
      BY <2>1, <2>2, <2>4 DEF Listing
    <3>2. QED
      BY <3>1 DEF AttemptsLeft
  <2>5. QED
    BY <2>3, <2>4
<1>5. QED
  <2>1. ASSUME NEW c \in Clients,
               Ask(c) \/ Count(c) \/ Warn(c) \/ UsageFails(c) \/ UsageDies(c)
        PROVE  UNCHANGED <<rows, drain>>
    BY <2>1 DEF Ask, Count, Warn, UsageFails, UsageDies
  <2>2. ASSUME Reset \/ Reconfigure \/ NextPeriod \/ Forget \/ UNCHANGED meteringVars
        PROVE  UNCHANGED <<rows, drain>>
    BY <2>2 DEF Reset, Reconfigure, NextPeriod, Forget, meteringVars
  <2>3. QED
    BY <1>1, <1>2, <1>3, <1>4, <2>1, <2>2 DEF MeteringNext, ServeUsage

-----------------------------------------------------------------------------
(* What a request may do to the counter it counts on. *)
LEMMA QuotaStaysKept ==
  ASSUME LogTyped, QuotaKept, [MeteringNext]_meteringVars
  PROVE  QuotaKept'
<1> USE DEF LogTyped
<1>1. CASE UNCHANGED <<limit, used>>
  BY <1>1 DEF QuotaKept
<1>2. ASSUME NEW c \in Clients, Count(c) PROVE QuotaKept'
  <2> DEFINE r == usageRequest[c]
  <2>1. limit' = limit /\ limit \in Nat /\ used \in [Periods -> 0..MaxInt]
    BY <1>2 DEF Count, UsageTyped
  <2>2. r.period \in Periods /\ r.quantity \in Nat
    BY DEF UsageTyped, UsageRequest
  <2>3. CASE used' = used
    BY <2>1, <2>3 DEF QuotaKept
  <2>4. CASE used' # used
    <3>1. /\ ~ Exceeds(used[r.period], r.quantity)
          /\ used[r.period] + r.quantity \in 0..MaxInt
          /\ used' = [used EXCEPT ![r.period] = @ + r.quantity]
      BY <1>2, <2>4, UsageCounted DEF counter
    <3>2. limit > 0 => used[r.period] + r.quantity <= limit
      BY <2>1, <2>2, <3>1 DEF Exceeds, Plus
    <3>3. QED
      BY <2>1, <2>2, <3>1, <3>2 DEF QuotaKept
  <2>5. QED
    BY <2>3, <2>4
<1>3. CASE Reset
  <2>1. limit' = limit /\ used' = [used EXCEPT ![period] = 0] /\ limit \in Nat
    BY <1>3 DEF Reset, UsageTyped
  <2>2. QED
    BY <2>1 DEF QuotaKept, UsageTyped
<1>4. QED
  <2>1. ASSUME NEW c \in Clients, Ask(c) \/ Enqueue(c) \/ Warn(c) \/ UsageFails(c) \/ UsageDies(c)
        PROVE  UNCHANGED <<limit, used>>
    BY <2>1 DEF Ask, Enqueue, Warn, UsageFails, UsageDies, counter
  <2>2. ASSUME NEW d \in Drainers, List(d) \/ Sync(d) \/ DrainFails(d) \/ DrainDies(d)
        PROVE  UNCHANGED <<limit, used>>
    BY <2>2 DEF List, Sync, Take, Push, Mark, RecordFailure, DrainFails, DrainDies, counter
  <2>3. ASSUME Reconfigure \/ NextPeriod \/ Forget \/ UNCHANGED meteringVars
        PROVE  UNCHANGED <<limit, used>>
    BY <2>3 DEF Reconfigure, NextPeriod, Forget, meteringVars, counter
  <2>4. QED
    BY <1>1, <1>2, <1>3, <2>1, <2>2, <2>3 DEF MeteringNext, ServeUsage

-----------------------------------------------------------------------------
(* Requests that crossed the threshold of a period and have not warned. *)
Crossing(p) ==
  {c \in Clients : /\ usageRequest[c].step \in {"enqueue", "warn"} /\ usageRequest[c].period = p
                   /\ Crosses(usageRequest[c].used, usageRequest[c].quantity)}

Above(p) == IF limit > 0 /\ used[p] * 100 >= Threshold * limit THEN 1 ELSE 0

(* The warnings sent and due are paid by the resets and, while the counter *)
(* is above the threshold, by one more.                                    *)
WarningsLeft == \A p \in Periods : warned[p] + Cardinality(Crossing(p)) <= resets + Above(p)

(* The clients are finite in number, and so is every set of them. *)
LEMMA ClientsCounted ==
  ASSUME NEW S \in SUBSET Clients, NEW T \in SUBSET Clients
  PROVE  /\ Cardinality(S) \in Nat /\ Cardinality(T) \in Nat
         /\ T \subseteq S => Cardinality(T) <= Cardinality(S)
         /\ \A c \in Clients : T \subseteq S \cup {c} => Cardinality(T) <= Cardinality(S) + 1
         /\ \A c \in S : T \subseteq S \ {c} => Cardinality(T) <= Cardinality(S) - 1
<1>1. IsFiniteSet(S) /\ IsFiniteSet(T)
  BY FS_Subset
<1>2. Cardinality(S) \in Nat /\ Cardinality(T) \in Nat
  BY <1>1, FS_CardinalityType
<1>3. T \subseteq S => Cardinality(T) <= Cardinality(S)
  BY <1>1, FS_Subset
<1>4. ASSUME NEW c \in Clients, T \subseteq S \cup {c}
      PROVE  Cardinality(T) <= Cardinality(S) + 1
  <2>1. /\ IsFiniteSet(S \cup {c})
        /\ Cardinality(S \cup {c}) = IF c \in S THEN Cardinality(S) ELSE Cardinality(S) + 1
    BY <1>1, FS_AddElement
  <2>2. Cardinality(T) <= Cardinality(S \cup {c})
    BY <1>4, <2>1, FS_Subset
  <2>3. QED
    BY <1>2, <2>1, <2>2
<1>5. ASSUME NEW c \in S, T \subseteq S \ {c}
      PROVE  Cardinality(T) <= Cardinality(S) - 1
  <2>1. Cardinality(S \ {c}) = Cardinality(S) - 1 /\ IsFiniteSet(S \ {c})
    BY <1>1, FS_RemoveElement
  <2>2. QED
    BY <1>5, <2>1, FS_Subset
<1>6. QED
  BY <1>2, <1>3, <1>4, <1>5

(* A request that does not cross leaves the warnings as they are, or       *)
(* fewer; so does a counter that only grows.                               *)
LEMMA WarningsStay ==
  ASSUME LogTyped, WarningsLeft, warned' = warned, limit' = limit, resets' = resets,
         \A p \in Periods : used'[p] \in Nat /\ used[p] <= used'[p],
         \A p \in Periods : Crossing(p)' \subseteq Crossing(p)
  PROVE  WarningsLeft'
<1> SUFFICES ASSUME NEW p \in Periods
             PROVE  (warned[p] + Cardinality(Crossing(p)) <= resets + Above(p))'
  BY DEF WarningsLeft
<1> DEFINE S == Crossing(p)
           T == Crossing(p)'
<1>1. S \in SUBSET Clients /\ T \in SUBSET Clients
  BY DEF Crossing
<1>2. T \subseteq S
  OBVIOUS
<1> HIDE DEF S, T
<1>3. Cardinality(S) \in Nat /\ Cardinality(T) \in Nat /\ Cardinality(T) <= Cardinality(S)
  BY <1>1, <1>2, ClientsCounted
<1>4. Above(p) \in Nat /\ Above(p)' \in Nat /\ Above(p) <= Above(p)'
  <2>1. used[p] \in Nat /\ used'[p] \in Nat /\ used[p] <= used'[p] /\ Threshold * limit \in Nat
    BY DEF LogTyped, UsageTyped
  <2>2. QED
    BY <2>1 DEF Above
<1>5. warned[p] + Cardinality(S) <= resets + Above(p) /\ warned[p] \in Nat /\ resets \in Nat
  BY DEF S, WarningsLeft, LogTyped, UsageTyped
<1>6. warned[p] + Cardinality(T) <= resets + Above(p)'
  BY <1>3, <1>4, <1>5
<1>7. QED
  BY <1>6 DEF T

(* Who warns crossed the threshold, which is crossed once between resets. *)
LEMMA WarningsStayLeft ==
  ASSUME LogTyped, WarningsLeft, [MeteringNext]_meteringVars
  PROVE  WarningsLeft'
<1> USE DEF LogTyped
<1>0. /\ usageRequest \in [Clients -> UsageRequest] /\ used \in [Periods -> 0..MaxInt]
      /\ warned \in [Periods -> Nat] /\ resets \in Nat /\ limit \in Nat
      /\ Threshold * limit \in Nat
      /\ \A p \in Periods : used[p] \in Nat
  <2>1. limit \in Nat /\ used \in [Periods -> 0..MaxInt]
    BY DEF UsageTyped
  <2>2. QED
    BY <2>1 DEF UsageTyped
<1>1. CASE UNCHANGED <<limit, used, usageRequest, warned, resets>>
  BY <1>1 DEF WarningsLeft, Crossing, Crosses, Above
<1>2. ASSUME NEW c \in Clients, Ask(c) \/ Enqueue(c) \/ UsageFails(c) \/ UsageDies(c)
      PROVE  WarningsLeft'
  <2>1. UNCHANGED <<limit, used, warned, resets>>
    BY <1>2 DEF Ask, Enqueue, UsageFails, UsageDies, counter
  <2>2. \A o \in Clients \ {c} : usageRequest'[o] = usageRequest[o]
    BY <1>0, <1>2, UsageEnds, UsageGoesOn DEF Ask, Enqueue, UsageFails, UsageDies
  <2>3. \/ usageRequest'[c].step \notin {"enqueue", "warn"}
        \/ /\ usageRequest[c].step = "enqueue"
           /\ usageRequest'[c].period = usageRequest[c].period
           /\ usageRequest'[c].used = usageRequest[c].used
           /\ usageRequest'[c].quantity = usageRequest[c].quantity
    <3>1. CASE Ask(c)
      BY <1>0, <3>1 DEF Ask
    <3>2. CASE usageRequest' = [usageRequest EXCEPT ![c] = NoOne]
      BY <1>0, <3>2, UsageEnds
    <3>3. CASE usageRequest[c].step = "enqueue" /\ usageRequest' = [usageRequest EXCEPT ![c].step = "warn"]
      BY <1>0, <3>3, UsageGoesOn
    <3>4. QED
      BY <1>2, <3>1, <3>2, <3>3 DEF Enqueue, UsageFails, UsageDies
  <2>4. \A p \in Periods : Crossing(p)' \subseteq Crossing(p)
    BY <2>1, <2>2, <2>3 DEF Crossing, Crosses
  <2>5. QED
    BY <1>0, <2>1, <2>4, WarningsStay
<1>3. ASSUME NEW c \in Clients, Count(c) PROVE WarningsLeft'
  <2> DEFINE r == usageRequest[c]
             q == r.period
  <2>1. UNCHANGED <<limit, warned, resets>> /\ r.step = "count"
    BY <1>3 DEF Count
  <2>2. q \in Periods /\ r.quantity \in Nat /\ used[q] \in Nat
    BY <1>0 DEF UsageRequest
  <2>3. CASE usageRequest' = [usageRequest EXCEPT ![c] = NoOne] /\ UNCHANGED counter
    <3>1. /\ usageRequest'[c].step = "idle" /\ used' = used
          /\ \A o \in Clients \ {c} : usageRequest'[o] = usageRequest[o]
      BY <1>0, <2>3, UsageEnds DEF counter
    <3>2. \A p \in Periods : Crossing(p)' \subseteq Crossing(p)
      BY <2>1, <3>1 DEF Crossing, Crosses
    <3>3. QED
      BY <1>0, <2>1, <3>1, <3>2, WarningsStay
  <2>4. CASE ~ (usageRequest' = [usageRequest EXCEPT ![c] = NoOne] /\ UNCHANGED counter)
    <3>1. /\ used[q] + r.quantity \in 0..MaxInt
          /\ used' = [used EXCEPT ![q] = @ + r.quantity]
      BY <1>3, <2>4, UsageCounted
    <3>2. PICK step \in {"enqueue", "warn"} : usageRequest' = [usageRequest EXCEPT ![c] =
            [r EXCEPT !.step = step, !.used = used'[q]]]
      BY <1>3, <2>4, UsageCounted
    <3>3. /\ used'[q] = used[q] + r.quantity /\ used'[q] \in 0..MaxInt
          /\ \A p \in Periods : p # q => used'[p] = used[p]
      BY <1>0, <2>2, <3>1
    <3>4. /\ usageRequest'[c].step \in {"enqueue", "warn"} /\ usageRequest'[c].used = used'[q]
          /\ usageRequest'[c].period = q /\ usageRequest'[c].quantity = r.quantity
          /\ \A o \in Clients \ {c} : usageRequest'[o] = usageRequest[o]
      BY <3>2, <3>3, CountedTyped
    <3> SUFFICES ASSUME NEW p \in Periods
                 PROVE  (warned[p] + Cardinality(Crossing(p)) <= resets + Above(p))'
      BY DEF WarningsLeft
    <3> DEFINE S == Crossing(p)
               T == Crossing(p)'
    <3>5. S \in SUBSET Clients /\ T \in SUBSET Clients
      BY DEF Crossing
    <3>6. /\ \A o \in T : o # c => o \in S
          /\ c \in T => p = q /\ Crosses(used'[q], r.quantity)
      <4>1. ASSUME NEW o \in T, o # c PROVE o \in S
        BY <2>1, <3>4, <4>1 DEF Crossing, Crosses
      <4>2. c \in T => p = q /\ Crosses(used'[q], r.quantity)
        BY <2>1, <3>4 DEF Crossing, Crosses
      <4> HIDE DEF S, T, q
      <4>3. QED
        BY <4>1, <4>2
    <3>7. warned[p] + Cardinality(S) <= resets + Above(p)
      BY DEF WarningsLeft
    <3> HIDE DEF S, T, q
    <3>8. /\ Cardinality(S) \in Nat /\ Cardinality(T) \in Nat
          /\ T \subseteq S => Cardinality(T) <= Cardinality(S)
          /\ T \subseteq S \cup {c} => Cardinality(T) <= Cardinality(S) + 1
      BY <3>5, ClientsCounted
    <3>9. /\ Above(p) \in Nat /\ Above(p)' \in Nat /\ Above(p) <= Above(p)'
          /\ p = q /\ Crosses(used'[q], r.quantity) => Above(p) = 0 /\ Above(p)' = 1
      <4> DEFINE edge == Threshold * limit
      <4>1. edge \in Nat /\ (Threshold * limit)' = edge
        BY <1>0, <2>1
      <4>2. used[p] \in Nat /\ used'[p] \in Nat /\ used[p] <= used'[p]
        BY <1>0, <2>2, <3>3 DEF q
      <4>3. /\ Above(p) = IF limit > 0 /\ used[p] * 100 >= edge THEN 1 ELSE 0
            /\ Above(p)' = IF limit > 0 /\ used'[p] * 100 >= edge THEN 1 ELSE 0
        BY <2>1, <4>1 DEF Above
      <4>4. Crosses(used'[q], r.quantity) =>
              limit > 0 /\ used'[q] * 100 >= edge /\ used[q] * 100 < edge
        <5>1. Crosses(used'[q], r.quantity) =>
                limit > 0 /\ used'[q] * 100 >= edge /\ (used'[q] - r.quantity) * 100 < edge
          BY <2>1, <4>1, <3>4 DEF Crosses
        <5>2. used'[q] - r.quantity = used[q]
          <6> HIDE DEF r
          <6>1. QED
            BY <2>2, <3>3
        <5>3. QED
          BY <5>1, <5>2
      <4> HIDE DEF edge
      <4>5. QED
        BY <4>1, <4>2, <4>3, <4>4
    <3>10. warned[p] \in Nat /\ resets \in Nat
      BY <1>0
    <3>11. warned[p] + Cardinality(T) <= resets + Above(p)'
      <4>1. CASE c \in T
        <5>1. T \subseteq S \cup {c}
          BY <3>6
        <5>2. Above(p) = 0 /\ Above(p)' = 1
          BY <3>6, <3>9, <4>1
        <5>3. QED
          BY <3>7, <3>8, <3>10, <5>1, <5>2
      <4>2. CASE c \notin T
        <5>1. T \subseteq S
          BY <3>6, <4>2
        <5>2. QED
          BY <3>7, <3>8, <3>9, <3>10, <5>1
      <4>3. QED
        BY <4>1, <4>2
    <3>12. QED
      BY <2>1, <3>11 DEF T
  <2>5. QED
    BY <2>3, <2>4
<1>4. ASSUME NEW c \in Clients, Warn(c) PROVE WarningsLeft'
  <2> DEFINE r == usageRequest[c]
  <2>1. /\ UNCHANGED <<limit, used, resets>> /\ r.step = "warn"
        /\ usageRequest' = [usageRequest EXCEPT ![c] = NoOne]
    BY <1>4 DEF Warn, counter
  <2>2. usageRequest'[c].step = "idle" /\ \A o \in Clients \ {c} : usageRequest'[o] = usageRequest[o]
    BY <1>0, <2>1, UsageEnds
  <2>3. CASE ~ Crosses(r.used, r.quantity)
    <3>1. warned' = warned
      BY <1>4, <2>3 DEF Warn
    <3>2. \A p \in Periods : Crossing(p)' \subseteq Crossing(p)
      BY <2>1, <2>2 DEF Crossing, Crosses
    <3>3. QED
      BY <1>0, <2>1, <3>1, <3>2, WarningsStay
  <2>4. CASE Crosses(r.used, r.quantity)
    <3>1. r.period \in Periods
      BY <1>0 DEF UsageRequest
    <3>2. warned' = [warned EXCEPT ![r.period] = @ + 1]
      BY <1>4, <2>4 DEF Warn
    <3> SUFFICES ASSUME NEW p \in Periods
                 PROVE  (warned[p] + Cardinality(Crossing(p)) <= resets + Above(p))'
      BY DEF WarningsLeft
    <3> DEFINE S == Crossing(p)
               T == Crossing(p)'
    <3>3. S \in SUBSET Clients /\ T \in SUBSET Clients
      BY DEF Crossing
    <3>4. T \subseteq S /\ (r.period = p => c \in S /\ T \subseteq S \ {c})
      BY <2>1, <2>2, <2>4 DEF Crossing, Crosses
    <3>5. warned[p] + Cardinality(S) <= resets + Above(p)
      BY DEF WarningsLeft
    <3> HIDE DEF S, T
    <3>6. /\ Cardinality(S) \in Nat /\ Cardinality(T) \in Nat /\ Cardinality(T) <= Cardinality(S)
          /\ r.period = p => Cardinality(T) <= Cardinality(S) - 1
      BY <3>3, <3>4, ClientsCounted
    <3>7. Above(p) \in Nat /\ Above(p)' = Above(p)
      BY <2>1 DEF Above
    <3>8. warned'[p] = IF p = r.period THEN warned[p] + 1 ELSE warned[p]
      BY <1>0, <3>1, <3>2
    <3>9. warned'[p] + Cardinality(T) <= resets + Above(p)'
      BY <1>0, <3>5, <3>6, <3>7, <3>8
    <3>10. QED
      BY <2>1, <3>9 DEF T
  <2>5. QED
    BY <2>3, <2>4
<1>5. CASE Reset
  <2>1. UNCHANGED <<limit, usageRequest, warned>> /\ resets' = resets + 1
    BY <1>5 DEF Reset
  <2> SUFFICES ASSUME NEW p \in Periods
               PROVE  (warned[p] + Cardinality(Crossing(p)) <= resets + Above(p))'
    BY DEF WarningsLeft
  <2> DEFINE S == Crossing(p)
  <2>2. S \in SUBSET Clients /\ Crossing(p)' = S
    BY <2>1 DEF Crossing, Crosses
  <2>3. warned[p] + Cardinality(S) <= resets + Above(p)
    BY DEF WarningsLeft
  <2> HIDE DEF S
  <2>4. Cardinality(S) \in Nat
    BY <2>2, ClientsCounted
  <2>5. Above(p) \in {0, 1} /\ Above(p)' \in {0, 1}
    BY DEF Above
  <2>6. warned[p] + Cardinality(S) <= resets' + Above(p)'
    BY <1>0, <2>1, <2>3, <2>4, <2>5
  <2>7. QED
    BY <2>1, <2>2, <2>6
<1>6. QED
  <2>1. ASSUME NEW d \in Drainers, List(d) \/ Sync(d) \/ DrainFails(d) \/ DrainDies(d)
        PROVE  UNCHANGED <<limit, used, usageRequest, warned, resets>>
    BY <2>1 DEF List, Sync, Take, Push, Mark, RecordFailure, DrainFails, DrainDies, counter
  <2>2. ASSUME Reconfigure \/ NextPeriod \/ Forget \/ UNCHANGED meteringVars
        PROVE  UNCHANGED <<limit, used, usageRequest, warned, resets>>
    BY <2>2 DEF Reconfigure, NextPeriod, Forget, meteringVars, counter
  <2>3. QED
    BY <1>1, <1>2, <1>3, <1>4, <1>5, <2>1, <2>2 DEF MeteringNext, ServeUsage

-----------------------------------------------------------------------------
LogInv ==
  /\ LogTyped /\ QuotaKept /\ WarningsLeft
  /\ BilledInTime /\ MarkedIsBilled /\ AttemptsLeft

(* The queue is empty at the beginning. *)
LEMMA LogBegins ==
  ASSUME MeteringInit
  PROVE  LogInv
<1> USE DEF MeteringInit
<1>1. \A c \in Clients : usageRequest[c] \in UsageRequest /\ usageRequest[c].step = "idle"
  BY NoOneTyped
<1>2. /\ \A d \in Drainers : drain[d] \in Draining /\ drain[d].step = "idle" /\ drain[d].list = {}
      /\ rows = <<>> /\ Len(rows) = 0 /\ rows \in Seq(Row)
  BY DEF Resting, Draining
<1>3. UsageTyped
  <2>1. usageRequest \in [Clients -> UsageRequest]
    BY NoOneTyped
  <2>2. used \in [Periods -> 0..MaxInt] /\ warned \in [Periods -> Nat]
    OBVIOUS
  <2>3. QED
    BY <2>1, <2>2 DEF UsageTyped
<1>4. QueueTyped
  <2>1. Inserting = {}
    BY <1>1 DEF Inserting
  <2>2. Cardinality(Inserting) = 0
    BY <2>1, FS_EmptySet
  <2>3. drain \in [Drainers -> Draining]
    BY <1>2
  <2>4. QED
    BY <1>2, <2>2, <2>3 DEF QueueTyped
<1>5. QuotaKept /\ BilledInTime
  BY <1>3 DEF QuotaKept, BilledInTime, UsageTyped
<1>6. WarningsLeft
  <2> SUFFICES ASSUME NEW p \in Periods
               PROVE  warned[p] + Cardinality(Crossing(p)) <= resets + Above(p)
    BY DEF WarningsLeft
  <2>1. Crossing(p) = {}
    BY <1>1 DEF Crossing
  <2>2. Cardinality(Crossing(p)) = 0
    BY <2>1, FS_EmptySet
  <2>3. QED
    BY <2>2 DEF Above
<1>7. MarkedIsBilled
  BY <1>2 DEF MarkedIsBilled, SyncedIsBilled, DrainersKnow
<1>8. AttemptsLeft
  BY <1>2 DEF AttemptsLeft
<1>9. QED
  BY <1>3, <1>4, <1>5, <1>6, <1>7, <1>8 DEF LogInv, LogTyped

(* The invariant of usage and its billing is inductive. *)
LEMMA LogStays ==
  ASSUME LogInv, [MeteringNext]_meteringVars
  PROVE  LogInv'
<1>1. LogTyped'
  BY UsageStaysTyped, QueueStaysTyped DEF LogInv, LogTyped
<1>2. QED
  BY <1>1, QuotaStaysKept, WarningsStayLeft, BilledStaysInTime, MarkedStaysBilled, AttemptsStayLeft
     DEF LogInv

(* However usage requests, resets and changes of the plan overlap, the     *)
(* counter stays within the quota and within its width, and a period is    *)
(* warned about once, and once more for each reset (usage.go:49-52,        *)
(* service/usage.go:138-139).                                              *)
THEOREM QuotaIsKept == MeteringSpec => [](MeteringTypeOK /\ QuotaKept /\ WarnedOnce)
<1>1. MeteringInit => LogInv
  BY LogBegins
<1>2. LogInv /\ [MeteringNext]_meteringVars => LogInv'
  BY LogStays
<1>3. LogInv => MeteringTypeOK /\ QuotaKept /\ WarnedOnce
  <2> SUFFICES ASSUME LogInv PROVE MeteringTypeOK /\ WarnedOnce
    BY DEF LogInv
  <2>1. MeteringTypeOK
    BY RowsHaveIds DEF LogInv, LogTyped, UsageTyped, QueueTyped, MeteringTypeOK
  <2>2. ASSUME NEW p \in Periods PROVE warned[p] <= 1 + resets
    <3>1. Crossing(p) \in SUBSET Clients
      BY DEF Crossing
    <3>2. Cardinality(Crossing(p)) \in Nat
      BY <3>1, ClientsCounted
    <3>3. warned[p] + Cardinality(Crossing(p)) <= resets + Above(p) /\ Above(p) \in {0, 1}
      BY DEF LogInv, WarningsLeft, Above
    <3>4. warned[p] \in Nat /\ resets \in Nat
      BY DEF LogInv, LogTyped, UsageTyped
    <3>5. QED
      BY <3>2, <3>3, <3>4
  <2>3. QED
    BY <2>1, <2>2 DEF WarnedOnce
<1>4. QED
  BY <1>1, <1>2, <1>3, PTL DEF MeteringSpec

(* However drains overlap, fail between two statements and die, a row is   *)
(* billed once, and once more each time Stripe forgets; a row that left    *)
(* the queue was billed, unless the meter was taken off the entitlement;   *)
(* and a row is not tried for ever (metered_sync.go:21-24, 116-121,        *)
(* 182-191).                                                               *)
THEOREM UsageIsBilledOnce ==
  MeteringSpec => [](BilledOnce /\ SyncedIsBilled /\ AttemptsBounded)
<1>1. MeteringInit => LogInv
  BY LogBegins
<1>2. LogInv /\ [MeteringNext]_meteringVars => LogInv'
  BY LogStays
<1>3. LogInv => BilledOnce /\ SyncedIsBilled /\ AttemptsBounded
  <2> SUFFICES ASSUME LogInv PROVE BilledOnce /\ AttemptsBounded
    BY DEF LogInv, MarkedIsBilled
  <2>1. BilledOnce
    <3>1. billed \in [Ids -> Nat] /\ forgets \in Nat
      BY DEF LogInv, LogTyped, UsageTyped, QueueTyped
    <3>2. QED
      BY <3>1 DEF LogInv, BilledInTime, BilledOnce
  <2>2. ASSUME NEW i \in 1..Len(rows)
        PROVE  rows[i].attempts < MaxAttempts + Cardinality(Drainers)
    <3>1. rows[i] \in Row
      BY DEF LogInv, LogTyped, QueueTyped
    <3>2. rows[i].attempts \in Nat
      BY <3>1 DEF Row
    <3>3. Listing(i) \in SUBSET Drainers
      BY DEF Listing
    <3>4. Cardinality(Listing(i)) \in Nat /\ Cardinality(Drainers) \in Nat
      BY <3>3, DrainersCounted
    <3>5. QED
      BY <3>2, <3>4 DEF LogInv, AttemptsLeft
  <2>3. QED
    BY <2>1, <2>2 DEF AttemptsBounded
<1>4. QED
  BY <1>1, <1>2, <1>3, PTL DEF MeteringSpec

HIDE MeteringConstantsOK DEF MeteringConstantsOK

-----------------------------------------------------------------------------
(*****************************************************************************)
(* The bill.  Sums of sequences of numbers come first: what is proved about  *)
(* them takes the least index at which it would fail.                        *)
(*****************************************************************************)
(* The partial sums of a sequence of numbers. *)
Sums(f, s) ==
  /\ f \in [0..Len(s) -> Nat] /\ f[0] = 0
  /\ \A n \in 1..Len(s) : f[n] = f[n - 1] + s[n]

(* A sequence has partial sums, and the last of them is its total. *)
LEMMA TotalSums ==
  ASSUME NEW s \in Seq(Nat)
  PROVE  \E f : Sums(f, s) /\ Total(s) = f[Len(s)]
<1> DEFINE N == Len(s)
           Part(f, m) == f \in [0..m -> Nat] /\ f[0] = 0 /\ \A n \in 1..m : f[n] = f[n - 1] + s[n]
           Without == {m \in 0..N : ~ \E f : Part(f, m)}
<1>0. N \in Nat /\ s \in [1..N -> Nat]
  OBVIOUS
<1> HIDE DEF N
<1>1. Without = {}
  <2> SUFFICES ASSUME Without # {} PROVE FALSE
    OBVIOUS
  <2>1. Without \in SUBSET Nat
    BY <1>0
  <2>2. PICK m \in Without : \A k \in Without : m <= k
    BY <2>1, LeastExists
  <2>3. m # 0
    <3>1. Part([n \in 0..0 |-> 0], 0)
      OBVIOUS
    <3>2. QED
      BY <3>1
  <2>4. m \in 1..N /\ m - 1 \in 0..N
    BY <1>0, <2>2, <2>3
  <2>5. PICK f : Part(f, m - 1)
    <3> SUFFICES ASSUME ~ \E f : Part(f, m - 1) PROVE FALSE
      OBVIOUS
    <3>1. m - 1 \in Without
      BY <2>4
    <3> HIDE DEF Without
    <3>2. QED
      BY <2>2, <2>4, <3>1
  <2> DEFINE g == [n \in 0..m |-> IF n = m THEN f[m - 1] + s[m] ELSE f[n]]
  <2>6. Part(g, m)
    <3>1. g \in [0..m -> Nat] /\ g[0] = 0
      BY <1>0, <2>4, <2>5
    <3>2. ASSUME NEW n \in 1..m PROVE g[n] = g[n - 1] + s[n]
      <4>1. n - 1 \in 0..m /\ n - 1 # m /\ n \in 0..m
        BY <2>4
      <4>2. g[n - 1] = f[n - 1]
        BY <4>1
      <4>3. CASE n = m
        BY <4>1, <4>2, <4>3
      <4>4. CASE n # m
        <5>1. n \in 1..(m - 1)
          BY <2>4, <4>4
        <5>2. g[n] = f[n] /\ f[n] = f[n - 1] + s[n]
          BY <2>5, <4>1, <4>4, <5>1
        <5>3. QED
          BY <4>2, <5>2
      <4>5. QED
        BY <4>3, <4>4
    <3>3. QED
      BY <3>1, <3>2
  <2>7. QED
    BY <2>2, <2>6
<1>2. PICK f : Part(f, N)
  <2> SUFFICES ASSUME ~ \E f : Part(f, N) PROVE FALSE
    OBVIOUS
  <2>1. N \in 0..N
    BY <1>0
  <2>2. N \in Without
    BY <2>1
  <2>3. QED
    BY <1>1, <2>2
<1> DEFINE u == CHOOSE u : u = [n \in 0..N |-> IF n = 0 THEN 0 ELSE u[n - 1] + s[n]]
<1>3. f = [n \in 0..N |-> IF n = 0 THEN 0 ELSE f[n - 1] + s[n]]
  BY <1>0, <1>2
<1>4. u = [n \in 0..N |-> IF n = 0 THEN 0 ELSE u[n - 1] + s[n]]
  BY <1>3
<1>5. Total(s) = u[N]
  BY DEF Total, N
<1> HIDE DEF u
<1>6. \A n \in 0..N : u[n] = f[n]
  <2> DEFINE Off == {n \in 0..N : u[n] # f[n]}
  <2> SUFFICES ASSUME Off # {} PROVE FALSE
    OBVIOUS
  <2>1. Off \in SUBSET Nat
    BY <1>0
  <2>2. PICK m \in Off : \A k \in Off : m <= k
    BY <2>1, LeastExists
  <2>3. m # 0
    BY <1>2, <1>4, <1>0
  <2>4. m - 1 \in 0..N /\ m - 1 \notin Off /\ m \in 1..N
    BY <1>0, <2>2, <2>3
  <2>5. u[m] = u[m - 1] + s[m] /\ f[m] = f[m - 1] + s[m]
    BY <1>2, <1>4, <2>4
  <2>6. QED
    BY <2>2, <2>4, <2>5
<1>7. QED
  BY <1>0, <1>2, <1>5, <1>6 DEF Sums, N

(* What holds of all partial sums ... by comparing two sequences *)
LEMMA SumsCompared ==
  ASSUME NEW s \in Seq(Nat), NEW t \in Seq(Nat), Len(s) <= Len(t),
         \A n \in 1..Len(s) : s[n] <= t[n],
         NEW f, NEW g, Sums(f, s), Sums(g, t)
  PROVE  \A n \in 0..Len(s) : f[n] <= g[n]
<1> DEFINE Off == {n \in 0..Len(s) : ~ (f[n] <= g[n])}
<1> SUFFICES ASSUME Off # {} PROVE FALSE
  OBVIOUS
<1>1. Off \in SUBSET Nat
  OBVIOUS
<1>2. PICK m \in Off : \A k \in Off : m <= k
  BY <1>1, LeastExists
<1>3. m # 0
  BY DEF Sums
<1>4. m - 1 \in 0..Len(s) /\ m - 1 \notin Off /\ m \in 1..Len(s) /\ m \in 1..Len(t)
  BY <1>2, <1>3
<1>5. f[m] = f[m - 1] + s[m] /\ g[m] = g[m - 1] + t[m] /\ s[m] <= t[m] /\ f[m - 1] <= g[m - 1]
  BY <1>4 DEF Sums
<1>6. s[m] \in Nat /\ t[m] \in Nat
  BY <1>4
<1>7. f[m - 1] \in Nat /\ g[m - 1] \in Nat
  <2>1. m - 1 \in 0..Len(s) /\ m - 1 \in 0..Len(t)
    BY <1>4
  <2>2. QED
    BY <2>1 DEF Sums
<1> HIDE DEF Off
<1>8. f[m] <= g[m]
  <2>1. \A a, b, x, y \in Nat : a <= b /\ x <= y => a + x <= b + y
    OBVIOUS
  <2>2. QED
    BY <1>5, <1>6, <1>7, <2>1
<1>9. QED
  BY <1>2, <1>8 DEF Off

(* Where a sequence is at most another, its total is at most the other's. *)
LEMMA TotalMonotone ==
  ASSUME NEW s \in Seq(Nat), NEW t \in Seq(Nat), Len(s) = Len(t),
         \A n \in 1..Len(s) : s[n] <= t[n]
  PROVE  Total(s) \in Nat /\ Total(s) <= Total(t)
<1>1. PICK f : Sums(f, s) /\ Total(s) = f[Len(s)]
  BY TotalSums
<1>2. PICK g : Sums(g, t) /\ Total(t) = g[Len(t)]
  BY TotalSums
<1>3. \A n \in 0..Len(s) : f[n] <= g[n]
  <2>1. Len(s) <= Len(t)
    OBVIOUS
  <2>2. QED
    BY <1>1, <1>2, <2>1, SumsCompared
<1>4. Len(s) \in 0..Len(s)
  OBVIOUS
<1>5. QED
  BY <1>1, <1>2, <1>3, <1>4 DEF Sums

(* One number more. *)
LEMMA TotalAppends ==
  ASSUME NEW s \in Seq(Nat), NEW t \in Seq(Nat), Len(t) = Len(s) + 1,
         \A n \in 1..Len(s) : t[n] = s[n]
  PROVE  Total(t) = Total(s) + t[Len(s) + 1]
<1>1. PICK f : Sums(f, s) /\ Total(s) = f[Len(s)]
  BY TotalSums
<1>2. PICK g : Sums(g, t) /\ Total(t) = g[Len(t)]
  BY TotalSums
<1> DEFINE h == [n \in 0..Len(s) |-> g[n]]
<1>3. h \in [0..Len(s) -> Nat]
  BY <1>2 DEF Sums
<1>4. Sums(h, s)
  <2>1. h[0] = 0
    BY <1>2 DEF Sums
  <2>2. ASSUME NEW n \in 1..Len(s) PROVE h[n] = h[n - 1] + s[n]
    <3>1. n \in 1..Len(t) /\ n - 1 \in 0..Len(s) /\ n \in 0..Len(s)
      OBVIOUS
    <3>2. g[n] = g[n - 1] + t[n]
      BY <1>2, <3>1 DEF Sums
    <3>3. QED
      BY <3>1, <3>2
  <2>3. QED
    BY <1>3, <2>1, <2>2 DEF Sums
<1>5. \A n \in 0..Len(s) : h[n] <= f[n] /\ f[n] <= h[n]
  <2>1. \A n \in 1..Len(s) : s[n] <= s[n]
    OBVIOUS
  <2> HIDE DEF h
  <2>2. QED
    BY <1>1, <1>4, <2>1, SumsCompared
<1>6. h[Len(s)] = f[Len(s)] /\ f[Len(s)] \in Nat
  <2>1. Len(s) \in 0..Len(s)
    OBVIOUS
  <2>2. f[Len(s)] \in Nat
    BY <1>1, <2>1 DEF Sums
  <2> HIDE DEF h
  <2>3. h[Len(s)] \in Nat
    BY <1>3, <2>1
  <2>4. QED
    BY <1>5, <2>1, <2>2, <2>3
<1>7. g[Len(t)] = g[Len(t) - 1] + t[Len(t)] /\ Len(t) - 1 = Len(s)
  BY <1>2 DEF Sums
<1>8. QED
  BY <1>1, <1>2, <1>6, <1>7

(* One number changed: the total changes by as much. *)
LEMMA TotalMoves ==
  ASSUME NEW s \in Seq(Nat), NEW t \in Seq(Nat), Len(t) = Len(s), NEW i \in 1..Len(s),
         \A n \in 1..Len(s) : n # i => t[n] = s[n],
         NEW d \in Int, t[i] = s[i] + d
  PROVE  Total(t) = Total(s) + d
<1>1. PICK f : Sums(f, s) /\ Total(s) = f[Len(s)]
  BY TotalSums
<1>2. PICK g : Sums(g, t) /\ Total(t) = g[Len(t)]
  BY TotalSums
<1> DEFINE Moved(n) == IF n < i THEN g[n] = f[n] ELSE g[n] = f[n] + d
           Off == {n \in 0..Len(s) : ~ Moved(n)}
<1>3. Off = {}
  <2> SUFFICES ASSUME Off # {} PROVE FALSE
    OBVIOUS
  <2>1. Off \in SUBSET Nat
    OBVIOUS
  <2>2. PICK m \in Off : \A k \in Off : m <= k
    BY <2>1, LeastExists
  <2>3. m # 0
    BY <1>1, <1>2 DEF Sums
  <2>4. /\ m - 1 \in 0..Len(s) /\ m - 1 \notin Off /\ m \in Int
        /\ m \in 1..Len(s) /\ m \in 1..Len(t)
    BY <2>2, <2>3
  <2>5. f[m] = f[m - 1] + s[m] /\ g[m] = g[m - 1] + t[m] /\ (m # i => s[m] = t[m])
    BY <1>1, <1>2, <2>4 DEF Sums
  <2>6. s[m] \in Nat /\ t[m] \in Nat
    <3> HIDE DEF Off
    <3>1. QED
      BY <2>4
  <2>7. f[m - 1] \in Nat /\ g[m - 1] \in Nat
    <3>1. m - 1 \in 0..Len(t)
      BY <2>4
    <3>2. QED
      BY <1>1, <1>2, <2>4, <3>1 DEF Sums
  <2>8. Moved(m - 1)
    BY <2>4
  <2>9. Moved(m)
    <3> HIDE DEF Off
    <3>1. CASE m < i
      BY <2>4, <2>5, <2>6, <2>7, <2>8, <3>1
    <3>2. CASE m = i
      <4>1. g[m - 1] = f[m - 1] /\ t[m] = s[m] + d
        BY <2>4, <2>8, <3>2
      <4>2. g[m] = f[m] + d
        BY <2>5, <2>6, <2>7, <4>1
      <4>3. QED
        BY <3>2, <4>2
    <3>3. CASE m > i
      <4>1. g[m - 1] = f[m - 1] + d /\ t[m] = s[m]
        BY <2>4, <2>5, <2>8, <3>3
      <4>2. g[m] = f[m] + d
        BY <2>5, <2>6, <2>7, <4>1
      <4>3. QED
        BY <2>4, <3>3, <4>2
    <3>4. QED
      BY <2>4, <3>1, <3>2, <3>3
  <2>10. QED
    BY <2>2, <2>9
<1>4. Moved(Len(s))
  BY <1>3
<1>5. QED
  BY <1>1, <1>2, <1>4

-----------------------------------------------------------------------------
(* Nothing adds up to nothing. *)
LEMMA TotalOfNone ==
  ASSUME NEW s \in Seq(Nat), \A n \in 1..Len(s) : s[n] = 0
  PROVE  Total(s) = 0
<1>1. PICK f : Sums(f, s) /\ Total(s) = f[Len(s)]
  BY TotalSums
<1> DEFINE g == [n \in 0..Len(s) |-> 0]
<1>2. Sums(g, s)
  <2>1. g \in [0..Len(s) -> Nat] /\ g[0] = 0
    OBVIOUS
  <2>2. ASSUME NEW n \in 1..Len(s) PROVE g[n] = g[n - 1] + s[n]
    <3>1. n \in 0..Len(s) /\ n - 1 \in 0..Len(s)
      OBVIOUS
    <3>2. QED
      BY <3>1
  <2>3. QED
    BY <2>1, <2>2 DEF Sums
<1>3. \A n \in 1..Len(s) : s[n] <= s[n]
  OBVIOUS
<1>4. \A n \in 0..Len(s) : f[n] <= g[n]
  BY <1>1, <1>2, <1>3, SumsCompared
<1>5. Len(s) \in 0..Len(s) /\ f[Len(s)] <= 0
  BY <1>4
<1>6. f[Len(s)] \in Nat
  BY <1>1, <1>5 DEF Sums
<1>7. QED
  BY <1>1, <1>5, <1>6

(* A function on 1..n is a sequence. *)
LEMMA NumbersListed ==
  ASSUME NEW n \in Nat, NEW s \in [1..n -> Nat]
  PROVE  s \in Seq(Nat) /\ Len(s) = n
OBVIOUS

-----------------------------------------------------------------------------
(* The clients, one after the other. *)
Roll == CHOOSE s \in Seq(Clients) :
          \A c \in Clients : \E k \in 1..Len(s) : /\ s[k] = c
                                                  /\ \A l \in 1..Len(s) : s[l] = c => l = k

(* Every client is called once. *)
LEMMA RollCalls ==
  /\ Roll \in Seq(Clients)
  /\ \A c \in Clients : \E k \in 1..Len(Roll) : /\ Roll[k] = c
                                                /\ \A l \in 1..Len(Roll) : Roll[l] = c => l = k
<1>1. IsFiniteSet(Clients)
  BY MeteringConstantsOK DEF MeteringConstantsOK
<1>2. PICK n \in Nat : ExistsBijection(1..n, Clients)
  BY <1>1, FS_NatBijection
<1>3. PICK s \in Bijection(1..n, Clients) : TRUE
  BY <1>2 DEF ExistsBijection
<1>4. s \in [1..n -> Clients] /\ s \in Seq(Clients) /\ Len(s) = n
  BY <1>3 DEF Bijection, Injection
<1>5. ASSUME NEW c \in Clients
      PROVE  \E k \in 1..Len(s) : s[k] = c /\ \A l \in 1..Len(s) : s[l] = c => l = k
  <2>1. PICK k \in 1..n : s[k] = c
    BY <1>3 DEF Bijection, Surjection
  <2>2. \A l \in 1..n : s[l] = c => l = k
    BY <1>3, <2>1 DEF Bijection, Injection, IsInjective
  <2>3. QED
    BY <1>4, <2>1, <2>2
<1>6. QED
  BY <1>4, <1>5 DEF Roll

(* What a client has counted and is about to log. *)
ToLog(c) == IF usageRequest[c].step = "enqueue" THEN usageRequest[c].quantity ELSE 0
AllToLog == [k \in 1..Len(Roll) |-> ToLog(Roll[k])]
Logged   == [i \in 1..Len(rows) |-> rows[i].quantity]
OnRows   == [i \in 1..Len(rows) |-> rows[i].quantity * billed[i]]

(* What is in the log or on its way there was counted before; only what is *)
(* in the log is billed; and quantities are within their width.            *)
Ledger ==
  /\ \A c \in Clients :
       /\ usageRequest[c].step = "count" => usageRequest[c].quantity > 0
       /\ usageRequest[c].step \in {"enqueue", "warn"} => usageRequest[c].quantity \in 1..MaxInt
  /\ \A i \in 1..Len(rows) : rows[i].quantity \in 1..MaxInt
  /\ \A i \in Ids : i > Len(rows) => billed[i] = 0
  /\ Total(Logged) + Total(AllToLog) <= accepted
  /\ forgets <= MaxForgets

(* The three lists are lists of numbers. *)
LEMMA ListsTyped ==
  LogTyped => /\ AllToLog \in Seq(Nat) /\ Len(AllToLog) = Len(Roll)
              /\ Logged \in Seq(Nat) /\ Len(Logged) = Len(rows)
              /\ OnRows \in Seq(Nat) /\ Len(OnRows) = Len(rows)
<1> SUFFICES ASSUME LogTyped
             PROVE  /\ AllToLog \in Seq(Nat) /\ Len(AllToLog) = Len(Roll)
                    /\ Logged \in Seq(Nat) /\ Len(Logged) = Len(rows)
                    /\ OnRows \in Seq(Nat) /\ Len(OnRows) = Len(rows)
  OBVIOUS
<1>1. Len(rows) \in Nat /\ Len(Roll) \in Nat
  BY RollCalls DEF LogTyped, QueueTyped
<1>2. \A c \in Clients : ToLog(c) \in Nat
  BY DEF LogTyped, UsageTyped, UsageRequest, ToLog
<1>3. AllToLog \in [1..Len(Roll) -> Nat]
  <2>1. \A k \in 1..Len(Roll) : Roll[k] \in Clients
    BY RollCalls
  <2>2. QED
    BY <1>2, <2>1 DEF AllToLog
<1>4. \A i \in 1..Len(rows) : rows[i].quantity \in Nat /\ billed[i] \in Nat
  <2>1. ASSUME NEW i \in 1..Len(rows) PROVE rows[i].quantity \in Nat /\ billed[i] \in Nat
    <3>1. rows[i] \in Row /\ i \in Ids
      BY RowsHaveIds DEF LogTyped, QueueTyped
    <3>2. QED
      BY <3>1 DEF Row, LogTyped, QueueTyped
  <2>2. QED
    BY <2>1
<1>5. Logged \in [1..Len(rows) -> Nat]
  BY <1>4 DEF Logged
<1>6. OnRows \in [1..Len(rows) -> Nat]
  <2>1. \A q, b \in Nat : q * b \in Nat
    OBVIOUS
  <2>2. \A i \in 1..Len(rows) : rows[i].quantity * billed[i] \in Nat
    BY <1>4, <2>1
  <2>3. QED
    BY <2>2 DEF OnRows
<1>7. QED
  BY <1>1, <1>3, <1>5, <1>6, NumbersListed

(* The totals are numbers. *)
LEMMA TotalTyped ==
  ASSUME NEW s \in Seq(Nat)
  PROVE  Total(s) \in Nat
<1>1. \A n \in 1..Len(s) : s[n] <= s[n]
  OBVIOUS
<1>2. QED
  BY <1>1, TotalMonotone

(* A step of one client changes what is to be logged by as much. *)
LEMMA ToLogMoves ==
  ASSUME LogTyped, LogTyped', NEW c \in Clients,
         \A o \in Clients \ {c} : usageRequest'[o] = usageRequest[o],
         NEW d \in Int, ToLog(c)' = ToLog(c) + d
  PROVE  Total(AllToLog)' = Total(AllToLog) + d
<1> DEFINE s == AllToLog
           t == AllToLog'
<1>1. s \in Seq(Nat) /\ Len(s) = Len(Roll)
  BY ListsTyped
<1>2. t \in Seq(Nat) /\ Len(t) = Len(Roll)
  <2>1. (AllToLog \in Seq(Nat) /\ Len(AllToLog) = Len(Roll))'
    BY ListsTyped, PTL
  <2>2. QED
    BY <2>1
<1>3. PICK k \in 1..Len(Roll) : Roll[k] = c /\ \A l \in 1..Len(Roll) : Roll[l] = c => l = k
  BY RollCalls
<1>4. \A n \in 1..Len(Roll) : s[n] = ToLog(Roll[n]) /\ t[n] = ToLog(Roll[n])'
  BY DEF AllToLog
<1>5. \A n \in 1..Len(Roll) : n # k => t[n] = s[n]
  <2>1. ASSUME NEW n \in 1..Len(Roll), n # k PROVE t[n] = s[n]
    <3>1. Roll[n] \in Clients \ {c}
      BY <1>3, <2>1, RollCalls
    <3>2. QED
      BY <1>4, <3>1 DEF ToLog
  <2>2. QED
    BY <2>1
<1>6. t[k] = s[k] + d
  BY <1>3, <1>4
<1> HIDE DEF s, t
<1>7. Total(t) = Total(s) + d
  <2>1. Len(t) = Len(s) /\ k \in 1..Len(s)
    BY <1>1, <1>2, <1>3
  <2>2. \A n \in 1..Len(s) : n # k => t[n] = s[n]
    BY <1>1, <1>5
  <2>3. QED
    BY <1>1, <1>2, <1>6, <2>1, <2>2, TotalMoves
<1>8. QED
  BY <1>7 DEF s, t

(* What a step of a request does to it, to the counters and to the log. *)
LEMMA UsageSteps ==
  ASSUME LogTyped, Ledger, NEW c \in Clients,
         Ask(c) \/ ServeUsage(c) \/ UsageFails(c) \/ UsageDies(c)
  PROVE  /\ \A o \in Clients \ {c} : usageRequest'[o] = usageRequest[o]
         /\ UNCHANGED <<billed, known, forgets>>
         /\ \/ /\ usageRequest'[c].step = "idle"
               /\ UNCHANGED <<accepted, rows>>
            \/ /\ usageRequest[c].step = "idle"
               /\ usageRequest'[c].step = "count" /\ usageRequest'[c].quantity > 0
               /\ UNCHANGED <<accepted, rows>>
            \/ /\ usageRequest[c].step = "count"
               /\ usageRequest'[c].step \in {"enqueue", "warn"}
               /\ usageRequest'[c].quantity = usageRequest[c].quantity
               /\ usageRequest[c].quantity \in 1..MaxInt
               /\ accepted' = accepted + usageRequest[c].quantity
               /\ UNCHANGED rows
            \/ /\ usageRequest[c].step = "enqueue" /\ usageRequest'[c].step = "warn"
               /\ usageRequest'[c].quantity = usageRequest[c].quantity
               /\ UNCHANGED accepted
               /\ (UNCHANGED rows) \/ Enqueue(c)
<1> USE DEF LogTyped
<1>0. usageRequest \in [Clients -> UsageRequest]
  BY DEF UsageTyped
<1>1. CASE Ask(c)
  <2>1. PICK q \in Asked : usageRequest' = [usageRequest EXCEPT ![c] =
          [step |-> "count", quantity |-> IF q <= 0 THEN 1 ELSE q,
           period |-> period, used |-> 0, metered |-> wired]]
    BY <1>1 DEF Ask
  <2>2. /\ usageRequest[c].step = "idle" /\ UNCHANGED <<rows, accepted, billed, known, forgets>>
    BY <1>1 DEF Ask, counter, stripe
  <2>3. /\ usageRequest'[c].step = "count"
        /\ usageRequest'[c].quantity = IF q <= 0 THEN 1 ELSE q
        /\ \A o \in Clients \ {c} : usageRequest'[o] = usageRequest[o]
    BY <1>0, <2>1
  <2>4. q \in Int
    BY MeteringConstantsOK DEF MeteringConstantsOK
  <2>5. (IF q <= 0 THEN 1 ELSE q) > 0
    BY <2>4
  <2>6. QED
    BY <2>2, <2>3, <2>5
<1>2. CASE Count(c)
  <2>1. /\ UNCHANGED <<rows, billed, known, forgets>> /\ usageRequest[c].step = "count"
    BY <1>2 DEF Count, stripe
  <2>2. CASE usageRequest' = [usageRequest EXCEPT ![c] = NoOne] /\ UNCHANGED counter
    BY <1>0, <2>1, <2>2, UsageEnds DEF counter
  <2>3. CASE ~ (usageRequest' = [usageRequest EXCEPT ![c] = NoOne] /\ UNCHANGED counter)
    <3> DEFINE r == usageRequest[c]
    <3>1. /\ used[r.period] + r.quantity \in 0..MaxInt
          /\ accepted' = accepted + r.quantity
      BY <1>2, <2>3, UsageCounted
    <3>2. PICK step \in {"enqueue", "warn"} : usageRequest' = [usageRequest EXCEPT ![c] =
            [r EXCEPT !.step = step, !.used = used'[r.period]]]
      BY <1>2, <2>3, UsageCounted
    <3>3. /\ r.period \in Periods /\ r.quantity \in Nat /\ r.quantity > 0 /\ used[r.period] \in 0..MaxInt
      BY <1>0, <2>1 DEF UsageTyped, UsageRequest, Ledger
    <3>4. used'[r.period] \in 0..MaxInt
      BY <1>2, <2>3, <3>1, <3>3, UsageCounted DEF UsageTyped
    <3>5. /\ usageRequest'[c].step = step
          /\ usageRequest'[c].quantity = r.quantity
          /\ \A o \in Clients \ {c} : usageRequest'[o] = usageRequest[o]
      BY <3>2, <3>4, CountedTyped
    <3>6. MaxInt \in Nat
      BY MeteringConstantsOK DEF MeteringConstantsOK
    <3>7. r.quantity \in 1..MaxInt
      BY <3>1, <3>3, <3>6
    <3>8. QED
      BY <2>1, <3>1, <3>5, <3>7
  <2>4. QED
    BY <2>2, <2>3
<1>3. CASE Enqueue(c) \/ (usageRequest[c].step = "enqueue" /\ UNCHANGED rows /\ UsageFails(c))
  <2>1. /\ usageRequest' = [usageRequest EXCEPT ![c].step = "warn"]
        /\ usageRequest[c].step = "enqueue" /\ UNCHANGED <<accepted, billed, known, forgets>>
        /\ UNCHANGED rows \/ Enqueue(c)
    BY <1>3 DEF Enqueue, UsageFails, counter, stripe
  <2>2. QED
    BY <1>0, <2>1, UsageGoesOn
<1>4. CASE \/ Warn(c) \/ UsageDies(c)
           \/ usageRequest[c].step # "enqueue" /\ UsageFails(c)
  <2>1. /\ usageRequest' = [usageRequest EXCEPT ![c] = NoOne]
        /\ UNCHANGED <<accepted, rows, billed, known, forgets>>
    BY <1>4 DEF Warn, UsageDies, UsageFails, counter, stripe
  <2>2. QED
    BY <1>0, <2>1, UsageEnds
<1>5. UsageFails(c) => UNCHANGED rows
  BY DEF UsageFails
<1>6. \/ Ask(c) \/ Count(c) \/ Warn(c) \/ UsageDies(c)
      \/ Enqueue(c) \/ (usageRequest[c].step = "enqueue" /\ UNCHANGED rows /\ UsageFails(c))
      \/ usageRequest[c].step # "enqueue" /\ UsageFails(c)
  BY <1>5 DEF ServeUsage
<1>7. QED
  BY <1>1, <1>2, <1>3, <1>4, <1>6

(* The last row of the log carries what its request has counted. *)
LEMMA LoggedGrows ==
  ASSUME LogTyped, LogTyped', NEW c \in Clients, Enqueue(c)
  PROVE  /\ Len(rows') = Len(rows) + 1
         /\ rows'[Len(rows) + 1].quantity = usageRequest[c].quantity
         /\ \A i \in 1..Len(rows) : rows'[i] = rows[i]
         /\ Total(Logged)' = Total(Logged) + usageRequest[c].quantity
<1> DEFINE s == Logged
           t == Logged'
<1>0. s \in Seq(Nat) /\ Len(s) = Len(rows)
  BY ListsTyped
<1>1. t \in Seq(Nat) /\ Len(t) = Len(rows')
  <2>1. (Logged \in Seq(Nat) /\ Len(Logged) = Len(rows))'
    BY ListsTyped, PTL
  <2>2. QED
    BY <2>1
<1>2. /\ Len(rows') = Len(rows) + 1 /\ Len(rows) \in Nat
      /\ \A i \in 1..Len(rows) : rows'[i] = rows[i]
  BY RowAppended DEF LogTyped, QueueTyped
<1>3. rows'[Len(rows) + 1].quantity = usageRequest[c].quantity
  <2> DEFINE row == [quantity |-> usageRequest[c].quantity, synced |-> FALSE, attempts |-> 0]
  <2>1. row.quantity = usageRequest[c].quantity
    OBVIOUS
  <2>2. rows' = Append(rows, row) /\ rows \in Seq(Row)
    BY DEF Enqueue, LogTyped, QueueTyped
  <2>3. row \in Row
    BY DEF LogTyped, UsageTyped, UsageRequest, Row
  <2> HIDE DEF row
  <2>4. rows'[Len(rows) + 1] = row
    BY <2>2, <2>3
  <2>5. QED
    BY <2>1, <2>4
<1>4. \A i \in 1..Len(rows) : t[i] = s[i]
  BY <1>2 DEF Logged
<1>5. t[Len(rows) + 1] = usageRequest[c].quantity
  <2>1. Len(rows) + 1 \in 1..Len(rows')
    BY <1>2
  <2>2. QED
    BY <1>3, <2>1 DEF Logged
<1> HIDE DEF s, t
<1>6. Total(t) = Total(s) + t[Len(rows) + 1]
  BY <1>0, <1>1, <1>2, <1>4, TotalAppends
<1>7. QED
  BY <1>2, <1>3, <1>5, <1>6 DEF s, t

(* A drain leaves the quantities of the log as they are. *)
LEMMA LoggedStays ==
  ASSUME LogTyped, NEW d \in Drainers, List(d) \/ Sync(d) \/ DrainFails(d) \/ DrainDies(d)
  PROVE  /\ Len(rows') = Len(rows) /\ \A i \in 1..Len(rows) : rows'[i].quantity = rows[i].quantity
         /\ Logged' = Logged
<1>1. Len(rows') = Len(rows) /\ \A i \in 1..Len(rows) : rows'[i].quantity = rows[i].quantity
  <2>1. CASE UNCHANGED rows
    BY <2>1
  <2>2. CASE Mark(d)
    <3>1. drain[d].step # "idle" /\ rows' = [rows EXCEPT ![Current(d)].synced = TRUE]
      BY <2>2 DEF Mark
    <3>2. Current(d) \in 1..Len(rows) /\ rows \in Seq(Row)
      BY <3>1, DrainHasRow DEF LogTyped, QueueTyped
    <3>3. \A row \in Row : [row EXCEPT !.synced = TRUE].quantity = row.quantity
      BY DEF Row
    <3>4. rows[Current(d)] \in Row
      BY <3>2
    <3>5. QED
      BY <3>1, <3>2, <3>3, <3>4
  <2>3. CASE RecordFailure(d)
    <3>1. drain[d].step # "idle" /\ rows' = [rows EXCEPT ![Current(d)].attempts = @ + 1]
      BY <2>3 DEF RecordFailure
    <3>2. Current(d) \in 1..Len(rows) /\ rows \in Seq(Row)
      BY <3>1, DrainHasRow DEF LogTyped, QueueTyped
    <3>3. \A row \in Row, n \in Nat : [row EXCEPT !.attempts = n].quantity = row.quantity
      BY DEF Row
    <3>4. rows[Current(d)] \in Row
      BY <3>2
    <3>5. QED
      BY <3>1, <3>2, <3>3, <3>4
  <2>4. QED
    BY <2>1, <2>2, <2>3 DEF List, Sync, Take, Push, DrainFails, DrainDies
<1>2. QED
  BY <1>1 DEF Logged

(* The books balance at the beginning. *)
LEMMA LedgerBegins ==
  ASSUME MeteringInit
  PROVE  Ledger /\ OnBill = 0
<1> USE DEF MeteringInit
<1>0. LogTyped
  BY LogBegins DEF LogInv
<1>1. \A c \in Clients : usageRequest[c].step = "idle"
  BY NoOneTyped
<1>2. rows = <<>> /\ Len(rows) = 0
  OBVIOUS
<1>3. Total(AllToLog) = 0
  <2>1. \A k \in 1..Len(Roll) : Roll[k] \in Clients
    BY RollCalls
  <2>2. \A k \in 1..Len(Roll) : AllToLog[k] = 0
    BY <1>1, <2>1 DEF AllToLog, ToLog
  <2>3. QED
    BY <1>0, <2>2, ListsTyped, TotalOfNone
<1>4. Total(Logged) = 0 /\ Total(OnRows) = 0
  <2>1. /\ \A n \in 1..Len(Logged) : Logged[n] = 0
        /\ \A n \in 1..Len(OnRows) : OnRows[n] = 0
    BY <1>0, <1>2, ListsTyped
  <2>2. QED
    BY <1>0, <2>1, ListsTyped, TotalOfNone
<1>5. \A i \in Ids : billed[i] = 0
  OBVIOUS
<1>6. forgets <= MaxForgets
  BY MeteringConstantsOK DEF MeteringConstantsOK
<1>7. QED
  BY <1>1, <1>2, <1>3, <1>4, <1>5, <1>6 DEF Ledger, OnBill, OnRows

(* The books balance whatever the step. *)
LEMMA LedgerStays ==
  ASSUME LogTyped, LogTyped', Ledger, [MeteringNext]_meteringVars
  PROVE  Ledger'
<1> DEFINE logged == Total(Logged)
           coming == Total(AllToLog)
<1>1. /\ logged \in Nat /\ coming \in Nat /\ accepted \in Nat
      /\ rows \in Seq(Row) /\ Len(rows) \in Nat /\ 1..Len(rows) \subseteq Ids
      /\ logged + coming <= accepted
  BY ListsTyped, TotalTyped, RowsHaveIds DEF LogTyped, UsageTyped, QueueTyped, Ledger
<1>2. ASSUME NEW c \in Clients, Ask(c) \/ ServeUsage(c) \/ UsageFails(c) \/ UsageDies(c)
      PROVE  Ledger'
  <2> DEFINE q == usageRequest[c].quantity
  <2>1. /\ \A o \in Clients \ {c} : usageRequest'[o] = usageRequest[o]
        /\ UNCHANGED <<billed, known, forgets>>
    BY <1>2, UsageSteps
  <2>2. ToLog(c) \in Nat /\ q \in Nat
    BY DEF ToLog, LogTyped, UsageTyped, UsageRequest
  <2>3. ASSUME UNCHANGED rows,
               \/ usageRequest'[c].step = "idle"
               \/ usageRequest'[c].step = "count" /\ usageRequest'[c].quantity > 0
               \/ usageRequest'[c].step \in {"enqueue", "warn"} /\ usageRequest'[c].quantity \in 1..MaxInt,
               NEW d \in Int, ToLog(c)' = ToLog(c) + d, logged + (coming + d) <= accepted'
        PROVE  Ledger'
    <3>1. \A o \in Clients : /\ usageRequest'[o].step = "count" => usageRequest'[o].quantity > 0
                             /\ usageRequest'[o].step \in {"enqueue", "warn"} =>
                                  usageRequest'[o].quantity \in 1..MaxInt
      BY <2>1, <2>3 DEF Ledger
    <3>2. Total(AllToLog)' = coming + d
      BY <2>1, <2>3, ToLogMoves
    <3>3. Total(Logged)' = logged
      BY <2>3 DEF Logged
    <3>4. (Total(Logged) + Total(AllToLog) <= accepted)'
      <4> HIDE DEF logged, coming
      <4>1. QED
        BY <2>3, <3>2, <3>3
    <3>5. QED
      BY <2>1, <2>3, <3>1, <3>4 DEF Ledger
  <2>4. CASE usageRequest'[c].step = "idle" /\ UNCHANGED <<accepted, rows>>
    <3>1. ToLog(c)' = ToLog(c) + (0 - ToLog(c)) /\ 0 - ToLog(c) \in Int
      BY <2>2, <2>4 DEF ToLog
    <3>2. logged + (coming + (0 - ToLog(c))) <= accepted'
      <4> HIDE DEF logged, coming
      <4>1. QED
        BY <1>1, <2>2, <2>4
    <3> HIDE DEF logged, coming
    <3>3. QED
      BY <2>3, <2>4, <3>1, <3>2
  <2>5. CASE /\ usageRequest[c].step = "idle"
             /\ usageRequest'[c].step = "count" /\ usageRequest'[c].quantity > 0
             /\ UNCHANGED <<accepted, rows>>
    <3>1. ToLog(c)' = ToLog(c) + 0
      BY <2>5 DEF ToLog
    <3>2. logged + (coming + 0) <= accepted'
      <4> HIDE DEF logged, coming
      <4>1. QED
        BY <1>1, <2>5
    <3> HIDE DEF logged, coming
    <3>3. QED
      BY <2>3, <2>5, <3>1, <3>2
  <2>6. CASE /\ usageRequest[c].step = "count"
             /\ usageRequest'[c].step \in {"enqueue", "warn"}
             /\ usageRequest'[c].quantity = q /\ q \in 1..MaxInt
             /\ accepted' = accepted + q
             /\ UNCHANGED rows
    <3>1. PICK d \in 0..q : ToLog(c)' = ToLog(c) + d
      BY <2>2, <2>6 DEF ToLog
    <3>2. logged + (coming + d) <= accepted' /\ d \in Int
      <4> HIDE DEF logged, coming, q
      <4>1. QED
        BY <1>1, <2>2, <2>6
    <3>3. usageRequest'[c].quantity \in 1..MaxInt
      BY <2>6
    <3> HIDE DEF logged, coming, q
    <3>4. QED
      BY <2>3, <2>6, <3>1, <3>2, <3>3
  <2>7. CASE /\ usageRequest[c].step = "enqueue" /\ usageRequest'[c].step = "warn"
             /\ usageRequest'[c].quantity = q
             /\ UNCHANGED accepted
             /\ UNCHANGED rows \/ Enqueue(c)
    <3>1. ToLog(c)' = ToLog(c) + (0 - q) /\ 0 - q \in Int /\ q \in 1..MaxInt
      BY <2>2, <2>7 DEF ToLog, Ledger
    <3>2. CASE UNCHANGED rows
      <4>1. logged + (coming + (0 - q)) <= accepted'
        <5> HIDE DEF logged, coming, q
        <5>1. QED
          BY <1>1, <2>2, <2>7
      <4>2. usageRequest'[c].quantity \in 1..MaxInt
        BY <2>7, <3>1
      <4> HIDE DEF logged, coming, q
      <4>3. QED
        BY <2>3, <2>7, <3>1, <3>2, <4>1, <4>2
    <3>3. CASE Enqueue(c)
      <4>1. /\ Len(rows') = Len(rows) + 1
            /\ rows'[Len(rows) + 1].quantity = q
            /\ \A i \in 1..Len(rows) : rows'[i] = rows[i]
            /\ Total(Logged)' = logged + q
        BY <3>3, LoggedGrows
      <4>2. Total(AllToLog)' = coming + (0 - q)
        BY <2>1, <3>1, ToLogMoves
      <4>3. (Total(Logged) + Total(AllToLog) <= accepted)'
        <5> HIDE DEF logged, coming, q
        <5>1. (logged + q) + (coming + (0 - q)) <= accepted'
          BY <1>1, <2>2, <2>7
        <5>2. QED
          BY <4>1, <4>2, <5>1
      <4>4. \A o \in Clients : /\ usageRequest'[o].step = "count" => usageRequest'[o].quantity > 0
                               /\ usageRequest'[o].step \in {"enqueue", "warn"} =>
                                    usageRequest'[o].quantity \in 1..MaxInt
        BY <2>1, <2>7, <3>1 DEF Ledger
      <4>5. ASSUME NEW i \in 1..Len(rows') PROVE rows'[i].quantity \in 1..MaxInt
        BY <1>1, <3>1, <4>1 DEF Ledger
      <4>6. ASSUME NEW i \in Ids, i > Len(rows') PROVE billed'[i] = 0
        BY <1>1, <2>1, <4>1, <4>6 DEF Ledger, Ids
      <4>7. QED
        BY <2>1, <4>3, <4>4, <4>5, <4>6 DEF Ledger
    <3>4. QED
      BY <2>7, <3>2, <3>3
  <2> HIDE DEF logged, coming
  <2>8. QED
    BY <1>2, <2>4, <2>5, <2>6, <2>7, UsageSteps
<1>3. ASSUME NEW d \in Drainers, List(d) \/ Sync(d) \/ DrainFails(d) \/ DrainDies(d)
      PROVE  Ledger'
  <2>1. /\ Len(rows') = Len(rows) /\ \A i \in 1..Len(rows) : rows'[i].quantity = rows[i].quantity
        /\ Logged' = Logged
    BY <1>3, LoggedStays
  <2>2. UNCHANGED <<usageRequest, accepted, forgets>>
    BY <1>3 DEF List, Sync, Take, Push, Mark, RecordFailure, DrainFails, DrainDies, counter, stripe
  <2>3. AllToLog' = AllToLog
    BY <2>2 DEF AllToLog, ToLog
  <2>4. \A i \in Ids : i > Len(rows) => billed'[i] = 0
    <3>1. CASE Push(d)
      <4>1. Current(d) \in 1..Len(rows)
        BY <3>1, DrainHasRow DEF LogTyped, Push
      <4>2. ASSUME NEW i \in Ids, i > Len(rows) PROVE billed'[i] = billed[i]
        <5>1. i # Current(d)
          BY <1>1, <4>1, <4>2 DEF Ids
        <5>2. QED
          BY <3>1, <5>1 DEF Push, Bill, LogTyped, QueueTyped
      <4>3. QED
        BY <4>2 DEF Ledger
    <3>2. CASE UNCHANGED billed
      BY <3>2 DEF Ledger
    <3>3. QED
      BY <1>3, <3>1, <3>2 DEF List, Sync, Take, Mark, RecordFailure, DrainFails, DrainDies, stripe
  <2>5. QED
    BY <2>1, <2>2, <2>3, <2>4 DEF Ledger
<1>4. CASE Forget
  <2>1. UNCHANGED <<usageRequest, rows, billed, accepted>> /\ forgets' = forgets + 1 /\ forgets < MaxForgets
    BY <1>4 DEF Forget, counter
  <2>2. forgets' <= MaxForgets
    BY <2>1, MeteringConstantsOK DEF LogTyped, UsageTyped, MeteringConstantsOK
  <2>3. AllToLog' = AllToLog /\ Logged' = Logged
    BY <2>1 DEF AllToLog, ToLog, Logged
  <2>4. QED
    BY <2>1, <2>2, <2>3 DEF Ledger
<1>5. CASE Reset \/ Reconfigure \/ NextPeriod \/ UNCHANGED meteringVars
  <2>1. UNCHANGED <<usageRequest, rows, billed, accepted, forgets>>
    BY <1>5 DEF Reset, Reconfigure, NextPeriod, meteringVars, counter, stripe
  <2>2. AllToLog' = AllToLog /\ Logged' = Logged
    BY <2>1 DEF AllToLog, ToLog, Logged
  <2>3. QED
    BY <2>1, <2>2 DEF Ledger
<1>6. QED
  BY <1>2, <1>3, <1>4, <1>5 DEF MeteringNext

(* As long as Stripe forgets nothing, what is billed is in the log, once,  *)
(* and was counted.                                                        *)
LEMMA BillCovered ==
  LogInv /\ Ledger /\ MaxForgets = 0 =>
    /\ OnBill \in Nat /\ OnBill <= accepted
    /\ \A i \in 1..Len(rows) : billed[i] \in {0, 1}
<1> SUFFICES ASSUME LogInv, Ledger, MaxForgets = 0
             PROVE  /\ OnBill \in Nat /\ OnBill <= accepted
                    /\ \A i \in 1..Len(rows) : billed[i] \in {0, 1}
  OBVIOUS
<1> USE DEF LogInv
<1>1. /\ billed \in [Ids -> Nat] /\ rows \in Seq(Row) /\ Len(rows) \in Nat
      /\ 1..Len(rows) \subseteq Ids /\ forgets = 0 /\ accepted \in Nat
  BY RowsHaveIds DEF LogTyped, UsageTyped, QueueTyped, Ledger
<1>2. ASSUME NEW i \in 1..Len(rows) PROVE billed[i] \in {0, 1}
  BY <1>1 DEF BilledInTime
<1>3. ASSUME NEW i \in 1..Len(rows) PROVE OnRows[i] <= Logged[i]
  <2>0. rows[i] \in Row
    BY <1>1
  <2>1. rows[i].quantity \in Nat
    BY <2>0 DEF Row
  <2>2. \A q \in Nat : q * 0 <= q /\ q * 1 <= q
    OBVIOUS
  <2>3. rows[i].quantity * billed[i] <= rows[i].quantity
    BY <1>2, <2>1, <2>2
  <2>4. QED
    BY <2>3 DEF OnRows, Logged
<1>4. Total(OnRows) \in Nat /\ Total(OnRows) <= Total(Logged)
  BY <1>3, ListsTyped, TotalMonotone
<1>5. /\ Total(Logged) \in Nat /\ Total(AllToLog) \in Nat
      /\ Total(Logged) + Total(AllToLog) <= accepted
  BY ListsTyped, TotalTyped DEF Ledger
<1>6. OnBill = Total(OnRows)
  BY DEF OnBill, OnRows
<1>7. QED
  BY <1>1, <1>2, <1>4, <1>5, <1>6

(* Nothing is added to the bill where no row is billed. *)
LEMMA BillStays ==
  ASSUME billed' = billed, Len(rows') = Len(rows),
         \A i \in 1..Len(rows) : rows'[i].quantity = rows[i].quantity
  PROVE  OnBill' = OnBill
<1>1. OnRows' = OnRows
  BY DEF OnRows
<1>2. OnBill = Total(OnRows) /\ OnBill' = Total(OnRows')
  BY DEF OnBill, OnRows
<1>3. QED
  BY <1>1, <1>2

(* A new row is on the bill once it is pushed, not before. *)
LEMMA BillWaits ==
  ASSUME LogTyped, LogTyped', Ledger, NEW c \in Clients, Enqueue(c)
  PROVE  OnBill' = OnBill
<1> DEFINE s == OnRows
           t == OnRows'
           last == Len(rows) + 1
<1>1. s \in Seq(Nat) /\ Len(s) = Len(rows)
  BY ListsTyped
<1>2. t \in Seq(Nat) /\ Len(t) = Len(rows')
  <2>1. (OnRows \in Seq(Nat) /\ Len(OnRows) = Len(rows))'
    BY ListsTyped, PTL
  <2>2. QED
    BY <2>1
<1>3. /\ Len(rows') = last /\ Len(rows) \in Nat
      /\ \A i \in 1..Len(rows) : rows'[i] = rows[i]
      /\ billed' = billed
      /\ rows'[last].quantity = usageRequest[c].quantity
  BY LoggedGrows DEF LogTyped, QueueTyped, Enqueue, stripe
<1>4. \A i \in 1..Len(rows) : t[i] = s[i]
  BY <1>3 DEF OnRows
<1>5. t[last] = 0
  <2>1. last \in Ids
    <3>1. (1..Len(rows) \subseteq Ids)'
      BY RowsHaveIds, PTL DEF LogTyped
    <3>2. QED
      BY <1>3, <3>1 DEF Ids
  <2>2. billed'[last] = 0
    BY <1>3, <2>1 DEF Ledger
  <2>3. usageRequest[c].quantity \in Nat
    BY DEF LogTyped, UsageTyped, UsageRequest
  <2>4. \A q \in Nat : q * 0 = 0
    OBVIOUS
  <2>5. last \in 1..Len(rows')
    BY <1>3
  <2>6. t[last] = rows'[last].quantity * billed'[last]
    BY <2>5 DEF OnRows
  <2>7. QED
    BY <1>3, <2>2, <2>3, <2>4, <2>6
<1>6. OnBill = Total(s) /\ OnBill' = Total(t)
  BY DEF OnBill, OnRows
<1> HIDE DEF s, t
<1>7. Total(t) = Total(s) + 0
  BY <1>1, <1>2, <1>3, <1>4, <1>5, TotalAppends
<1>8. Total(s) \in Nat
  BY <1>1, TotalTyped
<1>9. QED
  BY <1>6, <1>7, <1>8

(* A push adds its row to the bill, if it adds anything. *)
LEMMA BillAdds ==
  ASSUME LogTyped, LogTyped', NEW i \in 1..Len(rows), UNCHANGED rows,
         billed[i] = 0, billed' = [billed EXCEPT ![i] = @ + 1]
  PROVE  OnBill' = OnBill + rows[i].quantity
<1> DEFINE s == OnRows
           t == OnRows'
           q == rows[i].quantity
<1>1. s \in Seq(Nat) /\ Len(s) = Len(rows)
  BY ListsTyped
<1>2. t \in Seq(Nat) /\ Len(t) = Len(rows)
  <2>1. (OnRows \in Seq(Nat) /\ Len(OnRows) = Len(rows))'
    BY ListsTyped, PTL
  <2>2. QED
    BY <2>1
<1>3. billed \in [Ids -> Nat] /\ 1..Len(rows) \subseteq Ids /\ rows[i] \in Row
  BY RowsHaveIds DEF LogTyped, QueueTyped
<1>4. \A j \in 1..Len(rows) : j # i => t[j] = s[j]
  BY <1>3 DEF OnRows
<1>5. billed'[i] = 1
  BY <1>3
<1>6. q \in Nat
  BY <1>3 DEF Row
<1>7. s[i] = q * 0 /\ t[i] = q * 1
  BY <1>5 DEF OnRows
<1>8. t[i] = s[i] + q
  BY <1>6, <1>7
<1>9. OnBill = Total(s) /\ OnBill' = Total(t)
  BY DEF OnBill, OnRows
<1> HIDE DEF s, t, q
<1>10. Total(t) = Total(s) + q
  <2>1. Len(t) = Len(s) /\ i \in 1..Len(s)
    BY <1>1, <1>2
  <2>2. \A n \in 1..Len(s) : n # i => t[n] = s[n]
    BY <1>1, <1>4
  <2>3. q \in Int
    BY <1>6
  <2>4. QED
    BY <1>1, <1>2, <1>8, <2>1, <2>2, <2>3, TotalMoves
<1>11. QED
  BY <1>9, <1>10 DEF q

(* Every step counts usage, bills usage that was counted, or leaves both. *)
LEMMA StepIsPromised ==
  ASSUME LogInv, LogInv', Ledger, Ledger', MaxForgets = 0, [MeteringNext]_meteringVars
  PROVE  [Promise!Next]_<<accepted - OnBill, OnBill>>
<1>1. OnBill \in Nat /\ accepted \in Nat /\ OnBill <= accepted
  BY BillCovered DEF LogInv, LogTyped, UsageTyped
<1>2. /\ (OnBill \in Nat /\ OnBill <= accepted /\ accepted \in Nat)'
      /\ (\A i \in 1..Len(rows) : billed[i] \in {0, 1})'
  <2>1. (OnBill \in Nat /\ OnBill <= accepted /\ \A i \in 1..Len(rows) : billed[i] \in {0, 1})'
    BY BillCovered, PTL
  <2>2. accepted' \in Nat
    BY DEF LogInv, LogTyped, UsageTyped
  <2>3. QED
    BY <2>1, <2>2
<1>3. ASSUME OnBill' = OnBill, NEW q \in 1..MaxInt, accepted' = accepted + q
      PROVE  Promise!CountUsage
  <2> DEFINE before == accepted
             bill == OnBill
  <2>1. accepted' - OnBill' = (before - bill) + q
    <3>1. before \in Nat /\ bill \in Nat /\ q \in Nat /\ accepted' = before + q /\ OnBill' = bill
      BY <1>1, <1>3
    <3> HIDE DEF before, bill
    <3>2. QED
      BY <3>1
  <2>2. QED
    BY <1>3, <2>1 DEF Promise!CountUsage
<1>4. ASSUME UNCHANGED accepted, NEW q \in 1..MaxInt, OnBill' = OnBill + q
      PROVE  Promise!BillUsage
  <2> DEFINE before == accepted
             bill == OnBill
  <2>1. q <= before - bill /\ accepted' - OnBill' = (before - bill) - q
    <3>1. /\ before \in Nat /\ bill \in Nat /\ q \in Nat /\ accepted' = before /\ OnBill' = bill + q
          /\ bill + q <= before
      BY <1>1, <1>2, <1>4
    <3> HIDE DEF before, bill
    <3>2. QED
      BY <3>1
  <2>2. QED
    BY <1>4, <2>1 DEF Promise!BillUsage
<1>5. ASSUME OnBill' = OnBill, UNCHANGED accepted
      PROVE  UNCHANGED <<accepted - OnBill, OnBill>>
  BY <1>5
<1>6. ASSUME NEW c \in Clients, Ask(c) \/ ServeUsage(c) \/ UsageFails(c) \/ UsageDies(c)
      PROVE  [Promise!Next]_<<accepted - OnBill, OnBill>>
  <2>1. OnBill' = OnBill
    <3>1. CASE UNCHANGED rows
      <4>1. UNCHANGED billed
        BY <1>6, UsageSteps DEF LogInv
      <4>2. QED
        BY <3>1, <4>1, BillStays
    <3>2. CASE Enqueue(c)
      BY <3>2, BillWaits DEF LogInv
    <3>3. QED
      BY <1>6, <3>1, <3>2, UsageSteps DEF LogInv
  <2>2. CASE UNCHANGED accepted
    BY <1>5, <2>1, <2>2
  <2>3. CASE /\ usageRequest[c].quantity \in 1..MaxInt
             /\ accepted' = accepted + usageRequest[c].quantity
    BY <1>3, <2>1, <2>3 DEF Promise!Next
  <2>4. QED
    BY <1>6, <2>2, <2>3, UsageSteps DEF LogInv
<1>7. ASSUME NEW d \in Drainers, List(d) \/ Sync(d) \/ DrainFails(d) \/ DrainDies(d)
      PROVE  [Promise!Next]_<<accepted - OnBill, OnBill>>
  <2>1. UNCHANGED accepted
    BY <1>7 DEF List, Sync, Take, Push, Mark, RecordFailure, DrainFails, DrainDies, counter
  <2>2. CASE UNCHANGED billed
    <3>1. /\ Len(rows') = Len(rows)
          /\ \A i \in 1..Len(rows) : rows'[i].quantity = rows[i].quantity
      BY <1>7, LoggedStays DEF LogInv
    <3>2. OnBill' = OnBill
      BY <2>2, <3>1, BillStays
    <3>3. QED
      BY <1>5, <2>1, <3>2
  <2>3. CASE Push(d) /\ billed' # billed
    <3> DEFINE i == Current(d)
    <3>1. i \in 1..Len(rows) /\ i \in Ids /\ UNCHANGED rows
      BY <2>3, DrainHasRow DEF LogInv, LogTyped, Push
    <3>2. billed' = [billed EXCEPT ![i] = @ + 1]
      BY <2>3 DEF Push, Bill
    <3>3. billed[i] = 0
      <4>1. billed'[i] \in {0, 1}
        BY <1>2, <3>1
      <4>2. billed \in [Ids -> Nat]
        BY DEF LogInv, LogTyped, QueueTyped
      <4>3. billed[i] \in Nat /\ billed'[i] = billed[i] + 1
        BY <3>1, <3>2, <4>2
      <4>4. QED
        BY <4>1, <4>3
    <3>4. rows[i].quantity \in 1..MaxInt
      BY <3>1 DEF Ledger
    <3> HIDE DEF i
    <3>5. OnBill' = OnBill + rows[i].quantity
      BY <3>1, <3>2, <3>3, BillAdds DEF LogInv
    <3>6. QED
      BY <1>4, <2>1, <3>4, <3>5 DEF Promise!Next
  <2>4. QED
    BY <1>7, <2>2, <2>3 DEF List, Sync, Take, Mark, RecordFailure, DrainFails, DrainDies, stripe
<1>8. CASE Reset \/ Reconfigure \/ NextPeriod \/ Forget \/ UNCHANGED meteringVars
  <2>1. UNCHANGED <<rows, billed, accepted>>
    BY <1>8 DEF Reset, Reconfigure, NextPeriod, Forget, meteringVars, counter, stripe
  <2>2. OnBill' = OnBill
    BY <2>1, BillStays
  <2>3. QED
    BY <1>5, <2>1, <2>2
<1>9. QED
  BY <1>6, <1>7, <1>8 DEF MeteringNext

(* However requests, drains and crashes overlap, and for any quantities,   *)
(* quotas and number of requests: as long as Stripe keeps its identifiers, *)
(* the bill never exceeds what was counted, and a unit of usage is on it   *)
(* at most once: the counters, the log and the drains implement            *)
(* UsageBilling (metered_sync.go:21-24).                                   *)
THEOREM BillingIsImplemented ==
  ASSUME MaxForgets = 0
  PROVE  MeteringSpec => ImplementsBilling
<1> DEFINE Inv == LogInv /\ Ledger
<1>1. MeteringInit => Inv /\ Promise!Init
  <2> SUFFICES ASSUME MeteringInit PROVE Inv /\ Promise!Init
    OBVIOUS
  <2>1. LogInv /\ Ledger /\ OnBill = 0
    BY LogBegins, LedgerBegins
  <2>2. accepted = 0
    BY DEF MeteringInit
  <2>3. QED
    BY <2>1, <2>2 DEF Promise!Init
<1>2. Inv /\ [MeteringNext]_meteringVars => Inv'
  BY LogStays, LedgerStays DEF LogInv
<1>3. Inv /\ Inv' /\ [MeteringNext]_meteringVars => [Promise!Next]_<<accepted - OnBill, OnBill>>
  BY StepIsPromised
<1>4. QED
  BY <1>1, <1>2, <1>3, PTL DEF MeteringSpec, ImplementsBilling, Promise!Spec

-----------------------------------------------------------------------------
(*****************************************************************************)
(* The rate limiter, for any rate, window and number of restarts.            *)
(*****************************************************************************)
Stretch(t) == Between(t, t + Window - 1)
Budget == (2 + restarts) * Rate

(* What a stretch that lasts may still see without a restart: the rest of  *)
(* the window that runs and, if that opened before the stretch began, the  *)
(* whole of the next one.                                                  *)
Unused(count) == IF count < Rate THEN Rate - count ELSE 0
Ahead(t) ==
  IF Over THEN Rate
  ELSE Unused(visitor.count) + (IF visitor.start < t THEN Rate ELSE 0)

ThrottleTyped ==
  /\ ThrottleTypeOK
  /\ IsFiniteSet(admitted)
  /\ visitor.start <= tick
  /\ \A a \in admitted : a.at <= tick /\ a.no < Cardinality(admitted)

(* Of every stretch of time that has begun: what it saw and what it may    *)
(* still see are within its budget.                                        *)
StretchesWithin ==
  \A t \in Ticks : t <= tick =>
    /\ Cardinality(Stretch(t)) <= Budget
    /\ tick <= t + Window - 1 => Cardinality(Stretch(t)) + Ahead(t) <= Budget

-----------------------------------------------------------------------------
(* A restart allows one rate more. *)
LEMMA BudgetGrows ==
  ASSUME restarts \in Nat
  PROVE  /\ Budget \in Nat /\ 2 * Rate <= Budget
         /\ restarts' = restarts + 1 => Budget' = Budget + Rate
<1>1. restarts * Rate \in Nat
  BY ThrottleConstantsOK DEF ThrottleConstantsOK
<1>2. Budget = 2 * Rate + restarts * Rate
  BY ThrottleConstantsOK DEF ThrottleConstantsOK, Budget
<1>3. ASSUME restarts' = restarts + 1 PROVE Budget' = Budget + Rate
  BY <1>3, ThrottleConstantsOK DEF ThrottleConstantsOK, Budget
<1>4. QED
  BY <1>1, <1>2, <1>3, ThrottleConstantsOK DEF ThrottleConstantsOK

(* What a stretch of time saw is finite. *)
LEMMA StretchCounted ==
  ASSUME ThrottleTyped, NEW t \in Ticks
  PROVE  IsFiniteSet(Stretch(t)) /\ Cardinality(Stretch(t)) \in Nat
<1>1. IsFiniteSet(Stretch(t))
  BY FS_Subset DEF Stretch, Between, ThrottleTyped
<1>2. QED
  BY <1>1, FS_CardinalityType

(* What a stretch may still see is a number. *)
LEMMA AheadIsNatural ==
  ASSUME ThrottleTypeOK, NEW t \in Ticks
  PROVE  Ahead(t) \in Nat
  BY ThrottleConstantsOK DEF ThrottleConstantsOK, Ahead, Unused, ThrottleTypeOK

(* One more request is one more in the stretches that last. *)
LEMMA OneMore ==
  ASSUME ThrottleTyped, Admit
  PROVE  /\ admitted' \subseteq [at : Ticks, no : Nat] /\ IsFiniteSet(admitted')
         /\ \A a \in admitted' : a.at <= tick /\ a.no < Cardinality(admitted')
         /\ \A t \in Ticks :
              Cardinality(Stretch(t)') = Cardinality(Stretch(t)) +
                (IF t <= tick /\ tick <= t + Window - 1 THEN 1 ELSE 0)
<1> DEFINE new == [at |-> tick, no |-> Cardinality(admitted)]
<1>1. Cardinality(admitted) \in Nat
  BY FS_CardinalityType DEF ThrottleTyped
<1>2. tick \in Ticks /\ new \in [at : Ticks, no : Nat] /\ new.at = tick /\ new.no = Cardinality(admitted)
  BY <1>1 DEF ThrottleTyped, ThrottleTypeOK
<1>3. new \notin admitted /\ admitted' = admitted \cup {new}
  BY <1>1, <1>2 DEF ThrottleTyped, Admit
<1>4. IsFiniteSet(admitted') /\ Cardinality(admitted') = Cardinality(admitted) + 1
  BY <1>3, FS_AddElement DEF ThrottleTyped
<1>5. admitted' \subseteq [at : Ticks, no : Nat]
  BY <1>2, <1>3 DEF ThrottleTyped, ThrottleTypeOK
<1>6. \A a \in admitted' : a.at <= tick /\ a.no < Cardinality(admitted')
  <2> SUFFICES ASSUME NEW a \in admitted' PROVE a.at <= tick /\ a.no < Cardinality(admitted')
    OBVIOUS
  <2>1. CASE a = new
    BY <1>1, <1>2, <1>4, <2>1 DEF Ticks
  <2>2. CASE a \in admitted
    <3>1. a.no \in Nat
      BY <2>2 DEF ThrottleTyped, ThrottleTypeOK
    <3>2. QED
      BY <1>1, <1>4, <2>2, <3>1 DEF ThrottleTyped
  <2>3. QED
    BY <1>3, <2>1, <2>2
<1>7. ASSUME NEW t \in Ticks
      PROVE  Cardinality(Stretch(t)') = Cardinality(Stretch(t)) +
               (IF t <= tick /\ tick <= t + Window - 1 THEN 1 ELSE 0)
  <2>0. /\ IsFiniteSet(Stretch(t)) /\ Cardinality(Stretch(t)) \in Nat
        /\ tick \in Int /\ t \in Int /\ Window \in Int
    BY <1>2, StretchCounted, ThrottleConstantsOK DEF Ticks, ThrottleConstantsOK
  <2>1. CASE t <= tick /\ tick <= t + Window - 1
    <3>1. Stretch(t)' = Stretch(t) \cup {new} /\ new \notin Stretch(t)
      BY <1>2, <1>3, <2>0, <2>1 DEF Stretch, Between
    <3>2. QED
      BY <2>0, <2>1, <3>1, FS_AddElement
  <2>2. CASE ~ (t <= tick /\ tick <= t + Window - 1)
    <3>1. Stretch(t)' = Stretch(t)
      BY <1>2, <1>3, <2>0, <2>2 DEF Stretch, Between
    <3>2. QED
      BY <2>0, <2>2, <3>1
  <2>3. QED
    BY <2>1, <2>2
<1>8. QED
  BY <1>4, <1>5, <1>6, <1>7

(* A stretch that has not begun has seen nothing. *)
LEMMA FutureIsEmpty ==
  ASSUME ThrottleTyped, NEW t \in Ticks, tick < t
  PROVE  Cardinality(Stretch(t)) = 0
<1>1. Stretch(t) = {}
  BY ThrottleConstantsOK DEF ThrottleConstantsOK, Stretch, Between, ThrottleTyped, ThrottleTypeOK, Ticks
<1>2. QED
  BY <1>1, FS_EmptySet

-----------------------------------------------------------------------------
(* No step takes a stretch of time over its budget. *)
LEMMA BudgetIsKept ==
  ASSUME ThrottleTyped, StretchesWithin, [ThrottleNext]_throttleVars
  PROVE  ThrottleTyped' /\ StretchesWithin'
<1> USE ThrottleConstantsOK DEF ThrottleConstantsOK
<1>0. /\ visitor \in [count : 0..(Rate + 1), start : Ticks]
      /\ visitor.count \in Nat /\ visitor.count <= Rate + 1 /\ visitor.start \in Nat
      /\ tick \in Nat /\ tick <= LastTick /\ restarts \in Nat /\ visitor.start <= tick
  BY DEF ThrottleTyped, ThrottleTypeOK, Ticks
<1>1. Budget \in Nat /\ 2 * Rate <= Budget
  BY <1>0, BudgetGrows
<1>2. CASE Allow
  <2>0. tick' = tick /\ restarts' = restarts /\ Budget' = Budget
    BY <1>2 DEF Allow, Budget
  <2>1. CASE Over
    <3>1. visitor' = [count |-> 1, start |-> tick] /\ Admit
      BY <1>2, <2>1 DEF Allow
    <3>2. visitor'.count = 1 /\ visitor'.start = tick
            /\ visitor' \in [count : 0..(Rate + 1), start : Ticks]
      BY <1>0, <3>1 DEF Ticks
    <3>3. ThrottleTyped'
      BY <1>0, <2>0, <3>1, <3>2, OneMore DEF ThrottleTyped, ThrottleTypeOK
    <3>4. ASSUME NEW t \in Ticks, t <= tick
          PROVE  /\ Cardinality(Stretch(t)') <= Budget
                 /\ tick <= t + Window - 1 => Cardinality(Stretch(t)') + Ahead(t)' <= Budget
      <4>1. Ahead(t) = Rate
        BY <2>1 DEF Ahead
      <4>2. tick <= t + Window - 1 => Ahead(t)' = Rate - 1
        <5>1. visitor' # NoVisitor /\ ~ (tick - visitor'.start >= Window)
          BY <1>0, <3>1, <3>2 DEF NoVisitor
        <5>2. ~ Over'
          BY <2>0, <5>1 DEF Over
        <5>3. Ahead(t)' = Unused(1)
          BY <1>0, <3>2, <3>4, <5>2 DEF Ahead, Unused, Ticks
        <5>4. QED
          BY <5>3 DEF Unused
      <4>3. Cardinality(Stretch(t)) \in Nat
        BY StretchCounted
      <4>4. Cardinality(Stretch(t)') = Cardinality(Stretch(t)) +
              (IF t <= tick /\ tick <= t + Window - 1 THEN 1 ELSE 0)
        BY <3>1, OneMore
      <4>5. /\ Cardinality(Stretch(t)) <= Budget
            /\ tick <= t + Window - 1 => Cardinality(Stretch(t)) + Ahead(t) <= Budget
        BY <3>4 DEF StretchesWithin
      <4>6. QED
        BY <1>1, <3>4, <4>1, <4>2, <4>3, <4>4, <4>5
    <3>5. QED
      BY <2>0, <3>3, <3>4 DEF StretchesWithin
  <2>2. CASE ~ Over
    <3>1. /\ visitor.count <= Rate /\ visitor' = [visitor EXCEPT !.count = @ + 1]
          /\ IF visitor.count + 1 <= Rate THEN Admit ELSE UNCHANGED admitted
      BY <1>2, <2>2 DEF Allow
    <3>2. /\ visitor'.count = visitor.count + 1 /\ visitor'.start = visitor.start
          /\ visitor' \in [count : 0..(Rate + 1), start : Ticks]
      BY <1>0, <3>1
    <3>3. ThrottleTyped'
      <4>1. CASE visitor.count + 1 <= Rate
        BY <1>0, <2>0, <3>1, <3>2, <4>1, OneMore DEF ThrottleTyped, ThrottleTypeOK
      <4>2. CASE ~ (visitor.count + 1 <= Rate)
        BY <1>0, <2>0, <3>1, <3>2, <4>2 DEF ThrottleTyped, ThrottleTypeOK
      <4>3. QED
        BY <4>1, <4>2
    <3>4. ~ Over'
      <4>1. visitor # NoVisitor /\ ~ (tick - visitor.start >= Window)
        BY <2>2 DEF Over
      <4>2. visitor' # NoVisitor
        BY <1>0, <3>2 DEF NoVisitor
      <4>3. QED
        BY <2>0, <3>2, <4>1, <4>2 DEF Over
    <3>5. ASSUME NEW t \in Ticks, t <= tick
          PROVE  /\ Cardinality(Stretch(t)') <= Budget
                 /\ tick <= t + Window - 1 => Cardinality(Stretch(t)') + Ahead(t)' <= Budget
      <4>1. Cardinality(Stretch(t)) \in Nat
        BY StretchCounted
      <4>2. /\ Cardinality(Stretch(t)) <= Budget
            /\ tick <= t + Window - 1 => Cardinality(Stretch(t)) + Ahead(t) <= Budget
        BY <3>5 DEF StretchesWithin
      <4>3. /\ Ahead(t) = Unused(visitor.count) + (IF visitor.start < t THEN Rate ELSE 0)
            /\ Ahead(t)' = Unused(visitor.count + 1) + (IF visitor.start < t THEN Rate ELSE 0)
        BY <2>2, <3>2, <3>4 DEF Ahead, Unused
      <4>4. CASE visitor.count + 1 <= Rate
        <5>1. Cardinality(Stretch(t)') = Cardinality(Stretch(t)) +
                (IF t <= tick /\ tick <= t + Window - 1 THEN 1 ELSE 0)
          BY <3>1, <4>4, OneMore
        <5>2. Ahead(t)' = Ahead(t) - 1 /\ Ahead(t)' \in Nat /\ Ahead(t) \in Nat
          BY <1>0, <4>3, <4>4 DEF Unused
        <5>3. QED
          BY <1>1, <3>5, <4>1, <4>2, <5>1, <5>2
      <4>5. CASE ~ (visitor.count + 1 <= Rate)
        <5>1. Stretch(t)' = Stretch(t)
          BY <3>1, <4>5 DEF Stretch, Between
        <5>2. Ahead(t)' = Ahead(t)
          BY <1>0, <4>3, <4>5 DEF Unused
        <5>3. QED
          BY <4>2, <5>1, <5>2
      <4>6. QED
        BY <4>4, <4>5
    <3>6. QED
      BY <2>0, <3>3, <3>5 DEF StretchesWithin
  <2>3. QED
    BY <2>1, <2>2
<1>3. CASE cleanup
  <2>1. /\ tick - visitor.start >= Window /\ visitor' = NoVisitor
        /\ tick' = tick /\ restarts' = restarts /\ admitted' = admitted /\ Budget' = Budget
    BY <1>0, <1>3 DEF cleanup, Budget
  <2>2. NoVisitor \in [count : 0..(Rate + 1), start : Ticks] /\ NoVisitor.start = 0
    BY DEF NoVisitor, Ticks
  <2>3. ThrottleTyped'
    BY <1>0, <2>1, <2>2 DEF ThrottleTyped, ThrottleTypeOK
  <2>4. \A t \in Ticks : Stretch(t)' = Stretch(t) /\ Ahead(t)' = Ahead(t)
    BY <2>1 DEF Stretch, Between, Ahead, Over
  <2>5. QED
    BY <2>1, <2>3, <2>4 DEF StretchesWithin
<1>4. CASE Tick
  <2>1. /\ tick' = tick + 1 /\ tick' <= LastTick
        /\ visitor' = visitor /\ restarts' = restarts /\ admitted' = admitted /\ Budget' = Budget
    BY <1>0, <1>4 DEF Tick, Budget
  <2>2. \A a \in admitted : a.at \in Nat
    BY DEF ThrottleTyped, ThrottleTypeOK, Ticks
  <2>3. ThrottleTyped'
    BY <1>0, <2>1, <2>2 DEF ThrottleTyped, ThrottleTypeOK, Ticks
  <2>4. ASSUME NEW t \in Ticks, t <= tick + 1
        PROVE  /\ Cardinality(Stretch(t)') <= Budget
               /\ tick + 1 <= t + Window - 1 => Cardinality(Stretch(t)') + Ahead(t)' <= Budget
    <3>1. Stretch(t)' = Stretch(t) /\ Cardinality(Stretch(t)) \in Nat
      BY <2>1, StretchCounted DEF Stretch, Between
    <3>2. t \in Nat
      BY DEF Ticks
    <3>3. CASE t = tick + 1
      <4>1. Cardinality(Stretch(t)) = 0
        BY <1>0, <3>2, <3>3, FutureIsEmpty
      <4>2. Ahead(t)' <= 2 * Rate /\ Ahead(t)' \in Nat
        BY <1>0, <2>1 DEF Ahead, Unused
      <4>3. QED
        BY <1>1, <3>1, <4>1, <4>2
    <3>4. CASE t # tick + 1
      <4>1. /\ Cardinality(Stretch(t)) <= Budget
            /\ tick <= t + Window - 1 => Cardinality(Stretch(t)) + Ahead(t) <= Budget
        BY <1>0, <2>4, <3>2, <3>4 DEF StretchesWithin
      <4>2. Ahead(t) \in Nat
        BY AheadIsNatural DEF ThrottleTyped
      <4>3. tick + 1 <= t + Window - 1 => Ahead(t)' <= Ahead(t) /\ Ahead(t)' \in Nat
        <5> SUFFICES ASSUME tick + 1 <= t + Window - 1
                     PROVE  Ahead(t)' <= Ahead(t) /\ Ahead(t)' \in Nat
          OBVIOUS
        <5>1. CASE Over
          <6>1. Over'
            BY <1>0, <2>1, <5>1 DEF Over
          <6>2. QED
            BY <5>1, <6>1 DEF Ahead
        <5>2. CASE ~ Over /\ ~ Over'
          <6>1. Ahead(t)' = Ahead(t)
            BY <2>1, <5>2 DEF Ahead
          <6>2. QED
            BY <4>2, <6>1
        <5>3. CASE ~ Over /\ Over'
          <6>1. visitor # NoVisitor /\ tick + 1 - visitor.start >= Window
            BY <1>0, <2>1, <5>3 DEF Over
          <6>2. visitor.start < t
            BY <1>0, <3>2, <6>1
          <6>3. Ahead(t) = Unused(visitor.count) + Rate /\ Ahead(t)' = Rate
            BY <5>3, <6>2 DEF Ahead
          <6>4. QED
            BY <1>0, <6>3 DEF Unused
        <5>4. QED
          BY <5>1, <5>2, <5>3
      <4>4. tick + 1 <= t + Window - 1 => tick <= t + Window - 1
        BY <1>0, <3>2
      <4>5. QED
        BY <1>1, <3>1, <4>1, <4>2, <4>3, <4>4
    <3>5. QED
      BY <3>3, <3>4
  <2>5. QED
    BY <2>1, <2>3, <2>4 DEF StretchesWithin
<1>5. CASE Restart
  <2>1. /\ restarts' = restarts + 1 /\ restarts' \in 0..MaxRestarts /\ visitor' = NoVisitor
        /\ tick' = tick /\ admitted' = admitted
    BY <1>0, <1>5 DEF Restart
  <2>2. NoVisitor \in [count : 0..(Rate + 1), start : Ticks] /\ NoVisitor.start = 0
    BY DEF NoVisitor, Ticks
  <2>3. ThrottleTyped'
    BY <1>0, <2>1, <2>2 DEF ThrottleTyped, ThrottleTypeOK
  <2>4. Budget' = Budget + Rate
    BY <1>0, <2>1, BudgetGrows
  <2>5. ASSUME NEW t \in Ticks, t <= tick
        PROVE  /\ Cardinality(Stretch(t)') <= Budget + Rate
               /\ tick <= t + Window - 1 => Cardinality(Stretch(t)') + Ahead(t)' <= Budget + Rate
    <3>1. Stretch(t)' = Stretch(t) /\ Cardinality(Stretch(t)) \in Nat
      BY <2>1, StretchCounted DEF Stretch, Between
    <3>2. Ahead(t)' = Rate
      BY <2>1 DEF Ahead, Over
    <3>3. Cardinality(Stretch(t)) <= Budget
      BY <2>5 DEF StretchesWithin
    <3>4. QED
      BY <1>1, <3>1, <3>2, <3>3
  <2>6. QED
    BY <2>1, <2>3, <2>4, <2>5 DEF StretchesWithin
<1>6. CASE UNCHANGED throttleVars
  BY <1>6 DEF throttleVars, ThrottleTyped, ThrottleTypeOK, StretchesWithin, Stretch, Between,
              Budget, Ahead, Over
<1>7. QED
  BY <1>2, <1>3, <1>4, <1>5, <1>6 DEF ThrottleNext

(* Any stretch of time as long as a window sees at most two windows'       *)
(* requests, and one more window's for every restart, whatever the sweeper *)
(* forgets and when (middleware/ratelimit.go:72-88).                       *)
THEOREM RateIsKept == ThrottleSpec => [](ThrottleTypeOK /\ RateKept)
<1>1. ThrottleInit => ThrottleTyped /\ StretchesWithin
  <2> SUFFICES ASSUME ThrottleInit PROVE ThrottleTyped /\ StretchesWithin
    OBVIOUS
  <2>1. NoVisitor \in [count : 0..(Rate + 1), start : Ticks] /\ NoVisitor.start = 0
    BY ThrottleConstantsOK DEF ThrottleConstantsOK, NoVisitor, Ticks
  <2>2. ThrottleTyped
    BY <2>1, FS_EmptySet, ThrottleConstantsOK
    DEF ThrottleConstantsOK, ThrottleInit, ThrottleTyped, ThrottleTypeOK, Ticks
  <2>3. Budget \in Nat /\ 2 * Rate <= Budget
    BY <2>2, BudgetGrows DEF ThrottleTyped, ThrottleTypeOK
  <2>4. ASSUME NEW t \in Ticks PROVE Cardinality(Stretch(t)) = 0 /\ Ahead(t) = Rate
    <3>1. Stretch(t) = {}
      BY DEF ThrottleInit, Stretch, Between
    <3>2. QED
      BY <3>1, FS_EmptySet DEF ThrottleInit, Ahead, Over
  <2>5. QED
    BY <2>2, <2>3, <2>4, ThrottleConstantsOK DEF ThrottleConstantsOK, StretchesWithin
<1>2. ThrottleTyped /\ StretchesWithin /\ [ThrottleNext]_throttleVars
        => ThrottleTyped' /\ StretchesWithin'
  BY BudgetIsKept
<1>3. ThrottleTyped /\ StretchesWithin => ThrottleTypeOK /\ RateKept
  <2> SUFFICES ASSUME ThrottleTyped, StretchesWithin, NEW t \in Ticks
               PROVE  Cardinality(Stretch(t)) <= Budget
    BY DEF ThrottleTyped, RateKept, Stretch, Budget
  <2>1. CASE t <= tick
    BY <2>1 DEF StretchesWithin
  <2>2. CASE ~ (t <= tick)
    <3>1. tick < t
      BY <2>2 DEF ThrottleTyped, ThrottleTypeOK, Ticks
    <3>2. Budget \in Nat
      BY BudgetGrows DEF ThrottleTyped, ThrottleTypeOK
    <3>3. QED
      BY <3>1, <3>2, FutureIsEmpty
  <2>3. QED
    BY <2>1, <2>2
<1>4. QED
  BY <1>1, <1>2, <1>3, PTL DEF ThrottleSpec

-----------------------------------------------------------------------------
(***************************************************************************)
(* LicenseApi: a behaviour of the whole is a behaviour of each component,  *)
(* so what holds of each holds of all of them.                             *)
(***************************************************************************)
LEMMA EachOnItsOwn ==
  Spec => /\ IdempotencySpec /\ ActivationSpec
          /\ FloatingSpec /\ SeatsSpec
          /\ MeteringSpec /\ ThrottleSpec
<1>1. Init => /\ IdempotencyInit /\ ActivationInit
              /\ FloatingInit /\ SeatsInit
              /\ MeteringInit /\ ThrottleInit
  BY DEF Init
<1>2. ASSUME [Next]_apiVars
      PROVE  /\ [IdempotencyNext]_idemVars /\ [ActivationNext]_activationVars
             /\ [FloatingNext]_floatingVars /\ [SeatsNext]_seatsVars
             /\ [MeteringNext]_meteringVars /\ [ThrottleNext]_throttleVars
  <2>1. CASE UNCHANGED apiVars
    BY <2>1 DEF apiVars
  <2>2. CASE Next
    BY <2>2 DEF Next
  <2>3. QED
    BY <1>2, <2>1, <2>2
<1>3. QED
  BY <1>1, <1>2, PTL DEF Spec, IdempotencySpec, ActivationSpec,
     FloatingSpec, SeatsSpec, MeteringSpec, ThrottleSpec

(* The variables keep their types, and a request is between its count and  *)
(* its insert only while it holds the license's row lock                   *)
(* (store.go:1178-1203, floating.go, seats.go:74-79).                      *)
THEOREM TypesAndLocksHold == Spec => []TypesAndLocks
  BY EachOnItsOwn, OperationExecutedOnce, TokensAgreeOffline, DevicesWithinLimit,
     SessionsWithinLimit, SeatsWithinPlan, QuotaIsKept, RateIsKept, PTL DEF TypesAndLocks

(* No plan's limit is ever exceeded: not that of devices, of floating      *)
(* sessions, of seats or of usage, nor the rate of an address              *)
(* (store.go:1178-1203, usage.go:49-52, ratelimit.go).                     *)
THEOREM LimitsAreKept == Spec => []LimitsKept
  BY EachOnItsOwn, DevicesWithinLimit, SessionsWithinLimit, SeatsWithinPlan,
     QuotaIsKept, RateIsKept, PTL DEF LimitsKept

(* An operation behind a key is executed once and answered to its own      *)
(* body, and an invitation is accepted once (store/idempotency.go:44-75,   *)
(* store/seats.go:301-310).                                                *)
THEOREM EverythingOnce == Spec => []OnceOnly
  BY EachOnItsOwn, OperationExecutedOnce, ReplayedToItsBody, TokensAreSpentOnce,
     PTL DEF OnceOnly

(* A token is never trusted offline when the server would already refuse   *)
(* the license it was signed for, unchanged since (license.go:490-494,     *)
(* 540-552).                                                               *)
THEOREM OfflineAgreesAlways == Spec => []OfflineAgrees
  BY EachOnItsOwn, TokensAgreeOffline, PTL

(* A unit of usage is billed once before its row is called synced, no row  *)
(* is pushed for ever and the owner is warned once                         *)
(* (metered_sync.go:21-24, 116-121, usage.go:138).                         *)
THEOREM UsageBilledOnceAlways == Spec => []UsageBilledOnce
  BY EachOnItsOwn, UsageIsBilledOnce, QuotaIsKept, PTL DEF UsageBilledOnce
===============================================================================
