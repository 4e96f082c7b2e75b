----------------------------- MODULE Idempotency -----------------------------
(***************************************************************************)
(* One idempotency key at one endpoint (internal/middleware/idempotency.go *)
(* and internal/store/idempotency.go): the middleware claims a row for the *)
(* key, runs the handler, and completes or abandons the row.  Each SQL     *)
(* statement is a step; any number of requests with the key may overlap.   *)
(***************************************************************************)
EXTENDS Integers, FiniteSets

CONSTANTS
  Callers,      \* clients, or retries of one client, that use the key
  Bodies,       \* request bodies
  NoBody,
  MaxPrunes,    \* bound: how often a completed row expires
  MaxIdemFaults \* bound: 5xx answers, failing statements, crashes

ASSUME IdempotencyConstantsOK == IsFiniteSet(Callers) /\ NoBody \notin Bodies

VARIABLES
  slot,         \* the row of idempotency_keys, if there is one
  call,         \* of each caller: the body it sends and the next step
  executions,   \* history: handler runs that gave a final (2xx, 4xx) answer
  vanished,     \* history: claims that found neither a free key nor a row
  pruned,       \* history: rows removed after their time to live
  idemFaults,   \* bounded counter
  crossed,      \* history: an answer was replayed for another body
  served        \* callers that got a final answer

idemVars == <<slot, call, executions, vanished, pruned, idemFaults, crossed, served>>

NoSlot == [body |-> NoBody, complete |-> FALSE, answer |-> NoBody]
Waiting == [step |-> "idle", body |-> NoBody]

(* Steps at which a request is past its claim. *)
Running == {w \in Callers : call[w].step \in {"run", "complete", "abandon"}}
(* Requests that may still execute the handler, or let another do so. *)
HoldingKey == {w \in Callers : call[w].step \in {"run", "abandon"}}

IdempotencyTypeOK ==
  /\ slot \in [body : Bodies \cup {NoBody}, complete : BOOLEAN, answer : Bodies \cup {NoBody}]
  /\ call \in [Callers -> [step : {"idle", "insert", "select", "run", "complete", "abandon"},
                           body : Bodies \cup {NoBody}]]
  /\ {executions, vanished, pruned, idemFaults} \subseteq Nat
  /\ crossed \in BOOLEAN /\ served \subseteq Callers

GoOn(w, step) == call' = [call EXCEPT ![w].step = step]
Rest(w) == call' = [call EXCEPT ![w] = Waiting]
IdemFault == idemFaults < MaxIdemFaults /\ idemFaults' = idemFaults + 1

(* A POST with the Idempotency-Key header. *)
Send(w) ==
  /\ call[w].step = "idle"
  /\ \E b \in Bodies : call' = [call EXCEPT ![w] = [step |-> "insert", body |-> b]]
  /\ UNCHANGED <<slot, executions, vanished, pruned, idemFaults, crossed, served>>

(* INSERT ... ON CONFLICT DO NOTHING *)
InsertSlot(w) ==
  /\ call[w].step = "insert"
  /\ IF slot = NoSlot
       THEN slot' = [NoSlot EXCEPT !.body = call[w].body] /\ GoOn(w, "run")
       ELSE UNCHANGED slot /\ GoOn(w, "select")
  /\ UNCHANGED <<executions, vanished, pruned, idemFaults, crossed, served>>

(* Mutant: a row in flight is taken for a free one. *)
ReadSlot_RunsInFlight(w) ==
  /\ call[w].step = "select"
  /\ IF slot.complete THEN Rest(w) ELSE GoOn(w, "run")
  /\ UNCHANGED <<slot, executions, vanished, pruned, idemFaults, crossed, served>>

(* Mutant: the body is not compared. *)
ReadSlot_AnyBody(w) ==
  /\ call[w].step = "select"
  /\ slot.complete
  /\ crossed' = (crossed \/ slot.answer # call[w].body)
  /\ served' = served \cup {w}
  /\ Rest(w)
  /\ UNCHANGED <<slot, executions, vanished, pruned, idemFaults>>

(* The row that was in the way: gone (the request goes on as if it had     *)
(* claimed the key), of another body (422), complete (its answer is        *)
(* replayed) or in flight (409, the client tries again).                   *)
ReadSlot(w) ==
  /\ call[w].step = "select"
  /\ \/ /\ slot = NoSlot
        /\ GoOn(w, "run") /\ vanished' = vanished + 1
        /\ UNCHANGED <<crossed, served>>
     \/ /\ slot # NoSlot /\ slot.body = call[w].body /\ slot.complete
        /\ crossed' = (crossed \/ slot.answer # call[w].body)
        /\ served' = served \cup {w}
        /\ Rest(w) /\ UNCHANGED vanished
     \/ /\ slot # NoSlot /\ (slot.body # call[w].body \/ ~ slot.complete)
        /\ served' = IF slot.body # call[w].body THEN served \cup {w} ELSE served
        /\ Rest(w) /\ UNCHANGED <<vanished, crossed>>
  /\ UNCHANGED <<slot, executions, pruned, idemFaults>>

(* The handler answers 2xx or 4xx. *)
HandlerAnswers(w) ==
  /\ call[w].step = "run"
  /\ executions' = executions + 1
  /\ served' = served \cup {w}
  /\ GoOn(w, "complete")
  /\ UNCHANGED <<slot, vanished, pruned, idemFaults, crossed>>

(* The handler answers 5xx, or panics. *)
OperationFails(w) ==
  /\ call[w].step = "run"
  /\ IdemFault
  /\ GoOn(w, "abandon")
  /\ UNCHANGED <<slot, executions, vanished, pruned, crossed, served>>

(* IdempotencyComplete updates the row of the key, whoever claimed it. *)
CompleteSlot(w) ==
  /\ call[w].step = "complete"
  /\ slot' = IF slot = NoSlot THEN NoSlot
             ELSE [slot EXCEPT !.complete = TRUE, !.answer = call[w].body]
  /\ Rest(w)
  /\ UNCHANGED <<executions, vanished, pruned, idemFaults, crossed, served>>

(* IdempotencyAbandon deletes the key's row unless it is complete. *)
AbandonSlot(w) ==
  /\ call[w].step = "abandon"
  /\ slot' = IF slot.complete THEN slot ELSE NoSlot
  /\ Rest(w)
  /\ UNCHANGED <<executions, vanished, pruned, idemFaults, crossed, served>>

(* A failing claim answers 500; the errors of the others are ignored. *)
CallFails(w) ==
  /\ call[w].step \in {"insert", "select", "complete", "abandon"}
  /\ IdemFault /\ Rest(w)
  /\ UNCHANGED <<slot, executions, vanished, pruned, crossed, served>>

CallerDies(w) ==
  /\ call[w].step # "idle"
  /\ IdemFault /\ Rest(w)
  /\ UNCHANGED <<slot, executions, vanished, pruned, crossed, served>>

(* Mutant: rows are only pruned when they hold an answer. *)
Prune_OnlyComplete ==
  /\ slot # NoSlot /\ Running = {}
  /\ slot.complete /\ pruned < MaxPrunes
  /\ slot' = NoSlot /\ pruned' = pruned + 1
  /\ UNCHANGED <<call, executions, vanished, idemFaults, crossed, served>>

(* IdempotencyPruneExpired, a day after the row was inserted.  No request  *)
(* lasts a day: none that is past its claim is left.                       *)
Prune ==
  /\ slot # NoSlot /\ Running = {}
  /\ slot.complete => pruned < MaxPrunes
  /\ slot' = NoSlot /\ pruned' = pruned + 1
  /\ UNCHANGED <<call, executions, vanished, idemFaults, crossed, served>>

IdempotencyInit ==
  /\ slot = NoSlot
  /\ call = [w \in Callers |-> Waiting]
  /\ executions = 0 /\ vanished = 0 /\ pruned = 0 /\ idemFaults = 0
  /\ crossed = FALSE /\ served = {}

Proceed(w) ==
  \/ InsertSlot(w) \/ ReadSlot(w) \/ HandlerAnswers(w) \/ CompleteSlot(w) \/ AbandonSlot(w)

IdempotencyNext ==
  \/ \E w \in Callers :
       Send(w) \/ Proceed(w) \/ OperationFails(w) \/ CallFails(w) \/ CallerDies(w)
  \/ Prune

IdempotencySpec == IdempotencyInit /\ [][IdempotencyNext]_idemVars

-----------------------------------------------------------------------------
(* Properties *)

(* The operation behind a key is executed once, however its requests       *)
(* overlap, fail and are repeated; once more for each row that expired,    *)
(* and for each request whose row vanished between the two statements of   *)
(* its claim (store/idempotency.go:44-75).                                 *)
ExecutedOnce == executions <= 1 + vanished + pruned

(* Why: executions, claims and a free key share one budget.                *)
ExecutionBudget ==
  executions + Cardinality(HoldingKey) + (IF slot = NoSlot THEN 1 ELSE 0)
    <= 1 + vanished + pruned

(* An answer is only replayed to a request with the body it was given for  *)
(* (middleware/idempotency.go:22-25), unless a request ran without a row   *)
(* of its own and completed another's (store/idempotency.go:97).           *)
ReplayIsOwn == crossed => vanished > 0
=============================================================================
