------------------------------- MODULE Metering -------------------------------
(***************************************************************************)
(* The usage counter of one feature of one license, and the log of meter   *)
(* events that carries it to Stripe (internal/service/usage.go,            *)
(* internal/service/metered_sync.go, internal/store/usage.go, metered.go). *)
(* A request counts in one transaction and appends to the log in another;  *)
(* drains read the log, push each row to Stripe and mark it, one statement *)
(* after the other.                                                        *)
(***************************************************************************)
EXTENDS Integers, Sequences, FiniteSets

CONSTANTS
  Clients,      \* concurrent usage requests
  Drainers,     \* sync loops of the replicas, and drains on demand
  Asked,        \* quantities a request may ask for
  Limits,       \* quotas the plan may set; 0 is unlimited
  Threshold,    \* the warning threshold, in percent of the quota
  MaxInt,       \* stands for 2^63 - 1
  Periods,      \* quota periods, 1..n
  MaxAttempts,  \* pushes of a row before it is left alone (8)
  Batch,        \* rows per drain (200)
  MaxRequests,  \* bound: requests
  MaxResets,    \* bound: resets by an administrator
  MaxForgets,   \* bound: how often Stripe forgets an identifier
  MaxMeteringFaults  \* bound: failing statements, failing pushes, crashes

ASSUME MeteringConstantsOK ==
  /\ IsFiniteSet(Clients) /\ IsFiniteSet(Drainers)
  /\ Asked \subseteq Int /\ Limits \subseteq Nat /\ Threshold \in Nat /\ MaxInt \in Nat
  /\ Periods \subseteq Nat /\ 1 \in Periods
  /\ MaxAttempts \in Nat \ {0}
  /\ Batch \in Nat \ {0} /\ MaxRequests \in Nat /\ MaxResets \in Nat
  /\ MaxForgets \in Nat /\ MaxMeteringFaults \in Nat

VARIABLES
  limit,        \* the plan's quota
  wired,        \* the entitlement names a Stripe meter
  period,       \* the current period
  used,         \* usage_counters.used of each period
  usageRequest,      \* of each client: its request, by the next step
  rows,         \* metered_billing, in the order of created_at
  drain,        \* of each drainer: next step and the listed rows it has left
  known,        \* identifiers Stripe remembers
  billed,       \* how often Stripe added each row to the bill
  requests, resets, forgets, meteringFaults,  \* bounded counters
  accepted,     \* history: all usage ever counted
  warned,       \* history: warnings sent in each period
  unwired       \* history: the meter was ever taken off the entitlement

counter == <<used, accepted>>
stripe  == <<known, billed, forgets>>
meteringVars == <<limit, wired, period, counter, usageRequest, rows, drain, stripe,
          requests, resets, meteringFaults, warned, unwired>>

Ids    == 1..MaxRequests
NoOne  == [step |-> "idle", quantity |-> 0, period |-> 1, used |-> 0, metered |-> FALSE]
UsageRequest == [step : {"idle", "count", "enqueue", "warn"}, quantity : Nat,
            period : Periods, used : 0..MaxInt, metered : BOOLEAN]
Row    == [quantity : Nat, synced : BOOLEAN, attempts : Nat]
Resting == [step |-> "idle", list |-> {}]
Draining == [step : {"idle", "take", "push", "mark", "skip", "fail"}, list : SUBSET Ids]

MeteringTypeOK ==
  /\ limit \in Limits /\ wired \in BOOLEAN /\ unwired \in BOOLEAN
  /\ period \in Periods
  /\ used \in [Periods -> 0..MaxInt]
  /\ usageRequest \in [Clients -> UsageRequest]
  /\ rows \in Seq(Row) /\ Len(rows) <= MaxRequests
  /\ drain \in [Drainers -> Draining]
  /\ known \subseteq Ids
  /\ billed \in [Ids -> Nat]
  /\ requests \in Nat /\ resets \in Nat /\ forgets \in Nat /\ meteringFaults \in Nat
  /\ accepted \in Nat
  /\ warned \in [Periods -> Nat]

Fault == meteringFaults < MaxMeteringFaults /\ meteringFaults' = meteringFaults + 1

-----------------------------------------------------------------------------
(* Requests (UsageService.RecordUsage) *)

(* The license and its plan are read, the period's key is computed. *)
Ask(c) ==
  /\ usageRequest[c].step = "idle" /\ requests < MaxRequests
  /\ requests' = requests + 1
  /\ \E q \in Asked :
       usageRequest' = [usageRequest EXCEPT ![c] =
         [step |-> "count", quantity |-> IF q <= 0 THEN 1 ELSE q,
          period |-> period, used |-> 0, metered |-> wired]]
  /\ UNCHANGED <<limit, wired, period, counter, rows, drain, stripe, resets,
                 meteringFaults, warned, unwired>>

(* Signed addition as the machine does it. *)
Plus(a, b) == IF a + b > MaxInt THEN a + b - 2 * (MaxInt + 1) ELSE a + b

TooLarge(now, q) == q > MaxInt - now

(* Mutant: a quota of n admits what would start below n. *)
Exceeds_Before(now, q) == limit > 0 /\ now >= limit

Exceeds(now, q) == limit > 0 /\ Plus(now, q) > limit

(* Mutant: what the request asks for is only compared, and counted as 1. *)
Count_One(c) ==
  LET r == usageRequest[c] IN
  /\ r.step = "count"
  /\ IF TooLarge(used[r.period], r.quantity) \/ Exceeds(used[r.period], r.quantity)
       THEN usageRequest' = [usageRequest EXCEPT ![c] = NoOne] /\ UNCHANGED counter
       ELSE /\ used' = [used EXCEPT ![r.period] = @ + 1]
            /\ accepted' = accepted + 1
            /\ usageRequest' = [usageRequest EXCEPT ![c].step = IF r.metered THEN "enqueue" ELSE "warn",
                                          ![c].used = used'[r.period]]
  /\ UNCHANGED <<limit, wired, period, rows, drain, stripe, requests, resets,
                 meteringFaults, warned, unwired>>

(* IncrementUsageCounterWithLimit: one transaction under the row's lock.   *)
(* Refused with 400 or 429, or counted.                                    *)
Count(c) ==
  LET r == usageRequest[c] IN
  /\ r.step = "count"
  /\ IF TooLarge(used[r.period], r.quantity) \/ Exceeds(used[r.period], r.quantity)
       THEN usageRequest' = [usageRequest EXCEPT ![c] = NoOne] /\ UNCHANGED counter
       ELSE /\ used' = [used EXCEPT ![r.period] = @ + r.quantity]
            /\ accepted' = accepted + r.quantity
            /\ usageRequest' = [usageRequest EXCEPT ![c].step = IF r.metered THEN "enqueue" ELSE "warn",
                                          ![c].used = used'[r.period]]
  /\ UNCHANGED <<limit, wired, period, rows, drain, stripe, requests, resets,
                 meteringFaults, warned, unwired>>

(* Mutant: the row carries the counter's value. *)
Enqueue_Total(c) ==
  /\ usageRequest[c].step = "enqueue"
  /\ rows' = Append(rows, [quantity |-> usageRequest[c].used, synced |-> FALSE, attempts |-> 0])
  /\ usageRequest' = [usageRequest EXCEPT ![c].step = "warn"]
  /\ UNCHANGED <<limit, wired, period, counter, drain, stripe, requests, resets,
                 meteringFaults, warned, unwired>>

(* InsertMeteredEvent, with the quantity of this request. *)
Enqueue(c) ==
  /\ usageRequest[c].step = "enqueue"
  /\ rows' = Append(rows, [quantity |-> usageRequest[c].quantity, synced |-> FALSE, attempts |-> 0])
  /\ usageRequest' = [usageRequest EXCEPT ![c].step = "warn"]
  /\ UNCHANGED <<limit, wired, period, counter, drain, stripe, requests, resets,
                 meteringFaults, warned, unwired>>

(* Mutant: the warning goes out at every request above the threshold. *)
Crosses_Above(now, q) == limit > 0 /\ now * 100 >= Threshold * limit

(* The quota warning, once per crossing of the threshold. *)
Crosses(now, q) ==
  /\ limit > 0
  /\ now * 100 >= Threshold * limit
  /\ (now - q) * 100 < Threshold * limit

Warn(c) ==
  LET r == usageRequest[c] IN
  /\ r.step = "warn"
  /\ warned' = IF Crosses(r.used, r.quantity)
                 THEN [warned EXCEPT ![r.period] = @ + 1] ELSE warned
  /\ usageRequest' = [usageRequest EXCEPT ![c] = NoOne]
  /\ UNCHANGED <<limit, wired, period, counter, rows, drain, stripe, requests,
                 resets, meteringFaults, unwired>>

(* A failing count answers 500; a failing insert of the row is only logged. *)
UsageFails(c) ==
  /\ Fault
  /\ \/ usageRequest[c].step = "count" /\ usageRequest' = [usageRequest EXCEPT ![c] = NoOne]
     \/ usageRequest[c].step = "enqueue" /\ usageRequest' = [usageRequest EXCEPT ![c].step = "warn"]
  /\ UNCHANGED <<limit, wired, period, counter, rows, drain, stripe, requests,
                 resets, warned, unwired>>

UsageDies(c) ==
  /\ usageRequest[c].step # "idle" /\ Fault
  /\ usageRequest' = [usageRequest EXCEPT ![c] = NoOne]
  /\ UNCHANGED <<limit, wired, period, counter, rows, drain, stripe, requests,
                 resets, warned, unwired>>

-----------------------------------------------------------------------------
(* Administrators and time *)

(* ResetUsageCounter, of the period's counter. *)
Reset ==
  /\ resets < MaxResets /\ resets' = resets + 1
  /\ used' = [used EXCEPT ![period] = 0]
  /\ UNCHANGED <<limit, wired, period, accepted, usageRequest, rows, drain, stripe,
                 requests, meteringFaults, warned, unwired>>

(* The meter is taken off the entitlement, or put back. *)
Reconfigure ==
  /\ wired' = ~ wired
  /\ unwired' = (unwired \/ wired)
  /\ UNCHANGED <<limit, period, counter, usageRequest, rows, drain, stripe, requests,
                 resets, meteringFaults, warned>>

(* CurrentPeriodKey changes with the clock. *)
NextPeriod ==
  /\ period + 1 \in Periods /\ period' = period + 1
  /\ UNCHANGED <<limit, wired, counter, usageRequest, rows, drain, stripe, requests,
                 resets, meteringFaults, warned, unwired>>

(* Stripe forgets identifiers after a day. *)
Forget ==
  /\ forgets < MaxForgets /\ forgets' = forgets + 1
  /\ \E i \in known : known' = known \ {i}
  /\ UNCHANGED <<limit, wired, period, counter, usageRequest, rows, drain, billed,
                 requests, resets, meteringFaults, warned, unwired>>

-----------------------------------------------------------------------------
(* Drains (MeteredBillingSyncer.RunOnce) *)

DrainStep(d, step) == drain' = [drain EXCEPT ![d].step = step]

(* Mutant: rows that used up their attempts are listed as well. *)
Pending_All(row) == ~ row.synced

Pending(row) == ~ row.synced /\ row.attempts < MaxAttempts

(* A list is the set of its rows, which are taken from the oldest on. *)
Oldest(found) == {i \in found : Cardinality({j \in found : j < i}) < Batch}

(* ListUnsyncedMetered: the oldest rows with attempts left. *)
List(d) ==
  LET found == {i \in 1..Len(rows) : Pending(rows[i])} IN
  /\ drain[d].step = "idle" /\ found # {}
  /\ drain' = [drain EXCEPT ![d] = [step |-> "take", list |-> Oldest(found)]]
  /\ UNCHANGED <<limit, wired, period, counter, usageRequest, rows, stripe, requests,
                 resets, meteringFaults, warned, unwired>>

Current(d) == CHOOSE i \in drain[d].list : \A j \in drain[d].list : i <= j

(* The row is done with; the drain goes on to the next of its list.        *)
Done(d) ==
  LET rest == drain[d].list \ {Current(d)} IN
  drain' = [drain EXCEPT ![d] =
    IF rest = {} THEN Resting ELSE [step |-> "take", list |-> rest]]

(* syncOne looks the license up and finds the meter, or that it is gone.   *)
(* RunOnce looks at the attempts again, but at those it listed: a row that *)
(* ran out of them since is still taken.                                   *)
Take(d) ==
  /\ drain[d].step = "take"
  /\ DrainStep(d, IF wired THEN "push" ELSE "skip")
  /\ UNCHANGED <<limit, wired, period, counter, usageRequest, rows, stripe, requests,
                 resets, meteringFaults, warned, unwired>>

(* Mutant: every push carries an identifier of its own. *)
Bill_Again(i) ==
  /\ billed' = [billed EXCEPT ![i] = @ + 1]
  /\ known' = known \cup {i}

(* What Stripe makes of a meter event: an identifier counts once. *)
Bill(i) ==
  /\ billed' = IF i \in known THEN billed ELSE [billed EXCEPT ![i] = @ + 1]
  /\ known' = known \cup {i}

(* Mutant: the row is marked before the push. *)
Push_MarksFirst(d) ==
  /\ drain[d].step = "push"
  /\ rows' = [rows EXCEPT ![Current(d)].synced = TRUE]
  /\ \/ Bill(Current(d)) /\ DrainStep(d, "mark") /\ UNCHANGED meteringFaults
     \/ UNCHANGED <<billed, known>> /\ DrainStep(d, "fail") /\ Fault
  /\ UNCHANGED <<limit, wired, period, counter, usageRequest, forgets, requests,
                 resets, warned, unwired>>

(* The call to Stripe: it may fail, with or without having counted. *)
Push(d) ==
  /\ drain[d].step = "push"
  /\ \/ Bill(Current(d)) /\ DrainStep(d, "mark") /\ UNCHANGED meteringFaults
     \/ Bill(Current(d)) /\ DrainStep(d, "fail") /\ Fault
     \/ UNCHANGED <<billed, known>> /\ DrainStep(d, "fail") /\ Fault
  /\ UNCHANGED <<limit, wired, period, counter, usageRequest, rows, forgets, requests,
                 resets, warned, unwired>>

(* MarkMeteredSynced, after a push or for a row without a meter. *)
Mark(d) ==
  /\ drain[d].step \in {"mark", "skip"}
  /\ rows' = [rows EXCEPT ![Current(d)].synced = TRUE]
  /\ Done(d)
  /\ UNCHANGED <<limit, wired, period, counter, usageRequest, stripe, requests, resets,
                 meteringFaults, warned, unwired>>

(* Mutant: the failure counts twice, in syncOne and in its caller. *)
RecordFailure_Twice(d) ==
  /\ drain[d].step = "fail"
  /\ rows' = [rows EXCEPT ![Current(d)].attempts = @ + 2]
  /\ Done(d)
  /\ UNCHANGED <<limit, wired, period, counter, usageRequest, stripe, requests, resets,
                 meteringFaults, warned, unwired>>

(* RecordMeteredSyncFailure *)
RecordFailure(d) ==
  /\ drain[d].step = "fail"
  /\ rows' = [rows EXCEPT ![Current(d)].attempts = @ + 1]
  /\ Done(d)
  /\ UNCHANGED <<limit, wired, period, counter, usageRequest, stripe, requests, resets,
                 meteringFaults, warned, unwired>>

(* A failing look-up or mark is a failure of the row; a failing record of  *)
(* the failure is ignored.                                                 *)
DrainFails(d) ==
  /\ Fault
  /\ \/ drain[d].step \in {"take", "mark", "skip"} /\ DrainStep(d, "fail")
     \/ drain[d].step = "fail" /\ Done(d)
  /\ UNCHANGED <<limit, wired, period, counter, usageRequest, rows, stripe, requests,
                 resets, warned, unwired>>

DrainDies(d) ==
  /\ drain[d].step # "idle" /\ Fault
  /\ drain' = [drain EXCEPT ![d] = Resting]
  /\ UNCHANGED <<limit, wired, period, counter, usageRequest, rows, stripe, requests,
                 resets, warned, unwired>>

-----------------------------------------------------------------------------
MeteringInit ==
  /\ limit \in Limits /\ wired = TRUE /\ unwired = FALSE
  /\ period = 1
  /\ used = [p \in Periods |-> 0]
  /\ usageRequest = [c \in Clients |-> NoOne]
  /\ rows = <<>>
  /\ drain = [d \in Drainers |-> Resting]
  /\ known = {} /\ billed = [i \in Ids |-> 0]
  /\ requests = 0 /\ resets = 0 /\ forgets = 0 /\ meteringFaults = 0
  /\ accepted = 0
  /\ warned = [p \in Periods |-> 0]

ServeUsage(c) == Count(c) \/ Enqueue(c) \/ Warn(c)
Sync(d) == Take(d) \/ Push(d) \/ Mark(d) \/ RecordFailure(d)

MeteringNext ==
  \/ \E c \in Clients : Ask(c) \/ ServeUsage(c) \/ UsageFails(c) \/ UsageDies(c)
  \/ \E d \in Drainers : List(d) \/ Sync(d) \/ DrainFails(d) \/ DrainDies(d)
  \/ Reset \/ Reconfigure \/ NextPeriod \/ Forget

MeteringSpec == MeteringInit /\ [][MeteringNext]_meteringVars

-----------------------------------------------------------------------------
(* Properties *)

(* No interleaving of requests passes the quota, and the counter never     *)
(* leaves its width (IncrementUsageCounterWithLimit, usage.go:49-52).      *)
QuotaKept == \A p \in Periods : limit > 0 => used[p] <= limit

(* One warning per crossing: in a period, at most one, and one more for    *)
(* each reset (service/usage.go:138-139).                                  *)
WarnedOnce == \A p \in Periods : warned[p] <= 1 + resets

(* Retries, crashes and drains at the same time bill a row at most once,   *)
(* and once more each time Stripe forgets an identifier                    *)
(* (metered_sync.go:21-24).                                                *)
BilledOnce == \A i \in Ids : billed[i] <= 1 + forgets

(* A row leaves the queue unbilled only if the meter was taken off the     *)
(* entitlement while it waited (metered_sync.go:182-191).                  *)
SyncedIsBilled ==
  \A i \in 1..Len(rows) : rows[i].synced => billed[i] > 0 \/ unwired

(* A row is pushed MaxAttempts times at most, and once more for each other *)
(* drain that listed it before (metered_sync.go:116-121).                  *)
AttemptsBounded ==
  \A i \in 1..Len(rows) : rows[i].attempts < MaxAttempts + Cardinality(Drainers)

(* Rows without attempts left do not starve the others: every row is       *)
(* synced or uses up its attempts (store/metered.go:34-38).                *)
NotStarved ==
  \A i \in Ids :
    Len(rows) >= i ~> Len(rows) >= i /\ (rows[i].synced \/ rows[i].attempts >= MaxAttempts)

(* The sum of a sequence of numbers. *)
Total(s) ==
  LET upto[n \in 0..Len(s)] == IF n = 0 THEN 0 ELSE upto[n - 1] + s[n] IN upto[Len(s)]

(* The bill never exceeds what was counted, and each unit is on it once:   *)
(* counters, log and drains implement UsageBilling.                        *)
OnBill == Total([i \in 1..Len(rows) |-> rows[i].quantity * billed[i]])

Promise == INSTANCE UsageBilling WITH
  Quantities <- 1..MaxInt, unbilled <- accepted - OnBill, bill <- OnBill

ImplementsBilling == Promise!Spec
=============================================================================
