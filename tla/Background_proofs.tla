--------------------------- MODULE Background_proofs ---------------------------
(***************************************************************************)
(* Proofs about the outgoing webhooks and mails, for any number of them    *)
(* and of attempts, and what follows for Background.                       *)
(***************************************************************************)
EXTENDS Background, EventClaim_proofs, FiniteSetTheorems, WellFoundedInduction, TLAPS

(* Some natural numbers have a least one. *)
LEMMA LeastNumber ==
  ASSUME NEW S \in SUBSET Nat, S # {}
  PROVE  \E i \in S : \A j \in S : i <= j
<1> DEFINE Upto(i) == 0..i
           T == {Upto(i) : i \in S}
           R == StrictSubsetOrdering(Nat)
<1>1. T \subseteq FiniteSubsetsOf(Nat) /\ T # {}
  <2>1. \A i \in S : IsFiniteSet(Upto(i)) /\ Upto(i) \in SUBSET Nat
    BY FS_Interval
  <2>2. QED
    BY <2>1 DEF FiniteSubsetsOf
<1>2. PICK x \in T : \A y \in T : ~ (<<y, x>> \in R)
  BY <1>1, FS_StrictSubsetOrderingWellFounded, WFMin
<1>3. PICK i \in S : x = Upto(i)
  OBVIOUS
<1>4. ASSUME NEW j \in S, j < i PROVE FALSE
  <2>1. Upto(j) \subseteq Upto(i) /\ i \in Upto(i) /\ i \notin Upto(j)
    BY <1>4
  <2>2. <<Upto(j), x>> \in R
    BY <1>3, <2>1 DEF StrictSubsetOrdering
  <2>3. QED
    BY <1>2, <2>2
<1>5. QED
  BY <1>4

-----------------------------------------------------------------------------
(***************************************************************************)
(* Webhooks: rows, attempts and the copies a pass has listed agree.       *)
(***************************************************************************)
(* One process runs the retry loop, and no attempt outlasts the time its   *)
(* row is held for.                                                        *)
OneLoop == (\A k, l \in Loops : k = l) /\ ~ Saturated

(* A row that waits belongs to a webhook that exists and has attempts      *)
(* left, and nobody has posted it more often than it says.                 *)
RowInOrder(d) ==
  /\ row[d].status # "none" => row[d].hook \in Hooks
  /\ row[d].status = "none" => posts[d] = 0 /\ ~ Attempted(d)
  /\ row[d].status = "pending" => Exists(d) /\ row[d].tries < MaxRetries
  /\ row[d].status = "pending" /\ ~ Attempted(d) => posts[d] <= row[d].tries + unrecorded[d]
  /\ posts[d] <= MaxRetries + unrecorded[d]

(* The row of an attempt is held, and the attempt's copy is ahead of it by *)
(* the request that it sent.                                               *)
AttemptInOrder(s) ==
  LET a == attempt[s]
      r == row[a.delivery]
  IN
  /\ a.step = "free" <=> a.delivery = 0
  /\ a.delivery # 0 =>
       /\ r.status # "none" /\ r.tries < MaxRetries
       /\ Exists(a.delivery) => r.status = "pending" /\ r.next = "held"
       /\ a.tries = IF a.step = "answered" THEN r.tries + 1 ELSE r.tries
       /\ posts[a.delivery] <= a.tries + unrecorded[a.delivery]

(* A row the pass has listed is not attempted, and the copy is up to date. *)
ListedInOrder(c) ==
  LET d == c.delivery IN
  /\ ~ Attempted(d) /\ row[d].status # "none" /\ c.tries = row[d].tries
  /\ Exists(d) => row[d].status = "pending" /\ row[d].next # "held"

AllInOrder ==
  /\ \A d \in Deliveries : RowInOrder(d)
  /\ \A s \in Slots : AttemptInOrder(s)
  /\ \A l \in Loops : \A c \in pass[l] : ListedInOrder(c)

DeliveriesInOrder == WebhooksTypeOK /\ OneAttempt /\ AllInOrder

-----------------------------------------------------------------------------
(* What a pass looks at next is one of the rows it has listed. *)
LEMMA OldestIsListed ==
  ASSUME NEW S \in SUBSET ListedRow, S # {}
  PROVE  OldestListed(S) \in S
<1> DEFINE D == {c.delivery : c \in S}
<1>1. D \in SUBSET Nat /\ D # {}
  BY HookConstantsOK DEF HookConstantsOK, ListedRow
<1>2. PICK i \in D : \A j \in D : i <= j
  BY <1>1, LeastNumber
<1>3. PICK c \in S : c.delivery = i
  OBVIOUS
<1>4. \A e \in S : c.delivery <= e.delivery
  BY <1>2, <1>3
<1>5. QED
  BY <1>4 DEF OldestListed

(* Who is attempted depends on the slots alone. *)
LEMMA SlotsTell ==
  ASSUME NEW d, NEW s \in Slots, attempt[s].delivery = d
  PROVE  Attempted(d)
  BY DEF Attempted

(* An attempt that is in progress is of a delivery, and of no other slot.  *)
LEMMA InProgress ==
  ASSUME DeliveriesInOrder, NEW s \in Slots, attempt[s].step # "free"
  PROVE  /\ attempt[s].delivery \in Deliveries
         /\ attempt[s].delivery # 0
         /\ \A t \in Slots \ {s} : attempt[t].delivery # attempt[s].delivery
<1>1. attempt[s] \in Attempt /\ attempt[s].delivery # 0
  BY DEF DeliveriesInOrder, WebhooksTypeOK, AllInOrder, AttemptInOrder
<1>2. attempt[s].delivery \in Deliveries
  BY <1>1 DEF Attempt
<1>3. QED
  BY <1>1, <1>2 DEF DeliveriesInOrder, OneAttempt

-----------------------------------------------------------------------------
(* A new row is held, and its first attempt has a slot of its own. *)
LEMMA CreateKeepsOrder ==
  ASSUME DeliveriesInOrder, NEW h \in Hooks, hook[h] = "on", Create(h),
         UNCHANGED <<hook, pass, turns, hookFaults, posts, unrecorded>>
  PROVE  DeliveriesInOrder'
<1> DEFINE new == [NoRow EXCEPT !.status = "pending", !.hook = h, !.next = "held"]
<1>1. PICK d \in Deliveries : /\ row[d].status = "none"
                              /\ row' = [row EXCEPT ![d] = new] /\ Spawn(d, 0)
  BY DEF Create
<1> DEFINE first == [delivery |-> d, tries |-> 0, step |-> "queued", ok |-> FALSE]
<1>2. PICK s \in Slots : attempt[s].step = "free" /\ attempt' = [attempt EXCEPT ![s] = first]
  BY <1>1 DEF Spawn
<1>0. /\ WebhooksTypeOK /\ OneAttempt
      /\ row \in [Deliveries -> DeliveryRow] /\ attempt \in [Slots -> Attempt]
      /\ d # 0 /\ MaxRetries \in Nat \ {0}
  BY HookConstantsOK DEF HookConstantsOK, DeliveriesInOrder, WebhooksTypeOK
<1>3. /\ attempt[s].delivery = 0 /\ ~ Attempted(d)
      /\ posts[d] = 0 /\ unrecorded[d] \in Nat
  BY <1>0, <1>1, <1>2 DEF DeliveriesInOrder, AllInOrder, AttemptInOrder, RowInOrder, WebhooksTypeOK
<1>4. /\ row' \in [Deliveries -> DeliveryRow]
      /\ row'[d].status = "pending" /\ row'[d].hook = h /\ row'[d].tries = 0 /\ row'[d].next = "held"
      /\ \A e \in Deliveries : e # d => row'[e] = row[e]
  BY <1>0, <1>1 DEF NoRow, DeliveryRow
<1>5. /\ attempt' \in [Slots -> Attempt] /\ attempt'[s] = first
      /\ \A t \in Slots : t # s => attempt'[t] = attempt[t] /\ attempt[t].delivery # d
  BY <1>0, <1>2, <1>3 DEF Attempt, Attempted
<1>6. \A e \in Deliveries : e # d => (Attempted(e)' <=> Attempted(e))
  <2> SUFFICES ASSUME NEW e \in Deliveries, e # d
               PROVE  (\E t \in Slots : attempt'[t].delivery = e)
                        <=> \E t \in Slots : attempt[t].delivery = e
    BY DEF Attempted
  <2>1. e # 0
    BY HookConstantsOK DEF HookConstantsOK
  <2>2. QED
    BY <1>3, <1>5, <2>1
<1>7. WebhooksTypeOK'
  BY <1>0, <1>4, <1>5 DEF WebhooksTypeOK
<1>8. OneAttempt'
  BY <1>0, <1>5 DEF OneAttempt
<1>9. ASSUME NEW e \in Deliveries PROVE RowInOrder(e)'
  <2>1. CASE e = d
    <3>1. Attempted(d)'
      BY <1>5 DEF Attempted
    <3>2. QED
      BY <1>0, <1>3, <1>4, <2>1, <3>1 DEF RowInOrder, Exists
  <2>2. CASE e # d
    BY <1>4, <1>6, <2>2 DEF DeliveriesInOrder, AllInOrder, RowInOrder, Exists
  <2>3. QED
    BY <2>1, <2>2
<1>10. ASSUME NEW t \in Slots PROVE AttemptInOrder(t)'
  <2>1. CASE t = s
    BY <1>0, <1>3, <1>4, <1>5, <2>1 DEF AttemptInOrder, Exists
  <2>2. CASE t # s
    <3>1. attempt[t].delivery \in Deliveries \cup {0}
      BY <1>0 DEF Attempt
    <3>2. QED
      BY <1>4, <1>5, <2>2, <3>1 DEF DeliveriesInOrder, AllInOrder, AttemptInOrder, Exists
  <2>3. QED
    BY <2>1, <2>2
<1>11. ASSUME NEW l \in Loops, NEW c \in pass'[l] PROVE ListedInOrder(c)'
  <2>1. c \in pass[l] /\ c.delivery \in Deliveries /\ ListedInOrder(c)
    BY <1>0 DEF DeliveriesInOrder, AllInOrder, WebhooksTypeOK, ListedRow
  <2>2. c.delivery # d
    BY <1>1, <2>1 DEF ListedInOrder
  <2>3. QED
    BY <1>4, <1>6, <2>1, <2>2 DEF ListedInOrder, Exists
<1>12. QED
  BY <1>7, <1>8, <1>9, <1>10, <1>11 DEF DeliveriesInOrder, AllInOrder

(* A request is counted by the attempt that sends it. *)
LEMMA PostKeepsOrder ==
  ASSUME DeliveriesInOrder, NEW s \in Slots, Post(s)
  PROVE  DeliveriesInOrder'
<1> DEFINE a == attempt[s]
           d == a.delivery
           more == a.tries + 1
<1>0. /\ WebhooksTypeOK /\ OneAttempt
      /\ row \in [Deliveries -> DeliveryRow] /\ attempt \in [Slots -> Attempt]
      /\ posts \in [Deliveries -> Nat] /\ unrecorded \in [Deliveries -> Nat]
  BY DEF DeliveriesInOrder, WebhooksTypeOK
<1>1. /\ a.step = "queued" /\ posts' = [posts EXCEPT ![d] = @ + 1]
      /\ UNCHANGED <<hook, row, pass, turns, hookFaults, unrecorded>>
  BY DEF Post
<1>2. PICK ok \in BOOLEAN :
        attempt' = [attempt EXCEPT ![s].step = "answered", ![s].ok = ok, ![s].tries = @ + 1]
  BY DEF Post
<1>3. d \in Deliveries /\ d # 0 /\ \A t \in Slots \ {s} : attempt[t].delivery # d
  BY <1>1, InProgress
<1>4. /\ attempt' \in [Slots -> Attempt]
      /\ attempt'[s].step = "answered" /\ attempt'[s].tries = more
      /\ \A t \in Slots : attempt'[t].delivery = attempt[t].delivery
      /\ \A t \in Slots \ {s} : attempt'[t] = attempt[t]
  <2>1. attempt[s] \in Attempt /\ more \in Nat
    BY <1>0 DEF Attempt
  <2>2. attempt' = [attempt EXCEPT ![s] = [attempt[s] EXCEPT !.step = "answered", !.ok = ok, !.tries = more]]
    BY <1>2
  <2> HIDE DEF more
  <2>3. QED
    BY <1>0, <2>1, <2>2 DEF Attempt
<1>5. /\ posts' \in [Deliveries -> Nat] /\ posts'[d] = posts[d] + 1
      /\ \A e \in Deliveries : e # d => posts'[e] = posts[e]
  BY <1>0, <1>1, <1>3
<1>6. /\ row[d].status # "none" /\ row[d].tries < MaxRetries /\ a.tries = row[d].tries
      /\ posts[d] <= a.tries + unrecorded[d]
      /\ Exists(d) => row[d].status = "pending" /\ row[d].next = "held"
  BY <1>1, <1>3 DEF DeliveriesInOrder, AllInOrder, AttemptInOrder
<1>7. \A e \in Deliveries : Attempted(e)' <=> Attempted(e)
  BY <1>4 DEF Attempted
<1>8. Attempted(d)
  BY DEF Attempted
<1>9. row[d].tries \in Nat /\ MaxRetries \in Nat
  BY <1>0, <1>3, HookConstantsOK DEF HookConstantsOK, DeliveryRow
<1>10. WebhooksTypeOK' /\ OneAttempt'
  BY <1>0, <1>1, <1>4, <1>5 DEF WebhooksTypeOK, OneAttempt
<1>11. ASSUME NEW e \in Deliveries PROVE RowInOrder(e)'
  <2>1. RowInOrder(e) /\ (Attempted(e)' <=> Attempted(e))
    BY <1>7 DEF DeliveriesInOrder, AllInOrder
  <2>2. CASE e = d
    <3>1. posts'[d] <= MaxRetries + unrecorded[d]
      BY <1>0, <1>3, <1>5, <1>6, <1>9
    <3>2. QED
      BY <1>1, <1>6, <1>8, <2>1, <2>2, <3>1 DEF RowInOrder, Exists
  <2>3. CASE e # d
    BY <1>1, <1>5, <2>1, <2>3 DEF RowInOrder, Exists
  <2>4. QED
    BY <2>2, <2>3
<1>12. ASSUME NEW t \in Slots PROVE AttemptInOrder(t)'
  <2>1. CASE t = s
    <3>1. posts'[d] <= more + unrecorded[d]
      BY <1>0, <1>3, <1>5, <1>6, <1>9
    <3>2. attempt'[t].tries = row[d].tries + 1
      BY <1>4, <1>6, <2>1
    <3>3. QED
      BY <1>1, <1>3, <1>4, <1>6, <2>1, <3>1, <3>2 DEF AttemptInOrder, Exists
  <2>2. CASE t # s
    <3>1. attempt[t].delivery \in Deliveries \cup {0} /\ attempt[t].delivery # d
      BY <1>0, <1>3, <2>2 DEF Attempt
    <3>2. AttemptInOrder(t)
      BY DEF DeliveriesInOrder, AllInOrder
    <3>3. QED
      BY <1>1, <1>4, <1>5, <2>2, <3>1, <3>2 DEF AttemptInOrder, Exists
  <2>3. QED
    BY <2>1, <2>2
<1>13. ASSUME NEW l \in Loops, NEW c \in pass'[l] PROVE ListedInOrder(c)'
  <2>1. c \in pass[l] /\ c.delivery \in Deliveries /\ ListedInOrder(c)
    BY <1>0, <1>1 DEF DeliveriesInOrder, AllInOrder, WebhooksTypeOK, ListedRow
  <2>2. Attempted(c.delivery)' <=> Attempted(c.delivery)
    BY <1>7, <2>1
  <2>3. QED
    BY <1>1, <2>1, <2>2 DEF ListedInOrder, Exists
<1>14. QED
  BY <1>10, <1>11, <1>12, <1>13 DEF DeliveriesInOrder, AllInOrder

(* A slot that is left: its delivery is not attempted any more, the others *)
(* are as before.                                                          *)
LEMMA SlotIsLeft ==
  ASSUME DeliveriesInOrder, NEW s \in Slots, attempt[s].step # "free",
         NEW d, d = attempt[s].delivery,
         attempt' = [attempt EXCEPT ![s] = NoAttempt]
  PROVE  /\ attempt' \in [Slots -> Attempt] /\ OneAttempt'
         /\ \A t \in Slots \ {s} : attempt'[t] = attempt[t]
         /\ attempt'[s].step = "free" /\ attempt'[s].delivery = 0
         /\ ~ Attempted(d)'
         /\ \A e \in Deliveries \ {d} : Attempted(e)' <=> Attempted(e)
<1>0. attempt \in [Slots -> Attempt] /\ OneAttempt
  BY DEF DeliveriesInOrder, WebhooksTypeOK
<1>1. /\ attempt' \in [Slots -> Attempt] /\ attempt'[s] = NoAttempt
      /\ \A t \in Slots \ {s} : attempt'[t] = attempt[t]
  BY <1>0 DEF NoAttempt, Attempt
<1>2. NoAttempt.step = "free" /\ NoAttempt.delivery = 0
  BY DEF NoAttempt
<1>3. OneAttempt'
  BY <1>0, <1>1, <1>2 DEF OneAttempt
<1>4. ~ Attempted(d)'
  <2>1. d # 0 /\ \A t \in Slots \ {s} : attempt[t].delivery # d
    BY InProgress
  <2>2. ~ \E t \in Slots : attempt'[t].delivery = d
    BY <1>1, <1>2, <2>1
  <2>3. QED
    BY <2>2 DEF Attempted
<1>5. ASSUME NEW e \in Deliveries, e # d
      PROVE  Attempted(e)' <=> Attempted(e)
  <2> SUFFICES (\E t \in Slots : attempt'[t].delivery = e)
                 <=> \E t \in Slots : attempt[t].delivery = e
    BY DEF Attempted
  <2>1. e # 0
    BY HookConstantsOK DEF HookConstantsOK
  <2>2. QED
    BY <1>1, <1>2, <1>5, <2>1
<1>6. QED
  BY <1>1, <1>2, <1>3, <1>4, <1>5

(* The result is written if the row is still there. *)
LEMMA UpdateKeepsOrder ==
  ASSUME DeliveriesInOrder, NEW s \in Slots, UpdateWebhookDelivery(s)
  PROVE  DeliveriesInOrder'
<1> DEFINE a == attempt[s]
<1>a. PICK d \in Deliveries : d = a.delivery
  BY InProgress DEF UpdateWebhookDelivery
<1> DEFINE written == [row[d] EXCEPT !.status = Written(a).status, !.next = Written(a).next,
                                    !.tries = a.tries]
<1>0. /\ WebhooksTypeOK /\ OneAttempt
      /\ row \in [Deliveries -> DeliveryRow] /\ a \in Attempt
      /\ posts \in [Deliveries -> Nat] /\ unrecorded \in [Deliveries -> Nat]
  BY DEF DeliveriesInOrder, WebhooksTypeOK
<1>1. /\ a.step = "answered" /\ attempt' = [attempt EXCEPT ![s] = NoAttempt]
      /\ row' = IF Exists(d) THEN [row EXCEPT ![d] = written] ELSE row
      /\ UNCHANGED <<hook, pass, turns, hookFaults, posts, unrecorded>>
  BY <1>a DEF UpdateWebhookDelivery
<1>2. d \in Deliveries /\ d # 0 /\ \A t \in Slots \ {s} : attempt[t].delivery # d
  BY <1>a, <1>1, InProgress
<1>3. /\ row[d].status # "none" /\ row[d].tries < MaxRetries /\ a.tries = row[d].tries + 1
      /\ posts[d] <= a.tries + unrecorded[d]
  BY <1>a, <1>1, <1>2 DEF DeliveriesInOrder, AllInOrder, AttemptInOrder
<1>4. row[d].tries \in Nat /\ a.tries \in Nat /\ MaxRetries \in Nat
  BY <1>0, <1>2, HookConstantsOK DEF HookConstantsOK, DeliveryRow, Attempt
<1>5. /\ attempt' \in [Slots -> Attempt] /\ OneAttempt'
      /\ \A t \in Slots \ {s} : attempt'[t] = attempt[t]
      /\ attempt'[s].step = "free" /\ attempt'[s].delivery = 0
      /\ ~ Attempted(d)'
      /\ \A e \in Deliveries \ {d} : Attempted(e)' <=> Attempted(e)
  BY <1>a, <1>1, SlotIsLeft
<1>6. /\ Written(a).status \in {"delivered", "failed", "pending"} /\ Written(a).next = "held"
      /\ Written(a).status = "pending" => a.tries < MaxRetries
  <2>1. CASE a.ok
    BY <2>1 DEF Written
  <2>2. CASE ~ a.ok /\ a.tries >= MaxRetries
    BY <2>2 DEF Written
  <2>3. CASE ~ a.ok /\ ~ (a.tries >= MaxRetries)
    BY <1>4, <2>3 DEF Written
  <2>4. QED
    BY <2>1, <2>2, <2>3
<1>7. /\ row' \in [Deliveries -> DeliveryRow]
      /\ \A e \in Deliveries : row'[e].hook = row[e].hook
      /\ \A e \in Deliveries \ {d} : row'[e] = row[e]
      /\ Exists(d) => row'[d].status = Written(a).status /\ row'[d].tries = a.tries
      /\ ~ Exists(d) => row'[d] = row[d]
  <2>1. row[d] \in DeliveryRow
    BY <1>0, <1>2
  <2>2. CASE Exists(d)
    <3> HIDE DEF a
    <3>1. row' = [row EXCEPT ![d] = written]
      BY <1>1, <2>2
    <3>2. /\ written \in DeliveryRow /\ written.hook = row[d].hook
          /\ written.status = Written(a).status /\ written.tries = a.tries
      BY <1>4, <1>6, <2>1 DEF DeliveryRow
    <3> HIDE DEF written
    <3>3. QED
      BY <1>0, <1>2, <2>2, <3>1, <3>2
  <2>3. CASE ~ Exists(d)
    BY <1>0, <1>1, <2>3
  <2>4. QED
    BY <2>2, <2>3
<1>8. WebhooksTypeOK'
  BY <1>0, <1>1, <1>5, <1>7 DEF WebhooksTypeOK
<1>9. ASSUME NEW e \in Deliveries PROVE RowInOrder(e)'
  <2>1. RowInOrder(e)
    BY DEF DeliveriesInOrder, AllInOrder
  <2>2. CASE e # d
    <3>1. Attempted(e)' <=> Attempted(e)
      BY <1>5, <2>2
    <3>2. QED
      BY <1>1, <1>7, <2>1, <2>2, <3>1 DEF RowInOrder, Exists
  <2>3. CASE e = d /\ Exists(d)
    <3>1. row'[d].status # "none" /\ row'[d].hook \in Hooks
      BY <1>3, <1>6, <1>7, <2>1, <2>3 DEF RowInOrder
    <3>2. Exists(d)'
      BY <1>1, <1>7, <2>3, <3>1 DEF Exists
    <3>3. /\ row'[d].status = "pending" => row'[d].tries < MaxRetries
          /\ posts[d] <= row'[d].tries + unrecorded[d]
          /\ posts[d] <= MaxRetries + unrecorded[d]
      BY <1>0, <1>2, <1>3, <1>4, <1>6, <1>7, <2>3
    <3>4. QED
      BY <1>1, <2>3, <3>1, <3>2, <3>3 DEF RowInOrder
  <2>4. CASE e = d /\ ~ Exists(d)
    <3>1. row'[d] = row[d] /\ row[d].status # "pending"
      BY <1>7, <2>1, <2>4 DEF RowInOrder
    <3>2. QED
      BY <1>1, <1>3, <2>1, <2>4, <3>1 DEF RowInOrder
  <2>5. QED
    BY <2>2, <2>3, <2>4
<1>10. ASSUME NEW t \in Slots PROVE AttemptInOrder(t)'
  <2>1. CASE t = s
    BY <1>5, <2>1 DEF AttemptInOrder
  <2>2. CASE t # s
    <3>1. attempt[t].delivery \in Deliveries \cup {0} /\ attempt[t].delivery # d
      BY <1>0, <1>2, <2>2 DEF WebhooksTypeOK, Attempt
    <3>2. AttemptInOrder(t)
      BY DEF DeliveriesInOrder, AllInOrder
    <3>3. QED
      BY <1>1, <1>5, <1>7, <2>2, <3>1, <3>2 DEF AttemptInOrder, Exists
  <2>3. QED
    BY <2>1, <2>2
<1>11. ASSUME NEW l \in Loops, NEW c \in pass'[l] PROVE ListedInOrder(c)'
  <2>1. c \in pass[l] /\ c.delivery \in Deliveries /\ ListedInOrder(c)
    BY <1>0, <1>1 DEF DeliveriesInOrder, AllInOrder, WebhooksTypeOK, ListedRow
  <2>2. c.delivery # d
    BY <1>a, <2>1, SlotsTell DEF ListedInOrder
  <2>3. Attempted(c.delivery)' <=> Attempted(c.delivery)
    BY <1>5, <2>1, <2>2
  <2>4. QED
    BY <1>1, <1>7, <2>1, <2>2, <2>3 DEF ListedInOrder, Exists
<1>12. QED
  BY <1>5, <1>8, <1>9, <1>10, <1>11 DEF DeliveriesInOrder, AllInOrder

(* An attempt that dies, or whose result is not written, is counted as     *)
(* unrecorded if it has sent its request.                                  *)
LEMMA LossKeepsOrder ==
  ASSUME DeliveriesInOrder, NEW s \in Slots, AttemptLost(s)
  PROVE  DeliveriesInOrder'
<1> DEFINE a == attempt[s]
<1>a. PICK d \in Deliveries : d = a.delivery
  BY InProgress DEF AttemptLost
<1>0. /\ WebhooksTypeOK /\ OneAttempt /\ hookFaults \in Nat
      /\ row \in [Deliveries -> DeliveryRow] /\ a \in Attempt
      /\ posts \in [Deliveries -> Nat] /\ unrecorded \in [Deliveries -> Nat]
  BY DEF DeliveriesInOrder, WebhooksTypeOK
<1>1. /\ a.step # "free" /\ attempt' = [attempt EXCEPT ![s] = NoAttempt]
      /\ hookFaults' = hookFaults + 1
      /\ unrecorded' = IF a.step = "answered" THEN [unrecorded EXCEPT ![d] = @ + 1] ELSE unrecorded
      /\ UNCHANGED <<hook, row, pass, turns, posts>>
  BY <1>a DEF AttemptLost
<1>2. d \in Deliveries /\ d # 0 /\ \A t \in Slots \ {s} : attempt[t].delivery # d
  BY <1>a, <1>1, InProgress
<1>3. /\ row[d].status # "none" /\ row[d].tries < MaxRetries
      /\ a.tries = IF a.step = "answered" THEN row[d].tries + 1 ELSE row[d].tries
      /\ posts[d] <= a.tries + unrecorded[d]
  BY <1>a, <1>2 DEF DeliveriesInOrder, AllInOrder, AttemptInOrder
<1>4. row[d].tries \in Nat /\ a.tries \in Nat /\ MaxRetries \in Nat
  BY <1>0, <1>2, HookConstantsOK DEF HookConstantsOK, DeliveryRow, Attempt
<1>5. /\ attempt' \in [Slots -> Attempt] /\ OneAttempt'
      /\ \A t \in Slots \ {s} : attempt'[t] = attempt[t]
      /\ attempt'[s].step = "free" /\ attempt'[s].delivery = 0
      /\ ~ Attempted(d)'
      /\ \A e \in Deliveries \ {d} : Attempted(e)' <=> Attempted(e)
  BY <1>a, <1>1, SlotIsLeft
<1>6. /\ unrecorded' \in [Deliveries -> Nat]
      /\ unrecorded'[d] = IF a.step = "answered" THEN unrecorded[d] + 1 ELSE unrecorded[d]
      /\ \A e \in Deliveries \ {d} : unrecorded'[e] = unrecorded[e]
  <2>1. CASE a.step = "answered"
    BY <1>0, <1>1, <1>2, <2>1
  <2>2. CASE a.step # "answered"
    BY <1>0, <1>1, <2>2
  <2>3. QED
    BY <2>1, <2>2
<1>7. WebhooksTypeOK'
  BY <1>0, <1>1, <1>5, <1>6 DEF WebhooksTypeOK
<1>8. ASSUME NEW e \in Deliveries PROVE RowInOrder(e)'
  <2>1. RowInOrder(e)
    BY DEF DeliveriesInOrder, AllInOrder
  <2>2. CASE e # d
    <3>1. Attempted(e)' <=> Attempted(e)
      BY <1>5, <2>2
    <3>2. QED
      BY <1>1, <1>6, <2>1, <2>2, <3>1 DEF RowInOrder, Exists
  <2>3. CASE e = d
    <3>1. posts[d] <= row[d].tries + unrecorded'[d]
      BY <1>0, <1>2, <1>3, <1>4, <1>6
    <3>2. posts[d] <= MaxRetries + unrecorded'[d]
      BY <1>0, <1>2, <1>3, <1>4, <1>6, <3>1
    <3>3. QED
      BY <1>1, <1>3, <2>1, <2>3, <3>1, <3>2 DEF RowInOrder, Exists
  <2>4. QED
    BY <2>2, <2>3
<1>9. ASSUME NEW t \in Slots PROVE AttemptInOrder(t)'
  <2>1. CASE t = s
    BY <1>5, <2>1 DEF AttemptInOrder
  <2>2. CASE t # s
    <3>1. attempt[t].delivery \in Deliveries \cup {0} /\ attempt[t].delivery # d
      BY <1>0, <1>2, <2>2 DEF WebhooksTypeOK, Attempt
    <3>2. AttemptInOrder(t)
      BY DEF DeliveriesInOrder, AllInOrder
    <3>3. QED
      BY <1>1, <1>5, <1>6, <2>2, <3>1, <3>2 DEF AttemptInOrder, Exists
  <2>3. QED
    BY <2>1, <2>2
<1>10. ASSUME NEW l \in Loops, NEW c \in pass'[l] PROVE ListedInOrder(c)'
  <2>1. c \in pass[l] /\ c.delivery \in Deliveries /\ ListedInOrder(c)
    BY <1>0, <1>1 DEF DeliveriesInOrder, AllInOrder, WebhooksTypeOK, ListedRow
  <2>2. c.delivery # d
    BY <1>a, <2>1, SlotsTell DEF ListedInOrder
  <2>3. Attempted(c.delivery)' <=> Attempted(c.delivery)
    BY <1>5, <2>1, <2>2
  <2>4. QED
    BY <1>1, <2>1, <2>3 DEF ListedInOrder, Exists
<1>11. QED
  BY <1>5, <1>7, <1>8, <1>9, <1>10 DEF DeliveriesInOrder, AllInOrder

-----------------------------------------------------------------------------
(* A pass that lists or forgets rows leaves the rest as it is. *)
LEMMA PassKeepsOrder ==
  ASSUME DeliveriesInOrder, UNCHANGED <<hook, row, attempt, posts, unrecorded>>,
         WebhooksTypeOK', \A l \in Loops : \A c \in pass'[l] : ListedInOrder(c)
  PROVE  DeliveriesInOrder'
<1>1. \A e : Attempted(e)' <=> Attempted(e)
  BY DEF Attempted
<1>2. OneAttempt'
  BY DEF DeliveriesInOrder, OneAttempt
<1>3. ASSUME NEW e \in Deliveries PROVE RowInOrder(e)'
  <2>1. RowInOrder(e) /\ (Attempted(e)' <=> Attempted(e))
    BY <1>1 DEF DeliveriesInOrder, AllInOrder
  <2>2. QED
    BY <2>1 DEF RowInOrder, Exists
<1>4. ASSUME NEW t \in Slots PROVE AttemptInOrder(t)'
  BY DEF DeliveriesInOrder, AllInOrder, AttemptInOrder, Exists
<1>5. ASSUME NEW l \in Loops, NEW c \in pass'[l] PROVE ListedInOrder(c)'
  <2>1. ListedInOrder(c) /\ (Attempted(c.delivery)' <=> Attempted(c.delivery))
    BY <1>1
  <2>2. QED
    BY <2>1 DEF ListedInOrder, Exists
<1>6. QED
  BY <1>2, <1>3, <1>4, <1>5 DEF DeliveriesInOrder, AllInOrder

LEMMA ListingKeepsOrder ==
  ASSUME DeliveriesInOrder, NEW l \in Loops, ListPendingDeliveries(l) \/ PassLost(l)
  PROVE  DeliveriesInOrder'
<1>0. /\ WebhooksTypeOK /\ pass \in [Loops -> SUBSET ListedRow]
      /\ row \in [Deliveries -> DeliveryRow] /\ hookFaults \in Nat
  BY DEF DeliveriesInOrder, WebhooksTypeOK
<1>1. CASE ListPendingDeliveries(l)
  <2>1. /\ UNCHANGED <<hook, row, attempt, turns, hookFaults, posts, unrecorded>>
        /\ \E D \in SUBSET PendingDeliveries :
             pass' = [pass EXCEPT ![l] = {[delivery |-> d, tries |-> row[d].tries] : d \in D}]
    BY <1>1 DEF ListPendingDeliveries
  <2>2. PICK D \in SUBSET PendingDeliveries :
          pass' = [pass EXCEPT ![l] = {[delivery |-> d, tries |-> row[d].tries] : d \in D}]
    BY <2>1
  <2>3. ASSUME NEW d \in D
        PROVE  LET c == [delivery |-> d, tries |-> row[d].tries]
               IN c \in ListedRow /\ ListedInOrder(c)
    <3>1. d \in Deliveries /\ row[d].status = "pending" /\ row[d].next # "held"
      BY DEF PendingDeliveries
    <3>2. row[d].tries \in Nat /\ Exists(d)
      BY <1>0, <3>1 DEF DeliveryRow, DeliveriesInOrder, AllInOrder, RowInOrder
    <3>3. ~ Attempted(d)
      <4> SUFFICES ASSUME NEW s \in Slots, attempt[s].delivery = d PROVE FALSE
        BY DEF Attempted
      <4>1. d # 0
        BY <3>1, HookConstantsOK DEF HookConstantsOK
      <4>2. QED
        BY <3>1, <3>2, <4>1 DEF DeliveriesInOrder, AllInOrder, AttemptInOrder
    <3>4. QED
      BY <3>1, <3>2, <3>3 DEF ListedRow, ListedInOrder
  <2> DEFINE all == {[delivery |-> d, tries |-> row[d].tries] : d \in D}
  <2>4. all \in SUBSET ListedRow /\ \A c \in all : ListedInOrder(c)
    BY <2>3
  <2> HIDE DEF all
  <2>5. pass' \in [Loops -> SUBSET ListedRow] /\ \A k \in Loops : pass'[k] \in {pass[k], all}
    <3>1. pass' = [pass EXCEPT ![l] = all]
      BY <2>2 DEF all
    <3>2. QED
      BY <1>0, <2>4, <3>1
  <2>6. WebhooksTypeOK'
    BY <1>0, <2>1, <2>5 DEF WebhooksTypeOK
  <2>7. \A k \in Loops : \A c \in pass'[k] : ListedInOrder(c)
    BY <2>4, <2>5 DEF DeliveriesInOrder, AllInOrder
  <2>8. QED
    BY <2>1, <2>6, <2>7, PassKeepsOrder
<1>2. CASE PassLost(l)
  <2>1. /\ UNCHANGED <<hook, row, attempt, turns, posts, unrecorded>>
        /\ hookFaults' = hookFaults + 1
        /\ \E rest \in SUBSET pass[l] : pass' = [pass EXCEPT ![l] = rest]
    BY <1>2 DEF PassLost
  <2>2. pass' \in [Loops -> SUBSET ListedRow] /\ \A k \in Loops : pass'[k] \subseteq pass[k]
    BY <1>0, <2>1
  <2>3. WebhooksTypeOK'
    BY <1>0, <2>1, <2>2 DEF WebhooksTypeOK
  <2>4. \A k \in Loops : \A c \in pass'[k] : ListedInOrder(c)
    BY <2>2 DEF DeliveriesInOrder, AllInOrder
  <2>5. QED
    BY <2>1, <2>3, <2>4, PassKeepsOrder
<1>3. QED
  BY <1>1, <1>2

(* With one loop, the copies of a pass are of different rows. *)
LEMMA ListedOnce ==
  ASSUME DeliveriesInOrder, OneLoop, NEW l \in Loops, NEW c \in pass[l],
         NEW k \in Loops, NEW e \in pass[k], e.delivery = c.delivery
  PROVE  e = c
<1>1. c \in ListedRow /\ e \in ListedRow
  BY DEF DeliveriesInOrder, WebhooksTypeOK
<1>2. c.tries = e.tries
  BY DEF DeliveriesInOrder, AllInOrder, ListedInOrder
<1>3. QED
  BY <1>1, <1>2 DEF ListedRow

LEMMA RetryKeepsOrder ==
  ASSUME DeliveriesInOrder, OneLoop, NEW l \in Loops, Retry(l)
  PROVE  DeliveriesInOrder'
<1>0. /\ WebhooksTypeOK /\ OneAttempt /\ pass \in [Loops -> SUBSET ListedRow]
      /\ row \in [Deliveries -> DeliveryRow] /\ attempt \in [Slots -> Attempt]
      /\ posts \in [Deliveries -> Nat] /\ unrecorded \in [Deliveries -> Nat]
  BY DEF DeliveriesInOrder, WebhooksTypeOK
<1>1. pass[l] # {} /\ UNCHANGED <<hook, turns, hookFaults, posts, unrecorded>>
  BY DEF Retry
<1>2. PICK c \in pass[l] : c = OldestListed(pass[l])
  BY <1>0, <1>1, OldestIsListed
<1>3. PICK d \in Deliveries : d = c.delivery
  BY <1>0, <1>2 DEF ListedRow
<1>4. /\ pass' = [pass EXCEPT ![l] = @ \ {c}]
      /\ IF hook[row[d].hook] # "on"
           THEN /\ row' = IF Exists(d) THEN [row EXCEPT ![d].status = "failed", ![d].next = "unset"]
                                       ELSE row
                /\ UNCHANGED attempt
           ELSE /\ row' = [row EXCEPT ![d].status = "pending", ![d].next = "held",
                                     ![d].tries = c.tries]
                /\ Spawn(d, c.tries)
  BY <1>2, <1>3 DEF Retry
<1>5. /\ ~ Attempted(d) /\ row[d].status # "none" /\ c.tries = row[d].tries
      /\ Exists(d) => row[d].status = "pending"
      /\ RowInOrder(d) /\ d # 0 /\ row[d] \in DeliveryRow
  BY <1>0, <1>3, HookConstantsOK
  DEF DeliveriesInOrder, AllInOrder, ListedInOrder, HookConstantsOK
<1>6. /\ pass' \in [Loops -> SUBSET ListedRow]
      /\ \A k \in Loops : \A e \in pass'[k] : e \in pass[k] /\ e.delivery # d
  <2>1. pass' \in [Loops -> SUBSET ListedRow] /\ \A k \in Loops : k = l /\ pass'[k] = pass[k] \ {c}
    BY <1>0, <1>4 DEF OneLoop
  <2>2. ASSUME NEW k \in Loops, NEW e \in pass'[k] PROVE e \in pass[k] /\ e.delivery # d
    BY <1>3, <2>1, ListedOnce
  <2>3. QED
    BY <2>1, <2>2
<1>7. CASE hook[row[d].hook] # "on"
  <2>1. /\ UNCHANGED attempt
        /\ row' = IF Exists(d) THEN [row EXCEPT ![d].status = "failed", ![d].next = "unset"] ELSE row
    BY <1>4, <1>7
  <2>2. /\ row' \in [Deliveries -> DeliveryRow]
        /\ row'[d].hook = row[d].hook /\ row'[d].tries = row[d].tries
        /\ row'[d].status = (IF Exists(d) THEN "failed" ELSE row[d].status)
        /\ \A e \in Deliveries \ {d} : row'[e] = row[e]
    BY <1>0, <1>5, <2>1 DEF DeliveryRow
  <2>3. row'[d].status \notin {"none", "pending"}
    BY <1>5, <2>2 DEF RowInOrder
  <2>4. \A e : Attempted(e)' <=> Attempted(e)
    BY <2>1 DEF Attempted
  <2>5. WebhooksTypeOK' /\ OneAttempt'
    BY <1>0, <1>1, <1>6, <2>1, <2>2 DEF WebhooksTypeOK, OneAttempt
  <2>6. ASSUME NEW e \in Deliveries PROVE RowInOrder(e)'
    <3>1. RowInOrder(e) /\ (Attempted(e)' <=> Attempted(e))
      BY <2>4 DEF DeliveriesInOrder, AllInOrder
    <3>2. CASE e = d
      BY <1>1, <1>5, <2>2, <2>3, <3>1, <3>2 DEF RowInOrder
    <3>3. CASE e # d
      BY <1>1, <2>2, <3>1, <3>3 DEF RowInOrder, Exists
    <3>4. QED
      BY <3>2, <3>3
  <2>7. ASSUME NEW t \in Slots PROVE AttemptInOrder(t)'
    <3>1. /\ attempt[t].delivery \in Deliveries \cup {0} /\ attempt[t].delivery # d
          /\ AttemptInOrder(t)
      BY <1>0, <1>5, SlotsTell DEF Attempt, DeliveriesInOrder, AllInOrder
    <3>2. QED
      BY <1>1, <2>1, <2>2, <3>1 DEF AttemptInOrder, Exists
  <2>8. ASSUME NEW k \in Loops, NEW e \in pass'[k] PROVE ListedInOrder(e)'
    <3>1. /\ e \in pass[k] /\ e.delivery \in Deliveries /\ e.delivery # d /\ ListedInOrder(e)
          /\ (Attempted(e.delivery)' <=> Attempted(e.delivery))
      BY <1>0, <1>6, <2>4 DEF DeliveriesInOrder, AllInOrder, ListedRow
    <3>2. QED
      BY <1>1, <2>2, <3>1 DEF ListedInOrder, Exists
  <2>9. QED
    BY <2>5, <2>6, <2>7, <2>8 DEF DeliveriesInOrder, AllInOrder
<1>8. CASE hook[row[d].hook] = "on"
  <2> DEFINE again == [delivery |-> d, tries |-> c.tries, step |-> "queued", ok |-> FALSE]
  <2>1. /\ row' = [row EXCEPT ![d].status = "pending", ![d].next = "held", ![d].tries = c.tries]
        /\ Spawn(d, c.tries)
    BY <1>4, <1>8
  <2>2. PICK s \in Slots : attempt[s].step = "free" /\ attempt' = [attempt EXCEPT ![s] = again]
    BY <2>1 DEF Spawn
  <2>3. Exists(d) /\ row[d].status = "pending" /\ row[d].tries < MaxRetries
    BY <1>5, <1>8 DEF Exists, RowInOrder
  <2>4. attempt[s].delivery = 0
    BY <2>2 DEF DeliveriesInOrder, AllInOrder, AttemptInOrder
  <2>5. /\ row' \in [Deliveries -> DeliveryRow]
        /\ row'[d].status = "pending" /\ row'[d].hook = row[d].hook
        /\ row'[d].tries = row[d].tries /\ row'[d].next = "held"
        /\ \A e \in Deliveries \ {d} : row'[e] = row[e]
    BY <1>0, <1>5, <2>1 DEF DeliveryRow
  <2>6. /\ attempt' \in [Slots -> Attempt] /\ attempt'[s] = again
        /\ \A t \in Slots : t # s => attempt'[t] = attempt[t] /\ attempt[t].delivery # d
    <3>1. again \in Attempt
      BY <1>5 DEF Attempt, DeliveryRow
    <3>2. \A t \in Slots : attempt[t].delivery # d
      BY <1>5 DEF Attempted
    <3> HIDE DEF again
    <3>3. QED
      BY <1>0, <2>2, <3>1, <3>2
  <2>7. ASSUME NEW e \in Deliveries, e # d PROVE Attempted(e)' <=> Attempted(e)
    <3> SUFFICES (\E t \in Slots : attempt'[t].delivery = e)
                   <=> \E t \in Slots : attempt[t].delivery = e
      BY DEF Attempted
    <3>1. e # 0
      BY HookConstantsOK DEF HookConstantsOK
    <3>2. QED
      BY <2>4, <2>6, <2>7, <3>1
  <2>8. WebhooksTypeOK'
    BY <1>0, <1>1, <1>6, <2>5, <2>6 DEF WebhooksTypeOK
  <2>9. OneAttempt'
    BY <1>0, <2>6 DEF OneAttempt
  <2>10. posts[d] <= row[d].tries + unrecorded[d]
    BY <1>5, <2>3 DEF RowInOrder
  <2>11. ASSUME NEW e \in Deliveries PROVE RowInOrder(e)'
    <3>1. CASE e = d
      <4>1. Attempted(d)'
        BY <2>6 DEF Attempted
      <4>2. QED
        BY <1>1, <1>5, <2>3, <2>5, <3>1, <4>1 DEF RowInOrder, Exists
    <3>2. CASE e # d
      <4>1. RowInOrder(e) /\ (Attempted(e)' <=> Attempted(e))
        BY <2>7, <3>2 DEF DeliveriesInOrder, AllInOrder
      <4>2. QED
        BY <1>1, <2>5, <3>2, <4>1 DEF RowInOrder, Exists
    <3>3. QED
      BY <3>1, <3>2
  <2>12. ASSUME NEW t \in Slots PROVE AttemptInOrder(t)'
    <3>1. CASE t = s
      BY <1>1, <1>5, <2>3, <2>5, <2>6, <2>10, <3>1 DEF AttemptInOrder, Exists
    <3>2. CASE t # s
      <4>1. attempt[t].delivery \in Deliveries \cup {0} /\ AttemptInOrder(t)
        BY <1>0 DEF Attempt, DeliveriesInOrder, AllInOrder
      <4>2. QED
        BY <1>1, <2>5, <2>6, <3>2, <4>1 DEF AttemptInOrder, Exists
    <3>3. QED
      BY <3>1, <3>2
  <2>13. ASSUME NEW k \in Loops, NEW e \in pass'[k] PROVE ListedInOrder(e)'
    <3>1. /\ e \in pass[k] /\ e.delivery \in Deliveries /\ e.delivery # d /\ ListedInOrder(e)
      BY <1>0, <1>6 DEF DeliveriesInOrder, AllInOrder, ListedRow
    <3>2. Attempted(e.delivery)' <=> Attempted(e.delivery)
      <4>1. PICK x \in Deliveries : x = e.delivery
        BY <3>1
      <4>2. QED
        BY <2>7, <3>1, <4>1
    <3>3. QED
      BY <1>1, <2>5, <3>1, <3>2 DEF ListedInOrder, Exists
  <2>14. QED
    BY <2>8, <2>9, <2>11, <2>12, <2>13 DEF DeliveriesInOrder, AllInOrder
<1>9. QED
  BY <1>7, <1>8

(* A row whose hold passes is attempted by nobody. *)
LEMMA HoldKeepsOrder ==
  ASSUME DeliveriesInOrder, OneLoop, NEW d \in Deliveries, HoldPasses(d)
  PROVE  DeliveriesInOrder'
<1>0. WebhooksTypeOK /\ OneAttempt /\ row \in [Deliveries -> DeliveryRow]
  BY DEF DeliveriesInOrder, WebhooksTypeOK
<1>1. /\ row[d].status = "pending" /\ row[d].next = "held" /\ ~ Attempted(d)
      /\ row' = [row EXCEPT ![d].next = "due"]
      /\ UNCHANGED <<hook, attempt, pass, turns, hookFaults, posts, unrecorded>>
  BY DEF HoldPasses, OneLoop
<1>2. /\ row' \in [Deliveries -> DeliveryRow]
      /\ row'[d].status = row[d].status /\ row'[d].hook = row[d].hook
      /\ row'[d].tries = row[d].tries
      /\ \A e \in Deliveries \ {d} : row'[e] = row[e]
  BY <1>0, <1>1 DEF DeliveryRow
<1>3. \A e : Attempted(e)' <=> Attempted(e)
  BY <1>1 DEF Attempted
<1>4. WebhooksTypeOK' /\ OneAttempt'
  BY <1>0, <1>1, <1>2 DEF WebhooksTypeOK, OneAttempt
<1>5. ASSUME NEW e \in Deliveries PROVE RowInOrder(e)'
  <2>1. RowInOrder(e) /\ (Attempted(e)' <=> Attempted(e))
    BY <1>3 DEF DeliveriesInOrder, AllInOrder
  <2>2. /\ row'[e].status = row[e].status /\ row'[e].hook = row[e].hook
        /\ row'[e].tries = row[e].tries
    BY <1>2
  <2>3. QED
    BY <1>1, <2>1, <2>2 DEF RowInOrder, Exists
<1>6. ASSUME NEW t \in Slots PROVE AttemptInOrder(t)'
  <2>1. /\ attempt[t].delivery \in Deliveries \cup {0} /\ attempt[t].delivery # d
        /\ AttemptInOrder(t)
    BY <1>0, <1>1, SlotsTell DEF WebhooksTypeOK, Attempt, DeliveriesInOrder, AllInOrder
  <2>2. QED
    BY <1>1, <1>2, <2>1 DEF AttemptInOrder, Exists
<1>7. ASSUME NEW l \in Loops, NEW c \in pass'[l] PROVE ListedInOrder(c)'
  <2>1. c \in pass[l] /\ c.delivery \in Deliveries /\ ListedInOrder(c)
    BY <1>0, <1>1 DEF DeliveriesInOrder, AllInOrder, WebhooksTypeOK, ListedRow
  <2>2. Exists(d) /\ c.delivery # d
    BY <1>1, <2>1 DEF ListedInOrder, DeliveriesInOrder, AllInOrder, RowInOrder
  <2>3. Attempted(c.delivery)' <=> Attempted(c.delivery)
    BY <1>3
  <2>4. QED
    BY <1>1, <1>2, <2>1, <2>2, <2>3 DEF ListedInOrder, Exists
<1>8. QED
  BY <1>4, <1>5, <1>6, <1>7 DEF DeliveriesInOrder, AllInOrder

(* Rows of a webhook that is deleted wait no longer. *)
LEMMA TurnKeepsOrder ==
  ASSUME DeliveriesInOrder, NEW h \in Hooks, TurnHook(h)
  PROVE  DeliveriesInOrder'
<1>0. /\ WebhooksTypeOK /\ OneAttempt /\ row \in [Deliveries -> DeliveryRow]
      /\ hook \in [Hooks -> {"on", "off", "deleted"}] /\ turns \in Nat
  BY DEF DeliveriesInOrder, WebhooksTypeOK
<1>1. /\ hook[h] # "deleted" /\ turns' = turns + 1
      /\ UNCHANGED <<attempt, pass, hookFaults, posts, unrecorded>>
  BY DEF TurnHook
<1>2. PICK to \in {"on", "off", "deleted"} :
        /\ hook' = [hook EXCEPT ![h] = to]
        /\ row' = IF to = "deleted"
                    THEN [d \in Deliveries |-> IF row[d].hook = h
                                                 THEN [row[d] EXCEPT !.status = "failed",
                                                                     !.next = "unset"]
                                                 ELSE row[d]]
                    ELSE row
  BY DEF TurnHook
<1>3. /\ hook' \in [Hooks -> {"on", "off", "deleted"}] /\ hook'[h] = to
      /\ \A g \in Hooks \ {h} : hook'[g] = hook[g]
  BY <1>0, <1>2
<1>4. /\ row' \in [Deliveries -> DeliveryRow]
      /\ \A e \in Deliveries : row'[e].hook = row[e].hook /\ row'[e].tries = row[e].tries
      /\ \A e \in Deliveries : to # "deleted" \/ row[e].hook # h => row'[e] = row[e]
      /\ \A e \in Deliveries : to = "deleted" /\ row[e].hook = h => row'[e].status = "failed"
  <2>1. CASE to = "deleted"
    <3>1. row' = [d \in Deliveries |-> IF row[d].hook = h
                                          THEN [row[d] EXCEPT !.status = "failed",
                                                              !.next = "unset"]
                                          ELSE row[d]]
      BY <1>2, <2>1
    <3>2. ASSUME NEW e \in Deliveries
          PROVE  /\ row'[e] \in DeliveryRow
                 /\ row'[e].hook = row[e].hook /\ row'[e].tries = row[e].tries
                 /\ row[e].hook # h => row'[e] = row[e]
                 /\ row[e].hook = h => row'[e].status = "failed"
      <4>1. row[e] \in DeliveryRow
        BY <1>0
      <4>2. CASE row[e].hook = h
        BY <3>1, <4>1, <4>2 DEF DeliveryRow
      <4>3. CASE row[e].hook # h
        BY <3>1, <4>1, <4>3
      <4>4. QED
        BY <4>2, <4>3
    <3>3. row' \in [Deliveries -> DeliveryRow]
      BY <3>1, <3>2
    <3>4. QED
      BY <2>1, <3>2, <3>3
  <2>2. CASE to # "deleted"
    BY <1>0, <1>2, <2>2
  <2>3. QED
    BY <2>1, <2>2
<1>5. \A e : Attempted(e)' <=> Attempted(e)
  BY <1>1 DEF Attempted
<1>6. WebhooksTypeOK' /\ OneAttempt'
  BY <1>0, <1>1, <1>3, <1>4 DEF WebhooksTypeOK, OneAttempt
<1>7. ASSUME NEW e \in Deliveries, row[e].status # "none"
      PROVE  /\ row'[e].status # "none"
             /\ Exists(e)' => Exists(e) /\ row'[e] = row[e]
             /\ row'[e].status = "pending" => row[e].status = "pending"
             /\ row'[e].status = "pending" /\ Exists(e) => Exists(e)'
  <2>1. row[e].hook \in Hooks
    BY <1>7 DEF DeliveriesInOrder, AllInOrder, RowInOrder
  <2>2. CASE row[e].hook = h
    BY <1>1, <1>3, <1>4, <1>7, <2>2 DEF Exists
  <2>3. CASE row[e].hook # h
    <3>1. row'[e] = row[e] /\ hook'[row[e].hook] = hook[row[e].hook]
      BY <1>3, <1>4, <2>1, <2>3
    <3>2. QED
      BY <1>7, <3>1 DEF Exists
  <2>4. QED
    BY <2>2, <2>3
<1>8. ASSUME NEW e \in Deliveries PROVE RowInOrder(e)'
  <2>1. RowInOrder(e) /\ (Attempted(e)' <=> Attempted(e))
    BY <1>5 DEF DeliveriesInOrder, AllInOrder
  <2>2. CASE row[e].status # "none"
    <3>1. /\ row'[e].status # "none" /\ row'[e].hook = row[e].hook
          /\ row'[e].tries = row[e].tries
          /\ row'[e].status = "pending" => row[e].status = "pending"
      BY <1>4, <1>7, <2>2
    <3>2. row'[e].status = "pending" => Exists(e)'
      BY <1>7, <2>1, <2>2, <3>1 DEF RowInOrder
    <3>3. QED
      BY <1>1, <2>1, <2>2, <3>1, <3>2 DEF RowInOrder
  <2>3. CASE row[e].status = "none"
    <3>1. \/ row'[e] = row[e]
          \/ row'[e].status = "failed" /\ row[e].hook = h
      BY <1>4
    <3>2. CASE row'[e] = row[e]
      BY <1>1, <2>1, <2>3, <3>2 DEF RowInOrder
    <3>3. CASE row'[e].status = "failed" /\ row[e].hook = h
      BY <1>1, <1>4, <2>1, <2>3, <3>3 DEF RowInOrder
    <3>4. QED
      BY <3>1, <3>2, <3>3
  <2>4. QED
    BY <2>2, <2>3
<1>9. ASSUME NEW t \in Slots PROVE AttemptInOrder(t)'
  <2>1. AttemptInOrder(t) /\ attempt[t].delivery \in Deliveries \cup {0}
    BY <1>0 DEF WebhooksTypeOK, Attempt, DeliveriesInOrder, AllInOrder
  <2>2. CASE attempt[t].delivery = 0
    BY <1>1, <2>1, <2>2 DEF AttemptInOrder
  <2>3. CASE attempt[t].delivery # 0
    <3>1. PICK e \in Deliveries : e = attempt[t].delivery
      BY <2>1, <2>3
    <3>2. /\ row'[e].status # "none" /\ row'[e].tries = row[e].tries
          /\ Exists(e)' => Exists(e) /\ row'[e] = row[e]
      BY <1>4, <1>7, <2>1, <2>3, <3>1 DEF AttemptInOrder
    <3>3. e = attempt'[t].delivery
      BY <1>1, <3>1
    <3>4. QED
      BY <1>1, <2>1, <2>3, <3>1, <3>2, <3>3 DEF AttemptInOrder
  <2>4. QED
    BY <2>2, <2>3
<1>10. ASSUME NEW l \in Loops, NEW c \in pass'[l] PROVE ListedInOrder(c)'
  <2>1. c \in pass[l] /\ c.delivery \in Deliveries /\ ListedInOrder(c)
    BY <1>0, <1>1 DEF DeliveriesInOrder, AllInOrder, WebhooksTypeOK, ListedRow
  <2>2. /\ row'[c.delivery].status # "none" /\ row'[c.delivery].tries = row[c.delivery].tries
        /\ Exists(c.delivery)' => Exists(c.delivery) /\ row'[c.delivery] = row[c.delivery]
    <3>1. PICK e \in Deliveries : e = c.delivery
      BY <2>1
    <3>2. QED
      BY <1>4, <1>7, <2>1, <3>1 DEF ListedInOrder
  <2>3. Attempted(c.delivery)' <=> Attempted(c.delivery)
    BY <1>5
  <2>4. QED
    BY <2>1, <2>2, <2>3 DEF ListedInOrder
<1>11. QED
  BY <1>6, <1>8, <1>9, <1>10 DEF DeliveriesInOrder, AllInOrder

LEMMA DeliveriesStayInOrder ==
  ASSUME DeliveriesInOrder, OneLoop, [WebhooksNext]_webhookVars
  PROVE  DeliveriesInOrder'
<1>0. WebhooksTypeOK
  BY DEF DeliveriesInOrder
<1>1. CASE \E h \in Hooks : DispatchWithLog(h) \/ DeliverTest(h)
  BY <1>1, CreateKeepsOrder DEF DispatchWithLog, DeliverTest
<1>2. CASE \E d \in Deliveries : Redispatch(d)
  <2>1. PICK d \in Deliveries : Redispatch(d)
    BY <1>2
  <2>2. row[d].hook \in Hooks
    BY <2>1 DEF Redispatch, Exists, DeliveriesInOrder, AllInOrder, RowInOrder
  <2>3. QED
    BY <2>1, <2>2, CreateKeepsOrder DEF Redispatch
<1>3. CASE \E h \in Hooks : TurnHook(h)
  BY <1>3, TurnKeepsOrder
<1>4. CASE \E d \in Deliveries : HoldPasses(d)
  BY <1>4, HoldKeepsOrder
<1>5. CASE \E s \in Slots : deliver(s) \/ AttemptLost(s)
  BY <1>5, PostKeepsOrder, UpdateKeepsOrder, LossKeepsOrder DEF deliver
<1>6. CASE \E l \in Loops : ProcessRetries(l) \/ PassLost(l)
  BY <1>6, ListingKeepsOrder, RetryKeepsOrder DEF ProcessRetries
<1>7. CASE UNCHANGED webhookVars
  <2>1. UNCHANGED <<hook, row, attempt, pass, turns, hookFaults, posts, unrecorded>>
    BY <1>7 DEF webhookVars
  <2>2. WebhooksTypeOK'
    BY <1>0, <2>1 DEF WebhooksTypeOK
  <2>3. \A l \in Loops : \A c \in pass'[l] : ListedInOrder(c)
    BY <2>1 DEF DeliveriesInOrder, AllInOrder
  <2>4. QED
    BY <2>1, <2>2, <2>3, PassKeepsOrder
<1>8. QED
  BY <1>1, <1>2, <1>3, <1>4, <1>5, <1>6, <1>7 DEF WebhooksNext

(* A delivered row is written by nobody. *)
LEMMA DeliveredStays ==
  ASSUME DeliveriesInOrder, OneLoop, [WebhooksNext]_webhookVars,
         NEW d \in Deliveries, row[d].status = "delivered"
  PROVE  row'[d].status = "delivered" \/ hook'[row[d].hook] = "deleted"
<1>0. /\ row \in [Deliveries -> DeliveryRow] /\ pass \in [Loops -> SUBSET ListedRow]
      /\ hook \in [Hooks -> {"on", "off", "deleted"}]
      /\ row[d].hook \in Hooks
  BY DEF DeliveriesInOrder, WebhooksTypeOK, AllInOrder, RowInOrder
<1> SUFFICES ASSUME row'[d] # row[d]
             PROVE  hook'[row[d].hook] = "deleted"
  OBVIOUS
<1>1. CASE \E h \in Hooks : Create(h)
  BY <1>0, <1>1 DEF Create
<1>2. CASE \E h \in Hooks : TurnHook(h)
  <2>1. PICK h \in Hooks, to \in {"on", "off", "deleted"} :
          /\ hook' = [hook EXCEPT ![h] = to]
          /\ row' = IF to = "deleted"
                      THEN [e \in Deliveries |-> IF row[e].hook = h
                                                   THEN [row[e] EXCEPT !.status = "failed",
                                                                       !.next = "unset"]
                                                   ELSE row[e]]
                      ELSE row
    BY <1>2 DEF TurnHook
  <2>2. to = "deleted" /\ row[d].hook = h
    BY <2>1
  <2>3. QED
    BY <1>0, <2>1, <2>2
<1>3. CASE \E e \in Deliveries : HoldPasses(e)
  BY <1>0, <1>3 DEF HoldPasses
<1>4. CASE \E s \in Slots : UpdateWebhookDelivery(s)
  <2>1. PICK s \in Slots : UpdateWebhookDelivery(s)
    BY <1>4
  <2>2. attempt[s].step = "answered" /\ Exists(attempt[s].delivery) /\ attempt[s].delivery = d
    BY <1>0, <2>1 DEF UpdateWebhookDelivery
  <2>3. d # 0
    BY HookConstantsOK DEF HookConstantsOK
  <2>4. QED
    BY <2>2, <2>3 DEF DeliveriesInOrder, AllInOrder, AttemptInOrder
<1>5. CASE \E l \in Loops : Retry(l)
  <2>1. PICK l \in Loops : Retry(l)
    BY <1>5
  <2>2. OldestListed(pass[l]) \in pass[l]
    BY <1>0, <2>1, OldestIsListed DEF Retry
  <2>3. OldestListed(pass[l]).delivery = d
    <3> HIDE DEF OldestListed
    <3>1. CASE hook[row[OldestListed(pass[l]).delivery].hook] # "on"
      BY <1>0, <2>1, <3>1 DEF Retry
    <3>2. CASE ~ (hook[row[OldestListed(pass[l]).delivery].hook] # "on")
      BY <1>0, <2>1, <3>2 DEF Retry
    <3>3. QED
      BY <3>1, <3>2
  <2>4. ~ Exists(d)
    BY <2>2, <2>3 DEF DeliveriesInOrder, AllInOrder, ListedInOrder
  <2>5. hook[row[d].hook] = "deleted" /\ UNCHANGED hook
    BY <2>1, <2>4 DEF Exists, Retry
  <2>6. QED
    BY <2>5
<1>6. CASE UNCHANGED row
  BY <1>6
<1>7. QED
  <2>1. CASE \E h \in Hooks : DispatchWithLog(h) \/ DeliverTest(h)
    BY <1>1, <2>1 DEF DispatchWithLog, DeliverTest
  <2>2. CASE \E e \in Deliveries : Redispatch(e)
    <3>1. PICK e \in Deliveries : Redispatch(e)
      BY <2>2
    <3>2. row[e].hook \in Hooks
      BY <3>1 DEF Redispatch, Exists, DeliveriesInOrder, AllInOrder, RowInOrder
    <3>3. QED
      BY <1>1, <3>1, <3>2 DEF Redispatch
  <2>3. CASE \E s \in Slots : Post(s) \/ AttemptLost(s)
    BY <1>6, <2>3 DEF Post, AttemptLost
  <2>4. CASE \E l \in Loops : ListPendingDeliveries(l) \/ PassLost(l)
    BY <1>6, <2>4 DEF ListPendingDeliveries, PassLost
  <2>5. CASE UNCHANGED webhookVars
    BY <1>6, <2>5 DEF webhookVars
  <2>6. QED
    BY <1>2, <1>3, <1>4, <1>5, <2>1, <2>2, <2>3, <2>4, <2>5
    DEF WebhooksNext, deliver, ProcessRetries

(* With one loop, and attempts that end while their row is held: a         *)
(* delivery has one attempt in flight, is sent as often as it may be and   *)
(* stays delivered, whatever dies and whichever webhooks are switched off  *)
(* (service/webhook.go:417-421, 535-543, 611-632).                         *)
THEOREM DeliveriesAreSafe ==
  ASSUME OneLoop
  PROVE  WebhooksSpec => [](WebhooksTypeOK /\ OneAttempt /\ PostsBounded) /\ DeliveredIsFinal
<1>1. WebhooksInit => DeliveriesInOrder
  <2> SUFFICES ASSUME WebhooksInit PROVE DeliveriesInOrder
    OBVIOUS
  <2>1. WebhooksTypeOK
    BY DEF WebhooksInit, WebhooksTypeOK, NoRow, NoAttempt, DeliveryRow, Attempt
  <2>2. OneAttempt
    BY DEF WebhooksInit, OneAttempt, NoAttempt
  <2>3. ASSUME NEW d \in Deliveries PROVE RowInOrder(d)
    <3>1. d # 0 /\ MaxRetries \in Nat
      BY HookConstantsOK DEF HookConstantsOK
    <3>2. ~ Attempted(d)
      BY <3>1 DEF WebhooksInit, Attempted, NoAttempt
    <3>3. QED
      BY <3>1, <3>2 DEF WebhooksInit, RowInOrder, NoRow
  <2>4. ASSUME NEW s \in Slots PROVE AttemptInOrder(s)
    BY DEF WebhooksInit, AttemptInOrder, NoAttempt
  <2>5. QED
    BY <2>1, <2>2, <2>3, <2>4 DEF WebhooksInit, DeliveriesInOrder, AllInOrder
<1>2. DeliveriesInOrder /\ [WebhooksNext]_webhookVars => DeliveriesInOrder'
  BY DeliveriesStayInOrder
<1>3. DeliveriesInOrder => WebhooksTypeOK /\ OneAttempt /\ PostsBounded
  BY DEF DeliveriesInOrder, AllInOrder, RowInOrder, PostsBounded
<1>4. DeliveriesInOrder /\ [WebhooksNext]_webhookVars =>
        [\A d \in Deliveries : row[d].status = "delivered" =>
           row'[d].status = "delivered" \/ hook'[row[d].hook] = "deleted"]_webhookVars
  BY DeliveredStays
<1>5. QED
  BY <1>1, <1>2, <1>3, <1>4, PTL DEF WebhooksSpec, DeliveredIsFinal

-----------------------------------------------------------------------------
(***************************************************************************)
(* EmailQueue: what the server took, and what the row and the code know.  *)
(***************************************************************************)
(* The mails of a pass wait, and what the conversation says of itself is   *)
(* true: it is about a mail of the pass, and took it before QUIT.          *)
PassWaits ==
  /\ EmailTypeOK
  /\ \A m \in listed : mail[m].status = "pending"
  /\ talk.step # "idle" => talk.mail \in listed
  /\ talk.took => talk.step \in {"quit", "ok", "error"}

(* Of what the server took, the row knows one at most; the rest is counted *)
(* as unknown, or the conversation still knows it.                         *)
OneIsKnown ==
  \A m \in Mails :
    taken[m] <= unknown[m] + (IF mail[m].status = "sent" THEN 1 ELSE 0)
                           + (IF talk.took /\ talk.mail = m THEN 1 ELSE 0)

(* A mail that waits has attempts left. *)
AttemptsRemain ==
  \A m \in Mails :
    /\ mail[m].status \in {"none", "pending"} => mail[m].tries < MaxMailAttempts
    /\ mail[m].status = "sent" => mail[m].tries <= MaxMailAttempts
    /\ mail[m].status = "failed" => mail[m].tries = MaxMailAttempts

OutgoingMail == PassWaits /\ OneIsKnown /\ AttemptsRemain

-----------------------------------------------------------------------------
(* A row that is not written, of a conversation that takes no mail. *)
LEMMA MailsStand ==
  ASSUME OutgoingMail, EmailTypeOK', UNCHANGED <<mail, taken, unknown>>,
         \A m \in listed' : mail[m].status = "pending",
         talk'.step # "idle" => talk'.mail \in listed',
         talk'.took => talk.took /\ talk'.mail = talk.mail /\ talk'.step \in {"quit", "ok", "error"},
         talk.took => talk'.took
  PROVE  OutgoingMail'
<1>1. PassWaits'
  BY DEF PassWaits
<1>2. OneIsKnown'
  <2> SUFFICES ASSUME NEW m \in Mails
               PROVE  taken[m] <= unknown[m] + (IF mail[m].status = "sent" THEN 1 ELSE 0)
                                             + (IF talk'.took /\ talk'.mail = m THEN 1 ELSE 0)
    BY DEF OneIsKnown
  <2>1. taken[m] <= unknown[m] + (IF mail[m].status = "sent" THEN 1 ELSE 0)
                               + (IF talk.took /\ talk.mail = m THEN 1 ELSE 0)
    BY DEF OutgoingMail, OneIsKnown
  <2>2. (talk.took /\ talk.mail = m) <=> (talk'.took /\ talk'.mail = m)
    OBVIOUS
  <2>3. QED
    BY <2>1, <2>2
<1>3. AttemptsRemain'
  BY DEF OutgoingMail, AttemptsRemain
<1>4. QED
  BY <1>1, <1>2, <1>3 DEF OutgoingMail

(* Who leaves a conversation counts what its row does not know. *)
LEMMA WhatIsUnknown ==
  ASSUME OutgoingMail, NEW m \in Mails, m = talk.mail,
         unknown' = IF talk.took THEN [unknown EXCEPT ![m] = @ + 1] ELSE unknown
  PROVE  /\ unknown' \in [Mails -> Nat]
         /\ \A n \in Mails :
              taken[n] <= unknown'[n] + (IF mail[n].status = "sent" THEN 1 ELSE 0)
<1>1. taken \in [Mails -> Nat] /\ unknown \in [Mails -> Nat]
  BY DEF OutgoingMail, PassWaits, EmailTypeOK
<1>2. unknown' \in [Mails -> Nat]
  <2>1. CASE talk.took
    <3>1. unknown' = [unknown EXCEPT ![m] = @ + 1]
      BY <2>1
    <3>2. QED
      BY <1>1, <3>1
  <2>2. CASE ~ talk.took
    BY <1>1, <2>2
  <2>3. QED
    BY <2>1, <2>2
<1>3. ASSUME NEW n \in Mails
      PROVE  taken[n] <= unknown'[n] + (IF mail[n].status = "sent" THEN 1 ELSE 0)
  <2>1. taken[n] <= unknown[n] + (IF mail[n].status = "sent" THEN 1 ELSE 0)
                               + (IF talk.took /\ talk.mail = n THEN 1 ELSE 0)
    BY DEF OutgoingMail, OneIsKnown
  <2>2. CASE talk.took /\ n = m
    <3>1. unknown'[n] = unknown[n] + 1
      <4>1. unknown' = [unknown EXCEPT ![m] = @ + 1]
        BY <2>2
      <4>2. QED
        BY <1>1, <2>2, <4>1
    <3>2. taken[n] <= unknown[n] + (IF mail[n].status = "sent" THEN 1 ELSE 0) + 1
      BY <2>1, <2>2
    <3>3. QED
      BY <1>1, <3>1, <3>2
  <2>3. CASE ~ (talk.took /\ n = m)
    <3>1. unknown'[n] = unknown[n]
      BY <1>1, <2>3
    <3>2. QED
      BY <1>1, <2>1, <2>3, <3>1
  <2>4. QED
    BY <2>2, <2>3
<1>4. QED
  BY <1>2, <1>3

LEMMA MailStaysInOrder ==
  ASSUME OutgoingMail, [EmailNext]_emailVars
  PROVE  OutgoingMail'
<1>0. EmailTypeOK /\ PassWaits
  BY DEF OutgoingMail, PassWaits
<1>a. /\ mail \in [Mails -> MailRow] /\ talk \in Conversation
      /\ taken \in [Mails -> Nat] /\ unknown \in [Mails -> Nat] /\ mailFaults \in Nat
      /\ listed \in SUBSET Mails
  BY <1>0 DEF EmailTypeOK
<1>b. MaxMailAttempts \in Nat \ {0}
  BY MailConstantsOK DEF MailConstantsOK
<1>1. ASSUME NEW m \in Mails, EnqueueEmail(m) PROVE OutgoingMail'
  <2>1. /\ mail[m].status = "none"
        /\ mail' = [mail EXCEPT ![m] = [NoMail EXCEPT !.status = "pending"]]
        /\ UNCHANGED <<listed, talk, mailFaults, taken, unknown>>
    BY <1>1 DEF EnqueueEmail
  <2>2. /\ mail' \in [Mails -> MailRow]
        /\ mail'[m].status = "pending" /\ mail'[m].tries = 0
        /\ \A n \in Mails \ {m} : mail'[n] = mail[n]
    BY <1>a, <2>1 DEF NoMail, MailRow
  <2>3. PassWaits'
    BY <1>0, <2>1, <2>2 DEF PassWaits, EmailTypeOK
  <2>4. OneIsKnown'
    BY <2>1, <2>2 DEF OutgoingMail, OneIsKnown
  <2>5. AttemptsRemain'
    <3> SUFFICES ASSUME NEW n \in Mails
                 PROVE  /\ mail'[n].status \in {"none", "pending"} => mail'[n].tries < MaxMailAttempts
                        /\ mail'[n].status = "sent" => mail'[n].tries <= MaxMailAttempts
                        /\ mail'[n].status = "failed" => mail'[n].tries = MaxMailAttempts
      BY DEF AttemptsRemain
    <3>1. CASE n = m
      BY <1>b, <2>2, <3>1
    <3>2. CASE n # m
      BY <2>2, <3>2 DEF OutgoingMail, AttemptsRemain
    <3>3. QED
      BY <3>1, <3>2
  <2>6. QED
    BY <2>3, <2>4, <2>5 DEF OutgoingMail
<1>2. ASSUME NEW m \in Mails, BackOffPasses(m) PROVE OutgoingMail'
  <2>1. /\ mail' = [mail EXCEPT ![m].next = "due"]
        /\ UNCHANGED <<listed, talk, mailFaults, taken, unknown>>
    BY <1>2 DEF BackOffPasses
  <2>2. /\ mail' \in [Mails -> MailRow]
        /\ \A n \in Mails : mail'[n].status = mail[n].status /\ mail'[n].tries = mail[n].tries
    BY <1>a, <2>1 DEF MailRow
  <2>3. PassWaits'
    BY <1>0, <2>1, <2>2 DEF PassWaits, EmailTypeOK
  <2>4. OneIsKnown'
    BY <2>1, <2>2 DEF OutgoingMail, OneIsKnown
  <2>5. AttemptsRemain'
    BY <2>2 DEF OutgoingMail, AttemptsRemain
  <2>6. QED
    BY <2>3, <2>4, <2>5 DEF OutgoingMail
<1>3. CASE ListPendingEmails
  <2>1. /\ listed = {} /\ listed' \subseteq Due
        /\ UNCHANGED <<mail, talk, mailFaults, taken, unknown>>
    BY <1>3 DEF ListPendingEmails
  <2>2. EmailTypeOK' /\ \A m \in listed' : mail[m].status = "pending"
    BY <1>0, <2>1 DEF Due, EmailTypeOK
  <2>3. talk.step = "idle"
    BY <1>0, <2>1 DEF PassWaits
  <2>4. QED
    BY <1>0, <2>1, <2>2, <2>3, MailsStand DEF PassWaits
<1>4. CASE Connect
  <2> DEFINE first == CHOOSE m \in listed : \A n \in listed : m <= n
  <2>1. /\ listed # {} /\ talk.step = "idle" /\ UNCHANGED <<mail, listed, mailFaults, taken, unknown>>
        /\ \E step \in {"hello", "error"} : talk' = [talk EXCEPT !.mail = first, !.step = step]
    BY <1>4 DEF Connect
  <2>2. first \in listed
    BY <1>a, <2>1, MailConstantsOK, LeastNumber DEF MailConstantsOK
  <2> HIDE DEF first
  <2>3. /\ talk' \in Conversation /\ talk'.mail = first /\ talk'.took = talk.took
    BY <1>a, <2>1, <2>2 DEF Conversation
  <2>4. ~ talk.took
    BY <1>0, <2>1 DEF PassWaits
  <2>5. EmailTypeOK'
    BY <1>0, <2>1, <2>3 DEF EmailTypeOK
  <2>6. talk'.mail \in listed' /\ \A m \in listed' : mail[m].status = "pending"
    BY <1>0, <2>1, <2>2, <2>3 DEF PassWaits
  <2>7. QED
    BY <2>1, <2>3, <2>4, <2>5, <2>6, MailsStand
<1>5. CASE PickAuth \/ Auth \/ Envelope \/ Quit
  <2>1. /\ talk.step \in {"hello", "auth", "envelope", "quit"}
        /\ UNCHANGED <<mail, listed, mailFaults, taken, unknown>>
        /\ \E step \in {"auth", "envelope", "data", "ok", "error"} :
             /\ talk' = [talk EXCEPT !.step = step]
             /\ talk.step = "quit" => step \in {"ok", "error"}
    BY <1>5 DEF PickAuth, Auth, Envelope, Quit, Say
  <2>2. /\ talk' \in Conversation /\ talk'.took = talk.took /\ talk'.mail = talk.mail
        /\ talk.step = "quit" => talk'.step \in {"ok", "error"}
    BY <1>a, <2>1 DEF Conversation
  <2>3. talk.mail \in listed /\ (talk.took => talk.step = "quit")
    BY <1>0, <2>1 DEF PassWaits
  <2>4. EmailTypeOK'
    BY <1>0, <2>1, <2>2 DEF EmailTypeOK
  <2>5. /\ \A m \in listed' : mail[m].status = "pending"
        /\ talk'.mail \in listed'
    BY <1>0, <2>1, <2>2, <2>3 DEF PassWaits
  <2>6. talk'.took => talk'.step \in {"quit", "ok", "error"}
    BY <2>2, <2>3
  <2>7. QED
    BY <2>1, <2>2, <2>4, <2>5, <2>6, MailsStand
<1>6. CASE Data
  <2>1. /\ talk.step = "data" /\ UNCHANGED <<mail, listed, mailFaults, unknown>>
    BY <1>6 DEF Data
  <2>2. talk.mail \in listed /\ talk.mail \in Mails /\ ~ talk.took
    BY <1>0, <1>a, <2>1 DEF PassWaits
  <2>3. CASE Say("error") /\ UNCHANGED taken
    <3>1. talk' \in Conversation /\ talk'.took = talk.took /\ talk'.mail = talk.mail
      BY <1>a, <2>3 DEF Say, Conversation
    <3>2. EmailTypeOK'
      BY <1>0, <2>1, <2>3, <3>1 DEF EmailTypeOK
    <3>3. talk'.mail \in listed' /\ \A m \in listed' : mail[m].status = "pending"
      BY <1>0, <2>1, <2>2, <3>1 DEF PassWaits
    <3>4. QED
      BY <2>1, <2>2, <2>3, <3>1, <3>2, <3>3, MailsStand
  <2>4. CASE /\ taken' = [taken EXCEPT ![talk.mail] = @ + 1]
             /\ \E step \in {"quit", "error"} : talk' = [talk EXCEPT !.step = step, !.took = TRUE]
    <3>1. /\ talk' \in Conversation /\ talk'.took /\ talk'.mail = talk.mail
          /\ talk'.step \in {"quit", "error"}
      BY <1>a, <2>4 DEF Conversation
    <3>2. /\ taken' \in [Mails -> Nat] /\ taken'[talk.mail] = taken[talk.mail] + 1
          /\ \A m \in Mails : m # talk.mail => taken'[m] = taken[m]
      BY <1>a, <2>2, <2>4
    <3>3. PassWaits'
      BY <1>0, <2>1, <2>2, <3>1, <3>2 DEF PassWaits, EmailTypeOK
    <3>4. OneIsKnown'
      BY <1>a, <2>1, <2>2, <3>1, <3>2 DEF OutgoingMail, OneIsKnown
    <3>5. AttemptsRemain'
      BY <2>1 DEF OutgoingMail, AttemptsRemain
    <3>6. QED
      BY <3>3, <3>4, <3>5 DEF OutgoingMail
  <2>5. QED
    BY <1>6, <2>3, <2>4 DEF Data
<1>7. CASE SendAgain
  <2>1. /\ talk.step = "error" /\ UNCHANGED <<mail, listed, mailFaults, taken>>
        /\ unknown' = IF talk.took THEN [unknown EXCEPT ![talk.mail] = @ + 1] ELSE unknown
        /\ talk' = [talk EXCEPT !.try = 2, !.step = "idle", !.took = FALSE]
    BY <1>7 DEF SendAgain
  <2>2. talk.mail \in Mails
    BY <1>0, <1>a, <2>1 DEF PassWaits
  <2>3. talk' \in Conversation /\ ~ talk'.took /\ talk'.step = "idle"
    <3>1. /\ talk.mail \in Mails \cup {0}
          /\ talk = [mail |-> talk.mail, try |-> talk.try, took |-> talk.took, step |-> talk.step]
      BY <1>a DEF Conversation
    <3>2. talk' = [mail |-> talk.mail, try |-> 2, took |-> FALSE, step |-> "idle"]
      BY <2>1, <3>1
    <3>3. QED
      BY <3>1, <3>2 DEF Conversation
  <2>4. /\ unknown' \in [Mails -> Nat]
        /\ \A n \in Mails :
             taken[n] <= unknown'[n] + (IF mail[n].status = "sent" THEN 1 ELSE 0)
    BY <2>1, <2>2, WhatIsUnknown
  <2>5. PassWaits'
    BY <1>0, <2>1, <2>3, <2>4 DEF PassWaits, EmailTypeOK
  <2>6. OneIsKnown'
    BY <1>a, <2>1, <2>3, <2>4 DEF OneIsKnown
  <2>7. AttemptsRemain'
    BY <2>1 DEF OutgoingMail, AttemptsRemain
  <2>8. QED
    BY <2>5, <2>6, <2>7 DEF OutgoingMail
<1>8. CASE MarkLost \/ Restart
  <2>1. /\ UNCHANGED <<mail, taken>> /\ mailFaults' = mailFaults + 1
        /\ unknown' = IF talk.took THEN [unknown EXCEPT ![talk.mail] = @ + 1] ELSE unknown
        /\ talk' = NoTalk /\ listed' \subseteq listed
    BY <1>8 DEF MarkLost, Restart, Leave
  <2>2. talk.took => talk.mail \in Mails
    BY <1>0, <1>a DEF PassWaits
  <2>3. talk' \in Conversation /\ ~ talk'.took /\ talk'.step = "idle"
    BY <2>1 DEF Conversation, NoTalk
  <2>4. /\ unknown' \in [Mails -> Nat]
        /\ \A n \in Mails :
             taken[n] <= unknown'[n] + (IF mail[n].status = "sent" THEN 1 ELSE 0)
    <3>1. CASE talk.took
      BY <2>1, <2>2, <3>1, WhatIsUnknown
    <3>2. CASE ~ talk.took
      BY <1>a, <2>1, <3>2 DEF OutgoingMail, OneIsKnown
    <3>3. QED
      BY <3>1, <3>2
  <2>5. PassWaits'
    BY <1>0, <2>1, <2>3, <2>4 DEF PassWaits, EmailTypeOK
  <2>6. OneIsKnown'
    BY <1>a, <2>1, <2>3, <2>4 DEF OneIsKnown
  <2>7. AttemptsRemain'
    BY <2>1 DEF OutgoingMail, AttemptsRemain
  <2>8. QED
    BY <2>5, <2>6, <2>7 DEF OutgoingMail
<1>9. CASE MarkEmailSent
  <2> DEFINE m == talk.mail
  <2>1. /\ talk.step = "ok" /\ UNCHANGED <<mailFaults, taken, unknown>>
        /\ mail' = [mail EXCEPT ![m].status = "sent", ![m].tries = @ + 1]
        /\ talk' = NoTalk /\ listed' = listed \ {m}
    BY <1>9 DEF MarkEmailSent, Leave
  <2>2. m \in Mails /\ m \in listed /\ mail[m].status = "pending"
    BY <1>0, <1>a, <2>1 DEF PassWaits
  <2>3. talk' \in Conversation /\ ~ talk'.took /\ talk'.step = "idle"
    BY <2>1 DEF Conversation, NoTalk
  <2>4. /\ mail' \in [Mails -> MailRow]
        /\ mail'[m].status = "sent" /\ mail'[m].tries = mail[m].tries + 1
        /\ \A n \in Mails \ {m} : mail'[n] = mail[n]
    BY <1>a, <2>1, <2>2 DEF MailRow
  <2>5. PassWaits'
    BY <1>0, <2>1, <2>2, <2>3, <2>4 DEF PassWaits, EmailTypeOK
  <2>6. OneIsKnown'
    BY <1>a, <2>1, <2>2, <2>3, <2>4 DEF OutgoingMail, OneIsKnown
  <2>7. AttemptsRemain'
    <3>1. mail[m].tries \in Nat /\ mail[m].tries < MaxMailAttempts
      BY <1>a, <1>b, <2>2 DEF OutgoingMail, AttemptsRemain, MailRow
    <3>2. QED
      BY <1>b, <2>2, <2>4, <3>1 DEF OutgoingMail, AttemptsRemain
  <2>8. QED
    BY <2>5, <2>6, <2>7 DEF OutgoingMail
<1>10. CASE MarkEmailFailed
  <2> DEFINE m == talk.mail
             more == mail[m].tries + 1
             last == more >= MaxMailAttempts
  <2>1. /\ talk.step = "error" /\ UNCHANGED <<mailFaults, taken>>
        /\ mail' = [mail EXCEPT ![m] =
             [status |-> IF last THEN "failed" ELSE @.status,
              next   |-> IF last THEN "unset" ELSE "held", tries |-> more]]
        /\ unknown' = IF talk.took THEN [unknown EXCEPT ![m] = @ + 1] ELSE unknown
        /\ talk' = NoTalk /\ listed' = listed \ {m}
    BY <1>10 DEF MarkEmailFailed, Leave
  <2>2. m \in Mails /\ m \in listed /\ mail[m].status = "pending"
    BY <1>0, <1>a, <2>1 DEF PassWaits
  <2>3. talk' \in Conversation /\ ~ talk'.took /\ talk'.step = "idle"
    BY <2>1 DEF Conversation, NoTalk
  <2>4. /\ mail' \in [Mails -> MailRow]
        /\ mail'[m].status = (IF last THEN "failed" ELSE "pending")
        /\ mail'[m].tries = more
        /\ \A n \in Mails \ {m} : mail'[n] = mail[n]
    <3>1. mail[m].status = "pending" /\ more \in Nat
      BY <1>a, <2>2 DEF MailRow
    <3> HIDE DEF more, last
    <3>2. QED
      BY <1>a, <2>1, <2>2, <3>1 DEF MailRow
  <2>5. /\ unknown' \in [Mails -> Nat]
        /\ \A n \in Mails :
             taken[n] <= unknown'[n] + (IF mail[n].status = "sent" THEN 1 ELSE 0)
    BY <2>1, <2>2, WhatIsUnknown
  <2>6. PassWaits'
    BY <1>0, <2>1, <2>2, <2>3, <2>4, <2>5 DEF PassWaits, EmailTypeOK
  <2>7. OneIsKnown'
    BY <1>a, <2>1, <2>2, <2>3, <2>4, <2>5 DEF OneIsKnown
  <2>8. AttemptsRemain'
    <3>1. mail[m].tries \in Nat /\ mail[m].tries < MaxMailAttempts
      BY <1>a, <1>b, <2>2 DEF OutgoingMail, AttemptsRemain, MailRow
    <3>2. QED
      BY <1>b, <2>2, <2>4, <3>1 DEF OutgoingMail, AttemptsRemain
  <2>9. QED
    BY <2>6, <2>7, <2>8 DEF OutgoingMail
<1>11. CASE UNCHANGED emailVars
  <2>1. UNCHANGED <<mail, listed, talk, mailFaults, taken, unknown>>
    BY <1>11 DEF emailVars
  <2>2. PassWaits' /\ OneIsKnown' /\ AttemptsRemain'
    BY <2>1 DEF OutgoingMail, PassWaits, EmailTypeOK, OneIsKnown, AttemptsRemain
  <2>3. QED
    BY <2>2 DEF OutgoingMail
<1>12. QED
  BY <1>1, <1>2, <1>3, <1>4, <1>5, <1>6, <1>7, <1>8, <1>9, <1>10, <1>11 DEF EmailNext, processQueue

(* However conversations fail, writes are lost and the process restarts,   *)
(* the server takes a mail once, as far as the code can know, and a mail   *)
(* that fails is given up at its last attempt (service/email.go:104-117,   *)
(* 652-664, store/store.go:1256-1265).                                     *)
THEOREM MailGoesOutOnce ==
  EmailSpec => [](EmailTypeOK /\ MailedOnceIfKnown /\ GivenUpAtLast)
<1>1. EmailInit => OutgoingMail
  <2> SUFFICES ASSUME EmailInit PROVE OutgoingMail
    OBVIOUS
  <2>1. EmailTypeOK
    BY DEF EmailInit, EmailTypeOK, NoMail, NoTalk, MailRow, Conversation
  <2>2. PassWaits
    BY <2>1 DEF EmailInit, PassWaits, NoTalk
  <2>3. OneIsKnown
    BY DEF EmailInit, OneIsKnown, NoMail, NoTalk
  <2>4. AttemptsRemain
    BY MailConstantsOK DEF MailConstantsOK, EmailInit, AttemptsRemain, NoMail
  <2>5. QED
    BY <2>2, <2>3, <2>4 DEF OutgoingMail
<1>2. OutgoingMail /\ [EmailNext]_emailVars => OutgoingMail'
  BY MailStaysInOrder
<1>3. OutgoingMail => EmailTypeOK /\ MailedOnceIfKnown /\ GivenUpAtLast
  <2> SUFFICES ASSUME OutgoingMail PROVE EmailTypeOK /\ MailedOnceIfKnown /\ GivenUpAtLast
    OBVIOUS
  <2>1. EmailTypeOK
    BY DEF OutgoingMail, PassWaits
  <2>2. MailedOnceIfKnown
    <3> SUFFICES ASSUME NEW m \in Mails PROVE taken[m] <= 1 + unknown[m]
      BY DEF MailedOnceIfKnown
    <3>1. taken[m] \in Nat /\ unknown[m] \in Nat
      BY <2>1 DEF EmailTypeOK
    <3>2. ~ (mail[m].status = "sent" /\ talk.took /\ talk.mail = m)
      BY DEF OutgoingMail, PassWaits
    <3>3. QED
      BY <3>1, <3>2 DEF OutgoingMail, OneIsKnown
  <2>3. GivenUpAtLast
    <3> SUFFICES ASSUME NEW m \in Mails
                 PROVE  /\ mail[m].tries <= MaxMailAttempts
                        /\ mail[m].status = "failed" <=>
                             mail[m].tries = MaxMailAttempts /\ mail[m].status # "sent"
      BY DEF GivenUpAtLast
    <3>1. mail[m].tries \in Nat /\ mail[m].status \in {"none", "pending", "sent", "failed"}
      BY <2>1 DEF EmailTypeOK, MailRow
    <3>2. MaxMailAttempts \in Nat
      BY MailConstantsOK DEF MailConstantsOK
    <3>3. QED
      BY <3>1, <3>2 DEF OutgoingMail, AttemptsRemain
  <2>4. QED
    BY <2>1, <2>2, <2>3
<1>4. QED
  BY <1>1, <1>2, <1>3, PTL DEF EmailSpec

-----------------------------------------------------------------------------
(***************************************************************************)
(* Background                                                             *)
(***************************************************************************)
(* A behaviour of the whole is one of each component: what moves is one    *)
(* component, and the others stand still.                                  *)
LEMMA EachInTheBackground ==
  BackgroundSpec => WebhooksSpec /\ EmailSpec /\ Spec
<1>1. BackgroundInit => WebhooksInit /\ EmailInit /\ Init
  BY DEF BackgroundInit
<1>2. ASSUME [BackgroundNext]_backgroundVars
      PROVE  [WebhooksNext]_webhookVars /\ [EmailNext]_emailVars /\ [Next]_vars
  <2>1. CASE UNCHANGED backgroundVars
    BY <2>1 DEF backgroundVars
  <2>2. CASE BackgroundNext
    BY <2>2 DEF BackgroundNext
  <2>3. QED
    BY <1>2, <2>1, <2>2
<1>3. QED
  BY <1>1, <1>2, PTL DEF BackgroundSpec, WebhooksSpec, EmailSpec, Spec

(* With one retry loop: a delivery has one attempt in flight and a bounded *)
(* number in all, a mail is taken once, as far as the code can know, and   *)
(* given up at its last attempt (webhook.go:417-421, 538-543, 621-623,     *)
(* email.go:104-117, store.go:1256-1265).                                  *)
THEOREM OutboxIsSafe ==
  ASSUME OneLoop
  PROVE  BackgroundSpec => []OutboxSafe
  BY EachInTheBackground, DeliveriesAreSafe, MailGoesOutOnce, PTL DEF OutboxSafe

(* With one retry loop, what a receiver accepted stays delivered: no older *)
(* copy of the row is written over it (service/webhook.go:535, 611-632).   *)
THEOREM DeliveredStaysFinal ==
  ASSUME OneLoop
  PROVE  BackgroundSpec => DeliveredIsFinal
  BY EachInTheBackground, DeliveriesAreSafe, PTL

(* As long as no claim is disturbed, a 2xx to Stripe means that the event  *)
(* is taken, and while a handler runs its claim says so                    *)
(* (stripe.go:281-285).                                                    *)
THEOREM EventsAreAlwaysTaken ==
  ASSUME Undisturbed
  PROVE  BackgroundSpec => []EventsAreTaken
  BY EachInTheBackground, AckedIsTaken, PTL DEF EventsAreTaken
================================================================================
