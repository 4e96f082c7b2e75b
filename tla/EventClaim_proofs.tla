-------------------------- MODULE EventClaim_proofs --------------------------
(***************************************************************************)
(* Proofs about EventClaim, for any finite set of workers and whatever     *)
(* fails, crashes or outlives its claim.                                   *)
(***************************************************************************)
EXTENDS EventClaim, FiniteSetTheorems, TLAPS

LEMMA LabelsOf == /\ StatementLabels \subseteq Labels
                  /\ "idle" \in Labels /\ "working" \in Labels
                  /\ Replies \subseteq Labels
  BY DEF Labels

(* Every variable keeps its type: a worker is always at a known statement. *)
THEOREM TypeCorrect == Spec => []TypeOK
<1> USE DEF TypeOK
<1>1. Init => TypeOK
  <2>1. Init => reservation \in BOOLEAN /\ acked \in BOOLEAN
    BY DEF Init
  <2>2. Init => /\ marker \in {"none", "fresh", "stale"}
                /\ at \in [Workers -> Labels]
                /\ takeovers \in Nat /\ applied \in Nat /\ faults \in Nat
    BY LabelsOf DEF Init
  <2>3. QED
    BY <2>1, <2>2
<1>2. TypeOK /\ [Next]_vars => TypeOK'
  <2> SUFFICES ASSUME TypeOK, [Next]_vars PROVE TypeOK'
    OBVIOUS
  <2> USE DEF Goto
  <2>1. ASSUME NEW w \in Workers, Deliver(w) PROVE TypeOK'
    BY <2>1 DEF Deliver, Labels, StatementLabels, Reserving
  <2>2. ASSUME NEW w \in Workers, ClaimStatement(w) PROVE TypeOK'
    <3>1. \E label \in Labels : at' = [at EXCEPT ![w] = label]
      BY <2>2 DEF ClaimStatement, Statement, InsertReservation, DropOrphan,
        InsertMarker, UndoReservation, LookForMarker, Consult, ReleaseStale,
        Retake, Complete, ReleaseReservation, ReleaseMarker, Labels,
        StatementLabels, Reserving, Claiming, Finishing, Replies
    <3>2. reservation' \in BOOLEAN
      BY <2>2 DEF ClaimStatement, Statement, InsertReservation, DropOrphan,
        InsertMarker, UndoReservation, LookForMarker, Consult, ReleaseStale,
        Retake, Complete, ReleaseReservation, ReleaseMarker
    <3>3. marker' \in {"none", "fresh", "stale"}
      BY <2>2 DEF ClaimStatement, Statement, InsertReservation, DropOrphan,
        InsertMarker, UndoReservation, LookForMarker, Consult, ReleaseStale,
        Retake, Complete, ReleaseReservation, ReleaseMarker
    <3>4. takeovers' = takeovers \/ takeovers' = takeovers + 1
      BY <2>2 DEF ClaimStatement, Statement, InsertReservation, DropOrphan,
        InsertMarker, UndoReservation, LookForMarker, Consult, ReleaseStale,
        Retake, Complete, ReleaseReservation, ReleaseMarker
    <3>5. takeovers' \in Nat
      BY <3>4
    <3>6. QED
      BY <2>2, <3>1, <3>2, <3>3, <3>5 DEF ClaimStatement
  <2>3. ASSUME NEW w \in Workers, ClaimStatementFails(w) PROVE TypeOK'
    BY <2>3 DEF ClaimStatementFails, StatementFails, AfterFailure, Labels,
      StatementLabels, Reserving, Claiming, Finishing, Replies
  <2>4. ASSUME NEW w \in Workers, HandlerSucceeds(w) PROVE TypeOK'
    BY <2>4 DEF HandlerSucceeds, Labels, StatementLabels, Finishing
  <2>5. ASSUME NEW w \in Workers, HandlerFailsTransiently(w) PROVE TypeOK'
    BY <2>5 DEF HandlerFailsTransiently, Labels, StatementLabels
  <2>6. ASSUME NEW w \in Workers, Reply(w) PROVE TypeOK'
    BY <2>6 DEF Reply, Labels
  <2>7. ASSUME NEW w \in Workers, Crash(w) PROVE TypeOK'
    BY <2>7 DEF Crash, Labels
  <2>8. CASE TimePasses
    BY <2>8 DEF TimePasses, MarkerAges
  <2>9. CASE UNCHANGED vars
    BY <2>9 DEF vars, claimRows
  <2> QED
    BY <2>1, <2>2, <2>3, <2>4, <2>5, <2>6, <2>7, <2>8, <2>9 DEF Next
<1>3. QED
  BY <1>1, <1>2, PTL DEF Spec

-----------------------------------------------------------------------------
(* How the number of claimants changes when one worker moves. *)
LEMMA ClaimantsFinite == IsFiniteSet(Claimants) /\ Cardinality(Claimants) \in Nat
  <1>1. Claimants \subseteq Workers
    BY DEF Claimants
  <1>2. QED
    BY <1>1, ConstantsOK, FS_Subset, FS_CardinalityType

LEMMA ClaimantEnters ==
  ASSUME NEW w \in Workers, Claimants' = Claimants \cup {w}
  PROVE  /\ Cardinality(Claimants)' <= Cardinality(Claimants) + 1
         /\ Cardinality(Claimants)' \in Nat
<1>1. \/ Cardinality(Claimants)' = Cardinality(Claimants)
      \/ Cardinality(Claimants)' = Cardinality(Claimants) + 1
  BY ClaimantsFinite, FS_AddElement
<1>2. QED
  BY <1>1, ClaimantsFinite

LEMMA ClaimantLeaves ==
  ASSUME NEW w \in Claimants, Claimants' = Claimants \ {w}
  PROVE  Cardinality(Claimants)' = Cardinality(Claimants) - 1
  BY ClaimantsFinite, FS_RemoveElement

(* The budget is an invariant: no interleaving of deliveries, failures,    *)
(* crashes and takeovers overdraws it.                                     *)
THEOREM BudgetKept == Spec => []ClaimBudget
<1>1. Init => ClaimBudget
  <2> SUFFICES ASSUME Init PROVE ClaimBudget
    OBVIOUS
  <2>1. Claimants = {}
    BY DEF Init, Claimants, Claiming
  <2>2. QED
    BY <2>1, FS_EmptySet DEF Init, ClaimBudget
<1>2. TypeOK /\ ClaimBudget /\ [Next]_vars => ClaimBudget'
  <2> DEFINE absent == IF reservation THEN 0 ELSE 1
             n == Cardinality(Claimants)
             Kept == applied' + n' + absent' <= 1 + takeovers'
  <2> SUFFICES ASSUME TypeOK, ClaimBudget, [Next]_vars PROVE Kept
    BY DEF ClaimBudget
  <2>a. n \in Nat /\ applied \in Nat /\ takeovers \in Nat /\ absent \in {0, 1}
    BY ClaimantsFinite DEF TypeOK
  <2>b. applied + n + absent <= 1 + takeovers
    BY DEF ClaimBudget
  <2>c. absent' \in {0, 1}
    OBVIOUS
  <2>d. at \in [Workers -> Labels]
    BY DEF TypeOK
  <2> USE DEF Goto
  (* A step that moves no worker into or out of the claimants. *)
  <2>e. ASSUME Claimants' = Claimants, applied' = applied,
               takeovers' = takeovers, absent' = absent
        PROVE  Kept
    BY <2>e, <2>b
  <2>1. ASSUME NEW w \in Workers, Deliver(w) PROVE Kept
    BY <2>1, <2>d, <2>e DEF Deliver, Claimants, Claiming
  <2>2. ASSUME NEW w \in Workers, ClaimStatement(w) PROVE Kept
    <3>0. applied' = applied
      BY <2>2 DEF ClaimStatement
    <3>1. CASE InsertReservation(w)
      <4>1. CASE reservation
        BY <4>1, <3>1, <3>0, <2>d, <2>e DEF InsertReservation, Claimants, Claiming
      <4>2. CASE ~reservation
        <5>1. Claimants' = Claimants \cup {w}
          BY <4>2, <3>1, <2>d DEF InsertReservation, Claimants, Claiming
        <5>2. n' <= n + 1 /\ n' \in Nat
          BY <5>1, ClaimantEnters
        <5>3. absent = 1 /\ absent' = 0 /\ takeovers' = takeovers
          BY <4>2, <3>1 DEF InsertReservation
        <5>4. QED
          BY <5>2, <5>3, <3>0, <2>a, <2>b, <2>c
      <4>3. QED
        BY <4>1, <4>2 DEF TypeOK
    <3>2. CASE DropOrphan(w)
      BY <3>2, <3>0, <2>d, <2>e DEF DropOrphan, Claimants, Claiming
    <3>3. CASE InsertMarker(w)
      BY <3>3, <3>0, <2>d, <2>e DEF InsertMarker, Claimants, Claiming
    <3>4. CASE UndoReservation(w) \/ ReleaseReservation(w)
      <4>1. w \in Claimants /\ Claimants' = Claimants \ {w}
        BY <3>4, <2>d DEF UndoReservation, ReleaseReservation, Claimants, Claiming
      <4>2. n' = n - 1
        BY <4>1, ClaimantLeaves
      <4>3. absent' = 1 /\ takeovers' = takeovers
        BY <3>4 DEF UndoReservation, ReleaseReservation
      <4>4. QED
        BY <4>2, <4>3, <3>0, <2>a, <2>b, <2>c
    <3>5. CASE LookForMarker(w) \/ Consult(w, applied > 0) \/ ReleaseStale(w)
               \/ Complete(w) \/ ReleaseMarker(w)
      <4>1. Claimants' = Claimants
        BY <3>5, <2>d DEF LookForMarker, Consult, ReleaseStale, Complete,
          ReleaseMarker, Claimants, Claiming
      <4>2. QED
        BY <3>5, <4>1, <3>0, <2>e DEF LookForMarker, Consult, ReleaseStale,
          Complete, ReleaseMarker
    <3>6. CASE Retake(w)
      <4>1. CASE marker = "none"
        <5>1. Claimants' = Claimants \cup {w}
          BY <4>1, <3>6, <2>d DEF Retake, Claimants, Claiming
        <5>2. n' <= n + 1 /\ n' \in Nat
          BY <5>1, ClaimantEnters
        <5>3. absent' = absent /\ takeovers' = takeovers + 1
          BY <4>1, <3>6 DEF Retake
        <5>4. QED
          BY <5>2, <5>3, <3>0, <2>a, <2>b, <2>c
      <4>2. CASE marker # "none"
        BY <4>2, <3>6, <3>0, <2>d, <2>e DEF Retake, Claimants, Claiming
      <4>3. QED
        BY <4>1, <4>2
    <3>7. QED
      BY <2>2, <3>1, <3>2, <3>3, <3>4, <3>5, <3>6 DEF ClaimStatement, Statement
  <2>3. ASSUME NEW w \in Workers, ClaimStatementFails(w) PROVE Kept
    <3>1. /\ applied' = applied /\ takeovers' = takeovers /\ absent' = absent
      BY <2>3 DEF ClaimStatementFails, StatementFails
    <3>2. Claimants' = Claimants \/ (w \in Claimants /\ Claimants' = Claimants \ {w})
      BY <2>3, <2>d DEF ClaimStatementFails, StatementFails, AfterFailure,
        StatementLabels, Reserving, Claiming, Finishing, Claimants
    <3>3. n' = n \/ n' = n - 1
      BY <3>2, ClaimantLeaves
    <3>4. QED
      BY <3>1, <3>3, <2>a, <2>b, <2>c
  <2>4. ASSUME NEW w \in Workers, HandlerSucceeds(w) PROVE Kept
    <3>1. w \in Claimants /\ Claimants' = Claimants \ {w}
      BY <2>4, <2>d DEF HandlerSucceeds, Claimants, Claiming
    <3>2. n' = n - 1
      BY <3>1, ClaimantLeaves
    <3>3. applied' = applied + 1 /\ takeovers' = takeovers /\ absent' = absent
      BY <2>4 DEF HandlerSucceeds
    <3>4. QED
      BY <3>2, <3>3, <2>a, <2>b, <2>c
  <2>5. ASSUME NEW w \in Workers, HandlerFailsTransiently(w) PROVE Kept
    BY <2>5, <2>d, <2>e DEF HandlerFailsTransiently, Claimants, Claiming
  <2>6. ASSUME NEW w \in Workers, Reply(w) PROVE Kept
    BY <2>6, <2>d, <2>e DEF Reply, Replies, Claimants, Claiming
  <2>7. ASSUME NEW w \in Workers, Crash(w) PROVE Kept
    <3>1. /\ applied' = applied /\ takeovers' = takeovers /\ absent' = absent
      BY <2>7 DEF Crash
    <3>2. Claimants' = Claimants \/ (w \in Claimants /\ Claimants' = Claimants \ {w})
      BY <2>7, <2>d DEF Crash, Claimants, Claiming
    <3>3. n' = n \/ n' = n - 1
      BY <3>2, ClaimantLeaves
    <3>4. QED
      BY <3>1, <3>3, <2>a, <2>b, <2>c
  <2>8. CASE TimePasses
    BY <2>8, <2>e DEF TimePasses, MarkerAges, Claimants
  <2>9. CASE UNCHANGED vars
    BY <2>9, <2>e DEF vars, claimRows, Claimants
  <2> QED
    BY <2>1, <2>2, <2>3, <2>4, <2>5, <2>6, <2>7, <2>8, <2>9 DEF Next
<1>3. QED
  BY <1>1, <1>2, TypeCorrect, PTL DEF Spec

(* The effects of an event are committed at most once plus once per        *)
(* takeover of a stale marker (Webhook, stripe.go:281-302).                *)
THEOREM AppliedAtMostOncePerClaim == Spec => []AppliedBounded
<1>1. TypeOK /\ ClaimBudget => AppliedBounded
  BY ClaimantsFinite DEF TypeOK, ClaimBudget, AppliedBounded
<1>2. QED
  BY <1>1, TypeCorrect, BudgetKept, PTL

(* Handlers of one event overlap only as far as stale markers were taken   *)
(* over (reserve, stripe.go:424-430).                                      *)
THEOREM HandlersOverlapBounded == Spec => []OverlapBounded
<1>1. TypeOK /\ ClaimBudget => OverlapBounded
  <2> SUFFICES ASSUME TypeOK, ClaimBudget PROVE OverlapBounded
    OBVIOUS
  <2>1. Handling \subseteq Claimants
    BY DEF Handling, Claimants
  <2>2. Cardinality(Handling) <= Cardinality(Claimants) /\ Cardinality(Handling) \in Nat
    BY <2>1, ClaimantsFinite, FS_Subset, FS_CardinalityType
  <2>3. QED
    BY <2>2, ClaimantsFinite DEF TypeOK, ClaimBudget, OverlapBounded
<1>2. QED
  BY <1>1, TypeCorrect, BudgetKept, PTL

(* Without a takeover nobody touches an event whose work is committed:     *)
(* retries and duplicate deliveries all skip it.                           *)
THEOREM RetriesNeverRepeat == Spec => []NoRepeatWithoutTakeover
<1>1. TypeOK /\ ClaimBudget => NoRepeatWithoutTakeover
  <2> SUFFICES ASSUME TypeOK, ClaimBudget, takeovers = 0, applied > 0
               PROVE  Claimants = {}
    BY DEF NoRepeatWithoutTakeover
  <2>1. Cardinality(Claimants) = 0
    BY ClaimantsFinite DEF TypeOK, ClaimBudget
  <2>2. QED
    BY <2>1, ClaimantsFinite, FS_EmptySet
<1>2. QED
  BY <1>1, TypeCorrect, BudgetKept, PTL

-----------------------------------------------------------------------------
(* Nothing interrupts a claim: its handler neither fails nor outlives      *)
(* staleClaimAge, its marker can be written, and its process lives.        *)
Undisturbed ==
  /\ ~ HandlerFails /\ ~ SlowHandlers
  /\ "mark" \notin FailAt
  /\ CrashAt \cap {"dropOrphan", "mark", "working"} = {}

(* At most one worker owns the two rows, and they say at what step it is;  *)
(* the reservation is only there for committed work or for a claimant.     *)
Owning == {"dropOrphan", "mark", "working", "complete", "retake"}
RowsTellOwner ==
  /\ TypeOK
  /\ \A w \in Workers : at[w] \notin {"undo", "undoErr", "unreserve", "unmark"}
  /\ \A v, w \in Workers : at[v] \in Owning /\ at[w] \in Owning => v = w
  /\ \A w \in Workers :
       /\ at[w] \in {"dropOrphan", "mark"} => reservation /\ marker = "none"
       /\ at[w] = "working" => reservation /\ marker = "fresh"
       /\ at[w] = "complete" => reservation /\ marker = "fresh" /\ applied > 0
       /\ at[w] = "retake" => reservation /\ marker = "none" /\ applied > 0
       /\ at[w] \in {"look", "consult", "expire", "done", "ok"} => reservation
  /\ reservation => applied > 0 \/ \E w \in Workers : at[w] \in {"dropOrphan", "mark", "working"}
  /\ acked \/ marker # "none" => reservation

(* No step breaks what the rows tell, as long as no claim is disturbed. *)
LEMMA RowsStillTell ==
  ASSUME Undisturbed, RowsTellOwner, TypeOK', [Next]_vars
  PROVE  RowsTellOwner'
<1>a. at \in [Workers -> Labels] /\ applied \in Nat /\ reservation \in BOOLEAN
  BY DEF RowsTellOwner, TypeOK
<1> USE DEF Goto
<1>1. ASSUME NEW w \in Workers, Deliver(w) PROVE RowsTellOwner'
  BY <1>1, <1>a DEF RowsTellOwner, Deliver, Owning
<1>2. ASSUME NEW w \in Workers, ClaimStatement(w) PROVE RowsTellOwner'
  <2>0. UNCHANGED <<applied, acked>>
    BY <1>2 DEF ClaimStatement
  <2>1. CASE InsertReservation(w)
    <3>1. CASE reservation
      BY <2>0, <2>1, <3>1, <1>a DEF RowsTellOwner, InsertReservation, Owning
    <3>2. CASE ~ reservation
      <4>1. \A v \in Workers : at[v] \notin Owning
        BY <3>2 DEF RowsTellOwner, Owning
      <4>2. QED
        BY <2>0, <2>1, <3>2, <4>1, <1>a DEF RowsTellOwner, InsertReservation, Owning
    <3>3. QED
      BY <3>1, <3>2
  <2>2. CASE DropOrphan(w)
    BY <2>0, <2>2, <1>a DEF RowsTellOwner, DropOrphan, Owning
  <2>3. CASE InsertMarker(w)
    BY <2>0, <2>3, <1>a DEF RowsTellOwner, InsertMarker, Owning
  <2>4. CASE UndoReservation(w) \/ ReleaseReservation(w) \/ ReleaseMarker(w)
    BY <2>4 DEF RowsTellOwner, UndoReservation, ReleaseReservation, ReleaseMarker
  <2>5. CASE LookForMarker(w) \/ Consult(w, applied > 0)
    BY <2>0, <2>5, <1>a DEF RowsTellOwner, LookForMarker, Consult, Owning
  <2>6. CASE ReleaseStale(w)
    <3>1. CASE marker = "stale"
      <4>1. \A v \in Workers : at[v] \notin Owning
        BY <3>1 DEF RowsTellOwner, Owning
      <4>2. applied > 0 /\ reservation
        BY <2>6, <4>1 DEF RowsTellOwner, ReleaseStale, Owning
      <4>3. QED
        BY <2>0, <2>6, <3>1, <4>1, <4>2, <1>a DEF RowsTellOwner, ReleaseStale, Owning
    <3>2. CASE marker # "stale"
      BY <2>0, <2>6, <3>2, <1>a DEF RowsTellOwner, ReleaseStale, Owning
    <3>3. QED
      BY <3>1, <3>2
  <2>7. CASE Retake(w)
    BY <2>0, <2>7, <1>a DEF RowsTellOwner, Retake, Owning
  <2>8. CASE Complete(w)
    BY <2>0, <2>8, <1>a DEF RowsTellOwner, Complete, Owning
  <2>9. QED
    BY <1>2, <2>1, <2>2, <2>3, <2>4, <2>5, <2>6, <2>7, <2>8 DEF ClaimStatement, Statement
<1>3. ASSUME NEW w \in Workers, ClaimStatementFails(w) PROVE RowsTellOwner'
  <2>1. /\ at[w] # "mark" /\ at' = [at EXCEPT ![w] = AfterFailure(at[w])]
        /\ UNCHANGED <<reservation, marker, applied, acked>>
    BY <1>3 DEF ClaimStatementFails, StatementFails, Undisturbed
  <2>2. at[w] \in Labels /\ at[w] \notin {"undo", "working"}
    BY <1>3, <1>a DEF ClaimStatementFails, StatementFails, RowsTellOwner,
       StatementLabels, Reserving, Claiming, Finishing
  <2>3. at'[w] = IF at[w] = "dropOrphan" THEN "mark" ELSE "error"
    BY <2>1, <2>2, <1>a DEF AfterFailure
  <2>4. QED
    BY <2>1, <2>2, <2>3, <1>a DEF RowsTellOwner, Owning
<1>4. ASSUME NEW w \in Workers, HandlerSucceeds(w) PROVE RowsTellOwner'
  BY <1>4, <1>a DEF RowsTellOwner, HandlerSucceeds, Owning
<1>5. ASSUME NEW w \in Workers, HandlerFailsTransiently(w) PROVE RowsTellOwner'
  BY <1>5 DEF HandlerFailsTransiently, Undisturbed
<1>6. ASSUME NEW w \in Workers, Reply(w) PROVE RowsTellOwner'
  BY <1>6, <1>a DEF RowsTellOwner, Reply, Replies, Owning
<1>7. ASSUME NEW w \in Workers, Crash(w) PROVE RowsTellOwner'
  <2>1. at[w] \notin {"dropOrphan", "mark", "working"}
    BY <1>7 DEF Crash, Undisturbed
  <2>2. QED
    BY <1>7, <2>1, <1>a DEF RowsTellOwner, Crash, Owning
<1>8. CASE TimePasses
  <2>1. \A w \in Workers : at[w] \in {"idle"} \cup Reserving \cup Replies
    BY <1>8 DEF TimePasses, MarkerAges, Undisturbed
  <2>2. marker = "fresh" /\ UNCHANGED <<reservation, at, applied, acked>>
    BY <1>8 DEF TimePasses, MarkerAges
  <2>3. \A w \in Workers : at[w] \notin Owning
    BY <2>1, <2>2 DEF RowsTellOwner, Owning, Reserving, Replies
  <2>4. QED
    BY <2>2, <2>3 DEF RowsTellOwner, Owning
<1>9. CASE UNCHANGED vars
  BY <1>9 DEF vars, claimRows, RowsTellOwner
<1>10. QED
  BY <1>1, <1>2, <1>3, <1>4, <1>5, <1>6, <1>7, <1>8, <1>9 DEF Next

(* As long as no claim is disturbed, a 2xx to Stripe means that the event  *)
(* is taken, however its deliveries overlap and whatever else fails or     *)
(* dies, and while a handler runs its claim says so (stripe.go:281-285).   *)
THEOREM AckedIsTaken ==
  ASSUME Undisturbed
  PROVE  Spec => [](AckedMeansTaken /\ HandlerVisible)
<1>1. Init => RowsTellOwner
  <2> SUFFICES ASSUME Init PROVE RowsTellOwner
    OBVIOUS
  <2>1. TypeOK
    <3>1. "idle" \in Labels
      BY DEF Labels
    <3>2. at \in [Workers -> Labels] /\ marker = "none"
      BY <3>1 DEF Init
    <3>3. reservation \in BOOLEAN /\ acked \in BOOLEAN
      BY DEF Init
    <3>4. takeovers \in Nat /\ applied \in Nat /\ faults \in Nat
      BY DEF Init
    <3>5. QED
      BY <3>2, <3>3, <3>4 DEF TypeOK
  <2>2. QED
    BY <2>1 DEF Init, RowsTellOwner, Owning
<1>2. RowsTellOwner /\ TypeOK' /\ [Next]_vars => RowsTellOwner'
  BY RowsStillTell
<1>3. RowsTellOwner => AckedMeansTaken /\ HandlerVisible
  <2> SUFFICES ASSUME RowsTellOwner PROVE AckedMeansTaken /\ HandlerVisible
    OBVIOUS
  <2>1. AckedMeansTaken
    BY DEF RowsTellOwner, AckedMeansTaken, Claimants, Claiming
  <2>2. HandlerVisible
    BY DEF RowsTellOwner, HandlerVisible, Handling
  <2>3. QED
    BY <2>1, <2>2
<1>4. QED
  BY <1>1, <1>2, <1>3, TypeCorrect, PTL DEF Spec
=============================================================================
