--------------------------- MODULE Releases_proofs ---------------------------
(***************************************************************************)
(* Proofs about Releases, for any platforms and any number of publications *)
(* in progress, and about ReleaseFeed, for any versions and platforms and  *)
(* any window.                                                             *)
(***************************************************************************)
EXTENDS Releases, ReleaseFeed, FiniteSetTheorems, WellFoundedInduction, TLAPS

(* Every write of an artifact's row asks for a draft, in the statement     *)
(* itself.                                                                 *)
LEMMA StepKeepsShipped ==
  ASSUME [ReleasesNext]_releaseVars, Shipped
  PROVE  artifact' = artifact
<1> USE DEF Shipped
<1>1. CASE CreateRelease \/ DeleteDraft \/ YankRelease \/ UnyankRelease
  BY <1>1 DEF CreateRelease, DeleteDraft, YankRelease, UnyankRelease
<1>2. ASSUME NEW p \in Platforms,
             \/ AddArtifact(p) \/ Upload(p) \/ HashUpload(p)
             \/ DeleteArtifact(p) \/ DeleteObject(p)
      PROVE  artifact' = artifact
  BY <1>2 DEF AddArtifact, Upload, HashUpload, DeleteArtifact, DeleteObject
<1>3. ASSUME NEW p \in Platforms, UpdateArtifactFile(p) PROVE artifact' = artifact
  BY <1>3 DEF UpdateArtifactFile
<1>4. ASSUME NEW w \in Publishers,
             \/ LoadRelease(w) \/ ProbeKey(w) \/ SignArtifact(w) \/ PublishRelease(w)
             \/ CommitPublish(w) \/ PublicationFails(w)
      PROVE  artifact' = artifact
  BY <1>4 DEF LoadRelease, ProbeKey, SignArtifact, PublishRelease, CommitPublish,
    PublicationFails
<1>5. ASSUME NEW w \in Publishers, ClearReleaseSignatures(w) PROVE artifact' = artifact
  BY <1>5 DEF ClearReleaseSignatures
<1>6. ASSUME NEW w \in Publishers, UpdateArtifactSignature(w) PROVE artifact' = artifact
  BY <1>6 DEF UpdateArtifactSignature
<1>7. CASE CreateSigningKey \/ RotateSigningKey \/ DeactivateSigningKey
  BY <1>7 DEF CreateSigningKey, RotateSigningKey, DeactivateSigningKey
<1>8. CASE UNCHANGED releaseVars
  BY <1>8 DEF releaseVars
<1>9. QED
  BY <1>1, <1>2, <1>3, <1>4, <1>5, <1>6, <1>7, <1>8 DEF ReleasesNext, ReleaseStep

(* What shipped is never rewritten: a publication that lost the race, a    *)
(* late finalisation or a deletion leaves it alone                         *)
(* (store/release.go:590-594).                                             *)
THEOREM ShippedStaysFrozen == ReleasesSpec => ShippedIsFrozen
<1>1. [ReleasesNext]_releaseVars => [Shipped => artifact' = artifact]_releaseVars
  BY StepKeepsShipped
<1>2. QED
  BY <1>1, PTL DEF ReleasesSpec, ShippedIsFrozen

-----------------------------------------------------------------------------
(* What a publication is known to be, and how its steps change it.         *)
PublicationRow ==
  [step : {"idle", "probe", "clear", "sign", "gate", "commit"},
   seen : [Platforms -> ArtifactRow], key : 0..MaxKeys,
   todo : SUBSET Platforms, signed : SUBSET Platforms]

(* The constants of the module are rows. *)
LEMMA RowsAtRest ==
  ASSUME MaxContents \in Nat, MaxRows \in Nat, MaxKeys \in Nat
  PROVE  /\ NoArtifact \in ArtifactRow
         /\ NoPublication \in PublicationRow
         /\ NoPublication.step = "idle" /\ NoPublication.key = 0 /\ NoPublication.signed = {}
<1>1. NoArtifact \in ArtifactRow
  BY DEF NoArtifact, ArtifactRow
<1>2. QED
  BY <1>1 DEF NoPublication, PublicationRow

(* A row in which one field is replaced is a row. *)
LEMMA ArtifactFields ==
  ASSUME MaxContents \in Nat, MaxRows \in Nat, MaxKeys \in Nat, NEW a \in ArtifactRow
  PROVE  /\ \A n \in 0..MaxRows : [a EXCEPT !.row = n] \in ArtifactRow
         /\ \A n \in 0..MaxContents : [a EXCEPT !.sha = n] \in ArtifactRow
         /\ \A n \in 0..MaxContents : [a EXCEPT !.sig = n] \in ArtifactRow
         /\ \A n \in 0..MaxKeys : [a EXCEPT !.key = n] \in ArtifactRow
<1>1. \A n \in 0..MaxRows : [a EXCEPT !.row = n] \in ArtifactRow
  BY DEF ArtifactRow
<1>2. \A n \in 0..MaxContents : [a EXCEPT !.sha = n] \in ArtifactRow
  BY DEF ArtifactRow
<1>3. \A n \in 0..MaxContents : [a EXCEPT !.sig = n] \in ArtifactRow
  BY DEF ArtifactRow
<1>4. \A n \in 0..MaxKeys : [a EXCEPT !.key = n] \in ArtifactRow
  BY DEF ArtifactRow
<1>5. QED
  BY <1>1, <1>2, <1>3, <1>4

(* A row with another signature is a row. *)
LEMMA RowResigned ==
  ASSUME MaxContents \in Nat, MaxRows \in Nat, MaxKeys \in Nat,
         NEW a \in ArtifactRow, NEW n \in 0..MaxContents, NEW k \in 0..MaxKeys
  PROVE  [a EXCEPT !.sig = n, !.key = k] \in ArtifactRow
<1>1. [a EXCEPT !.sig = n] \in ArtifactRow
  BY ArtifactFields
<1>2. QED
  BY <1>1, ArtifactFields

(* The steps of a publication. *)
PublicationStep(w) ==
  \/ LoadRelease(w) \/ ProbeKey(w) \/ ClearReleaseSignatures(w) \/ SignArtifact(w)
  \/ UpdateArtifactSignature(w) \/ PublishRelease(w) \/ CommitPublish(w)
  \/ PublicationFails(w)

(* One publication moves at a time. *)
LEMMA PublicationMoves ==
  ASSUME MaxContents \in Nat, MaxRows \in Nat, MaxKeys \in Nat,
         ReleasesTypeOK, NEW w \in Publishers, PublicationStep(w)
  PROVE  \E v \in PublicationRow : publication' = [publication EXCEPT ![w] = v]
<1> DEFINE r == publication[w]
<1>1. /\ publication \in [Publishers -> PublicationRow] /\ r \in PublicationRow
      /\ artifact \in [Platforms -> ArtifactRow] /\ active \in 0..MaxKeys
  BY DEF ReleasesTypeOK, PublicationRow
<1>2. EndPublication(w) =>
        \E v \in PublicationRow : publication' = [publication EXCEPT ![w] = v]
  BY RowsAtRest DEF EndPublication
<1>3. ASSUME NEW step \in {"idle", "probe", "clear", "sign", "gate", "commit"}, Move(w, step)
      PROVE  \E v \in PublicationRow : publication' = [publication EXCEPT ![w] = v]
  <2>1. [r EXCEPT !.step = step] \in PublicationRow
    BY <1>1 DEF PublicationRow
  <2>2. QED
    BY <1>3, <2>1 DEF Move
<1>4. CASE LoadRelease(w)
  <2>1. [NoPublication EXCEPT !.step = "probe", !.seen = artifact] \in PublicationRow
    BY <1>1, RowsAtRest DEF PublicationRow
  <2>2. QED
    BY <1>4, <2>1 DEF LoadRelease
<1>5. CASE ProbeKey(w)
  <2>1. [r EXCEPT !.step = "sign", !.key = active, !.todo = Present(r.seen)] \in PublicationRow
    BY <1>1 DEF PublicationRow, Present
  <2>2. QED
    BY <1>2, <1>3, <1>5, <2>1 DEF ProbeKey
<1>6. CASE SignArtifact(w)
  <2>1. \A p \in r.todo : [r EXCEPT !.signed = {p}] \in PublicationRow
    BY <1>1 DEF PublicationRow
  <2>2. QED
    BY <1>2, <1>6, <2>1 DEF SignArtifact
<1>7. CASE UpdateArtifactSignature(w)
  <2>1. \A p \in r.signed :
          [r EXCEPT !.todo = r.todo \ {p}, !.signed = {},
                    !.step = IF r.todo = {p} THEN "gate" ELSE "sign"] \in PublicationRow
    BY <1>1 DEF PublicationRow
  <2>2. ASSUME NEW p \in r.signed,
               publication' = [publication EXCEPT ![w].todo = r.todo \ {p}, ![w].signed = {},
                                 ![w].step = IF r.todo = {p} THEN "gate" ELSE "sign"]
        PROVE  \E v \in PublicationRow : publication' = [publication EXCEPT ![w] = v]
    <3>1. publication' = [publication EXCEPT ![w] =
            [r EXCEPT !.todo = r.todo \ {p}, !.signed = {},
                      !.step = IF r.todo = {p} THEN "gate" ELSE "sign"]]
      BY <1>1, <2>2
    <3>2. QED
      BY <2>1, <3>1
  <2>3. QED
    BY <1>2, <1>7, <2>2 DEF UpdateArtifactSignature
<1>8. CASE ClearReleaseSignatures(w) \/ PublishRelease(w) \/ CommitPublish(w)
           \/ PublicationFails(w)
  BY <1>2, <1>3, <1>8 DEF ClearReleaseSignatures, PublishRelease, CommitPublish,
    PublicationFails
<1>9. QED
  BY <1>4, <1>5, <1>6, <1>7, <1>8 DEF PublicationStep

(* Every variable keeps its type, whatever the bounds of an instance.      *)
THEOREM ReleasesTypeCorrect == ReleasesSpec => []ReleasesTypeOK
<1>0. MaxContents \in Nat /\ MaxRows \in Nat /\ MaxKeys \in Nat /\ MaxPublications \in Nat
  BY ReleasesConstantsOK DEF ReleasesConstantsOK
<1> USE <1>0
<1>1. ReleasesInit => ReleasesTypeOK
  BY RowsAtRest DEF ReleasesInit, ReleasesTypeOK, NoFinalize, PublicationRow
<1>2. ReleasesTypeOK /\ [ReleasesNext]_releaseVars => ReleasesTypeOK'
  <2> SUFFICES ASSUME ReleasesTypeOK, [ReleasesNext]_releaseVars PROVE ReleasesTypeOK'
    OBVIOUS
  <2>1. publication \in [Publishers -> PublicationRow]
    BY DEF ReleasesTypeOK, PublicationRow
  <2>2. publication' \in [Publishers -> PublicationRow] => publication' \in [Publishers ->
          [step : {"idle", "probe", "clear", "sign", "gate", "commit"},
           seen : [Platforms -> ArtifactRow], key : 0..MaxKeys,
           todo : SUBSET Platforms, signed : SUBSET Platforms]]
    BY DEF PublicationRow
  <2> DEFINE OthersTyped ==
        /\ status \in {"none", "draft", "published", "yanked", "deleted"}
        /\ artifact \in [Platforms -> ArtifactRow]
        /\ stored \in [Platforms -> 0..MaxContents]
        /\ linked \subseteq Platforms /\ cleanup \subseteq Platforms
        /\ uploads \in 0..MaxContents /\ rows \in 0..MaxRows
        /\ keys \in 0..MaxKeys /\ active \in 0..keys /\ begun \in 0..MaxPublications
        /\ finalizing \in [Platforms -> [row : 0..MaxRows, sha : 0..MaxContents]]
  <2>3. OthersTyped
    BY DEF ReleasesTypeOK
  <2>12. requireSigning' \in BOOLEAN /\ snapshotGate' \in BOOLEAN
    BY DEF ReleasesTypeOK, ReleasesNext, releaseVars, settings
  <2>4. publication' = publication /\ OthersTyped' => ReleasesTypeOK'
    BY <2>12 DEF ReleasesTypeOK
  <2>5. CASE CreateRelease \/ DeleteDraft \/ YankRelease \/ UnyankRelease
    BY <2>3, <2>4, <2>5, RowsAtRest
      DEF CreateRelease, DeleteDraft, YankRelease, UnyankRelease, Present
  <2>6. ASSUME NEW p \in Platforms,
               \/ AddArtifact(p) \/ Upload(p) \/ HashUpload(p) \/ UpdateArtifactFile(p)
               \/ DeleteArtifact(p) \/ DeleteObject(p)
        PROVE  OthersTyped'
    <3>1. CASE AddArtifact(p)
      <4>1. [NoArtifact EXCEPT !.row = rows'] \in ArtifactRow
        BY <2>3, <3>1 DEF AddArtifact, NoArtifact, ArtifactRow
      <4>2. QED
        BY <2>3, <3>1, <4>1 DEF AddArtifact
    <3>2. CASE Upload(p)
      BY <2>3, <3>2 DEF Upload
    <3>3. CASE DeleteArtifact(p) \/ DeleteObject(p)
      BY <2>3, <3>3, RowsAtRest DEF DeleteArtifact, DeleteObject
    <3>4. CASE HashUpload(p)
      <4>1. artifact[p].row \in 0..MaxRows /\ stored[p] \in 0..MaxContents
        BY <2>3 DEF ArtifactRow
      <4>2. QED
        BY <2>3, <3>4, <4>1 DEF HashUpload
    <3>5. CASE UpdateArtifactFile(p)
      <4>1. finalizing[p].row \in 0..MaxRows /\ finalizing[p].sha \in 0..MaxContents
        BY <2>3
      <4>2. [NoArtifact EXCEPT !.row = finalizing[p].row] \in ArtifactRow
        BY <4>1, RowsAtRest, ArtifactFields
      <4>3. [NoArtifact EXCEPT !.row = finalizing[p].row, !.sha = finalizing[p].sha]
              \in ArtifactRow
        BY <4>1, <4>2, ArtifactFields
      <4>4. QED
        BY <2>3, <3>5, <4>3 DEF UpdateArtifactFile, NoFinalize
    <3>6. QED
      BY <2>6, <3>1, <3>2, <3>3, <3>4, <3>5
  <2>7. ASSUME NEW p \in Platforms,
               \/ AddArtifact(p) \/ Upload(p) \/ HashUpload(p) \/ UpdateArtifactFile(p)
               \/ DeleteArtifact(p) \/ DeleteObject(p)
        PROVE  publication' = publication
    BY <2>7 DEF AddArtifact, Upload, HashUpload, UpdateArtifactFile, DeleteArtifact,
      DeleteObject
  <2>8. ASSUME NEW w \in Publishers, PublicationStep(w) PROVE ReleasesTypeOK'
    <3>1. publication' \in [Publishers -> PublicationRow]
      BY <2>1, <2>8, PublicationMoves
    <3>2. artifact' \in [Platforms -> ArtifactRow]
      <4>1. CASE ClearReleaseSignatures(w)
        <5>1. \A p \in Platforms : [artifact[p] EXCEPT !.sig = 0, !.key = 0] \in ArtifactRow
          <6>1. SUFFICES ASSUME NEW p \in Platforms
                         PROVE  [artifact[p] EXCEPT !.sig = 0, !.key = 0] \in ArtifactRow
            OBVIOUS
          <6>2. artifact[p] \in ArtifactRow /\ 0 \in 0..MaxContents /\ 0 \in 0..MaxKeys
            BY <2>3
          <6>3. QED
            BY <6>2, RowResigned
        <5>2. QED
          BY <2>3, <4>1, <5>1 DEF ClearReleaseSignatures
      <4>2. CASE UpdateArtifactSignature(w)
        <5>1. /\ publication[w].key \in 0..MaxKeys /\ publication[w].signed \subseteq Platforms
              /\ \A p \in Platforms : publication[w].seen[p].sha \in 0..MaxContents
          BY <2>1 DEF PublicationRow, ArtifactRow
        <5>2. \A p \in Platforms :
                [artifact[p] EXCEPT !.sig = publication[w].seen[p].sha,
                                    !.key = publication[w].key] \in ArtifactRow
          BY <2>3, <5>1, RowResigned
        <5>3. \A p \in publication[w].signed :
                [artifact EXCEPT ![p] =
                   [artifact[p] EXCEPT !.sig = publication[w].seen[p].sha,
                                       !.key = publication[w].key]]
                  \in [Platforms -> ArtifactRow]
          BY <2>3, <5>1, <5>2
        <5>4. QED
          BY <2>3, <4>2, <5>3 DEF UpdateArtifactSignature
      <4>3. QED
        BY <2>3, <2>8, <4>1, <4>2 DEF PublicationStep, LoadRelease, ProbeKey, SignArtifact,
          PublishRelease, CommitPublish, PublicationFails
    <3>3. /\ UNCHANGED <<stored, linked, cleanup, uploads, rows, keys, active, finalizing>>
          /\ status' \in {status, "published"} /\ begun' \in {begun, begun + 1}
          /\ begun' # begun => begun < MaxPublications
      BY <2>8 DEF PublicationStep, LoadRelease, ProbeKey, ClearReleaseSignatures,
        SignArtifact, UpdateArtifactSignature, PublishRelease, CommitPublish,
        PublicationFails
    <3>4. OthersTyped'
      BY <2>3, <3>2, <3>3
    <3>5. QED
      BY <2>2, <2>12, <3>1, <3>4 DEF ReleasesTypeOK
  <2>9. CASE CreateSigningKey \/ RotateSigningKey \/ DeactivateSigningKey
    BY <2>3, <2>4, <2>9 DEF CreateSigningKey, RotateSigningKey, DeactivateSigningKey
  <2>10. CASE UNCHANGED releaseVars
    BY <2>3, <2>4, <2>10 DEF releaseVars
  <2>11. QED
    BY <2>4, <2>5, <2>6, <2>7, <2>8, <2>9, <2>10 DEF ReleasesNext, ReleaseStep, PublicationStep
<1>3. QED
  BY <1>1, <1>2, PTL DEF ReleasesSpec

-----------------------------------------------------------------------------
(* Of a product that requires signatures: a publication comes to the gate  *)
(* with a key that existed, and never on the way without signing.          *)
Signing ==
  /\ \A w \in Publishers :
       /\ publication[w].key <= keys
       /\ publication[w].step \notin {"clear", "commit"}
       /\ publication[w].step = "gate" \/ publication[w].step = "sign"
            \/ publication[w].signed # {} => publication[w].key # 0
  /\ OneKey

(* It stays so, of a product that requires them, when the final update     *)
(* sees the artifacts it commits with.                                     *)
LEMMA SigningStays ==
  ASSUME MaxContents \in Nat, MaxRows \in Nat, MaxKeys \in Nat, MaxPublications \in Nat,
         requireSigning, ~ snapshotGate,
         ReleasesTypeOK, Signing, [ReleasesNext]_releaseVars
  PROVE  Signing'
<1>1. keys \in Nat /\ keys' \in {keys, keys + 1}
  <2>1. keys \in Nat
    BY DEF ReleasesTypeOK
  <2>2. CASE CreateSigningKey \/ RotateSigningKey \/ DeactivateSigningKey
    BY <2>1, <2>2 DEF CreateSigningKey, RotateSigningKey, DeactivateSigningKey
  <2>3. CASE ~ (CreateSigningKey \/ RotateSigningKey \/ DeactivateSigningKey)
    BY <2>1, <2>3 DEF ReleasesNext, ReleaseStep, releaseVars, CreateRelease, DeleteDraft,
      YankRelease, UnyankRelease, AddArtifact, Upload, HashUpload, UpdateArtifactFile,
      DeleteArtifact, DeleteObject, LoadRelease, ProbeKey, ClearReleaseSignatures,
      SignArtifact, UpdateArtifactSignature, PublishRelease, CommitPublish,
      PublicationFails
  <2>4. QED
    BY <2>2, <2>3
<1>2. ASSUME Shipped PROVE OneKey'
  BY <1>1, <1>2, StepKeepsShipped DEF Signing, OneKey, Present
<1>3. ASSUME ~ Shipped, Shipped', NEW w \in Publishers, PublishRelease(w) PROVE OneKey'
  <2>1. publication[w].key \in 1..keys
    BY <1>3 DEF Signing, PublishRelease, ReleasesTypeOK
  <2>2. /\ artifact' = artifact /\ keys' = keys
        /\ \A p \in Present(artifact) : artifact[p].key = publication[w].key
    BY <1>3, <2>1 DEF PublishRelease, Publishable, Shipped
  <2>3. QED
    BY <2>1, <2>2 DEF OneKey, Present
<1>4. ASSUME ~ Shipped, Shipped' PROVE \E w \in Publishers : PublishRelease(w)
  BY <1>4 DEF Signing, Shipped, ReleasesNext, ReleaseStep, releaseVars, CreateRelease, DeleteDraft,
    YankRelease, UnyankRelease, AddArtifact, Upload, HashUpload, UpdateArtifactFile,
    DeleteArtifact, DeleteObject, LoadRelease, ProbeKey, ClearReleaseSignatures,
    SignArtifact, UpdateArtifactSignature, CommitPublish,
    PublicationFails, CreateSigningKey, RotateSigningKey, DeactivateSigningKey
<1>5. OneKey'
  BY <1>2, <1>3, <1>4 DEF OneKey
<1>6. ASSUME NEW w \in Publishers, PublicationStep(w) PROVE Signing'
  <2>1. PICK v \in PublicationRow : publication' = [publication EXCEPT ![w] = v]
    BY <1>6, PublicationMoves
  <2>2. /\ publication \in [Publishers -> PublicationRow]
        /\ active \in Nat /\ active <= keys
    BY DEF ReleasesTypeOK, PublicationRow
  <2>9. keys' = keys
    BY <1>6 DEF PublicationStep, LoadRelease, ProbeKey, ClearReleaseSignatures, SignArtifact, UpdateArtifactSignature, PublishRelease,
      CommitPublish, PublicationFails
  <2>3. publication'[w] = v /\ publication[w] \in PublicationRow
    BY <2>1, <2>2
  <2> DEFINE r == publication[w]
             Sound(u) == /\ u.key <= keys
                         /\ u.step \notin {"clear", "commit"}
                         /\ u.step = "gate" \/ u.step = "sign" \/ u.signed # {} => u.key # 0
  <2>4. Sound(r) /\ Sound(NoPublication)
    BY <1>1, RowsAtRest DEF Signing
  <2>5. EndPublication(w) => v = NoPublication
    BY <2>2, <2>3 DEF EndPublication
  <2>6. ASSUME NEW step, Move(w, step)
        PROVE  v.step = step /\ v.key = r.key /\ v.signed = r.signed
    BY <2>2, <2>3, <2>6 DEF Move, PublicationRow
  <2>7. Sound(v)
    <3>1. CASE LoadRelease(w)
      <4>1. v = [NoPublication EXCEPT !.step = "probe", !.seen = artifact]
        BY <2>2, <2>3, <3>1 DEF LoadRelease
      <4>2. v.step = "probe" /\ v.key = 0 /\ v.signed = {}
        BY <4>1 DEF NoPublication
      <4>3. QED
        BY <1>1, <4>2
    <3>2. CASE ProbeKey(w)
      BY <1>1, <2>2, <2>3, <2>4, <2>5, <3>2 DEF ProbeKey, PublicationRow
    <3>3. CASE ClearReleaseSignatures(w) \/ CommitPublish(w) \/ PublicationFails(w)
      BY <2>4, <2>5, <3>3 DEF ClearReleaseSignatures, CommitPublish, PublicationFails
    <3>4. CASE SignArtifact(w)
      BY <2>2, <2>3, <2>4, <2>5, <3>4 DEF SignArtifact, PublicationRow
    <3>5. CASE UpdateArtifactSignature(w)
      BY <2>2, <2>3, <2>4, <2>5, <3>5 DEF UpdateArtifactSignature, PublicationRow
    <3>6. CASE PublishRelease(w)
      BY <2>4, <2>5, <3>6 DEF PublishRelease
    <3>7. QED
      BY <1>6, <3>1, <3>2, <3>3, <3>4, <3>5, <3>6 DEF PublicationStep
  <2>8. QED
    BY <1>5, <2>1, <2>2, <2>9, <2>7 DEF Signing
<1>7. ASSUME publication' = publication PROVE Signing'
  BY <1>1, <1>5, <1>7 DEF Signing, ReleasesTypeOK
<1>8. publication' = publication \/ \E w \in Publishers : PublicationStep(w)
  BY DEF ReleasesNext, ReleaseStep, releaseVars, CreateRelease, DeleteDraft, YankRelease,
    UnyankRelease, AddArtifact, Upload, HashUpload, UpdateArtifactFile, DeleteArtifact,
    DeleteObject, CreateSigningKey, RotateSigningKey, DeactivateSigningKey,
    PublicationStep
<1>9. QED
  BY <1>6, <1>7, <1>8

(* A release that requires signatures never ships with platforms that      *)
(* verify against different keys, however publications and rotations       *)
(* overlap (store/release.go:183-186): the gate compares every artifact    *)
(* with the key the publication probed, and nothing changes a release that *)
(* shipped.  The final update is taken to see the artifacts it commits     *)
(* with.                                                                   *)
THEOREM ShipsUnderOneKey == ReleasesSpec => []OneKey
<1> DEFINE Signs == requireSigning /\ ~ snapshotGate => Signing
<1>1. ReleasesInit => Signs
  BY DEF ReleasesInit, Signing, OneKey, Shipped, NoPublication
<1>2. ReleasesTypeOK /\ Signs /\ [ReleasesNext]_releaseVars => Signs'
  <2>1. MaxContents \in Nat /\ MaxRows \in Nat /\ MaxKeys \in Nat /\ MaxPublications \in Nat
    BY ReleasesConstantsOK DEF ReleasesConstantsOK
  <2>2. [ReleasesNext]_releaseVars => settings' = settings
    BY DEF ReleasesNext, ReleaseStep, releaseVars
  <2>3. QED
    BY <2>1, <2>2, SigningStays DEF settings
<1>3. Signs => OneKey
  BY DEF Signing, OneKey
<1>4. QED
  BY <1>1, <1>2, <1>3, ReleasesTypeCorrect, PTL DEF ReleasesSpec

-----------------------------------------------------------------------------
(***************************************************************************)
(* ReleaseFeed: what a client of a channel sees.                           *)
(***************************************************************************)
(* Some numbers, if they are finitely many, have a greatest one.           *)
LEMMA GreatestNumber ==
  ASSUME NEW S \in SUBSET Int, IsFiniteSet(S), S # {}
  PROVE  \E i \in S : \A j \in S : i >= j
<1> DEFINE Above(i) == {j \in S : j > i}
           T == {Above(i) : i \in S}
           R == StrictSubsetOrdering(S)
<1>1. T \subseteq FiniteSubsetsOf(S) /\ T # {}
  <2>1. \A i \in S : IsFiniteSet(Above(i)) /\ Above(i) \in SUBSET S
    BY FS_Subset
  <2>2. QED
    BY <2>1 DEF FiniteSubsetsOf
<1>2. PICK x \in T : \A y \in T : ~ (<<y, x>> \in R)
  BY <1>1, FS_StrictSubsetOrderingWellFounded, WFMin
<1>3. PICK i \in S : x = Above(i)
  OBVIOUS
<1>4. ASSUME NEW j \in S, j > i PROVE FALSE
  <2>a. i \in Int /\ j \in Int /\ S \subseteq Int
    OBVIOUS
  <2>b. \A k \in S : k > j => k > i
    BY <1>4, <2>a
  <2>c. Above(j) \subseteq Above(i)
    BY <2>b
  <2>d. j \in Above(i)
    BY <1>4
  <2>e. ~ (j > j)
    BY <2>a
  <2>f. j \notin Above(j)
    BY <2>e
  <2>1. Above(j) \subseteq Above(i) /\ j \in Above(i) /\ j \notin Above(j)
    BY <2>c, <2>d, <2>f
  <2>2. <<Above(j), x>> \in R
    BY <1>3, <2>1 DEF StrictSubsetOrdering
  <2>3. QED
    BY <1>2, <2>2
<1>5. QED
  BY <1>4

(* Every release keeps its type. *)
LEMMA FeedTyped ==
  ASSUME ReleaseFeedTypeOK, [ReleaseFeedNext]_feedVars
  PROVE  ReleaseFeedTypeOK'
<1> DEFINE ReleaseRow == [status : {"none", "draft", "published", "yanked"},
                          channel : Channels, platforms : SUBSET FeedPlatforms,
                          published : Nat]
<1>1. release \in [Versions -> ReleaseRow] /\ clock \in Nat
  BY DEF ReleaseFeedTypeOK
<1>2. \A r \in [Versions -> ReleaseRow] : \A v \in Versions : \A u \in ReleaseRow :
        [r EXCEPT ![v] = u] \in [Versions -> ReleaseRow]
  OBVIOUS
<1>3. ASSUME NEW v \in Versions, Create(v) PROVE ReleaseFeedTypeOK'
  <2>1. PICK c \in Channels :
          release' = [release EXCEPT ![v] = [NoRelease EXCEPT !.status = "draft", !.channel = c]]
    BY <1>3 DEF Create
  <2>2. [NoRelease EXCEPT !.status = "draft", !.channel = c] \in ReleaseRow
    BY DEF NoRelease, Channels
  <2>3. QED
    BY <1>1, <1>2, <1>3, <2>1, <2>2 DEF Create, ReleaseFeedTypeOK
<1>4. ASSUME NEW v \in Versions, Publish(v) PROVE ReleaseFeedTypeOK'
  <2>1. PICK ps \in SUBSET FeedPlatforms :
          release' = [release EXCEPT ![v].status = "published", ![v].platforms = ps,
                                     ![v].published = clock + 1]
    BY <1>4 DEF Publish
  <2>a. \A u \in ReleaseRow : [u EXCEPT !.status = "published"] \in ReleaseRow
    OBVIOUS
  <2>b. \A u \in ReleaseRow : [u EXCEPT !.platforms = ps] \in ReleaseRow
    OBVIOUS
  <2>c. \A u \in ReleaseRow : [u EXCEPT !.published = clock + 1] \in ReleaseRow
    BY <1>1
  <2>2. [release[v] EXCEPT !.status = "published", !.platforms = ps, !.published = clock + 1]
          \in ReleaseRow
    <3>1. release[v] \in ReleaseRow
      BY <1>1
    <3> HIDE DEF ReleaseRow
    <3>2. QED
      BY <2>a, <2>b, <2>c, <3>1
  <2>3. release' = [release EXCEPT ![v] =
          [release[v] EXCEPT !.status = "published", !.platforms = ps, !.published = clock + 1]]
    BY <1>1, <2>1
  <2>4. QED
    BY <1>1, <1>2, <1>4, <2>2, <2>3 DEF Publish, ReleaseFeedTypeOK
<1>5. ASSUME NEW v \in Versions, Yank(v) \/ Unyank(v) PROVE ReleaseFeedTypeOK'
  <2>1. \A s \in {"published", "yanked"} : [release[v] EXCEPT !.status = s] \in ReleaseRow
    BY <1>1
  <2>2. QED
    BY <1>1, <1>2, <1>5, <2>1 DEF Yank, Unyank, ReleaseFeedTypeOK
<1>6. CASE UNCHANGED feedVars
  BY <1>1, <1>6 DEF feedVars, ReleaseFeedTypeOK
<1>7. QED
  BY <1>3, <1>4, <1>5, <1>6 DEF ReleaseFeedNext

(* The latest release of a pool is its greatest version; without one, 0 is *)
(* below every version there could be.                                     *)
LEMMA LatestIsGreatest ==
  ASSUME NEW c, NEW p
  PROVE  /\ Pool(c, p) \subseteq Versions
         /\ Pool(c, p) = {} => findLatestPublished(c, p) = 0
         /\ Pool(c, p) # {} => /\ findLatestPublished(c, p) \in Pool(c, p)
                               /\ \A v \in Pool(c, p) : findLatestPublished(c, p) >= v
<1>1. Pool(c, p) \subseteq Versions
  BY DEF Pool, ListPublishedReleasesForFeed
<1>2. Pool(c, p) = {} => findLatestPublished(c, p) = 0
  BY DEF findLatestPublished
<1>3. ASSUME Pool(c, p) # {}
      PROVE  /\ findLatestPublished(c, p) \in Pool(c, p)
             /\ \A v \in Pool(c, p) : findLatestPublished(c, p) >= v
  <2>0. IsFiniteSet(Versions) /\ Versions \subseteq Int
    BY ReleaseFeedConstantsOK DEF ReleaseFeedConstantsOK
  <2>1. IsFiniteSet(Pool(c, p)) /\ Pool(c, p) \in SUBSET Int
    <3>1. Pool(c, p) \in SUBSET Versions
      BY <1>1
    <3>2. QED
      BY <2>0, <3>1, FS_Subset
  <2>2. \E v \in Pool(c, p) : \A w \in Pool(c, p) : v >= w
    BY <1>3, <2>1, GreatestNumber
  <2>3. QED
    BY <1>3, <2>2 DEF findLatestPublished
<1>4. QED
  BY <1>1, <1>2, <1>3

(* As long as no channel has more releases than the window, the window     *)
(* hides none.                                                             *)
LEMMA WindowHidesNothing ==
  ASSUME NEW c, NEW p, NEW visible,
         visible = {v \in Versions : /\ release[v].status = "published"
                                     /\ release[v].channel \in channelFallbackChain(c)
                                     /\ p \in release[v].platforms},
         \A d \in channelFallbackChain(c) :
           Cardinality({v \in visible : release[v].channel = d}) <= Window,
         ReleaseFeedTypeOK
  PROVE  Pool(c, p) = visible
<1>1. ASSUME NEW d \in channelFallbackChain(c)
      PROVE  ListPublishedReleasesForFeed(d, p) = {v \in visible : release[v].channel = d}
  <2> DEFINE published == {v \in Versions : /\ release[v].status = "published"
                                            /\ release[v].channel = d
                                            /\ p \in release[v].platforms}
             Newer(v) == {w \in published : release[w].published > release[v].published}
  <2>1. published = {v \in visible : release[v].channel = d}
    OBVIOUS
  <2>2. IsFiniteSet(published) /\ Cardinality(published) \in Nat
    BY FS_Subset, FS_CardinalityType, ReleaseFeedConstantsOK DEF ReleaseFeedConstantsOK
  <2>3. Cardinality(published) <= Window
    BY <2>1
  <2>4. ASSUME NEW v \in published PROVE Cardinality(Newer(v)) < Window
    <3>1. v \in published /\ v \notin Newer(v) /\ Newer(v) \in SUBSET published
      BY DEF ReleaseFeedTypeOK
    <3>2. /\ IsFiniteSet(Newer(v)) /\ Cardinality(Newer(v)) <= Cardinality(published)
          /\ Cardinality(Newer(v)) # Cardinality(published)
      <4> HIDE DEF published, Newer
      <4>1. QED
        BY <2>2, <3>1, FS_Subset
    <3>3. Cardinality(Newer(v)) \in Nat
      BY <3>2, FS_CardinalityType
    <3>4. QED
      BY <2>2, <2>3, <3>2, <3>3, ReleaseFeedConstantsOK DEF ReleaseFeedConstantsOK
  <2>5. ListPublishedReleasesForFeed(d, p) = {v \in published : Cardinality(Newer(v)) < Window}
    BY DEF ListPublishedReleasesForFeed
  <2>6. QED
    <3> HIDE DEF Newer, published
    <3>1. QED
      BY <2>1, <2>4, <2>5
<1>2. QED
  BY <1>1 DEF Pool

(* A client is offered the highest version it may see, as long as no       *)
(* channel has more of them than the window (service/release.go:853-857).  *)
LEMMA HighestIsOffered == ReleaseFeedTypeOK => OfferedIsHighest
<1> SUFFICES ASSUME ReleaseFeedTypeOK, NEW c \in Channels, NEW p \in FeedPlatforms,
                    NEW visible,
                    visible = {v \in Versions :
                                 /\ release[v].status = "published"
                                 /\ release[v].channel \in channelFallbackChain(c)
                                 /\ p \in release[v].platforms},
                    ~ \E d \in Channels :
                        Cardinality({v \in visible : release[v].channel = d}) > Window
             PROVE  /\ findLatestPublished(c, p) \in visible \cup {0}
                    /\ \A v \in visible : findLatestPublished(c, p) >= v
  BY DEF OfferedIsHighest
<1>1. channelFallbackChain(c) \subseteq Channels
  BY DEF channelFallbackChain, Channels
<1>2. \A d \in Channels : Cardinality({v \in visible : release[v].channel = d}) <= Window
  <2> SUFFICES ASSUME NEW d \in Channels
               PROVE  Cardinality({v \in visible : release[v].channel = d}) <= Window
    OBVIOUS
  <2>1. {v \in visible : release[v].channel = d} \in SUBSET Versions
    OBVIOUS
  <2>2. Cardinality({v \in visible : release[v].channel = d}) \in Nat
    BY <2>1, FS_Subset, FS_CardinalityType, ReleaseFeedConstantsOK DEF ReleaseFeedConstantsOK
  <2>3. ~ (Cardinality({v \in visible : release[v].channel = d}) > Window)
    OBVIOUS
  <2>4. QED
    BY <2>2, <2>3, ReleaseFeedConstantsOK DEF ReleaseFeedConstantsOK
<1>3. Pool(c, p) = visible
  BY <1>1, <1>2, WindowHidesNothing
<1>4. QED
  BY <1>3, LatestIsGreatest

(* A less stable channel sees everything a more stable one sees.           *)
LEMMA NewerIsOffered == NewerOnUnstable
<1>1. ASSUME NEW p \in FeedPlatforms, NEW c, NEW d, Pool(c, p) \subseteq Pool(d, p)
      PROVE  findLatestPublished(d, p) >= findLatestPublished(c, p)
  <2>1. \A v \in Versions : v \in Nat /\ v >= 0
    BY ReleaseFeedConstantsOK DEF ReleaseFeedConstantsOK
  <2>2. CASE Pool(c, p) = {}
    BY <2>1, <2>2, LatestIsGreatest
  <2>3. CASE Pool(c, p) # {}
    BY <1>1, <2>3, LatestIsGreatest
  <2>4. QED
    BY <2>2, <2>3
<1>2. \A p : /\ Pool("stable", p) \subseteq Pool("beta", p)
             /\ Pool("beta", p) \subseteq Pool("alpha", p)
             /\ Pool("alpha", p) \subseteq Pool("dev", p)
  BY DEF Pool, channelFallbackChain
<1>3. QED
  BY <1>1, <1>2 DEF NewerOnUnstable

(* Every release a feed lists can be downloaded by its version, from the   *)
(* same channel and for the same platform.                                 *)
LEMMA ListedCanBeDownloaded == ListedIsDownloadable
<1> SUFFICES ASSUME NEW c \in Channels, NEW p \in FeedPlatforms, NEW limit \in Limits,
                    NEW v \in ListForFeed(c, p, limit)
             PROVE  GenerateDownload(c, p, v) = [code |-> 200, version |-> v]
  BY DEF ListedIsDownloadable
<1>1. v \in Versions /\ v # 0
  BY ReleaseFeedConstantsOK
  DEF ReleaseFeedConstantsOK, ListForFeed, Pool, ListPublishedReleasesForFeed
<1>2. /\ release[v].status = "published" /\ p \in release[v].platforms
      /\ release[v].channel \in channelFallbackChain(c)
  BY DEF ListForFeed, Pool, ListPublishedReleasesForFeed
<1>3. findVersionWithFallback(c, v) = "found"
  BY <1>2 DEF findVersionWithFallback
<1>4. QED
  BY <1>1, <1>2, <1>3 DEF GenerateDownload

(* Whatever is published, yanked and brought back, in any order: a client  *)
(* is offered the highest version it may see and can install, as long as   *)
(* no channel has more of them than the window, none older on a less       *)
(* stable channel, and can download what is listed                         *)
(* (service/release.go:835-857, store/release.go:373-380).                 *)
THEOREM FeedsAreTrue ==
  ReleaseFeedSpec =>
    [](ReleaseFeedTypeOK /\ OfferedIsHighest /\ NewerOnUnstable /\ ListedIsDownloadable)
<1>1. ReleaseFeedInit => ReleaseFeedTypeOK
  BY DEF ReleaseFeedInit, ReleaseFeedTypeOK, NoRelease, Channels
<1>2. ReleaseFeedTypeOK /\ [ReleaseFeedNext]_feedVars => ReleaseFeedTypeOK'
  BY FeedTyped
<1>3. QED
  BY <1>1, <1>2, HighestIsOffered, NewerIsOffered, ListedCanBeDownloaded, PTL
  DEF ReleaseFeedSpec
=============================================================================
