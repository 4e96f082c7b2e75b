------------------------------- MODULE Releases -------------------------------
(***************************************************************************)
(* One release of a product, its artifacts (one per platform) and the      *)
(* product's signing keys: internal/service/release.go,                    *)
(* internal/service/release_signing.go, internal/store/release.go and      *)
(* internal/store/release_signing.go.  Every write of an artifact's row    *)
(* locks the row of the release and looks at its status, so it is one      *)
(* step; between the steps of a publication anything may happen.  Contents *)
(* are numbered in the order they are uploaded; a signature is the content *)
(* it was made of, and the key.  Storage is internal/storage.              *)
(***************************************************************************)
EXTENDS Integers, FiniteSets

CONSTANTS
  Platforms,
  Publishers,      \* publications in progress at a time
  MaxContents,     \* bound: files uploaded
  MaxRows,         \* bound: artifact rows created
  MaxKeys,         \* bound: signing keys created
  MaxPublications  \* bound: publications begun

ASSUME ReleasesConstantsOK ==
  MaxContents \in Nat /\ MaxRows \in Nat /\ MaxKeys \in Nat /\ MaxPublications \in Nat

VARIABLES
  requireSigning,  \* of the product, fixed in a behaviour
  snapshotGate,    \* whether the final update reads artifacts before it locks
  status,          \* of the release
  artifact,        \* of each platform: its row
  stored,          \* of each platform: the content under its file key
  linked,          \* platforms an upload link was given out for
  uploads, rows,   \* contents and rows so far
  keys, active,    \* keys so far, and the active one
  begun,           \* publications so far
  publication,     \* of each publisher: what it read and its next step
  finalizing,      \* of each platform: the finalisation in progress
  cleanup          \* platforms whose object is about to be deleted

settings == <<requireSigning, snapshotGate>>
releaseVars == <<settings, status, artifact, stored, linked, uploads, rows, keys, active,
                 begun, publication, finalizing, cleanup>>

NoArtifact == [row |-> 0, sha |-> 0, sig |-> 0, key |-> 0]
ArtifactRow == [row : 0..MaxRows, sha : 0..MaxContents, sig : 0..MaxContents, key : 0..MaxKeys]
NoPublication == [step |-> "idle", seen |-> [p \in Platforms |-> NoArtifact],
                  key |-> 0, todo |-> {}, signed |-> {}]
NoFinalize == [row |-> 0, sha |-> 0]

ReleasesTypeOK ==
  /\ requireSigning \in BOOLEAN /\ snapshotGate \in BOOLEAN
  /\ status \in {"none", "draft", "published", "yanked", "deleted"}
  /\ artifact \in [Platforms -> ArtifactRow]
  /\ stored \in [Platforms -> 0..MaxContents]
  /\ linked \subseteq Platforms /\ cleanup \subseteq Platforms
  /\ uploads \in 0..MaxContents /\ rows \in 0..MaxRows
  /\ keys \in 0..MaxKeys /\ active \in 0..keys /\ begun \in 0..MaxPublications
  /\ publication \in [Publishers ->
       [step : {"idle", "probe", "clear", "sign", "gate", "commit"},
        seen : [Platforms -> ArtifactRow], key : 0..MaxKeys,
        todo : SUBSET Platforms, signed : SUBSET Platforms]]
  /\ finalizing \in [Platforms -> [row : 0..MaxRows, sha : 0..MaxContents]]

Present(rowOf) == {p \in Platforms : rowOf[p].row # 0}
Shipped == status \in {"published", "yanked"}

Move(w, step) == publication' = [publication EXCEPT ![w].step = step]
EndPublication(w) == publication' = [publication EXCEPT ![w] = NoPublication]

-----------------------------------------------------------------------------
(* Drafts and their artifacts *)

CreateRelease ==
  /\ status = "none" /\ status' = "draft"
  /\ UNCHANGED <<begun, artifact, stored, linked, uploads, rows, keys, active,
                 publication, finalizing, cleanup>>

AddArtifact(p) ==
  /\ status = "draft" /\ artifact[p].row = 0
  /\ rows < MaxRows /\ rows' = rows + 1
  /\ artifact' = [artifact EXCEPT ![p] = [NoArtifact EXCEPT !.row = rows']]
  /\ linked' = linked \cup {p}
  /\ UNCHANGED <<begun, status, stored, uploads, keys, active, publication, finalizing, cleanup>>

(* The browser's PUT to the link, which works as often as it is used.      *)
Upload(p) ==
  /\ p \in linked
  /\ uploads < MaxContents /\ uploads' = uploads + 1
  /\ stored' = [stored EXCEPT ![p] = uploads']
  /\ UNCHANGED <<begun, status, artifact, linked, rows, keys, active, publication, finalizing, cleanup>>

(* FinalizeArtifact reads the row, then the object it is to have. *)
HashUpload(p) ==
  /\ finalizing[p].row = 0
  /\ artifact[p].row # 0 /\ stored[p] # 0
  /\ finalizing' = [finalizing EXCEPT ![p] = [row |-> artifact[p].row, sha |-> stored[p]]]
  /\ UNCHANGED <<begun, status, artifact, stored, linked, uploads, rows, keys, active,
                 publication, cleanup>>

(* UpdateArtifactFile: of that row, if it is there and still a draft's.    *)
UpdateArtifactFile(p) ==
  LET f == finalizing[p] IN
  /\ f.row # 0
  /\ artifact' = IF artifact[p].row = f.row /\ status = "draft"
                   THEN [artifact EXCEPT ![p] = [NoArtifact EXCEPT !.row = f.row, !.sha = f.sha]]
                   ELSE artifact
  /\ finalizing' = [finalizing EXCEPT ![p] = NoFinalize]
  /\ UNCHANGED <<begun, status, stored, linked, uploads, rows, keys, active, publication, cleanup>>

(* DeleteArtifact; also without the deletion of the object, when a failed  *)
(* AddArtifact takes its row back.                                         *)
DeleteArtifact(p) ==
  /\ status = "draft" /\ artifact[p].row # 0
  /\ artifact' = [artifact EXCEPT ![p] = NoArtifact]
  /\ cleanup' \in {cleanup, cleanup \cup {p}}
  /\ UNCHANGED <<begun, status, stored, linked, uploads, rows, keys, active, publication, finalizing>>

(* DeleteDraft: the rows go with the release. *)
DeleteDraft ==
  /\ status = "draft" /\ status' = "deleted"
  /\ artifact' = [p \in Platforms |-> NoArtifact]
  /\ cleanup' = cleanup \cup Present(artifact)
  /\ UNCHANGED <<begun, stored, linked, uploads, rows, keys, active, publication, finalizing>>

(* The object goes after the row, whatever is under its key by then; or    *)
(* never, when the call fails, which is only logged.                       *)
DeleteObject(p) ==
  /\ p \in cleanup /\ cleanup' = cleanup \ {p}
  /\ stored' = [stored EXCEPT ![p] = 0]
  /\ UNCHANGED <<begun, status, artifact, linked, uploads, rows, keys, active, publication, finalizing>>

-----------------------------------------------------------------------------
(* Publish *)

(* A draft with artifacts, all of them uploaded. *)
LoadRelease(w) ==
  /\ publication[w].step = "idle" /\ status = "draft"
  /\ begun < MaxPublications /\ begun' = begun + 1
  /\ Present(artifact) # {} /\ \A p \in Present(artifact) : artifact[p].sha # 0
  /\ publication' = [publication EXCEPT ![w] =
       [NoPublication EXCEPT !.step = "probe", !.seen = artifact]]
  /\ UNCHANGED <<status, artifact, stored, linked, uploads, rows, keys, active,
                 finalizing, cleanup>>

(* Every object exists; the active key is read once, and decides whether   *)
(* this publication signs.                                                 *)
ProbeKey(w) ==
  LET seen == publication[w].seen IN
  /\ publication[w].step = "probe"
  /\ IF \A p \in Present(seen) : stored[p] # 0
       THEN \/ /\ active # 0
               /\ publication' = [publication EXCEPT ![w].step = "sign", ![w].key = active,
                                                     ![w].todo = Present(seen)]
            \/ active = 0 /\ ~ requireSigning /\ Move(w, "clear")
            \/ active = 0 /\ requireSigning /\ EndPublication(w)
       ELSE EndPublication(w)
  /\ UNCHANGED <<begun, status, artifact, stored, linked, uploads, rows, keys, active,
                 finalizing, cleanup>>

ClearReleaseSignatures(w) ==
  /\ publication[w].step = "clear"
  /\ IF status = "draft"
       THEN /\ artifact' = [p \in Platforms |-> [artifact[p] EXCEPT !.sig = 0, !.key = 0]]
            /\ Move(w, "gate")
       ELSE EndPublication(w) /\ UNCHANGED artifact
  /\ UNCHANGED <<begun, status, stored, linked, uploads, rows, keys, active, finalizing, cleanup>>

(* SignArtifactWith: what is stored hashes to what was seen, or the        *)
(* publication ends.                                                       *)
SignArtifact(w) ==
  LET v == publication[w] IN
  /\ v.step = "sign" /\ v.signed = {} /\ v.todo # {}
  /\ \E p \in v.todo :
       IF stored[p] = v.seen[p].sha
         THEN publication' = [publication EXCEPT ![w].signed = {p}]
         ELSE EndPublication(w)
  /\ UNCHANGED <<begun, status, artifact, stored, linked, uploads, rows, keys, active,
                 finalizing, cleanup>>

(* Mutant: a signature is written whatever became of the release. *)
UpdateArtifactSignature_Shipped(w) ==
  LET v == publication[w] IN
  /\ v.signed # {}
  /\ \E p \in v.signed :
       IF artifact[p].row = v.seen[p].row
         THEN /\ artifact' = [artifact EXCEPT ![p].sig = v.seen[p].sha, ![p].key = v.key]
              /\ publication' = [publication EXCEPT ![w].todo = v.todo \ {p}, ![w].signed = {},
                                   ![w].step = IF v.todo = {p} THEN "gate" ELSE "sign"]
         ELSE EndPublication(w) /\ UNCHANGED artifact
  /\ UNCHANGED <<begun, status, stored, linked, uploads, rows, keys, active, finalizing, cleanup>>

(* The row is found by its id; its content is not looked at again. *)
UpdateArtifactSignature(w) ==
  LET v == publication[w] IN
  /\ v.signed # {}
  /\ \E p \in v.signed :
       IF artifact[p].row = v.seen[p].row /\ status = "draft"
         THEN /\ artifact' = [artifact EXCEPT ![p].sig = v.seen[p].sha, ![p].key = v.key]
              /\ publication' = [publication EXCEPT ![w].todo = v.todo \ {p}, ![w].signed = {},
                                   ![w].step = IF v.todo = {p} THEN "gate" ELSE "sign"]
         ELSE EndPublication(w) /\ UNCHANGED artifact
  /\ UNCHANGED <<begun, status, stored, linked, uploads, rows, keys, active, finalizing, cleanup>>

(* Mutant: any key's signature will do. *)
Publishable_AnyKey(w) ==
  /\ Present(artifact) # {}
  /\ \A p \in Present(artifact) :
       artifact[p].sha # 0 /\ (publication[w].key # 0 => artifact[p].sig # 0)

(* What the conditional update asks of the artifacts. *)
Publishable(w) ==
  /\ Present(artifact) # {}
  /\ \A p \in Present(artifact) :
       /\ artifact[p].sha # 0
       /\ publication[w].key # 0 => artifact[p].sig # 0 /\ artifact[p].key = publication[w].key

(* PublishRelease is one update, whose subqueries read the statement's     *)
(* snapshot.  When another transaction has the row of the release locked,  *)
(* PostgreSQL waits for it, and looks at the condition again only if that  *)
(* transaction changed the row itself: snapshotGate splits the two halves. *)
PublishRelease(w) ==
  /\ publication[w].step = "gate"
  /\ IF status = "draft" /\ Publishable(w)
       THEN IF snapshotGate
              THEN Move(w, "commit") /\ UNCHANGED status
              ELSE status' = "published" /\ EndPublication(w)
       ELSE EndPublication(w) /\ UNCHANGED status
  /\ UNCHANGED <<begun, artifact, stored, linked, uploads, rows, keys, active, finalizing, cleanup>>

CommitPublish(w) ==
  /\ publication[w].step = "commit"
  /\ status' = IF status = "draft" THEN "published" ELSE status
  /\ EndPublication(w)
  /\ UNCHANGED <<begun, artifact, stored, linked, uploads, rows, keys, active, finalizing, cleanup>>

(* A statement or the storage fails, or the process dies. *)
PublicationFails(w) ==
  /\ publication[w].step # "idle"
  /\ EndPublication(w)
  /\ UNCHANGED <<begun, status, artifact, stored, linked, uploads, rows, keys, active,
                 finalizing, cleanup>>

YankRelease ==
  /\ status = "published" /\ status' = "yanked"
  /\ UNCHANGED <<begun, artifact, stored, linked, uploads, rows, keys, active,
                 publication, finalizing, cleanup>>

UnyankRelease ==
  /\ status = "yanked" /\ status' = "published"
  /\ UNCHANGED <<begun, artifact, stored, linked, uploads, rows, keys, active,
                 publication, finalizing, cleanup>>

-----------------------------------------------------------------------------
(* Signing keys: a partial unique index allows one active key.  Rotation   *)
(* replaces it in one transaction.                                         *)

CreateSigningKey ==
  /\ active = 0 /\ keys < MaxKeys
  /\ keys' = keys + 1 /\ active' = keys + 1
  /\ UNCHANGED <<begun, status, artifact, stored, linked, uploads, rows, publication, finalizing, cleanup>>

RotateSigningKey ==
  /\ keys < MaxKeys
  /\ keys' = keys + 1 /\ active' = keys + 1
  /\ UNCHANGED <<begun, status, artifact, stored, linked, uploads, rows, publication, finalizing, cleanup>>

DeactivateSigningKey ==
  /\ active # 0 /\ active' = 0
  /\ UNCHANGED <<begun, status, artifact, stored, linked, uploads, rows, keys,
                 publication, finalizing, cleanup>>

ReleasesInit ==
  /\ requireSigning \in BOOLEAN /\ snapshotGate \in BOOLEAN
  /\ status = "none"
  /\ artifact = [p \in Platforms |-> NoArtifact]
  /\ stored = [p \in Platforms |-> 0]
  /\ linked = {} /\ cleanup = {}
  /\ uploads = 0 /\ rows = 0 /\ keys = 0 /\ active = 0 /\ begun = 0
  /\ publication = [w \in Publishers |-> NoPublication]
  /\ finalizing = [p \in Platforms |-> NoFinalize]

ReleaseStep ==
  \/ CreateRelease \/ DeleteDraft \/ YankRelease \/ UnyankRelease
  \/ \E p \in Platforms :
       \/ AddArtifact(p) \/ Upload(p) \/ HashUpload(p) \/ UpdateArtifactFile(p)
       \/ DeleteArtifact(p) \/ DeleteObject(p)
  \/ \E w \in Publishers :
       \/ LoadRelease(w) \/ ProbeKey(w) \/ ClearReleaseSignatures(w) \/ SignArtifact(w)
       \/ UpdateArtifactSignature(w) \/ PublishRelease(w) \/ CommitPublish(w)
       \/ PublicationFails(w)
  \/ CreateSigningKey \/ RotateSigningKey \/ DeactivateSigningKey

ReleasesNext == ReleaseStep /\ UNCHANGED settings

ReleasesSpec == ReleasesInit /\ [][ReleasesNext]_releaseVars

-----------------------------------------------------------------------------
(* Properties *)

(* Publications that overlap a rotation, or one another, never ship a      *)
(* release whose platforms verify against different keys                   *)
(* (store/release.go:183-186), nor unsigned where signing is required, as  *)
(* long as the final update sees the artifacts it commits with.            *)
OneKey ==
  Shipped /\ requireSigning /\ ~ snapshotGate =>
    \E k \in 1..keys : \A p \in Present(artifact) : artifact[p].key = k

(* What shipped is a contract with the clients that have it: a publication *)
(* that lost the race, a late finalisation or a deletion never rewrites it *)
(* (store/release.go:590-594).                                             *)
ShippedIsFrozen == [][Shipped => artifact' = artifact]_releaseVars

(* service/release.go:630-634: every artifact of a signed release carries  *)
(* a fresh signature, made of the content that is pinned.                  *)
SignatureIsFresh ==
  Shipped => \A p \in Present(artifact) : artifact[p].sig \in {0, artifact[p].sha}

(* service/release.go:530: all or nothing is signed. *)
AllOrNothing ==
  Shipped => \/ \A p \in Present(artifact) : artifact[p].sig = 0
             \/ \A p \in Present(artifact) : artifact[p].sig # 0

(* store/release.go:427-433: an artifact added under the lock of the row   *)
(* makes a publication that waits for it fail.                             *)
ShippedIsUploaded == Shipped => \A p \in Present(artifact) : artifact[p].sha # 0
=============================================================================
