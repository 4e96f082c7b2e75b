----------------------------- MODULE ReleaseFeed -----------------------------
(***************************************************************************)
(* What the releases of a product offer to its clients: the feeds of       *)
(* internal/handler/release_public.go and the licensed download of         *)
(* internal/service/release.go.  A version is its rank in the order of     *)
(* semantic versions; releases are published in any order, so a fix of an  *)
(* old version can be the most recent one.                                 *)
(***************************************************************************)
EXTENDS Integers, FiniteSets

CONSTANTS
  Versions,    \* numbers, ranked by semver
  FeedPlatforms,
  Window,      \* releases of one channel that are looked at
  Limits       \* lengths of a feed that are asked for

ASSUME ReleaseFeedConstantsOK ==
  Versions \subseteq Nat \ {0} /\ IsFiniteSet(Versions) /\ Window \in Nat

VARIABLES
  release,     \* of each version: status, channel, uploaded platforms, and
               \* when it was published
  clock

feedVars == <<release, clock>>

\* From what everyone gets to what few ask for.
Channels == {"stable", "beta", "alpha", "dev"}
NoRelease == [status |-> "none", channel |-> "stable", platforms |-> {}, published |-> 0]

ReleaseFeedTypeOK ==
  /\ release \in [Versions -> [status : {"none", "draft", "published", "yanked"},
                               channel : Channels, platforms : SUBSET FeedPlatforms,
                               published : Nat]]
  /\ clock \in Nat

-----------------------------------------------------------------------------
(* What a client of a channel sees *)

(* Mutant: an alpha client is not given what went to beta. *)
channelFallbackChain_Gap(c) ==
  CASE c = "dev"   -> {"dev", "alpha", "beta", "stable"}
    [] c = "alpha" -> {"alpha", "stable"}
    [] c = "beta"  -> {"beta", "stable"}
    [] OTHER       -> {"stable"}

channelFallbackChain(c) ==
  CASE c = "dev"   -> {"dev", "alpha", "beta", "stable"}
    [] c = "alpha" -> {"alpha", "beta", "stable"}
    [] c = "beta"  -> {"beta", "stable"}
    [] OTHER       -> {"stable"}

(* Mutant: the platform is looked at once the window is cut. *)
ListPublishedReleasesForFeed_CutFirst(c, p) ==
  LET published == {v \in Versions : release[v].status = "published" /\ release[v].channel = c}
      recent == {v \in published :
                   Cardinality({w \in published : release[w].published > release[v].published})
                     < Window}
  IN {v \in recent : p \in release[v].platforms}

(* The most recently published of one channel that have the platform. *)
ListPublishedReleasesForFeed(c, p) ==
  LET published == {v \in Versions : /\ release[v].status = "published"
                                     /\ release[v].channel = c
                                     /\ p \in release[v].platforms}
  IN {v \in published :
        Cardinality({w \in published : release[w].published > release[v].published}) < Window}

Pool(c, p) == UNION {ListPublishedReleasesForFeed(d, p) : d \in channelFallbackChain(c)}

(* sortBySemverDesc, and the first ones of it *)
ListForFeed(c, p, limit) ==
  {v \in Pool(c, p) : Cardinality({w \in Pool(c, p) : w > v}) < limit}

(* findLatestPublished, and the one release of the Tauri feed; 0 is none. *)
findLatestPublished(c, p) ==
  IF Pool(c, p) = {} THEN 0 ELSE CHOOSE v \in Pool(c, p) : \A w \in Pool(c, p) : v >= w

(* Mutant: a pinned version has to be of the client's own channel. *)
findVersionWithFallback_OwnChannel(c, v) ==
  IF release[v].status = "yanked" THEN "gone"
  ELSE IF release[v].status = "published" /\ release[v].channel = c THEN "found" ELSE "none"

findVersionWithFallback(c, v) ==
  IF release[v].status = "yanked" THEN "gone"
  ELSE IF release[v].status = "published" /\ release[v].channel \in channelFallbackChain(c)
         THEN "found" ELSE "none"

(* With a usable license; a pinned version is never replaced by another.   *)
GenerateDownload(c, p, pin) ==
  LET found == IF pin # 0 THEN findVersionWithFallback(c, pin)
               ELSE IF findLatestPublished(c, p) = 0 THEN "none" ELSE "found"
      v == IF pin # 0 THEN pin ELSE findLatestPublished(c, p)
  IN CASE found = "gone" -> [code |-> 410, version |-> 0]
       [] found = "none" -> [code |-> 404, version |-> 0]
       [] OTHER -> IF p \in release[v].platforms THEN [code |-> 200, version |-> v]
                                                 ELSE [code |-> 404, version |-> 0]

-----------------------------------------------------------------------------

(* A pre-release version cannot be of the stable channel, and most of the  *)
(* ranks are pre-releases of the next: the odd ones here.                  *)
Create(v) ==
  /\ release[v].status = "none"
  /\ \E c \in Channels :
       /\ v % 2 = 1 => c # "stable"
       /\ release' = [release EXCEPT ![v] = [NoRelease EXCEPT !.status = "draft", !.channel = c]]
  /\ UNCHANGED clock

(* Drafts are published with what is uploaded: see Releases. *)
Publish(v) ==
  /\ release[v].status = "draft"
  /\ \E ps \in SUBSET FeedPlatforms \ {{}} :
       release' = [release EXCEPT ![v].status = "published", ![v].platforms = ps,
                                  ![v].published = clock + 1]
  /\ clock' = clock + 1

Yank(v) ==
  /\ release[v].status = "published"
  /\ release' = [release EXCEPT ![v].status = "yanked"]
  /\ UNCHANGED clock

(* It keeps the time it was first published. *)
Unyank(v) ==
  /\ release[v].status = "yanked"
  /\ release' = [release EXCEPT ![v].status = "published"]
  /\ UNCHANGED clock

ReleaseFeedInit == release = [v \in Versions |-> NoRelease] /\ clock = 0

ReleaseFeedNext == \E v \in Versions : Create(v) \/ Publish(v) \/ Yank(v) \/ Unyank(v)

ReleaseFeedSpec == ReleaseFeedInit /\ [][ReleaseFeedNext]_feedVars

-----------------------------------------------------------------------------
(* Properties *)

(* A client is offered the highest version it may see and can install, as  *)
(* long as no channel has more of them than the window                     *)
(* (service/release.go:853-857, store/release.go:373-380).                 *)
OfferedIsHighest ==
  \A c \in Channels, p \in FeedPlatforms :
    LET visible == {v \in Versions : /\ release[v].status = "published"
                                     /\ release[v].channel \in channelFallbackChain(c)
                                     /\ p \in release[v].platforms}
        saturated == \E d \in Channels :
          Cardinality({v \in visible : release[v].channel = d}) > Window
    IN ~ saturated =>
         /\ findLatestPublished(c, p) \in visible \cup {0}
         /\ \A v \in visible : findLatestPublished(c, p) >= v

(* Asking for a less stable channel never offers an older version          *)
(* (service/release.go:835-836: max wins).                                 *)
NewerOnUnstable ==
  \A p \in FeedPlatforms :
    /\ findLatestPublished("dev", p) >= findLatestPublished("alpha", p)
    /\ findLatestPublished("alpha", p) >= findLatestPublished("beta", p)
    /\ findLatestPublished("beta", p) >= findLatestPublished("stable", p)

(* Every release a feed lists can be downloaded by its version, from the   *)
(* same channel and for the same platform.                                 *)
ListedIsDownloadable ==
  \A c \in Channels, p \in FeedPlatforms, limit \in Limits :
    \A v \in ListForFeed(c, p, limit) :
      GenerateDownload(c, p, v) = [code |-> 200, version |-> v]
=============================================================================
