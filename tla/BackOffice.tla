----------------------------- MODULE BackOffice -----------------------------
(***************************************************************************)
(* What administrators and users of the installation work on, side by      *)
(* side: releases and the feeds that offer them, the team, signing in, the *)
(* catalogue.  One component, chosen at the beginning, moves in a          *)
(* behaviour.  Three of them promise more when their requests come one     *)
(* after the other, and are chosen with that setting or without it.        *)
(***************************************************************************)
EXTENDS Releases, ReleaseFeed, Team, SignIn, Catalog

VARIABLE focus  \* the component that moves, and its setting

Foci == {"releases", "feed", "owners", "one desk", "requests", "one request",
         "admins", "one admin"}

Init ==
  /\ focus \in Foci
  /\ ReleasesInit /\ ReleaseFeedInit /\ TeamInit /\ SignInInit /\ CatalogInit

(* At several desks only owners are appointed, as in an installation       *)
(* without ADMIN_EMAILS: a promotion to "admin" that is on its way writes  *)
(* its role over any other (SetUserRole).                                  *)
OnlyOwnersAppointed ==
  \A d \in Desks :
    /\ desk[d].at # "sync"
    /\ desk[d].at \in {"set", "placeholder"} => desk[d].as = "owner"

(* With one request at a time, nobody else is in the middle of one.        *)
DeskMay(d) == \A e \in Desks \ {d} : desk[e].at = "idle"
ClerkMay(d) == \A e \in Clerks \ {d} : At(e, "free")
AdminMay(d) == \A e \in Admins \ {d} : edit[e] = NoEdit

TeamMoves ==
  \/ focus = "owners" /\ TeamNext /\ OnlyOwnersAppointed'
  \/ focus = "one desk" /\ \E d \in Desks : DeskMay(d) /\ (ServeDesk(d) \/ TakeRequest(d))

SignInMoves ==
  \/ focus = "requests" /\ SignInNext
  \/ focus = "one request" /\ (TimePasses \/ \E d \in Clerks : ClerkMay(d) /\ ServeClerk(d))

CatalogMoves ==
  \/ focus = "admins" /\ CatalogNext
  \/ focus = "one admin" /\ \E d \in Admins : AdminMay(d) /\ ServeAdmin(d)

Next ==
  /\ UNCHANGED focus
  /\ IF focus = "releases" THEN ReleasesNext ELSE UNCHANGED releaseVars
  /\ IF focus = "feed" THEN ReleaseFeedNext ELSE UNCHANGED feedVars
  /\ IF focus \in {"owners", "one desk"} THEN TeamMoves ELSE UNCHANGED teamVars
  /\ IF focus \in {"requests", "one request"} THEN SignInMoves ELSE UNCHANGED signInVars
  /\ IF focus \in {"admins", "one admin"} THEN CatalogMoves ELSE UNCHANGED catalogVars

officeVars == <<focus, releaseVars, feedVars, teamVars, signInVars, catalogVars>>

Spec == Init /\ [][Next]_officeVars

-----------------------------------------------------------------------------
(* Types; and an owner is demoted only under the lock the count was made   *)
(* under (DemoteOwnerAtomic).                                              *)
TypesAndLocks ==
  /\ ReleasesTypeOK /\ ReleaseFeedTypeOK
  /\ TeamTypeOK /\ LockHeld
  /\ SignInTypeOK /\ CatalogTypeOK

(* A client is offered the highest version it may see and can install, as  *)
(* long as no channel has more of them than the window, none older on a    *)
(* less stable channel, and can download what is listed                    *)
(* (service/release.go:835-857, store/release.go:373-380).                 *)
FeedIsTrue ==
  focus = "feed" => OfferedIsHighest /\ NewerOnUnstable /\ ListedIsDownloadable

(* A code allows a bounded number of guesses and one login, but for the    *)
(* requests that read it before it was counted or marked (handler/otp.go). *)
CodesBounded ==
  LET n == IF focus = "one request" THEN 1 ELSE Cardinality(Clerks)
  IN GuessesBounded(n) /\ LoginsBounded(n)

(* Refreshing never multiplies sessions, and after a logout or the reuse   *)
(* of a rotated token none is left, if nothing overlaps (oauth.go).        *)
SessionsEnd == SessionsNeverMultiply /\ (focus = "one request" => WipeIsFinal)

(* Plans and releases fit the type of their product as long as one         *)
(* administrator works at a time; whatever two do at once, the plan of a   *)
(* license belongs to its product and a Stripe price names one plan        *)
(* (store/admin.go, model.ProductSupports, admin.go:564-586, 1864-1925).   *)
CatalogConsistent ==
  /\ LicenseFitsPlan /\ OnePlanPerPrice
  /\ focus = "one admin" => PlansFitProduct /\ ReleasesReachable
=============================================================================
