-------------------------------- MODULE Seats --------------------------------
(***************************************************************************)
(* The seats of one license (internal/service/seats.go,                    *)
(* internal/store/seats.go): invitations add, rotate or restore a seat     *)
(* under the lock of the license row; an acceptance spends the token under *)
(* the lock of the seat row, then looks at the license, and is taken back  *)
(* by a third statement if that is not in good standing.  There is one row *)
(* per e-mail: a removed one is restored, never joined by a second.        *)
(***************************************************************************)
EXTENDS Integers, FiniteSets

CONSTANTS
  People,        \* e-mail addresses, not the owner's
  Inviters,      \* invitations in progress at a time
  Acceptors,     \* acceptances in progress at a time
  NoInviter,
  MaxSeats,      \* of the plan; 0 is unlimited
  MaxTokens,     \* bound: invitation tokens ever minted
  MaxTurns       \* bound: changes of the license's standing

ASSUME SeatsConstantsOK ==
  /\ IsFiniteSet(People) /\ People # {} /\ NoInviter \notin Inviters
  /\ MaxSeats \in Nat /\ MaxTokens \in Nat /\ MaxTurns \in Nat

VARIABLES
  seat,          \* of each person: the row
  invitation,    \* of each inviter: person, role, token and next step
  acceptance,    \* of each acceptor: the seat it accepted and next step
  seatsLock,   \* who holds the row lock of the license
  standing,      \* of the license: usable, past its date, or closed
  minted,        \* tokens minted so far; the last ones are the newest
  turns,         \* bounded counter
  spent          \* history: how often each token was accepted

seatsVars == <<seat, invitation, acceptance, seatsLock, standing, minted, turns, spent>>

Tokens == 1..MaxTokens
Roles  == {"member", "admin"}
NoSeat == [state |-> "none", accepted |-> FALSE, role |-> "member", token |-> 0]
Seated == {p \in People : seat[p].state = "live"}

SomePerson == CHOOSE p \in People : TRUE
NoInvitation == [step |-> "idle", person |-> SomePerson, role |-> "member", token |-> 0]
NoAcceptance == [step |-> "idle", person |-> SomePerson]

InvitationSteps == {"idle", "lock", "find", "rotate", "count", "write"}
InvitationRow == [step : InvitationSteps, person : People, role : Roles, token : 0..MaxTokens]
SeatRow ==
  [state : {"none", "live", "removed"}, accepted : BOOLEAN, role : Roles, token : 0..MaxTokens]

SeatsTypeOK ==
  /\ seat \in [People -> SeatRow]
  /\ invitation \in [Inviters -> InvitationRow]
  /\ acceptance \in [Acceptors -> [step : {"idle", "check", "rollback"}, person : People]]
  /\ seatsLock \in Inviters \cup {NoInviter}
  /\ standing \in {"usable", "lapsed", "closed"}
  /\ minted \in 0..MaxTokens /\ turns \in Nat
  /\ spent \in [Tokens -> Nat]

InvitationStep(i, step) == invitation' = [invitation EXCEPT ![i].step = step]

EndInvitation(i) ==
  /\ invitation' = [invitation EXCEPT ![i] = NoInvitation]
  /\ seatsLock' = IF seatsLock = i THEN NoInviter ELSE seatsLock

-----------------------------------------------------------------------------
(* AddSeat *)

(* The license is usable; a token is minted before the transaction. *)
BeginInvitation(i) ==
  /\ invitation[i].step = "idle" /\ standing = "usable"
  /\ minted < MaxTokens /\ minted' = minted + 1
  /\ \E p \in People, role \in Roles :
       invitation' = [invitation EXCEPT ![i] =
         [step |-> "lock", person |-> p, role |-> role, token |-> minted']]
  /\ UNCHANGED <<seat, acceptance, seatsLock, standing, turns, spent>>

(* Mutant: count and insert without the lock of the license. *)
LockForInvitation_Skips(i) ==
  /\ invitation[i].step = "lock"
  /\ InvitationStep(i, "find")
  /\ UNCHANGED <<seat, acceptance, seatsLock, standing, minted, turns, spent>>

LockForInvitation(i) ==
  /\ invitation[i].step = "lock" /\ seatsLock = NoInviter
  /\ seatsLock' = i
  /\ InvitationStep(i, "find")
  /\ UNCHANGED <<seat, acceptance, standing, minted, turns, spent>>

(* An accepted seat is left as it is; a pending one gets the new token.    *)
FindSeat(i) ==
  LET s == seat[invitation[i].person] IN
  /\ invitation[i].step = "find"
  /\ \/ s.state = "live" /\ s.accepted /\ EndInvitation(i)
     \/ s.state = "live" /\ ~ s.accepted /\ InvitationStep(i, "rotate") /\ UNCHANGED seatsLock
     \/ s.state # "live" /\ InvitationStep(i, "count") /\ UNCHANGED seatsLock
  /\ UNCHANGED <<seat, acceptance, standing, minted, turns, spent>>

(* The update goes by the row's id alone. *)
RotateToken(i) ==
  LET v == invitation[i] IN
  /\ v.step = "rotate"
  /\ seat' = [seat EXCEPT ![v.person].role = v.role, ![v.person].token = v.token]
  /\ EndInvitation(i)
  /\ UNCHANGED <<acceptance, standing, minted, turns, spent>>

CountSeats(i) ==
  /\ invitation[i].step = "count"
  /\ IF MaxSeats > 0 /\ Cardinality(Seated) >= MaxSeats
       THEN EndInvitation(i)
       ELSE InvitationStep(i, "write") /\ UNCHANGED seatsLock
  /\ UNCHANGED <<seat, acceptance, standing, minted, turns, spent>>

(* A removed seat is restored as a new invitation, or a row inserted.      *)
WriteSeat(i) ==
  LET v == invitation[i] IN
  /\ v.step = "write"
  /\ seat' = IF seat[v.person].state = "live" THEN seat
             ELSE [seat EXCEPT ![v.person] =
                    [state |-> "live", accepted |-> FALSE, role |-> v.role, token |-> v.token]]
  /\ EndInvitation(i)
  /\ UNCHANGED <<acceptance, standing, minted, turns, spent>>

(* A statement fails, or the process dies: the transaction is rolled back. *)
InvitationFails(i) ==
  /\ invitation[i].step # "idle"
  /\ EndInvitation(i)
  /\ UNCHANGED <<seat, acceptance, standing, minted, turns, spent>>

-----------------------------------------------------------------------------
(* AcceptSeatInvite *)

AcceptStep(a, step, p) == acceptance' = [acceptance EXCEPT ![a] = [step |-> step, person |-> p]]
EndAcceptance(a) == acceptance' = [acceptance EXCEPT ![a] = NoAcceptance]

(* Mutant: the token stays on the row, which is accepted anyway. *)
SpendToken_Stays(a) ==
  /\ acceptance[a].step = "idle"
  /\ \E p \in Seated :
       /\ ~ seat[p].accepted /\ seat[p].token # 0
       /\ seat' = [seat EXCEPT ![p].accepted = TRUE]
       /\ spent' = [spent EXCEPT ![seat[p].token] = @ + 1]
       /\ AcceptStep(a, "check", p)
  /\ UNCHANGED <<invitation, seatsLock, standing, minted, turns>>

(* One transaction under the lock of the seat row. *)
SpendToken(a) ==
  /\ acceptance[a].step = "idle"
  /\ \E p \in Seated :
       /\ ~ seat[p].accepted /\ seat[p].token # 0
       /\ seat' = [seat EXCEPT ![p].accepted = TRUE, ![p].token = 0]
       /\ spent' = [spent EXCEPT ![seat[p].token] = @ + 1]
       /\ AcceptStep(a, "check", p)
  /\ UNCHANGED <<invitation, seatsLock, standing, minted, turns>>

(* Only the status is looked at, not the date. *)
CheckLicense(a) ==
  /\ acceptance[a].step = "check"
  /\ IF standing = "closed" THEN AcceptStep(a, "rollback", acceptance[a].person)
                            ELSE EndAcceptance(a)
  /\ UNCHANGED <<seat, invitation, seatsLock, standing, minted, turns, spent>>

(* RollbackSeatAccept: by the row's id, and without the token. *)
RollBack(a) ==
  /\ acceptance[a].step = "rollback"
  /\ seat' = [seat EXCEPT ![acceptance[a].person].accepted = FALSE]
  /\ EndAcceptance(a)
  /\ UNCHANGED <<invitation, seatsLock, standing, minted, turns, spent>>

(* The look-up or the roll-back fails, or the process dies. *)
AcceptanceFails(a) ==
  /\ acceptance[a].step # "idle"
  /\ EndAcceptance(a)
  /\ UNCHANGED <<seat, invitation, seatsLock, standing, minted, turns, spent>>

-----------------------------------------------------------------------------
(* SeatService.RemoveSeat *)
RemoveSeat ==
  /\ standing = "usable"
  /\ \E p \in Seated : seat' = [seat EXCEPT ![p].state = "removed"]
  /\ UNCHANGED <<invitation, acceptance, seatsLock, standing, minted, turns, spent>>

(* SeatInviteTTL: an expired token is as good as none. *)
InviteExpires ==
  /\ \E p \in Seated : seat[p].token # 0 /\ seat' = [seat EXCEPT ![p].token = 0]
  /\ UNCHANGED <<invitation, acceptance, seatsLock, standing, minted, turns, spent>>

(* Payments, administrators and time; not under the license's row lock. *)
StandingChanges ==
  /\ turns < MaxTurns /\ turns' = turns + 1 /\ seatsLock = NoInviter
  /\ standing' \in {"usable", "lapsed", "closed"} \ {standing}
  /\ UNCHANGED <<seat, invitation, acceptance, seatsLock, minted, spent>>

SeatsInit ==
  /\ seat = [p \in People |-> NoSeat]
  /\ invitation = [i \in Inviters |-> NoInvitation]
  /\ acceptance = [a \in Acceptors |-> NoAcceptance]
  /\ seatsLock = NoInviter /\ standing = "usable"
  /\ minted = 0 /\ turns = 0 /\ spent = [t \in Tokens |-> 0]

SeatsNext ==
  \/ \E i \in Inviters :
       \/ BeginInvitation(i) \/ LockForInvitation(i) \/ FindSeat(i) \/ RotateToken(i)
       \/ CountSeats(i) \/ WriteSeat(i) \/ InvitationFails(i)
  \/ \E a \in Acceptors :
       SpendToken(a) \/ CheckLicense(a) \/ RollBack(a) \/ AcceptanceFails(a)
  \/ RemoveSeat \/ InviteExpires \/ StandingChanges

SeatsSpec == SeatsInit /\ [][SeatsNext]_seatsVars

-----------------------------------------------------------------------------
(* Properties *)

(* Who looks for a seat, counts and writes holds the row of the license,   *)
(* and nobody else.                                                        *)
SeatsLockHeld ==
  \A i \in Inviters :
    invitation[i].step \in {"find", "rotate", "count", "write"} <=> seatsLock = i

(* Concurrent invitations, restored seats and re-invitations never exceed  *)
(* the plan's seats (store/seats.go:74-79).                                *)
SeatLimitKept == MaxSeats > 0 => Cardinality(Seated) <= MaxSeats

(* An invitation is claimed once, even if the claim was taken back because *)
(* of the license (store/seats.go:301-310).                                *)
TokenSpentOnce == \A t \in Tokens : spent[t] <= 1

(* Someone who is on the team is left alone by a further invitation        *)
(* (store/seats.go:106-107).                                               *)
TeamIsLeftAlone ==
  [][\A p \in People :
       seat[p].state = "live" /\ seat[p].accepted /\ seat'[p].accepted =>
         seat'[p].role = seat[p].role /\ seat'[p].token \in {seat[p].token, 0}]_seatsVars
=============================================================================
