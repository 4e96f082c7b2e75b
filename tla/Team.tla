-------------------------------- MODULE Team --------------------------------
(***************************************************************************)
(* Who runs the installation: the first owner created by the set-up wizard *)
(* (handler/setup.go), the ADMIN_EMAILS promoted at start-up and at login  *)
(* (store.go, handler/otp.go), the team invitations and removals of the    *)
(* dashboard (handler/admin.go) and the demotion that guards the last      *)
(* owner (store.go).  Requests are handled by concurrent desks; every      *)
(* statement that commits on its own is a step of its own.                 *)
(*                                                                         *)
(* An advisory lock belongs to a database session.  The demotion keeps one *)
(* connection for the lock, the transaction and the unlock.  The wizard    *)
(* asks the pool for a connection each time, so its lock and its unlock    *)
(* may run on different sessions, and a session that already holds the     *)
(* lock gets it again.                                                     *)
(***************************************************************************)
EXTENDS Naturals

CONSTANTS Users,         \* the e-mail addresses
          AdminEmails,   \* those ADMIN_EMAILS lists
          FirstAdmin,    \* the first of the list
          Desks,         \* the requests handled at once
          Connections,   \* the sessions of the database pool
          InvitedAs,     \* the roles invitations give: "admin", "owner"
          NoUser,
          MaxTurns       \* bound on the requests of the run

ASSUME TeamConstantsOK ==
    /\ AdminEmails \subseteq Users /\ FirstAdmin \in Users /\ NoUser \notin Users
    /\ InvitedAs \subseteq {"admin", "owner"} /\ MaxTurns \in Nat

VARIABLES role,       \* users.role, "none" when there is no row
          complete,   \* settings.setup_complete
          setups,     \* set-ups that committed
          setupLock,  \* session -> how many times it holds advisory lock 8675309
          demoteLock, \* the desk that holds advisory lock 8675310, or none
          desk,       \* desk -> the request it handles
          turns

teamVars == <<role, complete, setups, setupLock, demoteLock, desk, turns>>

Roles == {"none", "user", "admin", "owner"}
Idle == [at |-> "idle", target |-> NoUser, as |-> "none", seen |-> 0]
Owners == {u \in Users : role[u] = "owner"}
SetupNeeded == ~complete /\ Owners = {}

TeamInit == /\ role = [u \in Users |-> "none"]
            /\ complete = FALSE
            /\ setups = 0
            /\ setupLock = [c \in Connections |-> 0]
            /\ demoteLock = {}
            /\ desk = [d \in Desks |-> Idle]
            /\ turns = 0

Starts(d) == desk[d].at = "idle" /\ turns < MaxTurns /\ turns' = turns + 1
Continues(d, step) == desk[d].at = step /\ UNCHANGED turns
Answers(d) == desk' = [desk EXCEPT ![d] = Idle]
Goes(d, step, u, r) == desk' = [desk EXCEPT ![d] = [Idle EXCEPT !.at = step, !.target = u, !.as = r]]
Locks == <<setupLock, demoteLock>>
Wizard == <<complete, setups, setupLock>>

(***************************************************************************)
(* The set-up wizard.                                                      *)
(***************************************************************************)
TrySetupLock(c) ==
    /\ \A o \in Connections \ {c} : setupLock[o] = 0
    /\ setupLock' = [setupLock EXCEPT ![c] = @ + 1]

Initialize(d, u) ==
    /\ Starts(d) /\ SetupNeeded
    /\ \E c \in Connections : TrySetupLock(c)
    /\ Goes(d, "setup", u, "owner")
    /\ UNCHANGED <<role, complete, setups, demoteLock>>

RecheckSetup(d) ==
    /\ Continues(d, "setup")
    /\ Goes(d, IF SetupNeeded THEN "create" ELSE "unlock", desk[d].target, "owner")
    /\ UNCHANGED <<role, complete, setups, Locks>>

CommitSetup(d) ==
    /\ Continues(d, "create")
    /\ role' = [role EXCEPT ![desk[d].target] = "owner"]
    /\ complete' = TRUE /\ setups' = setups + 1
    /\ Goes(d, "unlock", NoUser, "none")
    /\ UNCHANGED Locks

(* The deferred unlock: on a session that does not hold the lock it does nothing. *)
UnlockSetup(d) ==
    /\ Continues(d, "unlock")
    /\ \E c \in Connections :
          setupLock' = [setupLock EXCEPT ![c] = IF @ > 0 THEN @ - 1 ELSE 0]
    /\ Answers(d)
    /\ UNCHANGED <<role, complete, setups, demoteLock>>

(***************************************************************************)
(* ADMIN_EMAILS: the promotion at start-up, and the one at login.          *)
(***************************************************************************)
SyncAdminEmails(d) ==
    /\ Starts(d)
    /\ desk' = [desk EXCEPT ![d] = [Idle EXCEPT !.at = "sync", !.as = IF Owners = {} THEN "owner" ELSE "admin"]]
    /\ UNCHANGED <<role, Wizard, demoteLock>>

PromoteListed(d) ==
    /\ Continues(d, "sync")
    /\ role' = [u \in Users |-> IF u \in AdminEmails /\ role[u] = "user"
                                THEN IF u = FirstAdmin THEN desk[d].as ELSE "admin"
                                ELSE role[u]]
    /\ Answers(d)
    /\ UNCHANGED <<Wizard, demoteLock>>

Login(d, u) ==
    /\ Starts(d)
    /\ role' = [role EXCEPT ![u] = IF @ = "none" THEN "user" ELSE @]
    /\ IF u \in AdminEmails /\ role'[u] = "user" THEN Goes(d, "set", u, "admin") ELSE Answers(d)
    /\ UNCHANGED <<Wizard, demoteLock>>

(***************************************************************************)
(* The dashboard.  The actor's role and the target's row are read first.   *)
(***************************************************************************)
InviteTeamMember(d, actor, u, r) ==
    /\ Starts(d)
    /\ role[actor] = "owner" /\ u # actor /\ role[u] # r
    /\ Goes(d, IF role[u] = "none" THEN "placeholder" ELSE "set", u, r)
    /\ UNCHANGED <<role, Wizard, demoteLock>>

CreatePlaceholderUser(d) ==
    /\ Continues(d, "placeholder")
    /\ role' = [role EXCEPT ![desk[d].target] = IF @ = "none" THEN desk[d].as ELSE @]
    /\ Answers(d)
    /\ UNCHANGED <<Wizard, demoteLock>>

SetUserRole(d) ==
    /\ Continues(d, "set")
    /\ role' = [role EXCEPT ![desk[d].target] = desk[d].as]
    /\ Answers(d)
    /\ UNCHANGED <<Wizard, demoteLock>>

RemoveTeamMember(d, actor, u) ==
    /\ Starts(d)
    /\ role[actor] = "owner" /\ u # actor /\ role[u] \in {"admin", "owner"}
    /\ Goes(d, "demote", u, "user")
    /\ UNCHANGED <<role, Wizard, demoteLock>>

(* DemoteOwnerAtomic: the lock and the count, then the role and the update. *)
LockAndCount_NoLock(d) ==
    /\ Continues(d, "demote")
    /\ desk' = [desk EXCEPT ![d] = [@ EXCEPT !.at = "counted",
                                              !.seen = IF \E u \in Owners : Owners = {u} THEN 1 ELSE 2]]
    /\ demoteLock' = {d} /\ UNCHANGED <<role, Wizard>>

LockAndCount(d) ==
    /\ Continues(d, "demote") /\ demoteLock = {}
    /\ demoteLock' = {d}
    /\ desk' = [desk EXCEPT ![d] = [@ EXCEPT !.at = "counted",
                                              !.seen = IF \E u \in Owners : Owners = {u} THEN 1 ELSE 2]]
    /\ UNCHANGED <<role, Wizard>>

Demote_Anyone(d) ==
    /\ Continues(d, "counted")
    /\ role' = [role EXCEPT ![desk[d].target] = "user"]
    /\ demoteLock' = {} /\ Answers(d) /\ UNCHANGED Wizard

Demote(d) ==
    /\ Continues(d, "counted")
    /\ role' = IF role[desk[d].target] = "owner" /\ desk[d].seen <= 1
               THEN role
               ELSE [role EXCEPT ![desk[d].target] = "user"]
    /\ demoteLock' = {} /\ Answers(d) /\ UNCHANGED Wizard

ServeDesk(d) == \/ RecheckSetup(d) \/ CommitSetup(d) \/ UnlockSetup(d) \/ PromoteListed(d)
                \/ CreatePlaceholderUser(d) \/ SetUserRole(d) \/ LockAndCount(d) \/ Demote(d)

TakeRequest(d) ==
    \/ SyncAdminEmails(d)
    \/ \E u \in Users :
          \/ Initialize(d, u) \/ Login(d, u)
          \/ \E actor \in Users : \/ RemoveTeamMember(d, actor, u)
                                  \/ \E r \in InvitedAs : InviteTeamMember(d, actor, u, r)

TeamNext == \E d \in Desks : ServeDesk(d) \/ TakeRequest(d)

TeamSpec == TeamInit /\ [][TeamNext]_teamVars

(***************************************************************************)
(* Properties.                                                             *)
(***************************************************************************)
TeamTypeOK == /\ role \in [Users -> Roles] /\ complete \in BOOLEAN /\ setups \in Nat
              /\ setupLock \in [Connections -> Nat] /\ demoteLock \subseteq Desks
              /\ turns \in 0..MaxTurns

(* Who has counted the owners and not demoted yet holds the advisory lock. *)
LockHeld == demoteLock = {d \in Desks : desk[d].at = "counted"}

(* Once the installation has an owner it keeps one: nobody could appoint
   another, and the wizard refuses to run again.  DemoteOwnerAtomic keeps it
   against concurrent removals; the comment at ErrLastOwner (store.go) forbids
   the handlers to bypass it with a raw SetUserRole. *)
KeepsOwner == Owners # {} => Owners' # {}
SomeOwner == [][KeepsOwner]_teamVars

(* The wizard runs once: handler/setup.go checks before and after it takes
   its lock. *)
SetUpOnce == setups <= 1
==============================================================================
