-------------------------- MODULE BackOffice_proofs --------------------------
(***************************************************************************)
(* Proofs about BackOffice: the team, signing in and the catalogue, each   *)
(* for any number of requests handled at once, and the five components     *)
(* side by side.                                                           *)
(***************************************************************************)
EXTENDS BackOffice, Releases_proofs

-----------------------------------------------------------------------------
(* THE TEAM *)

DeskRow == [at : {"idle", "setup", "create", "unlock", "sync", "placeholder", "set",
                  "demote", "counted"},
            target : Users \cup {NoUser}, as : Roles, seen : Nat]

(* A desk's request has a row of the right form, and who counted the       *)
(* owners and did not demote yet, one desk at most, holds the lock.        *)
TeamTyped ==
  /\ TeamTypeOK /\ desk \in [Desks -> DeskRow]
  /\ LockHeld /\ \A d, e \in demoteLock : d = e

(* An idle desk has a row of the right form. *)
LEMMA IdleRow == Idle \in DeskRow /\ Idle.at = "idle"
  BY DEF Idle, DeskRow, Roles

(* A row in which one field is replaced is a row. *)
LEMMA FieldsReplaced ==
  ASSUME NEW row \in DeskRow
  PROVE  /\ \A step \in {"setup", "create", "unlock", "sync", "placeholder", "set",
                         "demote", "counted"} : [row EXCEPT !.at = step] \in DeskRow
         /\ \A u \in Users \cup {NoUser} : [row EXCEPT !.target = u] \in DeskRow
         /\ \A r \in Roles : [row EXCEPT !.as = r] \in DeskRow
         /\ \A n \in Nat : [row EXCEPT !.seen = n] \in DeskRow
<1>1. \A step \in {"setup", "create", "unlock", "sync", "placeholder", "set", "demote",
                  "counted"} : [row EXCEPT !.at = step] \in DeskRow
  BY DEF DeskRow
<1>2. \A u \in Users \cup {NoUser} : [row EXCEPT !.target = u] \in DeskRow
  BY DEF DeskRow
<1>3. \A r \in Roles : [row EXCEPT !.as = r] \in DeskRow
  BY DEF DeskRow
<1>4. \A n \in Nat : [row EXCEPT !.seen = n] \in DeskRow
  BY DEF DeskRow
<1>5. QED
  BY <1>1, <1>2, <1>3, <1>4

(* What a desk is doing after it took a step. *)
LEMMA GoesTo ==
  ASSUME NEW d \in Desks,
         NEW step \in {"setup", "create", "unlock", "sync", "placeholder", "set", "demote"},
         NEW u \in Users \cup {NoUser}, NEW r \in Roles, Goes(d, step, u, r)
  PROVE  \E row \in DeskRow : /\ desk' = [desk EXCEPT ![d] = row]
                              /\ row.at = step /\ row.as = r /\ row.target = u
<1> DEFINE row == [Idle EXCEPT !.at = step, !.target = u, !.as = r]
<1>1. step \in {"setup", "create", "unlock", "sync", "placeholder", "set", "demote", "counted"}
  OBVIOUS
<1>2. [Idle EXCEPT !.at = step] \in DeskRow
  BY <1>1, IdleRow, FieldsReplaced
<1>3. [[Idle EXCEPT !.at = step] EXCEPT !.target = u] \in DeskRow
  BY <1>2, FieldsReplaced
<1>4. row \in DeskRow
  BY <1>3, FieldsReplaced
<1>5. row.at = step /\ row.as = r /\ row.target = u
  BY DEF Idle
<1>6. QED
  BY <1>4, <1>5 DEF Goes

(* The four things a step of a desk can do, the desk being left with row.  *)
(* It lets every owner be, ...                                             *)
LetsBe(d, row) ==
  /\ Owners \subseteq Owners' /\ demoteLock' = demoteLock
  /\ desk[d].at # "counted" /\ row.at # "counted"
  /\ row.at = "demote" => \E u \in Owners : u # row.target
  /\ row.at = "set" => role'[row.target] # "owner" \/ \E u \in Owners : u # row.target

(* ... or sets a role without a lock, ...                                  *)
SetsRole(d, row) ==
  /\ desk[d].at = "set" /\ row = Idle /\ demoteLock' = demoteLock
  /\ role' = [role EXCEPT ![desk[d].target] = desk[d].as]

(* ... or takes the lock and counts, ...                                   *)
Counts(d, row) ==
  /\ desk[d].at = "demote" /\ row.at = "counted" /\ row.target = desk[d].target
  /\ row.seen = IF \E u \in Owners : Owners = {u} THEN 1 ELSE 2
  /\ demoteLock = {} /\ demoteLock' = {d} /\ role' = role

(* ... or demotes.                                                         *)
Demotes(d, row) ==
  /\ desk[d].at = "counted" /\ row = Idle /\ demoteLock' = {}
  /\ \/ role' = role
     \/ /\ role' = [role EXCEPT ![desk[d].target] = "user"]
        /\ role[desk[d].target] # "owner" \/ desk[d].seen > 1

(* Every step of a desk is one of the four. *)
LEMMA DeskSteps ==
  ASSUME TeamTyped, NEW d \in Desks, ServeDesk(d) \/ TakeRequest(d)
  PROVE  /\ role' \in [Users -> Roles]
         /\ \E row \in DeskRow :
              /\ desk' = [desk EXCEPT ![d] = row]
              /\ LetsBe(d, row) \/ SetsRole(d, row) \/ Counts(d, row) \/ Demotes(d, row)
<1> DEFINE Goal == /\ role' \in [Users -> Roles]
                   /\ \E row \in DeskRow :
                        /\ desk' = [desk EXCEPT ![d] = row]
                        /\ LetsBe(d, row) \/ SetsRole(d, row) \/ Counts(d, row) \/ Demotes(d, row)
<1>0. /\ role \in [Users -> Roles] /\ desk \in [Desks -> DeskRow] /\ desk[d] \in DeskRow
      /\ FirstAdmin \in Users /\ InvitedAs \subseteq Roles
  BY TeamConstantsOK DEF TeamTyped, TeamTypeOK, TeamConstantsOK, Roles
<1>f. /\ desk[d].target \in Users \cup {NoUser} /\ desk[d].as \in Roles /\ desk[d].seen \in Nat
  BY <1>0 DEF DeskRow
<1>k. ASSUME role' = role PROVE role' \in [Users -> Roles] /\ Owners' = Owners
  BY <1>0, <1>k DEF Owners
<1>1. ASSUME NEW u \in Users, Initialize(d, u) PROVE Goal
  <2>1. /\ role' = role /\ demoteLock' = demoteLock /\ desk[d].at = "idle"
        /\ \E row \in DeskRow : desk' = [desk EXCEPT ![d] = row] /\ row.at = "setup"
    BY <1>1, GoesTo DEF Initialize, Starts, Roles
  <2>2. QED
    BY <1>k, <2>1 DEF LetsBe
<1>2. ASSUME NEW u \in Users, Login(d, u) PROVE Goal
  <2>1. /\ role' = [role EXCEPT ![u] = IF @ = "none" THEN "user" ELSE @]
        /\ demoteLock' = demoteLock /\ desk[d].at = "idle"
    BY <1>2 DEF Login, Starts
  <2>2. role' \in [Users -> Roles] /\ Owners \subseteq Owners'
    BY <1>0, <2>1 DEF Owners, Roles
  <2>3. CASE Answers(d)
    BY <2>1, <2>2, <2>3, IdleRow DEF LetsBe, Answers
  <2>4. CASE role'[u] = "user" /\ Goes(d, "set", u, "admin")
    <3>1. \E row \in DeskRow : desk' = [desk EXCEPT ![d] = row] /\ row.at = "set" /\ row.target = u
      BY <2>4, GoesTo DEF Roles
    <3>2. QED
      BY <2>1, <2>2, <2>4, <3>1 DEF LetsBe
  <2>5. QED
    BY <1>2, <2>3, <2>4 DEF Login
<1>3. ASSUME NEW u \in Users, NEW actor \in Users, RemoveTeamMember(d, actor, u) PROVE Goal
  <2>1. /\ role' = role /\ demoteLock' = demoteLock /\ desk[d].at = "idle"
        /\ actor \in Owners /\ actor # u
    BY <1>3 DEF RemoveTeamMember, Starts, Owners
  <2>2. \E row \in DeskRow : desk' = [desk EXCEPT ![d] = row] /\ row.at = "demote" /\ row.target = u
    BY <1>3, GoesTo DEF RemoveTeamMember, Roles
  <2>3. QED
    BY <1>k, <2>1, <2>2 DEF LetsBe
<1>4. ASSUME NEW u \in Users, NEW actor \in Users, NEW r \in InvitedAs, InviteTeamMember(d, actor, u, r)
      PROVE  Goal
  <2>1. /\ role' = role /\ demoteLock' = demoteLock /\ desk[d].at = "idle"
        /\ actor \in Owners /\ actor # u /\ r \in Roles
    BY <1>0, <1>4 DEF InviteTeamMember, Starts, Owners
  <2>2. \E row \in DeskRow : /\ desk' = [desk EXCEPT ![d] = row]
                             /\ row.at \in {"placeholder", "set"} /\ row.target = u
    BY <1>4, <2>1, GoesTo DEF InviteTeamMember
  <2>3. QED
    BY <1>k, <2>1, <2>2 DEF LetsBe
<1>5. ASSUME SyncAdminEmails(d) PROVE Goal
  <2> DEFINE r == IF Owners = {} THEN "owner" ELSE "admin"
  <2>1. /\ role' = role /\ demoteLock' = demoteLock /\ desk[d].at = "idle"
        /\ desk' = [desk EXCEPT ![d] = [Idle EXCEPT !.at = "sync", !.as = r]]
    BY <1>5 DEF SyncAdminEmails, Starts
  <2>2. [Idle EXCEPT !.at = "sync"] \in DeskRow
    BY IdleRow, FieldsReplaced
  <2>3. [Idle EXCEPT !.at = "sync", !.as = r] \in DeskRow
    BY <2>2, FieldsReplaced DEF Roles
  <2>4. [Idle EXCEPT !.at = "sync", !.as = r].at = "sync"
    BY DEF Idle
  <2>5. QED
    BY <1>k, <2>1, <2>3, <2>4 DEF LetsBe
<1>6. ASSUME RecheckSetup(d) \/ CommitSetup(d) PROVE Goal
  <2>1. /\ demoteLock' = demoteLock /\ desk[d].at \in {"setup", "create"}
        /\ role' = role \/ role' = [role EXCEPT ![desk[d].target] = "owner"]
    BY <1>6 DEF RecheckSetup, CommitSetup, Continues, Locks
  <2>2. role' \in [Users -> Roles] /\ Owners \subseteq Owners'
    BY <1>0, <2>1 DEF Owners, Roles
  <2>3. \E row \in DeskRow : /\ desk' = [desk EXCEPT ![d] = row]
                             /\ row.at \in {"create", "unlock"}
    BY <1>6, <1>f, GoesTo DEF RecheckSetup, CommitSetup, Roles
  <2>4. QED
    BY <2>1, <2>2, <2>3 DEF LetsBe
<1>7. ASSUME UnlockSetup(d) \/ PromoteListed(d) \/ CreatePlaceholderUser(d) PROVE Goal
  <2>1. /\ demoteLock' = demoteLock /\ desk[d].at \in {"unlock", "sync", "placeholder"}
        /\ desk' = [desk EXCEPT ![d] = Idle]
    BY <1>7 DEF UnlockSetup, PromoteListed, CreatePlaceholderUser, Continues, Answers
  <2>2. \/ role' = role
        \/ role' = [u \in Users |-> IF u \in AdminEmails /\ role[u] = "user"
                                    THEN IF u = FirstAdmin THEN desk[d].as ELSE "admin"
                                    ELSE role[u]]
        \/ role' = [role EXCEPT ![desk[d].target] = IF @ = "none" THEN desk[d].as ELSE @]
    BY <1>7 DEF UnlockSetup, PromoteListed, CreatePlaceholderUser
  <2>3. role' \in [Users -> Roles] /\ Owners \subseteq Owners'
    BY <1>0, <1>f, <2>2 DEF Owners, Roles
  <2>4. QED
    BY <2>1, <2>3, IdleRow DEF LetsBe
<1>8. ASSUME SetUserRole(d) PROVE Goal
  <2>1. role' = [role EXCEPT ![desk[d].target] = desk[d].as]
    BY <1>8 DEF SetUserRole
  <2>2. role' \in [Users -> Roles]
    BY <1>0, <1>f, <2>1
  <2>3. QED
    BY <1>8, <2>1, <2>2, IdleRow DEF SetsRole, SetUserRole, Continues, Answers
<1>9. ASSUME LockAndCount(d) PROVE Goal
  <2> DEFINE n == IF \E u \in Owners : Owners = {u} THEN 1 ELSE 2
             row == [desk[d] EXCEPT !.at = "counted", !.seen = n]
  <2>1. /\ desk[d].at = "demote" /\ demoteLock = {} /\ demoteLock' = {d} /\ role' = role
        /\ desk' = [desk EXCEPT ![d] = row]
    BY <1>9 DEF LockAndCount, Continues
  <2>2. [desk[d] EXCEPT !.at = "counted"] \in DeskRow
    BY <1>0, FieldsReplaced
  <2>3. row \in DeskRow
    BY <2>2, FieldsReplaced
  <2>4. row.at = "counted" /\ row.seen = n /\ row.target = desk[d].target
    BY <1>0 DEF DeskRow
  <2>5. QED
    BY <1>k, <2>1, <2>3, <2>4 DEF Counts
<1>10. ASSUME Demote(d) PROVE Goal
  <2>1. /\ desk' = [desk EXCEPT ![d] = Idle] /\ demoteLock' = {} /\ desk[d].at = "counted"
        /\ \/ role' = role
           \/ /\ role' = [role EXCEPT ![desk[d].target] = "user"]
              /\ role[desk[d].target] # "owner" \/ ~ (desk[d].seen <= 1)
    BY <1>10 DEF Demote, Answers, Continues
  <2>2. ~ (desk[d].seen <= 1) => desk[d].seen > 1
    BY <1>f
  <2>3. role' \in [Users -> Roles]
    BY <1>0, <2>1 DEF Roles
  <2>4. Demotes(d, Idle)
    BY <2>1, <2>2 DEF Demotes
  <2>5. QED
    BY <2>1, <2>3, <2>4, IdleRow
<1>11. QED
  BY <1>1, <1>2, <1>3, <1>4, <1>5, <1>6, <1>7, <1>8, <1>9, <1>10 DEF ServeDesk, TakeRequest

(* What the desks do not change by one of the four is of its type too. *)
LEMMA TeamOthersTyped ==
  ASSUME TeamTyped, NEW d \in Desks, ServeDesk(d) \/ TakeRequest(d)
  PROVE  /\ complete' \in BOOLEAN /\ setups' \in Nat /\ setupLock' \in [Connections -> Nat]
         /\ turns' \in 0..MaxTurns
<1>0. /\ complete \in BOOLEAN /\ setups \in Nat /\ setupLock \in [Connections -> Nat]
      /\ turns \in 0..MaxTurns /\ MaxTurns \in Nat
  BY TeamConstantsOK DEF TeamTyped, TeamTypeOK, TeamConstantsOK
<1>1. turns' = turns \/ (turns < MaxTurns /\ turns' = turns + 1)
  BY DEF ServeDesk, TakeRequest, SyncAdminEmails, Initialize, Login, RemoveTeamMember, InviteTeamMember,
     RecheckSetup, CommitSetup, UnlockSetup, PromoteListed, CreatePlaceholderUser, SetUserRole,
     LockAndCount, Demote, Starts, Continues
<1>2. complete' \in {complete, TRUE} /\ setups' \in {setups, setups + 1}
  BY DEF ServeDesk, TakeRequest, SyncAdminEmails, Initialize, Login, RemoveTeamMember, InviteTeamMember,
     RecheckSetup, CommitSetup, UnlockSetup, PromoteListed, CreatePlaceholderUser, SetUserRole,
     LockAndCount, Demote, Starts, Continues, Wizard
<1>3. \/ setupLock' = setupLock
      \/ \E c \in Connections : TrySetupLock(c)
      \/ \E c \in Connections : setupLock' = [setupLock EXCEPT ![c] = IF @ > 0 THEN @ - 1 ELSE 0]
  BY DEF ServeDesk, TakeRequest, SyncAdminEmails, Initialize, Login, RemoveTeamMember, InviteTeamMember,
     RecheckSetup, CommitSetup, UnlockSetup, PromoteListed, CreatePlaceholderUser, SetUserRole,
     LockAndCount, Demote, Wizard, Locks
<1>4. complete' \in BOOLEAN
  BY <1>0, <1>2
<1>8. setups' \in Nat
  BY <1>0, <1>2
<1>5. turns' \in 0..MaxTurns
  BY <1>0, <1>1
<1>6. setupLock' \in [Connections -> Nat]
  BY <1>0, <1>3 DEF TrySetupLock
<1>9. QED
  BY <1>4, <1>5, <1>6, <1>8

(* The types and the lock of the team are kept. *)
LEMMA TeamKeepsTypes ==
  ASSUME TeamTyped, NEW d \in Desks, ServeDesk(d) \/ TakeRequest(d)
  PROVE  TeamTyped'
<1>1. PICK row \in DeskRow :
        /\ desk' = [desk EXCEPT ![d] = row]
        /\ LetsBe(d, row) \/ SetsRole(d, row) \/ Counts(d, row) \/ Demotes(d, row)
  BY DeskSteps
<1>2. /\ desk \in [Desks -> DeskRow] /\ LockHeld /\ demoteLock \subseteq Desks
      /\ \A a, b \in demoteLock : a = b
  BY DEF TeamTyped, TeamTypeOK
<1>3. /\ desk' \in [Desks -> DeskRow]
      /\ desk'[d] = row /\ \A e \in Desks \ {d} : desk'[e] = desk[e]
  BY <1>1, <1>2
<1>4. LockHeld' /\ demoteLock' \subseteq Desks /\ \A a, b \in demoteLock' : a = b
  <2>1. CASE LetsBe(d, row)
    BY <1>2, <1>3, <2>1 DEF LockHeld, LetsBe
  <2>2. CASE SetsRole(d, row)
    BY <1>2, <1>3, <2>2, IdleRow DEF LockHeld, SetsRole
  <2>3. CASE Counts(d, row)
    BY <1>2, <1>3, <2>3 DEF LockHeld, Counts
  <2>4. CASE Demotes(d, row)
    <3>1. \A e \in Desks \ {d} : desk[e].at # "counted"
      BY <1>2, <2>4 DEF LockHeld, Demotes
    <3>2. QED
      BY <1>2, <1>3, <2>4, <3>1, IdleRow DEF LockHeld, Demotes
  <2>5. QED
    BY <1>1, <2>1, <2>2, <2>3, <2>4
<1>5. QED
  BY <1>3, <1>4, DeskSteps, TeamOthersTyped DEF TeamTyped, TeamTypeOK

-----------------------------------------------------------------------------
(* Where only owners are appointed: whoever removes somebody counted       *)
(* another owner than the one it removes, or the only one.                 *)
OwnerCounted(d) ==
  /\ desk[d].at \in {"demote", "counted"} => Owners # {}
  /\ desk[d].at = "counted" /\ desk[d].seen # 1 => \E u \in Owners : u # desk[d].target

OwnersCounted == OnlyOwnersAppointed /\ \A d \in Desks : OwnerCounted(d)

(* A step there keeps that, and an owner. *)
LEMMA OwnersStep ==
  ASSUME TeamTyped, OwnersCounted, NEW d \in Desks, ServeDesk(d) \/ TakeRequest(d),
         OnlyOwnersAppointed'
  PROVE  OwnersCounted' /\ KeepsOwner
<1>1. PICK row \in DeskRow :
        /\ desk' = [desk EXCEPT ![d] = row]
        /\ LetsBe(d, row) \/ SetsRole(d, row) \/ Counts(d, row) \/ Demotes(d, row)
  BY DeskSteps
<1>2. /\ desk \in [Desks -> DeskRow] /\ role \in [Users -> Roles]
      /\ demoteLock = {e \in Desks : desk[e].at = "counted"} /\ \A a, b \in demoteLock : a = b
      /\ \A e \in Desks : OwnerCounted(e)
      /\ desk[d].at = "set" => desk[d].as = "owner"
  BY DEF TeamTyped, TeamTypeOK, LockHeld, OwnersCounted, OnlyOwnersAppointed
<1>3. /\ desk'[d] = row /\ \A e \in Desks \ {d} : desk'[e] = desk[e]
  BY <1>1, <1>2
<1>4. CASE Owners \subseteq Owners' /\ ~ Counts(d, row) /\ ~ Demotes(d, row)
  <2>1. row.at # "counted" /\ (row.at = "demote" => Owners # {})
    BY <1>1, <1>4, IdleRow DEF LetsBe, SetsRole
  <2>2. \A e \in Desks : OwnerCounted(e)'
    BY <1>2, <1>3, <1>4, <2>1 DEF OwnerCounted
  <2>3. QED
    BY <1>4, <2>2 DEF OwnersCounted, KeepsOwner
<1>5. CASE Counts(d, row)
  <2>1. /\ row.at = "counted" /\ row.target = desk[d].target /\ Owners' = Owners /\ Owners # {}
        /\ row.seen = IF \E u \in Owners : Owners = {u} THEN 1 ELSE 2
    BY <1>2, <1>5 DEF Counts, Owners, OwnerCounted
  <2>2. row.seen # 1 => \E u \in Owners : u # desk[d].target
    BY <2>1
  <2>3. \A e \in Desks : OwnerCounted(e)'
    BY <1>2, <1>3, <2>1, <2>2 DEF OwnerCounted
  <2>4. QED
    BY <2>1, <2>3 DEF OwnersCounted, KeepsOwner
<1>6. CASE Demotes(d, row)
  <2>1. /\ row = Idle /\ Owners # {} /\ desk[d].at = "counted"
        /\ \/ role' = role
           \/ /\ role' = [role EXCEPT ![desk[d].target] = "user"]
              /\ role[desk[d].target] # "owner" \/ desk[d].seen # 1
    BY <1>2, <1>6 DEF Demotes, OwnerCounted
  <2>2. Owners' # {}
    <3>1. CASE role' = role
      BY <2>1, <3>1 DEF Owners
    <3>2. CASE /\ role' = [role EXCEPT ![desk[d].target] = "user"]
               /\ role[desk[d].target] # "owner"
      BY <1>2, <2>1, <3>2 DEF Owners
    <3>3. CASE role' = [role EXCEPT ![desk[d].target] = "user"] /\ desk[d].seen # 1
      <4>1. PICK u \in Owners : u # desk[d].target
        BY <1>2, <2>1, <3>3 DEF OwnerCounted
      <4>2. QED
        BY <1>2, <3>3, <4>1 DEF Owners
    <3>4. QED
      BY <2>1, <3>1, <3>2, <3>3
  <2>3. \A e \in Desks \ {d} : desk[e].at # "counted"
    BY <1>2, <2>1
  <2>4. \A e \in Desks : OwnerCounted(e)'
    BY <1>2, <1>3, <2>1, <2>2, <2>3, IdleRow DEF OwnerCounted
  <2>5. QED
    BY <2>2, <2>4 DEF OwnersCounted, KeepsOwner
<1>7. LetsBe(d, row) \/ SetsRole(d, row) => Owners \subseteq Owners'
  BY <1>2 DEF LetsBe, SetsRole, Owners
<1>8. QED
  BY <1>1, <1>4, <1>5, <1>6, <1>7

-----------------------------------------------------------------------------
(* Where a request is alone: whoever is about to take a role away leaves   *)
(* another owner, or takes it from somebody who is none.                   *)
AnotherOwner(d) ==
  /\ desk[d].at \in {"demote", "counted"} => \E u \in Owners : u # desk[d].target
  /\ desk[d].at = "set" => role[desk[d].target] # "owner" \/ \E u \in Owners : u # desk[d].target

(* A step there keeps that, and an owner. *)
LEMMA AloneStep ==
  ASSUME TeamTyped, \A e \in Desks : AnotherOwner(e),
         NEW d \in Desks, DeskMay(d), ServeDesk(d) \/ TakeRequest(d)
  PROVE  (\A e \in Desks : AnotherOwner(e)') /\ KeepsOwner
<1>1. PICK row \in DeskRow :
        /\ desk' = [desk EXCEPT ![d] = row]
        /\ LetsBe(d, row) \/ SetsRole(d, row) \/ Counts(d, row) \/ Demotes(d, row)
  BY DeskSteps
<1>2. desk \in [Desks -> DeskRow] /\ role \in [Users -> Roles] /\ AnotherOwner(d)
  BY DEF TeamTyped, TeamTypeOK
<1>3. desk'[d] = row /\ \A e \in Desks \ {d} : desk'[e] = desk[e]
  BY <1>1, <1>2
<1>4. \A e \in Desks \ {d} : desk'[e].at = "idle"
  BY <1>3 DEF DeskMay
<1>5. AnotherOwner(d)'
  <2>1. CASE LetsBe(d, row)
    BY <1>3, <2>1 DEF LetsBe, AnotherOwner
  <2>2. CASE Counts(d, row)
    BY <1>2, <1>3, <2>2 DEF Counts, AnotherOwner, Owners
  <2>3. CASE row = Idle
    BY <1>3, <2>3, IdleRow DEF AnotherOwner
  <2>4. QED
    BY <1>1, <2>1, <2>2, <2>3 DEF SetsRole, Demotes
<1>6. KeepsOwner
  <2>1. CASE Owners \subseteq Owners'
    BY <2>1 DEF KeepsOwner
  <2>2. CASE /\ \E r \in Roles : role' = [role EXCEPT ![desk[d].target] = r]
             /\ \E u \in Owners : u # desk[d].target
    BY <1>2, <2>2 DEF KeepsOwner, Owners
  <2>3. CASE SetsRole(d, row)
    <3>1. CASE role[desk[d].target] # "owner"
      BY <1>2, <2>1, <2>3, <3>1 DEF SetsRole, Owners
    <3>2. desk[d].as \in Roles
      BY <1>2 DEF DeskRow
    <3>3. QED
      BY <1>2, <2>2, <2>3, <3>1, <3>2 DEF SetsRole, AnotherOwner
  <2>4. CASE Demotes(d, row)
    <3>1. CASE role' = role
      BY <2>1, <3>1 DEF Owners
    <3>2. "user" \in Roles
      BY DEF Roles
    <3>3. QED
      BY <1>2, <2>2, <2>4, <3>1, <3>2 DEF Demotes, AnotherOwner
  <2>5. CASE Counts(d, row)
    BY <2>1, <2>5 DEF Counts, Owners
  <2>6. QED
    BY <1>1, <2>1, <2>3, <2>4, <2>5 DEF LetsBe
<1>7. QED
  BY <1>3, <1>4, <1>5, <1>6 DEF AnotherOwner

-----------------------------------------------------------------------------
(* The team at the beginning, and when it does not move. *)
LEMMA TeamStarts ==
  ASSUME TeamInit
  PROVE  TeamTyped /\ OwnersCounted /\ \A d \in Desks : AnotherOwner(d)
<1>1. desk \in [Desks -> DeskRow] /\ \A d \in Desks : desk[d].at = "idle"
  BY IdleRow DEF TeamInit
<1>2. complete \in BOOLEAN /\ setupLock \in [Connections -> Nat]
  BY DEF TeamInit
<1>3. role \in [Users -> Roles] /\ setups \in Nat /\ turns = 0 /\ demoteLock = {}
  BY DEF TeamInit, Roles
<1>4. turns \in 0..MaxTurns
  BY <1>3, TeamConstantsOK DEF TeamConstantsOK
<1>5. TeamTyped
  BY <1>1, <1>2, <1>3, <1>4 DEF TeamTyped, TeamTypeOK, LockHeld
<1>6. QED
  BY <1>1, <1>5 DEF OwnersCounted, OnlyOwnersAppointed, OwnerCounted, AnotherOwner

(* What the team is like, under the setting chosen. *)
TeamWell ==
  /\ TeamTyped
  /\ focus = "owners" => OwnersCounted
  /\ focus = "one desk" => \A d \in Desks : AnotherOwner(d)

(* Whatever moves, the team stays well and keeps its owner. *)
LEMMA TeamStep ==
  ASSUME TeamWell, [Next]_officeVars
  PROVE  TeamWell' /\ [KeepsOwner]_teamVars
<1>1. CASE UNCHANGED teamVars /\ UNCHANGED focus
  <2>1. /\ TeamTyped' = TeamTyped /\ OwnersCounted' = OwnersCounted
        /\ (\A d \in Desks : AnotherOwner(d))' = (\A d \in Desks : AnotherOwner(d))
    BY <1>1 DEF teamVars, TeamTyped, TeamTypeOK, LockHeld, OwnersCounted, OnlyOwnersAppointed,
       OwnerCounted, AnotherOwner, Owners
  <2>2. QED
    BY <1>1, <2>1 DEF TeamWell
<1>2. CASE UNCHANGED focus /\ focus = "owners" /\ TeamNext /\ OnlyOwnersAppointed'
  <2>1. PICK d \in Desks : ServeDesk(d) \/ TakeRequest(d)
    BY <1>2 DEF TeamNext
  <2>2. QED
    BY <1>2, <2>1, TeamKeepsTypes, OwnersStep DEF TeamWell
<1>3. CASE UNCHANGED focus /\ focus = "one desk" /\ \E d \in Desks : DeskMay(d) /\ (ServeDesk(d) \/ TakeRequest(d))
  BY <1>3, TeamKeepsTypes, AloneStep DEF TeamWell
<1>4. QED
  BY <1>1, <1>2, <1>3 DEF Next, TeamMoves, officeVars

(* The team is of its types, and who counted the owners holds the lock.    *)
LEMMA TeamHolds == Spec => [](TeamTypeOK /\ LockHeld)
<1>1. Init => TeamWell
  BY TeamStarts DEF Init, TeamWell
<1>2. TeamWell /\ [Next]_officeVars => TeamWell'
  BY TeamStep
<1>3. TeamWell => TeamTypeOK /\ LockHeld
  BY DEF TeamWell, TeamTyped
<1>4. QED
  BY <1>1, <1>2, <1>3, PTL DEF Spec

(* An installation that has an owner keeps one: however removals and       *)
(* appointments of owners overlap, because whoever removes an owner has    *)
(* counted another one under the lock every removal takes                  *)
(* (DemoteOwnerAtomic, store.go); and when requests come one by one,       *)
(* whatever roles they give.                                               *)
THEOREM OwnerRemains == Spec => SomeOwner
<1>1. Init => TeamWell
  BY TeamStarts DEF Init, TeamWell
<1>2. TeamWell /\ [Next]_officeVars => TeamWell' /\ [KeepsOwner]_teamVars
  BY TeamStep
<1>3. QED
  BY <1>1, <1>2, PTL DEF Spec, SomeOwner

-----------------------------------------------------------------------------
(* SIGNING IN *)

CodeRow == [state : {"none", "sent", "used", "gone"}, real : BOOLEAN, attempts : Nat]
TokenRow == [state : {"none", "live", "revoked", "gone"}, login : Nat]
ClerkSteps == {"free", "send", "count", "mark", "admit", "issue", "wipe"}
ClerkRow == [at : ClerkSteps, code : 0..MaxCodes, match : BOOLEAN, login : Nat]

(* How many requests may be under way; who handles one; a row of a request *)
(* that has compared a code.                                               *)
Room == IF focus = "one request" THEN 1 ELSE Cardinality(Clerks)
Busy == {d \in Clerks : clerk[d].at # "free"}
Verifies(row) == row.at \in {"count", "mark", "admit"}

(* The types, with what a request that compared a code knows of it.        *)
SignInTyped ==
  /\ SignInTypeOK
  /\ \A d \in Clerks : Verifies(clerk[d]) => clerk[d].code \in Codes

(* A set that differs from a finite one in one element at most.            *)
LEMMA OneElement ==
  ASSUME NEW S, NEW T, NEW d, IsFiniteSet(S), T \ {d} = S \ {d}
  PROVE  /\ IsFiniteSet(T) /\ Cardinality(S) \in Nat /\ Cardinality(T) \in Nat
         /\ (d \in S <=> d \in T) => Cardinality(T) = Cardinality(S)
         /\ d \notin S /\ d \in T => Cardinality(T) = Cardinality(S) + 1
         /\ d \in S /\ d \notin T => Cardinality(S) = Cardinality(T) + 1
<1>1. CASE d \in S <=> d \in T
  <2>1. S = T
    BY <1>1
  <2>2. QED
    BY <1>1, <2>1, FS_CardinalityType
<1>2. CASE d \notin S /\ d \in T
  <2>1. T = S \cup {d}
    BY <1>2
  <2>2. QED
    BY <1>2, <2>1, FS_AddElement, FS_CardinalityType
<1>3. CASE d \in S /\ d \notin T
  <2>1. T = S \ {d} /\ S = T \cup {d}
    BY <1>3
  <2>2. IsFiniteSet(T)
    BY <2>1, FS_Subset
  <2>3. QED
    BY <1>3, <2>1, <2>2, FS_AddElement, FS_CardinalityType
<1>4. QED
  BY <1>1, <1>2, <1>3

-----------------------------------------------------------------------------
(* Types. *)
(* The rows the clerks write are of the right form. *)
LEMMA ClerkRows ==
  ASSUME NEW row \in ClerkRow, NEW i \in 0..MaxCodes, NEW m \in BOOLEAN, NEW n \in Nat
  PROVE  /\ Free \in ClerkRow /\ Free.at = "free"
         /\ [row EXCEPT !.at = "mark"] \in ClerkRow
         /\ [row EXCEPT !.at = "admit"] \in ClerkRow
         /\ [Free EXCEPT !.at = "wipe"] \in ClerkRow
         /\ [Free EXCEPT !.at = "send", !.match = m] \in ClerkRow
         /\ [Free EXCEPT !.at = "count", !.code = i, !.match = m] \in ClerkRow
         /\ [Free EXCEPT !.at = "issue", !.login = n] \in ClerkRow
<1>0. MaxCodes \in Nat /\ 0 \in 0..MaxCodes
  BY SignInConstantsOK DEF SignInConstantsOK
<1>1. Free \in ClerkRow /\ Free.at = "free"
  BY <1>0 DEF Free, ClerkRow, ClerkSteps
<1>2. \A step \in ClerkSteps, r \in ClerkRow : [r EXCEPT !.at = step] \in ClerkRow
  BY DEF ClerkRow
<1>3. \A r \in ClerkRow : [r EXCEPT !.match = m] \in ClerkRow
  BY DEF ClerkRow
<1>4. \A r \in ClerkRow : [r EXCEPT !.code = i] \in ClerkRow
  BY DEF ClerkRow
<1>5. \A r \in ClerkRow : [r EXCEPT !.login = n] \in ClerkRow
  BY DEF ClerkRow
<1>6. {"mark", "admit", "wipe", "send", "count", "issue"} \subseteq ClerkSteps
  BY DEF ClerkSteps
<1>7. [row EXCEPT !.at = "mark"] \in ClerkRow /\ [row EXCEPT !.at = "admit"] \in ClerkRow
  BY <1>2, <1>6
<1>8. [Free EXCEPT !.at = "wipe"] \in ClerkRow
  BY <1>1, <1>2, <1>6
<1>9. [Free EXCEPT !.at = "send", !.match = m] \in ClerkRow
  <2>1. [Free EXCEPT !.at = "send"] \in ClerkRow
    BY <1>1, <1>2, <1>6
  <2>2. QED
    BY <1>3, <2>1
<1>10. [Free EXCEPT !.at = "count", !.code = i, !.match = m] \in ClerkRow
  <2>1. [Free EXCEPT !.at = "count"] \in ClerkRow
    BY <1>1, <1>2, <1>6
  <2>2. [Free EXCEPT !.at = "count", !.code = i] \in ClerkRow
    BY <1>4, <2>1
  <2>3. QED
    BY <1>3, <2>2
<1>11. [Free EXCEPT !.at = "issue", !.login = n] \in ClerkRow
  <2>1. [Free EXCEPT !.at = "issue"] \in ClerkRow
    BY <1>1, <1>2, <1>6
  <2>2. QED
    BY <1>5, <2>1
<1>12. QED
  BY <1>1, <1>7, <1>8, <1>9, <1>10, <1>11

(* The parts of a clerk's row, a code's and a token's. *)
LEMMA RowParts ==
  ASSUME SignInTyped
  PROVE  /\ \A d \in Clerks : clerk[d] \in ClerkRow /\ clerk[d].match \in BOOLEAN
                              /\ clerk[d].login \in Nat
                              /\ clerk[d].code \in 0..MaxCodes
         /\ \A i \in Codes : code[i] \in CodeRow /\ code[i].attempts \in Nat /\ code[i].real \in BOOLEAN
                             /\ guesses[i] \in Nat /\ granted[i] \in Nat
         /\ \A t \in Tokens : token[t] \in TokenRow /\ token[t].login \in Nat
         /\ clerk \in [Clerks -> ClerkRow] /\ code \in [Codes -> CodeRow]
         /\ token \in [Tokens -> TokenRow]
         /\ guesses \in [Codes -> Nat] /\ granted \in [Codes -> Nat]
<1>1. /\ clerk \in [Clerks -> ClerkRow] /\ code \in [Codes -> CodeRow]
      /\ token \in [Tokens -> TokenRow]
      /\ guesses \in [Codes -> Nat] /\ granted \in [Codes -> Nat]
  BY DEF SignInTyped, SignInTypeOK, ClerkRow, CodeRow, TokenRow, ClerkSteps
<1>2. /\ \A r \in ClerkRow : r.match \in BOOLEAN /\ r.login \in Nat /\ r.code \in 0..MaxCodes
  BY DEF ClerkRow
<1>3. \A r \in CodeRow : r.attempts \in Nat /\ r.real \in BOOLEAN
  BY DEF CodeRow
<1>4. \A r \in TokenRow : r.login \in Nat
  BY DEF TokenRow
<1>5. QED
  BY <1>1, <1>2, <1>3, <1>4

(* What a clerk's step makes of its row. *)
LEMMA ClerkTurns ==
  ASSUME SignInTyped, NEW d \in Clerks, ServeClerk(d)
  PROVE  \E row \in ClerkRow : /\ clerk' = [clerk EXCEPT ![d] = row]
                               /\ Verifies(row) => row.code \in Codes
<1> DEFINE Goal == \E row \in ClerkRow : /\ clerk' = [clerk EXCEPT ![d] = row]
                                         /\ Verifies(row) => row.code \in Codes
<1>0. /\ clerk \in [Clerks -> ClerkRow] /\ clerk[d] \in ClerkRow /\ clerk[d].match \in BOOLEAN
      /\ 0 \in 0..MaxCodes /\ Codes \subseteq 0..MaxCodes
      /\ Verifies(clerk[d]) => clerk[d].code \in Codes
  BY RowParts, SignInConstantsOK DEF Codes, SignInConstantsOK, SignInTyped
<1>a. /\ Free \in ClerkRow /\ ~ Verifies(Free)
  BY <1>0, ClerkRows DEF Verifies
<1>1. CASE OTPSend(d)
  <2> DEFINE m == SignupAllowed
  <2>0. m \in BOOLEAN
    BY DEF SignupAllowed, SignInTyped, SignInTypeOK
  <2>1. clerk' = [clerk EXCEPT ![d] = [Free EXCEPT !.at = "send", !.match = m]]
    BY <1>1 DEF OTPSend, Moves
  <2>2. [Free EXCEPT !.at = "send", !.match = m] \in ClerkRow
    BY <1>0, <2>0, ClerkRows
  <2>3. ~ Verifies([Free EXCEPT !.at = "send", !.match = m])
    BY DEF Verifies, Free
  <2>4. QED
    BY <2>1, <2>2, <2>3
<1>2. CASE CreateOTPCode(d) \/ IssueSession(d) \/ WipeReused(d)
  BY <1>2, <1>a DEF CreateOTPCode, IssueSession, WipeReused, Moves
<1>3. CASE Logout(d)
  <2>1. clerk' = [clerk EXCEPT ![d] = clerk[d]]
    BY <1>0, <1>3 DEF Logout
  <2>2. QED
    BY <1>0, <2>1
<1>4. CASE \E right \in BOOLEAN : OTPVerify(d, right)
  <2>1. PICK right \in BOOLEAN, i \in ValidOTPCodes :
          clerk' = [clerk EXCEPT ![d] = [Free EXCEPT !.at = "count", !.code = i, !.match = right /\ code[i].real]]
    BY <1>4 DEF OTPVerify, Moves
  <2> DEFINE m == right /\ code[i].real
  <2>2. i \in Codes /\ m \in BOOLEAN
    BY RowParts DEF ValidOTPCodes
  <2>3. [Free EXCEPT !.at = "count", !.code = i, !.match = m] \in ClerkRow
    BY <1>0, <2>2, ClerkRows
  <2>4. [Free EXCEPT !.at = "count", !.code = i, !.match = m].code = i
    BY DEF Free
  <2>5. QED
    BY <2>1, <2>2, <2>3, <2>4
<1>5. CASE IncrementOTPAttempts(d)
  <2>1. /\ clerk' = [clerk EXCEPT ![d] = IF clerk[d].match THEN [clerk[d] EXCEPT !.at = "mark"] ELSE Free]
        /\ clerk[d].at = "count"
    BY <1>5 DEF IncrementOTPAttempts, Counted, Moves, At
  <2>2. [clerk[d] EXCEPT !.at = "mark"] \in ClerkRow
    BY <1>0, ClerkRows
  <2>3. [clerk[d] EXCEPT !.at = "mark"].code = clerk[d].code
    BY <1>0 DEF ClerkRow
  <2>4. clerk[d].code \in Codes
    BY <1>0, <2>1 DEF Verifies
  <2>5. CASE clerk[d].match
    BY <2>1, <2>2, <2>3, <2>4, <2>5
  <2>6. CASE ~ clerk[d].match
    BY <1>a, <2>1, <2>6
  <2>7. QED
    BY <2>5, <2>6
<1>6. CASE MarkOTPUsed(d)
  <2>1. /\ clerk' = [clerk EXCEPT ![d] = [clerk[d] EXCEPT !.at = "admit"]]
        /\ clerk[d].at = "mark"
    BY <1>6 DEF MarkOTPUsed, Moves, At
  <2>2. [clerk[d] EXCEPT !.at = "admit"] \in ClerkRow
    BY <1>0, ClerkRows
  <2>3. [clerk[d] EXCEPT !.at = "admit"].code = clerk[d].code
    BY <1>0 DEF ClerkRow
  <2>4. clerk[d].code \in Codes
    BY <1>0, <2>1 DEF Verifies
  <2>5. QED
    BY <2>1, <2>2, <2>3, <2>4
<1>7. ASSUME NEW n \in Nat PROVE /\ [Free EXCEPT !.at = "issue", !.login = n] \in ClerkRow
                                 /\ ~ Verifies([Free EXCEPT !.at = "issue", !.login = n])
  <2>1. [Free EXCEPT !.at = "issue", !.login = n].at = "issue"
    BY DEF Free
  <2>2. QED
    BY <1>0, <2>1, ClerkRows DEF Verifies
<1>8. CASE Admit(d)
  <2>1. \/ clerk' = [clerk EXCEPT ![d] = [Free EXCEPT !.at = "issue", !.login = logins + 1]]
        \/ clerk' = [clerk EXCEPT ![d] = Free]
    BY <1>8 DEF Admit, Moves
  <2>2. logins + 1 \in Nat
    BY DEF SignInTyped, SignInTypeOK
  <2>3. QED
    BY <1>7, <1>a, <2>1, <2>2
<1>9. CASE \E t \in Tokens : Refresh(d, t)
  <2>1. PICK t \in Tokens : clerk' = [clerk EXCEPT ![d] =
           IF token[t].state = "revoked" THEN [Free EXCEPT !.at = "wipe"]
           ELSE [Free EXCEPT !.at = "issue", !.login = token[t].login]]
    BY <1>9 DEF Refresh, Moves
  <2>2. [Free EXCEPT !.at = "wipe"] \in ClerkRow
    BY <1>0, ClerkRows
  <2>3. ~ Verifies([Free EXCEPT !.at = "wipe"])
    BY DEF Free, Verifies
  <2>4. token[t].login \in Nat
    BY RowParts
  <2>5. CASE token[t].state = "revoked"
    BY <2>1, <2>2, <2>3, <2>5
  <2>6. CASE token[t].state # "revoked"
    BY <1>7, <2>1, <2>4, <2>6
  <2>7. QED
    BY <2>5, <2>6
<1>10. QED
  BY <1>1, <1>2, <1>3, <1>4, <1>5, <1>6, <1>8, <1>9 DEF ServeClerk

(* Codes and tokens are rewritten to rows. *)
LEMMA SignInRows ==
  ASSUME SignInTyped,
         TimePasses \/ \E d \in Clerks : ServeClerk(d)
  PROVE  /\ code' \in [Codes -> CodeRow] /\ token' \in [Tokens -> TokenRow]
         /\ guesses' \in [Codes -> Nat] /\ granted' \in [Codes -> Nat]
         /\ logins' \in Nat /\ wiped' \in 0..logins'
<1> DEFINE Goal == /\ code' \in [Codes -> CodeRow] /\ token' \in [Tokens -> TokenRow]
                   /\ guesses' \in [Codes -> Nat] /\ granted' \in [Codes -> Nat]
                   /\ logins' \in Nat /\ wiped' \in 0..logins'
<1>0. /\ code \in [Codes -> CodeRow] /\ token \in [Tokens -> TokenRow]
      /\ guesses \in [Codes -> Nat] /\ granted \in [Codes -> Nat]
      /\ clerk \in [Clerks -> ClerkRow]
  BY RowParts
<1>l. logins \in Nat /\ wiped \in 0..logins
  BY DEF SignInTyped, SignInTypeOK
<1>c. /\ \A r \in CodeRow : [r EXCEPT !.attempts = @ + 1] \in CodeRow
      /\ \A r \in CodeRow : [r EXCEPT !.state = IF @ = "sent" THEN "used" ELSE @] \in CodeRow
  BY DEF CodeRow
<1>n. /\ NoCode \in CodeRow /\ [NoCode EXCEPT !.state = "gone"] \in CodeRow
      /\ \A b \in BOOLEAN : [NoCode EXCEPT !.state = "sent", !.real = b] \in CodeRow
  BY DEF NoCode, CodeRow
<1>t. /\ NoToken \in TokenRow /\ [NoToken EXCEPT !.state = "gone"] \in TokenRow
      /\ \A r \in TokenRow : [r EXCEPT !.state = "revoked"] \in TokenRow
      /\ \A n \in Nat : [state |-> "live", login |-> n] \in TokenRow
  BY DEF NoToken, TokenRow
<1>g. \A t \in Tokens : Gone(t) \in TokenRow
  BY <1>t DEF Gone
<1>k. ASSUME UNCHANGED <<guesses, granted>> PROVE guesses' \in [Codes -> Nat] /\ granted' \in [Codes -> Nat]
  BY <1>0, <1>k
<1>m. ASSUME UNCHANGED <<logins, wiped>> PROVE logins' \in Nat /\ wiped' \in 0..logins'
  BY <1>l, <1>m
<1>w. ASSUME DeleteUserRefreshTokens, UNCHANGED logins
      PROVE  token' \in [Tokens -> TokenRow] /\ logins' \in Nat /\ wiped' \in 0..logins'
  <2>1. token' \in [Tokens -> TokenRow]
    BY <1>g, <1>w DEF DeleteUserRefreshTokens
  <2>2. wiped' = logins /\ logins' = logins
    BY <1>w DEF DeleteUserRefreshTokens
  <2>3. QED
    BY <1>l, <2>1, <2>2
<1>1. CASE TimePasses
  <2>1. CASE CleanExpiredOTPs
    <3>1. /\ code' = [i \in Codes |-> IF code[i].state = "none" THEN NoCode ELSE [NoCode EXCEPT !.state = "gone"]]
          /\ UNCHANGED <<guesses, granted, token, logins, wiped>>
      BY <2>1 DEF CleanExpiredOTPs, TokenVars
    <3>2. code' \in [Codes -> CodeRow]
      BY <1>n, <3>1
    <3>3. QED
      BY <1>0, <1>k, <1>m, <3>1, <3>2
  <2>2. CASE SetSignupMode
    BY <1>0, <1>k, <1>m, <2>2 DEF SetSignupMode, CodeVars, TokenVars
  <2>3. ASSUME NEW t \in Tokens, CleanExpiredRefreshTokens(t) PROVE Goal
    <3>1. /\ token' = [token EXCEPT ![t] = Gone(t)] /\ UNCHANGED <<code, guesses, granted, logins, wiped>>
      BY <2>3 DEF CleanExpiredRefreshTokens, CodeVars
    <3>2. token' \in [Tokens -> TokenRow]
      BY <1>0, <1>g, <3>1
    <3>3. QED
      BY <1>0, <1>k, <1>m, <3>1, <3>2
  <2>4. QED
    BY <1>1, <2>1, <2>2, <2>3 DEF TimePasses
<1>2. ASSUME NEW d \in Clerks, ServeClerk(d) PROVE Goal
  <2>0. clerk[d] \in ClerkRow /\ clerk[d].match \in BOOLEAN /\ clerk[d].login \in Nat
    BY RowParts
  <2>1. CASE OTPSend(d)
    BY <1>0, <1>k, <1>m, <2>1 DEF OTPSend, CodeVars, TokenVars
  <2>2. CASE CreateOTPCode(d)
    <3>1. PICK i \in Codes : code' = [code EXCEPT ![i] = [NoCode EXCEPT !.state = "sent", !.real = clerk[d].match]]
      BY <2>2 DEF CreateOTPCode
    <3>2. code' \in [Codes -> CodeRow]
      BY <1>0, <1>n, <2>0, <3>1
    <3>3. QED
      BY <1>0, <1>k, <1>m, <2>2, <3>2 DEF CreateOTPCode, TokenVars
  <2>3. ASSUME NEW right \in BOOLEAN, OTPVerify(d, right) PROVE Goal
    <3>1. PICK i \in ValidOTPCodes : guesses' = [guesses EXCEPT ![i] = @ + 1]
      BY <2>3 DEF OTPVerify
    <3>2. guesses' \in [Codes -> Nat]
      BY <1>0, <3>1 DEF ValidOTPCodes
    <3>3. QED
      BY <1>0, <1>m, <2>3, <3>2 DEF OTPVerify, TokenVars
  <2>4. CASE IncrementOTPAttempts(d)
    <3>1. code' = code \/ code' = [code EXCEPT ![clerk[d].code].attempts = @ + 1]
      BY <2>4 DEF IncrementOTPAttempts, Increment
    <3>2. code' \in [Codes -> CodeRow]
      BY <1>0, <1>c, <3>1
    <3>3. QED
      BY <1>0, <1>k, <1>m, <2>4, <3>2 DEF IncrementOTPAttempts, TokenVars
  <2>5. CASE MarkOTPUsed(d)
    <3>1. code' = code \/ code' = [code EXCEPT ![clerk[d].code].state = IF @ = "sent" THEN "used" ELSE @]
      BY <2>5 DEF MarkOTPUsed, Used
    <3>2. code' \in [Codes -> CodeRow]
      BY <1>0, <1>c, <3>1
    <3>3. QED
      BY <1>0, <1>k, <1>m, <2>5, <3>2 DEF MarkOTPUsed, TokenVars
  <2>6. CASE Admit(d)
    <3>1. /\ UNCHANGED <<code, guesses, token, wiped>> /\ logins' \in {logins, logins + 1}
          /\ granted' = granted \/ granted' = [granted EXCEPT ![clerk[d].code] = @ + 1]
      BY <2>6 DEF Admit
    <3>2. granted' \in [Codes -> Nat]
      BY <1>0, <3>1
    <3>3. logins' \in Nat /\ wiped' \in 0..logins'
      BY <1>l, <3>1
    <3>4. QED
      BY <1>0, <3>1, <3>2, <3>3
  <2>7. CASE IssueSession(d)
    <3>1. token' = token \/ \E t \in Tokens : token' = [token EXCEPT ![t] = [state |-> "live", login |-> clerk[d].login]]
      BY <2>7 DEF IssueSession
    <3>2. token' \in [Tokens -> TokenRow]
      BY <1>0, <1>t, <2>0, <3>1
    <3>3. QED
      BY <1>0, <1>k, <1>m, <2>7, <3>2 DEF IssueSession, CodeVars
  <2>8. CASE WipeReused(d) \/ Logout(d)
    BY <1>0, <1>k, <1>w, <2>8 DEF WipeReused, Logout, CodeVars
  <2>9. ASSUME NEW t \in Tokens, Refresh(d, t) PROVE Goal
    <3>1. token' = [token EXCEPT ![t].state = "revoked"]
      BY <2>9 DEF Refresh
    <3>2. token' \in [Tokens -> TokenRow]
      BY <1>0, <1>t, <3>1
    <3>3. QED
      BY <1>0, <1>k, <1>m, <2>9, <3>2 DEF Refresh, CodeVars
  <2>10. QED
    BY <1>2, <2>1, <2>2, <2>3, <2>4, <2>5, <2>6, <2>7, <2>8, <2>9 DEF ServeClerk
<1>3. QED
  BY <1>1, <1>2

(* The types of signing in are kept. *)
LEMMA SignInKeepsTypes ==
  ASSUME SignInTyped, TimePasses \/ \E d \in Clerks : ServeClerk(d)
  PROVE  SignInTyped' /\ misses' \in {misses, misses + 1}
<1>1. /\ clerk \in [Clerks -> ClerkRow] /\ closed \in BOOLEAN /\ account \in BOOLEAN
      /\ misses \in 0..MaxSignInFaults /\ MaxSignInFaults \in Nat
      /\ \A d \in Clerks : Verifies(clerk[d]) => clerk[d].code \in Codes
  BY RowParts, SignInConstantsOK DEF SignInTyped, SignInTypeOK, SignInConstantsOK
<1>2. /\ clerk' \in [Clerks -> ClerkRow]
      /\ \A d \in Clerks : Verifies(clerk'[d]) => clerk'[d].code \in Codes
  <2>1. CASE TimePasses
    BY <1>1, <2>1 DEF TimePasses, CleanExpiredOTPs, SetSignupMode, CleanExpiredRefreshTokens
  <2>2. ASSUME NEW d \in Clerks, ServeClerk(d)
        PROVE  /\ clerk' \in [Clerks -> ClerkRow]
               /\ \A e \in Clerks : Verifies(clerk'[e]) => clerk'[e].code \in Codes
    <3>1. PICK row \in ClerkRow : /\ clerk' = [clerk EXCEPT ![d] = row]
                                  /\ Verifies(row) => row.code \in Codes
      BY <2>2, ClerkTurns
    <3>2. QED
      BY <1>1, <3>1
  <2>3. QED
    BY <2>1, <2>2
<1>3. closed' \in {closed, TRUE} /\ account' \in {account, TRUE}
  BY DEF TimePasses, CleanExpiredOTPs, SetSignupMode, CleanExpiredRefreshTokens,
     ServeClerk, OTPSend, CreateOTPCode, IncrementOTPAttempts, MarkOTPUsed, Admit, IssueSession,
     WipeReused, Logout, OTPVerify, Refresh
<1>4. misses' = misses \/ (misses < MaxSignInFaults /\ misses' = misses + 1)
  BY DEF TimePasses, CleanExpiredOTPs, SetSignupMode, CleanExpiredRefreshTokens,
     ServeClerk, OTPSend, CreateOTPCode, IncrementOTPAttempts, MarkOTPUsed, Admit, IssueSession,
     WipeReused, Logout, OTPVerify, Refresh, Runs, Fails
<1>5. closed' \in BOOLEAN /\ account' \in BOOLEAN
  BY <1>1, <1>3
<1>6. misses' \in 0..MaxSignInFaults
  BY <1>1, <1>4
<1>7. SignInTypeOK'
  BY <1>2, <1>5, <1>6, SignInRows
    DEF SignInTypeOK, ClerkRow, CodeRow, TokenRow, ClerkSteps, Codes, Tokens
<1>8. (\A d \in Clerks : Verifies(clerk[d]) => clerk[d].code \in Codes)'
  BY <1>2 DEF Verifies, Codes
<1>9. QED
  BY <1>4, <1>7, <1>8 DEF SignInTyped

-----------------------------------------------------------------------------
(* Guesses and logins of a code.  Who compared a code and did not count    *)
(* it yet, who is about to admit, and who has not finished with the code.  *)
Counting(i) == {d \in Clerks : clerk[d].at = "count" /\ clerk[d].code = i}
Admitting(i) == {d \in Clerks : clerk[d].at = "admit" /\ clerk[d].code = i}
Verifying(i) == {d \in Clerks : Verifies(clerk[d]) /\ clerk[d].code = i}

(* A code that may still be used was guessed as often as it is counted,    *)
(* but for the guesses on their way and the counts that were lost; it gave *)
(* a login only if its mark was lost; afterwards only those that compared  *)
(* it before can log in by it.                                             *)
CodeWell(i) ==
  /\ code[i].state = "none" => guesses[i] = 0 /\ granted[i] = 0 /\ Verifying(i) = {}
  /\ code[i].state \in {"sent", "used"} =>
       guesses[i] <= code[i].attempts + Cardinality(Counting(i)) + misses
  /\ guesses[i] <= MaxAttempts + Room - 1 + misses
  /\ code[i].state = "sent" => granted[i] + Cardinality(Admitting(i)) <= misses
  /\ code[i].state # "sent" => granted[i] + Cardinality(Verifying(i)) <= Room + misses

(* Sets of clerks are finite, and no larger than the requests under way.   *)
LEMMA ClerkSets ==
  ASSUME NEW i \in Codes, Cardinality(Busy) <= Room
  PROVE  /\ IsFiniteSet(Counting(i)) /\ IsFiniteSet(Admitting(i)) /\ IsFiniteSet(Verifying(i))
         /\ Cardinality(Counting(i)) \in Nat /\ Cardinality(Admitting(i)) \in Nat
         /\ Cardinality(Verifying(i)) \in Nat /\ Room \in Nat /\ Room >= 1
         /\ Cardinality(Counting(i)) <= Room /\ Cardinality(Verifying(i)) <= Room
         /\ Cardinality(Admitting(i)) <= Cardinality(Verifying(i))
<1>0. IsFiniteSet(Clerks) /\ Clerks # {}
  BY SignInConstantsOK DEF SignInConstantsOK
<1>1. IsFiniteSet(Busy) /\ Cardinality(Busy) \in Nat
  BY <1>0, FS_Subset, FS_CardinalityType DEF Busy
<1>2. Counting(i) \in SUBSET Busy /\ Verifying(i) \in SUBSET Busy /\ Admitting(i) \in SUBSET Verifying(i)
  BY DEF Counting, Verifying, Admitting, Busy, Verifies
<1>3. /\ IsFiniteSet(Counting(i)) /\ Cardinality(Counting(i)) <= Cardinality(Busy)
      /\ Cardinality(Counting(i)) \in Nat
  BY <1>1, <1>2, FS_Subset, FS_CardinalityType
<1>4. /\ IsFiniteSet(Verifying(i)) /\ Cardinality(Verifying(i)) <= Cardinality(Busy)
      /\ Cardinality(Verifying(i)) \in Nat
  BY <1>1, <1>2, FS_Subset, FS_CardinalityType
<1>5. /\ IsFiniteSet(Admitting(i)) /\ Cardinality(Admitting(i)) <= Cardinality(Verifying(i))
      /\ Cardinality(Admitting(i)) \in Nat
  BY <1>2, <1>4, FS_Subset, FS_CardinalityType
<1>6. Cardinality(Clerks) \in Nat /\ Cardinality(Clerks) # 0
  BY <1>0, FS_CardinalityType, FS_EmptySet
<1>7. Room \in Nat /\ Room >= 1
  <2>1. Room = 1 \/ Room = Cardinality(Clerks)
    BY DEF Room
  <2>2. QED
    BY <1>6, <2>1
<1>8. QED
  BY <1>1, <1>3, <1>4, <1>5, <1>7

(* A code that a step leaves alone, together with the requests about it.   *)
LEMMA CodeLeftAlone ==
  ASSUME NEW i \in Codes, SignInTyped, CodeWell(i), Cardinality(Busy) <= Room,
         misses' \in {misses, misses + 1}, Room' = Room,
         code'[i] = code[i], guesses'[i] = guesses[i], granted'[i] = granted[i],
         Counting(i)' = Counting(i), Admitting(i)' = Admitting(i), Verifying(i)' = Verifying(i)
  PROVE  CodeWell(i)'
<1>1. /\ code[i].attempts \in Nat /\ guesses[i] \in Nat /\ granted[i] \in Nat
      /\ misses \in Nat /\ MaxAttempts \in Nat
  BY RowParts, SignInConstantsOK DEF SignInTyped, SignInTypeOK, SignInConstantsOK
<1>2. misses' \in Nat /\ misses <= misses'
  BY <1>1
<1> DEFINE c == Cardinality(Counting(i))
           a == Cardinality(Admitting(i))
           v == Cardinality(Verifying(i))
<1>3. c \in Nat /\ a \in Nat /\ v \in Nat /\ Room \in Nat
  BY ClerkSets
<1>4. /\ code[i].state = "none" => guesses[i] = 0 /\ granted[i] = 0 /\ Verifying(i) = {}
      /\ code[i].state \in {"sent", "used"} => guesses[i] <= code[i].attempts + c + misses
      /\ guesses[i] <= MaxAttempts + Room - 1 + misses
      /\ code[i].state = "sent" => granted[i] + a <= misses
      /\ code[i].state # "sent" => granted[i] + v <= Room + misses
  BY DEF CodeWell
<1>5. c' = c /\ a' = a /\ v' = v
  OBVIOUS
<1> HIDE DEF c, a, v
<1>6. /\ code[i].state \in {"sent", "used"} => guesses[i] <= code[i].attempts + c + misses'
      /\ guesses[i] <= MaxAttempts + Room - 1 + misses'
      /\ code[i].state = "sent" => granted[i] + a <= misses'
      /\ code[i].state # "sent" => granted[i] + v <= Room + misses'
  BY <1>1, <1>2, <1>3, <1>4
<1>7. /\ code'[i].state = "none" => guesses'[i] = 0 /\ granted'[i] = 0 /\ Verifying(i)' = {}
      /\ code'[i].state \in {"sent", "used"} => guesses'[i] <= code'[i].attempts + c' + misses'
      /\ guesses'[i] <= MaxAttempts + Room' - 1 + misses'
      /\ code'[i].state = "sent" => granted'[i] + a' <= misses'
      /\ code'[i].state # "sent" => granted'[i] + v' <= Room' + misses'
  BY <1>4, <1>5, <1>6
<1>8. QED
  BY <1>7 DEF CodeWell, c, a, v

(* The requests about a code, when a clerk turns to row.                   *)
LEMMA ClerksAfter ==
  ASSUME SignInTyped, NEW d \in Clerks, NEW row \in ClerkRow, clerk' = [clerk EXCEPT ![d] = row],
         NEW i \in Codes
  PROVE  /\ Counting(i)' \ {d} = Counting(i) \ {d}
         /\ Admitting(i)' \ {d} = Admitting(i) \ {d}
         /\ Verifying(i)' \ {d} = Verifying(i) \ {d}
         /\ Busy' \ {d} = Busy \ {d}
         /\ d \in Counting(i)' <=> row.at = "count" /\ row.code = i
         /\ d \in Admitting(i)' <=> row.at = "admit" /\ row.code = i
         /\ d \in Verifying(i)' <=> Verifies(row) /\ row.code = i
         /\ d \in Busy' <=> row.at # "free"
<1>1. clerk'[d] = row /\ \A e \in Clerks \ {d} : clerk'[e] = clerk[e]
  BY RowParts
<1>2. QED
  BY <1>1 DEF Counting, Admitting, Verifying, Busy, Verifies

(* A code that is not the one a clerk's request is or was about.           *)
LEMMA OtherCode ==
  ASSUME SignInTyped, NEW d \in Clerks, NEW row \in ClerkRow, clerk' = [clerk EXCEPT ![d] = row],
         NEW i \in Codes, CodeWell(i), Cardinality(Busy) <= Room, Room' = Room,
         misses' \in {misses, misses + 1},
         code'[i] = code[i], guesses'[i] = guesses[i], granted'[i] = granted[i],
         Verifies(clerk[d]) => clerk[d].code # i, Verifies(row) => row.code # i
  PROVE  CodeWell(i)'
<1>1. /\ d \notin Counting(i) /\ d \notin Admitting(i) /\ d \notin Verifying(i)
  BY DEF Counting, Admitting, Verifying, Verifies
<1>2. /\ d \notin Counting(i)' /\ d \notin Admitting(i)' /\ d \notin Verifying(i)'
  BY ClerksAfter DEF Verifies
<1>s. /\ Counting(i)' \ {d} = Counting(i) \ {d}
      /\ Admitting(i)' \ {d} = Admitting(i) \ {d}
      /\ Verifying(i)' \ {d} = Verifying(i) \ {d}
  BY ClerksAfter
<1>3. Counting(i)' = Counting(i) /\ Admitting(i)' = Admitting(i) /\ Verifying(i)' = Verifying(i)
  <2>1. Counting(i)' = Counting(i)
    BY <1>1, <1>2, <1>s
  <2>2. Admitting(i)' = Admitting(i)
    BY <1>1, <1>2, <1>s
  <2>3. Verifying(i)' = Verifying(i)
    BY <1>1, <1>2, <1>s
  <2>4. QED
    BY <2>1, <2>2, <2>3
<1>4. QED
  BY <1>3, CodeLeftAlone

(* The numbers a code's bounds are about.                                  *)
LEMMA CodeNumbers ==
  ASSUME SignInTyped, NEW i \in Codes, Cardinality(Busy) <= Room
  PROVE  /\ code[i].attempts \in Nat /\ guesses[i] \in Nat /\ granted[i] \in Nat
         /\ misses \in Nat /\ MaxAttempts \in Nat /\ Room \in Nat
         /\ Cardinality(Counting(i)) \in Nat /\ Cardinality(Admitting(i)) \in Nat
         /\ Cardinality(Verifying(i)) \in Nat /\ Cardinality(Verifying(i)) <= Room
  BY ClerkSets, RowParts, SignInConstantsOK DEF SignInTyped, SignInTypeOK, SignInConstantsOK

(* A code whose requests change by one, when a clerk turns to row.         *)
LEMMA CountsAfter ==
  ASSUME SignInTyped, NEW d \in Clerks, NEW row \in ClerkRow, clerk' = [clerk EXCEPT ![d] = row],
         NEW i \in Codes, clerk[d].code = i \/ clerk[d].at = "free", Cardinality(Busy) <= Room,
         row.code = i \/ ~ Verifies(row)
  PROVE  /\ Cardinality(Counting(i))' = Cardinality(Counting(i))
              + (IF row.at = "count" THEN 1 ELSE 0) - (IF clerk[d].at = "count" THEN 1 ELSE 0)
         /\ Cardinality(Admitting(i))' = Cardinality(Admitting(i))
              + (IF row.at = "admit" THEN 1 ELSE 0) - (IF clerk[d].at = "admit" THEN 1 ELSE 0)
         /\ Cardinality(Verifying(i))' = Cardinality(Verifying(i))
              + (IF Verifies(row) THEN 1 ELSE 0) - (IF Verifies(clerk[d]) THEN 1 ELSE 0)
<1>1. /\ d \in Counting(i) <=> clerk[d].at = "count"
      /\ d \in Admitting(i) <=> clerk[d].at = "admit"
      /\ d \in Verifying(i) <=> Verifies(clerk[d])
  BY DEF Counting, Admitting, Verifying, Verifies
<1>2. /\ d \in Counting(i)' <=> row.at = "count"
      /\ d \in Admitting(i)' <=> row.at = "admit"
      /\ d \in Verifying(i)' <=> Verifies(row)
  BY ClerksAfter DEF Verifies
<1>3. /\ Counting(i)' \ {d} = Counting(i) \ {d}
      /\ Admitting(i)' \ {d} = Admitting(i) \ {d}
      /\ Verifying(i)' \ {d} = Verifying(i) \ {d}
  BY ClerksAfter
<1>4. IsFiniteSet(Counting(i)) /\ IsFiniteSet(Admitting(i)) /\ IsFiniteSet(Verifying(i))
  BY ClerkSets
<1>c. Cardinality(Counting(i))' = Cardinality(Counting(i))
         + (IF row.at = "count" THEN 1 ELSE 0) - (IF clerk[d].at = "count" THEN 1 ELSE 0)
  BY <1>1, <1>2, <1>3, <1>4, OneElement
<1>a. Cardinality(Admitting(i))' = Cardinality(Admitting(i))
         + (IF row.at = "admit" THEN 1 ELSE 0) - (IF clerk[d].at = "admit" THEN 1 ELSE 0)
  BY <1>1, <1>2, <1>3, <1>4, OneElement
<1>v. Cardinality(Verifying(i))' = Cardinality(Verifying(i))
         + (IF Verifies(row) THEN 1 ELSE 0) - (IF Verifies(clerk[d]) THEN 1 ELSE 0)
  <2> DEFINE S == Verifying(i)
             T == Verifying(i)'
  <2>1. T \ {d} = S \ {d} /\ IsFiniteSet(S)
    BY <1>3, <1>4
  <2>2. /\ Cardinality(S) \in Nat /\ Cardinality(T) \in Nat
        /\ (d \in S <=> d \in T) => Cardinality(T) = Cardinality(S)
        /\ d \notin S /\ d \in T => Cardinality(T) = Cardinality(S) + 1
        /\ d \in S /\ d \notin T => Cardinality(S) = Cardinality(T) + 1
    BY <2>1, OneElement
  <2>3. (d \in S <=> Verifies(clerk[d])) /\ (d \in T <=> Verifies(row))
    BY <1>1, <1>2
  <2> HIDE DEF S, T
  <2>4. Cardinality(T) = Cardinality(S)
          + (IF Verifies(row) THEN 1 ELSE 0) - (IF Verifies(clerk[d]) THEN 1 ELSE 0)
    BY <2>2, <2>3
  <2>5. QED
    BY <2>4 DEF S, T
<1>5. QED
  BY <1>c, <1>a, <1>v

(* No more clerks compare a code than requests are under way.              *)
LEMMA CountingFits ==
  ASSUME NEW i \in Codes, Cardinality(Busy)' <= Room', Room' \in Nat
  PROVE  Cardinality(Counting(i))' <= Room'
<1>1. IsFiniteSet(Busy') /\ Counting(i)' \in SUBSET Busy'
  <2>1. IsFiniteSet(Clerks) /\ Busy' \in SUBSET Clerks
    BY SignInConstantsOK DEF SignInConstantsOK, Busy
  <2>2. Counting(i)' \in SUBSET Busy'
    BY DEF Counting, Busy
  <2>3. QED
    BY <2>1, <2>2, FS_Subset
<1>2. /\ Cardinality(Busy') \in Nat /\ Cardinality(Counting(i)') \in Nat
      /\ Cardinality(Counting(i)') <= Cardinality(Busy')
  BY <1>1, FS_Subset, FS_CardinalityType
<1>3. QED
  BY <1>2

(* What a code's bounds ask of the numbers after a step.                   *)
LEMMA NumbersSuffice ==
  ASSUME NEW i \in Codes, NEW state, NEW m \in Nat, NEW att \in Nat, NEW g \in Nat, NEW gr \in Nat,
         NEW c \in Nat, NEW a \in Nat, NEW v \in Nat, NEW r \in Nat,
         code'[i].state = state, code'[i].attempts = att, guesses'[i] = g, granted'[i] = gr,
         Cardinality(Counting(i))' = c, Cardinality(Admitting(i))' = a,
         Cardinality(Verifying(i))' = v, misses' = m, Room' = r, state # "none",
         state \in {"sent", "used"} => g <= att + c + m,
         g <= MaxAttempts + r - 1 + m,
         state = "sent" => gr + a <= m,
         state # "sent" => gr + v <= r + m
  PROVE  CodeWell(i)'
  BY DEF CodeWell

(* A clerk that is free is about no code. *)
LEMMA FreeRow == Free \in ClerkRow /\ Free.at = "free" /\ ~ Verifies(Free)
<1>1. 0 \in 0..MaxCodes
  BY SignInConstantsOK DEF SignInConstantsOK
<1>2. QED
  BY <1>1 DEF Free, ClerkRow, ClerkSteps, Verifies

(* A code is made. *)
LEMMA CreationKeeps ==
  ASSUME SignInTyped, \A i \in Codes : CodeWell(i), Cardinality(Busy) <= Room, focus' = focus,
         NEW d \in Clerks, CreateOTPCode(d)
  PROVE  \A i \in Codes : CodeWell(i)'
<1>1. PICK j \in Codes :
        /\ code[j].state = "none"
        /\ code' = [code EXCEPT ![j] = [NoCode EXCEPT !.state = "sent", !.real = clerk[d].match]]
  BY DEF CreateOTPCode
<1>2. /\ clerk' = [clerk EXCEPT ![d] = Free] /\ clerk[d].at = "send" /\ misses' = misses
      /\ guesses' = guesses /\ granted' = granted /\ Free \in ClerkRow /\ Free.at = "free"
      /\ Room' = Room
  BY FreeRow DEF CreateOTPCode, Moves, At, Runs, Room
<1>3. misses' \in {misses, misses + 1} /\ ~ Verifies(clerk[d]) /\ ~ Verifies(Free)
  BY <1>2 DEF Verifies
<1> SUFFICES ASSUME NEW i \in Codes PROVE CodeWell(i)'
  OBVIOUS
<1>4. CASE i # j
  <2>1. code'[i] = code[i]
    BY <1>1, <1>4, RowParts
  <2>2. QED
    BY <1>2, <1>3, <2>1, OtherCode
<1>5. CASE i = j
  <2>1. code'[i].state = "sent" /\ code'[i].attempts = 0
    BY <1>1, <1>5, RowParts DEF NoCode
  <2>2. guesses[i] = 0 /\ granted[i] = 0 /\ Verifying(i) = {} /\ guesses[i] <= MaxAttempts + Room - 1 + misses
    BY <1>1, <1>5 DEF CodeWell
  <2>3. d \notin Verifying(i)' /\ d \notin Verifying(i) /\ Verifying(i)' \ {d} = Verifying(i) \ {d}
    BY <1>2, <1>3, ClerksAfter DEF Verifying
  <2>4. Verifying(i)' = {}
    BY <2>2, <2>3
  <2>5. Counting(i)' = {} /\ Admitting(i)' = {}
    BY <2>4 DEF Verifying, Counting, Admitting, Verifies
  <2>6. Cardinality(Counting(i))' = 0 /\ Cardinality(Admitting(i))' = 0 /\ Cardinality(Verifying(i))' = 0
    BY <2>4, <2>5, FS_EmptySet
  <2>7. misses \in Nat /\ Room \in Nat
    BY CodeNumbers
  <2>8. /\ 0 <= 0 + 0 + misses /\ 0 + 0 <= misses /\ 0 \in Nat
    BY <2>7
  <2>9. /\ guesses'[i] = 0 /\ granted'[i] = 0 /\ 0 <= MaxAttempts + Room - 1 + misses
    BY <1>2, <2>2
  <2>10. QED
    BY <1>2, <2>1, <2>6, <2>7, <2>8, <2>9, NumbersSuffice
<1>6. QED
  BY <1>4, <1>5

(* A code is compared with what a request brings.                          *)
LEMMA GuessKeeps ==
  ASSUME SignInTyped, \A i \in Codes : CodeWell(i), Cardinality(Busy) <= Room, focus' = focus,
         Cardinality(Busy)' <= Room',
         NEW d \in Clerks, NEW right \in BOOLEAN, OTPVerify(d, right)
  PROVE  \A i \in Codes : CodeWell(i)'
<1>1. PICK j \in ValidOTPCodes :
        /\ guesses' = [guesses EXCEPT ![j] = @ + 1]
        /\ clerk' = [clerk EXCEPT ![d] = [Free EXCEPT !.at = "count", !.code = j, !.match = right /\ code[j].real]]
  BY DEF OTPVerify, Moves
<1> DEFINE row == [Free EXCEPT !.at = "count", !.code = j, !.match = right /\ code[j].real]
<1>j. /\ j \in Codes /\ code[j].state = "sent" /\ code[j].attempts < MaxAttempts
  BY DEF ValidOTPCodes
<1>m. (right /\ code[j].real) \in BOOLEAN /\ j \in 0..MaxCodes
  BY <1>j, RowParts DEF Codes
<1>r. row \in ClerkRow /\ row.at = "count" /\ row.code = j /\ Verifies(row)
  BY <1>m, ClerkRows, RowParts DEF Free, Verifies
<1>2. /\ clerk[d].at = "free" /\ misses' = misses /\ code' = code /\ granted' = granted /\ Room' = Room
      /\ ~ Verifies(clerk[d]) /\ clerk' = [clerk EXCEPT ![d] = row]
  BY <1>1, SignInConstantsOK DEF OTPVerify, At, Runs, Room, Verifies
<1> HIDE DEF row
<1>3. misses' \in {misses, misses + 1}
  BY <1>2
<1> SUFFICES ASSUME NEW i \in Codes PROVE CodeWell(i)'
  OBVIOUS
<1>4. CASE i # j
  <2>1. guesses'[i] = guesses[i] /\ row.code # i
    BY <1>1, <1>4, <1>r, RowParts
  <2>2. QED
    BY <1>2, <1>3, <1>r, <2>1, OtherCode
<1>5. CASE i = j
  <2> DEFINE c == Cardinality(Counting(i))
             a == Cardinality(Admitting(i))
             v == Cardinality(Verifying(i))
  <2>1. guesses'[i] = guesses[i] + 1 /\ code[i].state = "sent" /\ code[i].attempts < MaxAttempts
    BY <1>1, <1>j, <1>5, RowParts
  <2>2. guesses[i] <= code[i].attempts + c + misses /\ granted[i] + a <= misses
    BY <2>1 DEF CodeWell
  <2>3. c' = c + 1 - 0 /\ a' = a + 0 - 0 /\ v' = v + 1 - 0
    BY <1>2, <1>r, <1>5, CountsAfter
  <2>4. /\ code[i].attempts \in Nat /\ guesses[i] \in Nat /\ granted[i] \in Nat
        /\ misses \in Nat /\ MaxAttempts \in Nat /\ Room \in Nat /\ c \in Nat /\ a \in Nat /\ v \in Nat
    BY CodeNumbers
  <2>5. c' <= Room
    BY <1>2, <2>4, CountingFits
  <2>6. /\ code'[i].state = "sent" /\ code'[i].attempts = code[i].attempts /\ granted'[i] = granted[i]
        /\ misses' = misses /\ Room' = Room
    BY <1>2, <2>1
  <2>7. c' = c + 1 /\ a' = a /\ v' = v + 1
    BY <2>3, <2>4
  <2>8. /\ guesses[i] + 1 <= code[i].attempts + c' + misses
        /\ guesses[i] + 1 <= MaxAttempts + Room - 1 + misses
        /\ granted[i] + a' <= misses
        /\ c' \in Nat /\ a' \in Nat /\ v' \in Nat /\ guesses[i] + 1 \in Nat
    <3> HIDE DEF c, a, v
    <3>1. c + 1 <= Room
      BY <2>5, <2>7
    <3>2. QED
      BY <2>1, <2>2, <2>4, <2>7, <3>1
  <2>9. QED
    BY <2>1, <2>4, <2>6, <2>8, NumbersSuffice
<1>6. QED
  BY <1>4, <1>5

(* An attempt is counted, or the count is lost.                            *)
LEMMA CountKeeps ==
  ASSUME SignInTyped, \A i \in Codes : CodeWell(i), Cardinality(Busy) <= Room, focus' = focus,
         NEW d \in Clerks, IncrementOTPAttempts(d)
  PROVE  \A i \in Codes : CodeWell(i)'
<1> DEFINE row == IF clerk[d].match THEN [clerk[d] EXCEPT !.at = "mark"] ELSE Free
           j == clerk[d].code
<1>r. /\ row \in ClerkRow /\ row.at # "count" /\ row.at # "admit"
      /\ row.code = j \/ ~ Verifies(row)
  <2>1. clerk[d] \in ClerkRow /\ Free \in ClerkRow /\ [clerk[d] EXCEPT !.at = "mark"] \in ClerkRow
    BY RowParts, ClerkRows, SignInConstantsOK DEF SignInConstantsOK
  <2>2. [clerk[d] EXCEPT !.at = "mark"].at = "mark" /\ [clerk[d] EXCEPT !.at = "mark"].code = j
    BY <2>1 DEF ClerkRow
  <2>3. QED
    BY <2>1, <2>2 DEF Free, Verifies
<1>1. /\ clerk[d].at = "count" /\ clerk' = [clerk EXCEPT ![d] = row]
      /\ \/ misses' = misses /\ code' = [code EXCEPT ![j].attempts = @ + 1]
         \/ misses' = misses + 1 /\ code' = code
      /\ guesses' = guesses /\ granted' = granted /\ Room' = Room
  BY DEF IncrementOTPAttempts, Counted, Moves, At, Runs, Fails, Increment, Room
<1>2. j \in Codes /\ Verifies(clerk[d]) /\ misses' \in {misses, misses + 1}
  BY <1>1 DEF SignInTyped, Verifies
<1> HIDE DEF row
<1> SUFFICES ASSUME NEW i \in Codes PROVE CodeWell(i)'
  OBVIOUS
<1>4. CASE i # j
  <2>1. code'[i] = code[i] /\ guesses'[i] = guesses[i] /\ granted'[i] = granted[i]
    BY <1>1, <1>4, RowParts
  <2>2. QED
    BY <1>1, <1>2, <1>r, <1>4, <2>1, OtherCode
<1>5. CASE i = j
  <2> DEFINE c == Cardinality(Counting(i))
             a == Cardinality(Admitting(i))
             v == Cardinality(Verifying(i))
             w == IF Verifies(row) THEN 1 ELSE 0
  <2>1. d \in Verifying(i)
    BY <1>2, <1>5 DEF Verifying
  <2>2. /\ code[i].state # "none"
        /\ code[i].state \in {"sent", "used"} => guesses[i] <= code[i].attempts + c + misses
        /\ guesses[i] <= MaxAttempts + Room - 1 + misses
        /\ code[i].state = "sent" => granted[i] + a <= misses
        /\ code[i].state # "sent" => granted[i] + v <= Room + misses
    BY <2>1 DEF CodeWell
  <2>3. c' = c + 0 - 1 /\ a' = a + 0 - 0 /\ v' = v + w - 1
    BY <1>1, <1>2, <1>r, <1>5, CountsAfter
  <2>4. /\ code[i].attempts \in Nat /\ guesses[i] \in Nat /\ granted[i] \in Nat
        /\ misses \in Nat /\ MaxAttempts \in Nat /\ Room \in Nat /\ c \in Nat /\ a \in Nat /\ v \in Nat
    BY CodeNumbers
  <2>5. c' \in Nat /\ v' \in Nat
    <3>1. /\ IsFiniteSet(Counting(i)) /\ Counting(i)' \ {d} = Counting(i) \ {d}
          /\ IsFiniteSet(Verifying(i)) /\ Verifying(i)' \ {d} = Verifying(i) \ {d}
      BY <1>1, <1>r, ClerkSets, ClerksAfter
    <3>2. QED
      BY <3>1, OneElement
  <2>6. code'[i].state = code[i].state /\ guesses'[i] = guesses[i] /\ granted'[i] = granted[i] /\ Room' = Room
    BY <1>1, <1>2, <1>5, RowParts DEF CodeRow
  <2>7. \/ misses' = misses /\ code'[i].attempts = code[i].attempts + 1
        \/ misses' = misses + 1 /\ code'[i].attempts = code[i].attempts
    BY <1>1, <1>2, <1>5, RowParts DEF CodeRow
  <2>8. c' = c - 1 /\ a' = a /\ v' <= v
    <3>1. w \in {0, 1}
      OBVIOUS
    <3> HIDE DEF w
    <3>2. QED
      BY <2>3, <2>4, <3>1
  <2> HIDE DEF c, a, v, w
  <2>9. /\ code[i].state \in {"sent", "used"} => guesses[i] <= code'[i].attempts + c' + misses'
        /\ guesses[i] <= MaxAttempts + Room - 1 + misses'
        /\ code[i].state = "sent" => granted[i] + a' <= misses'
        /\ code[i].state # "sent" => granted[i] + v' <= Room + misses'
        /\ code'[i].attempts \in Nat /\ misses' \in Nat /\ a' \in Nat
    BY <2>2, <2>4, <2>5, <2>7, <2>8
  <2>10. QED
    BY <2>2, <2>4, <2>5, <2>6, <2>9, NumbersSuffice DEF c, a, v
<1>6. QED
  BY <1>4, <1>5

(* A code is marked as used, or the mark is lost.                          *)
LEMMA MarkKeeps ==
  ASSUME SignInTyped, \A i \in Codes : CodeWell(i), Cardinality(Busy) <= Room, focus' = focus,
         NEW d \in Clerks, MarkOTPUsed(d)
  PROVE  \A i \in Codes : CodeWell(i)'
<1> DEFINE row == [clerk[d] EXCEPT !.at = "admit"]
           j == clerk[d].code
<1>r. row \in ClerkRow /\ row.at = "admit" /\ row.code = j /\ Verifies(row)
  <2>1. clerk[d] \in ClerkRow /\ row \in ClerkRow
    BY RowParts, ClerkRows, SignInConstantsOK DEF SignInConstantsOK
  <2>2. QED
    BY <2>1 DEF ClerkRow, Verifies
<1>1. /\ clerk[d].at = "mark" /\ clerk' = [clerk EXCEPT ![d] = row]
      /\ \/ misses' = misses /\ code' = [code EXCEPT ![j].state = IF @ = "sent" THEN "used" ELSE @]
         \/ misses' = misses + 1 /\ code' = code
      /\ guesses' = guesses /\ granted' = granted /\ Room' = Room
  BY DEF MarkOTPUsed, Moves, At, Runs, Fails, Used, Room
<1>2. j \in Codes /\ Verifies(clerk[d]) /\ misses' \in {misses, misses + 1}
  BY <1>1 DEF SignInTyped, Verifies
<1> HIDE DEF row
<1> SUFFICES ASSUME NEW i \in Codes PROVE CodeWell(i)'
  OBVIOUS
<1>4. CASE i # j
  <2>1. code'[i] = code[i] /\ guesses'[i] = guesses[i] /\ granted'[i] = granted[i]
    BY <1>1, <1>4, RowParts
  <2>2. QED
    BY <1>1, <1>2, <1>r, <1>4, <2>1, OtherCode
<1>5. CASE i = j
  <2> DEFINE c == Cardinality(Counting(i))
             a == Cardinality(Admitting(i))
             v == Cardinality(Verifying(i))
  <2>1. d \in Verifying(i)
    BY <1>2, <1>5 DEF Verifying
  <2>2. /\ code[i].state # "none"
        /\ code[i].state \in {"sent", "used"} => guesses[i] <= code[i].attempts + c + misses
        /\ guesses[i] <= MaxAttempts + Room - 1 + misses
        /\ code[i].state = "sent" => granted[i] + a <= misses
        /\ code[i].state # "sent" => granted[i] + v <= Room + misses
    BY <2>1 DEF CodeWell
  <2>3. c' = c + 0 - 0 /\ a' = a + 1 - 0 /\ v' = v + 1 - 1
    BY <1>1, <1>2, <1>r, <1>5, CountsAfter
  <2>4. /\ code[i].attempts \in Nat /\ guesses[i] \in Nat /\ granted[i] \in Nat
        /\ misses \in Nat /\ MaxAttempts \in Nat /\ Room \in Nat /\ c \in Nat /\ a \in Nat /\ v \in Nat
        /\ v <= Room
    BY CodeNumbers
  <2>6. /\ code'[i].attempts = code[i].attempts /\ guesses'[i] = guesses[i]
        /\ granted'[i] = granted[i] /\ Room' = Room
    BY <1>1, <1>2, <1>5, RowParts DEF CodeRow
  <2>7. \/ misses' = misses /\ code'[i].state = IF code[i].state = "sent" THEN "used" ELSE code[i].state
        \/ misses' = misses + 1 /\ code'[i].state = code[i].state
    BY <1>1, <1>2, <1>5, RowParts DEF CodeRow
  <2> HIDE DEF c, a, v
  <2>8. c' = c /\ a' = a + 1 /\ v' = v
    BY <2>3, <2>4
  <2>9. /\ c' \in Nat /\ a' \in Nat /\ v' \in Nat /\ misses' \in Nat /\ code'[i].state # "none"
        /\ code'[i].state \in {"sent", "used"} => code[i].state \in {"sent", "used"}
        /\ guesses[i] <= MaxAttempts + Room - 1 + misses'
    BY <2>2, <2>4, <2>7, <2>8
  <2>10. code'[i].state \in {"sent", "used"} => guesses[i] <= code[i].attempts + c' + misses'
    BY <2>2, <2>4, <2>7, <2>8, <2>9
  <2>11. code'[i].state = "sent" => granted[i] + a' <= misses'
    BY <2>2, <2>4, <2>7, <2>8
  <2>12. code'[i].state # "sent" => granted[i] + v' <= Room + misses'
    BY <2>2, <2>4, <2>7, <2>8
  <2>13. QED
    BY <2>4, <2>6, <2>9, <2>10, <2>11, <2>12, NumbersSuffice DEF c, a, v
<1>6. QED
  BY <1>4, <1>5

(* The bearer of a code is let in, or turned away.                         *)
LEMMA AdmissionKeeps ==
  ASSUME SignInTyped, \A i \in Codes : CodeWell(i), Cardinality(Busy) <= Room, focus' = focus,
         NEW d \in Clerks, Admit(d)
  PROVE  \A i \in Codes : CodeWell(i)'
<1> DEFINE j == clerk[d].code
<1>r. /\ [Free EXCEPT !.at = "issue", !.login = logins + 1] \in ClerkRow
      /\ [Free EXCEPT !.at = "issue", !.login = logins + 1].at = "issue"
  <2>1. logins + 1 \in Nat /\ clerk[d] \in ClerkRow /\ clerk[d].code \in 0..MaxCodes
    BY RowParts DEF SignInTyped, SignInTypeOK
  <2>2. [Free EXCEPT !.at = "issue", !.login = logins + 1] \in ClerkRow
    BY <2>1, ClerkRows
  <2>3. QED
    BY <2>2 DEF Free
<1>1. PICK row \in ClerkRow :
        /\ clerk[d].at = "admit" /\ clerk' = [clerk EXCEPT ![d] = row] /\ ~ Verifies(row)
        /\ granted' = granted \/ granted' = [granted EXCEPT ![j] = @ + 1]
        /\ code' = code /\ guesses' = guesses /\ misses' = misses /\ Room' = Room
  BY <1>r, FreeRow DEF Admit, Moves, At, Runs, Room, Verifies
<1>2. /\ j \in Codes /\ Verifies(clerk[d]) /\ misses' \in {misses, misses + 1}
      /\ row.at # "count" /\ row.at # "admit"
  BY <1>1 DEF SignInTyped, Verifies
<1> SUFFICES ASSUME NEW i \in Codes PROVE CodeWell(i)'
  OBVIOUS
<1>4. CASE i # j
  <2>1. code'[i] = code[i] /\ guesses'[i] = guesses[i] /\ granted'[i] = granted[i]
    BY <1>1, <1>4, RowParts
  <2>2. QED
    BY <1>1, <1>2, <1>4, <2>1, OtherCode
<1>5. CASE i = j
  <2> DEFINE c == Cardinality(Counting(i))
             a == Cardinality(Admitting(i))
             v == Cardinality(Verifying(i))
  <2>1. d \in Verifying(i)
    BY <1>2, <1>5 DEF Verifying
  <2>2. /\ code[i].state # "none"
        /\ code[i].state \in {"sent", "used"} => guesses[i] <= code[i].attempts + c + misses
        /\ guesses[i] <= MaxAttempts + Room - 1 + misses
        /\ code[i].state = "sent" => granted[i] + a <= misses
        /\ code[i].state # "sent" => granted[i] + v <= Room + misses
    BY <2>1 DEF CodeWell
  <2>3. c' = c + 0 - 0 /\ a' = a + 0 - 1 /\ v' = v + 0 - 1
    BY <1>1, <1>2, <1>5, CountsAfter
  <2>4. /\ code[i].attempts \in Nat /\ guesses[i] \in Nat /\ granted[i] \in Nat
        /\ misses \in Nat /\ MaxAttempts \in Nat /\ Room \in Nat /\ c \in Nat /\ a \in Nat /\ v \in Nat
    BY CodeNumbers
  <2>5. a' \in Nat /\ v' \in Nat
    <3>1. /\ IsFiniteSet(Admitting(i)) /\ Admitting(i)' \ {d} = Admitting(i) \ {d}
          /\ IsFiniteSet(Verifying(i)) /\ Verifying(i)' \ {d} = Verifying(i) \ {d}
      BY <1>1, ClerkSets, ClerksAfter
    <3>2. QED
      BY <3>1, OneElement
  <2>6. /\ code'[i].state = code[i].state /\ code'[i].attempts = code[i].attempts
        /\ guesses'[i] = guesses[i] /\ misses' = misses /\ Room' = Room
    BY <1>1
  <2>7. granted'[i] \in {granted[i], granted[i] + 1}
    BY <1>1, <1>2, <1>5, RowParts
  <2> HIDE DEF c, a, v
  <2>8. c' = c /\ a' = a - 1 /\ v' = v - 1
    BY <2>3, <2>4
  <2>9. /\ c' \in Nat /\ granted'[i] \in Nat
        /\ code[i].state = "sent" => granted'[i] + a' <= misses
        /\ code[i].state # "sent" => granted'[i] + v' <= Room + misses
    BY <2>2, <2>4, <2>5, <2>7, <2>8
  <2>10. QED
    BY <2>2, <2>4, <2>5, <2>6, <2>8, <2>9, NumbersSuffice DEF c, a, v
<1>6. QED
  BY <1>4, <1>5

(* The codes of a window expire. *)
LEMMA ExpiryKeeps ==
  ASSUME SignInTyped, \A i \in Codes : CodeWell(i), Cardinality(Busy) <= Room, focus' = focus,
         CleanExpiredOTPs
  PROVE  \A i \in Codes : CodeWell(i)'
<1>1. /\ code' = [i \in Codes |-> IF code[i].state = "none" THEN NoCode ELSE [NoCode EXCEPT !.state = "gone"]]
      /\ UNCHANGED <<guesses, granted, clerk, misses>> /\ Room' = Room
  BY DEF CleanExpiredOTPs, Runs, Room
<1> SUFFICES ASSUME NEW i \in Codes PROVE CodeWell(i)'
  OBVIOUS
<1> DEFINE v == Cardinality(Verifying(i))
           a == Cardinality(Admitting(i))
<1>2. /\ Counting(i)' = Counting(i) /\ Admitting(i)' = Admitting(i) /\ Verifying(i)' = Verifying(i)
  BY <1>1 DEF Counting, Admitting, Verifying, Verifies
<1>3. /\ guesses[i] \in Nat /\ granted[i] \in Nat /\ misses \in Nat /\ MaxAttempts \in Nat
      /\ Room \in Nat /\ Cardinality(Counting(i)) \in Nat /\ a \in Nat /\ v \in Nat /\ v <= Room
  BY CodeNumbers
<1>4. /\ guesses[i] <= MaxAttempts + Room - 1 + misses
      /\ code[i].state = "sent" => granted[i] + a <= misses
      /\ code[i].state # "sent" => granted[i] + v <= Room + misses
  BY DEF CodeWell
<1>5. granted[i] + v <= Room + misses
  <2> HIDE DEF v, a
  <2>1. QED
    BY <1>3, <1>4
<1>6. CASE code[i].state = "none"
  <2>1. code'[i].state = "none" /\ guesses[i] = 0 /\ granted[i] = 0 /\ Verifying(i) = {}
    BY <1>1, <1>6 DEF NoCode, CodeWell
  <2>2. QED
    BY <1>1, <1>2, <1>4, <1>5, <2>1 DEF CodeWell
<1>7. CASE code[i].state # "none"
  <2>1. code'[i].state = "gone"
    BY <1>1, <1>7 DEF NoCode
  <2>2. QED
    BY <1>1, <1>2, <1>4, <1>5, <2>1 DEF CodeWell
<1>8. QED
  BY <1>6, <1>7

(* Sending, sessions and the clean-up of tokens are not about codes.       *)
LEMMA SessionsKeepCodes ==
  ASSUME SignInTyped, \A i \in Codes : CodeWell(i), Cardinality(Busy) <= Room, focus' = focus,
         \/ SetSignupMode \/ \E t \in Tokens : CleanExpiredRefreshTokens(t)
         \/ \E d \in Clerks : \/ OTPSend(d) \/ IssueSession(d) \/ WipeReused(d) \/ Logout(d)
                              \/ \E t \in Tokens : Refresh(d, t)
  PROVE  \A i \in Codes : CodeWell(i)'
<1>1. /\ code' = code /\ guesses' = guesses /\ granted' = granted /\ Room' = Room
      /\ misses' \in {misses, misses + 1}
  BY DEF SetSignupMode, CleanExpiredRefreshTokens, OTPSend, IssueSession, WipeReused, Logout, Refresh,
     CodeVars, Runs, Fails, Room
<1> SUFFICES ASSUME NEW i \in Codes PROVE CodeWell(i)'
  OBVIOUS
<1>2. CASE clerk' = clerk
  <2>1. /\ Counting(i)' = Counting(i) /\ Admitting(i)' = Admitting(i) /\ Verifying(i)' = Verifying(i)
    BY <1>2 DEF Counting, Admitting, Verifying, Verifies
  <2>2. QED
    BY <1>1, <2>1, CodeLeftAlone
<1>3. ASSUME NEW d \in Clerks, OTPSend(d) \/ IssueSession(d) \/ WipeReused(d) \/ \E t \in Tokens : Refresh(d, t)
      PROVE  CodeWell(i)'
  <2>1. ServeClerk(d)
    BY <1>3 DEF ServeClerk
  <2>2. PICK row \in ClerkRow : clerk' = [clerk EXCEPT ![d] = row]
    BY <2>1, ClerkTurns
  <2>3. clerk'[d] = row /\ ~ Verifies(clerk[d])
    BY <1>3, <2>2, RowParts DEF OTPSend, IssueSession, WipeReused, Refresh, At, Verifies
  <2>4. ~ Verifies(clerk'[d])
    <3>1. \A r : Moves(d, r) => clerk'[d] = r
      BY RowParts DEF Moves
    <3>2. Free.at = "free"
      BY DEF Free
    <3>3. CASE OTPSend(d)
      <4>1. Moves(d, [Free EXCEPT !.at = "send", !.match = SignupAllowed])
        BY <3>3 DEF OTPSend
      <4>2. clerk'[d] = [Free EXCEPT !.at = "send", !.match = SignupAllowed]
        BY <3>1, <4>1
      <4>3. clerk'[d].at = "send"
        BY <4>2 DEF Free
      <4>4. QED
        BY <4>3 DEF Verifies
    <3>4. CASE IssueSession(d) \/ WipeReused(d)
      BY <3>1, <3>2, <3>4 DEF IssueSession, WipeReused, Verifies
    <3>5. ASSUME NEW t \in Tokens, Refresh(d, t) PROVE ~ Verifies(clerk'[d])
      <4>1. \/ Moves(d, [Free EXCEPT !.at = "wipe"])
            \/ Moves(d, [Free EXCEPT !.at = "issue", !.login = token[t].login])
        BY <3>5 DEF Refresh
      <4>2. \/ clerk'[d] = [Free EXCEPT !.at = "wipe"]
            \/ clerk'[d] = [Free EXCEPT !.at = "issue", !.login = token[t].login]
        BY <3>1, <4>1
      <4>3. clerk'[d].at \in {"wipe", "issue"}
        BY <4>2 DEF Free
      <4>4. QED
        BY <4>3 DEF Verifies
    <3>6. QED
      BY <1>3, <3>3, <3>4, <3>5
  <2>5. QED
    BY <1>1, <2>2, <2>3, <2>4, OtherCode
<1>4. QED
  BY <1>2, <1>3 DEF SetSignupMode, CleanExpiredRefreshTokens, Logout

-----------------------------------------------------------------------------
(* Sessions: what is live, and who is about to issue one. *)
Live == {t \in Tokens : token[t].state = "live"}
Issuing == {d \in Clerks : clerk[d].at = "issue"}

(* Every live token and every session about to be issued has a login of    *)
(* its own that the latest wipe did not end.                               *)
SessionsWell ==
  /\ SessionsNeverMultiply
  /\ focus = "one request" => /\ \A t \in Live : token[t].login > wiped
                              /\ \A d \in Issuing : clerk[d].login > wiped

(* Tokens and clerks are finitely many. *)
LEMMA SessionSets ==
  ASSUME SignInTyped
  PROVE  /\ IsFiniteSet(Live) /\ IsFiniteSet(Issuing)
         /\ Cardinality(Live) \in Nat /\ Cardinality(Issuing) \in Nat /\ logins \in Nat /\ wiped \in Nat
         /\ wiped <= logins
<1>1. IsFiniteSet(Tokens) /\ IsFiniteSet(Clerks)
  BY SignInConstantsOK, FS_Interval DEF SignInConstantsOK, Tokens
<1>2. Live \in SUBSET Tokens /\ Issuing \in SUBSET Clerks
  BY DEF Live, Issuing
<1>3. IsFiniteSet(Live) /\ IsFiniteSet(Issuing)
  BY <1>1, <1>2, FS_Subset
<1>4. Cardinality(Live) \in Nat /\ Cardinality(Issuing) \in Nat
  BY <1>3, FS_CardinalityType
<1>5. logins \in Nat /\ wiped \in 0..logins
  BY DEF SignInTyped, SignInTypeOK
<1>6. QED
  BY <1>3, <1>4, <1>5

(* The two sets say what SessionsNeverMultiply says. *)
LEMMA SessionsCounted ==
  /\ SessionsNeverMultiply <=> Cardinality(Live) + Cardinality(Issuing) <= logins
  /\ SessionsNeverMultiply' <=> Cardinality(Live)' + Cardinality(Issuing)' <= logins'
  BY DEF SessionsNeverMultiply, Live, Issuing, At

(* A step that is not about sessions. *)
LEMMA NoSession ==
  ASSUME SignInTyped, SessionsWell, focus' = focus, UNCHANGED <<token, logins, wiped>>,
         \A d \in Issuing' : d \in Issuing /\ clerk'[d] = clerk[d]
  PROVE  SessionsWell'
<1>1. Live' = Live /\ Issuing' \in SUBSET Issuing
  BY DEF Live
<1>2. Cardinality(Issuing)' <= Cardinality(Issuing) /\ Cardinality(Issuing)' \in Nat
  BY <1>1, SessionSets, FS_Subset, FS_CardinalityType
<1>3. Cardinality(Live)' = Cardinality(Live) /\ Cardinality(Live) + Cardinality(Issuing) <= logins
  BY <1>1, SessionsCounted DEF SessionsWell
<1>4. Cardinality(Live)' + Cardinality(Issuing)' <= logins
  BY <1>2, <1>3, SessionSets
<1>5. SessionsNeverMultiply'
  BY <1>4, SessionsCounted
<1>6. QED
  BY <1>1, <1>5 DEF SessionsWell

(* Requests about codes are not about sessions. *)
LEMMA CodesKeepSessions ==
  ASSUME SignInTyped, SessionsWell, focus' = focus,
         \/ CleanExpiredOTPs \/ SetSignupMode
         \/ \E d \in Clerks : \/ OTPSend(d) \/ CreateOTPCode(d) \/ IncrementOTPAttempts(d) \/ MarkOTPUsed(d)
                              \/ \E right \in BOOLEAN : OTPVerify(d, right)
  PROVE  SessionsWell'
<1>1. UNCHANGED <<token, logins, wiped>>
  BY DEF CleanExpiredOTPs, SetSignupMode, OTPSend, CreateOTPCode, IncrementOTPAttempts, MarkOTPUsed,
     OTPVerify, TokenVars
<1>2. CASE clerk' = clerk
  BY <1>1, <1>2, NoSession DEF Issuing
<1>3. ASSUME NEW d \in Clerks, NEW r, Moves(d, r), r.at # "issue"
      PROVE  SessionsWell'
  <2>1. clerk'[d] = r /\ \A e \in Clerks \ {d} : clerk'[e] = clerk[e]
    BY <1>3, RowParts DEF Moves
  <2>2. \A e \in Issuing' : e \in Issuing /\ clerk'[e] = clerk[e]
    BY <1>3, <2>1 DEF Issuing
  <2>3. QED
    BY <1>1, <2>2, NoSession
<1>4. ASSUME NEW d \in Clerks, OTPSend(d) PROVE SessionsWell'
  <2>1. Moves(d, [Free EXCEPT !.at = "send", !.match = SignupAllowed])
    BY <1>4 DEF OTPSend
  <2>2. [Free EXCEPT !.at = "send", !.match = SignupAllowed].at = "send"
    BY DEF Free
  <2>3. QED
    BY <1>3, <2>1, <2>2
<1>5. ASSUME NEW d \in Clerks, CreateOTPCode(d) PROVE SessionsWell'
  BY <1>3, <1>5, FreeRow DEF CreateOTPCode
<1>6. ASSUME NEW d \in Clerks, IncrementOTPAttempts(d) PROVE SessionsWell'
  <2>1. Moves(d, [clerk[d] EXCEPT !.at = "mark"]) \/ Moves(d, Free)
    BY <1>6 DEF IncrementOTPAttempts, Counted
  <2>2. [clerk[d] EXCEPT !.at = "mark"].at = "mark"
    BY RowParts DEF ClerkRow
  <2>3. QED
    BY <1>3, <2>1, <2>2, FreeRow
<1>7. ASSUME NEW d \in Clerks, MarkOTPUsed(d) PROVE SessionsWell'
  <2>1. Moves(d, [clerk[d] EXCEPT !.at = "admit"])
    BY <1>7 DEF MarkOTPUsed
  <2>2. [clerk[d] EXCEPT !.at = "admit"].at = "admit"
    BY RowParts DEF ClerkRow
  <2>3. QED
    BY <1>3, <2>1, <2>2
<1>8. ASSUME NEW d \in Clerks, NEW right \in BOOLEAN, OTPVerify(d, right) PROVE SessionsWell'
  <2>1. PICK i \in ValidOTPCodes :
          Moves(d, [Free EXCEPT !.at = "count", !.code = i, !.match = right /\ code[i].real])
    BY <1>8 DEF OTPVerify
  <2>2. [Free EXCEPT !.at = "count", !.code = i, !.match = right /\ code[i].real].at = "count"
    BY DEF Free
  <2>3. QED
    BY <1>3, <2>1, <2>2
<1>9. QED
  BY <1>2, <1>4, <1>5, <1>6, <1>7, <1>8 DEF CleanExpiredOTPs, SetSignupMode

(* Whoever issues, when a clerk turns to r. *)
LEMMA IssuingAfter ==
  ASSUME SignInTyped, NEW d \in Clerks, NEW r, Moves(d, r)
  PROVE  /\ Issuing' \ {d} = Issuing \ {d} /\ (d \in Issuing' <=> r.at = "issue")
         /\ clerk'[d] = r /\ \A e \in Clerks \ {d} : clerk'[e] = clerk[e]
         /\ Issuing' \subseteq Clerks
<1>1. clerk'[d] = r /\ \A e \in Clerks \ {d} : clerk'[e] = clerk[e]
  BY RowParts DEF Moves
<1>2. QED
  BY <1>1 DEF Issuing

(* A login is granted, or refused. *)
LEMMA AdmissionGrants ==
  ASSUME SignInTyped, SessionsWell, focus' = focus, NEW d \in Clerks, Admit(d)
  PROVE  SessionsWell'
<1>1. CASE Moves(d, Free) /\ UNCHANGED <<token, logins, wiped>>
  <2>1. \A e \in Issuing' : e \in Issuing /\ clerk'[e] = clerk[e]
    BY <1>1, IssuingAfter, FreeRow DEF Issuing
  <2>2. QED
    BY <1>1, <2>1, NoSession
<1>2. CASE /\ Moves(d, [Free EXCEPT !.at = "issue", !.login = logins + 1])
           /\ logins' = logins + 1 /\ UNCHANGED <<token, wiped>>
  <2> DEFINE r == [Free EXCEPT !.at = "issue", !.login = logins + 1]
  <2>1. r.at = "issue" /\ r.login = logins + 1
    BY DEF Free
  <2> HIDE DEF r
  <2>2. Moves(d, r)
    BY <1>2 DEF r
  <2>3. /\ Issuing' \ {d} = Issuing \ {d} /\ d \in Issuing' /\ clerk'[d] = r
        /\ Issuing' \subseteq Clerks /\ \A e \in Clerks \ {d} : clerk'[e] = clerk[e]
    BY <2>1, <2>2, IssuingAfter
  <2>4. d \notin Issuing
    BY DEF Admit, At, Issuing
  <2>5. IsFiniteSet(Issuing)
    BY SessionSets
  <2>6. Cardinality(Issuing') = Cardinality(Issuing) + 1
    BY <2>3, <2>4, <2>5, OneElement
  <2>7. Live' = Live /\ Cardinality(Live) + Cardinality(Issuing) <= logins
    BY <1>2, SessionsCounted DEF Live, SessionsWell
  <2>8. Cardinality(Live)' + Cardinality(Issuing)' <= logins'
    BY <1>2, <2>6, <2>7, SessionSets
  <2>9. logins + 1 > wiped
    BY SessionSets
  <2>10. focus = "one request" => \A e \in Issuing' : clerk'[e].login > wiped
    BY <2>1, <2>3, <2>9 DEF SessionsWell
  <2>11. SessionsNeverMultiply'
    BY <2>8, SessionsCounted
  <2>12. QED
    BY <1>2, <2>7, <2>10, <2>11 DEF SessionsWell
<1>3. QED
  BY <1>1, <1>2 DEF Admit

(* A session is issued a token, or none. *)
LEMMA IssueKeepsSessions ==
  ASSUME SignInTyped, SessionsWell, focus' = focus, NEW d \in Clerks, IssueSession(d)
  PROVE  SessionsWell'
<1>1. /\ Moves(d, Free) /\ UNCHANGED <<logins, wiped>> /\ d \in Issuing
  BY DEF IssueSession, At, Issuing
<1>2. CASE token' = token
  <2>1. \A e \in Issuing' : e \in Issuing /\ clerk'[e] = clerk[e]
    BY <1>1, IssuingAfter, FreeRow DEF Issuing
  <2>2. QED
    BY <1>1, <1>2, <2>1, NoSession
<1>3. ASSUME NEW t \in Tokens, token[t].state = "none",
             token' = [token EXCEPT ![t] = [state |-> "live", login |-> clerk[d].login]]
      PROVE  SessionsWell'
  <2>1. /\ token'[t] = [state |-> "live", login |-> clerk[d].login]
        /\ \A u \in Tokens \ {t} : token'[u] = token[u]
    BY <1>3, RowParts
  <2>2. t \in Live' /\ t \notin Live /\ Live' \ {t} = Live \ {t} /\ Live' \subseteq Tokens
    BY <1>3, <2>1 DEF Live, Tokens
  <2>3. /\ Issuing' \ {d} = Issuing \ {d} /\ d \notin Issuing' /\ Issuing' \subseteq Clerks
        /\ \A e \in Clerks \ {d} : clerk'[e] = clerk[e]
    BY <1>1, IssuingAfter, FreeRow
  <2>4. IsFiniteSet(Issuing) /\ IsFiniteSet(Live)
    BY SessionSets
  <2>5. Cardinality(Issuing) = Cardinality(Issuing') + 1 /\ Cardinality(Issuing') \in Nat
    BY <1>1, <2>3, <2>4, OneElement
  <2>6. Cardinality(Live') = Cardinality(Live) + 1 /\ Cardinality(Live) \in Nat
    BY <2>2, <2>4, OneElement
  <2>7. Cardinality(Live) + Cardinality(Issuing) <= logins
    BY SessionsCounted DEF SessionsWell
  <2>8. Cardinality(Live)' + Cardinality(Issuing)' <= logins'
    BY <1>1, <2>5, <2>6, <2>7, SessionSets
  <2>9. SessionsNeverMultiply'
    BY <2>8, SessionsCounted
  <2>10. focus = "one request" => clerk[d].login > wiped
    BY <1>1 DEF SessionsWell
  <2>11. focus = "one request" => \A u \in Live' : token'[u].login > wiped
    <3>1. token'[t].login = clerk[d].login
      BY <2>1
    <3>2. \A u \in Live' \ {t} : u \in Live /\ token'[u] = token[u]
      BY <2>1, <2>2
    <3>3. QED
      BY <2>10, <3>1, <3>2 DEF SessionsWell
  <2>12. focus = "one request" => \A e \in Issuing' : clerk'[e].login > wiped
    BY <2>3 DEF SessionsWell
  <2>13. QED
    BY <1>1, <2>9, <2>11, <2>12 DEF SessionsWell
<1>4. QED
  BY <1>2, <1>3 DEF IssueSession

(* A token is rotated, or its reuse noticed. *)
LEMMA RefreshKeepsSessions ==
  ASSUME SignInTyped, SessionsWell, focus' = focus, NEW d \in Clerks, NEW t \in Tokens, Refresh(d, t)
  PROVE  SessionsWell'
<1>1. /\ token' = [token EXCEPT ![t].state = "revoked"] /\ UNCHANGED <<logins, wiped>> /\ d \notin Issuing
  BY DEF Refresh, At, Issuing
<1>t. /\ token'[t].state = "revoked" /\ \A u \in Tokens \ {t} : token'[u] = token[u]
  BY <1>1, RowParts DEF TokenRow
<1>n. Cardinality(Live) + Cardinality(Issuing) <= logins
  BY SessionsCounted DEF SessionsWell
<1>f. IsFiniteSet(Issuing) /\ IsFiniteSet(Live)
  BY SessionSets
<1>l. /\ Live' \ {t} = Live \ {t} /\ t \notin Live'
      /\ \A u \in Live' : u \in Live /\ token'[u] = token[u]
  BY <1>t DEF Live
<1>2. CASE token[t].state = "revoked"
  <2>1. Moves(d, [Free EXCEPT !.at = "wipe"]) /\ [Free EXCEPT !.at = "wipe"].at = "wipe"
    BY <1>2 DEF Refresh, Free
  <2>2. Issuing' \ {d} = Issuing \ {d} /\ d \notin Issuing' /\ \A e \in Clerks \ {d} : clerk'[e] = clerk[e]
    BY <2>1, IssuingAfter
  <2>3. Cardinality(Issuing') = Cardinality(Issuing)
    BY <1>1, <1>f, <2>2, OneElement
  <2>4. t \notin Live
    BY <1>2 DEF Live
  <2>5. Cardinality(Live') = Cardinality(Live)
    BY <1>f, <1>l, <2>4, OneElement
  <2>6. SessionsNeverMultiply'
    BY <1>1, <1>n, <2>3, <2>5, SessionsCounted
  <2>7. \A e \in Issuing' : e \in Issuing /\ clerk'[e] = clerk[e]
    BY <2>2 DEF Issuing
  <2>8. QED
    BY <1>1, <1>l, <2>6, <2>7 DEF SessionsWell
<1>3. CASE token[t].state = "live"
  <2> DEFINE r == [Free EXCEPT !.at = "issue", !.login = token[t].login]
  <2>1. Moves(d, r) /\ r.at = "issue" /\ r.login = token[t].login
    BY <1>3 DEF Refresh, Free
  <2> HIDE DEF r
  <2>2. /\ Issuing' \ {d} = Issuing \ {d} /\ d \in Issuing' /\ \A e \in Clerks \ {d} : clerk'[e] = clerk[e]
        /\ clerk'[d] = r /\ Issuing' \subseteq Clerks
    BY <2>1, IssuingAfter
  <2>3. Cardinality(Issuing') = Cardinality(Issuing) + 1
    BY <1>1, <1>f, <2>2, OneElement
  <2>4. t \in Live
    BY <1>3 DEF Live
  <2>5. Cardinality(Live) = Cardinality(Live') + 1 /\ Cardinality(Live') \in Nat
    BY <1>f, <1>l, <2>4, OneElement
  <2>6. Cardinality(Live)' + Cardinality(Issuing)' <= logins'
    BY <1>1, <1>n, <2>3, <2>5, SessionSets
  <2>7. SessionsNeverMultiply'
    BY <2>6, SessionsCounted
  <2>8. focus = "one request" => \A e \in Issuing' : clerk'[e].login > wiped
    BY <2>1, <2>2, <2>4 DEF SessionsWell
  <2>9. QED
    BY <1>1, <1>l, <2>7, <2>8 DEF SessionsWell
<1>4. QED
  BY <1>2, <1>3 DEF Refresh

(* Where no token is live, the bound leaves as much room as before.        *)
LEMMA NoneLive == \A l, n, m \in Nat : l + n <= m => 0 + n <= m
OBVIOUS

(* Every token of the user goes. *)
LEMMA WipeKeepsSessions ==
  ASSUME SignInTyped, SessionsWell, focus' = focus, NEW d \in Clerks, WipeReused(d) \/ Logout(d),
         focus = "one request" => \A e \in Clerks \ {d} : clerk[e].at = "free"
  PROVE  SessionsWell'
<1>0. DeleteUserRefreshTokens
  BY DEF WipeReused, Logout
<1>1. logins' = logins
  BY DEF WipeReused, Logout
<1>2. \A t \in Tokens : token'[t].state \in {"none", "gone"}
  BY <1>0 DEF DeleteUserRefreshTokens, Gone, NoToken
<1>3. Live' = {}
  BY <1>2 DEF Live, Tokens
<1>4. /\ \A e \in Clerks \ {d} : clerk'[e] = clerk[e]
      /\ clerk'[d].at = "free" /\ clerk[d].at # "issue"
  BY RowParts, FreeRow DEF WipeReused, Logout, Moves, At
<1>5. Issuing' = Issuing
  BY <1>4 DEF Issuing
<1>6. Cardinality(Live)' = 0 /\ Cardinality(Live) + Cardinality(Issuing) <= logins
  BY <1>3, SessionsCounted, FS_EmptySet DEF SessionsWell
<1>e. Cardinality(Issuing)' = Cardinality(Issuing)
  BY <1>5
<1>n. Cardinality(Live) \in Nat /\ Cardinality(Issuing) \in Nat /\ logins \in Nat
  BY SessionSets
<1>p. 0 + Cardinality(Issuing) <= logins
  BY <1>6, <1>n, NoneLive
<1>7. Cardinality(Live)' + Cardinality(Issuing)' <= logins'
  BY <1>1, <1>e, <1>6, <1>p
<1>8. SessionsNeverMultiply'
  BY <1>7, SessionsCounted
<1>9. focus = "one request" => Issuing' = {}
  BY <1>4 DEF Issuing
<1>10. QED
  BY <1>3, <1>8, <1>9 DEF SessionsWell

(* A token expires. *)
LEMMA ExpiryKeepsSessions ==
  ASSUME SignInTyped, SessionsWell, focus' = focus, NEW t \in Tokens, CleanExpiredRefreshTokens(t)
  PROVE  SessionsWell'
<1>1. token' = [token EXCEPT ![t] = Gone(t)] /\ UNCHANGED <<logins, wiped, clerk>> /\ token[t].state # "none"
  BY DEF CleanExpiredRefreshTokens
<1>2. token'[t].state = "gone" /\ \A u \in Tokens \ {t} : token'[u] = token[u]
  BY <1>1, RowParts DEF Gone, NoToken
<1>3. /\ \A u \in Live' : u \in Live /\ token'[u] = token[u]
      /\ Live' \in SUBSET Live /\ Issuing' = Issuing
  BY <1>1, <1>2 DEF Live, Issuing
<1>4. Cardinality(Live') <= Cardinality(Live) /\ Cardinality(Live') \in Nat
  BY <1>3, SessionSets, FS_Subset, FS_CardinalityType
<1>5. Cardinality(Live) + Cardinality(Issuing) <= logins
  BY SessionsCounted DEF SessionsWell
<1>6. Cardinality(Live)' + Cardinality(Issuing)' <= logins'
  BY <1>1, <1>3, <1>4, <1>5, SessionSets
<1>7. SessionsNeverMultiply'
  BY <1>6, SessionsCounted
<1>8. QED
  BY <1>1, <1>3, <1>7 DEF SessionsWell

-----------------------------------------------------------------------------
(* Signing in, under the setting chosen. *)
SignInWell ==
  /\ SignInTyped /\ Cardinality(Busy) <= Room
  /\ \A i \in Codes : CodeWell(i)
  /\ SessionsWell

(* No more requests are under way than the setting has room for.           *)
LEMMA RoomIsKept ==
  ASSUME SignInTyped, Cardinality(Busy) <= Room, focus' = focus,
         \/ TimePasses
         \/ \E d \in Clerks : /\ ServeClerk(d)
                              /\ focus = "one request" => \A e \in Clerks \ {d} : clerk[e].at = "free"
  PROVE  Cardinality(Busy)' <= Room'
<1>0. Room' = Room /\ IsFiniteSet(Clerks)
  BY SignInConstantsOK DEF Room, SignInConstantsOK
<1>1. CASE TimePasses
  <2>1. Busy' = Busy
    BY <1>1 DEF TimePasses, CleanExpiredOTPs, SetSignupMode, CleanExpiredRefreshTokens, Busy
  <2>2. QED
    BY <1>0, <2>1
<1>2. ASSUME NEW d \in Clerks, ServeClerk(d), focus = "one request",
             \A e \in Clerks \ {d} : clerk[e].at = "free"
      PROVE  Cardinality(Busy)' <= Room'
  <2>1. PICK row \in ClerkRow : clerk' = [clerk EXCEPT ![d] = row]
    BY <1>2, ClerkTurns
  <2>2. \A e \in Clerks \ {d} : clerk'[e].at = "free"
    BY <1>2, <2>1, RowParts
  <2>3. Busy' \in SUBSET {d} /\ IsFiniteSet({d}) /\ Cardinality({d}) = 1
    BY <2>2, FS_Singleton DEF Busy
  <2>4. Cardinality(Busy') <= 1 /\ Room = 1
    BY <1>2, <2>3, FS_Subset DEF Room
  <2>5. QED
    BY <1>0, <2>4
<1>3. CASE focus # "one request"
  <2>1. Busy' \in SUBSET Clerks
    BY DEF Busy
  <2>2. Cardinality(Busy') <= Cardinality(Clerks)
    BY <1>0, <2>1, FS_Subset
  <2>3. Room = Cardinality(Clerks)
    BY <1>3 DEF Room
  <2>4. QED
    BY <1>0, <2>2, <2>3
<1>4. QED
  BY <1>1, <1>2, <1>3

(* Whatever moves, signing in stays well. *)
LEMMA SignInMoveKeeps ==
  ASSUME SignInWell, focus' = focus,
         \/ TimePasses
         \/ \E d \in Clerks : /\ ServeClerk(d)
                              /\ focus = "one request" => \A e \in Clerks \ {d} : clerk[e].at = "free"
  PROVE  SignInWell'
<1>1. SignInTyped /\ Cardinality(Busy) <= Room /\ (\A i \in Codes : CodeWell(i)) /\ SessionsWell
  BY DEF SignInWell
<1>2. SignInTyped'
  BY <1>1, SignInKeepsTypes
<1>3. Cardinality(Busy)' <= Room'
  BY <1>1, RoomIsKept
<1>4. \A i \in Codes : CodeWell(i)'
  <2>1. CASE TimePasses
    BY <1>1, <2>1, ExpiryKeeps, SessionsKeepCodes DEF TimePasses
  <2>2. ASSUME NEW d \in Clerks, ServeClerk(d) PROVE \A i \in Codes : CodeWell(i)'
    <3>1. CASE CreateOTPCode(d)
      BY <1>1, <3>1, CreationKeeps
    <3>2. CASE \E right \in BOOLEAN : OTPVerify(d, right)
      BY <1>1, <1>3, <3>2, GuessKeeps
    <3>3. CASE IncrementOTPAttempts(d)
      BY <1>1, <3>3, CountKeeps
    <3>4. CASE MarkOTPUsed(d)
      BY <1>1, <3>4, MarkKeeps
    <3>5. CASE Admit(d)
      BY <1>1, <3>5, AdmissionKeeps
    <3>6. CASE OTPSend(d) \/ IssueSession(d) \/ WipeReused(d) \/ Logout(d) \/ \E t \in Tokens : Refresh(d, t)
      BY <1>1, <3>6, SessionsKeepCodes
    <3>7. QED
      BY <2>2, <3>1, <3>2, <3>3, <3>4, <3>5, <3>6 DEF ServeClerk
  <2>3. QED
    BY <2>1, <2>2
<1>5. SessionsWell'
  <2>1. CASE TimePasses
    BY <1>1, <2>1, CodesKeepSessions, ExpiryKeepsSessions DEF TimePasses
  <2>2. ASSUME NEW d \in Clerks, ServeClerk(d),
               focus = "one request" => \A e \in Clerks \ {d} : clerk[e].at = "free"
        PROVE  SessionsWell'
    <3>1. CASE Admit(d)
      BY <1>1, <3>1, AdmissionGrants
    <3>2. CASE IssueSession(d)
      BY <1>1, <3>2, IssueKeepsSessions
    <3>3. CASE WipeReused(d) \/ Logout(d)
      BY <1>1, <2>2, <3>3, WipeKeepsSessions
    <3>4. CASE \E t \in Tokens : Refresh(d, t)
      BY <1>1, <3>4, RefreshKeepsSessions
    <3>5. CASE \/ OTPSend(d) \/ CreateOTPCode(d) \/ IncrementOTPAttempts(d) \/ MarkOTPUsed(d)
               \/ \E right \in BOOLEAN : OTPVerify(d, right)
      BY <1>1, <3>5, CodesKeepSessions
    <3>6. QED
      BY <2>2, <3>1, <3>2, <3>3, <3>4, <3>5 DEF ServeClerk
  <2>3. QED
    BY <2>1, <2>2
<1>6. (\A i \in Codes : CodeWell(i))'
  BY <1>4 DEF Codes
<1>7. QED
  BY <1>2, <1>3, <1>5, <1>6 DEF SignInWell

(* Signing in at the beginning. *)
LEMMA SignInStarts ==
  ASSUME SignInInit
  PROVE  SignInWell
<1>1. /\ MaxSignInFaults \in Nat /\ MaxAttempts \in Nat \ {0} /\ IsFiniteSet(Clerks) /\ Clerks # {}
  BY SignInConstantsOK DEF SignInConstantsOK
<1>2. /\ clerk \in [Clerks -> ClerkRow] /\ \A d \in Clerks : clerk[d] = Free
  BY FreeRow DEF SignInInit
<1>3. /\ code \in [Codes -> CodeRow] /\ token \in [Tokens -> TokenRow]
      /\ \A i \in Codes : code[i].state = "none" /\ guesses[i] = 0 /\ granted[i] = 0
      /\ \A t \in Tokens : token[t].state = "none"
  BY DEF SignInInit, NoCode, NoToken, CodeRow, TokenRow
<1>4. /\ guesses \in [Codes -> Nat] /\ granted \in [Codes -> Nat] /\ logins = 0 /\ wiped = 0 /\ misses = 0
      /\ closed = FALSE /\ account = FALSE
  BY DEF SignInInit
<1>5. misses \in 0..MaxSignInFaults /\ wiped \in 0..logins /\ logins \in Nat
  BY <1>1, <1>4
<1>6. SignInTyped
  BY <1>2, <1>3, <1>4, <1>5, FreeRow
    DEF SignInTyped, SignInTypeOK, ClerkRow, CodeRow, TokenRow, ClerkSteps
<1>7. Busy = {} /\ Issuing = {} /\ Live = {} /\ \A i \in Codes : Verifying(i) = {}
  BY <1>2, <1>3, FreeRow DEF Busy, Issuing, Live, Verifying
<1>8. /\ Cardinality(Busy) = 0 /\ Cardinality(Issuing) = 0 /\ Cardinality(Live) = 0
      /\ \A i \in Codes : Cardinality(Verifying(i)) = 0
  BY <1>7, FS_EmptySet
<1>9. Cardinality(Clerks) \in Nat /\ Cardinality(Clerks) # 0
  BY <1>1, FS_CardinalityType, FS_EmptySet
<1>10. Room \in Nat /\ Room >= 1
  <2>1. Room = 1 \/ Room = Cardinality(Clerks)
    BY DEF Room
  <2>2. QED
    BY <1>9, <2>1
<1>11. Cardinality(Busy) <= Room
  BY <1>8, <1>10
<1>12. 0 <= MaxAttempts + Room - 1 + 0 /\ 0 + 0 <= Room + 0
  BY <1>1, <1>10
<1>13. \A i \in Codes : CodeWell(i)
  BY <1>3, <1>4, <1>7, <1>8, <1>12 DEF CodeWell
<1>14. SessionsNeverMultiply
  BY <1>4, <1>8, SessionsCounted
<1>15. SessionsWell
  BY <1>7, <1>14 DEF SessionsWell
<1>16. QED
  BY <1>6, <1>11, <1>13, <1>15 DEF SignInWell

(* Whatever moves in the back office, signing in stays well.               *)
LEMMA SignInStep ==
  ASSUME SignInWell, [Next]_officeVars
  PROVE  SignInWell'
<1>1. CASE UNCHANGED signInVars /\ UNCHANGED focus
  <2>1. /\ SignInTyped' = SignInTyped /\ Busy' = Busy /\ Room' = Room /\ misses' = misses
        /\ code' = code /\ guesses' = guesses /\ granted' = granted
    BY <1>1 DEF signInVars, SignInTyped, SignInTypeOK, Verifies, Busy, Room
  <2>2. \A i \in Codes : /\ Counting(i)' = Counting(i) /\ Admitting(i)' = Admitting(i)
                         /\ Verifying(i)' = Verifying(i)
    BY <1>1 DEF signInVars, Counting, Admitting, Verifying, Verifies
  <2>3. (\A i \in Codes : CodeWell(i))' = (\A i \in Codes : CodeWell(i))
    BY <2>1, <2>2 DEF CodeWell, Codes
  <2>4. SessionsWell' = SessionsWell
    BY <1>1 DEF signInVars, SessionsWell, SessionsNeverMultiply, Live, Issuing, At
  <2>5. QED
    BY <2>1, <2>3, <2>4 DEF SignInWell
<1>2. CASE UNCHANGED focus /\ SignInMoves
  <2>1. CASE focus = "requests" /\ SignInNext
    <3>1. \/ TimePasses
          \/ \E d \in Clerks : /\ ServeClerk(d)
                               /\ focus = "one request" => \A e \in Clerks \ {d} : clerk[e].at = "free"
      BY <2>1 DEF SignInNext
    <3>2. QED
      BY <1>2, <3>1, SignInMoveKeeps
  <2>2. CASE TimePasses \/ \E d \in Clerks : ClerkMay(d) /\ ServeClerk(d)
    <3>1. \/ TimePasses
          \/ \E d \in Clerks : /\ ServeClerk(d)
                               /\ focus = "one request" => \A e \in Clerks \ {d} : clerk[e].at = "free"
      BY <2>2 DEF ClerkMay, At
    <3>2. QED
      BY <1>2, <3>1, SignInMoveKeeps
  <2>3. QED
    BY <1>2, <2>1, <2>2 DEF SignInMoves
<1>3. QED
  BY <1>1, <1>2 DEF Next, officeVars

(* Signing in is well throughout. *)
LEMMA SignInHolds == Spec => []SignInWell
<1>1. Init => SignInWell
  BY SignInStarts DEF Init
<1>2. SignInWell /\ [Next]_officeVars => SignInWell'
  BY SignInStep
<1>3. QED
  BY <1>1, <1>2, PTL DEF Spec

(* A code allows at most MaxAttempts guesses and one login, and one more   *)
(* of each for every other request that is under way and for every         *)
(* statement that fails: a request that is alone gets exactly those, up    *)
(* to the failures (handler/otp.go).                                       *)
THEOREM CodesAreBounded == Spec => []CodesBounded
<1>1. SignInWell => CodesBounded
  <2> SUFFICES ASSUME SignInWell PROVE CodesBounded
    OBVIOUS
  <2>1. SignInTyped /\ Cardinality(Busy) <= Room /\ \A i \in Codes : CodeWell(i)
    BY DEF SignInWell
  <2>2. \A i \in Codes : guesses[i] <= MaxAttempts + Room - 1 + misses
    BY <2>1 DEF CodeWell
  <2>3. ASSUME NEW i \in Codes PROVE granted[i] <= Room + misses
    <3> DEFINE a == Cardinality(Admitting(i))
               v == Cardinality(Verifying(i))
    <3>1. /\ granted[i] \in Nat /\ misses \in Nat /\ Room \in Nat /\ a \in Nat /\ v \in Nat
      BY <2>1, CodeNumbers
    <3>2. granted[i] + a <= misses \/ granted[i] + v <= Room + misses
      BY <2>1 DEF CodeWell
    <3> HIDE DEF a, v
    <3>3. QED
      BY <3>1, <3>2
  <2>4. QED
    BY <2>2, <2>3 DEF CodesBounded, GuessesBounded, LoginsBounded, Room
<1>2. QED
  BY <1>1, SignInHolds, PTL

(* However refreshes, reuse, logouts and expiry interleave, sessions are   *)
(* never more than logins; and where requests come one by one, none of     *)
(* those a logout or a reused token ended comes back (handler/oauth.go).   *)
THEOREM SessionsDoEnd == Spec => []SessionsEnd
<1>1. SignInWell => SessionsEnd
  BY DEF SignInWell, SessionsWell, SessionsEnd, WipeIsFinal, Live
<1>2. QED
  BY <1>1, SignInHolds, PTL

-----------------------------------------------------------------------------
(* THE CATALOGUE *)

PlanRow == [product : Products \cup {None}, activations : BOOLEAN, seats : BOOLEAN,
            floating : BOOLEAN, price : Prices \cup {None}, quota : Quotas \cup {0}]
LicenseRow == [product : Products \cup {None}, plan : Plans \cup {None}]
AddonRow == [product : Products \cup {None}, quota : Quotas \cup {0}]

(* What an administrator's request in hand may be.                         *)
EditRow ==
  {NoEdit}
    \cup [op : {"saveProduct"}, id : Products, row : Types]
    \cup [op : {"newPlan", "savePlan"}, id : Plans, row : {r \in PlanRow : r.product # None}]
    \cup [op : {"saveLicense"}, id : Licenses,
          row : {r \in LicenseRow : r.product # None /\ r.plan # None}]
    \cup [op : {"dropPlan"}, id : Plans, row : {None}]
    \cup [op : {"release"}, id : Products, row : {None}]

CatalogTyped ==
  /\ CatalogTypeOK /\ plan \in [Plans -> PlanRow] /\ edit \in [Admins -> EditRow]

(* A request is read and checked, writes what it read, or does both in one *)
(* statement.                                                              *)
Opening(d) ==
  \/ \E q \in Products : DraftRelease(d, q) \/ \E t \in Types : UpdateProduct(d, q, t)
  \/ \E p \in Plans : \/ DeletePlan(d, p)
                      \/ \E row \in PlanRequests : CreatePlan(d, p, row)
                      \/ \E c \in PlanChanges : UpdatePlan(d, p, c[1], c[2])
                      \/ \E l \in Licenses : CreateLicense(d, l, p) \/ ChangeLicensePlan(d, l, p)

Writing(d) ==
  SaveProduct(d) \/ InsertPlan(d) \/ SavePlan(d) \/ DropPlan(d) \/ SaveLicense(d) \/ SaveRelease(d)

AtOnce(d) ==
  \/ \E q \in Products : \/ DeleteProduct(d, q) \/ WithdrawRelease(d, q)
                         \/ \E t \in Types : CreateProduct(d, q, t)
                         \/ \E a \in Addons, n \in Quotas : SetAddon(d, a, q, n)
  \/ \E p \in Plans, n \in Quotas \cup {0} : SetEntitlement(d, p, n)
  \/ \E a \in Addons : \/ DeleteAddon(d, a)
                       \/ \E l \in Licenses : AddLicenseAddon(d, l, a) \/ RemoveLicenseAddon(d, l, a)

(* There is no fourth kind of step. *)
LEMMA ThreeKinds ==
  ASSUME NEW d \in Admins, ServeAdmin(d)
  PROVE  Opening(d) \/ Writing(d) \/ AtOnce(d)
BY DEF ServeAdmin, Opening, Writing, AtOnce

-----------------------------------------------------------------------------
(* Rows. *)
(* The parts of a plan, and of a plan in which one is replaced.            *)
LEMMA PlanParts ==
  ASSUME NEW r \in PlanRow
  PROVE  /\ r.product \in Products \cup {None} /\ r.price \in Prices \cup {None}
         /\ r.activations \in BOOLEAN /\ r.seats \in BOOLEAN /\ r.floating \in BOOLEAN
         /\ \A n \in Quotas \cup {0} : /\ [r EXCEPT !.quota = n] \in PlanRow
                                       /\ [r EXCEPT !.quota = n].product = r.product
                                       /\ [r EXCEPT !.quota = n].price = r.price
         /\ \A b \in BOOLEAN : /\ [r EXCEPT !.activations = b] \in PlanRow
                               /\ [r EXCEPT !.activations = b].product = r.product
<1>1. /\ r.product \in Products \cup {None} /\ r.price \in Prices \cup {None}
      /\ r.activations \in BOOLEAN /\ r.seats \in BOOLEAN /\ r.floating \in BOOLEAN
  BY DEF PlanRow
<1>2. \A n \in Quotas \cup {0} : /\ [r EXCEPT !.quota = n] \in PlanRow
                                 /\ [r EXCEPT !.quota = n].product = r.product
                                 /\ [r EXCEPT !.quota = n].price = r.price
  BY DEF PlanRow
<1>3. \A b \in BOOLEAN : /\ [r EXCEPT !.activations = b] \in PlanRow
                         /\ [r EXCEPT !.activations = b].product = r.product
  BY DEF PlanRow
<1>4. QED
  BY <1>1, <1>2, <1>3

(* A plan changed by one of the changes an administrator may ask for.      *)
LEMMA PlanChanged ==
  ASSUME NEW r \in PlanRow, NEW c \in PlanChanges
  PROVE  /\ [r EXCEPT ![c[1]] = c[2]] \in PlanRow
         /\ [r EXCEPT ![c[1]] = c[2]].product = r.product
<1>1. \/ c[1] \in {"activations", "seats", "floating"} /\ c[2] \in BOOLEAN
      \/ c[1] = "price" /\ c[2] \in Prices \cup {None}
  BY CatalogConstantsOK DEF PlanChanges, CatalogConstantsOK
<1>2. CASE c[1] = "activations" /\ c[2] \in BOOLEAN
  BY <1>2 DEF PlanRow
<1>3. CASE c[1] = "seats" /\ c[2] \in BOOLEAN
  BY <1>3 DEF PlanRow
<1>4. CASE c[1] = "floating" /\ c[2] \in BOOLEAN
  BY <1>4 DEF PlanRow
<1>5. CASE c[1] = "price" /\ c[2] \in Prices \cup {None}
  BY <1>5 DEF PlanRow
<1>6. QED
  BY <1>1, <1>2, <1>3, <1>4, <1>5

(* What a request in hand is about, by its operation.                      *)
LEMMA EditParts ==
  ASSUME NEW e \in EditRow
  PROVE  /\ e.op \in {"none", "saveProduct", "newPlan", "savePlan", "saveLicense", "dropPlan", "release"}
         /\ e.op = "saveProduct" => e.id \in Products /\ e.row \in Types
         /\ e.op \in {"newPlan", "savePlan"} => e.id \in Plans /\ e.row \in PlanRow /\ e.row.product \in Products
         /\ e.op = "saveLicense" => /\ e.id \in Licenses /\ e.row \in LicenseRow
                                    /\ e.row.product \in Products /\ e.row.plan \in Plans
         /\ e.op = "dropPlan" => e.id \in Plans
         /\ e.op = "release" => e.id \in Products
         /\ e.op = "none" => e = NoEdit
         /\ NoEdit \in EditRow /\ NoEdit.op = "none"
<1>0. NoEdit \in EditRow /\ NoEdit.op = "none"
  BY DEF EditRow, NoEdit
<1>1. CASE e = NoEdit
  BY <1>0, <1>1
<1>2. CASE e \in [op : {"saveProduct"}, id : Products, row : Types]
  BY <1>0, <1>2
<1>3. CASE e \in [op : {"newPlan", "savePlan"}, id : Plans, row : {r \in PlanRow : r.product # None}]
  <2>1. e.op \in {"newPlan", "savePlan"} /\ e.id \in Plans /\ e.row \in PlanRow /\ e.row.product # None
    BY <1>3
  <2>2. e.row.product \in Products
    BY <2>1, PlanParts
  <2>3. QED
    BY <1>0, <2>1, <2>2
<1>4. CASE e \in [op : {"saveLicense"}, id : Licenses,
                  row : {r \in LicenseRow : r.product # None /\ r.plan # None}]
  <2>1. e.op = "saveLicense" /\ e.id \in Licenses /\ e.row \in LicenseRow /\ e.row.product # None /\ e.row.plan # None
    BY <1>4
  <2>2. e.row.product \in Products /\ e.row.plan \in Plans
    BY <2>1 DEF LicenseRow
  <2>3. QED
    BY <1>0, <2>1, <2>2
<1>5. CASE e \in [op : {"dropPlan"}, id : Plans, row : {None}]
  BY <1>0, <1>5
<1>6. CASE e \in [op : {"release"}, id : Products, row : {None}]
  BY <1>0, <1>6
<1>7. QED
  BY <1>1, <1>2, <1>3, <1>4, <1>5, <1>6 DEF EditRow

(* The catalogue's parts. *)
LEMMA CatalogParts ==
  ASSUME CatalogTyped
  PROVE  /\ type \in [Products -> Types \cup {None}] /\ plan \in [Plans -> PlanRow]
         /\ license \in [Licenses -> LicenseRow] /\ addon \in [Addons -> AddonRow]
         /\ edit \in [Admins -> EditRow]
         /\ live \subseteq Products /\ yanked \subseteq Products
         /\ attached \subseteq Licenses \X Addons /\ gone \subseteq Products \cup Plans
         /\ None \notin Products /\ None \notin Plans /\ None \notin Types
         /\ Products \cap Plans = {} /\ Stock \subseteq Products
  BY CatalogConstantsOK DEF CatalogTyped, CatalogTypeOK, CatalogConstantsOK, LicenseRow, AddonRow

-----------------------------------------------------------------------------
(* What a request that is opened knows of the rows.                        *)
Opened(e) ==
  /\ e.op = "newPlan" => ~ Exists(e.id) /\ Fresh(e.id)
  /\ e.op = "savePlan" => Exists(e.id) /\ e.row.product = plan[e.id].product
  /\ e.op = "saveLicense" => Exists(e.row.plan) /\ e.row.product = plan[e.row.plan].product

(* Opening a request changes no row, and leaves a request of the right     *)
(* form in hand.                                                           *)
LEMMA Openings ==
  ASSUME CatalogTyped, NEW d \in Admins, Opening(d)
  PROVE  /\ UNCHANGED Rows
         /\ \E e \in EditRow : edit' = [edit EXCEPT ![d] = e] /\ Opened(e)
<1> DEFINE Goal == /\ UNCHANGED Rows
                   /\ \E e \in EditRow : edit' = [edit EXCEPT ![d] = e] /\ Opened(e)
<1>1. ASSUME NEW q \in Products, DraftRelease(d, q) PROVE Goal
  <2> DEFINE e == [op |-> "release", id |-> q, row |-> None]
  <2>1. e \in EditRow /\ Opened(e)
    BY DEF EditRow, Opened
  <2>2. QED
    BY <1>1, <2>1 DEF DraftRelease, Holds
<1>2. ASSUME NEW q \in Products, NEW t \in Types, UpdateProduct(d, q, t) PROVE Goal
  <2> DEFINE e == [op |-> "saveProduct", id |-> q, row |-> t]
  <2>1. e \in EditRow /\ Opened(e)
    BY DEF EditRow, Opened
  <2>2. QED
    BY <1>2, <2>1 DEF UpdateProduct, Holds
<1>3. ASSUME NEW p \in Plans, DeletePlan(d, p) PROVE Goal
  <2> DEFINE e == [op |-> "dropPlan", id |-> p, row |-> None]
  <2>1. e \in EditRow /\ Opened(e)
    BY DEF EditRow, Opened
  <2>2. QED
    BY <1>3, <2>1 DEF DeletePlan, Holds
<1>4. ASSUME NEW p \in Plans, NEW row \in PlanRequests, CreatePlan(d, p, row) PROVE Goal
  <2> DEFINE b == row.activations \/ ProductSupports(type[row.product], "activations")
             r == [row EXCEPT !.activations = b]
             e == [op |-> "newPlan", id |-> p, row |-> r]
  <2>1. row \in PlanRow
    BY DEF PlanRequests, PlanRow, Asks
  <2>2. b \in BOOLEAN
    BY <2>1, PlanParts DEF ProductSupports
  <2>3. r \in PlanRow /\ r.product = row.product /\ row.product # None
    BY <1>4, <2>1, <2>2, PlanParts DEF CreatePlan
  <2>4. edit' = [edit EXCEPT ![d] = e] /\ UNCHANGED Rows /\ ~ Exists(p) /\ Fresh(p)
    BY <1>4, <2>1 DEF CreatePlan, Holds, PlanRow
  <2> HIDE DEF r
  <2>5. e \in EditRow /\ Opened(e)
    BY <2>3, <2>4 DEF EditRow, Opened
  <2>6. QED
    BY <2>4, <2>5
<1>5. ASSUME NEW p \in Plans, NEW c \in PlanChanges, UpdatePlan(d, p, c[1], c[2]) PROVE Goal
  <2> DEFINE r == [plan[p] EXCEPT ![c[1]] = c[2]]
             e == [op |-> "savePlan", id |-> p, row |-> r]
  <2>1. r \in PlanRow /\ r.product = plan[p].product
    BY CatalogParts, PlanChanged
  <2>2. edit' = [edit EXCEPT ![d] = e] /\ UNCHANGED Rows /\ Exists(p)
    BY <1>5 DEF UpdatePlan, Holds
  <2> HIDE DEF r
  <2>3. e \in EditRow /\ Opened(e)
    BY <2>1, <2>2 DEF EditRow, Opened, Exists
  <2>4. QED
    BY <2>2, <2>3
<1>6. ASSUME NEW p \in Plans, NEW l \in Licenses, CreateLicense(d, l, p) PROVE Goal
  <2> DEFINE r == [product |-> plan[p].product, plan |-> p]
             e == [op |-> "saveLicense", id |-> l, row |-> r]
  <2>1. plan[p].product \in Products \cup {None}
    BY CatalogParts, PlanParts
  <2>2. edit' = [edit EXCEPT ![d] = e] /\ UNCHANGED Rows /\ Exists(p)
    BY <1>6 DEF CreateLicense, Holds
  <2>3. r \in LicenseRow /\ r.product # None /\ r.plan # None /\ r.plan = p /\ r.product = plan[p].product
    BY <2>1, <2>2, CatalogParts DEF LicenseRow, Exists
  <2> HIDE DEF r
  <2>4. e \in EditRow /\ Opened(e)
    BY <2>2, <2>3 DEF EditRow, Opened
  <2>5. QED
    BY <2>2, <2>4
<1>7. ASSUME NEW p \in Plans, NEW l \in Licenses, ChangeLicensePlan(d, l, p) PROVE Goal
  <2> DEFINE r == [license[l] EXCEPT !.plan = p]
             e == [op |-> "saveLicense", id |-> l, row |-> r]
  <2>1. license[l] \in LicenseRow
    BY CatalogParts
  <2>2. edit' = [edit EXCEPT ![d] = e] /\ UNCHANGED Rows /\ Exists(p) /\ plan[p].product = license[l].product
    BY <1>7 DEF ChangeLicensePlan, Holds
  <2>3. r \in LicenseRow /\ r.product = license[l].product /\ r.plan = p
    BY <2>1 DEF LicenseRow
  <2>4. r.product # None /\ r.plan # None
    BY <2>2, <2>3, CatalogParts DEF Exists
  <2> HIDE DEF r
  <2>5. e \in EditRow /\ Opened(e)
    BY <2>2, <2>3, <2>4 DEF EditRow, Opened
  <2>6. QED
    BY <2>2, <2>5
<1>8. QED
  BY <1>1, <1>2, <1>3, <1>4, <1>5, <1>6, <1>7 DEF Opening

-----------------------------------------------------------------------------
(* Types. *)
(* What a write does to the rows. *)
LEMMA Writings ==
  ASSUME CatalogTyped, NEW d \in Admins, Writing(d)
  PROVE  /\ edit' = [edit EXCEPT ![d] = NoEdit] /\ UNCHANGED <<addon, attached, edits>>
         /\ type' \in [Products -> Types \cup {None}] /\ plan' \in [Plans -> PlanRow]
         /\ license' \in [Licenses -> LicenseRow]
         /\ live' \subseteq Products /\ yanked' \subseteq Products /\ gone' \subseteq Products \cup Plans
<1> DEFINE Goal == /\ type' \in [Products -> Types \cup {None}] /\ plan' \in [Plans -> PlanRow]
                   /\ license' \in [Licenses -> LicenseRow]
                   /\ live' \subseteq Products /\ yanked' \subseteq Products
                   /\ gone' \subseteq Products \cup Plans
<1>0. /\ type \in [Products -> Types \cup {None}] /\ plan \in [Plans -> PlanRow]
      /\ license \in [Licenses -> LicenseRow]
      /\ live \subseteq Products /\ yanked \subseteq Products /\ gone \subseteq Products \cup Plans
      /\ edit[d] \in EditRow
  BY CatalogParts
<1>u. UNCHANGED <<addon, attached, edits>> /\ edit' = [edit EXCEPT ![d] = NoEdit]
  BY DEF Writing, SaveProduct, InsertPlan, SavePlan, DropPlan, SaveLicense, SaveRelease, Writes
<1>1. ASSUME SaveProduct(d) PROVE Goal
  <2>1. /\ edit[d].op = "saveProduct" /\ plan' = plan /\ license' = license /\ live' = live /\ yanked' = yanked /\ gone' = gone
        /\ type' = [type EXCEPT ![Id(d)] = IF @ = None THEN None ELSE Row(d)]
    BY <1>1 DEF SaveProduct, Writes
  <2>2. Row(d) \in Types
    BY <1>0, <2>1, EditParts DEF Row
  <2>3. QED
    BY <1>0, <2>1, <2>2
<1>2. ASSUME InsertPlan(d) PROVE Goal
  <2>1. /\ edit[d].op = "newPlan" /\ type' = type /\ license' = license /\ live' = live /\ yanked' = yanked /\ gone' = gone
        /\ plan' = plan \/ plan' = [plan EXCEPT ![Id(d)] = Row(d)]
    BY <1>2 DEF InsertPlan, Writes
  <2>2. Row(d) \in PlanRow
    BY <1>0, <2>1, EditParts DEF Row
  <2>3. QED
    BY <1>0, <2>1, <2>2
<1>3. ASSUME SavePlan(d) PROVE Goal
  <2>1. /\ edit[d].op = "savePlan" /\ type' = type /\ license' = license /\ live' = live /\ yanked' = yanked /\ gone' = gone
        /\ plan' = plan \/ plan' = [plan EXCEPT ![Id(d)] = Stored(Id(d), Row(d))]
    BY <1>3 DEF SavePlan, Writes
  <2>2. Row(d) \in PlanRow /\ Id(d) \in Plans
    BY <1>0, <2>1, EditParts DEF Row, Id
  <2>3. plan[Id(d)].quota \in Quotas \cup {0}
    BY <1>0, <2>2 DEF PlanRow
  <2>4. Stored(Id(d), Row(d)) \in PlanRow
    BY <2>2, <2>3, PlanParts DEF Stored
  <2>5. QED
    BY <1>0, <2>1, <2>4
<1>4. ASSUME DropPlan(d) PROVE Goal
  <2>1. /\ edit[d].op = "dropPlan" /\ type' = type /\ license' = license /\ live' = live /\ yanked' = yanked
        /\ plan' = plan \/ plan' = [plan EXCEPT ![Id(d)] = NoPlan]
        /\ gone' = gone \/ gone' = gone \cup {Id(d)}
    BY <1>4 DEF DropPlan, Writes
  <2>2. Id(d) \in Plans
    BY <1>0, <2>1, EditParts DEF Id
  <2>3. NoPlan \in PlanRow
    BY DEF NoPlan, PlanRow
  <2>4. QED
    BY <1>0, <2>1, <2>2, <2>3
<1>5. ASSUME SaveLicense(d) PROVE Goal
  <2>1. /\ edit[d].op = "saveLicense" /\ type' = type /\ plan' = plan /\ live' = live /\ yanked' = yanked /\ gone' = gone
        /\ license' = license \/ license' = [license EXCEPT ![Id(d)] = Row(d)]
    BY <1>5 DEF SaveLicense, Writes
  <2>2. Row(d) \in LicenseRow
    BY <1>0, <2>1, EditParts DEF Row
  <2>3. QED
    BY <1>0, <2>1, <2>2
<1>6. ASSUME SaveRelease(d) PROVE Goal
  <2>1. /\ edit[d].op = "release" /\ type' = type /\ plan' = plan /\ license' = license /\ gone' = gone
        /\ live' = live \/ live' = live \cup {Id(d)}
        /\ yanked' \subseteq yanked
    BY <1>6 DEF SaveRelease, Writes
  <2>2. Id(d) \in Products
    BY <1>0, <2>1, EditParts DEF Id
  <2>3. QED
    BY <1>0, <2>1, <2>2
<1>7. QED
  BY <1>u, <1>1, <1>2, <1>3, <1>4, <1>5, <1>6 DEF Writing

(* What a request of one statement does to the rows.                       *)
LEMMA AtOnces ==
  ASSUME CatalogTyped, NEW d \in Admins, AtOnce(d)
  PROVE  /\ edit' = edit /\ license' = license /\ edit[d] = NoEdit
         /\ \/ plan' = plan
            \/ \E p \in Plans, n \in Quotas \cup {0} :
                 Exists(p) /\ plan' = [plan EXCEPT ![p] = [plan[p] EXCEPT !.quota = n]]
         /\ gone' = gone \/ \E q \in Products : gone' = gone \cup {q}
         /\ type' \in [Products -> Types \cup {None}] /\ addon' \in [Addons -> AddonRow]
         /\ live' \subseteq Products /\ yanked' \subseteq Products /\ attached' \subseteq Licenses \X Addons
<1> DEFINE Goal == /\ edit' = edit /\ license' = license /\ edit[d] = NoEdit
                   /\ \/ plan' = plan
                      \/ \E p \in Plans, n \in Quotas \cup {0} :
                           Exists(p) /\ plan' = [plan EXCEPT ![p] = [plan[p] EXCEPT !.quota = n]]
                   /\ gone' = gone \/ \E q \in Products : gone' = gone \cup {q}
                   /\ type' \in [Products -> Types \cup {None}] /\ addon' \in [Addons -> AddonRow]
                   /\ live' \subseteq Products /\ yanked' \subseteq Products
                   /\ attached' \subseteq Licenses \X Addons
<1>0. /\ type \in [Products -> Types \cup {None}] /\ addon \in [Addons -> AddonRow]
      /\ live \subseteq Products /\ yanked \subseteq Products /\ attached \subseteq Licenses \X Addons
  BY CatalogParts
<1>a. NoAddon \in AddonRow /\ \A q \in Products, n \in Quotas : [product |-> q, quota |-> n] \in AddonRow
  BY DEF NoAddon, AddonRow
<1>1. ASSUME NEW q \in Products, DeleteProduct(d, q) PROVE Goal
  <2>1. /\ UNCHANGED <<edit, plan, license, live, yanked>> /\ edit[d] = NoEdit /\ gone' = gone \cup {q}
        /\ type' = [type EXCEPT ![q] = None]
        /\ addon' = [a \in Addons |-> IF addon[a].product = q THEN NoAddon ELSE addon[a]]
        /\ attached' \subseteq attached
    BY <1>1 DEF DeleteProduct, One, Opens
  <2>2. addon' \in [Addons -> AddonRow]
    BY <1>0, <1>a, <2>1
  <2>3. type' \in [Products -> Types \cup {None}] /\ attached' \subseteq Licenses \X Addons
    BY <1>0, <2>1
  <2>4. QED
    BY <1>0, <2>1, <2>2, <2>3
<1>2. ASSUME NEW q \in Products, WithdrawRelease(d, q) PROVE Goal
  BY <1>0, <1>2 DEF WithdrawRelease, One, Opens
<1>3. ASSUME NEW q \in Products, NEW t \in Types, CreateProduct(d, q, t) PROVE Goal
  BY <1>0, <1>3 DEF CreateProduct, One, Opens
<1>4. ASSUME NEW q \in Products, NEW a \in Addons, NEW n \in Quotas, SetAddon(d, a, q, n) PROVE Goal
  <2>1. /\ UNCHANGED <<edit, type, plan, license, live, yanked, attached, gone>> /\ edit[d] = NoEdit
        /\ addon' = [addon EXCEPT ![a] = [product |-> q, quota |-> n]]
    BY <1>4 DEF SetAddon, One, Opens
  <2>2. addon' \in [Addons -> AddonRow]
    BY <1>0, <1>a, <2>1
  <2>3. QED
    BY <1>0, <2>1, <2>2
<1>5. ASSUME NEW p \in Plans, NEW n \in Quotas \cup {0}, SetEntitlement(d, p, n) PROVE Goal
  <2>1. /\ UNCHANGED <<edit, type, addon, license, live, yanked, attached, gone>> /\ edit[d] = NoEdit
        /\ Exists(p) /\ plan' = [plan EXCEPT ![p].quota = n]
    BY <1>5 DEF SetEntitlement, One, Opens
  <2>2. plan' = [plan EXCEPT ![p] = [plan[p] EXCEPT !.quota = n]]
    BY <2>1
  <2>3. QED
    BY <1>0, <2>1, <2>2
<1>6. ASSUME NEW a \in Addons, DeleteAddon(d, a) PROVE Goal
  <2>1. /\ UNCHANGED <<edit, type, plan, license, live, yanked, gone>> /\ edit[d] = NoEdit
        /\ addon' = [addon EXCEPT ![a] = NoAddon] /\ attached' \subseteq attached
    BY <1>6 DEF DeleteAddon, One, Opens
  <2>2. addon' \in [Addons -> AddonRow] /\ attached' \subseteq Licenses \X Addons
    BY <1>0, <1>a, <2>1
  <2>3. QED
    BY <1>0, <2>1, <2>2
<1>7. ASSUME NEW a \in Addons, NEW l \in Licenses, AddLicenseAddon(d, l, a) \/ RemoveLicenseAddon(d, l, a)
      PROVE  Goal
  <2>1. /\ UNCHANGED <<edit, type, plan, license, live, yanked, gone, addon>> /\ edit[d] = NoEdit
        /\ attached' \subseteq attached \cup {<<l, a>>}
    BY <1>7 DEF AddLicenseAddon, RemoveLicenseAddon, One, Opens
  <2>2. attached' \subseteq Licenses \X Addons
    BY <1>0, <2>1
  <2>3. QED
    BY <1>0, <2>1, <2>2
<1>8. QED
  BY <1>1, <1>2, <1>3, <1>4, <1>5, <1>6, <1>7 DEF AtOnce

(* The types of the catalogue are kept. *)
LEMMA CatalogKeepsTypes ==
  ASSUME CatalogTyped, NEW d \in Admins, ServeAdmin(d)
  PROVE  CatalogTyped'
<1>0. /\ type \in [Products -> Types \cup {None}] /\ plan \in [Plans -> PlanRow]
      /\ license \in [Licenses -> LicenseRow] /\ addon \in [Addons -> AddonRow]
      /\ edit \in [Admins -> EditRow]
      /\ live \subseteq Products /\ yanked \subseteq Products
      /\ attached \subseteq Licenses \X Addons /\ gone \subseteq Products \cup Plans
  BY CatalogParts
<1>1. edits' \in 0..MaxEdits
  <2>1. edits \in 0..MaxEdits /\ MaxEdits \in Nat
    BY CatalogConstantsOK DEF CatalogTyped, CatalogTypeOK, CatalogConstantsOK
  <2>2. edits' = edits \/ (edits < MaxEdits /\ edits' = edits + 1)
    BY DEF ServeAdmin, SaveProduct, InsertPlan, SavePlan, DropPlan, SaveLicense, SaveRelease, Writes,
       DeleteProduct, DraftRelease, WithdrawRelease, CreateProduct, UpdateProduct, SetAddon, DeletePlan,
       CreatePlan, UpdatePlan, SetEntitlement, CreateLicense, ChangeLicensePlan, DeleteAddon,
       AddLicenseAddon, RemoveLicenseAddon, One, Opens
  <2>3. QED
    BY <2>1, <2>2
<1>2. /\ type' \in [Products -> Types \cup {None}] /\ plan' \in [Plans -> PlanRow]
      /\ license' \in [Licenses -> LicenseRow] /\ addon' \in [Addons -> AddonRow]
      /\ edit' \in [Admins -> EditRow]
      /\ live' \subseteq Products /\ yanked' \subseteq Products
      /\ attached' \subseteq Licenses \X Addons /\ gone' \subseteq Products \cup Plans
  <2>1. CASE Opening(d)
    <3>1. PICK e \in EditRow : edit' = [edit EXCEPT ![d] = e]
      BY <2>1, Openings
    <3>2. UNCHANGED <<type, plan, live, yanked, addon, license, attached, gone>>
      BY <2>1, Openings DEF Rows
    <3>3. QED
      BY <1>0, <3>1, <3>2
  <2>2. CASE Writing(d)
    <3>1. NoEdit \in EditRow
      BY DEF EditRow
    <3>2. QED
      BY <1>0, <2>2, <3>1, Writings
  <2>3. CASE AtOnce(d)
    <3>1. plan' \in [Plans -> PlanRow]
      <4>1. CASE plan' = plan
        BY <1>0, <4>1
      <4>2. ASSUME NEW p \in Plans, NEW n \in Quotas \cup {0},
                   plan' = [plan EXCEPT ![p] = [plan[p] EXCEPT !.quota = n]]
            PROVE  plan' \in [Plans -> PlanRow]
        <5>1. [plan[p] EXCEPT !.quota = n] \in PlanRow
          BY <1>0, PlanParts
        <5>2. QED
          BY <1>0, <4>2, <5>1
      <4>3. QED
        BY <2>3, <4>1, <4>2, AtOnces
    <3>2. gone' \subseteq Products \cup Plans
      BY <1>0, <2>3, AtOnces
    <3>3. QED
      BY <1>0, <2>3, <3>1, <3>2, AtOnces
  <2>4. QED
    BY <2>1, <2>2, <2>3, ThreeKinds
<1>3. \A p \in Plans : plan'[p] \in PlanRow
  BY <1>2
<1>4. CatalogTypeOK'
  BY <1>1, <1>2, <1>3 DEF CatalogTypeOK, PlanRow, LicenseRow, AddonRow
<1>5. QED
  BY <1>2, <1>4 DEF CatalogTyped, EditRow, PlanRow, LicenseRow

-----------------------------------------------------------------------------
(* Licenses, prices and what is in hand, whatever overlaps.                *)
(* A plan that is not there has an empty row, one that was deleted never   *)
(* comes back, and a license that is there names a plan.                   *)
RowsAgree ==
  /\ \A p \in Plans : ~ Exists(p) => plan[p] = NoPlan
  /\ \A p \in Plans : p \in gone => ~ Exists(p)
  /\ \A l \in Licenses : license[l] # NoLicense => license[l].plan \in Plans

(* A plan that is being created is in one hand only, and is new; a change  *)
(* of a plan keeps its product; a license that is being written is sold    *)
(* under a plan of its product, or one that is deleted.                    *)
EditAgrees(d) ==
  /\ edit[d].op = "newPlan" =>
       /\ ~ Exists(Id(d)) /\ Id(d) \notin gone
       /\ \A e \in Admins \ {d} : edit[e].op \in {"newPlan", "savePlan"} => Id(e) # Id(d)
  /\ edit[d].op = "savePlan" /\ Exists(Id(d)) => Row(d).product = plan[Id(d)].product
  /\ edit[d].op = "saveLicense" =>
       Row(d).plan \in gone \/ (Exists(Row(d).plan) /\ Row(d).product = plan[Row(d).plan].product)

CatalogAgrees ==
  /\ RowsAgree /\ LicenseFitsPlan /\ OnePlanPerPrice
  /\ \A d \in Admins : EditAgrees(d)

(* Where the products of the plans, the licenses and the deleted plans     *)
(* stay, all that matters is what is in hand.                              *)
LEMMA PlansStay ==
  ASSUME CatalogTyped, CatalogAgrees, license' = license,
         plan' \in [Plans -> PlanRow],
         \A p \in Plans : plan'[p].product = plan[p].product /\ plan'[p].price = plan[p].price,
         \A p \in Plans : ~ Exists(p) => plan'[p] = plan[p],
         gone' \cap Plans = gone \cap Plans, edit' \in [Admins -> EditRow],
         \A d \in Admins : edit'[d] = edit[d] \/ edit'[d] = NoEdit
  PROVE  CatalogAgrees'
<1>0. /\ RowsAgree /\ LicenseFitsPlan /\ OnePlanPerPrice /\ \A d \in Admins : EditAgrees(d)
      /\ edit \in [Admins -> EditRow] /\ license \in [Licenses -> LicenseRow] /\ None \notin Plans
  BY CatalogParts DEF CatalogAgrees
<1>1. \A p \in Plans : Exists(p)' <=> Exists(p)
  BY DEF Exists
<1>2. RowsAgree'
  BY <1>0, <1>1 DEF RowsAgree, Exists
<1>3. LicenseFitsPlan'
  <2> SUFFICES ASSUME NEW l \in Licenses, license'[l] # NoLicense
               PROVE  /\ plan'[license'[l].plan].product # None
                      /\ plan'[license'[l].plan].product = license'[l].product
    BY DEF LicenseFitsPlan, Exists
  <2>1. license[l] # NoLicense /\ license'[l] = license[l]
    OBVIOUS
  <2>2. Exists(license[l].plan) /\ plan[license[l].plan].product = license[l].product
    BY <1>0, <2>1 DEF LicenseFitsPlan
  <2>3. license[l].plan \in Plans
    BY <1>0, <2>1 DEF RowsAgree
  <2>4. QED
    BY <2>1, <2>2, <2>3 DEF Exists
<1>4. OnePlanPerPrice'
  BY <1>0 DEF OnePlanPerPrice
<1>5. ASSUME NEW d \in Admins PROVE EditAgrees(d)'
  <2>1. CASE edit'[d] = NoEdit
    BY <2>1 DEF EditAgrees, NoEdit
  <2>2. CASE edit'[d] = edit[d]
    <3>1. Id(d)' = Id(d) /\ Row(d)' = Row(d) /\ edit'[d].op = edit[d].op /\ EditAgrees(d)
      BY <1>0, <2>2 DEF Id, Row
    <3>2. edit[d].op = "newPlan" => \A e \in Admins \ {d} : edit'[e].op \in {"newPlan", "savePlan"} => edit'[e].id # Id(d)
      BY <3>1 DEF EditAgrees, NoEdit, Id
    <3>3. /\ edit[d].op \in {"newPlan", "savePlan"} => Id(d) \in Plans
          /\ edit[d].op = "saveLicense" => Row(d).plan \in Plans
      BY <1>0, EditParts DEF Id, Row
    <3>4. CASE edit[d].op = "newPlan"
      <4>1. ~ Exists(Id(d)) /\ Id(d) \notin gone /\ Id(d) \in Plans
        BY <3>1, <3>3, <3>4 DEF EditAgrees
      <4>2. (~ Exists(Id(d)))' /\ (Id(d) \notin gone)'
        BY <1>1, <3>1, <4>1 DEF Exists
      <4>3. QED
        BY <3>1, <3>2, <3>4, <4>2 DEF EditAgrees, Id
    <3>5. CASE edit[d].op = "savePlan"
      <4>1. Id(d) \in Plans /\ (Exists(Id(d)) => Row(d).product = plan[Id(d)].product)
        BY <3>1, <3>3, <3>5 DEF EditAgrees
      <4>2. (Exists(Id(d)) => Row(d).product = plan[Id(d)].product)'
        BY <1>1, <3>1, <4>1 DEF Exists
      <4>3. QED
        BY <3>1, <3>5, <4>2 DEF EditAgrees
    <3>6. CASE edit[d].op = "saveLicense"
      <4>1. /\ Row(d).plan \in Plans
            /\ Row(d).plan \in gone \/ (Exists(Row(d).plan) /\ Row(d).product = plan[Row(d).plan].product)
        BY <3>1, <3>3, <3>6 DEF EditAgrees
      <4>2. (Row(d).plan \in gone \/ (Exists(Row(d).plan) /\ Row(d).product = plan[Row(d).plan].product))'
        BY <3>1, <4>1 DEF Exists
      <4>3. QED
        BY <3>1, <3>6, <4>2 DEF EditAgrees
    <3>7. QED
      BY <3>1, <3>4, <3>5, <3>6 DEF EditAgrees
  <2>3. QED
    BY <2>1, <2>2
<1>6. QED
  BY <1>2, <1>3, <1>4, <1>5 DEF CatalogAgrees

(* A request is opened. *)
LEMMA OpeningAgrees ==
  ASSUME CatalogTyped, CatalogAgrees, NEW d \in Admins, Opening(d)
  PROVE  CatalogAgrees'
<1>1. PICK e \in EditRow : edit' = [edit EXCEPT ![d] = e] /\ Opened(e)
  BY Openings
<1>2. plan' = plan /\ license' = license /\ gone' = gone
  BY Openings DEF Rows
<1>3. /\ edit'[d] = e /\ \A a \in Admins \ {d} : edit'[a] = edit[a]
  BY <1>1, CatalogParts
<1>0. /\ RowsAgree /\ LicenseFitsPlan /\ OnePlanPerPrice /\ \A a \in Admins : EditAgrees(a)
  BY DEF CatalogAgrees
<1>4. RowsAgree' /\ LicenseFitsPlan' /\ OnePlanPerPrice'
  BY <1>0, <1>2 DEF RowsAgree, LicenseFitsPlan, OnePlanPerPrice, Exists
<1>5. \A p : Exists(p)' <=> Exists(p)
  BY <1>2 DEF Exists
<1>6. EditAgrees(d)'
  <2>1. Id(d)' = e.id /\ Row(d)' = e.row /\ edit'[d].op = e.op
    BY <1>3 DEF Id, Row
  <2>2. CASE e.op = "newPlan"
    <3>1. ~ Exists(e.id) /\ e.id \notin gone /\ \A a \in Admins : edit[a].id # e.id
      BY <1>1, <2>2 DEF Opened, Fresh
    <3>2. \A a \in Admins \ {d} : edit'[a].id # e.id
      BY <1>3, <3>1
    <3>3. QED
      BY <1>2, <2>1, <2>2, <3>1, <3>2 DEF EditAgrees, Exists, Id
  <2>3. CASE e.op = "savePlan"
    BY <1>1, <1>2, <2>1, <2>3 DEF EditAgrees, Opened
  <2>4. CASE e.op = "saveLicense"
    BY <1>1, <1>2, <2>1, <2>4 DEF EditAgrees, Opened, Exists
  <2>5. QED
    BY <2>1, <2>2, <2>3, <2>4 DEF EditAgrees
<1>7. ASSUME NEW a \in Admins \ {d} PROVE EditAgrees(a)'
  <2>1. Id(a)' = Id(a) /\ Row(a)' = Row(a) /\ edit'[a].op = edit[a].op /\ EditAgrees(a)
    BY <1>0, <1>3 DEF Id, Row
  <2>2. CASE edit[a].op = "newPlan"
    <3>1. /\ ~ Exists(Id(a)) /\ Id(a) \notin gone
          /\ \A b \in Admins \ {a} : edit[b].op \in {"newPlan", "savePlan"} => edit[b].id # Id(a)
      BY <2>1, <2>2 DEF EditAgrees, Id
    <3>2. e.op \in {"newPlan", "savePlan"} => e.id # Id(a)
      BY <1>1, <3>1 DEF Opened, Fresh, Id
    <3>3. \A b \in Admins \ {a} : edit'[b].op \in {"newPlan", "savePlan"} => edit'[b].id # Id(a)
      BY <1>3, <3>1, <3>2
    <3>4. QED
      BY <1>2, <2>1, <2>2, <3>1, <3>3 DEF EditAgrees, Exists, Id
  <2>3. CASE edit[a].op # "newPlan"
    BY <1>2, <2>1, <2>3 DEF EditAgrees, Exists
  <2>4. QED
    BY <2>2, <2>3
<1>8. QED
  BY <1>4, <1>6, <1>7 DEF CatalogAgrees

(* A plan is written whose price the others do not have.                   *)
LEMMA PriceStaysOne ==
  ASSUME CatalogTyped, RowsAgree, OnePlanPerPrice, NEW p \in Plans, NEW r \in PlanRow,
         ~ StripePriceTaken(r.price, p), plan' = [plan EXCEPT ![p] = r]
  PROVE  OnePlanPerPrice'
<1>1. plan'[p] = r /\ \A x \in Plans \ {p} : plan'[x] = plan[x]
  BY CatalogParts
<1>2. ASSUME NEW x \in Plans \ {p}, r.price # None PROVE plan[x].price # r.price
  <2>1. CASE Exists(x)
    BY <1>2, <2>1 DEF StripePriceTaken, FindPlanByStripePrice
  <2>2. CASE ~ Exists(x)
    BY <1>2, <2>2 DEF RowsAgree, NoPlan
  <2>3. QED
    BY <2>1, <2>2
<1>3. \A x, y \in Plans \ {p} : x # y /\ plan[x].price # None => plan[x].price # plan[y].price
  BY DEF OnePlanPerPrice
<1>4. \A x, y \in Plans : x # y /\ plan'[x].price # None => plan'[x].price # plan'[y].price
  BY <1>1, <1>2, <1>3
<1>5. QED
  BY <1>4 DEF OnePlanPerPrice

(* The request in hand is written. *)
LEMMA WritingAgrees ==
  ASSUME CatalogTyped, CatalogAgrees, NEW d \in Admins, Writing(d)
  PROVE  CatalogAgrees'
<1>0. /\ RowsAgree /\ LicenseFitsPlan /\ OnePlanPerPrice /\ \A a \in Admins : EditAgrees(a)
      /\ edit \in [Admins -> EditRow] /\ plan \in [Plans -> PlanRow] /\ license \in [Licenses -> LicenseRow]
      /\ None \notin Products
  BY CatalogParts DEF CatalogAgrees
<1>1. /\ edit'[d] = NoEdit /\ \A a \in Admins \ {d} : edit'[a] = edit[a]
  BY <1>0, Writings
<1>t. edit' \in [Admins -> EditRow] /\ plan' \in [Plans -> PlanRow] /\ license' \in [Licenses -> LicenseRow]
  <2>1. NoEdit \in EditRow
    BY DEF EditRow
  <2>2. QED
    BY <1>0, <2>1, Writings
<1>2. ASSUME plan' = plan, license' = license, gone' = gone PROVE CatalogAgrees'
  BY <1>1, <1>2, <1>t, PlansStay
<1>d. EditAgrees(d)'
  BY <1>1 DEF EditAgrees, NoEdit
<1>e. ASSUME NEW a \in Admins \ {d}
      PROVE  /\ Id(a)' = Id(a) /\ Row(a)' = Row(a) /\ edit'[a].op = edit[a].op /\ EditAgrees(a)
             /\ edit[a].op \in {"newPlan", "savePlan"} => Id(a) \in Plans
             /\ edit[a].op = "saveLicense" => Row(a).plan \in Plans
  <2>1. /\ Id(a)' = Id(a) /\ Row(a)' = Row(a) /\ edit'[a].op = edit[a].op /\ EditAgrees(a)
    BY <1>0, <1>1 DEF Id, Row
  <2>2. /\ edit[a].op \in {"newPlan", "savePlan"} => Id(a) \in Plans
        /\ edit[a].op = "saveLicense" => Row(a).plan \in Plans
    BY <1>0, EditParts DEF Id, Row
  <2>3. QED
    BY <2>1, <2>2
<1>n. ASSUME NEW a \in Admins \ {d}, edit[a].op = "newPlan"
      PROVE  \A b \in Admins \ {a} : edit'[b].op \in {"newPlan", "savePlan"} => edit'[b].id # Id(a)
  <2>1. \A b \in Admins \ {a} : edit[b].op \in {"newPlan", "savePlan"} => edit[b].id # Id(a)
    BY <1>0, <1>n DEF EditAgrees, Id
  <2>2. QED
    BY <1>1, <2>1 DEF NoEdit
<1>3. CASE SaveProduct(d) \/ SaveRelease(d)
  BY <1>2, <1>3 DEF SaveProduct, SaveRelease
<1>4. CASE InsertPlan(d)
  <2> DEFINE p == Id(d)
             r == Row(d)
  <2>1. /\ edit[d].op = "newPlan" /\ license' = license /\ gone' = gone
        /\ plan' = plan \/ (plan' = [plan EXCEPT ![p] = r] /\ Accepts(p, r))
    BY <1>4 DEF InsertPlan, Writes
  <2>2. p \in Plans /\ r \in PlanRow /\ r.product # None
    BY <1>0, <2>1, EditParts DEF Id, Row
  <2>3. /\ ~ Exists(p) /\ p \notin gone
        /\ \A a \in Admins \ {d} : edit[a].op \in {"newPlan", "savePlan"} => Id(a) # p
    BY <1>0, <2>1 DEF EditAgrees
  <2> HIDE DEF p, r
  <2>4. CASE plan' = plan
    BY <1>2, <2>1, <2>4
  <2>5. CASE plan' = [plan EXCEPT ![p] = r] /\ Accepts(p, r)
    <3>1. plan'[p] = r /\ \A x \in Plans \ {p} : plan'[x] = plan[x]
      BY <1>0, <2>2, <2>5
    <3>2. OnePlanPerPrice'
      BY <1>0, <2>2, <2>5, PriceStaysOne DEF Accepts
    <3>3. RowsAgree'
      BY <1>0, <2>1, <2>2, <2>3, <3>1 DEF RowsAgree, Exists
    <3>4. LicenseFitsPlan'
      <4> SUFFICES ASSUME NEW l \in Licenses, license'[l] # NoLicense
                   PROVE  /\ plan'[license'[l].plan].product # None
                          /\ plan'[license'[l].plan].product = license'[l].product
        BY DEF LicenseFitsPlan, Exists
      <4>1. license'[l] = license[l] /\ license[l].plan \in Plans /\ Exists(license[l].plan)
            /\ plan[license[l].plan].product = license[l].product
        BY <1>0, <2>1 DEF RowsAgree, LicenseFitsPlan
      <4>2. license[l].plan # p
        BY <2>3, <4>1
      <4>3. QED
        BY <3>1, <4>1, <4>2 DEF Exists
    <3>5. ASSUME NEW a \in Admins \ {d} PROVE EditAgrees(a)'
      <4>1. CASE edit[a].op = "newPlan"
        <5>1. /\ ~ Exists(Id(a)) /\ Id(a) \notin gone /\ Id(a) # p /\ Id(a) \in Plans
          BY <1>e, <2>3, <4>1 DEF EditAgrees
        <5>2. QED
          BY <1>e, <1>n, <2>1, <3>1, <4>1, <5>1 DEF EditAgrees, Exists, Id
      <4>2. CASE edit[a].op = "savePlan"
        <5>1. Id(a) # p /\ Id(a) \in Plans /\ (Exists(Id(a)) => Row(a).product = plan[Id(a)].product)
          BY <1>e, <2>3, <4>2 DEF EditAgrees
        <5>2. QED
          BY <1>e, <3>1, <4>2, <5>1 DEF EditAgrees, Exists
      <4>3. CASE edit[a].op = "saveLicense"
        <5>1. /\ Row(a).plan \in Plans
              /\ Row(a).plan \in gone \/ (Exists(Row(a).plan) /\ Row(a).product = plan[Row(a).plan].product)
          BY <1>e, <4>3 DEF EditAgrees
        <5>2. Row(a).plan # p
          BY <2>3, <5>1
        <5>3. QED
          BY <1>e, <2>1, <3>1, <4>3, <5>1, <5>2 DEF EditAgrees, Exists
      <4>4. QED
        BY <1>e, <4>1, <4>2, <4>3 DEF EditAgrees
    <3>6. QED
      BY <1>d, <3>2, <3>3, <3>4, <3>5 DEF CatalogAgrees
  <2>6. QED
    BY <2>1, <2>4, <2>5
<1>5. CASE SavePlan(d)
  <2> DEFINE p == Id(d)
             r == Stored(p, Row(d))
  <2>1. /\ edit[d].op = "savePlan" /\ license' = license /\ gone' = gone
        /\ plan' = plan \/ (plan' = [plan EXCEPT ![p] = r] /\ Exists(p) /\ Accepts(p, Row(d)))
    BY <1>5 DEF SavePlan, Writes
  <2>2. p \in Plans /\ Row(d) \in PlanRow /\ Row(d).product # None
    BY <1>0, <2>1, EditParts DEF Id, Row
  <2>3. plan[p].quota \in Quotas \cup {0}
    BY <1>0, <2>2 DEF PlanRow
  <2>4. r \in PlanRow /\ r.product = Row(d).product /\ r.price = Row(d).price
    BY <2>2, <2>3, PlanParts DEF Stored
  <2>5. Exists(p) => Row(d).product = plan[p].product
    BY <1>0, <2>1 DEF EditAgrees
  <2> HIDE DEF p, r
  <2>6. CASE plan' = plan
    BY <1>2, <2>1, <2>6
  <2>7. CASE plan' = [plan EXCEPT ![p] = r] /\ Exists(p) /\ Accepts(p, Row(d))
    <3>1. plan'[p] = r /\ \A x \in Plans \ {p} : plan'[x] = plan[x]
      BY <1>0, <2>2, <2>7
    <3>2. OnePlanPerPrice'
      BY <1>0, <2>2, <2>4, <2>7, PriceStaysOne DEF Accepts
    <3>3. \A x \in Plans : plan'[x].product = plan[x].product
      BY <2>4, <2>5, <2>7, <3>1
    <3>x. \A x \in Plans : Exists(x)' <=> Exists(x)
      BY <3>3 DEF Exists
    <3>4. RowsAgree'
      BY <1>0, <2>1, <2>7, <3>1, <3>x DEF RowsAgree
    <3>5. LicenseFitsPlan'
      <4> SUFFICES ASSUME NEW l \in Licenses, license'[l] # NoLicense
                   PROVE  /\ plan'[license'[l].plan].product # None
                          /\ plan'[license'[l].plan].product = license'[l].product
        BY DEF LicenseFitsPlan, Exists
      <4>1. license'[l] = license[l] /\ license[l].plan \in Plans /\ Exists(license[l].plan)
            /\ plan[license[l].plan].product = license[l].product
        BY <1>0, <2>1 DEF RowsAgree, LicenseFitsPlan
      <4>2. QED
        BY <3>3, <4>1 DEF Exists
    <3>6. ASSUME NEW a \in Admins \ {d} PROVE EditAgrees(a)'
      <4>1. CASE edit[a].op = "newPlan"
        <5>1. /\ ~ Exists(Id(a)) /\ Id(a) \notin gone /\ Id(a) \in Plans
          BY <1>e, <4>1 DEF EditAgrees
        <5>2. QED
          BY <1>e, <1>n, <2>1, <3>3, <4>1, <5>1 DEF EditAgrees, Exists, Id
      <4>2. CASE edit[a].op = "savePlan"
        <5>1. Id(a) \in Plans /\ (Exists(Id(a)) => Row(a).product = plan[Id(a)].product)
          BY <1>e, <4>2 DEF EditAgrees
        <5>2. QED
          BY <1>e, <3>3, <4>2, <5>1 DEF EditAgrees, Exists
      <4>3. CASE edit[a].op = "saveLicense"
        <5>1. /\ Row(a).plan \in Plans
              /\ Row(a).plan \in gone \/ (Exists(Row(a).plan) /\ Row(a).product = plan[Row(a).plan].product)
          BY <1>e, <4>3 DEF EditAgrees
        <5>2. QED
          BY <1>e, <2>1, <3>3, <4>3, <5>1 DEF EditAgrees, Exists
      <4>4. QED
        BY <1>e, <4>1, <4>2, <4>3 DEF EditAgrees
    <3>7. QED
      BY <1>d, <3>2, <3>4, <3>5, <3>6 DEF CatalogAgrees
  <2>8. QED
    BY <2>1, <2>6, <2>7
<1>6. CASE DropPlan(d)
  <2> DEFINE p == Id(d)
  <2>1. /\ edit[d].op = "dropPlan" /\ license' = license
        /\ \/ plan' = plan /\ gone' = gone
           \/ /\ plan' = [plan EXCEPT ![p] = NoPlan] /\ gone' = gone \cup {p} /\ plan' # plan
              /\ \A l \in Licenses : license[l].plan # p
    BY <1>6 DEF DropPlan, Writes
  <2>2. p \in Plans
    BY <1>0, <2>1, EditParts DEF Id
  <2> HIDE DEF p
  <2>3. CASE plan' = plan /\ gone' = gone
    BY <1>2, <2>1, <2>3
  <2>4. CASE /\ plan' = [plan EXCEPT ![p] = NoPlan] /\ gone' = gone \cup {p} /\ plan' # plan
             /\ \A l \in Licenses : license[l].plan # p
    <3>1. plan'[p] = NoPlan /\ \A x \in Plans \ {p} : plan'[x] = plan[x]
      BY <1>0, <2>2, <2>4
    <3>2. Exists(p)
      <4>1. plan[p] # NoPlan
        BY <1>0, <2>2, <2>4
      <4>2. QED
        BY <1>0, <2>2, <4>1 DEF RowsAgree
    <3>3. NoPlan.product = None /\ NoPlan.price = None
      BY DEF NoPlan
    <3>4. RowsAgree'
      BY <1>0, <2>1, <2>4, <3>1, <3>3 DEF RowsAgree, Exists
    <3>5. OnePlanPerPrice'
      BY <1>0, <3>1, <3>3 DEF OnePlanPerPrice
    <3>6. LicenseFitsPlan'
      <4> SUFFICES ASSUME NEW l \in Licenses, license'[l] # NoLicense
                   PROVE  /\ plan'[license'[l].plan].product # None
                          /\ plan'[license'[l].plan].product = license'[l].product
        BY DEF LicenseFitsPlan, Exists
      <4>1. license'[l] = license[l] /\ license[l].plan \in Plans /\ Exists(license[l].plan)
            /\ plan[license[l].plan].product = license[l].product /\ license[l].plan # p
        BY <1>0, <2>1, <2>4 DEF RowsAgree, LicenseFitsPlan
      <4>2. QED
        BY <3>1, <4>1 DEF Exists
    <3>7. ASSUME NEW a \in Admins \ {d} PROVE EditAgrees(a)'
      <4>1. CASE edit[a].op = "newPlan"
        <5>1. /\ ~ Exists(Id(a)) /\ Id(a) \notin gone /\ Id(a) \in Plans
          BY <1>e, <4>1 DEF EditAgrees
        <5>2. Id(a) # p
          BY <3>2, <5>1
        <5>3. QED
          BY <1>e, <1>n, <2>4, <3>1, <4>1, <5>1, <5>2 DEF EditAgrees, Exists, Id
      <4>2. CASE edit[a].op = "savePlan"
        <5>1. Id(a) \in Plans /\ (Exists(Id(a)) => Row(a).product = plan[Id(a)].product)
          BY <1>e, <4>2 DEF EditAgrees
        <5>2. QED
          BY <1>e, <3>1, <3>3, <4>2, <5>1 DEF EditAgrees, Exists
      <4>3. CASE edit[a].op = "saveLicense"
        <5>1. /\ Row(a).plan \in Plans
              /\ Row(a).plan \in gone \/ (Exists(Row(a).plan) /\ Row(a).product = plan[Row(a).plan].product)
          BY <1>e, <4>3 DEF EditAgrees
        <5>2. QED
          BY <1>e, <2>4, <3>1, <4>3, <5>1 DEF EditAgrees, Exists
      <4>4. QED
        BY <1>e, <4>1, <4>2, <4>3 DEF EditAgrees
    <3>8. QED
      BY <1>d, <3>4, <3>5, <3>6, <3>7 DEF CatalogAgrees
  <2>5. QED
    BY <2>1, <2>3, <2>4
<1>7. CASE SaveLicense(d)
  <2> DEFINE k == Id(d)
             r == Row(d)
  <2>1. /\ edit[d].op = "saveLicense" /\ plan' = plan /\ gone' = gone
        /\ license' = license \/ (license' = [license EXCEPT ![k] = r] /\ Exists(r.plan))
    BY <1>7 DEF SaveLicense, Writes
  <2>2. r.plan \in Plans
    BY <1>0, <2>1, EditParts DEF Row
  <2>3. Exists(r.plan) => r.product = plan[r.plan].product
    BY <1>0, <2>1, <2>2 DEF EditAgrees, RowsAgree
  <2> HIDE DEF k, r
  <2>4. CASE license' = license
    BY <1>2, <2>1, <2>4
  <2>5. CASE license' = [license EXCEPT ![k] = r] /\ Exists(r.plan)
    <3>1. \A l \in Licenses : license'[l] = license[l] \/ license'[l] = r
      BY <1>0, <2>5
    <3>2. RowsAgree'
      BY <1>0, <2>1, <2>2, <3>1 DEF RowsAgree, Exists
    <3>3. LicenseFitsPlan'
      <4> SUFFICES ASSUME NEW l \in Licenses, license'[l] # NoLicense
                   PROVE  /\ plan'[license'[l].plan].product # None
                          /\ plan'[license'[l].plan].product = license'[l].product
        BY DEF LicenseFitsPlan, Exists
      <4>1. CASE license'[l] = license[l]
        BY <1>0, <2>1, <4>1 DEF LicenseFitsPlan, Exists
      <4>2. CASE license'[l] = r
        BY <2>1, <2>3, <2>5, <4>2 DEF Exists
      <4>3. QED
        BY <3>1, <4>1, <4>2
    <3>4. OnePlanPerPrice'
      BY <1>0, <2>1 DEF OnePlanPerPrice
    <3>5. ASSUME NEW a \in Admins \ {d} PROVE EditAgrees(a)'
      BY <1>e, <1>n, <2>1 DEF EditAgrees, Exists, Id
    <3>6. QED
      BY <1>d, <3>2, <3>3, <3>4, <3>5 DEF CatalogAgrees
  <2>6. QED
    BY <2>1, <2>4, <2>5
<1>8. QED
  BY <1>3, <1>4, <1>5, <1>6, <1>7 DEF Writing

(* A request of one statement. *)
LEMMA AtOnceAgrees ==
  ASSUME CatalogTyped, CatalogAgrees, NEW d \in Admins, AtOnce(d)
  PROVE  CatalogAgrees'
<1>0. /\ plan \in [Plans -> PlanRow] /\ edit \in [Admins -> EditRow] /\ Products \cap Plans = {}
  BY CatalogParts
<1>1. edit' = edit /\ license' = license /\ gone' \cap Plans = gone \cap Plans
  BY <1>0, AtOnces
<1>2. /\ plan' \in [Plans -> PlanRow]
      /\ \A p \in Plans : plan'[p].product = plan[p].product /\ plan'[p].price = plan[p].price
      /\ \A p \in Plans : ~ Exists(p) => plan'[p] = plan[p]
  <2>1. CASE plan' = plan
    BY <1>0, <2>1
  <2>2. ASSUME NEW p \in Plans, NEW n \in Quotas \cup {0}, Exists(p),
               plan' = [plan EXCEPT ![p] = [plan[p] EXCEPT !.quota = n]]
        PROVE  /\ plan' \in [Plans -> PlanRow]
               /\ \A x \in Plans : plan'[x].product = plan[x].product /\ plan'[x].price = plan[x].price
               /\ \A x \in Plans : ~ Exists(x) => plan'[x] = plan[x]
    <3> DEFINE r == [plan[p] EXCEPT !.quota = n]
    <3>1. r \in PlanRow /\ r.product = plan[p].product /\ r.price = plan[p].price
      BY <1>0, PlanParts
    <3> HIDE DEF r
    <3>2. plan' = [plan EXCEPT ![p] = r]
      BY <2>2 DEF r
    <3>3. QED
      BY <1>0, <2>2, <3>1, <3>2
  <2>3. QED
    BY <2>1, <2>2, AtOnces
<1>3. QED
  BY <1>0, <1>1, <1>2, PlansStay

-----------------------------------------------------------------------------
(* Plans, releases and the types of products, where one administrator      *)
(* works at a time.                                                        *)
(* What it means that a plan fits a type. *)
LEMMA FitsMeans ==
  ASSUME NEW p \in PlanRow, NEW t
  PROVE  Fits(p, t) <=> /\ p.activations \/ p.floating => ProductSupports(t, "activations")
                        /\ p.seats => ProductSupports(t, "seats")
<1>0. p.activations \in BOOLEAN /\ p.floating \in BOOLEAN /\ p.seats \in BOOLEAN
  BY PlanParts
<1>1. "activations" \in Needs(p) <=> p.activations \/ p.floating
  BY <1>0 DEF Needs
<1>2. "seats" \in Needs(p) <=> p.seats
  BY <1>0 DEF Needs
<1>3. Needs(p) \subseteq {"activations", "seats"}
  BY DEF Needs
<1>4. Fits(p, t) <=> \A c \in Needs(p) : ProductSupports(t, c)
  BY DEF Fits
<1>5. QED
  BY <1>1, <1>2, <1>3, <1>4

(* Whatever fits no type fits every type.                                  *)
LEMMA FitsNone ==
  ASSUME NEW p \in PlanRow, Fits(p, None), NEW t
  PROVE  Fits(p, t)
<1>1. ~ ProductSupports(None, "activations") /\ ~ ProductSupports(None, "seats")
  BY CatalogConstantsOK DEF ProductSupports, CatalogConstantsOK, Types
<1>2. QED
  BY <1>1, FitsMeans

(* What is in hand fits what is there.                                     *)
Suits(d) ==
  /\ edit[d].op = "saveProduct" =>
       /\ \A p \in Plans : Exists(p) /\ plan[p].product = Id(d) => Fits(plan[p], Row(d))
       /\ Id(d) \in live => ProductSupports(Row(d), "releases")
  /\ edit[d].op \in {"newPlan", "savePlan"} => Fits(Row(d), type[Row(d).product])
  /\ edit[d].op = "release" => ProductSupports(type[Id(d)], "releases")

AllFits == PlansFitProduct /\ ReleasesReachable /\ \A d \in Admins : Suits(d)

(* A request is opened on what fits. *)
LEMMA OpeningFits ==
  ASSUME CatalogTyped, AllFits, NEW d \in Admins, Opening(d)
  PROVE  AllFits'
<1>0. /\ PlansFitProduct /\ ReleasesReachable /\ \A a \in Admins : Suits(a)
      /\ edit \in [Admins -> EditRow] /\ plan \in [Plans -> PlanRow]
      /\ UNCHANGED <<type, plan, live, yanked, addon, license, attached, gone>>
  BY CatalogParts, Openings DEF AllFits, Rows
<1>1. PlansFitProduct' /\ ReleasesReachable'
  BY <1>0 DEF PlansFitProduct, ReleasesReachable, Exists
<1>2. \A a \in Admins \ {d} : edit'[a] = edit[a]
  BY <1>0, Openings
<1>3. \A a \in Admins \ {d} : Suits(a)'
  BY <1>0, <1>2 DEF Suits, Id, Row, Exists
<1>4. ASSUME NEW op, NEW id, NEW row, Holds(d, op, id, row)
      PROVE  edit'[d].op = op /\ Id(d)' = id /\ Row(d)' = row
  BY <1>0, <1>4 DEF Holds, Id, Row
<1>5. Suits(d)'
  <2>1. ASSUME NEW q \in Products, DraftRelease(d, q) PROVE Suits(d)'
    <3>1. Holds(d, "release", q, None) /\ ProductSupports(type[q], "releases")
      BY <2>1 DEF DraftRelease
    <3>2. QED
      BY <1>0, <1>4, <3>1 DEF Suits
  <2>2. ASSUME NEW q \in Products, NEW t \in Types, UpdateProduct(d, q, t) PROVE Suits(d)'
    <3>1. /\ Holds(d, "saveProduct", q, t)
          /\ t # type[q] => /\ \A p \in PlansOf(q) : Fits(plan[p], t)
                            /\ q \notin live \/ ProductSupports(t, "releases")
      BY <2>2 DEF UpdateProduct
    <3>2. \A p \in Plans : Exists(p) /\ plan[p].product = q => Fits(plan[p], t)
      BY <1>0, <3>1 DEF PlansFitProduct, PlansOf
    <3>3. q \in live => ProductSupports(t, "releases")
      BY <1>0, <3>1 DEF ReleasesReachable
    <3>4. QED
      BY <1>0, <1>4, <3>1, <3>2, <3>3 DEF Suits, Exists
  <2>3. ASSUME NEW p \in Plans, DeletePlan(d, p) PROVE Suits(d)'
    BY <1>4, <2>3 DEF DeletePlan, Suits
  <2>4. ASSUME NEW p \in Plans, NEW row \in PlanRequests, CreatePlan(d, p, row) PROVE Suits(d)'
    <3> DEFINE s == ProductSupports(type[row.product], "activations")
               r == [row EXCEPT !.activations = row.activations \/ s]
    <3>1. row \in PlanRow
      BY DEF PlanRequests, PlanRow, Asks
    <3>2. Holds(d, "newPlan", p, r) /\ Fits(row, type[row.product])
      BY <2>4, <3>1 DEF CreatePlan, PlanRow
    <3>3. r \in PlanRow /\ r.product = row.product
      <4>1. row.activations \/ s \in BOOLEAN
        BY <3>1, PlanParts DEF ProductSupports
      <4>2. QED
        BY <3>1, <4>1, PlanParts
    <3>4. /\ r.activations <=> row.activations \/ s
          /\ r.floating = row.floating /\ r.seats = row.seats
      BY <3>1 DEF PlanRow
    <3> HIDE DEF r
    <3>5. Fits(r, type[row.product])
      BY <3>1, <3>2, <3>3, <3>4, FitsMeans
    <3>6. QED
      BY <1>0, <1>4, <3>2, <3>3, <3>5 DEF Suits
  <2>5. ASSUME NEW p \in Plans, NEW c \in PlanChanges, UpdatePlan(d, p, c[1], c[2]) PROVE Suits(d)'
    <3> DEFINE r == [plan[p] EXCEPT ![c[1]] = c[2]]
               t == type[plan[p].product]
    <3>1. /\ Holds(d, "savePlan", p, r) /\ Exists(p)
          /\ c[1] \in {"activations", "seats", "floating"} /\ c[2] => Fits([NoPlan EXCEPT ![c[1]] = TRUE], t)
      BY <2>5 DEF UpdatePlan
    <3>2. plan[p] \in PlanRow /\ Fits(plan[p], t)
      BY <1>0, <3>1 DEF PlansFitProduct
    <3>3. r \in PlanRow /\ r.product = plan[p].product
      BY <3>2, PlanChanged
    <3>n. NoPlan \in PlanRow
      BY DEF NoPlan, PlanRow
    <3>4. \/ c[1] \in {"activations", "seats", "floating"} /\ c[2] \in BOOLEAN
          \/ c[1] = "price" /\ c[2] \in Prices \cup {None}
      BY CatalogConstantsOK DEF PlanChanges, CatalogConstantsOK
    <3>5. Fits(r, t)
      <4>1. CASE c[1] = "price"
        <5>1. r.activations = plan[p].activations /\ r.floating = plan[p].floating /\ r.seats = plan[p].seats
          BY <3>2, <4>1 DEF PlanRow
        <5>2. QED
          BY <3>2, <3>3, <5>1, FitsMeans
      <4>2. CASE c[1] = "activations" /\ c[2] \in BOOLEAN
        <5>1. r.activations = c[2] /\ r.floating = plan[p].floating /\ r.seats = plan[p].seats
          BY <3>2, <4>2 DEF PlanRow
        <5>2. c[2] => ProductSupports(t, "activations")
          <6>1. [NoPlan EXCEPT !["activations"] = TRUE] \in PlanRow /\ [NoPlan EXCEPT !["activations"] = TRUE].activations
            BY DEF NoPlan, PlanRow
          <6>2. QED
            BY <3>1, <4>2, <6>1, FitsMeans
        <5>3. QED
          BY <3>2, <3>3, <5>1, <5>2, FitsMeans
      <4>3. CASE c[1] = "seats" /\ c[2] \in BOOLEAN
        <5>1. r.seats = c[2] /\ r.floating = plan[p].floating /\ r.activations = plan[p].activations
          BY <3>2, <4>3 DEF PlanRow
        <5>2. c[2] => ProductSupports(t, "seats")
          <6>1. [NoPlan EXCEPT !["seats"] = TRUE] \in PlanRow /\ [NoPlan EXCEPT !["seats"] = TRUE].seats
            BY DEF NoPlan, PlanRow
          <6>2. QED
            BY <3>1, <4>3, <6>1, FitsMeans
        <5>3. QED
          BY <3>2, <3>3, <5>1, <5>2, FitsMeans
      <4>4. CASE c[1] = "floating" /\ c[2] \in BOOLEAN
        <5>1. r.floating = c[2] /\ r.seats = plan[p].seats /\ r.activations = plan[p].activations
          BY <3>2, <4>4 DEF PlanRow
        <5>2. c[2] => ProductSupports(t, "activations")
          <6>1. [NoPlan EXCEPT !["floating"] = TRUE] \in PlanRow /\ [NoPlan EXCEPT !["floating"] = TRUE].floating
            BY DEF NoPlan, PlanRow
          <6>2. QED
            BY <3>1, <4>4, <6>1, FitsMeans
        <5>3. QED
          BY <3>2, <3>3, <5>1, <5>2, FitsMeans
      <4>5. QED
        BY <3>4, <4>1, <4>2, <4>3, <4>4
    <3> HIDE DEF r
    <3>6. QED
      BY <1>0, <1>4, <3>1, <3>3, <3>5 DEF Suits
  <2>6. ASSUME NEW p \in Plans, NEW l \in Licenses, CreateLicense(d, l, p) \/ ChangeLicensePlan(d, l, p)
        PROVE  Suits(d)'
    <3>1. \E row : Holds(d, "saveLicense", l, row)
      BY <2>6 DEF CreateLicense, ChangeLicensePlan
    <3>2. QED
      BY <1>4, <3>1 DEF Suits
  <2>7. QED
    BY <2>1, <2>2, <2>3, <2>4, <2>5, <2>6 DEF Opening
<1>6. QED
  BY <1>1, <1>3, <1>5 DEF AllFits

(* Where nobody has anything in hand, what is in hand fits.                *)
LEMMA NothingInHand ==
  ASSUME \A a \in Admins : edit'[a] = NoEdit
  PROVE  \A a \in Admins : Suits(a)'
BY DEF Suits, NoEdit

(* The request in hand is written, on what it was read from.               *)
LEMMA WritingFits ==
  ASSUME CatalogTyped, AllFits, NEW d \in Admins, AdminMay(d), Writing(d)
  PROVE  AllFits'
<1>0. /\ PlansFitProduct /\ ReleasesReachable /\ Suits(d)
      /\ edit \in [Admins -> EditRow] /\ plan \in [Plans -> PlanRow] /\ edit[d] \in EditRow
      /\ type \in [Products -> Types \cup {None}] /\ live \subseteq Products
      /\ None \notin Products
  BY CatalogParts DEF AllFits
<1>1. \A a \in Admins : Suits(a)'
  <2>1. \A a \in Admins : edit'[a] = NoEdit
    BY <1>0, Writings DEF AdminMay
  <2>2. QED
    BY <2>1, NothingInHand
<1>2. ASSUME PlansFitProduct', ReleasesReachable' PROVE AllFits'
  BY <1>1, <1>2 DEF AllFits
<1>3. CASE SaveProduct(d)
  <2>1. /\ edit[d].op = "saveProduct" /\ plan' = plan /\ live' = live
        /\ type' = [type EXCEPT ![Id(d)] = IF type[Id(d)] = None THEN None ELSE Row(d)]
    BY <1>3 DEF SaveProduct, Writes
  <2>2. Id(d) \in Products
    BY <1>0, <2>1, EditParts DEF Id
  <2>3. /\ \A p \in Plans : Exists(p) /\ plan[p].product = Id(d) => Fits(plan[p], Row(d))
        /\ Id(d) \in live => ProductSupports(Row(d), "releases")
    BY <1>0, <2>1 DEF Suits
  <2>4. /\ \A q \in Products \ {Id(d)} : type'[q] = type[q]
        /\ type'[Id(d)] = type[Id(d)] \/ type'[Id(d)] = Row(d)
    BY <1>0, <2>1, <2>2
  <2>5. PlansFitProduct'
    <3> SUFFICES ASSUME NEW p \in Plans, Exists(p) PROVE Fits(plan[p], type'[plan[p].product])
      BY <2>1 DEF PlansFitProduct, Exists
    <3>1. plan[p].product \in Products /\ Fits(plan[p], type[plan[p].product])
      BY <1>0, PlanParts DEF PlansFitProduct, Exists
    <3>2. QED
      BY <2>3, <2>4, <3>1
  <2>6. ReleasesReachable'
    <3>1. \A q \in live : ProductSupports(type[q], "releases")
      BY <1>0 DEF ReleasesReachable
    <3>2. \A q \in live : ProductSupports(type'[q], "releases")
      BY <1>0, <2>3, <2>4, <3>1
    <3>3. QED
      BY <2>1, <3>2 DEF ReleasesReachable
  <2>7. QED
    BY <1>2, <2>5, <2>6
<1>4. ASSUME type' = type, live' = live,
             NEW p \in Plans, NEW r \in PlanRow, r.product # None => Fits(r, type[r.product]),
             plan' = [plan EXCEPT ![p] = r]
      PROVE  AllFits'
  <2>1. plan'[p] = r /\ \A x \in Plans \ {p} : plan'[x] = plan[x]
    BY <1>0, <1>4
  <2>2. PlansFitProduct'
    BY <1>0, <1>4, <2>1 DEF PlansFitProduct, Exists
  <2>3. ReleasesReachable'
    BY <1>0, <1>4 DEF ReleasesReachable
  <2>4. QED
    BY <1>2, <2>2, <2>3
<1>5. ASSUME type' = type, live' = live, plan' = plan PROVE AllFits'
  <2>1. PlansFitProduct' /\ ReleasesReachable'
    BY <1>0, <1>5 DEF PlansFitProduct, Exists, ReleasesReachable
  <2>2. QED
    BY <1>2, <2>1
<1>6. CASE InsertPlan(d)
  <2>1. /\ edit[d].op = "newPlan" /\ type' = type /\ live' = live
        /\ plan' = plan \/ plan' = [plan EXCEPT ![Id(d)] = Row(d)]
    BY <1>6 DEF InsertPlan, Writes
  <2>2. Id(d) \in Plans /\ Row(d) \in PlanRow /\ Fits(Row(d), type[Row(d).product])
    BY <1>0, <2>1, EditParts DEF Suits, Id, Row
  <2>3. QED
    BY <1>4, <1>5, <2>1, <2>2
<1>7. CASE SavePlan(d)
  <2> DEFINE n == plan[Id(d)].quota
             r == [Row(d) EXCEPT !.quota = n]
  <2>1. /\ edit[d].op = "savePlan" /\ type' = type /\ live' = live
        /\ plan' = plan \/ plan' = [plan EXCEPT ![Id(d)] = r]
    BY <1>7 DEF SavePlan, Writes, Stored
  <2>2. Id(d) \in Plans /\ Row(d) \in PlanRow /\ Fits(Row(d), type[Row(d).product])
    BY <1>0, <2>1, EditParts DEF Suits, Id, Row
  <2>3. n \in Quotas \cup {0}
    BY <1>0, <2>2 DEF PlanRow
  <2>4. r \in PlanRow /\ r.product = Row(d).product
    BY <2>2, <2>3, PlanParts
  <2>5. r.activations = Row(d).activations /\ r.floating = Row(d).floating /\ r.seats = Row(d).seats
    BY <2>2 DEF PlanRow
  <2>6. Fits(r, type[r.product])
    BY <2>2, <2>4, <2>5, FitsMeans
  <2> HIDE DEF r
  <2>7. QED
    BY <1>4, <1>5, <2>1, <2>2, <2>4, <2>6
<1>8. CASE DropPlan(d)
  <2>1. /\ edit[d].op = "dropPlan" /\ type' = type /\ live' = live
        /\ plan' = plan \/ plan' = [plan EXCEPT ![Id(d)] = NoPlan]
    BY <1>8 DEF DropPlan, Writes
  <2>2. Id(d) \in Plans /\ NoPlan \in PlanRow /\ NoPlan.product = None
    BY <1>0, <2>1, EditParts DEF Id, NoPlan, PlanRow
  <2>3. QED
    BY <1>4, <1>5, <2>1, <2>2
<1>9. CASE SaveLicense(d)
  BY <1>5, <1>9 DEF SaveLicense
<1>10. CASE SaveRelease(d)
  <2>1. /\ edit[d].op = "release" /\ type' = type /\ plan' = plan
        /\ live' = live \/ live' = live \cup {Id(d)}
    BY <1>10 DEF SaveRelease, Writes
  <2>2. ProductSupports(type[Id(d)], "releases")
    BY <1>0, <2>1 DEF Suits
  <2>3. PlansFitProduct' /\ ReleasesReachable'
    BY <1>0, <2>1, <2>2 DEF PlansFitProduct, Exists, ReleasesReachable
  <2>4. QED
    BY <1>2, <2>3
<1>11. QED
  BY <1>3, <1>6, <1>7, <1>8, <1>9, <1>10 DEF Writing

(* A request of one statement keeps what fits. *)
LEMMA AtOnceFits ==
  ASSUME CatalogTyped, AllFits, NEW d \in Admins, AdminMay(d), AtOnce(d)
  PROVE  AllFits'
<1>0. /\ PlansFitProduct /\ ReleasesReachable
      /\ plan \in [Plans -> PlanRow] /\ type \in [Products -> Types \cup {None}] /\ live \subseteq Products
      /\ None \notin Products
  BY CatalogParts DEF AllFits
<1>1. \A a \in Admins : Suits(a)'
  <2>1. \A a \in Admins : edit'[a] = NoEdit
    BY AtOnces DEF AdminMay
  <2>2. QED
    BY <2>1, NothingInHand
<1>2. ASSUME PlansFitProduct', ReleasesReachable' PROVE AllFits'
  BY <1>1, <1>2 DEF AllFits
<1>n. ~ ProductSupports(None, "releases")
  BY CatalogConstantsOK DEF ProductSupports, CatalogConstantsOK, Types
<1>3. ASSUME NEW q \in Products, DeleteProduct(d, q) PROVE AllFits'
  <2>1. plan' = plan /\ live' = live /\ type' = [type EXCEPT ![q] = None] /\ PlansOf(q) = {} /\ q \notin live
    BY <1>3 DEF DeleteProduct
  <2>2. \A x \in Products \ {q} : type'[x] = type[x]
    BY <1>0, <2>1
  <2>3. PlansFitProduct'
    <3> SUFFICES ASSUME NEW p \in Plans, Exists(p) PROVE Fits(plan[p], type'[plan[p].product])
      BY <2>1 DEF PlansFitProduct, Exists
    <3>1. plan[p].product \in Products /\ Fits(plan[p], type[plan[p].product]) /\ plan[p].product # q
      BY <1>0, <2>1, PlanParts DEF PlansFitProduct, Exists, PlansOf
    <3>2. QED
      BY <2>2, <3>1
  <2>4. ReleasesReachable'
    BY <1>0, <2>1, <2>2 DEF ReleasesReachable
  <2>5. QED
    BY <1>2, <2>3, <2>4
<1>4. ASSUME NEW q \in Products, WithdrawRelease(d, q) PROVE AllFits'
  <2>1. PlansFitProduct' /\ ReleasesReachable'
    BY <1>0, <1>4 DEF WithdrawRelease, PlansFitProduct, Exists, ReleasesReachable
  <2>2. QED
    BY <1>2, <2>1
<1>5. ASSUME NEW q \in Products, NEW t \in Types, CreateProduct(d, q, t) PROVE AllFits'
  <2>1. plan' = plan /\ live' = live /\ type' = [type EXCEPT ![q] = t] /\ type[q] = None
    BY <1>5 DEF CreateProduct
  <2>2. \A x \in Products \ {q} : type'[x] = type[x]
    BY <1>0, <2>1
  <2>3. PlansFitProduct'
    <3> SUFFICES ASSUME NEW p \in Plans, Exists(p) PROVE Fits(plan[p], type'[plan[p].product])
      BY <2>1 DEF PlansFitProduct, Exists
    <3>1. plan[p].product \in Products /\ Fits(plan[p], type[plan[p].product]) /\ plan[p] \in PlanRow
      BY <1>0, PlanParts DEF PlansFitProduct, Exists
    <3>2. CASE plan[p].product = q
      BY <2>1, <3>1, <3>2, FitsNone
    <3>3. CASE plan[p].product # q
      BY <2>2, <3>1, <3>3
    <3>4. QED
      BY <3>2, <3>3
  <2>4. ReleasesReachable'
    <3>1. q \notin live
      BY <1>0, <1>n, <2>1 DEF ReleasesReachable
    <3>2. QED
      BY <1>0, <2>1, <2>2, <3>1 DEF ReleasesReachable
  <2>5. QED
    BY <1>2, <2>3, <2>4
<1>6. ASSUME NEW p \in Plans, NEW n \in Quotas \cup {0}, SetEntitlement(d, p, n) PROVE AllFits'
  <2> DEFINE r == [plan[p] EXCEPT !.quota = n]
  <2>1. type' = type /\ live' = live /\ Exists(p) /\ plan' = [plan EXCEPT ![p] = r]
    BY <1>6 DEF SetEntitlement
  <2>2. plan[p] \in PlanRow /\ r \in PlanRow /\ r.product = plan[p].product
    BY <1>0, PlanParts
  <2>3. r.activations = plan[p].activations /\ r.floating = plan[p].floating /\ r.seats = plan[p].seats
    BY <2>2 DEF PlanRow
  <2>4. Fits(r, type[r.product])
    <3>1. Fits(plan[p], type[plan[p].product])
      BY <1>0, <2>1 DEF PlansFitProduct
    <3>2. QED
      BY <2>2, <2>3, <3>1, FitsMeans
  <2> HIDE DEF r
  <2>5. plan'[p] = r /\ \A x \in Plans \ {p} : plan'[x] = plan[x]
    BY <1>0, <2>1
  <2>6. PlansFitProduct' /\ ReleasesReachable'
    BY <1>0, <2>1, <2>4, <2>5 DEF PlansFitProduct, Exists, ReleasesReachable
  <2>7. QED
    BY <1>2, <2>6
<1>7. CASE \/ \E q \in Products, a \in Addons, n \in Quotas : SetAddon(d, a, q, n)
           \/ \E a \in Addons : \/ DeleteAddon(d, a)
                                \/ \E l \in Licenses : AddLicenseAddon(d, l, a) \/ RemoveLicenseAddon(d, l, a)
  <2>1. type' = type /\ live' = live /\ plan' = plan
    BY <1>7 DEF SetAddon, DeleteAddon, AddLicenseAddon, RemoveLicenseAddon
  <2>2. PlansFitProduct' /\ ReleasesReachable'
    BY <1>0, <2>1 DEF PlansFitProduct, Exists, ReleasesReachable
  <2>3. QED
    BY <1>2, <2>2
<1>8. QED
  BY <1>3, <1>4, <1>5, <1>6, <1>7 DEF AtOnce

-----------------------------------------------------------------------------
(* In the beginning only products are there, and nothing is in hand.       *)
LEMMA CatalogStarts ==
  ASSUME CatalogInit
  PROVE  CatalogTyped /\ CatalogAgrees /\ AllFits
<1>0. /\ NoPlan \in PlanRow /\ NoPlan.product = None /\ NoPlan.price = None
      /\ NoLicense \in LicenseRow /\ NoLicense.plan = None
      /\ NoAddon \in AddonRow /\ NoEdit \in EditRow /\ NoEdit.op = "none"
  BY DEF NoPlan, PlanRow, NoLicense, LicenseRow, NoAddon, AddonRow, NoEdit, EditRow
<1>1. /\ \A p \in Plans : plan[p] = NoPlan
      /\ \A l \in Licenses : license[l] = NoLicense
      /\ \A d \in Admins : edit[d] = NoEdit
      /\ live = {} /\ yanked = {} /\ attached = {} /\ gone = {}
  BY DEF CatalogInit
<1>2. /\ type \in [Products -> Types \cup {None}] /\ plan \in [Plans -> PlanRow]
      /\ license \in [Licenses -> LicenseRow] /\ addon \in [Addons -> AddonRow]
      /\ edit \in [Admins -> EditRow]
  <2>1. type \in [Products -> Types \cup {None}]
    BY DEF CatalogInit, Types
  <2>2. plan \in [Plans -> PlanRow] /\ license \in [Licenses -> LicenseRow]
    BY <1>0 DEF CatalogInit
  <2>3. addon \in [Addons -> AddonRow] /\ edit \in [Admins -> EditRow]
    BY <1>0 DEF CatalogInit
  <2>4. QED
    BY <2>1, <2>2, <2>3
<1>3. edits \in 0..MaxEdits
  BY CatalogConstantsOK DEF CatalogInit, CatalogConstantsOK
<1>4. CatalogTyped
  <2>1. \A p \in Plans : plan[p] \in PlanRow
    BY <1>2
  <2>2. CatalogTypeOK
    BY <1>1, <1>2, <1>3, <2>1 DEF CatalogTypeOK, PlanRow, LicenseRow, AddonRow
  <2>3. QED
    BY <1>2, <2>2 DEF CatalogTyped
<1>5. CatalogAgrees
  <2>1. RowsAgree /\ LicenseFitsPlan /\ OnePlanPerPrice
    BY <1>0, <1>1 DEF RowsAgree, LicenseFitsPlan, OnePlanPerPrice
  <2>2. \A d \in Admins : EditAgrees(d)
    BY <1>0, <1>1 DEF EditAgrees
  <2>3. QED
    BY <2>1, <2>2 DEF CatalogAgrees
<1>6. AllFits
  BY <1>0, <1>1 DEF AllFits, PlansFitProduct, Exists, ReleasesReachable, Suits
<1>7. QED
  BY <1>4, <1>5, <1>6

(* What the catalogue is like, under the setting chosen.                   *)
CatalogWell ==
  /\ CatalogTyped /\ CatalogAgrees
  /\ focus = "one admin" => AllFits

(* A request of an administrator, alone or among others. *)
LEMMA AdminKeeps ==
  ASSUME CatalogTyped, CatalogAgrees, NEW d \in Admins, ServeAdmin(d)
  PROVE  CatalogTyped' /\ CatalogAgrees' /\ (AllFits /\ AdminMay(d) => AllFits')
<1>1. CatalogTyped'
  BY CatalogKeepsTypes
<1>2. CASE Opening(d)
  BY <1>1, <1>2, OpeningAgrees, OpeningFits
<1>3. CASE Writing(d)
  BY <1>1, <1>3, WritingAgrees, WritingFits
<1>4. CASE AtOnce(d)
  BY <1>1, <1>4, AtOnceAgrees, AtOnceFits
<1>5. QED
  BY <1>2, <1>3, <1>4, ThreeKinds

(* Whatever moves, the catalogue stays well. *)
LEMMA CatalogStep ==
  ASSUME CatalogWell, [Next]_officeVars
  PROVE  CatalogWell'
<1>1. CASE UNCHANGED catalogVars /\ UNCHANGED focus
  <2>1. CatalogTyped' = CatalogTyped
    BY <1>1 DEF catalogVars, CatalogTyped, CatalogTypeOK
  <2>2. CatalogAgrees' = CatalogAgrees
    BY <1>1 DEF catalogVars, CatalogAgrees, RowsAgree, LicenseFitsPlan, OnePlanPerPrice, EditAgrees,
       Exists, Id, Row
  <2>3. AllFits' = AllFits
    BY <1>1 DEF catalogVars, AllFits, PlansFitProduct, ReleasesReachable, Suits, Exists, Id, Row
  <2>4. QED
    BY <1>1, <2>1, <2>2, <2>3 DEF CatalogWell
<1>2. CASE UNCHANGED focus /\ focus = "admins" /\ CatalogNext
  BY <1>2, AdminKeeps DEF CatalogNext, CatalogWell
<1>3. CASE UNCHANGED focus /\ focus = "one admin" /\ \E d \in Admins : AdminMay(d) /\ ServeAdmin(d)
  BY <1>3, AdminKeeps DEF CatalogWell
<1>4. QED
  BY <1>1, <1>2, <1>3 DEF Next, CatalogMoves, officeVars

(* The catalogue stays well. *)
LEMMA CatalogHolds == Spec => []CatalogWell
<1>1. Init => CatalogWell
  BY CatalogStarts DEF Init, CatalogWell
<1>2. CatalogWell /\ [Next]_officeVars => CatalogWell'
  BY CatalogStep
<1>3. QED
  BY <1>1, <1>2, PTL DEF Spec

(* However the requests of administrators overlap, the plan of a license   *)
(* exists and is of its product, and a Stripe price names one plan, because*)
(* the foreign keys and the unique index refuse what a check made earlier  *)
(* let pass (store/admin.go, admin.go:564-586, 1864-1925).  The type of a  *)
(* product goes with its plans and releases when one request at a time is  *)
(* served; a check and its write are two statements.                       *)
THEOREM CatalogIsConsistent == Spec => []CatalogConsistent
<1>1. CatalogWell => CatalogConsistent
  BY DEF CatalogWell, CatalogAgrees, AllFits, CatalogConsistent
<1>2. QED
  BY <1>1, CatalogHolds, PTL

-----------------------------------------------------------------------------
(* The five components side by side.                                       *)
(* What is proved of the releases alone holds in the back office.          *)
LEMMA OfficeHasReleases == Spec => ReleasesSpec
<1>1. Init => ReleasesInit
  BY DEF Init
<1>2. [Next]_officeVars => [ReleasesNext]_releaseVars
  BY DEF Next, officeVars
<1>3. QED
  BY <1>1, <1>2, PTL DEF Spec, ReleasesSpec

(* What is proved of the feeds alone holds in the back office.             *)
LEMMA OfficeHasFeeds == Spec => ReleaseFeedSpec
<1>1. Init => ReleaseFeedInit
  BY DEF Init
<1>2. [Next]_officeVars => [ReleaseFeedNext]_feedVars
  BY DEF Next, officeVars
<1>3. QED
  BY <1>1, <1>2, PTL DEF Spec, ReleaseFeedSpec

(* The artifacts of a release that was published never change again: every *)
(* write of one asks for a draft (store/release.go:590-594).               *)
THEOREM OfficeKeepsShipped == Spec => ShippedIsFrozen
BY OfficeHasReleases, ShippedStaysFrozen, PTL

(* Where signing is required, what is published is signed, by one key,     *)
(* however publications, uploads and rotations overlap (service/release.go,*)
(* store/release.go:183-186): unless the final update reads the artifacts  *)
(* before it waits for the row's lock, as snapshotGate has it.             *)
THEOREM OfficeShipsUnderOneKey == Spec => []OneKey
BY OfficeHasReleases, ShipsUnderOneKey, PTL

(* A client is offered the highest version it may see and can install, as  *)
(* long as no channel has more of them than the window, none older on a    *)
(* less stable channel, and can download what is listed                    *)
(* (service/release.go:835-857, store/release.go:373-380).                 *)
THEOREM OfficeFeedIsTrue == Spec => []FeedIsTrue
<1>1. /\ OfferedIsHighest /\ NewerOnUnstable /\ ListedIsDownloadable => FeedIsTrue
  BY DEF FeedIsTrue
<1>2. QED
  BY <1>1, OfficeHasFeeds, FeedsAreTrue, PTL

(* Every component keeps its types, and an owner is demoted only by the    *)
(* request that holds the lock its count was made under.                   *)
THEOREM OfficeTypes == Spec => []TypesAndLocks
<1>1. SignInWell => SignInTypeOK
  BY DEF SignInWell, SignInTyped
<1>2. CatalogWell => CatalogTypeOK
  BY DEF CatalogWell, CatalogTyped
<1>3. /\ ReleasesTypeOK /\ ReleaseFeedTypeOK /\ TeamTypeOK /\ LockHeld
      /\ SignInTypeOK /\ CatalogTypeOK
      => TypesAndLocks
  BY DEF TypesAndLocks
<1>4. QED
  BY <1>1, <1>2, <1>3, OfficeHasReleases, ReleasesTypeCorrect, OfficeHasFeeds, FeedsAreTrue,
     TeamHolds, SignInHolds, CatalogHolds, PTL
=============================================================================
