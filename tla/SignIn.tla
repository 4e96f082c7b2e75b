------------------------------- MODULE SignIn -------------------------------
(***************************************************************************)
(* Signing in to the portal and the dashboard, for one e-mail address: the *)
(* one-time codes that are mailed and verified (handler/otp.go), the       *)
(* session a login issues, its refresh tokens that rotate, and the logout  *)
(* (handler/oauth.go, store.go).  A request is handled by one of several   *)
(* desks; it reads, compares, counts and marks in statements of their own. *)
(*                                                                         *)
(* The JWT of a session is not modelled: it lives for a day and nothing    *)
(* revokes it.  A code expires when the window that limits the sending of  *)
(* codes has passed, ten minutes both.                                     *)
(***************************************************************************)
EXTENDS Integers, FiniteSets

CONSTANTS Clerks,        \* the requests handled at once
          MaxAttempts,   \* guesses a code allows (5 in the code)
          MaxRecent,     \* codes sent in a window (3 in the code)
          MaxCodes, MaxTokens, MaxSignInFaults  \* bounds of the run

ASSUME SignInConstantsOK ==
    /\ IsFiniteSet(Clerks) /\ Clerks # {}
    /\ MaxAttempts \in Nat \ {0} /\ MaxRecent \in Nat \ {0}
    /\ MaxCodes \in Nat /\ MaxTokens \in Nat /\ MaxSignInFaults \in Nat

VARIABLES code,      \* otp_codes
          token,     \* refresh_tokens of the user
          closed,    \* signup_mode is "licensed_only"
          account,   \* the address has an account or a license
          clerk,     \* clerk -> the request it handles
          logins,    \* logins granted
          wiped,     \* logins granted before the latest deletion of all tokens
          guesses,   \* code -> codes compared with it (ghost)
          granted,   \* code -> logins it gave (ghost)
          misses     \* statements that failed

signInVars == <<code, token, closed, account, clerk, logins, wiped, guesses, granted, misses>>

Codes == 1..MaxCodes
Tokens == 1..MaxTokens
NoCode == [state |-> "none", real |-> FALSE, attempts |-> 0]
NoToken == [state |-> "none", login |-> 0]
Free == [at |-> "free", code |-> 0, match |-> FALSE, login |-> 0]

SignInInit == /\ code = [i \in Codes |-> NoCode]
              /\ token = [i \in Tokens |-> NoToken]
              /\ closed = FALSE /\ account = FALSE
              /\ clerk = [d \in Clerks |-> Free]
              /\ logins = 0 /\ wiped = 0
              /\ guesses = [i \in Codes |-> 0] /\ granted = [i \in Codes |-> 0]
              /\ misses = 0

CodeVars == <<code, guesses, granted>>
TokenVars == <<token, logins, wiped>>

At(d, step) == clerk[d].at = step
Moves(d, request) == clerk' = [clerk EXCEPT ![d] = request]
SignupAllowed == ~closed \/ account
Fails == misses < MaxSignInFaults /\ misses' = misses + 1
Runs == UNCHANGED misses

(* Codes of the last ten minutes, used or not; and those a login may use. *)
CountRecentOTPCodes == Cardinality({i \in Codes : code[i].state \in {"sent", "used"}})
ValidOTPCodes_AnyAttempts == {i \in Codes : code[i].state = "sent"}
ValidOTPCodes == {i \in Codes : code[i].state = "sent" /\ code[i].attempts < MaxAttempts}

(***************************************************************************)
(* One-time codes.                                                         *)
(***************************************************************************)
OTPSend(d) ==
    /\ At(d, "free") /\ CountRecentOTPCodes < MaxRecent
    /\ Moves(d, [Free EXCEPT !.at = "send", !.match = SignupAllowed])
    /\ Runs /\ UNCHANGED <<CodeVars, TokenVars, closed, account>>

(* A blocked request stores a code that no guess can match. *)
CreateOTPCode(d) ==
    /\ At(d, "send")
    /\ \E i \in Codes : /\ code[i].state = "none" /\ \A j \in Codes : j < i => code[j].state # "none"
                        /\ code' = [code EXCEPT ![i] = [NoCode EXCEPT !.state = "sent", !.real = clerk[d].match]]
    /\ Moves(d, Free)
    /\ Runs /\ UNCHANGED <<guesses, granted, TokenVars, closed, account>>

OTPVerify(d, right) ==
    /\ At(d, "free")
    /\ \E i \in ValidOTPCodes :
          /\ \A j \in ValidOTPCodes : j <= i
          /\ guesses' = [guesses EXCEPT ![i] = @ + 1]
          /\ Moves(d, [Free EXCEPT !.at = "count", !.code = i, !.match = right /\ code[i].real])
    /\ Runs /\ UNCHANGED <<code, granted, TokenVars, closed, account>>

Counted(d) == Moves(d, IF clerk[d].match THEN [clerk[d] EXCEPT !.at = "mark"] ELSE Free)
Increment(i) == code' = [code EXCEPT ![i].attempts = @ + 1]

IncrementOTPAttempts_OnlyMatches(d) ==
    /\ At(d, "count") /\ Counted(d)
    /\ \/ Runs /\ IF clerk[d].match THEN Increment(clerk[d].code) ELSE UNCHANGED code
       \/ Fails /\ UNCHANGED code
    /\ UNCHANGED <<guesses, granted, TokenVars, closed, account>>

IncrementOTPAttempts(d) ==
    /\ At(d, "count") /\ Counted(d)
    /\ \/ Runs /\ Increment(clerk[d].code)
       \/ Fails /\ UNCHANGED code
    /\ UNCHANGED <<guesses, granted, TokenVars, closed, account>>

(* A mark on a code that expired meanwhile leaves it expired. *)
Used(i) == code' = [code EXCEPT ![i].state = IF @ = "sent" THEN "used" ELSE @]

MarkOTPUsed_Late(d) ==
    /\ At(d, "mark")
    /\ Moves(d, [clerk[d] EXCEPT !.at = "admit"]) /\ Runs /\ UNCHANGED code
    /\ UNCHANGED <<guesses, granted, TokenVars, closed, account>>

MarkOTPUsed(d) ==
    /\ At(d, "mark")
    /\ Moves(d, [clerk[d] EXCEPT !.at = "admit"])
    /\ \/ Runs /\ Used(clerk[d].code)
       \/ Fails /\ UNCHANGED code
    /\ UNCHANGED <<guesses, granted, TokenVars, closed, account>>

Admit(d) ==
    /\ At(d, "admit")
    /\ IF SignupAllowed
       THEN /\ account' = TRUE /\ logins' = logins + 1
            /\ granted' = [granted EXCEPT ![clerk[d].code] = @ + 1]
            /\ Moves(d, [Free EXCEPT !.at = "issue", !.login = logins + 1])
       ELSE Moves(d, Free) /\ UNCHANGED <<account, logins, granted>>
    /\ Runs /\ UNCHANGED <<code, guesses, token, wiped, closed>>

(* Ten minutes pass without another code: the codes expire and are deleted. *)
CleanExpiredOTPs ==
    /\ \E i \in Codes : code[i].state \in {"sent", "used"}
    /\ code' = [i \in Codes |-> IF code[i].state = "none" THEN NoCode ELSE [NoCode EXCEPT !.state = "gone"]]
    /\ Runs /\ UNCHANGED <<guesses, granted, TokenVars, closed, account, clerk>>

SetSignupMode ==
    /\ ~closed /\ closed' = TRUE
    /\ Runs /\ UNCHANGED <<CodeVars, TokenVars, account, clerk>>

(***************************************************************************)
(* Sessions.                                                               *)
(***************************************************************************)

(* The error of the insert is ignored: the session has no refresh token. *)
IssueSession(d) ==
    /\ At(d, "issue")
    /\ \/ \E t \in Tokens :
            /\ token[t].state = "none" /\ \A s \in Tokens : s < t => token[s].state # "none"
            /\ token' = [token EXCEPT ![t] = [state |-> "live", login |-> clerk[d].login]]
            /\ Runs
       \/ UNCHANGED token /\ Fails
    /\ Moves(d, Free)
    /\ UNCHANGED <<CodeVars, logins, wiped, closed, account>>

(* RotateRefreshToken, under the lock of the token's row. *)
Refresh_Rereads(d, t) ==
    /\ At(d, "free") /\ token[t].state \in {"live", "revoked"}
    /\ token' = [token EXCEPT ![t].state = "revoked"]
    /\ Moves(d, [Free EXCEPT !.at = "issue", !.login = token[t].login])
    /\ Runs /\ UNCHANGED <<CodeVars, logins, wiped, closed, account>>

Refresh(d, t) ==
    /\ At(d, "free") /\ token[t].state \in {"live", "revoked"}
    /\ token' = [token EXCEPT ![t].state = "revoked"]
    /\ Moves(d, IF token[t].state = "revoked" THEN [Free EXCEPT !.at = "wipe"]
                ELSE [Free EXCEPT !.at = "issue", !.login = token[t].login])
    /\ Runs /\ UNCHANGED <<CodeVars, logins, wiped, closed, account>>

Gone(t) == IF token[t].state = "none" THEN NoToken ELSE [NoToken EXCEPT !.state = "gone"]

DeleteUserRefreshTokens_Live ==
    /\ token' = [t \in Tokens |-> IF token[t].state = "revoked" THEN Gone(t) ELSE token[t]]
    /\ wiped' = logins

DeleteUserRefreshTokens ==
    /\ token' = [t \in Tokens |-> Gone(t)]
    /\ wiped' = logins

(* A rotated token came back: every token of the user goes. *)
WipeReused(d) ==
    /\ At(d, "wipe") /\ DeleteUserRefreshTokens /\ Moves(d, Free)
    /\ Runs /\ UNCHANGED <<CodeVars, logins, closed, account>>

Logout(d) ==
    /\ At(d, "free") /\ logins > 0 /\ DeleteUserRefreshTokens
    /\ Runs /\ UNCHANGED <<CodeVars, logins, closed, account, clerk>>

(* A token expires, and the clean-up deletes it. *)
CleanExpiredRefreshTokens(t) ==
    /\ token[t].state \in {"live", "revoked"}
    /\ token' = [token EXCEPT ![t] = Gone(t)]
    /\ Runs /\ UNCHANGED <<CodeVars, logins, wiped, closed, account, clerk>>

TimePasses ==
    \/ CleanExpiredOTPs \/ SetSignupMode
    \/ \E t \in Tokens : CleanExpiredRefreshTokens(t)

ServeClerk(d) ==
    \/ OTPSend(d) \/ CreateOTPCode(d) \/ IncrementOTPAttempts(d) \/ MarkOTPUsed(d)
    \/ Admit(d) \/ IssueSession(d) \/ WipeReused(d) \/ Logout(d)
    \/ \E right \in BOOLEAN : OTPVerify(d, right)
    \/ \E t \in Tokens : Refresh(d, t)

SignInNext == TimePasses \/ \E d \in Clerks : ServeClerk(d)

SignInSpec == SignInInit /\ [][SignInNext]_signInVars

(***************************************************************************)
(* Properties.                                                             *)
(***************************************************************************)
SignInTypeOK ==
    /\ code \in [Codes -> [state : {"none", "sent", "used", "gone"}, real : BOOLEAN, attempts : Nat]]
    /\ token \in [Tokens -> [state : {"none", "live", "revoked", "gone"}, login : Nat]]
    /\ closed \in BOOLEAN /\ account \in BOOLEAN
    /\ clerk \in [Clerks -> [at : {"free", "send", "count", "mark", "admit", "issue", "wipe"},
                            code : 0..MaxCodes, match : BOOLEAN, login : Nat]]
    /\ logins \in Nat /\ wiped \in 0..logins /\ misses \in 0..MaxSignInFaults
    /\ guesses \in [Codes -> Nat] /\ granted \in [Codes -> Nat]

(* A code is compared with at most five guesses, and one more for every other
   of n requests that read it before the fifth was counted or whose count was
   lost: the attempt is read, compared and counted in statements of their own
   (handler/otp.go). *)
GuessesBounded(n) == \A i \in Codes : guesses[i] <= MaxAttempts + n - 1 + misses

(* A code gives one login, and one more for every other of n requests that read
   it before it was marked or whose mark was lost. *)
LoginsBounded(n) == \A i \in Codes : granted[i] <= n + misses

(* Refreshing never multiplies sessions: the live tokens and the requests
   about to issue one are at most the logins granted, because a token rotates
   under the lock of its row and once only. *)
SessionsNeverMultiply ==
    Cardinality({t \in Tokens : token[t].state = "live"}) + Cardinality({d \in Clerks : At(d, "issue")})
        <= logins

(* A logout, or a rotated token that comes back, ends every session that was
   granted before: no live token goes back to one of those logins. *)
WipeIsFinal == \A t \in Tokens : token[t].state = "live" => token[t].login > wiped
==============================================================================
