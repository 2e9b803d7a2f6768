---------------------------- MODULE LoginSessions ---------------------------
(***************************************************************************)
(* Logins, verified requests and logouts (identity): AuthService           *)
(* (app/auth_service.go) over the session store in Redis                   *)
(* (infra/session/redis_store.go), whose keys are a version for each       *)
(* account and a flag for each revoked token, behind RequireAuth           *)
(* (infra/middleware/require_auth.go).                                     *)
(*                                                                         *)
(* A call is one request, and a token is named by the login it came from.  *)
(* Each command of Redis is a step, and may fail before or after its       *)
(* effect.  Forged tokens and wrong passwords change nothing and are left  *)
(* out.                                                                    *)
(***************************************************************************)
EXTENDS Naturals

CONSTANTS
  Calls,
  Accounts,
  NoCall,
  NoAccount

ASSUME NullAssumption == NoCall \notin Calls /\ NoAccount \notin Accounts

VARIABLES
  revokeAll,   \* IDENTITY_REVOKE_ALL_ON_LOGOUT
  enabled,     \* accounts with status 1
  version,     \* version key of each account, 0 while there is none
  revoked,     \* tokens with a revoked flag
  expired,     \* tokens whose exp has passed
  op,          \* what each call asks for
  step,        \* where it stands
  token,       \* the token it carries; a login carries its own
  owner,       \* the account in its token
  ver,         \* token version: of a login, what it read
  began,       \* the version of its account when the call began
  late         \* calls that began after their token was logged out

store == <<revokeAll, enabled, version, revoked, expired>>
call == <<token, owner, began, late>>
loginVars == <<store, op, step, ver, call>>

Steps == {"new", "ensure", "issue", "in", "flag", "version", "account", "accepted", "again",
          "mark", "raise", "out", "halfway", "failed"}

LoginTypeOK ==
  /\ revokeAll \in BOOLEAN
  /\ enabled \subseteq Accounts
  /\ version \in [Accounts -> Nat]
  /\ revoked \subseteq Calls
  /\ expired \subseteq Calls
  /\ op \in [Calls -> {"none", "login", "use", "logout"}]
  /\ step \in [Calls -> Steps]
  /\ token \in [Calls -> Calls \cup {NoCall}]
  /\ owner \in [Calls -> Accounts \cup {NoAccount}]
  /\ ver \in [Calls -> Nat]
  /\ began \in [Calls -> Nat]
  /\ late \subseteq Calls
  /\ \A c \in Calls : step[c] # "new" => token[c] \in Calls /\ owner[c] \in Accounts
  /\ \A c \in Calls :
       step[c] \in {"issue", "in"} => token[c] = c /\ ver[c] \in 1 .. version[owner[c]]

LoginInit ==
  /\ revokeAll \in BOOLEAN
  /\ enabled = Accounts
  /\ version = [a \in Accounts |-> 0]
  /\ revoked = {}
  /\ expired = {}
  /\ op = [c \in Calls |-> "none"]
  /\ step = [c \in Calls |-> "new"]
  /\ token = [c \in Calls |-> NoCall]
  /\ owner = [c \in Calls |-> NoAccount]
  /\ ver = [c \in Calls |-> 0]
  /\ began = [c \in Calls |-> 0]
  /\ late = {}

Goes(c, to) == step' = [step EXCEPT ![c] = to]

Starts(c, what, t, a) ==
  /\ step[c] = "new"
  /\ op' = [op EXCEPT ![c] = what]
  /\ token' = [token EXCEPT ![c] = t]
  /\ owner' = [owner EXCEPT ![c] = a]
  /\ began' = [began EXCEPT ![c] = version[a]]
  /\ UNCHANGED store

-----------------------------------------------------------------------------
(* loginCore: FindByIdentifier and the password.                           *)
Login(c, a) ==
  /\ Starts(c, "login", c, a)
  /\ \/ Goes(c, IF a \in enabled THEN "ensure" ELSE "failed")
     \/ Goes(c, "failed")
  /\ UNCHANGED <<ver, late>>

(* SET NX, then GET when the key is there already.  Versions only grow     *)
(* and keys stay, so both are one step.                                    *)
CurrentVersion(a) == IF version[a] = 0 THEN 1 ELSE version[a]

WithKey(a) == [version EXCEPT ![a] = CurrentVersion(a)]

EnsureVersion(c) ==
  LET a == owner[c]
  IN /\ step[c] = "ensure"
     /\ \/ /\ version' = WithKey(a)
           /\ ver' = [ver EXCEPT ![c] = CurrentVersion(a)]
           /\ Goes(c, "issue")
        \/ version' = WithKey(a) /\ Goes(c, "failed") /\ UNCHANGED ver
        \/ Goes(c, "failed") /\ UNCHANGED <<version, ver>>
  /\ UNCHANGED <<revokeAll, enabled, revoked, expired, op, call>>

(* Issue: the token leaves with the version read, whatever it is by now.   *)
Issue(c) ==
  /\ step[c] = "issue"
  /\ Goes(c, "in")
  /\ UNCHANGED <<store, op, ver, call>>

-----------------------------------------------------------------------------
LoggedOut(t) == \E d \in Calls : op[d] = "logout" /\ token[d] = t /\ step[d] = "out"

(* A request with token t comes to RequireAuth, and VerifyToken parses it. *)
Request(c, t, what) ==
  /\ step[t] = "in"
  /\ Starts(c, what, t, owner[t])
  /\ Goes(c, IF t \in expired THEN "failed" ELSE "flag")
  /\ ver' = [ver EXCEPT ![c] = ver[t]]
  /\ late' = IF LoggedOut(t) THEN late \cup {c} ELSE late

CheckFlag(c) ==
  /\ step[c] = "flag"
  /\ \/ Goes(c, IF token[c] \in revoked THEN "failed" ELSE "version")
     \/ Goes(c, "failed")
  /\ UNCHANGED <<store, op, ver, call>>

IsCurrent(c) == version[owner[c]] \in {0, ver[c]}

CheckVersion(c) ==
  /\ step[c] = "version"
  /\ \/ Goes(c, IF IsCurrent(c) THEN "account" ELSE "failed")
     \/ Goes(c, "failed")
  /\ UNCHANGED <<store, op, ver, call>>

(* FindByID; then the handler, which for a logout parses the token again.  *)
CheckAccount(c) ==
  /\ step[c] = "account"
  /\ \/ /\ owner[c] \in enabled
        /\ \/ op[c] = "use" /\ Goes(c, "accepted")
           \/ op[c] = "logout" /\ Goes(c, IF token[c] \in expired THEN "failed" ELSE "again")
     \/ Goes(c, "failed")
  /\ UNCHANGED <<store, op, ver, call>>

-----------------------------------------------------------------------------
(* Logout asks for the flag once more: another logout that has set it      *)
(* passes for a logout that is done.                                       *)
CheckAgain(c) ==
  /\ step[c] = "again"
  /\ \/ Goes(c, IF token[c] \in revoked THEN "out" ELSE "mark")
     \/ Goes(c, "failed")
  /\ UNCHANGED <<store, op, ver, call>>

FlagLeftOut(c) == revoked                                       \* mutant
WithFlag(c) == revoked \cup {token[c]}

MarkTokenRevoked(c) ==
  /\ step[c] = "mark"
  /\ \/ /\ revoked' = WithFlag(c)
        /\ Goes(c, IF revokeAll THEN "raise" ELSE "out")
     \/ revoked' = WithFlag(c) /\ Goes(c, "halfway")
     \/ UNCHANGED revoked /\ Goes(c, "failed")
  /\ UNCHANGED <<revokeAll, enabled, version, expired, op, ver, call>>

(* The script raises the version unless it is another than the token's.    *)
RaisedIfNot(c) == [version EXCEPT ![owner[c]] = IF @ # ver[c] THEN @ + 1 ELSE @] \* mutant
Raised(c) == [version EXCEPT ![owner[c]] = IF @ = ver[c] THEN @ + 1 ELSE @]

CompareAndIncreaseVersion(c) ==
  /\ step[c] = "raise"
  /\ \/ version' = Raised(c) /\ Goes(c, "out")
     \/ version' = Raised(c) /\ Goes(c, "halfway")
     \/ UNCHANGED version /\ Goes(c, "halfway")
  /\ UNCHANGED <<revokeAll, enabled, revoked, expired, op, ver, call>>

-----------------------------------------------------------------------------
(* exp passes.  The flag was given the time that was left, so it goes      *)
(* later, never before.                                                    *)
TokenExpires(t) ==
  /\ step[t] = "in"
  /\ t \notin expired
  /\ expired' = expired \cup {t}
  /\ UNCHANGED <<revokeAll, enabled, version, revoked, op, step, ver, call>>

FlagGoes(t) ==
  /\ t \in revoked \cap expired
  /\ revoked' = revoked \ {t}
  /\ UNCHANGED <<revokeAll, enabled, version, expired, op, step, ver, call>>

(* An administrator switches the account off.                              *)
Disable(a) ==
  /\ a \in enabled
  /\ enabled' = enabled \ {a}
  /\ UNCHANGED <<revokeAll, version, revoked, expired, op, step, ver, call>>

Proceeds(c) ==
  \/ EnsureVersion(c) \/ Issue(c)
  \/ CheckFlag(c) \/ CheckVersion(c) \/ CheckAccount(c)
  \/ CheckAgain(c) \/ MarkTokenRevoked(c) \/ CompareAndIncreaseVersion(c)

LoginNext ==
  \/ \E c \in Calls, a \in Accounts : Login(c, a)
  \/ \E c, t \in Calls, what \in {"use", "logout"} : Request(c, t, what)
  \/ \E c \in Calls : Proceeds(c)
  \/ \E t \in Calls : TokenExpires(t) \/ FlagGoes(t)
  \/ \E a \in Accounts : Disable(a)

LoginSpec == LoginInit /\ [][LoginNext]_loginVars

-----------------------------------------------------------------------------
Verified(c) == step[c] \in {"accepted", "again", "mark", "raise", "out", "halfway"}

(* A login never hands out, and VerifyToken never lets through, a token    *)
(* whose version the account had left behind when the request began: only  *)
(* a logout at the same time can make a new token worthless.               *)
NothingOutdated ==
  \A c \in Calls : step[c] = "in" \/ Verified(c) => ver[c] >= began[c]

(* Once the logout of a token has returned, requests that come with it are *)
(* refused, unless the token expires under way, when nothing but its       *)
(* version stands against it.                                              *)
LoggedOutIsRefused ==
  \A c \in late : Verified(c) => token[c] \in expired

(* A token that VerifyToken lets through was live when its request began:  *)
(* neither out of date nor logged out.                                     *)
OnlyLiveTokens == NothingOutdated /\ LoggedOutIsRefused

(* A logout that returned has put an end to all tokens of its version, or  *)
(* else another logout of the same token set the flag, and has not raised  *)
(* the version yet or has failed to: then none that comes later will.      *)
LogoutEndsAll ==
  \A c \in Calls :
    revokeAll /\ step[c] = "out" =>
      \/ version[owner[c]] > ver[c]
      \/ \E d \in Calls : token[d] = token[c] /\ step[d] \in {"raise", "halfway"}
=============================================================================
