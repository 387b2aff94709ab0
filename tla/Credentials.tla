---------------------------- MODULE Credentials ----------------------------
(***************************************************************************)
(* The daemon's side of a login: the administrator's password and the      *)
(* secret that signs the tokens (internal/core/credential.go, secret.go),  *)
(* the check of a token (internal/api/auth_mw.go) and the limiter of login *)
(* attempts (auth_rate_limit.go), for the attempts of one address.         *)
(*                                                                         *)
(* A password or a generated secret is the number of the change that set   *)
(* it: random values do not repeat.  Own is a secret the user types, which *)
(* may be the same one again.  A token is what its signature covers and,   *)
(* as history, the password its login was verified with and whether that   *)
(* password was replaced before the token was signed.                      *)
(***************************************************************************)
EXTENDS Integers

CONSTANTS
    MaxFailures,  \* maxLoginFailures (5)
    LockTime,     \* loginLockDuration
    TokenLife,    \* lifetime of a token (24 hours)
    MaxTime,      \* bound: ticks of the clock
    MaxChanges,   \* bound: changes of the password and of the secret
    NoToken       \* no token, no session

ASSUME CredentialsAssumption ==
    /\ MaxFailures \in Nat \ {0} /\ LockTime \in Nat \ {0}
    /\ TokenLife \in Nat \ {0} /\ MaxTime \in Nat /\ MaxChanges \in Nat

VARIABLES
    now,        \* the clock, of the daemon and of the browser
    changes,    \* changes made so far
    pw,         \* admin_password_hash
    isDefault,  \* admin_password_default
    secret,     \* jwt_secret
    entry,      \* the limiter's entry of the address
    wrong       \* history: wrong passwords since the count last started

credentialVars == <<now, changes, pw, isDefault, secret, entry, wrong>>

Own == -1
Wrong == -1
Secret == (0 .. MaxChanges) \cup {Own}
Token == [secret : Secret, pw : 0 .. MaxChanges, crossed : BOOLEAN,
          exp : 0 .. MaxTime + TokenLife]

\* An address without an entry is one without failures and without a lock.
NoEntry == [failures |-> 0, lockedUntil |-> 0]

CredentialsTypeOK ==
    /\ now \in 0 .. MaxTime
    /\ changes \in 0 .. MaxChanges
    /\ pw \in 0 .. MaxChanges
    /\ isDefault \in BOOLEAN
    /\ secret \in Secret
    /\ entry \in [failures : 0 .. MaxFailures - 1,
                  lockedUntil : 0 .. MaxTime + LockTime]
    /\ wrong \in Nat

\* EnsureAdminCredential and EnsureJWTSecret have run for the first time.
CredentialsInit ==
    /\ now = 0 /\ changes = 0 /\ pw = 0
    /\ isDefault = TRUE
    /\ secret = 0
    /\ entry = NoEntry /\ wrong = 0

\* AuthMiddleware: the signature under the secret of the moment, and the time.
Accepts(t) == t # NoToken /\ t.secret = secret /\ t.exp > now

\* The token Login signs: by now the password may be another one.
Signed(p) == [secret |-> secret, pw |-> p, crossed |-> p # pw,
              exp |-> now + TokenLife]

Locked == entry.lockedUntil > now
Expired == entry.lockedUntil # 0 /\ ~Locked

\* A bug to be caught: every attempt that is let through starts a new count.
ForgetsCount == NoEntry

\* loginRateLimiter.allow lets an attempt through: an expired lock goes.
Allowed == IF Expired THEN NoEntry ELSE entry

\* A bug to be caught: the lock does not reset the count.
KeepsCount ==
    LET n == entry.failures + 1
    IN [failures |-> n,
        lockedUntil |-> IF n >= MaxFailures THEN now + LockTime
                        ELSE entry.lockedUntil]

\* loginRateLimiter.recordFailure.
Failed ==
    IF entry.failures + 1 >= MaxFailures
    THEN [failures |-> 0, lockedUntil |-> now + LockTime]
    ELSE [entry EXCEPT !.failures = @ + 1]

\* A bug to be caught: a new password leaves the tokens valid.
PasswordOnly ==
    /\ changes < MaxChanges
    /\ changes' = changes + 1
    /\ pw' = changes + 1
    /\ isDefault' = FALSE
    /\ UNCHANGED <<now, secret, entry, wrong>>

\* The transaction of ChangeAdminPassword.
CommitPassword ==
    /\ changes < MaxChanges
    /\ changes' = changes + 1
    /\ pw' = changes + 1
    /\ isDefault' = FALSE
    /\ secret' = changes + 1
    /\ UNCHANGED <<now, entry, wrong>>

\* SetJWTSecret with a secret the user has typed.
SetJWTSecret ==
    /\ changes < MaxChanges
    /\ changes' = changes + 1
    /\ secret' \in {Own, changes + 1}
    /\ UNCHANGED <<now, pw, isDefault, entry, wrong>>

Tick ==
    /\ now < MaxTime
    /\ now' = now + 1
    /\ UNCHANGED <<changes, pw, isDefault, secret, entry, wrong>>

\* The process ends and starts again: the limiter is in memory only.
ForgetAttempts ==
    /\ entry' = NoEntry /\ wrong' = 0
    /\ UNCHANGED <<now, changes, pw, isDefault, secret>>
=============================================================================
