--------------------------- MODULE SessionProofs ---------------------------
(***************************************************************************)
(* Proofs about Session: what the tab and the daemon can do to each        *)
(* other's idea of a session, for any number of changes, any limits and    *)
(* lifetimes, and any order of the requests and their answers.             *)
(***************************************************************************)
EXTENDS Session, TLAPS

----------------------------------------------------------------------------
(* The inductive invariant. *)

Stage == {"idle", "sent", "allowed", "verified", "ok", "unauthorized",
          "failed", "retry"}
Try == {Wrong} \cup (0 .. MaxChanges)

IsRequest(r) ==
    /\ r = [stage |-> r.stage, under |-> r.under, token |-> r.token,
            try |-> r.try, value |-> r.value, waiting |-> r.waiting]
    /\ r.stage \in Stage
    /\ r.under \in Maybe /\ r.token \in Maybe
    /\ r.try \in Try
    /\ r.waiting \in BOOLEAN

\* The requests are records; only a login is ever let through the limiter,
\* what it signs is a password, and an answer that carries something carries
\* what the tab expects.
RequestInv ==
    /\ req = [k \in Kind |-> req[k]]
    /\ \A k \in Kind : IsRequest(req[k])
    /\ \A k \in Kind : req[k].stage = "allowed" => k \in {"login", "outside"}
    /\ req["login"].stage = "verified" => req["login"].try \in 0 .. MaxChanges
    /\ req["login"].stage = "ok" => req["login"].value \in Token
    /\ req["status"].stage = "ok" => req["status"].value \in {"forced", "open"}

TypeInv == TypeOK /\ RequestInv

\* A token that was signed: its secret is one that has been, and when it is
\* the daemon's, which nobody typed, its password is the present one or was
\* replaced while it was being signed.
Issued(t) ==
    t # NoToken =>
        /\ t.secret <= changes
        /\ t.secret = secret /\ t.secret # Own => t.pw = pw \/ t.crossed

\* The tokens the tab has, is about to get, or had when it sent a request.
TokenInv ==
    /\ secret <= changes
    /\ Issued(stored) /\ Issued(page)
    /\ req["login"].stage = "ok" => Issued(req["login"].value)
    /\ \A k \in Kind : Issued(req[k].under)

\* The answer that opens the gate is given only after the default is gone.
GateInv ==
    /\ gate = "open" => ~isDefault
    /\ req["status"].stage = "ok" /\ req["status"].value = "open" => ~isDefault

\* The attempts that are past the limiter with their password unchecked.
InFlight(k) == IF req[k].stage = "allowed" THEN 1 ELSE 0
Attempts == InFlight("login") + InFlight("outside")

\* Without a lock the limiter has counted every wrong password; since a lock
\* only the attempts it had let through before can be wrong.
CountInv ==
    /\ entry.lockedUntil = 0 => wrong = entry.failures
    /\ entry.lockedUntil # 0 => wrong + Attempts <= MaxFailures + 1

\* The storage and the page agree, but for a session that has expired; the
\* page without a session is the login page.
PageInv ==
    /\ stored = page \/ (stored = NoToken /\ page.exp <= now)
    /\ path = "login" <=> page = NoToken

\* A token the daemon does not accept and, unless it is typed again, never
\* will.
Dead(t) == t.secret = Own \/ t.secret # secret \/ t.exp <= now

\* What a request has to do with the session it was sent under: a login is
\* sent without one, the token is the session's as long as it has not expired,
\* and a refused token is dead.
UnderInv ==
    /\ \A k \in {"login", "outside"} : req[k].under = NoToken
    /\ \A k \in Kind :
         /\ req[k].stage = "sent" /\ req[k].under # NoToken =>
              \/ req[k].token = req[k].under
              \/ req[k].token = NoToken /\ req[k].under.exp <= now
         /\ /\ k \in {"poll", "status", "rotate"}
            /\ req[k].stage = "unauthorized" /\ req[k].under # NoToken
            => Dead(req[k].under)

IInv == TypeInv /\ TokenInv /\ GateInv /\ CountInv /\ PageInv /\ UnderInv

----------------------------------------------------------------------------
(* Effects of a step. *)

\* What a request is after its handler has answered s with v.
Replied(r, s, v) ==
    [stage |-> s, under |-> r.under, token |-> r.token, try |-> Wrong,
     value |-> v, waiting |-> r.waiting]

Asked(k) ==
    /\ \E p \in {pw, Wrong} : req'[k] = Headers(k, p)
    /\ k # "outside" /\ (k = "login" => path = "login")

\* Which answers there are, and what they say about the daemon.
AnsweredWith(k, s, v) ==
    /\ s \in {"ok", "unauthorized", "failed"}
    /\ s = "unauthorized" /\ k \in {"poll", "status", "rotate"} =>
          req[k].stage = "sent" /\ ~Accepts(req[k].token)
    /\ s = "ok" /\ k = "login" =>
          req[k].stage = "verified" /\ v = Signed(req[k].try)
    /\ s = "ok" /\ k = "status" =>
          v = (IF isDefault THEN "forced" ELSE "open")

\* All that a step can do to the request of a kind.
RequestStep(k) ==
    \/ req'[k] = req[k]
    \/ req'[k] = Idle
    \/ req'[k] = [Idle EXCEPT !.stage = "retry"]
    \/ Asked(k)
    \/ /\ k \in {"login", "outside"} /\ LetThrough
       /\ req'[k] = [req[k] EXCEPT !.stage = "allowed"]
    \/ req[k].try = pw /\ req'[k] = [req[k] EXCEPT !.stage = "verified"]
    \/ /\ req[k].stage \in {"allowed", "verified"}
       /\ req'[k] = [req[k] EXCEPT !.waiting = FALSE]
    \/ req'[k] = [req[k] EXCEPT !.stage = "failed"]
    \/ \E s, v : AnsweredWith(k, s, v) /\ req'[k] = Replied(req[k], s, v)

RequestSteps ==
    /\ req' = [k \in Kind |-> req'[k]]
    /\ \A k \in Kind : RequestStep(k)

\* A step that assigns the request of one kind.
LEMMA OneRequest ==
  ASSUME RequestInv, NEW k \in Kind, NEW r, req' = [req EXCEPT ![k] = r],
         req'[k] = r => RequestStep(k)
  PROVE  RequestSteps
<1>1. req = [j \in Kind |-> req[j]]
  BY DEF RequestInv
<1>2. req' = [j \in Kind |-> IF j = k THEN r ELSE req[j]]
  BY <1>1
<1>3. req' = [j \in Kind |-> req'[j]] /\ req'[k] = r
  BY <1>2
<1>4. \A j \in Kind : j # k => req'[j] = req[j]
  BY <1>2
<1>5. \A j \in Kind : j # k => RequestStep(j)
  BY <1>4 DEF RequestStep
<1>6. RequestStep(k)
  BY <1>3
<1> QED
  BY <1>3, <1>5, <1>6 DEF RequestSteps

\* The three fields an answer sets.
LEMMA SetAnswer ==
  ASSUME NEW r, IsRequest(r), NEW s, NEW v
  PROVE  [r EXCEPT !.stage = s, !.value = v, !.try = Wrong] = Replied(r, s, v)
<1>1. r = [stage |-> r.stage, under |-> r.under, token |-> r.token,
           try |-> r.try, value |-> r.value, waiting |-> r.waiting]
  BY DEF IsRequest
<1> DEFINE a == [r EXCEPT !.stage = s]
           b == [a EXCEPT !.value = v]
<1>2. a = [stage |-> s, under |-> r.under, token |-> r.token,
           try |-> r.try, value |-> r.value, waiting |-> r.waiting]
  BY <1>1
<1> HIDE DEF a
<1>3. b = [stage |-> s, under |-> r.under, token |-> r.token,
           try |-> r.try, value |-> v, waiting |-> r.waiting]
  BY <1>2
<1> HIDE DEF b
<1>4. [b EXCEPT !.try = Wrong] = Replied(r, s, v)
  BY <1>3 DEF Replied
<1> QED
  BY <1>4 DEF a, b

\* An answer, or the end of a request nobody waits for.
LEMMA ReplySteps ==
  ASSUME RequestInv, NEW k \in Kind, NEW s, NEW v, Reply(k, s, v),
         AnsweredWith(k, s, v)
  PROVE  RequestSteps
<1> DEFINE r == req[k]
<1>1. IsRequest(r)
  BY DEF RequestInv
<1>2. [r EXCEPT !.stage = s, !.value = v, !.try = Wrong] = Replied(r, s, v)
  BY <1>1, SetAnswer
<1>3. \/ req' = [req EXCEPT ![k] = Replied(r, s, v)]
      \/ req' = [req EXCEPT ![k] = Idle]
  BY <1>2 DEF Reply
<1>4. req'[k] = Replied(r, s, v) \/ req'[k] = Idle => RequestStep(k)
  BY DEF RequestStep
<1> QED
  BY <1>3, <1>4, OneRequest

LEMMA NextRequests == TypeInv /\ [Next]_vars => RequestSteps
<1> SUFFICES ASSUME TypeInv, [Next]_vars PROVE RequestSteps
  OBVIOUS
<1>0. RequestInv
  BY DEF TypeInv
<1>1. ASSUME UNCHANGED req PROVE RequestSteps
  BY <1>0, <1>1 DEF RequestInv, RequestSteps, RequestStep
<1>2. ASSUME NEW k \in Kind \ {"outside"}, NEW p \in {pw, Wrong},
             k = "login" => path = "login",
             req' = [req EXCEPT ![k] = Headers(k, p)]
      PROVE  RequestSteps
  <2>1. req'[k] = Headers(k, p) => RequestStep(k)
    BY <1>2 DEF RequestStep, Asked
  <2> QED
    BY <1>0, <1>2, <2>1, OneRequest
<1>3. CASE Submit \/ Poll \/ AskStatus \/ Logout \/ ChangePassword \/ RotateJWT
  BY <1>2, <1>3 DEF Submit, Poll, AskStatus, Logout, ChangePassword, RotateJWT,
     Send, Kind
<1>4. CASE Retry
  BY <1>2, <1>4 DEF Retry, Kind
<1>5. CASE Reload
  <2>1. ASSUME NEW k \in Kind PROVE RequestStep(k)
    BY <1>5, <2>1 DEF Reload, RequestStep
  <2> QED
    BY <1>5, <2>1 DEF Reload, RequestSteps
<1>6. ASSUME NEW k \in Kind, Deliver(k) PROVE RequestSteps
  <2>1. PICK r \in {Idle, [Idle EXCEPT !.stage = "retry"]} :
          req' = [req EXCEPT ![k] = r]
    BY <1>6 DEF Deliver
  <2>2. req'[k] = r => RequestStep(k)
    BY <2>1 DEF RequestStep
  <2> QED
    BY <1>0, <2>1, <2>2, OneRequest
<1>7. ASSUME NEW k \in Kind, Refuse(k) PROVE RequestSteps
  <2>1. AnsweredWith(k, "unauthorized", "none")
    BY <1>7 DEF Refuse, AnsweredWith
  <2> QED
    BY <1>0, <1>7, <2>1, ReplySteps DEF Refuse
<1>8. ASSUME NEW k \in Kind, Handle(k) PROVE RequestSteps
  <2> DEFINE v == IF k # "status" THEN "none"
                  ELSE IF isDefault THEN "forced" ELSE "open"
  <2>1. AnsweredWith(k, "ok", v)
    BY <1>8 DEF Handle, AnsweredWith
  <2>2. Reply(k, "ok", v)
    BY <1>8 DEF Handle
  <2> QED
    BY <1>0, <2>1, <2>2, ReplySteps
<1>9. CASE Rotate \/ Change
  <2>1. /\ "rotate" \in Kind /\ "change" \in Kind
        /\ AnsweredWith("rotate", "ok", "none")
        /\ AnsweredWith("rotate", "failed", "none")
        /\ AnsweredWith("change", "ok", "none")
    BY DEF AnsweredWith, Kind
  <2> QED
    BY <1>0, <1>9, <2>1, ReplySteps DEF Rotate, Change
<1>10. CASE CheckChange
  <2>1. /\ "change" \in Kind
        /\ AnsweredWith("change", "failed", "none")
        /\ AnsweredWith("change", "unauthorized", "none")
    BY DEF AnsweredWith, Kind
  <2>2. CASE /\ req["change"].try = pw
             /\ req' = [req EXCEPT !["change"].stage = "verified"]
    <3>1. req' = [req EXCEPT !["change"] = [@ EXCEPT !.stage = "verified"]]
      BY <2>2
    <3> QED
      BY <1>0, <2>1, <2>2, <3>1, OneRequest DEF RequestStep
  <2> QED
    BY <1>0, <1>10, <2>1, <2>2, ReplySteps DEF CheckChange
<1>11. CASE Allow \/ Outside
  <2>1. /\ "login" \in Kind /\ "outside" \in Kind
        /\ AnsweredWith("login", "failed", "none")
    BY DEF AnsweredWith, Kind
  <2>2. ASSUME NEW k \in {"login", "outside"},
               LetThrough, req' = [req EXCEPT ![k].stage = "allowed"]
        PROVE  RequestSteps
    BY <1>0, <2>1, <2>2, OneRequest DEF RequestStep
  <2> QED
    BY <1>0, <1>11, <2>1, <2>2, ReplySteps DEF Allow, Outside
<1>12. ASSUME NEW k \in Kind, Verify(k) PROVE RequestSteps
  <2>1. k \in {"login", "outside"}
    BY <1>0, <1>12 DEF RequestInv, Verify
  <2>2. AnsweredWith(k, "unauthorized", "none")
    BY <2>1 DEF AnsweredWith
  <2>3. CASE req[k].try = pw /\ req' = [req EXCEPT ![k].stage = "verified"]
    BY <1>0, <2>3, OneRequest DEF RequestStep
  <2> QED
    BY <1>0, <1>12, <2>2, <2>3, ReplySteps DEF Verify
<1>13. CASE Sign
  <2>1. "login" \in Kind /\ AnsweredWith("login", "ok", Signed(req["login"].try))
    BY <1>13 DEF AnsweredWith, Kind, Sign
  <2> QED
    BY <1>0, <1>13, <2>1, ReplySteps DEF Sign
<1>14. ASSUME NEW k \in Kind, Lose(k) PROVE RequestSteps
  <2>1. AnsweredWith(k, "failed", "none")
    BY DEF AnsweredWith
  <2>2. IsRequest(req[k])
    BY <1>0 DEF RequestInv
  <2>3. [req[k] EXCEPT !.stage = "failed", !.value = "none", !.try = Wrong]
          = Replied(req[k], "failed", "none")
    BY <2>2, SetAnswer
  <2>4. req' = [req EXCEPT ![k] = Replied(req[k], "failed", "none")]
    BY <1>14, <2>3 DEF Lose
  <2> QED
    BY <1>0, <2>1, <2>4, OneRequest DEF RequestStep
<1>15. CASE Restart
  <2>1. ASSUME NEW k \in Kind PROVE RequestStep(k)
    BY <1>15, <2>1 DEF Restart, RequestStep
  <2> QED
    BY <1>15, <2>1 DEF Restart, RequestSteps
<1>16. CASE Navigate \/ OutsideLogin \/ Foreign \/ Pass \/ UNCHANGED vars
  BY <1>1, <1>16 DEF Navigate, OutsideLogin, Foreign, Pass, vars
<1> QED
  BY <1>3, <1>4, <1>5, <1>6, <1>7, <1>8, <1>9, <1>10, <1>11, <1>12, <1>13,
     <1>14, <1>15, <1>16 DEF Next

\* All that a step can do to the credentials: time passes, or the password or
\* the secret is replaced by one that has not been, or by a typed secret.
Replaced ==
    /\ changes < MaxChanges /\ changes' = changes + 1 /\ now' = now
    /\ pw' \in {pw, changes + 1}
    /\ secret' \in {Own, changes + 1}
    /\ isDefault' \in {isDefault, FALSE}

CredentialStep ==
    \/ UNCHANGED <<now, changes, pw, secret, isDefault>>
    \/ /\ now < MaxTime /\ now' = now + 1
       /\ UNCHANGED <<changes, pw, secret, isDefault>>
    \/ Replaced

LEMMA NextCredentials == [Next]_vars => CredentialStep
<1> SUFFICES ASSUME [Next]_vars PROVE CredentialStep
  OBVIOUS
<1> DEFINE Same == UNCHANGED <<now, changes, pw, secret, isDefault>>
<1>1. UNCHANGED credentialVars => Same
  BY DEF credentialVars
<1>2. CommitPassword \/ SetJWTSecret => Replaced
  BY DEF CommitPassword, SetJWTSecret, Replaced
<1>3. CASE Submit \/ Poll \/ Retry \/ AskStatus \/ Logout \/ ChangePassword
           \/ RotateJWT \/ Navigate \/ Reload
  BY <1>1, <1>3 DEF Submit, Poll, Retry, AskStatus, Logout, ChangePassword,
     RotateJWT, Send, Navigate, Reload, CredentialStep
<1>4. CASE Rotate \/ CheckChange \/ Change \/ Foreign
  BY <1>1, <1>2, <1>4 DEF Rotate, CheckChange, Change, Foreign, CredentialStep
<1>5. CASE Allow \/ Sign \/ Outside \/ OutsideLogin
  BY <1>1, <1>5 DEF Allow, Sign, Outside, OutsideLogin, LetThrough,
     CredentialStep
<1>6. ASSUME NEW k \in Kind,
             Deliver(k) \/ Refuse(k) \/ Handle(k) \/ Verify(k) \/ Lose(k)
      PROVE  CredentialStep
  BY <1>1, <1>6 DEF Deliver, Refuse, Handle, Verify, Lose, CredentialStep
<1>7. CASE Restart \/ Pass
  BY <1>7 DEF Restart, ForgetAttempts, Pass, Tick, CredentialStep
<1>8. CASE UNCHANGED vars
  BY <1>8 DEF vars, credentialVars, CredentialStep
<1> QED
  BY <1>3, <1>4, <1>5, <1>6, <1>7, <1>8 DEF Next

\* All that a step can do to what the tab keeps.
Kept == UNCHANGED tabVars

Opened ==
    /\ stored' = Valid /\ page' = Valid /\ gate' = "unknown"
    /\ path' = IF Valid = NoToken THEN "login"
               ELSE IF path = "login" THEN "dashboard" ELSE path

Learned ==
    /\ req["status"].stage = "ok" /\ gate' = req["status"].value
    /\ path' = IF page = NoToken THEN path ELSE Gated(path, gate')
    /\ UNCHANGED <<stored, page>>

TabStep ==
    \/ Kept
    \/ stored' = Valid /\ UNCHANGED <<page, path, gate, now>>
    \/ /\ path # "login" /\ path' \in {"dashboard", "settings"}
       /\ UNCHANGED <<stored, page, gate>>
    \/ Opened
    \/ Clear
    \/ req["login"].stage = "ok" /\ Begin(req["login"].value)
    \/ Learned

LEMMA NextTab == [Next]_vars => TabStep
<1> SUFFICES ASSUME [Next]_vars PROVE TabStep
  OBVIOUS
<1>1. CASE Submit \/ Poll \/ Retry \/ AskStatus \/ Logout \/ ChangePassword
           \/ RotateJWT
  BY <1>1 DEF Submit, Poll, Retry, AskStatus, Logout, ChangePassword,
     RotateJWT, Send, credentialVars, TabStep
<1>2. CASE Navigate
  BY <1>2 DEF Navigate, Pages, Gated, TabStep
<1>3. CASE Reload
  BY <1>3 DEF Reload, TabStep, Opened
<1>4. ASSUME NEW k \in Kind, Deliver(k) PROVE TabStep
  BY <1>4 DEF Deliver, TabStep, Learned, Kept
<1>5. CASE \/ Rotate \/ CheckChange \/ Change
           \/ Allow \/ Sign \/ Outside \/ OutsideLogin
           \/ Foreign \/ Restart \/ Pass
  BY <1>5 DEF Rotate, CheckChange, Change, Allow, Sign, Outside, OutsideLogin,
     LetThrough, Foreign, Restart, Pass, tabVars, TabStep, Kept
<1>6. ASSUME NEW k \in Kind, Refuse(k) \/ Handle(k) \/ Verify(k) \/ Lose(k)
      PROVE  TabStep
  BY <1>6 DEF Refuse, Handle, Verify, Lose, tabVars, TabStep, Kept
<1>7. CASE UNCHANGED vars
  BY <1>7 DEF vars, TabStep, Kept
<1> QED
  BY <1>1, <1>2, <1>3, <1>4, <1>5, <1>6, <1>7 DEF Next

----------------------------------------------------------------------------
(* Types. *)

\* The limiter's entry and the count of wrong passwords.
LimiterOK ==
    /\ entry \in [failures : 0 .. MaxFailures - 1,
                  lockedUntil : 0 .. MaxTime + LockTime]
    /\ wrong \in Nat

\* What an attempt that is let through, and one that fails, leave.
LEMMA LimiterTypes ==
  ASSUME CredentialsTypeOK
  PROVE  LET E == [failures : 0 .. MaxFailures - 1,
                   lockedUntil : 0 .. MaxTime + LockTime]
         IN  NoEntry \in E /\ Allowed \in E /\ Failed \in E
<1> USE CredentialsAssumption DEF CredentialsTypeOK
<1>1. NoEntry \in [failures : 0 .. MaxFailures - 1,
                   lockedUntil : 0 .. MaxTime + LockTime]
  BY DEF NoEntry
<1>2. Allowed \in [failures : 0 .. MaxFailures - 1,
                   lockedUntil : 0 .. MaxTime + LockTime]
  BY <1>1 DEF Allowed
<1>3. Failed \in [failures : 0 .. MaxFailures - 1,
                  lockedUntil : 0 .. MaxTime + LockTime]
  BY DEF Failed
<1> QED
  BY <1>1, <1>2, <1>3

\* All that a step can do to the limiter: an attempt is let through, the
\* count is dropped, a failure is recorded, or nothing.
WrongAttempt(k) ==
    /\ k \in {"login", "outside"}
    /\ req[k].stage = "allowed" /\ req'[k].stage # "allowed"
    /\ \A l \in Kind : l # k => req'[l] = req[l]
    /\ entry' = Failed /\ wrong' = wrong + 1

LimiterStep ==
    \/ UNCHANGED <<entry, wrong>>
    \/ LetThrough
    \/ entry' = NoEntry /\ wrong' = 0
    \/ \E k \in Kind : WrongAttempt(k)

LEMMA NextLimiter == TypeInv /\ [Next]_vars => LimiterStep
<1> SUFFICES ASSUME TypeInv, [Next]_vars PROVE LimiterStep
  OBVIOUS
<1>1. UNCHANGED credentialVars => UNCHANGED <<entry, wrong>>
  BY DEF credentialVars
<1>2. CASE Submit \/ Poll \/ Retry \/ AskStatus \/ Logout \/ ChangePassword
           \/ RotateJWT \/ Navigate \/ Reload
  BY <1>1, <1>2 DEF Submit, Poll, Retry, AskStatus, Logout, ChangePassword,
     RotateJWT, Send, Navigate, Reload, LimiterStep
<1>3. CASE Rotate \/ CheckChange \/ Change \/ Foreign
  BY <1>1, <1>3 DEF Rotate, CheckChange, Change, Foreign, CommitPassword,
     SetJWTSecret, LimiterStep
<1>4. CASE Allow \/ Outside
  BY <1>1, <1>4 DEF Allow, Outside, LimiterStep
<1>5. CASE Sign \/ OutsideLogin \/ Restart
  BY <1>5 DEF Sign, OutsideLogin, Restart, ForgetAttempts, LimiterStep
<1>6. ASSUME NEW k \in Kind, Verify(k) PROVE LimiterStep
  <2>1. CASE UNCHANGED <<entry, wrong>>
    BY <2>1 DEF LimiterStep
  <2>2. CASE /\ Reply(k, "unauthorized", "none")
             /\ entry' = Failed /\ wrong' = wrong + 1
    <3>1. req[k].stage = "allowed" /\ k \in {"login", "outside"}
      BY <1>6 DEF Verify, TypeInv, RequestInv
    <3>2. req = [l \in Kind |-> req[l]] /\ IsRequest(req[k])
      BY DEF TypeInv, RequestInv
    <3>3. PICK r \in {Replied(req[k], "unauthorized", "none"), Idle} :
            req' = [req EXCEPT ![k] = r]
      <4>1. [req[k] EXCEPT !.stage = "unauthorized", !.value = "none",
                           !.try = Wrong]
              = Replied(req[k], "unauthorized", "none")
        BY <3>2, SetAnswer
      <4> QED
        BY <2>2, <4>1 DEF Reply
    <3>4. r.stage # "allowed"
      BY <3>3 DEF Replied, Idle
    <3>5. req'[k] = r /\ \A l \in Kind : l # k => req'[l] = req[l]
      BY <3>2, <3>3
    <3> QED
      BY <2>2, <3>1, <3>4, <3>5 DEF LimiterStep, WrongAttempt
  <2> QED
    BY <1>6, <2>1, <2>2 DEF Verify
<1>7. ASSUME NEW k \in Kind, Deliver(k) \/ Refuse(k) \/ Handle(k) \/ Lose(k)
      PROVE  LimiterStep
  BY <1>1, <1>7 DEF Deliver, Refuse, Handle, Lose, LimiterStep
<1>8. CASE Pass \/ UNCHANGED vars
  BY <1>1, <1>8 DEF Pass, Tick, vars, LimiterStep
<1> QED
  BY <1>2, <1>3, <1>4, <1>5, <1>6, <1>7, <1>8 DEF Next

LEMMA NextLimiterType == TypeInv /\ [Next]_vars => LimiterOK'
<1> SUFFICES ASSUME TypeInv, [Next]_vars PROVE LimiterOK'
  OBVIOUS
<1>1. CredentialsTypeOK /\ LimiterOK
  BY DEF TypeInv, TypeOK, CredentialsTypeOK, LimiterOK
<1>2. \/ entry' = entry /\ wrong' = wrong
      \/ entry' = Allowed /\ wrong' \in {0, wrong}
      \/ entry' = NoEntry /\ wrong' = 0
      \/ entry' = Failed /\ wrong' = wrong + 1
  BY NextLimiter DEF LimiterStep, LetThrough, WrongAttempt
<1> QED
  BY <1>1, <1>2, LimiterTypes DEF LimiterOK

\* What Login signs is a token.
LEMMA SignedType ==
  ASSUME CredentialsTypeOK, NEW p \in 0 .. MaxChanges
  PROVE  Signed(p) \in Token
BY CredentialsAssumption DEF CredentialsTypeOK, Signed, Token

\* A step leaves a request of the same form.
LEMMA NextRequest ==
  ASSUME TypeInv, NEW k \in Kind, RequestStep(k)
  PROVE  /\ IsRequest(req'[k])
         /\ req'[k].stage = "allowed" => k \in {"login", "outside"}
         /\ k = "login" /\ req'[k].stage = "verified" =>
               req'[k].try \in 0 .. MaxChanges
         /\ k = "login" /\ req'[k].stage = "ok" => req'[k].value \in Token
         /\ k = "status" /\ req'[k].stage = "ok" =>
               req'[k].value \in {"forced", "open"}
<1> DEFINE r == req[k]
           t == req'[k]
           Fine(x) ==
             /\ IsRequest(x)
             /\ x.stage = "allowed" => k \in {"login", "outside"}
             /\ k = "login" /\ x.stage = "verified" => x.try \in 0 .. MaxChanges
             /\ k = "login" /\ x.stage = "ok" => x.value \in Token
             /\ k = "status" /\ x.stage = "ok" => x.value \in {"forced", "open"}
<1> SUFFICES Fine(t)
  OBVIOUS
<1>0. IsRequest(r) /\ Fine(r)
  BY DEF TypeInv, RequestInv
<1>1. /\ pw \in 0 .. MaxChanges /\ page \in Maybe /\ Valid \in Maybe
      /\ Wrong \in Try /\ pw \in Try
  BY DEF TypeInv, TypeOK, CredentialsTypeOK, Valid, Maybe, Try
<1>2. CASE t = r
  BY <1>0, <1>2
<1>3. CASE t = Idle \/ t = [Idle EXCEPT !.stage = "retry"]
  <2>1. PICK s \in {"idle", "retry"} :
          t = [stage |-> s, under |-> NoToken, token |-> NoToken,
               try |-> Wrong, value |-> "none", waiting |-> FALSE]
    BY <1>3 DEF Idle
  <2>2. NoToken \in Maybe
    BY DEF Maybe
  <2> QED
    BY <1>1, <2>1, <2>2 DEF IsRequest, Stage
<1>4. CASE Asked(k)
  BY <1>1, <1>4 DEF Asked, Headers, IsRequest, Stage
<1>5. CASE k \in {"login", "outside"} /\ t = [r EXCEPT !.stage = "allowed"]
  BY <1>0, <1>5 DEF IsRequest, Stage
<1>6. CASE r.try = pw /\ t = [r EXCEPT !.stage = "verified"]
  BY <1>0, <1>1, <1>6 DEF IsRequest, Stage
<1>7. CASE /\ r.stage \in {"allowed", "verified"}
           /\ t = [r EXCEPT !.waiting = FALSE]
  BY <1>0, <1>7 DEF IsRequest, Stage
<1>8. CASE t = [r EXCEPT !.stage = "failed"]
  BY <1>0, <1>8 DEF IsRequest, Stage
<1>9. ASSUME NEW s, NEW v, AnsweredWith(k, s, v), t = Replied(r, s, v)
      PROVE  Fine(t)
  <2>1. IsRequest(t)
    BY <1>0, <1>1, <1>9 DEF IsRequest, Replied, AnsweredWith, Stage
  <2>2. k = "login" /\ s = "ok" => v \in Token
    <3>1. CredentialsTypeOK
      BY DEF TypeInv, TypeOK
    <3> QED
      BY <1>0, <1>9, <3>1, SignedType DEF AnsweredWith
  <2> QED
    BY <1>9, <2>1, <2>2 DEF AnsweredWith, Replied
<1>10. CASE \E s, v : AnsweredWith(k, s, v) /\ t = Replied(r, s, v)
  BY <1>9, <1>10
<1> HIDE DEF Fine
<1> QED
  BY <1>2, <1>3, <1>4, <1>5, <1>6, <1>7, <1>8, <1>10 DEF RequestStep

LEMMA TypeInit == Init => TypeInv
<1> SUFFICES ASSUME Init PROVE TypeInv
  OBVIOUS
<1>1. CredentialsTypeOK
  BY CredentialsAssumption DEF Init, CredentialsInit, CredentialsTypeOK,
     NoEntry, Secret
<1>2. \A k \in Kind : req[k] = Idle
  BY DEF Init
<1>3. TypeOK
  BY <1>1, <1>2 DEF Init, TypeOK, Idle, Maybe
<1>4. IsRequest(Idle) /\ Idle.stage = "idle"
  BY DEF Idle, IsRequest, Stage, Try, Maybe
<1>5. RequestInv
  BY <1>2, <1>4 DEF Init, RequestInv, Kind
<1> QED
  BY <1>3, <1>5 DEF TypeInv

LEMMA NextRetried == TypeInv /\ [Next]_vars => retried' \in BOOLEAN
<1> SUFFICES ASSUME TypeInv, [Next]_vars PROVE retried' \in BOOLEAN
  OBVIOUS
<1>0. retried \in BOOLEAN
  BY DEF TypeInv, TypeOK
<1>1. CASE Submit \/ Poll \/ AskStatus \/ Logout \/ ChangePassword \/ RotateJWT
           \/ Navigate \/ Retry \/ Reload
  BY <1>0, <1>1 DEF Submit, Poll, AskStatus, Logout, ChangePassword, RotateJWT,
     Send, Navigate, Retry, Reload
<1>2. CASE \/ Rotate \/ CheckChange \/ Change
           \/ Allow \/ Sign \/ Outside \/ OutsideLogin
           \/ Foreign \/ Restart \/ Pass \/ UNCHANGED vars
  BY <1>0, <1>2 DEF Rotate, CheckChange, Change, Allow, Sign, Outside,
     OutsideLogin, LetThrough, Foreign, Restart, Pass, vars
<1>3. ASSUME NEW k \in Kind, Deliver(k) PROVE retried' \in BOOLEAN
  <2>1. retried' = retried \/ retried' = (k # "poll" /\ retried)
    BY <1>3 DEF Deliver
  <2> QED
    BY <1>0, <2>1
<1>4. ASSUME NEW k \in Kind, Refuse(k) \/ Handle(k) \/ Verify(k) \/ Lose(k)
      PROVE  retried' \in BOOLEAN
  BY <1>0, <1>4 DEF Refuse, Handle, Verify, Lose
<1> QED
  BY <1>1, <1>2, <1>3, <1>4 DEF Next

LEMMA TypeNext == TypeInv /\ [Next]_vars => TypeInv'
<1> SUFFICES ASSUME TypeInv, [Next]_vars PROVE TypeInv'
  OBVIOUS
<1>1. RequestInv'
  <2>1. \A k \in Kind : RequestStep(k)
    BY NextRequests DEF RequestSteps
  <2>2. req' = [k \in Kind |-> req'[k]]
    BY NextRequests DEF RequestSteps
  <2>3. "login" \in Kind /\ "status" \in Kind
    BY DEF Kind
  <2> QED
    BY <2>1, <2>2, <2>3, NextRequest DEF RequestInv
<1>2. CredentialsTypeOK'
  <2>1. CredentialsTypeOK
    BY DEF TypeInv, TypeOK
  <2>2. /\ now' \in 0 .. MaxTime /\ changes' \in 0 .. MaxChanges
        /\ pw' \in 0 .. MaxChanges /\ secret' \in Secret
    <3> USE CredentialsAssumption DEF CredentialsTypeOK, Secret
    <3>1. CASE UNCHANGED <<changes, pw, secret>> /\ now' \in {now, now + 1}
               /\ (now' = now \/ now < MaxTime)
      BY <2>1, <3>1
    <3>2. CASE Replaced
      BY <2>1, <3>2 DEF Replaced
    <3> QED
      BY <3>1, <3>2, NextCredentials DEF CredentialStep
  <2>3. isDefault' \in {isDefault, FALSE}
    BY NextCredentials DEF CredentialStep, Replaced
  <2>4. isDefault' \in BOOLEAN
    BY <2>1, <2>3 DEF CredentialsTypeOK
  <2> QED
    BY <2>2, <2>4, NextLimiterType DEF LimiterOK, CredentialsTypeOK
<1>3. /\ stored' \in Maybe /\ page' \in Maybe
      /\ path' \in {"login", "dashboard", "settings"}
      /\ gate' \in {"unknown", "forced", "open"}
  <2>1. TypeOK /\ RequestInv /\ Valid \in Maybe
    BY DEF TypeInv, TypeOK, Valid, Maybe
  <2> QED
    BY <2>1, NextTab DEF TabStep, Kept, tabVars, Opened, Learned, Clear, Begin,
       Guarded, Gated, TypeOK, RequestInv, Maybe
<1>4. retried' \in BOOLEAN
  BY NextRetried
<1>5. \A k \in Kind :
        /\ req'[k].stage \in {"idle", "sent", "allowed", "verified", "ok",
                             "unauthorized", "failed", "retry"}
        /\ req'[k].under \in Maybe /\ req'[k].token \in Maybe
        /\ req'[k].waiting \in BOOLEAN
  BY <1>1 DEF RequestInv, IsRequest, Stage
<1> QED
  BY <1>1, <1>2, <1>3, <1>4, <1>5 DEF TypeInv, TypeOK, Maybe

\* The same step, seen in the fields of the request.
LEMMA Fields ==
  ASSUME TypeInv, NEW k \in Kind, RequestStep(k)
  PROVE  LET r == req[k]
             t == req'[k]
         IN  \/ /\ t.stage = r.stage /\ t.value = r.value
                /\ t.under = r.under /\ t.token = r.token
             \/ t.stage \in {"idle", "retry"} /\ t.under = NoToken
             \/ /\ t.stage = "sent" /\ t.under = page /\ t.token = Valid
                /\ k # "outside" /\ (k = "login" => path = "login")
             \/ /\ \/ t.stage = "allowed" /\ LetThrough
                   \/ t.stage \in {"verified", "failed"}
                /\ t.under = r.under
             \/ /\ AnsweredWith(k, t.stage, t.value)
                /\ t.under = r.under /\ t.token = r.token
<1> DEFINE r == req[k]
           t == req'[k]
<1>0. r = [stage |-> r.stage, under |-> r.under, token |-> r.token,
           try |-> r.try, value |-> r.value, waiting |-> r.waiting]
  BY DEF TypeInv, RequestInv, IsRequest
<1>1. ASSUME NEW s, t = [r EXCEPT !.stage = s]
      PROVE  t.stage = s /\ t.under = r.under
  BY <1>0, <1>1
<1>2. ASSUME t = [r EXCEPT !.waiting = FALSE]
      PROVE  /\ t.stage = r.stage /\ t.value = r.value
             /\ t.under = r.under /\ t.token = r.token
  BY <1>0, <1>2
<1>3. ASSUME NEW s, NEW v, AnsweredWith(k, s, v), t = Replied(r, s, v)
      PROVE  /\ AnsweredWith(k, t.stage, t.value)
             /\ t.under = r.under /\ t.token = r.token
  <2>1. t.stage = s /\ t.value = v /\ t.under = r.under /\ t.token = r.token
    BY <1>3 DEF Replied
  <2> QED
    BY <1>3, <2>1
<1>4. ASSUME t = Idle \/ t = [Idle EXCEPT !.stage = "retry"]
      PROVE  t.stage \in {"idle", "retry"} /\ t.under = NoToken
  BY <1>4 DEF Idle
<1>5. ASSUME Asked(k)
      PROVE  /\ t.stage = "sent" /\ t.under = page /\ t.token = Valid
             /\ k # "outside" /\ (k = "login" => path = "login")
  BY <1>5 DEF Asked, Headers
<1> QED
  BY <1>1, <1>2, <1>3, <1>4, <1>5 DEF RequestStep

\* Every variable keeps its type, and every request its form.
THEOREM SessionTyped == Spec => []TypeOK
<1>1. TypeInv => TypeOK
  BY DEF TypeInv
<1> QED
  BY <1>1, TypeInit, TypeNext, PTL DEF Spec

----------------------------------------------------------------------------
(* Tokens. *)

\* A token that was signed stays one: a new password and a new secret are
\* numbers that have not been, and a typed secret is not excused by its number.
LEMMA IssuedKept ==
  ASSUME TypeInv, CredentialStep, NEW t \in Maybe, Issued(t)
  PROVE  t # NoToken => /\ t.secret <= changes'
                        /\ t.secret = secret' /\ t.secret # Own =>
                              t.pw = pw' \/ t.crossed
<1> SUFFICES ASSUME t # NoToken
             PROVE  /\ t.secret <= changes'
                    /\ t.secret = secret' /\ t.secret # Own =>
                          t.pw = pw' \/ t.crossed
  OBVIOUS
<1>1. t \in Token /\ t.secret \in Int /\ t.secret <= changes
  BY DEF Maybe, Token, Secret, Own, Issued
<1>2. changes \in Nat
  BY DEF TypeInv, TypeOK, CredentialsTypeOK
<1>3. CASE UNCHANGED <<changes, pw, secret>>
  BY <1>1, <1>3 DEF Issued
<1>4. CASE Replaced
  <2>1. t.secret <= changes' /\ t.secret # changes + 1
    BY <1>1, <1>2, <1>4 DEF Replaced
  <2>2. secret' = Own \/ secret' = changes + 1
    BY <1>4 DEF Replaced
  <2> QED
    BY <2>1, <2>2
<1> QED
  BY <1>3, <1>4 DEF CredentialStep

\* What the step shows of a request's token: it was the one before, none, the
\* page's, or the one that is being signed.
LEMMA TokenNext == TypeInv /\ TokenInv /\ [Next]_vars => TokenInv'
<1> SUFFICES ASSUME TypeInv, TokenInv, [Next]_vars PROVE TokenInv'
  OBVIOUS
<1>0. CredentialStep /\ TabStep /\ TypeInv' /\ \A k \in Kind : RequestStep(k)
  BY NextCredentials, NextTab, NextRequests, TypeNext DEF RequestSteps
<1>1. secret' <= changes'
  <2>1. secret <= changes /\ changes \in Nat /\ secret \in Int
    BY DEF TokenInv, TypeInv, TypeOK, CredentialsTypeOK, Secret, Own
  <2>2. \/ secret' = secret /\ changes' = changes
        \/ changes' = changes + 1 /\ (secret' = -1 \/ secret' = changes + 1)
    BY <1>0 DEF CredentialStep, Replaced, Own
  <2> QED
    BY <2>1, <2>2
<1> DEFINE Good(t) ==
             t # NoToken =>
                /\ t.secret <= changes'
                /\ t.secret = secret' /\ t.secret # Own =>
                      t.pw = pw' \/ t.crossed
<1>2. ASSUME NEW t \in Maybe, Issued(t) PROVE Good(t)
  BY <1>0, <1>2, IssuedKept
<1>3. /\ stored \in Maybe /\ page \in Maybe /\ NoToken \in Maybe
      /\ req["login"].stage = "ok" => req["login"].value \in Maybe
      /\ \A k \in Kind : req[k].under \in Maybe
  BY DEF TypeInv, TypeOK, RequestInv, Maybe, Kind
<1>4. Good(stored) /\ Good(page) /\ Good(NoToken)
  BY <1>2, <1>3 DEF TokenInv
<1> HIDE DEF Good
<1>5. Good(stored') /\ Good(page')
  <2>1. Good(Valid)
    BY <1>4 DEF Valid
  <2>2. req["login"].stage = "ok" => Good(req["login"].value)
    BY <1>2, <1>3 DEF TokenInv
  <2> QED
    BY <1>0, <1>4, <2>1, <2>2 DEF TabStep, Kept, tabVars, Opened, Learned,
       Clear, Begin
<1>6. ASSUME NEW k \in Kind PROVE Good(req'[k].under)
  <2>0. IsRequest(req[k]) /\ Good(req[k].under)
    BY <1>2, <1>3 DEF TypeInv, RequestInv, TokenInv
  <2>1. \/ req'[k].under = req[k].under
        \/ req'[k].under = NoToken
        \/ req'[k].under = page
    BY <1>0, Fields
  <2> QED
    BY <1>4, <2>0, <2>1
<1>7. req'["login"].stage = "ok" => Good(req'["login"].value)
  <2> DEFINE r == req["login"]
  <2>0. "login" \in Kind /\ RequestStep("login")
    BY <1>0 DEF Kind
  <2>1. \/ req'["login"].stage # "ok"
        \/ r.stage = "ok" /\ req'["login"].value = r.value
        \/ r.stage = "verified" /\ req'["login"].value = Signed(r.try)
    BY <2>0, Fields DEF AnsweredWith
  <2>2. CASE r.stage = "verified"
    <3>1. Issued(Signed(r.try))
      BY DEF Issued, Signed, TokenInv
    <3>2. Signed(r.try) \in Maybe
      BY <2>2, SignedType DEF TypeInv, TypeOK, RequestInv, Maybe
    <3> QED
      BY <1>2, <2>1, <2>2, <3>1, <3>2
  <2>3. CASE r.stage = "ok"
    BY <1>2, <1>3, <2>1, <2>3 DEF TokenInv
  <2> QED
    BY <2>1, <2>2, <2>3
<1>8. Issued(stored)' /\ Issued(page)'
  BY <1>5 DEF Issued, Good
<1>9. \A k \in Kind : Issued(req[k].under)'
  BY <1>6 DEF Issued, Good
<1>10. (req["login"].stage = "ok")' => Issued(req["login"].value)'
  BY <1>7 DEF Issued, Good
<1> QED
  BY <1>1, <1>8, <1>9, <1>10 DEF TokenInv

\* The gate and the answer that opens it.
LEMMA GateNext == TypeInv /\ GateInv /\ [Next]_vars => GateInv'
<1> SUFFICES ASSUME TypeInv, GateInv, [Next]_vars PROVE GateInv'
  OBVIOUS
<1>0. CredentialStep /\ TabStep /\ RequestStep("status")
  BY NextCredentials, NextTab, NextRequests DEF RequestSteps, Kind
<1>1. ~isDefault => ~isDefault'
  BY <1>0 DEF CredentialStep, Replaced
<1>2. gate' = "open" => ~isDefault'
  BY <1>0, <1>1 DEF GateInv, TabStep, Kept, tabVars, Opened, Learned, Clear,
     Begin
<1>3. req'["status"].stage = "ok" /\ req'["status"].value = "open" => ~isDefault
  <2>1. \/ req'["status"].stage # "ok"
        \/ /\ req["status"].stage = "ok"
           /\ req'["status"].value = req["status"].value
        \/ req'["status"].value = IF isDefault THEN "forced" ELSE "open"
    BY <1>0, Fields DEF AnsweredWith, Kind
  <2> QED
    BY <2>1 DEF GateInv
<1> QED
  BY <1>1, <1>2, <1>3 DEF GateInv

LEMMA TokenInit == Init => TokenInv /\ GateInv
<1> SUFFICES ASSUME Init PROVE TokenInv /\ GateInv
  OBVIOUS
<1>1. \A k \in Kind : req[k] = Idle
  BY DEF Init
<1>2. Idle.stage = "idle" /\ Idle.under = NoToken
  BY DEF Idle
<1>3. Issued(NoToken)
  BY DEF Issued
<1> QED
  BY <1>1, <1>2, <1>3 DEF Init, CredentialsInit, TokenInv, GateInv, Kind

\* A change of the password takes effect everywhere: the daemon accepts no
\* session of an earlier password, and the gate is open only after the default
\* has been replaced.
THEOREM PasswordsTake == Spec => []PasswordChangeTakes
<1>1. TokenInv /\ GateInv => PasswordChangeTakes
  BY DEF TokenInv, GateInv, Issued, PasswordChangeTakes, OldTokensRefused,
     GateHolds, Accepts
<1> QED
  BY <1>1, TypeInit, TypeNext, TokenInit, TokenNext, GateNext, PTL DEF Spec

----------------------------------------------------------------------------
(* The session of the page. *)

\* The clock goes on or stands.
LEMMA Clock ==
  ASSUME TypeInv, CredentialStep
  PROVE  now \in Nat /\ now' \in {now, now + 1}
<1>1. now \in Nat
  BY DEF TypeInv, TypeOK, CredentialsTypeOK
<1>2. now' = now \/ now' = now + 1
  BY DEF CredentialStep, Replaced
<1> QED
  BY <1>1, <1>2

LEMMA PageNext == TypeInv /\ PageInv /\ [Next]_vars => PageInv'
<1> SUFFICES ASSUME TypeInv, PageInv, [Next]_vars PROVE PageInv'
  OBVIOUS
<1>0. TabStep /\ CredentialStep
  BY NextTab, NextCredentials
<1>1. /\ now \in Nat /\ now' \in {now, now + 1}
      /\ page = NoToken \/ page.exp \in Nat
  <2>1. page = NoToken \/ page \in Token
    BY DEF TypeInv, TypeOK, Maybe
  <2>2. page = NoToken \/ page.exp \in Nat
    BY <2>1, CredentialsAssumption DEF Token
  <2> QED
    BY <1>0, <2>2, Clock
<1>2. CASE Kept
  BY <1>1, <1>2 DEF Kept, tabVars, PageInv
<1>3. CASE stored' = Valid /\ UNCHANGED <<page, path, gate, now>>
  BY <1>1, <1>3 DEF Valid, PageInv
<1>4. CASE /\ path # "login" /\ path' \in {"dashboard", "settings"}
           /\ UNCHANGED <<stored, page, gate>>
  BY <1>1, <1>4 DEF PageInv
<1>5. CASE Opened
  BY <1>5 DEF Opened, PageInv
<1>6. CASE Clear
  BY <1>6 DEF Clear, PageInv
<1>7. CASE Begin(req["login"].value)
  BY <1>7 DEF Begin, Guarded, Gated, PageInv
<1>8. CASE Learned
  BY <1>1, <1>8 DEF Learned, Gated, PageInv
<1> QED
  BY <1>0, <1>2, <1>3, <1>4, <1>5, <1>6, <1>7, <1>8 DEF TabStep

\* A token that is dead stays dead.
LEMMA DeadKept ==
  ASSUME TypeInv, CredentialStep, NEW t \in Token, t.secret <= changes, Dead(t)
  PROVE  t.secret = Own \/ t.secret # secret' \/ t.exp <= now'
<1>1. /\ t.secret \in Int /\ t.exp \in Int /\ changes \in Nat /\ now \in Nat
  BY DEF Token, Secret, Own, TypeInv, TypeOK, CredentialsTypeOK
<1>2. CASE UNCHANGED secret /\ now' \in {now, now + 1}
  BY <1>1, <1>2 DEF Dead
<1>3. CASE secret' \in {Own, changes + 1}
  BY <1>1, <1>3
<1> QED
  BY <1>2, <1>3 DEF CredentialStep, Replaced

LEMMA UnderNext ==
  TypeInv /\ TokenInv /\ PageInv /\ UnderInv /\ [Next]_vars => UnderInv'
<1> SUFFICES ASSUME TypeInv, TokenInv, PageInv, UnderInv, [Next]_vars
             PROVE  UnderInv'
  OBVIOUS
<1>0. CredentialStep /\ \A k \in Kind : RequestStep(k)
  BY NextCredentials, NextRequests DEF RequestSteps
<1>1. now \in Nat /\ now' \in {now, now + 1}
  BY <1>0, Clock
<1>2. ASSUME NEW k \in {"login", "outside"}
      PROVE  req'[k].under = NoToken
  <2>1. k \in Kind /\ req[k].under = NoToken
    BY DEF Kind, UnderInv
  <2>2. k = "login" /\ path = "login" => page = NoToken
    BY DEF PageInv
  <2> QED
    BY <1>0, <2>1, <2>2, Fields
<1>3. ASSUME NEW k \in Kind, req'[k].stage = "sent", req'[k].under # NoToken
      PROVE  \/ req'[k].token = req'[k].under
             \/ req'[k].token = NoToken /\ req'[k].under.exp <= now'
  <2>1. CASE /\ req'[k].stage = req[k].stage /\ req'[k].under = req[k].under
             /\ req'[k].token = req[k].token
    <3>1. req[k].under \in Token
      BY <1>3, <2>1 DEF TypeInv, TypeOK, Maybe
    <3>2. req[k].under.exp \in Int
      BY <3>1 DEF Token
    <3> QED
      BY <1>1, <1>3, <2>1, <3>2 DEF UnderInv
  <2>2. CASE req'[k].under = page /\ req'[k].token = Valid
    <3>1. page \in Token
      BY <1>3, <2>2 DEF TypeInv, TypeOK, Maybe
    <3>2. page.exp \in Int
      BY <3>1 DEF Token
    <3> QED
      BY <1>1, <1>3, <2>2, <3>2 DEF PageInv, Valid
  <2> QED
    BY <1>0, <1>3, <2>1, <2>2, Fields DEF AnsweredWith
<1>4. ASSUME NEW k \in {"poll", "status", "rotate"},
             req'[k].stage = "unauthorized", req'[k].under # NoToken
      PROVE  LET t == req'[k].under IN
             t.secret = Own \/ t.secret # secret' \/ t.exp <= now'
  <2> DEFINE t == req[k].under
  <2>0. k \in Kind
    BY DEF Kind
  <2>1. /\ req'[k].under = t
        /\ \/ req[k].stage = "unauthorized"
           \/ req[k].stage = "sent" /\ ~Accepts(req[k].token)
    BY <1>0, <1>4, <2>0, Fields DEF AnsweredWith
  <2>2. t \in Token /\ t # NoToken
    BY <1>4, <2>0, <2>1 DEF TypeInv, TypeOK, Maybe
  <2>3. t.secret <= changes
    BY <2>0, <2>2 DEF TokenInv, Issued
  <2>4. Dead(t)
    <3>1. CASE req[k].stage = "unauthorized"
      BY <2>0, <2>2, <3>1 DEF UnderInv
    <3>2. CASE req[k].stage = "sent" /\ ~Accepts(req[k].token)
      <4>1. req[k].token = t \/ t.exp <= now
        BY <2>0, <2>2, <3>2 DEF UnderInv
      <4>2. t.exp \in Int
        BY <2>2 DEF Token
      <4> QED
        BY <1>1, <2>2, <3>2, <4>1, <4>2 DEF Accepts, Dead
    <3> QED
      BY <2>1, <3>1, <3>2
  <2> HIDE DEF t
  <2>5. t.secret = Own \/ t.secret # secret' \/ t.exp <= now'
    BY <1>0, <2>2, <2>3, <2>4, DeadKept
  <2> QED
    BY <2>1, <2>5
<1> QED
  BY <1>2, <1>3, <1>4 DEF UnderInv, Dead

LEMMA PageInit == Init => PageInv /\ UnderInv
<1> SUFFICES ASSUME Init PROVE PageInv /\ UnderInv
  OBVIOUS
<1>1. \A k \in Kind : req[k] = Idle
  BY DEF Init
<1>2. Idle.stage = "idle" /\ Idle.under = NoToken
  BY DEF Idle
<1> QED
  BY <1>1, <1>2 DEF Init, PageInv, UnderInv, Kind

----------------------------------------------------------------------------
(* The limiter. *)

LEMMA CountNext == TypeInv /\ CountInv /\ [Next]_vars => CountInv'
<1> SUFFICES ASSUME TypeInv, CountInv, [Next]_vars PROVE CountInv'
  OBVIOUS
<1>0. /\ LimiterStep /\ TypeInv'
      /\ \A k \in Kind : RequestStep(k)
  BY NextLimiter, NextRequests, TypeNext DEF RequestSteps
<1>1. /\ entry \in [failures : 0 .. MaxFailures - 1,
                    lockedUntil : 0 .. MaxTime + LockTime]
      /\ entry.failures \in 0 .. MaxFailures - 1 /\ entry.lockedUntil \in Nat
      /\ wrong \in Nat /\ now \in Nat
      /\ MaxFailures \in Nat \ {0} /\ LockTime \in Nat \ {0}
  BY CredentialsAssumption DEF TypeInv, TypeOK, CredentialsTypeOK
<1>9. wrong \in Nat /\ MaxFailures \in Nat
  BY <1>1
<1>2. CASE LetThrough
  <2>1. CASE Expired
    BY <1>2, <2>1 DEF LetThrough, Allowed, NoEntry, CountInv
  <2>2. CASE ~Expired
    <3>1. entry' = entry /\ wrong' = wrong /\ entry.lockedUntil = 0
      BY <1>1, <1>2, <2>2 DEF LetThrough, Allowed, Expired, Locked
    <3> QED
      BY <3>1 DEF CountInv
  <2> QED
    BY <2>1, <2>2
<1>3. CASE entry' = NoEntry /\ wrong' = 0
  BY <1>3 DEF NoEntry, CountInv
<1>10. PICK a \in Nat, b \in 0 .. 2 : a = Attempts /\ b = Attempts'
  <2>1. Attempts \in Nat
    BY DEF Attempts, InFlight
  <2>2. Attempts' \in 0 .. 2
    BY DEF Attempts, InFlight
  <2> QED
    BY <2>1, <2>2
<1>4. CASE UNCHANGED <<entry, wrong>> /\ ~LetThrough
  <2>1. \A k \in Kind : req'[k].stage = "allowed" => req[k].stage = "allowed"
    BY <1>0, <1>4, Fields DEF AnsweredWith
  <2>2. b <= a
    BY <1>10, <2>1 DEF Attempts, InFlight, Kind
  <2>3. entry.lockedUntil # 0 => wrong + a <= MaxFailures + 1
    BY <1>10 DEF CountInv
  <2>4. entry.lockedUntil # 0 => wrong + b <= MaxFailures + 1
    BY <1>9, <2>2, <2>3
  <2> QED
    BY <1>4, <1>10, <2>4 DEF CountInv
<1>5. ASSUME NEW k \in Kind, WrongAttempt(k) PROVE CountInv'
  <2>1. a = b + 1 /\ b <= 1
    BY <1>5, <1>10 DEF WrongAttempt, Attempts, InFlight, Kind
  <2>2. entry' = Failed /\ wrong' = wrong + 1
    BY <1>5 DEF WrongAttempt
  <2>3. CASE entry.lockedUntil = 0
    <3>1. wrong = entry.failures
      BY <2>3 DEF CountInv
    <3>2. CASE entry.failures + 1 >= MaxFailures
      <4>1. entry'.lockedUntil # 0
        BY <1>1, <2>2, <3>2 DEF Failed
      <4>2. wrong' + b <= MaxFailures + 1
        BY <1>1, <2>1, <2>2, <3>1
      <4> QED
        BY <1>10, <4>1, <4>2 DEF CountInv
    <3>3. CASE ~(entry.failures + 1 >= MaxFailures)
      <4>1. /\ entry'.failures = entry.failures + 1
            /\ entry'.lockedUntil = 0
        BY <1>1, <2>2, <2>3, <3>3 DEF Failed
      <4> QED
        BY <2>2, <3>1, <4>1 DEF CountInv
    <3> QED
      BY <3>2, <3>3
  <2>4. CASE entry.lockedUntil # 0
    <3>1. wrong + a <= MaxFailures + 1
      BY <1>10, <2>4 DEF CountInv
    <3>2. wrong' + b <= MaxFailures + 1
      BY <1>9, <2>1, <2>2, <3>1
    <3>3. entry'.lockedUntil # 0
      BY <1>1, <2>2, <2>4 DEF Failed
    <3> QED
      BY <1>10, <3>2, <3>3 DEF CountInv
  <2> QED
    BY <2>3, <2>4
<1> QED
  BY <1>0, <1>2, <1>3, <1>4, <1>5 DEF LimiterStep

LEMMA CountInit == Init => CountInv
BY DEF Init, CredentialsInit, CountInv, NoEntry

\* Two attempts at a time can exceed the limiter's count by one only, whatever
\* the limits are and whenever the lock ends.
THEOREM GuessesBounded == Spec => []GuessBound
<1>1. TypeInv /\ CountInv => GuessBound
  <2> SUFFICES ASSUME TypeInv, CountInv PROVE GuessBound
    OBVIOUS
  <2>1. /\ entry.failures \in 0 .. MaxFailures - 1
        /\ wrong \in Nat /\ Attempts \in Nat /\ MaxFailures \in Nat
    BY CredentialsAssumption
       DEF TypeInv, TypeOK, CredentialsTypeOK, Attempts, InFlight
  <2> QED
    BY <2>1 DEF CountInv, GuessBound
<1> QED
  BY <1>1, TypeInit, TypeNext, CountInit, CountNext, PTL DEF Spec

----------------------------------------------------------------------------
(* The life of a session. *)

LifeStep ==
    /\ page = NoToken /\ page' # NoToken =>
         req["login"].stage = "ok" /\ page' = req["login"].value
    /\ page # NoToken /\ page' # page /\ Accepts(page) /\ page.secret # Own =>
         \E k \in Kind : Answered(k) /\ ~Answered(k)' /\ Excused(k)

\* The page changes only by a reload or an answer.
LEMMA PageChanges ==
  ASSUME [Next]_vars, page' # page
  PROVE  Opened \/ \E k \in Kind : Deliver(k)
<1>1. CASE Submit \/ Poll \/ Retry \/ AskStatus \/ Logout \/ ChangePassword
           \/ RotateJWT \/ Navigate
  BY <1>1 DEF Submit, Poll, Retry, AskStatus, Logout, ChangePassword,
     RotateJWT, Send, Navigate
<1>2. CASE Reload
  BY <1>2 DEF Reload, Opened
<1>3. CASE \/ Rotate \/ CheckChange \/ Change
           \/ Allow \/ Sign \/ Outside \/ OutsideLogin
           \/ Foreign \/ Restart \/ Pass \/ UNCHANGED vars
  BY <1>3 DEF Rotate, CheckChange, Change, Allow, Sign, Outside, OutsideLogin,
     LetThrough, Foreign, Restart, Pass, vars, tabVars
<1>4. ASSUME NEW k \in Kind, Refuse(k) \/ Handle(k) \/ Verify(k) \/ Lose(k)
      PROVE  page' = page
  BY <1>4 DEF Refuse, Handle, Verify, Lose, tabVars
<1> QED
  BY <1>1, <1>2, <1>3, <1>4 DEF Next

\* What an answer does to the page.
LEMMA Delivered ==
  ASSUME TypeInv, NEW k \in Kind, Deliver(k), page' # page
  PROVE  /\ Answered(k) /\ ~Answered(k)'
         /\ \/ Ends(k) /\ page' = NoToken
            \/ k = "login" /\ req[k].stage = "ok" /\ page' = req[k].value
<1>1. Answered(k)
  BY DEF Deliver
<1>2. ~Answered(k)'
  <2>1. req = [j \in Kind |-> req[j]]
    BY DEF TypeInv, RequestInv
  <2>2. \/ req' = [req EXCEPT ![k] = Idle]
        \/ req' = [req EXCEPT ![k] = [Idle EXCEPT !.stage = "retry"]]
    BY DEF Deliver
  <2>3. req'[k] = Idle \/ req'[k] = [Idle EXCEPT !.stage = "retry"]
    BY <2>1, <2>2
  <2>4. req'[k].stage \in {"idle", "retry"}
    BY <2>3 DEF Idle
  <2> QED
    BY <2>4 DEF Answered
<1>3. \/ Ends(k) /\ page' = NoToken
      \/ k = "login" /\ req[k].stage = "ok" /\ page' = req[k].value
  BY DEF Deliver, Clear, Begin, tabVars
<1> QED
  BY <1>1, <1>2, <1>3

LEMMA LifeNext ==
  TypeInv /\ PageInv /\ UnderInv /\ [Next]_vars => LifeStep
<1> SUFFICES ASSUME TypeInv, PageInv, UnderInv, [Next]_vars PROVE LifeStep
  OBVIOUS
<1>1. CASE page' = page
  BY <1>1 DEF LifeStep
<1>2. CASE Opened /\ page' # page
  <2>1. page = NoToken => page' = NoToken
    BY <1>2 DEF Opened, Valid, PageInv
  <2>2. ~(page # NoToken /\ Accepts(page))
    <3> SUFFICES ASSUME page # NoToken, Accepts(page) PROVE FALSE
      OBVIOUS
    <3>1. page \in Token
      BY DEF TypeInv, TypeOK, Maybe
    <3>2. page.exp > now /\ page.exp \in Int /\ now \in Int
      BY <3>1 DEF Accepts, Token, TypeInv, TypeOK, CredentialsTypeOK
    <3>3. stored = page
      BY <3>2 DEF PageInv
    <3> QED
      BY <1>2, <3>2, <3>3 DEF Opened, Valid
  <2> QED
    BY <2>1, <2>2 DEF LifeStep
<1>3. ASSUME NEW k \in Kind, Deliver(k), page' # page PROVE LifeStep
  <2>1. /\ Answered(k) /\ ~Answered(k)'
        /\ \/ Ends(k) /\ page' = NoToken
           \/ k = "login" /\ req[k].stage = "ok" /\ page' = req[k].value
    BY <1>3, Delivered
  <2>2. page = NoToken /\ page' # NoToken =>
           req["login"].stage = "ok" /\ page' = req["login"].value
    BY <2>1
  <2>3. ASSUME page # NoToken, Accepts(page), page.secret # Own
        PROVE  Excused(k)
    <3>1. CASE k \in {"login", "outside"}
      BY <2>3, <3>1 DEF UnderInv, Excused
    <3>2. CASE k \in {"logout", "change"}
      BY <3>2 DEF Excused
    <3>3. CASE k \in {"poll", "status", "rotate"} /\ req[k].stage = "unauthorized"
      <4>1. CASE req[k].under = page
        <5>1. Dead(page)
          BY <2>3, <3>3, <4>1 DEF UnderInv
        <5>2. page \in Token
          BY <2>3 DEF TypeInv, TypeOK, Maybe
        <5>3. page.exp \in Int /\ now \in Int
          BY <5>2 DEF Token, TypeInv, TypeOK, CredentialsTypeOK
        <5> QED
          BY <2>3, <5>1, <5>3 DEF Dead, Accepts
      <4>2. CASE req[k].under # page
        BY <4>2 DEF Excused
      <4> QED
        BY <4>1, <4>2
    <3>4. CASE k = "rotate" /\ req[k].stage = "ok"
      BY <3>4 DEF Excused
    <3> QED
      BY <2>1, <3>1, <3>2, <3>3, <3>4 DEF Ends, Kind
  <2> QED
    BY <2>1, <2>2, <2>3 DEF LifeStep
<1> QED
  BY <1>1, <1>2, <1>3, PageChanges

\* A session comes into the tab only by the answer of a login, and one the
\* daemon accepts leaves it only for a reason: no order of answers, expiries,
\* reloads and changes takes it away or brings an ended one back.
THEOREM SessionsLive == Spec => SessionLife
<1>1. IInv => TypeInv /\ PageInv /\ UnderInv
  BY DEF IInv
<1>2. Init => IInv
  BY TypeInit, TokenInit, CountInit, PageInit DEF IInv
<1>3. IInv /\ [Next]_vars => IInv'
  BY TypeNext, TokenNext, GateNext, CountNext, PageNext, UnderNext DEF IInv
<1>4. IInv /\ [Next]_vars
      => [/\ page = NoToken /\ page' # NoToken =>
               req["login"].stage = "ok" /\ page' = req["login"].value
          /\ page # NoToken /\ page' # page /\ Accepts(page)
             /\ page.secret # Own =>
               \E k \in Kind : Answered(k) /\ ~Answered(k)' /\ Excused(k)]_vars
  BY <1>1, LifeNext DEF LifeStep
<1> QED
  BY <1>2, <1>3, <1>4, PTL DEF Spec, SessionLife
=============================================================================
