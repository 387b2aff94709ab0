------------------------------ MODULE Session ------------------------------
(***************************************************************************)
(* The session of a browser tab against the daemon: sessionStore and       *)
(* AuthProvider keep it, the API client sends it and ends it at a 401      *)
(* (ui/src/lib, ui/src/features/auth), the router and DefaultPasswordGate  *)
(* decide what is shown.                                                   *)
(*                                                                         *)
(* There is at most one request of each kind: React Query joins the        *)
(* requests of a key, also across two sessions, and the others have one    *)
(* button.  Login and ChangePassword read the credentials in one step and  *)
(* use them in a later one.  "outside" is a login that another client      *)
(* behind the same address attempts.  The streams are in LogStream.        *)
(***************************************************************************)
EXTENDS Credentials, FiniteSets

CONSTANT MaxBusy  \* bound: requests of the tab under way, beside the poll

VARIABLES
    stored,  \* the session in sessionStorage
    page,    \* AuthProvider's session
    path,    \* the page that is shown
    gate,    \* the cached answer of useDefaultPasswordStatus
    req,     \* the request of each kind
    retried  \* the poll is in its second attempt

tabVars == <<stored, page, path, gate>>
vars == <<credentialVars, tabVars, req, retried>>

Kind == {"login", "outside", "poll", "status", "logout", "change", "rotate"}
Idle == [stage |-> "idle", under |-> NoToken, token |-> NoToken,
         try |-> Wrong, value |-> "none", waiting |-> FALSE]
Maybe == Token \cup {NoToken}

TypeOK ==
    /\ CredentialsTypeOK
    /\ stored \in Maybe /\ page \in Maybe
    /\ path \in {"login", "dashboard", "settings"}
    /\ gate \in {"unknown", "forced", "open"}
    /\ \A k \in Kind :
         /\ req[k].stage \in {"idle", "sent", "allowed", "verified", "ok",
                              "unauthorized", "failed", "retry"}
         /\ req[k].under \in Maybe /\ req[k].token \in Maybe
         /\ req[k].waiting \in BOOLEAN
    /\ retried \in BOOLEAN

Answered(k) == req[k].stage \in {"ok", "unauthorized", "failed"}

----------------------------------------------------------------------------
(* The tab. *)

\* sessionStore.get: an expired session counts as none, and is removed.
Valid == IF stored # NoToken /\ stored.exp > now THEN stored ELSE NoToken

\* DefaultPasswordGate, on the way to a page of the shell.
Gated(p, g) == IF g = "forced" THEN "settings" ELSE p

\* ProtectedRoute and the redirect of LoginPage.
Guarded(s, p) == IF s = NoToken THEN "login"
                 ELSE IF p = "login" THEN Gated("dashboard", gate)
                 ELSE Gated(p, gate)

Init ==
    /\ CredentialsInit
    /\ stored = NoToken /\ page = NoToken
    /\ path = "login" /\ gate = "unknown"
    /\ req = [k \in Kind |-> Idle] /\ retried = FALSE

\* createHeaders: the token is read when the request is sent.
Headers(k, p) ==
    [stage |-> "sent", under |-> page, token |-> Valid, try |-> p,
     value |-> "none", waiting |-> TRUE]

Send(k, p) ==
    /\ req[k] = Idle
    /\ k = "poll" \/ Cardinality({l \in Kind \ {"poll"} : req[l] # Idle}) < MaxBusy
    /\ req' = [req EXCEPT ![k] = Headers(k, p)]
    /\ stored' = Valid
    /\ UNCHANGED <<credentialVars, page, path, gate, retried>>

\* LoginPage's form, with the right or a wrong password.
Submit == path = "login" /\ \E p \in {pw, Wrong} : Send("login", p)

\* The dashboard asks for the service's status every five seconds.
Poll == path = "dashboard" /\ Send("poll", Wrong)

\* A query that fails is sent once more, whatever is shown by then (retry: 1
\* in AppProviders).
Retry ==
    /\ req["poll"].stage = "retry"
    /\ req' = [req EXCEPT !["poll"] = Headers("poll", Wrong)]
    /\ stored' = Valid
    /\ retried' = TRUE
    /\ UNCHANGED <<credentialVars, page, path, gate>>

\* useDefaultPasswordStatus, when a page that uses it mounts: at once without
\* an answer, and when the answer is old.
AskStatus == path # "login" /\ Send("status", Wrong)

\* The button of AppSidebar.
Logout == path # "login" /\ Send("logout", Wrong)

\* AccountCard: a new password, with the current one or a mistake.
ChangePassword == path = "settings" /\ \E p \in {pw, Wrong} : Send("change", p)

\* AccountCard: a new secret.
RotateJWT == path = "settings" /\ Send("rotate", Wrong)

\* The links of the sidebar: one page that polls, and the settings.
Pages == {"dashboard", "settings"}

\* AppRoutes: a link, or an address the user enters in the shell.
Navigate ==
    /\ path # "login"
    /\ \E p \in Pages : path' = Gated(p, gate)
    /\ UNCHANGED <<credentialVars, stored, page, gate, req, retried>>

\* The tab loads the application again: its requests have nobody waiting, and
\* those the daemon has not begun or has answered are gone.
Reload ==
    /\ stored' = Valid /\ page' = Valid
    /\ gate' = "unknown"
    /\ path' = IF Valid = NoToken THEN "login"
               ELSE IF path = "login" THEN "dashboard" ELSE path
    /\ req' = [k \in Kind |->
                 IF k = "outside" THEN req[k]
                 ELSE IF req[k].stage \in {"allowed", "verified"}
                 THEN [req[k] EXCEPT !.waiting = FALSE]
                 ELSE Idle]
    /\ retried' = FALSE
    /\ UNCHANGED credentialVars

\* A bug to be caught: only the provider's state is cleared.
ClearPage ==
    /\ page' = NoToken /\ path' = "login"
    /\ UNCHANGED <<stored, gate>>

\* AuthProvider.clear, whatever session it finds; the query cache stays.
Clear ==
    /\ stored' = NoToken /\ page' = NoToken /\ path' = "login"
    /\ UNCHANGED gate

\* AuthProvider.login.
Begin(s) ==
    /\ stored' = s /\ page' = s
    /\ path' = Guarded(s, path)
    /\ UNCHANGED gate

\* A bug to be caught: a 401 counts only for a request that had a token.
EndsWithToken(k) ==
    \/ req[k].stage = "unauthorized" /\ req[k].token # NoToken
    \/ k = "logout"
    \/ k \in {"change", "rotate"} /\ req[k].stage = "ok"

\* What ends the session: a 401 of any request (apiRequestEnvelope), any
\* answer to a logout, and a success of AccountCard.
Ends(k) ==
    \/ req[k].stage = "unauthorized"
    \/ k = "logout"
    \/ k \in {"change", "rotate"} /\ req[k].stage = "ok"

\* The answer, or the failure, reaches the tab.
Deliver(k) ==
    /\ Answered(k)
    /\ IF k = "poll" /\ req[k].stage # "ok" /\ ~retried
       THEN /\ req' = [req EXCEPT ![k] = [Idle EXCEPT !.stage = "retry"]]
            /\ UNCHANGED retried
       ELSE /\ req' = [req EXCEPT ![k] = Idle]
            /\ retried' = (k # "poll" /\ retried)
    /\ \/ Ends(k) /\ Clear
       \/ k = "login" /\ req[k].stage = "ok" /\ Begin(req[k].value)
       \/ /\ k = "status" /\ req[k].stage = "ok"
          /\ gate' = req[k].value
          /\ path' = IF page = NoToken THEN path ELSE Gated(path, gate')
          /\ UNCHANGED <<stored, page>>
       \/ /\ ~Ends(k)
          /\ k \in {"login", "status"} => req[k].stage # "ok"
          /\ UNCHANGED tabVars
    /\ UNCHANGED credentialVars

----------------------------------------------------------------------------
(* The daemon. *)

\* A handler ends; a client that has gone gets no answer.
Reply(k, s, v) ==
    req' = [req EXCEPT ![k] =
              IF k # "outside" /\ req[k].waiting
              THEN [@ EXCEPT !.stage = s, !.value = v, !.try = Wrong] ELSE Idle]

Refuse(k) ==
    /\ req[k].stage = "sent" /\ k # "login"
    /\ ~Accepts(req[k].token)
    /\ Reply(k, "unauthorized", "none")
    /\ UNCHANGED <<credentialVars, tabVars, retried>>

\* The handlers that only read.
Handle(k) ==
    /\ req[k].stage = "sent" /\ k \in {"poll", "status", "logout"}
    /\ Accepts(req[k].token)
    /\ Reply(k, "ok", IF k # "status" THEN "none"
                      ELSE IF isDefault THEN "forced" ELSE "open")
    /\ UNCHANGED <<credentialVars, tabVars, retried>>

\* A secret that is too short is an error.
Rotate ==
    /\ req["rotate"].stage = "sent" /\ Accepts(req["rotate"].token)
    /\ \/ SetJWTSecret /\ Reply("rotate", "ok", "none")
       \/ UNCHANGED credentialVars /\ Reply("rotate", "failed", "none")
    /\ UNCHANGED <<tabVars, retried>>

\* ChangeAdminPassword up to the new hash: a wrong current password is
\* answered like a missing token, a weak new one is an error.
CheckChange ==
    LET r == req["change"] IN
    /\ r.stage = "sent" /\ Accepts(r.token)
    /\ \/ r.try = pw /\ req' = [req EXCEPT !["change"].stage = "verified"]
       \/ r.try = pw /\ Reply("change", "failed", "none")
       \/ r.try # pw /\ Reply("change", "unauthorized", "none")
    /\ UNCHANGED <<credentialVars, tabVars, retried>>

Change ==
    /\ req["change"].stage = "verified"
    /\ CommitPassword
    /\ Reply("change", "ok", "none")
    /\ UNCHANGED <<tabVars, retried>>

\* AuthHandler.Login begins: the limiter lets the attempt through.
LetThrough ==
    /\ ~Locked
    /\ entry' = Allowed
    /\ wrong' = IF Expired THEN 0 ELSE wrong
    /\ UNCHANGED <<now, changes, pw, isDefault, secret, tabVars, retried>>

Allow ==
    /\ req["login"].stage = "sent"
    /\ \/ /\ LetThrough
          /\ req' = [req EXCEPT !["login"].stage = "allowed"]
       \/ /\ Locked
          /\ Reply("login", "failed", "none")
          /\ UNCHANGED <<credentialVars, tabVars, retried>>

\* Another client's attempt is through the limiter, with a wrong password.
Outside ==
    /\ req["outside"] = Idle
    /\ LetThrough
    /\ req' = [req EXCEPT !["outside"].stage = "allowed"]

\* Another client has logged in, without a pause.
OutsideLogin ==
    /\ ~Locked
    /\ entry' = NoEntry /\ wrong' = 0
    /\ UNCHANGED <<now, changes, pw, isDefault, secret, tabVars, retried, req>>

\* Then the password is checked; a failure is recorded.
Verify(k) ==
    /\ req[k].stage = "allowed"
    /\ \/ /\ req[k].try = pw
          /\ req' = [req EXCEPT ![k].stage = "verified"]
          /\ UNCHANGED <<entry, wrong>>
       \/ /\ req[k].try # pw
          /\ Reply(k, "unauthorized", "none")
          /\ entry' = Failed
          /\ wrong' = wrong + 1
    /\ UNCHANGED <<now, changes, pw, isDefault, secret, tabVars, retried>>

\* Then the count is dropped and the token signed, under the secret of this
\* moment.
Sign ==
    /\ req["login"].stage = "verified"
    /\ entry' = NoEntry /\ wrong' = 0
    /\ Reply("login", "ok", Signed(req["login"].try))
    /\ UNCHANGED <<now, changes, pw, isDefault, secret, tabVars, retried>>

----------------------------------------------------------------------------
(* The rest of the world. *)

\* Another session of the administrator changes the password or the secret.
Foreign == (CommitPassword \/ SetJWTSecret) /\ UNCHANGED <<tabVars, retried, req>>

\* A request or its answer is lost.
Lose(k) ==
    /\ req[k].stage \in {"sent", "ok", "unauthorized"}
    /\ req' = [req EXCEPT ![k].stage = "failed", ![k].value = "none",
                          ![k].try = Wrong]
    /\ UNCHANGED <<credentialVars, tabVars, retried>>

\* The daemon restarts; what it was working on fails.
Restart ==
    /\ ForgetAttempts
    /\ req' = [k \in Kind |->
                 IF req[k].stage \in {"sent", "allowed", "verified"}
                 THEN IF req[k].waiting THEN [req[k] EXCEPT !.stage = "failed"]
                      ELSE Idle
                 ELSE req[k]]
    /\ UNCHANGED <<tabVars, retried>>

Pass == Tick /\ UNCHANGED <<tabVars, retried, req>>

Next ==
    \/ Submit \/ Poll \/ Retry \/ AskStatus \/ Logout \/ ChangePassword \/ RotateJWT
    \/ Navigate \/ Reload
    \/ Rotate \/ CheckChange \/ Change
    \/ Allow \/ Sign \/ Outside \/ OutsideLogin
    \/ \E k \in Kind : \/ Deliver(k) \/ Refuse(k) \/ Handle(k)
                       \/ Verify(k) \/ Lose(k)
    \/ Foreign \/ Restart \/ Pass

Spec == Init /\ [][Next]_vars

\* React Query polls while the dashboard is shown, and neither the daemon nor
\* the network fails every poll.
FairSpec ==
    /\ Spec
    /\ WF_vars(Poll) /\ WF_vars(Retry)
    /\ SF_vars(Refuse("poll")) /\ WF_vars(Handle("poll"))
    /\ WF_vars(Deliver("poll"))
    /\ SF_vars(req["poll"].stage # "failed" /\ Deliver("poll"))

----------------------------------------------------------------------------
(* Properties. *)

\* What may take a session the daemon still accepts from the user: a logout,
\* a rotation of this tab, a mistake in the current password, and an answer
\* to a request of an earlier session.
Excused(k) ==
    \/ k \in {"logout", "change"}
    \/ k = "rotate" /\ req[k].stage = "ok"
    \/ req[k].under # page

\* A session appears in the tab only by the answer of a login, so that one
\* that has ended never comes back, and one the daemon accepts ends only for
\* a reason (apiRequestEnvelope, AuthProvider, sessionStore).  A secret that
\* is typed again makes a session valid that has been refused.
SessionLife == [][
    /\ page = NoToken /\ page' # NoToken =>
         req["login"].stage = "ok" /\ page' = req["login"].value
    /\ page # NoToken /\ page' # page /\ Accepts(page) /\ page.secret # Own =>
         \E k \in Kind : Answered(k) /\ ~Answered(k)' /\ Excused(k)]_vars

\* The daemon accepts no session of an earlier password, but one whose login
\* the change has met between the check and the signature, or whose secret the
\* user has typed again.
OldTokensRefused ==
    Accepts(page) /\ page.secret # Own => page.pw = pw \/ page.crossed

\* The gate is open only once the default password has been replaced.
GateHolds == gate = "open" => ~isDefault

\* A change of the password takes effect everywhere (ChangeAdminPassword).
PasswordChangeTakes == OldTokensRefused /\ GateHolds

\* Two attempts at a time can exceed the limiter's count by one only.
GuessBound == wrong <= MaxFailures + 1

\* The dashboard does not stay on the screen with a session that the daemon
\* no longer accepts.
DeadSessionLeaves ==
    (path = "dashboard" /\ ~Accepts(page))
      ~> (path # "dashboard" \/ Accepts(page))
=============================================================================
