-------------------------- MODULE DashboardSession --------------------------
(***************************************************************************)
(* One tab of the dashboard, App.jsx with its forms, and the server it     *)
(* talks to: the tokens are those of AdminAuth, everything else that the   *)
(* server stores is a version number.                                      *)
(*                                                                         *)
(* Nothing in the tab is ever aborted: an answer is handled whenever it    *)
(* comes, by the closure that asked, with the token of that time. A        *)
(* handler runs without interruption up to its next await.                 *)
(***************************************************************************)
EXTENDS AdminAuth, Integers

CONSTANTS
    Endpoints,    \* what a poll reads: /api/status, /api/server, /api/clients
    Elsewhere,    \* a request of another browser
    MaxCalls,     \* bound: requests of the tab in flight
    MaxChecks,    \* bound: /api/auth/status requests in flight
    MaxVersion,   \* bound: changes of what the server stores
    MaxMishaps    \* bound: lost requests, errors of the server, reloads

VARIABLES
    token,        \* authToken, which localStorage repeats; 0 when there is none
    needsSetup,   \* authStatus?.needs_setup: false as well before the first answer
    loading,
    shown,        \* what the tab shows of each endpoint
    calls,        \* requests in flight
    checks,       \* how many /api/auth/status are at each stage
    version,      \* of what the server stores
    mishaps

tabVars == <<token, needsSetup, loading, shown, calls, checks>>
vars == <<authVars, tabVars, version, mishaps>>

\* Stages of a GET in a poll, and what may be shown in place of a version.
Nothing == -1
Asked == -2
Unauthorized == -3
Thrown == -4
ErrorBody == -5    \* the body of a 4xx or 5xx, which fetchData takes for data

Slots == 1 .. MaxCalls
Ops == {"write", "delete", "password"}
None == [kind |-> "none"]
Me(t) == [kind |-> "me", token |-> t, answer |-> "asked"]
Profile(t) == [kind |-> "profile", token |-> t, answer |-> "asked"]
Poll(t) == [kind |-> "poll", token |-> t, got |-> [e \in Endpoints |-> Asked]]
Change(t, op) == [kind |-> "change", op |-> op, token |-> t, answer |-> "asked"]
Enter(kind) == [kind |-> kind, token |-> 0, answer |-> "asked"]

Calls ==
    LET Answers == {"asked", "ok", "unauthorized"}
        Tokens == 0 .. MaxTokens
    IN  {None}
        \cup [kind : {"me", "profile", "login", "setup"}, token : Tokens, answer : Answers]
        \cup [kind : {"change"}, op : Ops, token : Tokens, answer : Answers]
        \cup [kind : {"poll"}, token : Tokens,
              got : [Endpoints -> {Asked, Unauthorized, Thrown, ErrorBody}
                                  \cup 0 .. MaxVersion]]

ASSUME SessionAssumption ==
    /\ Callers = Slots \cup {Elsewhere}
    /\ MaxCalls \in Nat /\ MaxVersion \in Nat /\ MaxMishaps \in Nat
    /\ MaxChecks \in Nat \ {0}

SessionTypeOK ==
    /\ AuthTypeOK
    /\ token \in 0 .. Len(tokens)
    /\ needsSetup \in BOOLEAN
    /\ loading \in BOOLEAN
    /\ shown \in [Endpoints -> {Nothing, ErrorBody} \cup 0 .. MaxVersion]
    /\ calls \in [Slots -> Calls]
    /\ checks \in [{"asked", "needed", "done"} -> 0 .. MaxChecks]
    /\ version \in 0 .. MaxVersion
    /\ mishaps \in 0 .. MaxMishaps

Free == {s \in Slots : calls[s] = None}
AFree == CHOOSE s \in Free : \A t \in Free : s <= t

\* checkAuthStatus asks; several may be under way.
MayCheck == checks["asked"] + checks["needed"] + checks["done"] < MaxChecks
Check == checks' = [checks EXCEPT !["asked"] = @ + 1]

\* The login screen is shown without a token, and while setup is needed.
AtLogin == token = 0 \/ needsSetup

\* The effect of a new token: /api/auth/me, a first poll, and the interval
\* that Tick stands for.
StartSession(t, rest) ==
    /\ token' = t
    /\ LET free == {s \in Slots : rest[s] = None}
       IN  \E m, p \in free :
             /\ m < p
             /\ \A s \in free : s >= m /\ (s = m \/ s >= p)
             /\ calls' = [rest EXCEPT ![m] = Me(t), ![p] = Poll(t)]

\* Mutant: neither the effect nor the finally stops the spinner.
EndSessionSpinning ==
    /\ MayCheck
    /\ Check
    /\ token' = 0
    /\ UNCHANGED loading

\* The end of a session, at logout or at an answer 401.
EndSession ==
    /\ MayCheck
    /\ Check
    /\ token' = 0
    /\ loading' = FALSE

\* App is mounted with the token that localStorage holds: the effects of the
\* first render ask for the status and, with a token, start a session.
NothingShown == [e \in Endpoints |-> Nothing]
FirstCheck == [x \in {"asked", "needed", "done"} |-> IF x = "asked" THEN 1 ELSE 0]
FirstCalls(t) == [s \in Slots |-> CASE t # 0 /\ s = 1 -> Me(t)
                                    [] t # 0 /\ s = 2 -> Poll(t)
                                    [] OTHER -> None]

Init ==
    /\ AuthInit
    /\ token \in 0 .. Len(tokens)
    /\ needsSetup = FALSE
    /\ loading = (token # 0)
    /\ shown = NothingShown
    /\ calls = FirstCalls(token)
    /\ checks = FirstCheck
    /\ version = 0
    /\ mishaps = 0
-----------------------------------------------------------------------------
(* The tab asks.                                                           *)

\* Mutant: the effect does not clear the interval.
TickForever ==
    /\ Free # {}
    /\ calls' = [calls EXCEPT ![AFree] = Poll(token)]
    /\ UNCHANGED <<authVars, token, needsSetup, loading, shown, checks, version, mishaps>>

\* Mutant: fetchData has no interval once something is shown.
TickOnce ==
    /\ token # 0
    /\ shown = NothingShown
    /\ Free # {}
    /\ calls' = [calls EXCEPT ![AFree] = Poll(token)]
    /\ UNCHANGED <<authVars, token, needsSetup, loading, shown, checks, version, mishaps>>

\* The interval of 5 seconds, which does not wait for earlier polls.
Tick ==
    /\ token # 0
    /\ Free # {}
    /\ calls' = [calls EXCEPT ![AFree] = Poll(token)]
    /\ UNCHANGED <<authVars, token, needsSetup, loading, shown, checks, version, mishaps>>

\* handleCreateClient, handleDeleteClient, handleSaveSettings and
\* handleChangePassword, which the dialogs call.
Ask(op) ==
    /\ ~AtLogin
    /\ Free # {}
    /\ calls' = [calls EXCEPT ![AFree] = Change(token, op)]
    /\ UNCHANGED <<authVars, token, needsSetup, loading, shown, checks, version, mishaps>>

\* The dialog of a new client disables its button while it waits. Once closed it
\* forgets that it does, and so do the settings dialogs; the one that confirms a
\* deletion never waits. What a creation and a save write is not told apart.
AskCreate == Ask("write")
AskSave == Ask("write")
AskDelete == Ask("delete")

\* The dialog of the password stays mounted, and waits, when it is closed.
AskPassword ==
    /\ \A s \in Slots : calls[s].kind = "change" /\ calls[s].token = token
                         => calls[s].op # "password"
    /\ Ask("password")

\* The dialog of a profile asks with a fetch of its own when it opens and for
\* each copy; what comes of it is the dialog's alone, a 401 too.
AskProfile ==
    /\ ~AtLogin
    /\ Free # {}
    /\ calls' = [calls EXCEPT ![AFree] = Profile(token)]
    /\ UNCHANGED <<authVars, token, needsSetup, loading, shown, checks, version, mishaps>>

\* The login screen sends one form at a time (its button is disabled).
Submit ==
    /\ AtLogin
    /\ \A s \in Slots : calls[s].kind \notin {"login", "setup"}
    /\ Free # {}
    /\ passed[AFree] = Nobody
    /\ calls' = [calls EXCEPT
                   ![AFree] = Enter(IF needsSetup THEN "setup" ELSE "login")]
    /\ UNCHANGED <<authVars, token, needsSetup, loading, shown, checks, version, mishaps>>

Logout ==
    /\ ~AtLogin
    /\ EndSession
    /\ UNCHANGED <<authVars, needsSetup, shown, calls, version, mishaps>>

\* The page is loaded again: the requests in flight are forgotten, though the
\* server may still be busy with a setup.
Reload ==
    /\ mishaps < MaxMishaps
    /\ mishaps' = mishaps + 1
    /\ needsSetup' = FALSE
    /\ loading' = (token # 0)
    /\ shown' = NothingShown
    /\ calls' = FirstCalls(token)
    /\ checks' = FirstCheck
    /\ UNCHANGED <<authVars, token, version>>
-----------------------------------------------------------------------------
(* The server answers. An answer that only ends its request, such as a     *)
(* refusal that a form shows, is handled where it is given.                *)

Done(s) == [calls EXCEPT ![s] = None]
Answered(s, a) == calls' = [calls EXCEPT ![s].answer = a]
IsAsked(s, kind) == calls[s].kind = kind /\ calls[s].answer = "asked"

\* AuthMiddleware turns every request without a live token away.
TurnedAway(s) ==
    /\ calls[s].kind \in {"me", "change"}
    /\ calls[s].answer = "asked"
    /\ ~Authorized(calls[s].token)
    /\ Answered(s, "unauthorized")
    /\ UNCHANGED <<authVars, version>>

\* A created client and saved settings are followed by a poll, a deletion by
\* one even if it was refused.
AnswerChange(s) ==
    /\ IsAsked(s, "change")
    /\ Authorized(calls[s].token)
    /\ \/ /\ calls[s].op # "password"
          /\ version < MaxVersion
          /\ version' = version + 1
          /\ Answered(s, "ok")
          /\ UNCHANGED authVars
       \/ /\ calls[s].op = "password"
          /\ \E p \in Passwords : ChangesPassword(calls[s].token, p)
          /\ calls' = Done(s)
          /\ UNCHANGED version
       \/ /\ IF calls[s].op = "delete" THEN Answered(s, "ok") ELSE calls' = Done(s)
          /\ UNCHANGED <<authVars, version>>

\* The profile, an error, a 401 or a failure on the way.
AnswerProfile(s) ==
    /\ IsAsked(s, "profile")
    /\ calls' = Done(s)
    /\ UNCHANGED <<authVars, version>>

\* At the bound of tokens the server is taken to have an error.
AnswerLogin(s) ==
    /\ IsAsked(s, "login")
    /\ \/ \E cred \in Credentials :
            \/ LoginRefused(cred) /\ calls' = Done(s)
            \/ /\ LogsIn(cred)
               /\ calls' = [calls EXCEPT ![s].answer = "ok", ![s].token = Len(tokens')]
       \/ Len(tokens) = MaxTokens /\ calls' = Done(s) /\ UNCHANGED authVars
    /\ UNCHANGED version

\* SetupAdmin, in two steps. A slot may belong to a page that was reloaded:
\* then nobody gets the answer.
CountSetup(s) ==
    /\ IsAsked(s, "setup")
    /\ \E cred \in Credentials :
         \/ SetupPasses(s, cred) /\ UNCHANGED calls
         \/ SetupRefused(s, cred) /\ calls' = Done(s)
    /\ UNCHANGED version

FinishSetup(s) ==
    /\ \/ /\ SetupInserts(s)
          /\ calls' = IF IsAsked(s, "setup")
                      THEN [calls EXCEPT ![s].answer = "ok", ![s].token = Len(tokens')]
                      ELSE calls
       \/ /\ SetupConflicts(s) \/ SetupFails(s)
          /\ calls' = IF IsAsked(s, "setup") THEN Done(s) ELSE calls
    /\ UNCHANGED version

AnswerPoll(s, e) ==
    /\ calls[s].kind = "poll"
    /\ calls[s].got[e] = Asked
    /\ calls' = [calls EXCEPT ![s].got[e] =
                   IF Authorized(calls[s].token) THEN version ELSE Unauthorized]
    /\ UNCHANGED <<authVars, version>>

Answer(s) ==
    /\ \/ TurnedAway(s) \/ AnswerChange(s) \/ AnswerProfile(s) \/ AnswerLogin(s)
       \/ CountSetup(s) \/ FinishSetup(s)
       \/ \E e \in Endpoints : AnswerPoll(s, e)
    /\ UNCHANGED <<token, needsSetup, loading, shown, checks, mishaps>>

\* GetStatus, and an error body, in which needs_setup is undefined.
AnswerCheck ==
    /\ checks["asked"] > 0
    /\ \/ /\ checks' = [checks EXCEPT !["asked"] = @ - 1,
                          ![IF NeedsSetup THEN "needed" ELSE "done"] = @ + 1]
          /\ UNCHANGED mishaps
       \/ /\ mishaps < MaxMishaps
          /\ mishaps' = mishaps + 1
          /\ \/ checks' = [checks EXCEPT !["asked"] = @ - 1, !["done"] = @ + 1]
             \/ checks' = [checks EXCEPT !["asked"] = @ - 1]
    /\ UNCHANGED <<authVars, token, needsSetup, loading, shown, calls, version>>

-----------------------------------------------------------------------------
(* The tab handles an answer.                                              *)

\* authenticatedFetch, on 401: the session ends, whatever token it has by now.
\* It throws; a poll goes on to wait for its other answers.
HandleUnauthorized(s) ==
    /\ EndSession
    /\ \/ /\ calls[s].kind \in {"me", "change"}
          /\ calls[s].answer = "unauthorized"
          /\ calls' = Done(s)
       \/ /\ calls[s].kind = "poll"
          /\ \E e \in Endpoints :
               /\ calls[s].got[e] = Unauthorized
               /\ calls' = [calls EXCEPT ![s].got[e] = Thrown]
    /\ UNCHANGED <<needsSetup, shown>>

\* Mutant: Promise.allSettled, and the values are taken as they are.
HandlePollSettled(s) ==
    /\ calls[s].kind = "poll"
    /\ \A e \in Endpoints : calls[s].got[e] \notin {Asked, Unauthorized}
    /\ calls' = Done(s)
    /\ shown' = calls[s].got
    /\ loading' = FALSE
    /\ UNCHANGED <<token, needsSetup, checks>>

\* Mutant: whatever went wrong with a poll ends the session.
HandlePollStrict(s) ==
    /\ calls[s].kind = "poll"
    /\ \A e \in Endpoints : calls[s].got[e] \notin {Asked, Unauthorized}
    /\ calls' = Done(s)
    /\ IF \E e \in Endpoints : calls[s].got[e] = Thrown
       THEN token' = 0 /\ loading' = FALSE /\ UNCHANGED shown
       ELSE shown' = calls[s].got /\ loading' = FALSE /\ UNCHANGED token
    /\ UNCHANGED <<needsSetup, checks>>

\* fetchData, once all three have come: an error body is taken for data, and
\* for an empty list of clients.
HandlePoll(s) ==
    /\ calls[s].kind = "poll"
    /\ \A e \in Endpoints : calls[s].got[e] \notin {Asked, Unauthorized}
    /\ calls' = Done(s)
    /\ IF \E e \in Endpoints : calls[s].got[e] = Thrown
       THEN UNCHANGED <<shown, loading>>
       ELSE shown' = calls[s].got /\ loading' = FALSE
    /\ UNCHANGED <<token, needsSetup, checks>>

\* fetchUserData. Nothing depends on when the answer was given, so it is given
\* when it is handled.
HandleMe(s) ==
    /\ IsAsked(s, "me")
    /\ Authorized(calls[s].token)
    /\ calls' = Done(s)
    /\ UNCHANGED <<token, needsSetup, loading, shown, checks>>

\* The poll after a change is the handler's own: it has the token of the time
\* when the handler was started.
HandleChange(s) ==
    /\ calls[s].kind = "change"
    /\ calls[s].answer = "ok"
    /\ calls' = [calls EXCEPT ![s] = Poll(calls[s].token)]
    /\ UNCHANGED <<token, needsSetup, loading, shown, checks>>

\* handleLogin and handleSetup.
HandleEnter(s) ==
    /\ calls[s].kind \in {"login", "setup"}
    /\ calls[s].answer = "ok"
    /\ StartSession(calls[s].token, Done(s))
    /\ needsSetup' = (needsSetup /\ calls[s].kind # "setup")
    /\ UNCHANGED <<loading, shown, checks>>

Handle(s) ==
    /\ \/ HandleUnauthorized(s) \/ HandlePoll(s) \/ HandleMe(s)
       \/ HandleChange(s) \/ HandleEnter(s)
    /\ UNCHANGED <<authVars, version, mishaps>>

\* A request or its answer is lost on the way, which the tab notices as an
\* exception, or the server has an error. The exception ends the request: it
\* is logged or shown in the form, and the first one rejects the Promise.all
\* of fetchData, whose finally ends the spinner.
Fails(s) ==
    /\ mishaps < MaxMishaps
    /\ mishaps' = mishaps + 1
    /\ \/ /\ calls[s].kind \in {"me", "change", "login", "setup"}
          /\ calls' = Done(s)
          /\ UNCHANGED loading
       \/ /\ calls[s].kind = "poll"
          /\ \E e \in Endpoints :
               /\ calls[s].got[e] = Asked
               /\ \/ /\ calls' = [calls EXCEPT ![s].got[e] = Thrown]
                     /\ loading' = FALSE
                  \/ /\ calls' = [calls EXCEPT ![s].got[e] = ErrorBody]
                     /\ UNCHANGED loading
    /\ UNCHANGED <<authVars, token, needsSetup, shown, checks, version>>

HandleCheck ==
    /\ \E a \in {"needed", "done"} :
         /\ checks[a] > 0
         /\ needsSetup' = (a = "needed")
         /\ checks' = [checks EXCEPT ![a] = @ - 1]
    /\ UNCHANGED <<authVars, token, loading, shown, calls, version, mishaps>>
-----------------------------------------------------------------------------
(* Everybody else: other browsers and time.                                *)

Others ==
    /\ \/ /\ \/ \E cred \in Credentials :
                  SetupPasses(Elsewhere, cred)
             \/ SetupInserts(Elsewhere) \/ SetupConflicts(Elsewhere)
             \/ SetupFails(Elsewhere)
             \/ TokensExpire
          /\ UNCHANGED version
       \/ /\ version < MaxVersion
          /\ version' = version + 1
          /\ UNCHANGED authVars
    /\ UNCHANGED <<tabVars, mishaps>>

Next ==
    \/ Tick \/ Submit \/ Logout \/ Reload
    \/ AskCreate \/ AskSave \/ AskDelete \/ AskPassword \/ AskProfile
    \/ \E s \in Slots : Answer(s) \/ Fails(s) \/ Handle(s)
    \/ AnswerCheck \/ HandleCheck
    \/ Others

Spec == Init /\ [][Next]_vars

\* The timer fires, requests are answered or lost, and the event loop gets to
\* every answer. Nothing is assumed of the administrator or of other browsers.
\* SF of Tick, because only the bound MaxCalls ever holds the timer up.
LiveSpec ==
    /\ Spec
    /\ SF_vars(Tick)
    /\ \A s \in Slots : WF_vars(Answer(s)) /\ SF_vars(Handle(s))
    /\ WF_vars(AnswerCheck) /\ WF_vars(HandleCheck)
-----------------------------------------------------------------------------
(* A session ends at logout or once a token has expired: no lost request, no
   error of the server and no late answer to a live token ends it.         *)
EndsByExpiry ==
    [][token # 0 /\ token' = 0 => Logout \/ expired > 0]_vars

(* The polls notice that the token has expired and bring the login screen,
   whatever the administrator does; nothing else checks the token.         *)
ExpiredEnds ==
    \A t \in 1 .. MaxTokens : token = t /\ t <= expired ~> token # t

(* A tab that stays logged out stops asking for protected data: the interval
   is cleared, and what handlers of the old session still start dies out.  *)
PollsStop ==
    <>[](token = 0)
      => <>[](\A s \in Slots : calls[s].kind \notin {"me", "poll", "change", "profile"})

(* In a session that lasts, once nobody changes anything any more, the tab
   comes to show what is stored and keeps showing it: answers that come out
   of order and error bodies taken for data are made good by later polls.  *)
Converges ==
    \A v \in 0 .. MaxVersion :
      <>[](token # 0 /\ version = v) => <>[](\A e \in Endpoints : shown[e] = v)

(* The spinner of the first load ends, whatever becomes of the first poll. *)
SpinnerEnds == loading ~> ~loading
=============================================================================
