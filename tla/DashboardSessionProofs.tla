----------------------- MODULE DashboardSessionProofs -----------------------
(***************************************************************************)
(* What AdminAuth keeps with any number of users, passwords, overlapping   *)
(* setups and tokens; that the session of a tab asks nothing of the        *)
(* administrators that AdminAuth does not allow, so that this holds of the *)
(* composition; and what the session keeps.                                *)
(***************************************************************************)
EXTENDS DashboardSession, TLAPS

-----------------------------------------------------------------------------
(* The administrators.                                                     *)

USE AuthAssumption

\* The table is empty, or there is one administrator with one token at most.
LEMMA AuthInitType == AuthInit => AuthTypeOK
<1> SUFFICES ASSUME AuthInit PROVE AuthTypeOK
  OBVIOUS
<1>1. admins \in [Users -> Passwords \cup {NoPassword}]
  <2>1. CASE admins = [u \in Users |-> NoPassword]
    BY <2>1
  <2>2. CASE \E cred \in Credentials \ TooShort :
               admins = [u \in Users |->
                           IF u = cred.user THEN cred.password ELSE NoPassword]
    BY <2>2 DEF Credentials
  <2> QED
    BY <2>1, <2>2 DEF AuthInit
<1>2. passed \in [Callers -> Credentials \cup {Nobody}]
  BY DEF AuthInit
<1>3. tokens \in Seq(Users)
  <2>1. CASE tokens = <<>>
    BY <2>1
  <2>2. ASSUME NEW u \in Users, tokens = <<u>>
        PROVE  tokens \in Seq(Users)
    BY <2>2
  <2> QED
    BY <2>1, <2>2 DEF AuthInit
<1> QED
  BY <1>1, <1>2, <1>3 DEF AuthInit, AuthTypeOK

\* Issuing a token appends its owner; the tokens before it stay.
LEMMA IssueAppends ==
  ASSUME AuthTypeOK, NEW u \in Users, Issue(u)
  PROVE  /\ tokens' \in Seq(Users)
         /\ Len(tokens') = Len(tokens) + 1
         /\ \A t \in 1 .. Len(tokens) : tokens'[t] = tokens[t]
         /\ tokens'[Len(tokens) + 1] = u
  BY DEF AuthTypeOK, Issue

\* Storing credentials changes one row, into a password.
LEMMA InsertStores ==
  ASSUME AuthTypeOK, NEW cred \in Credentials, Insert(cred)
  PROVE  /\ admins' \in [Users -> Passwords \cup {NoPassword}]
         /\ admins'[cred.user] \in Passwords
         /\ \A u \in Users : u # cred.user => admins'[u] = admins[u]
  BY DEF AuthTypeOK, Insert, Credentials

\* The credentials inside a SetupAdmin are those it was called with.
LEMMA PassedCredentials ==
  ASSUME AuthTypeOK, NEW c \in Callers, passed[c] # Nobody
  PROVE  passed[c] \in Credentials /\ passed[c].user \in Users
  BY DEF AuthTypeOK, Credentials

LEMMA AuthNextType ==
  ASSUME AuthTypeOK, [AuthNext]_authVars
  PROVE  AuthTypeOK'
<1>1. ASSUME NEW c \in Callers, NEW cred \in Credentials, SetupPasses(c, cred)
      PROVE  AuthTypeOK'
  BY <1>1 DEF AuthTypeOK, SetupPasses
<1>2. ASSUME NEW c \in Callers, SetupInserts(c)
      PROVE  AuthTypeOK'
  <2>1. passed[c] \in Credentials /\ passed[c].user \in Users
    BY <1>2, PassedCredentials DEF SetupInserts
  <2>2. admins' \in [Users -> Passwords \cup {NoPassword}]
    BY <1>2, <2>1, InsertStores DEF SetupInserts
  <2>3. tokens' \in Seq(Users) /\ Len(tokens') = Len(tokens) + 1
    BY <1>2, <2>1, IssueAppends DEF SetupInserts
  <2> QED
    BY <1>2, <2>2, <2>3 DEF AuthTypeOK, SetupInserts
<1>3. ASSUME NEW c \in Callers, SetupConflicts(c)
      PROVE  AuthTypeOK'
  BY <1>3 DEF AuthTypeOK, SetupConflicts
<1>4. ASSUME NEW c \in Callers, SetupFails(c)
      PROVE  AuthTypeOK'
  <2>1. passed[c] \in Credentials
    BY <1>4, PassedCredentials DEF SetupFails
  <2>2. admins' \in [Users -> Passwords \cup {NoPassword}]
    BY <1>4, <2>1, InsertStores DEF SetupFails, AuthTypeOK
  <2> QED
    BY <1>4, <2>2 DEF AuthTypeOK, SetupFails
<1>5. ASSUME NEW cred \in Credentials, LogsIn(cred)
      PROVE  AuthTypeOK'
  <2>1. cred.user \in Users
    BY DEF Credentials
  <2>2. tokens' \in Seq(Users) /\ Len(tokens') = Len(tokens) + 1
    BY <1>5, <2>1, IssueAppends DEF LogsIn
  <2> QED
    BY <1>5, <2>2 DEF AuthTypeOK, LogsIn
<1>6. ASSUME NEW t \in 1 .. Len(tokens), NEW p \in Passwords, ChangesPassword(t, p)
      PROVE  AuthTypeOK'
  BY <1>6 DEF AuthTypeOK, ChangesPassword
<1>7. CASE TokensExpire
  BY <1>7 DEF AuthTypeOK, TokensExpire
<1>8. CASE UNCHANGED authVars
  BY <1>8 DEF AuthTypeOK, authVars
<1> QED
  BY <1>1, <1>2, <1>3, <1>4, <1>5, <1>6, <1>7, <1>8
     DEF AuthNext, SetupRefused, LoginRefused

(* Type correctness, for every number of tokens.                           *)
THEOREM AuthTypes == AuthSpec => []AuthTypeOK
<1>1. AuthInit => AuthTypeOK
  BY AuthInitType
<1>2. AuthTypeOK /\ [AuthNext]_authVars => AuthTypeOK'
  BY AuthNextType
<1> QED
  BY <1>1, <1>2, PTL DEF AuthSpec

\* No operation removes an administrator.
LEMMA RowsStay ==
  ASSUME AuthTypeOK, [AuthNext]_authVars, NEW u \in Users, Exists(u)
  PROVE  Exists(u)'
<1>1. ASSUME NEW c \in Callers, passed[c] # Nobody, Insert(passed[c])
      PROVE  Exists(u)'
  BY <1>1, PassedCredentials, InsertStores DEF Exists
<1>2. ASSUME NEW t \in 1 .. Len(tokens), NEW p \in Passwords, ChangesPassword(t, p)
      PROVE  Exists(u)'
  BY <1>2 DEF ChangesPassword, Exists, AuthTypeOK
<1>3. CASE UNCHANGED admins
  BY <1>3 DEF Exists
<1> QED
  BY <1>1, <1>2, <1>3 DEF AuthNext, authVars, SetupPasses, SetupRefused, SetupInserts,
     SetupConflicts, SetupFails, LogsIn, LoginRefused, TokensExpire

(* Whoever has a token has a row. It takes that no row ever goes away and that
   SetupAdmin signs only after its INSERT.                                 *)
THEOREM TokensHaveTheirOwners == AuthSpec => []TokensHaveOwners
<1>1. AuthInit => TokensHaveOwners
  <2> SUFFICES ASSUME AuthInit, NEW t \in 1 .. Len(tokens) PROVE Exists(tokens[t])
    BY DEF TokensHaveOwners
  <2>1. PICK u \in Users : Exists(u) /\ tokens = <<u>>
    BY DEF AuthInit
  <2> QED
    BY <2>1
<1>2. ASSUME AuthTypeOK, TokensHaveOwners, [AuthNext]_authVars
      PROVE  TokensHaveOwners'
  <2>1. \A t \in 1 .. Len(tokens) :
          tokens[t] \in Users /\ admins'[tokens[t]] # NoPassword
    <3>1. \A u \in Users : Exists(u) => admins'[u] # NoPassword
      BY <1>2, RowsStay DEF Exists
    <3>2. \A t \in 1 .. Len(tokens) : tokens[t] \in Users
      BY <1>2 DEF AuthTypeOK
    <3> QED
      BY <1>2, <3>1, <3>2 DEF TokensHaveOwners
  <2>2. ASSUME NEW u \in Users, Issue(u), admins'[u] # NoPassword
        PROVE  TokensHaveOwners'
    <3>1. /\ Len(tokens') = Len(tokens) + 1
          /\ \A t \in 1 .. Len(tokens) : tokens'[t] = tokens[t]
          /\ tokens'[Len(tokens) + 1] = u
      BY <1>2, <2>2, IssueAppends
    <3>2. Len(tokens) \in Nat
      BY <1>2 DEF AuthTypeOK
    <3>3. \A t \in 1 .. Len(tokens') : admins'[tokens'[t]] # NoPassword
      BY <2>1, <2>2, <3>1, <3>2
    <3> QED
      BY <3>3 DEF TokensHaveOwners, Exists
  <2>3. ASSUME NEW c \in Callers, SetupInserts(c)
        PROVE  TokensHaveOwners'
    <3>1. passed[c] \in Credentials /\ passed[c].user \in Users
      BY <1>2, <2>3, PassedCredentials DEF SetupInserts
    <3>2. admins'[passed[c].user] # NoPassword
      BY <1>2, <2>3, <3>1, InsertStores DEF SetupInserts, Exists
    <3> QED
      BY <2>2, <2>3, <3>1, <3>2 DEF SetupInserts
  <2>4. ASSUME NEW cred \in Credentials, LogsIn(cred)
        PROVE  TokensHaveOwners'
    BY <2>2, <2>4 DEF LogsIn, Credentials, Exists
  <2>5. CASE UNCHANGED tokens
    BY <2>1, <2>5 DEF TokensHaveOwners, Exists
  <2> QED
    BY <1>2, <2>3, <2>4, <2>5 DEF AuthNext, authVars, SetupPasses, SetupRefused,
       SetupConflicts, SetupFails, LoginRefused, ChangesPassword, TokensExpire
<1> QED
  BY <1>1, <1>2, AuthTypes, PTL DEF AuthSpec

(* No setup changes the password of an administrator who is there, however
   many overlap: only a request with a token of that administrator does.   *)
THEOREM PasswordsAreKept == AuthSpec => PasswordsKept
<1> DEFINE Kept(u) == Exists(u) => \/ admins'[u] = admins[u]
                                   \/ /\ admins'[u] # NoPassword
                                      /\ \E t \in 1 .. Len(tokens) : tokens[t] = u
<1>1. ASSUME AuthTypeOK, [AuthNext]_authVars, NEW u \in Users
      PROVE  Kept(u)
  <2>1. ASSUME NEW c \in Callers, passed[c] # Nobody, ~Exists(passed[c].user),
               Insert(passed[c])
        PROVE  Kept(u)
    BY <1>1, <2>1, PassedCredentials, InsertStores
  <2>2. ASSUME NEW t \in 1 .. Len(tokens), NEW p \in Passwords, ChangesPassword(t, p)
        PROVE  Kept(u)
    BY <1>1, <2>2 DEF ChangesPassword, AuthTypeOK
  <2>3. CASE UNCHANGED admins
    BY <2>3
  <2> QED
    BY <1>1, <2>1, <2>2, <2>3 DEF AuthNext, authVars, SetupPasses, SetupRefused,
       SetupInserts, SetupConflicts, SetupFails, LogsIn, LoginRefused, TokensExpire
<1>2. AuthTypeOK /\ [AuthNext]_authVars => [\A u \in Users : Kept(u)]_authVars
  BY <1>1
<1> QED
  BY <1>2, AuthTypes, PTL DEF AuthSpec, PasswordsKept

-----------------------------------------------------------------------------
(* The session and the administrators.                                      *)

\* Only answers to a password change, a login and a setup touch the table and
\* the tokens, and with an operation of AdminAuth.
LEMMA AnswerIsAuth ==
  ASSUME AuthTypeOK, NEW s \in Slots, Answer(s)
  PROVE  [AuthNext]_authVars
<1> USE SessionAssumption
<1>1. CASE TurnedAway(s) \/ \E e \in Endpoints : AnswerPoll(s, e)
  BY <1>1 DEF TurnedAway, AnswerPoll, authVars
<1>2. CASE AnswerChange(s)
  <2>1. CASE UNCHANGED authVars
    BY <2>1
  <2>2. ASSUME Authorized(calls[s].token),
               NEW p \in Passwords, ChangesPassword(calls[s].token, p)
        PROVE  [AuthNext]_authVars
    <3>1. calls[s].token \in 1 .. Len(tokens)
      BY <2>2 DEF Authorized, AuthTypeOK
    <3> QED
      BY <2>2, <3>1 DEF AuthNext
  <2> QED
    BY <1>2, <2>1, <2>2 DEF AnswerChange
<1>3. CASE AnswerLogin(s)
  BY <1>3 DEF AnswerLogin, AuthNext
<1>4. CASE CountSetup(s)
  BY <1>4 DEF CountSetup, AuthNext
<1>5. CASE FinishSetup(s)
  BY <1>5 DEF FinishSetup, AuthNext
<1>6. CASE AnswerProfile(s)
  BY <1>6 DEF AnswerProfile, authVars
<1> QED
  BY <1>1, <1>2, <1>3, <1>4, <1>5, <1>6 DEF Answer

\* So does another browser, and time; all else leaves the administrators alone.
LEMMA StepIsAuth ==
  ASSUME AuthTypeOK, [Next]_vars
  PROVE  [AuthNext]_authVars
<1> USE SessionAssumption
<1>1. ASSUME NEW s \in Slots, Answer(s)
      PROVE  [AuthNext]_authVars
  BY <1>1, AnswerIsAuth
<1>2. CASE Others
  BY <1>2 DEF Others, AuthNext
<1>3. ASSUME NEW s \in Slots, Fails(s) \/ Handle(s)
      PROVE  UNCHANGED authVars
  BY <1>3 DEF Fails, Handle
<1>4. CASE AskCreate \/ AskSave \/ AskDelete \/ AskPassword \/ AskProfile
  BY <1>4 DEF AskCreate, AskSave, AskDelete, AskPassword, AskProfile, Ask
<1>5. CASE Tick \/ Submit \/ Logout \/ Reload \/ AnswerCheck \/ HandleCheck
  BY <1>5 DEF Tick, Submit, Logout, Reload, AnswerCheck, HandleCheck
<1>6. CASE UNCHANGED vars
  BY <1>6 DEF vars
<1> QED
  BY <1>1, <1>2, <1>3, <1>4, <1>5, <1>6 DEF Next

(* The composition implements AdminAuth: whatever a tab does, with late
   answers, reloads and abandoned setups, is a run of the administrators and
   tokens, or leaves them alone.                                           *)
THEOREM SessionImplementsAuth == Spec => AuthSpec
<1>1. Init => AuthInit
  BY DEF Init
<1>2. AuthTypeOK /\ [Next]_vars => [AuthNext]_authVars
  BY StepIsAuth
<1>3. AuthTypeOK /\ [AuthNext]_authVars => AuthTypeOK'
  BY AuthNextType
<1>4. AuthInit => AuthTypeOK
  BY AuthInitType
<1> QED
  BY <1>1, <1>2, <1>3, <1>4, PTL DEF Spec, AuthSpec

(* In the session, too, whoever has a token has a row.                     *)
THEOREM SessionTokensHaveOwners == Spec => []TokensHaveOwners
  BY SessionImplementsAuth, TokensHaveTheirOwners, PTL
-----------------------------------------------------------------------------
(***************************************************************************)
(* What the requests in flight know of the tokens, with any number of      *)
(* requests, tokens, mishaps and changes.                                  *)
(*                                                                         *)
(* That a session ends by expiry alone is not inductive: an answer 401 may *)
(* be handled long after it was given, by a tab that has a token it was    *)
(* not about. So each request is told apart by what it may say by then.    *)
(***************************************************************************)

\* A request, when n tokens were issued and x of them have expired: only a form
\* of the login screen has no token before its answer brings one, and nothing is
\* turned away before some token has expired.
CallHolds(c, n, x) ==
    /\ c \in Calls
    /\ c.kind \in {"me", "poll", "change", "profile"} => c.token \in 1 .. n
    /\ c.kind \in {"login", "setup"} =>
         c.token \in 0 .. n /\ (c.answer = "ok" => c.token # 0)
    /\ c.kind \in {"me", "change"} /\ c.answer = "unauthorized" => x > 0
    /\ c.kind = "poll" => \A e \in Endpoints : c.got[e] = Unauthorized => x > 0

CallsInv ==
    /\ calls \in [Slots -> Calls]
    /\ \A s \in Slots : CallHolds(calls[s], Len(tokens), expired)

\* What the bounds of TLC need: the counters stay within them.
ChecksInv ==
    /\ checks \in [{"asked", "needed", "done"} -> Nat]
    /\ checks["asked"] + checks["needed"] + checks["done"] <= MaxChecks

ScreenInv ==
    /\ needsSetup \in BOOLEAN
    /\ loading \in BOOLEAN
    /\ shown \in [Endpoints -> {Nothing, ErrorBody} \cup 0 .. MaxVersion]
    /\ version \in 0 .. MaxVersion
    /\ mishaps \in 0 .. MaxMishaps

TokensInv ==
    /\ AuthTypeOK
    /\ Len(tokens) <= MaxTokens
    /\ token \in 0 .. Len(tokens)

SessionInv == TokensInv /\ CallsInv /\ ChecksInv /\ ScreenInv

\* Tokens are only ever issued, and only ever expire.
LEMMA TokensGrow ==
  ASSUME AuthTypeOK, Len(tokens) <= MaxTokens, [AuthNext]_authVars
  PROVE  /\ Len(tokens) \in Nat /\ Len(tokens') \in Nat
         /\ expired \in Nat /\ expired' \in Nat
         /\ Len(tokens) <= Len(tokens') /\ Len(tokens') <= MaxTokens
         /\ expired <= expired'
<1>1. AuthTypeOK'
  BY AuthNextType
<1>2. /\ Len(tokens) \in Nat /\ Len(tokens') \in Nat
      /\ expired \in Nat /\ expired' \in Nat
  BY <1>1 DEF AuthTypeOK
<1>3. ASSUME NEW u \in Users, Issue(u), UNCHANGED expired
      PROVE  /\ Len(tokens) <= Len(tokens') /\ Len(tokens') <= MaxTokens
             /\ expired <= expired'
  <2>1. Len(tokens') = Len(tokens) + 1
    BY <1>3, IssueAppends
  <2>2. Len(tokens) < MaxTokens /\ MaxTokens \in Nat
    BY <1>3, AuthAssumption DEF Issue
  <2> QED
    BY <1>2, <1>3, <2>1, <2>2
<1>4. ASSUME NEW c \in Callers, SetupInserts(c)
      PROVE  \E u \in Users : Issue(u) /\ UNCHANGED expired
  BY <1>4, PassedCredentials DEF SetupInserts
<1>5. ASSUME NEW cred \in Credentials, LogsIn(cred)
      PROVE  \E u \in Users : Issue(u) /\ UNCHANGED expired
  BY <1>5 DEF LogsIn, Credentials
<1>6. CASE UNCHANGED <<tokens, expired>>
  BY <1>2, <1>6
<1>7. CASE TokensExpire
  BY <1>2, <1>7 DEF TokensExpire
<1> QED
  BY <1>2, <1>3, <1>4, <1>5, <1>6, <1>7 DEF AuthNext, authVars, SetupPasses,
     SetupRefused, SetupConflicts, SetupFails, LoginRefused, ChangesPassword

\* What is known of a request stays known.
LEMMA CallKept ==
  ASSUME NEW c, NEW m \in Nat, NEW n \in Nat, NEW x \in Nat, NEW y \in Nat,
         m <= n, x <= y, CallHolds(c, m, x)
  PROVE  CallHolds(c, n, y)
<1>1. \A t \in 1 .. m : t \in 1 .. n
  OBVIOUS
<1>2. \A t \in 0 .. m : t \in 0 .. n
  OBVIOUS
<1>3. x > 0 => y > 0
  OBVIOUS
<1> QED
  BY <1>1, <1>2, <1>3 DEF CallHolds

\* The requests a tab starts.
LEMMA NoneHolds ==
  ASSUME NEW n \in Nat, NEW x \in Nat
  PROVE  CallHolds(None, n, x)
  BY DEF CallHolds, None, Calls

LEMMA StartedHolds ==
  ASSUME NEW n \in Nat, n <= MaxTokens, NEW x \in Nat, NEW t \in 1 .. n
  PROVE  /\ CallHolds(Me(t), n, x)
         /\ CallHolds(Profile(t), n, x)
         /\ CallHolds(Poll(t), n, x)
         /\ \A op \in Ops : CallHolds(Change(t, op), n, x)
<1>1. t \in 0 .. MaxTokens
  BY AuthAssumption
<1>2. CallHolds(Me(t), n, x)
  BY <1>1 DEF CallHolds, Calls, Me
<1>3. CallHolds(Profile(t), n, x)
  BY <1>1 DEF CallHolds, Calls, Profile
<1>4. CallHolds(Poll(t), n, x)
  BY <1>1 DEF CallHolds, Calls, Poll, Asked, Unauthorized
<1>5. ASSUME NEW op \in Ops PROVE CallHolds(Change(t, op), n, x)
  BY <1>1 DEF CallHolds, Calls, Change
<1> QED
  BY <1>2, <1>3, <1>4, <1>5

LEMMA EnterHolds ==
  ASSUME NEW n \in Nat, NEW x \in Nat, NEW kind \in {"login", "setup"}
  PROVE  CallHolds(Enter(kind), n, x)
<1>1. 0 \in 0 .. MaxTokens
  BY AuthAssumption
<1> QED
  BY <1>1 DEF CallHolds, Calls, Enter

\* Answers: a refusal ends the wait of a request that some token has outlived.
LEMMA AnsweredHolds ==
  ASSUME NEW n \in Nat, NEW x \in Nat, NEW c, CallHolds(c, n, x),
         c.kind \in {"me", "change"}, NEW a \in {"ok", "unauthorized"},
         a = "unauthorized" => x > 0
  PROVE  CallHolds([c EXCEPT !.answer = a], n, x)
<1>1. CASE c.kind = "me"
  <2>1. c \in [kind : {"me", "profile", "login", "setup"}, token : 0 .. MaxTokens,
               answer : {"asked", "ok", "unauthorized"}]
    BY <1>1 DEF CallHolds, Calls, None
  <2> QED
    BY <1>1, <2>1 DEF CallHolds, Calls
<1>2. CASE c.kind = "change"
  <2>1. c \in [kind : {"change"}, op : Ops, token : 0 .. MaxTokens,
               answer : {"asked", "ok", "unauthorized"}]
    BY <1>2 DEF CallHolds, Calls, None
  <2> QED
    BY <1>2, <2>1 DEF CallHolds, Calls
<1> QED
  BY <1>1, <1>2

LEMMA EnteredHolds ==
  ASSUME NEW n \in Nat, n > 0, n <= MaxTokens, NEW x \in Nat, NEW c \in Calls,
         c.kind \in {"login", "setup"}
  PROVE  CallHolds([c EXCEPT !.answer = "ok", !.token = n], n, x)
<1>1. c \in [kind : {"me", "profile", "login", "setup"}, token : 0 .. MaxTokens,
             answer : {"asked", "ok", "unauthorized"}]
  BY DEF Calls, None
<1>2. n \in 0 .. MaxTokens /\ n \in 0 .. n /\ n # 0
  BY AuthAssumption
<1> QED
  BY <1>1, <1>2 DEF CallHolds, Calls

LEMMA PolledHolds ==
  ASSUME NEW n \in Nat, NEW x \in Nat, NEW c, CallHolds(c, n, x),
         c.kind = "poll", NEW e \in Endpoints,
         NEW g \in {Unauthorized, Thrown, ErrorBody} \cup 0 .. MaxVersion,
         g = Unauthorized => x > 0
  PROVE  CallHolds([c EXCEPT !.got[e] = g], n, x)
<1>1. c \in [kind : {"poll"}, token : 0 .. MaxTokens,
             got : [Endpoints -> {Asked, Unauthorized, Thrown, ErrorBody}
                                 \cup 0 .. MaxVersion]]
  BY DEF CallHolds, Calls, None
<1> DEFINE got == [c.got EXCEPT ![e] = g]
<1>2. got \in [Endpoints -> {Asked, Unauthorized, Thrown, ErrorBody}
                            \cup 0 .. MaxVersion]
  BY <1>1
<1>3. \A f \in Endpoints : got[f] = Unauthorized => x > 0
  BY <1>1 DEF CallHolds
<1>4. [c EXCEPT !.got[e] = g] = [kind |-> "poll", token |-> c.token, got |-> got]
  BY <1>1
<1> HIDE DEF got
<1> QED
  BY <1>1, <1>2, <1>3, <1>4 DEF CallHolds, Calls

\* One request changes, while tokens are issued and expire.
LEMMA CallsKept ==
  ASSUME TokensInv, CallsInv, [AuthNext]_authVars,
         NEW s, NEW c, CallHolds(c, Len(tokens'), expired'),
         calls' = [calls EXCEPT ![s] = c]
  PROVE  CallsInv'
<1>1. c \in Calls
  BY DEF CallHolds
<1>2. calls' \in [Slots -> Calls]
  BY <1>1 DEF CallsInv
<1>3. ASSUME NEW q \in Slots
      PROVE  CallHolds(calls'[q], Len(tokens'), expired')
  <2>1. CallHolds(calls[q], Len(tokens'), expired')
    BY TokensGrow, CallKept DEF TokensInv, CallsInv
  <2>2. calls'[q] = calls[q] \/ calls'[q] = c
    BY DEF CallsInv
  <2> QED
    BY <2>1, <2>2
<1> QED
  BY <1>2, <1>3 DEF CallsInv

LEMMA CallsUnchanged ==
  ASSUME TokensInv, CallsInv, [AuthNext]_authVars, UNCHANGED calls
  PROVE  CallsInv'
<1>1. \A q \in Slots : CallHolds(calls[q], Len(tokens'), expired')
  BY TokensGrow, CallKept DEF TokensInv, CallsInv
<1> QED
  BY <1>1 DEF CallsInv

\* A request that is over.
LEMMA CallDone ==
  ASSUME TokensInv, CallsInv, [AuthNext]_authVars, NEW s, calls' = Done(s)
  PROVE  CallsInv'
<1>1. CallHolds(None, Len(tokens'), expired')
  BY TokensGrow, NoneHolds DEF TokensInv
<1> QED
  BY <1>1, CallsKept DEF Done

LEMMA AnswerCalls ==
  ASSUME TokensInv, CallsInv, version \in 0 .. MaxVersion,
         NEW s \in Slots, Answer(s)
  PROVE  CallsInv'
<1>1. [AuthNext]_authVars
  BY AnswerIsAuth DEF TokensInv
<1>2. CallHolds(calls[s], Len(tokens), expired) /\ calls[s] \in Calls
  BY DEF CallsInv, CallHolds
<1>3. /\ Len(tokens) \in Nat /\ expired \in Nat
      /\ Len(tokens') \in Nat /\ expired' \in Nat
  BY <1>1, TokensGrow DEF TokensInv
<1>4. CallHolds(calls[s], Len(tokens'), expired')
  BY <1>1, <1>2, TokensGrow, CallKept DEF TokensInv
<1>5. CASE TurnedAway(s)
  <2>1. calls[s].token \in 1 .. Len(tokens) /\ calls[s].token \notin expired + 1 .. Len(tokens)
    BY <1>2, <1>5 DEF TurnedAway, CallHolds, Authorized
  <2>2. expired > 0 /\ expired' = expired
    BY <1>3, <1>5, <2>1 DEF TurnedAway, authVars
  <2>3. CallHolds([calls[s] EXCEPT !.answer = "unauthorized"], Len(tokens'), expired')
    BY <1>3, <1>4, <1>5, <2>2, AnsweredHolds DEF TurnedAway
  <2> QED
    BY <1>1, <1>5, <2>3, CallsKept DEF TurnedAway, Answered
<1>6. CASE AnswerChange(s)
  <2>1. CASE calls' = Done(s)
    BY <1>1, <2>1, CallDone
  <2>2. CASE Answered(s, "ok")
    <3>1. CallHolds([calls[s] EXCEPT !.answer = "ok"], Len(tokens'), expired')
      BY <1>3, <1>4, <1>6, AnsweredHolds DEF AnswerChange, IsAsked
    <3> QED
      BY <1>1, <2>2, <3>1, CallsKept DEF Answered
  <2> QED
    BY <1>6, <2>1, <2>2 DEF AnswerChange
<1>7. ASSUME calls[s].kind \in {"login", "setup"}, NEW u \in Users, Issue(u),
             calls' = [calls EXCEPT ![s].answer = "ok", ![s].token = Len(tokens')]
      PROVE  CallsInv'
  <2>1. Len(tokens') > 0 /\ Len(tokens') <= MaxTokens
    BY <1>1, <1>3, <1>7, IssueAppends, TokensGrow DEF TokensInv
  <2> DEFINE n == Len(tokens')
             c == [calls[s] EXCEPT !.answer = "ok", !.token = n]
  <2>2. CallHolds(c, n, expired')
    BY <1>2, <1>3, <1>7, <2>1, EnteredHolds
  <2>3. calls' = [calls EXCEPT ![s] = c]
    BY <1>7
  <2> HIDE DEF c
  <2> QED
    BY <1>1, <2>2, <2>3, CallsKept
<1>8. CASE AnswerLogin(s)
  <2>1. CASE calls' = Done(s)
    BY <1>1, <2>1, CallDone
  <2>2. ASSUME NEW cred \in Credentials, LogsIn(cred),
               calls' = [calls EXCEPT ![s].answer = "ok", ![s].token = Len(tokens')]
        PROVE  CallsInv'
    BY <1>7, <1>8, <2>2 DEF AnswerLogin, IsAsked, LogsIn, Credentials
  <2> QED
    BY <1>8, <2>1, <2>2 DEF AnswerLogin
<1>9. CASE CountSetup(s)
  BY <1>1, <1>9, CallDone, CallsUnchanged DEF CountSetup
<1>10. CASE FinishSetup(s)
  <2>1. CASE UNCHANGED calls
    BY <1>1, <2>1, CallsUnchanged
  <2>2. CASE calls' = Done(s)
    BY <1>1, <2>2, CallDone
  <2>3. CASE /\ SetupInserts(s) /\ IsAsked(s, "setup")
             /\ calls' = [calls EXCEPT ![s].answer = "ok", ![s].token = Len(tokens')]
    <3>1. passed[s].user \in Users /\ Issue(passed[s].user)
      BY <2>3, PassedCredentials, SessionAssumption DEF SetupInserts, TokensInv
    <3> QED
      BY <1>7, <2>3, <3>1 DEF IsAsked
  <2> QED
    BY <1>10, <2>1, <2>2, <2>3 DEF FinishSetup
<1>11. ASSUME NEW e \in Endpoints, AnswerPoll(s, e)
       PROVE  CallsInv'
  <2> DEFINE g == IF Authorized(calls[s].token) THEN version ELSE Unauthorized
  <2>1. calls[s].token \in 1 .. Len(tokens)
    BY <1>2, <1>11 DEF AnswerPoll, CallHolds
  <2>2. g = Unauthorized => expired' > 0
    BY <1>3, <1>11, <2>1 DEF AnswerPoll, Authorized, authVars, Unauthorized
  <2>3. g \in {Unauthorized, Thrown, ErrorBody} \cup 0 .. MaxVersion
    OBVIOUS
  <2>4. calls' = [calls EXCEPT ![s].got[e] = g] /\ calls[s].kind = "poll"
    BY <1>11 DEF AnswerPoll
  <2> HIDE DEF g
  <2>5. CallHolds([calls[s] EXCEPT !.got[e] = g], Len(tokens'), expired')
    BY <1>3, <1>4, <2>2, <2>3, <2>4, PolledHolds
  <2> QED
    BY <1>1, <2>4, <2>5, CallsKept
<1>12. CASE AnswerProfile(s)
  BY <1>1, <1>12, CallDone DEF AnswerProfile
<1> QED
  BY <1>5, <1>6, <1>8, <1>9, <1>10, <1>11, <1>12 DEF Answer

LEMMA NoRefusal == Thrown # Unauthorized /\ ErrorBody # Unauthorized
  BY DEF Thrown, ErrorBody, Unauthorized

\* Where nothing is asked of the server.
LEMMA CallsQuiet ==
  ASSUME TokensInv, CallsInv, UNCHANGED authVars,
         NEW s, NEW c, CallHolds(c, Len(tokens), expired),
         calls' = [calls EXCEPT ![s] = c]
  PROVE  CallsInv'
<1>1. [AuthNext]_authVars /\ UNCHANGED <<tokens, expired>>
  BY DEF authVars
<1> QED
  BY <1>1, CallsKept

\* A new session starts with a token that was issued.
LEMMA StartCalls ==
  ASSUME TokensInv, CallsInv, UNCHANGED authVars,
         NEW s \in Slots, NEW t \in 1 .. Len(tokens), StartSession(t, Done(s))
  PROVE  CallsInv'
<1>1. PICK m \in Slots, p \in Slots :
        calls' = [Done(s) EXCEPT ![m] = Me(t), ![p] = Poll(t)]
  BY DEF StartSession
<1>2. Len(tokens) \in Nat /\ Len(tokens) <= MaxTokens /\ expired \in Nat
  BY DEF TokensInv, AuthTypeOK
<1>3. /\ CallHolds(None, Len(tokens), expired)
      /\ CallHolds(Me(t), Len(tokens), expired)
      /\ CallHolds(Poll(t), Len(tokens), expired)
  BY <1>2, NoneHolds, StartedHolds
<1>4. None \in Calls /\ Me(t) \in Calls /\ Poll(t) \in Calls
  BY <1>3 DEF CallHolds
<1>5. calls' \in [Slots -> Calls]
  BY <1>1, <1>4 DEF CallsInv, Done
<1>6. \A q \in Slots : calls'[q] \in {calls[q], None, Me(t), Poll(t)}
  BY <1>1 DEF CallsInv, Done
<1>7. \A q \in Slots : CallHolds(calls'[q], Len(tokens), expired)
  BY <1>3, <1>6 DEF CallsInv
<1> QED
  BY <1>5, <1>7 DEF CallsInv, authVars

LEMMA FirstHolds ==
  ASSUME TokensInv
  PROVE  /\ FirstCalls(token) \in [Slots -> Calls]
         /\ \A s \in Slots : CallHolds(FirstCalls(token)[s], Len(tokens), expired)
<1>1. Len(tokens) \in Nat /\ Len(tokens) <= MaxTokens /\ expired \in Nat
  BY DEF TokensInv, AuthTypeOK
<1>2. CallHolds(None, Len(tokens), expired)
  BY <1>1, NoneHolds
<1>3. token # 0 => /\ CallHolds(Me(token), Len(tokens), expired)
                   /\ CallHolds(Poll(token), Len(tokens), expired)
  <2> SUFFICES ASSUME token # 0
               PROVE  /\ CallHolds(Me(token), Len(tokens), expired)
                      /\ CallHolds(Poll(token), Len(tokens), expired)
    OBVIOUS
  <2>1. token \in 1 .. Len(tokens)
    BY <1>1 DEF TokensInv
  <2> QED
    BY <1>1, <2>1, StartedHolds
<1>4. \A s \in Slots : CallHolds(FirstCalls(token)[s], Len(tokens), expired)
  BY <1>2, <1>3 DEF FirstCalls
<1>5. FirstCalls(token) \in [Slots -> Calls]
  BY <1>4 DEF FirstCalls, CallHolds
<1> QED
  BY <1>4, <1>5

\* Whatever the tab asks for, it asks with a token that was issued.
LEMMA AskCalls ==
  ASSUME TokensInv, CallsInv,
         Tick \/ Submit \/ AskProfile \/ \E op \in Ops : Ask(op)
  PROVE  CallsInv'
<1>1. Len(tokens) \in Nat /\ Len(tokens) <= MaxTokens /\ expired \in Nat
  BY DEF TokensInv, AuthTypeOK
<1>2. token # 0 => token \in 1 .. Len(tokens)
  BY <1>1 DEF TokensInv
<1>3. CASE Tick
  <2>1. CallHolds(Poll(token), Len(tokens), expired)
    BY <1>1, <1>2, <1>3, StartedHolds DEF Tick
  <2> QED
    BY <1>3, <2>1, CallsQuiet DEF Tick
<1>4. CASE AskProfile
  <2>1. CallHolds(Profile(token), Len(tokens), expired)
    BY <1>1, <1>2, <1>4, StartedHolds DEF AskProfile, AtLogin
  <2> QED
    BY <1>4, <2>1, CallsQuiet DEF AskProfile
<1>5. ASSUME NEW op \in Ops, Ask(op)
      PROVE  CallsInv'
  <2>1. CallHolds(Change(token, op), Len(tokens), expired)
    BY <1>1, <1>2, <1>5, StartedHolds DEF Ask, AtLogin
  <2> QED
    BY <1>5, <2>1, CallsQuiet DEF Ask
<1>6. CASE Submit
  <2>1. \A kind \in {"login", "setup"} : CallHolds(Enter(kind), Len(tokens), expired)
    BY <1>1, EnterHolds
  <2> QED
    BY <1>6, <2>1, CallsQuiet DEF Submit
<1> QED
  BY <1>3, <1>4, <1>5, <1>6

LEMMA HandleCalls ==
  ASSUME TokensInv, CallsInv, NEW s \in Slots, Handle(s)
  PROVE  CallsInv'
<1>1. Len(tokens) \in Nat /\ Len(tokens) <= MaxTokens /\ expired \in Nat
  BY DEF TokensInv, AuthTypeOK
<1>2. CallHolds(calls[s], Len(tokens), expired)
  BY DEF CallsInv
<1>3. UNCHANGED authVars
  BY DEF Handle
<1>4. CASE calls' = Done(s)
  BY <1>3, <1>4, CallDone
<1>5. CASE HandleUnauthorized(s)
  <2>1. ASSUME calls[s].kind = "poll", NEW e \in Endpoints,
               calls' = [calls EXCEPT ![s].got[e] = Thrown]
        PROVE  CallsInv'
    <3>1. CallHolds([calls[s] EXCEPT !.got[e] = Thrown], Len(tokens), expired)
      BY <1>1, <1>2, <2>1, NoRefusal, PolledHolds
    <3> QED
      BY <1>3, <2>1, <3>1, CallsQuiet
  <2> QED
    BY <1>4, <1>5, <2>1 DEF HandleUnauthorized
<1>6. CASE HandleChange(s)
  <2>1. calls[s].token \in 1 .. Len(tokens)
    BY <1>2, <1>6 DEF HandleChange, CallHolds
  <2>2. CallHolds(Poll(calls[s].token), Len(tokens), expired)
    BY <1>1, <2>1, StartedHolds
  <2> QED
    BY <1>3, <1>6, <2>2, CallsQuiet DEF HandleChange
<1>7. CASE HandleEnter(s)
  <2>1. calls[s].token \in 1 .. Len(tokens)
    BY <1>1, <1>2, <1>7 DEF HandleEnter, CallHolds
  <2> QED
    BY <1>3, <1>7, <2>1, StartCalls DEF HandleEnter
<1> QED
  BY <1>4, <1>5, <1>6, <1>7 DEF Handle, HandlePoll, HandleMe

LEMMA FailsCalls ==
  ASSUME TokensInv, CallsInv, NEW s \in Slots, Fails(s)
  PROVE  CallsInv'
<1>1. Len(tokens) \in Nat /\ expired \in Nat
  BY DEF TokensInv, AuthTypeOK
<1>2. CallHolds(calls[s], Len(tokens), expired)
  BY DEF CallsInv
<1>3. UNCHANGED authVars
  BY DEF Fails
<1>4. CASE calls' = Done(s)
  BY <1>3, <1>4, CallDone
<1>5. ASSUME calls[s].kind = "poll", NEW e \in Endpoints, NEW g \in {Thrown, ErrorBody},
             calls' = [calls EXCEPT ![s].got[e] = g]
      PROVE  CallsInv'
  <2>1. CallHolds([calls[s] EXCEPT !.got[e] = g], Len(tokens), expired)
    BY <1>1, <1>2, <1>5, NoRefusal, PolledHolds
  <2> QED
    BY <1>3, <1>5, <2>1, CallsQuiet
<1> QED
  BY <1>4, <1>5 DEF Fails

LEMMA CallsStep ==
  ASSUME TokensInv, CallsInv, version \in 0 .. MaxVersion, [Next]_vars
  PROVE  CallsInv'
<1>1. [AuthNext]_authVars
  BY StepIsAuth DEF TokensInv
<1>2. CASE UNCHANGED calls
  BY <1>1, <1>2, CallsUnchanged
<1>3. CASE Reload
  BY <1>3, FirstHolds DEF Reload, CallsInv, authVars
<1>4. CASE AskCreate \/ AskSave \/ AskDelete \/ AskPassword
  <2>1. \E op \in Ops : Ask(op)
    BY <1>4 DEF AskCreate, AskSave, AskDelete, AskPassword, Ops
  <2> QED
    BY <2>1, AskCalls
<1>5. CASE Tick \/ Submit \/ AskProfile
  BY <1>5, AskCalls
<1> QED
  BY <1>2, <1>3, <1>4, <1>5, AnswerCalls, FailsCalls, HandleCalls
     DEF Next, vars, tabVars, Logout, AnswerCheck, HandleCheck, Others
-----------------------------------------------------------------------------
LEMMA FirstChecked ==
  /\ FirstCheck \in [{"asked", "needed", "done"} -> Nat]
  /\ FirstCheck["asked"] + FirstCheck["needed"] + FirstCheck["done"] <= MaxChecks
<1>1. /\ FirstCheck["asked"] = 1 /\ FirstCheck["needed"] = 0 /\ FirstCheck["done"] = 0
      /\ FirstCheck \in [{"asked", "needed", "done"} -> Nat]
  BY DEF FirstCheck
<1> QED
  BY <1>1, SessionAssumption

LEMMA SessionInit == Init => SessionInv
<1> SUFFICES ASSUME Init PROVE SessionInv
  OBVIOUS
<1> USE SessionAssumption, AuthAssumption
<1>1. AuthTypeOK
  BY AuthInitType DEF Init
<1>2. Len(tokens) <= MaxTokens
  <2>1. CASE tokens = <<>>
    BY <2>1
  <2>2. ASSUME NEW u \in Users, MaxTokens > 0, tokens = <<u>>
        PROVE  Len(tokens) <= MaxTokens
    <3>1. Len(tokens) = 1
      BY <2>2
    <3> QED
      BY <2>2, <3>1
  <2> QED
    BY <2>1, <2>2 DEF Init, AuthInit
<1>3. TokensInv
  BY <1>1, <1>2 DEF Init, TokensInv
<1>4. CallsInv
  BY <1>3, FirstHolds DEF Init, CallsInv
<1>5. ChecksInv
  BY FirstChecked DEF Init, ChecksInv
<1>6. ScreenInv
  <2>1. loading \in BOOLEAN
    BY DEF Init
  <2>2. needsSetup \in BOOLEAN
    BY DEF Init
  <2> QED
    BY <2>1, <2>2 DEF Init, NothingShown, ScreenInv
<1> QED
  BY <1>3, <1>4, <1>5, <1>6 DEF SessionInv

\* The token of a tab is none or one that was issued.
LEMMA TokensStep ==
  ASSUME SessionInv, [Next]_vars
  PROVE  TokensInv'
<1>1. [AuthNext]_authVars
  BY StepIsAuth DEF SessionInv, TokensInv
<1>2. AuthTypeOK' /\ Len(tokens') <= MaxTokens
  BY <1>1, AuthNextType, TokensGrow DEF SessionInv, TokensInv
<1>3. CASE UNCHANGED token
  BY <1>1, <1>2, <1>3, TokensGrow DEF SessionInv, TokensInv
<1>4. CASE token' = 0
  BY <1>1, <1>2, <1>4, TokensGrow DEF SessionInv, TokensInv
<1>5. ASSUME NEW s \in Slots, HandleEnter(s)
      PROVE  TokensInv'
  <2>1. calls[s].token \in 0 .. Len(tokens)
    BY <1>5 DEF HandleEnter, SessionInv, CallsInv, CallHolds
  <2>2. token' = calls[s].token
    BY <1>5 DEF HandleEnter, StartSession
  <2> QED
    BY <1>1, <1>2, <2>1, <2>2, TokensGrow DEF SessionInv, TokensInv
<1> QED
  BY <1>3, <1>4, <1>5
     DEF Next, vars, tabVars, Tick, Submit, Logout, EndSession, Reload, AskCreate,
         AskSave, AskDelete, AskPassword, AskProfile, Ask, Answer, Fails, Handle,
         HandleUnauthorized, HandlePoll, HandleMe, HandleChange, AnswerCheck,
         HandleCheck, Others

\* No more requests for the status are under way than MaxChecks.
LEMMA ChecksStep ==
  ASSUME ChecksInv, [Next]_vars
  PROVE  ChecksInv'
<1> USE SessionAssumption
<1>1. CASE UNCHANGED checks
  BY <1>1 DEF ChecksInv
<1>2. CASE MayCheck /\ Check
  BY <1>2 DEF MayCheck, Check, ChecksInv
<1>3. CASE Reload
  BY <1>3, FirstChecked DEF Reload, ChecksInv
<1>4. CASE AnswerCheck
  <2>1. \A x \in {"asked", "needed", "done"} : checks[x] \in Nat
    BY DEF ChecksInv
  <2>2. ASSUME NEW a \in {"needed", "done"}, checks["asked"] > 0,
               checks' = [checks EXCEPT !["asked"] = @ - 1, ![a] = @ + 1]
        PROVE  ChecksInv'
    <3>1. checks' = [x \in {"asked", "needed", "done"} |->
                       CASE x = "asked" -> checks["asked"] - 1
                         [] x = a -> checks[a] + 1
                         [] OTHER -> checks[x]]
      BY <2>2 DEF ChecksInv
    <3>2. /\ checks'["asked"] = checks["asked"] - 1
          /\ \A x \in {"needed", "done"} :
               checks'[x] = IF x = a THEN checks[x] + 1 ELSE checks[x]
      BY <3>1
    <3>3. checks' \in [{"asked", "needed", "done"} -> Nat]
      BY <2>1, <2>2, <3>1
    <3> QED
      BY <2>1, <2>2, <3>2, <3>3 DEF ChecksInv
  <2>3. ASSUME checks["asked"] > 0, checks' = [checks EXCEPT !["asked"] = @ - 1]
        PROVE  ChecksInv'
    BY <2>1, <2>3 DEF ChecksInv
  <2> QED
    BY <1>4, <2>2, <2>3 DEF AnswerCheck
<1>5. CASE HandleCheck
  BY <1>5 DEF HandleCheck, ChecksInv
<1> QED
  BY <1>1, <1>2, <1>3, <1>4, <1>5
     DEF Next, vars, tabVars, Tick, Submit, Logout, EndSession, AskCreate,
         AskSave, AskDelete, AskPassword, AskProfile, Ask, Answer, Fails, Handle,
         HandleUnauthorized, HandlePoll, HandleMe, HandleChange, HandleEnter, Others

\* What is shown is an answer that may be shown.
LEMMA ScreenStep ==
  ASSUME SessionInv, [Next]_vars
  PROVE  ScreenInv'
<1> USE SessionAssumption
<1>1. ScreenInv
  BY DEF SessionInv
<1>2. CASE UNCHANGED <<shown, loading, needsSetup, version, mishaps>>
  BY <1>1, <1>2 DEF ScreenInv
<1>3. CASE Reload
  <2>1. loading' \in BOOLEAN
    BY <1>3 DEF Reload
  <2>2. needsSetup' \in BOOLEAN
    BY <1>3 DEF Reload
  <2>3. mishaps' \in 0 .. MaxMishaps
    BY <1>1, <1>3 DEF Reload, ScreenInv
  <2>4. shown' \in [Endpoints -> {Nothing, ErrorBody} \cup 0 .. MaxVersion]
    BY <1>3 DEF Reload, NothingShown
  <2> QED
    BY <1>1, <1>3, <2>1, <2>2, <2>3, <2>4 DEF Reload, ScreenInv
<1>4. ASSUME NEW s \in Slots, Answer(s)
      PROVE  ScreenInv'
  <2>1. version' \in 0 .. MaxVersion
    BY <1>1, <1>4 DEF Answer, ScreenInv, TurnedAway, AnswerChange, AnswerProfile,
       AnswerLogin, CountSetup, FinishSetup, AnswerPoll
  <2> QED
    BY <1>1, <1>4, <2>1 DEF Answer, ScreenInv
<1>5. ASSUME NEW s \in Slots, Fails(s)
      PROVE  ScreenInv'
  <2>1. loading' \in BOOLEAN
    BY <1>1, <1>5 DEF Fails, ScreenInv
  <2> QED
    BY <1>1, <1>5, <2>1 DEF Fails, ScreenInv
<1>6. ASSUME NEW s \in Slots, HandlePoll(s)
      PROVE  /\ shown' \in [Endpoints -> {Nothing, ErrorBody} \cup 0 .. MaxVersion]
             /\ loading' \in BOOLEAN
  <2>1. calls[s] \in [kind : {"poll"}, token : 0 .. MaxTokens,
                      got : [Endpoints -> {Asked, Unauthorized, Thrown, ErrorBody}
                                          \cup 0 .. MaxVersion]]
    BY <1>6 DEF HandlePoll, SessionInv, CallsInv, Calls, None
  <2>2. (\A e \in Endpoints : calls[s].got[e] \notin {Asked, Unauthorized, Thrown})
          => calls[s].got \in [Endpoints -> {Nothing, ErrorBody} \cup 0 .. MaxVersion]
    BY <2>1
  <2> QED
    BY <1>1, <1>6, <2>2 DEF HandlePoll, ScreenInv
<1>7. ASSUME NEW s \in Slots, Handle(s)
      PROVE  ScreenInv'
  <2>1. CASE HandlePoll(s)
    BY <1>1, <1>6, <1>7, <2>1 DEF Handle, HandlePoll, ScreenInv
  <2>2. CASE HandleUnauthorized(s)
    BY <1>1, <1>7, <2>2 DEF Handle, HandleUnauthorized, EndSession, ScreenInv
  <2>3. CASE HandleMe(s) \/ HandleChange(s)
    BY <1>1, <1>7, <2>3 DEF Handle, HandleMe, HandleChange, ScreenInv
  <2>4. CASE HandleEnter(s)
    <3>1. needsSetup' \in BOOLEAN
      BY <1>1, <2>4 DEF HandleEnter, ScreenInv
    <3> QED
      BY <1>1, <1>7, <2>4, <3>1 DEF Handle, HandleEnter, ScreenInv
  <2> QED
    BY <1>7, <2>1, <2>2, <2>3, <2>4 DEF Handle
<1>8. CASE AnswerCheck
  BY <1>1, <1>8 DEF AnswerCheck, ScreenInv
<1>9. CASE HandleCheck
  <2>1. needsSetup' \in BOOLEAN
    BY <1>9 DEF HandleCheck
  <2> QED
    BY <1>1, <1>9, <2>1 DEF HandleCheck, ScreenInv
<1>10. CASE Logout
  BY <1>1, <1>10 DEF Logout, EndSession, ScreenInv
<1>11. CASE Others
  BY <1>1, <1>11 DEF Others, tabVars, ScreenInv
<1> QED
  BY <1>2, <1>3, <1>4, <1>5, <1>7, <1>8, <1>9, <1>10, <1>11
     DEF Next, vars, tabVars, Tick, Submit, AskCreate, AskSave, AskDelete,
         AskPassword, AskProfile, Ask

THEOREM SessionHolds == Spec => []SessionInv
<1>1. ASSUME SessionInv, [Next]_vars
      PROVE  SessionInv'
  <2>1. CallsInv'
    BY <1>1, CallsStep DEF SessionInv, ScreenInv
  <2> QED
    BY <1>1, <2>1, TokensStep, ChecksStep, ScreenStep DEF SessionInv
<1> QED
  BY <1>1, SessionInit, PTL DEF Spec

(* Type correctness of a tab and its server, for every number of requests,
   tokens, versions and mishaps.                                           *)
THEOREM SessionTypes == Spec => []SessionTypeOK
<1>1. ASSUME SessionInv
      PROVE  SessionTypeOK
  <2>1. checks \in [{"asked", "needed", "done"} -> 0 .. MaxChecks]
    BY <1>1, SessionAssumption DEF SessionInv, ChecksInv
  <2> QED
    BY <1>1, <2>1 DEF SessionInv, TokensInv, CallsInv, ScreenInv, SessionTypeOK
<1> QED
  BY <1>1, SessionHolds, PTL

(* A session ends at logout or once a token has expired: every answer 401 that
   the tab has in hand, however late and of whatever session, was given to a
   token that had expired.                                                 *)
THEOREM SessionsEndByExpiry == Spec => EndsByExpiry
<1>1. ASSUME SessionInv, [Next]_vars, token # 0, token' = 0
      PROVE  Logout \/ expired > 0
  <2>1. expired \in Nat
    BY <1>1 DEF SessionInv, TokensInv, AuthTypeOK
  <2>2. ASSUME NEW s \in Slots, HandleUnauthorized(s)
        PROVE  expired > 0
    BY <1>1, <2>2 DEF HandleUnauthorized, SessionInv, CallsInv, CallHolds
  <2>3. ASSUME NEW s \in Slots, HandleEnter(s)
        PROVE  token' # 0
    <3>1. token' = calls[s].token
      BY <2>3 DEF HandleEnter, StartSession
    <3> QED
      BY <1>1, <2>3, <3>1 DEF HandleEnter, SessionInv, CallsInv, CallHolds
  <2>4. CASE UNCHANGED token
    BY <1>1, <2>4
  <2> QED
    BY <1>1, <2>2, <2>3, <2>4
       DEF Next, vars, tabVars, Tick, Submit, Reload, AskCreate, AskSave, AskDelete,
           AskPassword, AskProfile, Ask, Answer, Fails, Handle, HandlePoll, HandleMe,
           HandleChange, AnswerCheck, HandleCheck, Others
<1>2. SessionInv /\ [Next]_vars => [token # 0 /\ token' = 0 => Logout \/ expired > 0]_vars
  BY <1>1
<1> QED
  BY <1>2, SessionHolds, PTL DEF Spec, EndsByExpiry
=============================================================================
