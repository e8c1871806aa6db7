----------------------------- MODULE AdminAuth -----------------------------
(***************************************************************************)
(* The administrators of the dashboard and their tokens: auth_service.go   *)
(* over the table admin_users. Requests overlap, each served by a          *)
(* goroutine, and no lock and no transaction orders them.                  *)
(*                                                                         *)
(* A JWT is its place in the order of issue. All live equally long, so     *)
(* they expire in that order.                                              *)
(***************************************************************************)
EXTENDS Naturals, Sequences, FiniteSets

CONSTANTS
    Users,        \* user names
    Passwords,
    NoPassword,   \* the table has no row of this user
    Callers,      \* requests that may be inside SetupAdmin at once
    Nobody,       \* no set of credentials
    TooShort,     \* credentials with a name or a password below the minimum
    MaxTokens     \* bound: tokens ever issued

VARIABLES
    admins,       \* the table: password of each administrator
    passed,       \* credentials of each SetupAdmin that counted no administrator
    tokens,       \* owners of the tokens issued so far, in that order
    expired       \* how many of them have expired

authVars == <<admins, passed, tokens, expired>>

Credentials == [user : Users, password : Passwords]

ASSUME AuthAssumption ==
    /\ NoPassword \notin Passwords
    /\ Nobody \notin Credentials
    /\ TooShort \subseteq Credentials
    /\ MaxTokens \in Nat

AuthTypeOK ==
    /\ admins \in [Users -> Passwords \cup {NoPassword}]
    /\ passed \in [Callers -> Credentials \cup {Nobody}]
    /\ tokens \in Seq(Users)
    /\ expired \in 0 .. Len(tokens)

Exists(u) == admins[u] # NoPassword

\* GetAuthStatus, and the first statement of SetupAdmin.
NeedsSetup == \A u \in Users : ~Exists(u)

\* Mutant: the time of expiry is not looked at.
AuthorizedForever(t) == t \in 1 .. Len(tokens)

\* ValidateToken: the signature and the time of expiry, nothing else.
Authorized(t) == t \in expired + 1 .. Len(tokens)

AuthInit ==
    /\ \/ admins = [u \in Users |-> NoPassword]
       \/ \E cred \in Credentials \ TooShort :
            admins = [u \in Users |->
                        IF u = cred.user THEN cred.password ELSE NoPassword]
    /\ passed = [c \in Callers |-> Nobody]
    /\ \/ tokens = <<>>
       \/ \E u \in Users : Exists(u) /\ MaxTokens > 0 /\ tokens = <<u>>
    /\ expired \in 0 .. Len(tokens)

Issue(u) == Len(tokens) < MaxTokens /\ tokens' = Append(tokens, u)

\* Mutant: the token is signed before the row is there.
SetupPassesIssuing(c, cred) ==
    /\ passed[c] = Nobody
    /\ NeedsSetup
    /\ cred \notin TooShort
    /\ Issue(cred.user)
    /\ passed' = [passed EXCEPT ![c] = cred]
    /\ UNCHANGED <<admins, expired>>

(***************************************************************************)
(* SetupAdmin: the count, the checks of length, then the INSERT, which is  *)
(* slow to come because the password is hashed first.                      *)
(***************************************************************************)
SetupPasses(c, cred) ==
    /\ passed[c] = Nobody
    /\ NeedsSetup
    /\ cred \notin TooShort
    /\ passed' = [passed EXCEPT ![c] = cred]
    /\ UNCHANGED <<admins, tokens, expired>>

SetupRefused(c, cred) ==
    /\ passed[c] = Nobody
    /\ ~NeedsSetup \/ cred \in TooShort
    /\ UNCHANGED authVars

Insert(cred) == admins' = [admins EXCEPT ![cred.user] = cred.password]

SetupInserts(c) ==
    /\ passed[c] # Nobody
    /\ ~Exists(passed[c].user)
    /\ Insert(passed[c])
    /\ Issue(passed[c].user)
    /\ passed' = [passed EXCEPT ![c] = Nobody]
    /\ UNCHANGED expired

\* username is UNIQUE.
SetupConflicts(c) ==
    /\ passed[c] # Nobody
    /\ Exists(passed[c].user)
    /\ passed' = [passed EXCEPT ![c] = Nobody]
    /\ UNCHANGED <<admins, tokens, expired>>

\* The connection fails before or after the row is committed.
SetupFails(c) ==
    /\ passed[c] # Nobody
    /\ \/ UNCHANGED admins
       \/ ~Exists(passed[c].user) /\ Insert(passed[c])
    /\ passed' = [passed EXCEPT ![c] = Nobody]
    /\ UNCHANGED <<tokens, expired>>

\* Login. last_login_at, whose failure is ignored too, is left out.
LogsIn(cred) ==
    /\ Exists(cred.user)
    /\ admins[cred.user] = cred.password
    /\ Issue(cred.user)
    /\ UNCHANGED <<admins, passed, expired>>

LoginRefused(cred) ==
    /\ admins[cred.user] # cred.password
    /\ UNCHANGED authVars

\* ChangePassword of the administrator in the token; the old one is not asked.
ChangesPassword(t, p) ==
    /\ Authorized(t)
    /\ Exists(tokens[t])
    /\ [user |-> tokens[t], password |-> p] \notin TooShort
    /\ admins' = [admins EXCEPT ![tokens[t]] = p]
    /\ UNCHANGED <<passed, tokens, expired>>

\* Time passes, or the server is started again with another JWT_SECRET.
TokensExpire ==
    /\ \E k \in expired + 1 .. Len(tokens) : expired' = k
    /\ UNCHANGED <<admins, passed, tokens>>

AuthNext ==
    \/ \E c \in Callers, cred \in Credentials :
         SetupPasses(c, cred) \/ SetupRefused(c, cred)
    \/ \E c \in Callers : SetupInserts(c) \/ SetupConflicts(c) \/ SetupFails(c)
    \/ \E cred \in Credentials : LogsIn(cred) \/ LoginRefused(cred)
    \/ \E t \in 1 .. Len(tokens), p \in Passwords : ChangesPassword(t, p)
    \/ TokensExpire

AuthSpec == AuthInit /\ [][AuthNext]_authVars
-----------------------------------------------------------------------------
(* What the comments of auth_service.go promise, and what holds.           *)

\* SetupAdmin fails once an administrator exists, so there is one at most.
OneAdmin == Cardinality({u \in Users : Exists(u)}) <= 1

\* Whoever has a token has a row: no token is handed out for a row that an
\* overlapping request, a conflict or a failure kept out of the table.
TokensHaveOwners == \A t \in 1 .. Len(tokens) : Exists(tokens[t])

\* The password of an administrator, once the row is there, changes only by
\* the will of somebody who was given a token of that administrator, and the
\* row stays: however setups, logins and changes overlap, no setup locks
\* anybody out.
PasswordsKept ==
    [][\A u \in Users :
         Exists(u) => \/ admins'[u] = admins[u]
                      \/ /\ admins'[u] # NoPassword
                         /\ \E t \in 1 .. Len(tokens) : tokens[t] = u]_authVars
=============================================================================
