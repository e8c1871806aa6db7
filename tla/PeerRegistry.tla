---------------------------- MODULE PeerRegistry ----------------------------
(***************************************************************************)
(* What the dashboard promises to whoever calls its API, whatever the      *)
(* interleaving of the requests, the failures and the restarts: a table of *)
(* clients and a row of settings that every request changes at most once,  *)
(* in one step, between its call and its answer. An answer of success      *)
(* means that the step was taken, a refusal means that it was not and      *)
(* names a reason that holds at that moment, and a failure or a lost       *)
(* connection leaves both possible.                                        *)
(***************************************************************************)
EXTENDS AwgData

CONSTANT InitSettings   \* the settings the server starts with

VARIABLES
    rows,       \* the clients
    settings,   \* the server settings
    call,       \* the operation of each request
    took,       \* the requests whose change has been made
    answer      \* the answer of each request

registryVars == <<rows, settings, call, took, answer>>

Answers == {"none", "ok", "refused", "failed", "lost"}

RegistryTypeOK ==
    /\ rows \subseteq Rows
    /\ settings \in Settings
    /\ call \in [Reqs -> Ops \cup {NoOp}]
    /\ took \subseteq Reqs
    /\ answer \in [Reqs -> Answers]

RegistryInit ==
    /\ rows = {}
    /\ settings = InitSettings
    /\ call = [r \in Reqs |-> NoOp]
    /\ took = {}
    /\ answer = [r \in Reqs |-> "none"]

Open(r) == call[r] # NoOp /\ answer[r] = "none"

Reply(r, a) == answer' = [answer EXCEPT ![r] = a]

\* An invalid request is refused as it arrives.
Call(r) ==
    /\ call[r] = NoOp
    /\ \E o \in Ops :
        /\ call' = [call EXCEPT ![r] = o]
        /\ IF Invalid(o) THEN Reply(r, "refused") ELSE UNCHANGED answer
    /\ UNCHANGED <<rows, settings, took>>

Pending(r, kind) == Open(r) /\ r \notin took /\ call[r].kind = kind

\* The only addresses a client may get: the one asked for, or any.
Wanted(o, ip) == o.ip \in {ip, AnyIP}

Add(r, ip) ==
    LET row == [name |-> call[r].name, key |-> r, ip |-> ip]
    IN  /\ Pending(r, "create")
        /\ Wanted(call[r], ip)
        /\ ~Clash(row, rows)
        /\ rows' = rows \cup {row}
        /\ took' = took \cup {r}
        /\ UNCHANGED settings

Remove(r) ==
    /\ Pending(r, "delete")
    /\ rows' = {x \in rows : x.name # call[r].name}
    /\ took' = took \cup {r}
    /\ UNCHANGED settings

Configure(r) ==
    /\ Pending(r, "update")
    /\ settings' = call[r].settings
    /\ took' = took \cup {r}
    /\ UNCHANGED rows

\* A change may be made and its answer be a failure at once: the statement
\* commits and the connection to the database is lost.
Change(r) ==
    /\ (\E ip \in IPs : Add(r, ip)) \/ Remove(r) \/ Configure(r)
    /\ UNCHANGED call
    /\ UNCHANGED answer \/ Reply(r, "failed")

Succeed(r) ==
    /\ Open(r)
    /\ r \in took
    /\ Reply(r, "ok")
    /\ UNCHANGED <<rows, settings, call, took>>

\* 409 for a client that clashes with one there is, which is also what a
\* client for whom no address is left does; 404 for a missing one.
Refuse(r) ==
    /\ Open(r)
    /\ r \notin took
    /\ \/ /\ call[r].kind = "create"
          /\ \E ip \in IPs :
                /\ Wanted(call[r], ip)
                /\ Clash([name |-> call[r].name, key |-> r, ip |-> ip], rows)
       \/ /\ call[r].kind = "delete"
          /\ \A x \in rows : x.name # call[r].name
    /\ Reply(r, "refused")
    /\ UNCHANGED <<rows, settings, call, took>>

Fail(r) ==
    /\ Open(r)
    /\ Reply(r, "failed")
    /\ UNCHANGED <<rows, settings, call, took>>

\* The process dies: nobody is told what became of the open requests.
Abandon ==
    /\ answer' = [r \in Reqs |-> IF Open(r) THEN "lost" ELSE answer[r]]
    /\ UNCHANGED <<rows, settings, call, took>>

RegistryNext ==
    \/ \E r \in Reqs : Call(r) \/ Change(r) \/ Succeed(r) \/ Refuse(r) \/ Fail(r)
    \/ Abandon

RegistrySpec == RegistryInit /\ [][RegistryNext]_registryVars

\* No two clients share a name, a key or an address (the UNIQUE constraints
\* of the peers table, db.go:121-129, and the conflict AddPeer reports).
RowsDistinct ==
    \A x, y \in rows :
        x.name = y.name \/ x.key = y.key \/ x.ip = y.ip => x = y

\* A client in the table was put there by the request that generated its
\* key, and that request has not been answered with a refusal.
RowsOwned == \A x \in rows : x.key \in took /\ answer[x.key] # "refused"
=============================================================================
