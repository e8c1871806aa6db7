------------------------------ MODULE AwgData ------------------------------
(***************************************************************************)
(* The data of the AmneziaWG dashboard API that its components share: the  *)
(* server settings, the peer rows and the requests of the HTTP API.        *)
(*                                                                         *)
(* A key pair is fresh in every CreateClient, so a key is the identity of  *)
(* the request that generated it, and stands for the private key, the      *)
(* public key and the preshared key generated together.                    *)
(***************************************************************************)
EXTENDS Naturals

CONSTANTS
    Reqs,        \* the HTTP requests, each served by a goroutine of its own
    Names,       \* client names
    IPs,         \* the host octets that clients may get
    Ports,       \* listen ports
    Options,     \* the other server settings, taken together
    BadOptions,  \* those validateObfuscation refuses
    ListenPort,  \* AWG_PORT, or NoPort when the variable is empty
    NoPort,
    AnyIP,       \* the IP field of a request that leaves the choice to the server
    BlankNames,  \* those that are empty once trimmed
    NoOp         \* the operation of a request that has not arrived

\* The row of server_config.
Settings == [port : Ports, opts : Options]

\* LoadServerConfig puts the published port in place of the stored one.
Listening(s) ==
    IF ListenPort = NoPort THEN s ELSE [s EXCEPT !.port = ListenPort]

\* A row of the peers table. psk and public key are those of the key pair.
Rows == [name : Names, key : Reqs, ip : IPs]

\* domain.ServerConfig: the settings together with the peers.
Configs == [settings : Settings, peers : SUBSET Rows]

\* The UNIQUE constraints of the peers table.
Clash(row, rows) ==
    \E x \in rows : x.name = row.name \/ x.key = row.key \/ x.ip = row.ip

\* ip is what AllocateNextIP returns when the peers it is given are rows.
Allocated(ip, rows) ==
    /\ ip \in IPs
    /\ \A x \in rows : x.ip # ip
    /\ \A j \in IPs : j < ip => \E x \in rows : x.ip = j

CreateOps == [kind : {"create"}, name : Names \cup BlankNames, ip : IPs \cup {AnyIP}]
DeleteOps == [kind : {"delete"}, name : Names]
UpdateOps == [kind : {"update"}, settings : Settings]
Ops == CreateOps \cup DeleteOps \cup UpdateOps

\* Requests answered with ErrInvalidInput before anything is read.
Invalid(o) ==
    \/ o.kind = "create" /\ o.name \in BlankNames
    \/ o.kind = "update" /\ o.settings.opts \in BadOptions

ASSUME DataAssumption ==
    /\ IPs \subseteq Nat /\ IPs # {}
    /\ BadOptions \subseteq Options
    /\ ListenPort \in Ports \cup {NoPort}
    /\ NoPort \notin Ports
    /\ AnyIP \notin IPs
    /\ BlankNames \cap Names = {}
    /\ NoOp \notin Ops
=============================================================================
