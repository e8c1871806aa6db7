----------------------------- MODULE AwgService -----------------------------
(***************************************************************************)
(* The requests that change the server (CreateClient, DeleteClient and     *)
(* UpdateServerConfig of awg_service.go) over the PostgreSQL repository    *)
(* (postgres_config_repo.go), one action per step that another request can *)
(* fall between: each SQL statement, each operation on a file, each awg    *)
(* command. A goroutine serves each request; the only lock is the mutex of *)
(* the repository, held from an SQL write to the end of its file flush.    *)
(* The process may crash at any step and starts again as main.go does.     *)
(***************************************************************************)
EXTENDS AwgData, FiniteSets

CONSTANTS
    InitSettings,   \* the settings the server starts with
    Kinds,          \* the operations of this instance
    Faults,         \* what may fail: "sql", "flush", "profile", "sync"
    MaxCrashes,     \* bound on the crashes
    MaxInFlight,    \* bound on the requests served at once
    NoReq,          \* the owner of a free mutex
    NoFile,         \* a client configuration that does not exist
    Empty,          \* one that is truncated and not written yet
    NoDraft,        \* no client configuration to write, or no file to write to
    NoIface         \* an interface without configuration

VARIABLES
    db,         \* the stored configuration, server_config and peers
    file,       \* awg0.conf, which mirrors db
    live,       \* the configuration of the running interface
    profile,    \* clientsDir: the configuration file of each client name
    mu,         \* the owner of postgresConfigRepo.mu
    phase,      \* "down", "boot" (repository built, no first sync yet) or "up"
    crashes,    \* how many crashes so far
    pc,         \* the next step of each request, or its answer
    op,         \* its operation
    ip,         \* clientIP of a CreateClient
    cfg,        \* the configuration a request loaded first (cfg, newCfg)
    snap,       \* the configuration its syncRuntime loaded
    todo,       \* the client files its regenerateClientConfigs has still to visit
    draft       \* the client configuration it is writing

\* What the properties need to know of the past.
VARIABLES
    took,       \* the requests whose SQL write has been committed
    behind,     \* a failure or a crash has left file behind db
    unsynced    \* a failure or a crash has left live behind db

stored == <<db, file, live, profile>>
locals == <<ip, cfg, snap, todo, draft>>
ghosts == <<took, behind, unsynced>>
vars == <<stored, mu, phase, crashes, pc, op, locals, ghosts>>

\* A client configuration: the private key, and from the peer and the server
\* configuration the preshared key, the address and the settings.
Profiles == [key : Reqs, psk : Reqs, ip : IPs, settings : Settings]

ASSUME ServiceAssumption ==
    /\ InitSettings \in Settings
    /\ NoReq \notin Reqs
    /\ NoFile \notin Profiles /\ Empty \notin Profiles /\ NoFile # Empty
    /\ NoDraft \notin [name : Names, profile : Profiles]

Working == {"row", "peers", "insert", "find", "drop", "save", "flush", "truncate",
            "fill", "remove", "syncRow", "syncPeers", "apply", "list", "pick"}
Answered == {"ok", "refused", "failed", "lost"}

TypeOK ==
    /\ db \in Configs
    /\ file \in Configs
    /\ live \in Configs \cup {NoIface}
    /\ profile \in [Names -> Profiles \cup {NoFile, Empty}]
    /\ mu \in Reqs \cup {NoReq}
    /\ phase \in {"down", "boot", "up"}
    /\ crashes \in Nat
    /\ pc \in [Reqs -> {"idle"} \cup Working \cup Answered]
    /\ op \in [Reqs -> Ops \cup {NoOp}]
    /\ ip \in [Reqs -> IPs \cup {AnyIP}]
    /\ cfg \in [Reqs -> Configs]
    /\ snap \in [Reqs -> Configs]
    /\ todo \in [Reqs -> SUBSET Names]
    /\ draft \in [Reqs -> [name : Names, profile : Profiles] \cup {NoDraft}]
    /\ took \subseteq Reqs
    /\ behind \in BOOLEAN
    /\ unsynced \in BOOLEAN

InitConfig == [settings |-> InitSettings, peers |-> {}]

\* A start over an existing database: the file may have been edited while the
\* API was down, so nothing is claimed about it until the boot flush.
Init ==
    /\ db = InitConfig
    /\ file = InitConfig
    /\ live = NoIface
    /\ profile = [n \in Names |-> NoFile]
    /\ mu = NoReq
    /\ phase = "down"
    /\ crashes = 0
    /\ pc = [r \in Reqs |-> "idle"]
    /\ op = [r \in Reqs |-> NoOp]
    /\ ip = [r \in Reqs |-> AnyIP]
    /\ cfg = [r \in Reqs |-> InitConfig]
    /\ snap = [r \in Reqs |-> InitConfig]
    /\ todo = [r \in Reqs |-> {}]
    /\ draft = [r \in Reqs |-> NoDraft]
    /\ took = {}
    /\ behind = TRUE
    /\ unsynced = TRUE

-----------------------------------------------------------------------------
\* The configuration LoadServerConfig returns when nothing changes between
\* its two statements.
Stored == [settings |-> Listening(db.settings), peers |-> db.peers]

At(r, step) == phase = "up" /\ pc[r] = step
Go(r, step) == pc' = [pc EXCEPT ![r] = step]

\* The local variables of the requests in S are gone.
Forget(S) ==
    /\ ip' = [r \in Reqs |-> IF r \in S THEN AnyIP ELSE ip[r]]
    /\ cfg' = [r \in Reqs |-> IF r \in S THEN InitConfig ELSE cfg[r]]
    /\ snap' = [r \in Reqs |-> IF r \in S THEN InitConfig ELSE snap[r]]
    /\ todo' = [r \in Reqs |-> IF r \in S THEN {} ELSE todo[r]]
    /\ draft' = [r \in Reqs |-> IF r \in S THEN NoDraft ELSE draft[r]]

\* A step that leaves the local variables of r alone, or its answer.
Proceed(r, step) ==
    /\ Go(r, step)
    /\ IF step \in Answered THEN Forget({r}) ELSE UNCHANGED locals

InFlight == {r \in Reqs : pc[r] \in Working}
Is(r, kind) == op[r].kind = kind
\* Mistake for Row: the row takes the address field of the request as it came.
RowAsRequested(r) == [name |-> op[r].name, key |-> r, ip |-> op[r].ip]

Row(r) == [name |-> op[r].name, key |-> r, ip |-> ip[r]]

-----------------------------------------------------------------------------
(* Arrival of a request, and the two statements of its LoadServerConfig. *)

Receive(r, o) ==
    /\ At(r, "idle")
    /\ o.kind \in Kinds
    /\ Cardinality(InFlight) < MaxInFlight
    /\ op' = [op EXCEPT ![r] = o]
    /\ Go(r, IF Invalid(o) THEN "refused"
             ELSE IF o.kind = "delete" THEN "find" ELSE "row")
    /\ UNCHANGED <<stored, mu, phase, crashes, ip, cfg, snap, todo, draft, ghosts>>

ReadRow(r) ==
    /\ At(r, "row")
    /\ cfg' = [cfg EXCEPT ![r].settings = Listening(db.settings)]
    /\ Go(r, "peers")
    /\ UNCHANGED <<stored, mu, phase, crashes, op, ip, snap, todo, draft, ghosts>>

\* The peers, and for a CreateClient the address, its own or a free one.
ReadPeers(r) ==
    /\ At(r, "peers")
    /\ cfg' = [cfg EXCEPT ![r].peers = db.peers]
    /\ \/ /\ Is(r, "update")
          /\ Go(r, "save")
          /\ UNCHANGED ip
       \/ /\ Is(r, "create")
          /\ \E i \in IPs :
                /\ op[r].ip = i \/ (op[r].ip = AnyIP /\ Allocated(i, db.peers))
                /\ ip' = [ip EXCEPT ![r] = i]
          /\ Go(r, "insert")
    /\ UNCHANGED <<stored, mu, phase, crashes, op, snap, todo, draft, ghosts>>

\* AllocateNextIP finds every address of the subnet taken: ErrConflict.
NoFreeIP(r) ==
    /\ At(r, "peers")
    /\ Is(r, "create")
    /\ op[r].ip = AnyIP
    /\ \A i \in IPs : \E x \in db.peers : x.ip = i
    /\ Proceed(r, "refused")
    /\ UNCHANGED <<stored, mu, phase, crashes, op, ghosts>>

\* GetPeerByName of a DeleteClient.
Find(r) ==
    /\ At(r, "find")
    /\ Proceed(r, IF \E x \in db.peers : x.name = op[r].name THEN "drop" ELSE "refused")
    /\ UNCHANGED <<stored, mu, phase, crashes, op, ghosts>>

ReadFails(r) ==
    /\ "sql" \in Faults
    /\ At(r, "row") \/ At(r, "peers") \/ At(r, "find")
    /\ Proceed(r, "failed")
    /\ UNCHANGED <<stored, mu, phase, crashes, op, ghosts>>

-----------------------------------------------------------------------------
(* The SQL writes, under the mutex. *)

\* The row INSERT, DELETE or the upsert of server_config leaves behind.
Written(r) ==
    CASE Is(r, "create") -> [db EXCEPT !.peers = @ \cup {Row(r)}]
      [] Is(r, "delete") -> [db EXCEPT !.peers = {x \in @ : x.name # op[r].name}]
      [] Is(r, "update") -> [db EXCEPT !.settings = op[r].settings]

\* Mistake for MayWrite: the writers do not exclude each other.
MayWriteUnlocked(r) ==
    /\ At(r, "insert") \/ At(r, "drop") \/ At(r, "save")
    /\ Is(r, "create") => ~Clash(Row(r), db.peers)

\* The mutex is free and the statement violates no constraint.
MayWrite(r) ==
    /\ At(r, "insert") \/ At(r, "drop") \/ At(r, "save")
    /\ mu = NoReq
    /\ Is(r, "create") => ~Clash(Row(r), db.peers)

\* newCfg of an UpdateServerConfig: the settings of the request, with the
\* peers that were loaded.
Write(r) ==
    /\ MayWrite(r)
    /\ db' = Written(r)
    /\ cfg' = IF Is(r, "update")
              THEN [cfg EXCEPT ![r].settings = op[r].settings] ELSE cfg
    /\ took' = took \cup {r}
    /\ mu' = r
    /\ Go(r, "flush")
    /\ UNCHANGED <<file, live, profile, phase, crashes, op, ip, snap, todo, draft,
                   behind, unsynced>>

\* ErrConflict: the mutex is released at once.
Conflict(r) ==
    /\ At(r, "insert")
    /\ mu = NoReq
    /\ Clash(Row(r), db.peers)
    /\ Proceed(r, "refused")
    /\ UNCHANGED <<stored, mu, phase, crashes, op, ghosts>>

\* The statement fails, or it is committed and its reply is lost.
WriteFails(r) ==
    /\ "sql" \in Faults
    /\ MayWrite(r)
    /\ \/ UNCHANGED <<db, ghosts>>
       \/ /\ db' = Written(r)
          /\ took' = took \cup {r}
          /\ behind' = TRUE
          /\ unsynced' = TRUE
    /\ Proceed(r, "failed")
    /\ UNCHANGED <<file, live, profile, mu, phase, crashes, op>>

\* Mistake for FlushedConfig: newCfg.Peers is not filled in.
FlushedWithoutPeers(r) ==
    IF Is(r, "update") THEN [cfg[r] EXCEPT !.peers = {}] ELSE Stored

\* The rest of the critical section. AddPeer and DeletePeer write what the
\* database holds, SaveServerConfig writes the configuration it was given.
FlushedConfig(r) == IF Is(r, "update") THEN cfg[r] ELSE Stored

\* CreateClient then builds its client configuration, from the server
\* configuration it loaded first.
NewDraft(r) ==
    [name |-> op[r].name,
     profile |-> [key |-> r, psk |-> r, ip |-> ip[r], settings |-> cfg[r].settings]]

Flush(r) ==
    /\ At(r, "flush")
    /\ file' = FlushedConfig(r)
    /\ behind' = FALSE
    /\ mu' = NoReq
    /\ draft' = IF Is(r, "create") THEN [draft EXCEPT ![r] = NewDraft(r)] ELSE draft
    /\ Go(r, CASE Is(r, "create") -> "truncate"
               [] Is(r, "delete") -> "remove"
               [] Is(r, "update") -> "syncRow")
    /\ UNCHANGED <<db, live, profile, phase, crashes, op, ip, cfg, snap, todo, took,
                   unsynced>>

\* Mistakes for FlushFails: the failure is reported as a conflict; the mutex
\* is not released on the error path.
FlushFailsAsConflict(r) ==
    /\ "flush" \in Faults
    /\ At(r, "flush")
    /\ behind' = TRUE
    /\ unsynced' = TRUE
    /\ mu' = NoReq
    /\ Proceed(r, "refused")
    /\ UNCHANGED <<stored, phase, crashes, op, took>>

FlushFailsLocked(r) ==
    /\ "flush" \in Faults
    /\ At(r, "flush")
    /\ behind' = TRUE
    /\ unsynced' = TRUE
    /\ Proceed(r, "failed")
    /\ UNCHANGED <<stored, mu, phase, crashes, op, took>>

\* The error goes to the client although the change is committed.
FlushFails(r) ==
    /\ "flush" \in Faults
    /\ At(r, "flush")
    /\ behind' = TRUE
    /\ unsynced' = TRUE
    /\ mu' = NoReq
    /\ Proceed(r, "failed")
    /\ UNCHANGED <<stored, phase, crashes, op, took>>

-----------------------------------------------------------------------------
(* The client configuration files. *)

\* What follows a client file that is written, or could not be.
AfterFile(r) == IF Is(r, "create") THEN "syncRow" ELSE "pick"

\* os.WriteFile creates or truncates the file, then fills it.
Truncate(r) ==
    /\ At(r, "truncate")
    /\ profile' = [profile EXCEPT ![draft[r].name] = Empty]
    /\ Proceed(r, "fill")
    /\ UNCHANGED <<db, file, live, mu, phase, crashes, op, ghosts>>

\* A file removed since it was opened is no longer in the directory.
Fill(r) ==
    /\ At(r, "fill")
    /\ profile' = IF draft[r] = NoDraft THEN profile
                  ELSE [profile EXCEPT ![draft[r].name] = draft[r].profile]
    /\ draft' = [draft EXCEPT ![r] = NoDraft]
    /\ Go(r, AfterFile(r))
    /\ UNCHANGED <<db, file, live, mu, phase, crashes, op, ip, cfg, snap, todo, ghosts>>

\* The file cannot be opened, or not be written: logged, nothing else.
FileFails(r) ==
    /\ "profile" \in Faults
    /\ At(r, "truncate") \/ At(r, "fill")
    /\ draft' = [draft EXCEPT ![r] = NoDraft]
    /\ Go(r, AfterFile(r))
    /\ UNCHANGED <<stored, mu, phase, crashes, op, ip, cfg, snap, todo, ghosts>>

\* os.Remove of a DeleteClient. Whoever has the file open writes to nothing.
RemoveFile(r) ==
    /\ At(r, "remove")
    /\ profile' = [profile EXCEPT ![op[r].name] = NoFile]
    /\ draft' = [q \in Reqs |->
                    IF pc[q] = "fill" /\ draft[q] # NoDraft /\ draft[q].name = op[r].name
                    THEN NoDraft ELSE draft[q]]
    /\ Go(r, "syncRow")
    /\ UNCHANGED <<db, file, live, mu, phase, crashes, op, ip, cfg, snap, todo, ghosts>>

RemoveFails(r) ==
    /\ "profile" \in Faults
    /\ At(r, "remove")
    /\ Proceed(r, "syncRow")
    /\ UNCHANGED <<stored, mu, phase, crashes, op, ghosts>>

-----------------------------------------------------------------------------
(* syncRuntime, which no lock protects. *)

SyncRow(r) ==
    /\ At(r, "syncRow")
    /\ snap' = [snap EXCEPT ![r].settings = Listening(db.settings)]
    /\ Go(r, "syncPeers")
    /\ UNCHANGED <<stored, mu, phase, crashes, op, ip, cfg, todo, draft, ghosts>>

\* Mistake for SyncPeers: the sync reuses the peers the request loaded first.
SyncPeersFromFirstLoad(r) ==
    /\ At(r, "syncPeers")
    /\ snap' = [snap EXCEPT ![r].peers = cfg[r].peers]
    /\ Go(r, "apply")
    /\ UNCHANGED <<stored, mu, phase, crashes, op, ip, cfg, todo, draft, ghosts>>

SyncPeers(r) ==
    /\ At(r, "syncPeers")
    /\ snap' = [snap EXCEPT ![r].peers = db.peers]
    /\ Go(r, "apply")
    /\ UNCHANGED <<stored, mu, phase, crashes, op, ip, cfg, todo, draft, ghosts>>

\* Mistake for AfterSync: an UpdateServerConfig does not regenerate.
AfterSyncNothing(r) == "ok"

AfterSync(r) == IF Is(r, "update") THEN "list" ELSE "ok"

\* Mistake for Apply: awg addconf, which leaves the other peers in place.
ApplyAddsOnly(r) ==
    /\ At(r, "apply")
    /\ live' = IF live = NoIface THEN snap[r]
               ELSE [snap[r] EXCEPT !.peers = @ \cup live.peers]
    /\ unsynced' = FALSE
    /\ Proceed(r, AfterSync(r))
    /\ UNCHANGED <<db, file, profile, mu, phase, crashes, op, took, behind>>

Apply(r) ==
    /\ At(r, "apply")
    /\ live' = snap[r]
    /\ unsynced' = FALSE
    /\ Proceed(r, AfterSync(r))
    /\ UNCHANGED <<db, file, profile, mu, phase, crashes, op, took, behind>>

\* awg is not installed, a load fails or a command does: logged, the answer
\* to the client is the same.
SyncFails(r) ==
    /\ "sync" \in Faults
    /\ At(r, "syncRow") \/ At(r, "syncPeers") \/ At(r, "apply")
    /\ unsynced' = TRUE
    /\ Proceed(r, AfterSync(r))
    /\ UNCHANGED <<stored, mu, phase, crashes, op, took, behind>>

-----------------------------------------------------------------------------
(* regenerateClientConfigs, the end of an UpdateServerConfig. *)

List(r) ==
    /\ At(r, "list")
    /\ todo' = [todo EXCEPT ![r] = {n \in Names : profile[n] # NoFile}]
    /\ Go(r, "pick")
    /\ UNCHANGED <<stored, mu, phase, crashes, op, ip, cfg, snap, draft, ghosts>>

ListFails(r) ==
    /\ "profile" \in Faults
    /\ At(r, "list")
    /\ Proceed(r, "ok")
    /\ UNCHANGED <<stored, mu, phase, crashes, op, ghosts>>

\* A file is rewritten when it has a private key and the configuration that
\* was saved has a peer of its name.
Renewable(r, n) ==
    profile[n] \notin {NoFile, Empty} /\ \E x \in cfg[r].peers : x.name = n

\* Mistake for Renewed: a new key pair instead of the one in the file.
RenewedWithNewKey(r, x) ==
    [name |-> x.name,
     profile |-> [key |-> r, psk |-> x.key, ip |-> x.ip, settings |-> cfg[r].settings]]

Renewed(r, x) ==
    [name |-> x.name,
     profile |-> [key |-> profile[x.name].key, psk |-> x.key, ip |-> x.ip,
                  settings |-> cfg[r].settings]]

\* The files come in the order of their names in the code, in any order here.
Pick(r, n) ==
    /\ At(r, "pick")
    /\ n \in todo[r]
    /\ todo' = [todo EXCEPT ![r] = @ \ {n}]
    /\ \/ /\ Renewable(r, n)
          /\ \E x \in cfg[r].peers :
                x.name = n /\ draft' = [draft EXCEPT ![r] = Renewed(r, x)]
          /\ Go(r, "truncate")
       \/ /\ ~Renewable(r, n)
          /\ UNCHANGED <<draft, pc>>
    /\ UNCHANGED <<stored, mu, phase, crashes, op, ip, cfg, snap, ghosts>>

Finish(r) ==
    /\ At(r, "pick")
    /\ todo[r] = {}
    /\ Proceed(r, "ok")
    /\ UNCHANGED <<stored, mu, phase, crashes, op, ghosts>>

-----------------------------------------------------------------------------
(* Crash, and the start of main.go: NewPostgresConfigRepo, NewAWGService. *)

\* The process is killed, or its main returns after a signal while requests are
\* still running: Shutdown waits 10 s for them and no longer.
\* The interface goes with the container, or stays when only the process dies.
Crash ==
    /\ phase # "down"
    /\ crashes < MaxCrashes
    /\ crashes' = crashes + 1
    /\ phase' = "down"
    /\ pc' = [r \in Reqs |-> IF r \in InFlight THEN "lost" ELSE pc[r]]
    /\ mu' = NoReq
    /\ live' \in {live, NoIface}
    /\ behind' = TRUE
    /\ unsynced' = TRUE
    /\ Forget(Reqs)
    /\ UNCHANGED <<db, file, profile, op, took>>

\* Mistake for BootFlush: the file is taken to be what it was left as.
BootFlushTrusting ==
    /\ phase = "down"
    /\ phase' = "boot"
    /\ behind' = FALSE
    /\ UNCHANGED <<stored, mu, crashes, pc, op, locals, took, unsynced>>

\* A load or a flush that fails is logged and the start goes on. One that fails
\* before, in the environment or in InitDB, exits and is tried again by Docker:
\* the service is down meanwhile, and may be so for good.
BootFlush ==
    /\ phase = "down"
    /\ phase' = "boot"
    /\ \/ file' = Stored /\ behind' = FALSE
       \/ Faults \cap {"sql", "flush"} # {} /\ UNCHANGED <<file, behind>>
    /\ UNCHANGED <<db, live, profile, mu, crashes, pc, op, locals, took, unsynced>>

BootSync ==
    /\ phase = "boot"
    /\ phase' = "up"
    /\ \/ live' = Stored /\ unsynced' = FALSE
       \/ "sync" \in Faults /\ UNCHANGED <<live, unsynced>>
    /\ UNCHANGED <<db, file, profile, mu, crashes, pc, op, locals, took, behind>>

-----------------------------------------------------------------------------
Serve(r) ==
    \/ ReadRow(r) \/ ReadPeers(r) \/ NoFreeIP(r) \/ Find(r) \/ ReadFails(r)
    \/ Write(r) \/ Conflict(r) \/ WriteFails(r) \/ Flush(r) \/ FlushFails(r)
    \/ Truncate(r) \/ Fill(r) \/ FileFails(r) \/ RemoveFile(r) \/ RemoveFails(r)
    \/ SyncRow(r) \/ SyncPeers(r) \/ Apply(r) \/ SyncFails(r)
    \/ List(r) \/ ListFails(r) \/ (\E n \in Names : Pick(r, n)) \/ Finish(r)

Next ==
    \/ \E r \in Reqs : (\E o \in Ops : Receive(r, o)) \/ Serve(r)
    \/ Crash \/ BootFlush \/ BootSync

Spec == Init /\ [][Next]_vars

\* Go schedules every goroutine and every system call returns.
Fairness == \A r \in Reqs : WF_vars(Serve(r))

LiveSpec == Spec /\ Fairness

-----------------------------------------------------------------------------
(* What the service promises. *)

AtRest == phase = "up" /\ InFlight = {}

\* Whenever nobody holds the mutex and no failure or crash has left the file
\* behind, awg0.conf has the stored settings, and until the first
\* UpdateServerConfig the stored peers too ("rewrites the AmneziaWG
\* configuration file at configPath after every change",
\* postgres_config_repo.go:26-28): writes and flushes never get out of order.
FileFollowsDb ==
    mu = NoReq /\ ~behind =>
        /\ file.settings \in {db.settings, Listening(db.settings)}
        /\ (\A r \in took : ~Is(r, "update")) => file.peers = db.peers

\* The requests that create or delete clients of name n, unless refused.
Concerned(n) ==
    {r \in Reqs : /\ op[r] # NoOp
                  /\ op[r].kind \in {"create", "delete"}
                  /\ op[r].name = n
                  /\ pc[r] # "refused"}

\* The client configuration p lets the client of row x in.
Opens(p, x) == p.key = x.key /\ p.psk = x.key /\ p.ip = x.ip

\* A client whose name no other request has used keeps its private key in
\* clientsDir, "the only place that has the client private keys"
\* (awg_service.go:86-87), through any number of overlapping
\* regenerateClientConfigs: from the first time its file was written, it holds
\* the key, or is in the hands of a regeneration that has read it and is about
\* to write it back. It is empty only if such a regeneration died in between,
\* missing only if writing may fail, and has never another key in it.
KeyKept ==
    \A x \in db.peers :
        Concerned(x.name) = {x.key} /\ pc[x.key] \in {"syncRow", "syncPeers", "apply", "ok"} =>
            \/ /\ profile[x.name] \notin {NoFile, Empty}
               /\ Opens(profile[x.name], x)
            \/ /\ profile[x.name] = Empty
               /\ \E r \in Reqs : \/ pc[r] = "lost" /\ Is(r, "update")
                                  \/ /\ pc[r] = "fill"
                                     /\ draft[r] # NoDraft
                                     /\ draft[r].name = x.name
                                     /\ Opens(draft[r].profile, x)
            \/ profile[x.name] \in {NoFile, Empty} /\ "profile" \in Faults

\* When CreateClient answers, the interface it has just configured has the new
\* client, unless that has been deleted meanwhile (AddPeer comes before
\* syncRuntime and each sync applies all of what it read).
AnsweredClientServed ==
    [][\A r \in Reqs :
        /\ pc[r] = "apply" /\ pc'[r] = "ok" /\ "sync" \notin Faults
        /\ Is(r, "create") /\ Row(r) \in db.peers
        => Row(r) \in live'.peers]_vars

\* "keeps the live interface in line with the stored configuration"
\* (awg_service.go:61-62): with no request in progress, the interface has the
\* stored settings and peers, unless the last sync failed.
LiveFollowsDb == AtRest /\ ~unsynced => live = Stored

\* No request has ended with an error or in a crash.
Smooth == \A r \in Reqs : pc[r] \notin {"failed", "lost"}

\* With no request in progress and none that failed, each client has a file
\* that lets it in with the settings of the server, and nobody else has one
\* ("rewrites the stored client configurations after a server change, keeping
\* the private key of each client", awg_service.go:162-163).
ProfilesFollowDb ==
    AtRest /\ Smooth =>
        \A n \in Names :
            IF \E x \in db.peers : x.name = n
            THEN /\ profile[n] \notin {NoFile, Empty}
                 /\ \A x \in db.peers : x.name = n => Opens(profile[n], x)
                 /\ profile[n].settings = db.settings
            ELSE profile[n] = NoFile

\* With no request in progress the file has the stored peers ("after every
\* change", postgres_config_repo.go:26-28).
FileHasPeers == AtRest /\ ~behind => file.peers = db.peers

\* With no request in progress and none that failed, clientsDir has the
\* private key of every client (awg_service.go:86-87).
PrivateKeysKept ==
    AtRest /\ Smooth =>
        \A x \in db.peers : /\ profile[x.name] \notin {NoFile, Empty}
                            /\ profile[x.name].key = x.key

\* Every request is answered: no path keeps the mutex.
EveryRequestAnswered ==
    \A r \in Reqs : pc[r] \in Working ~> pc[r] \in Answered

-----------------------------------------------------------------------------
(* The service implements the registry of clients. *)

Registry == INSTANCE PeerRegistry WITH
    rows <- db.peers,
    settings <- db.settings,
    call <- op,
    answer <- [r \in Reqs |-> IF pc[r] \in Answered THEN pc[r] ELSE "none"]

\* Every answer tells the truth about the database: success after exactly one
\* change, a refusal for a reason and without a change (handlers answer 201,
\* 409, 404 from the errors of CreateClient, DeleteClient, UpdateServerConfig).
RegistryKept == Registry!RegistrySpec
=============================================================================
