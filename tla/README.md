# TLA+ verification of the AmneziaWG web dashboard

This directory models the AmneziaWG web dashboard (`src/`), checks the models
with TLC on small instances and proves theorems about them with TLAPS. The
dashboard is a Go API over PostgreSQL that manages the clients and the settings
of one AmneziaWG interface, and a React UI that polls it.

    tlc -config MCAwgService_serial.cfg MCAwgService      # one run of the tables below
    tlapm AwgServiceProofs.tla                            # one module of proofs

Four groups of modules stand for four parts of the system: the server's requests
(`AwgService`), its administrators and the tab's session (`AdminAuth`,
`DashboardSession`), the settings dialogs (`SettingsForms`, `QuicPayload`) and the
traffic charts (`TrafficSeries`).

## The system

| Component | State | Operations | Interacts with |
|---|---|---|---|
| Client and server management, `service/awg_service.go` | `clientsDir` (one `.conf` per client, the only copy of its private key), the live interface | `CreateClient`, `DeleteClient`, `UpdateServerConfig`, and the two procedures they end with: `syncRuntime` and `regenerateClientConfigs` | repository, `ip`/`awg`/`iptables` |
| Configuration repository, `repository/postgres_config_repo.go`, `db.go` | tables `server_config` and `peers`, `awg0.conf` as their mirror, the mutex `mu` | load, save, add, delete, flush; import or flush at start | PostgreSQL, file system |
| Configuration files, `repository/config_repo.go`, `awgconf.go`, `amneziavpn.go` | none | parse and format of `awg0.conf`, client files and `vpn://` keys | repository, management |
| Administrator and sessions, `service/auth_service.go`, `admin_repo.go`, `middleware/auth.go` | table `admin_users`; JWTs, which only their holders keep | setup, login, token check, change of password | UI, router |
| Metrics, `awg_service.go` (status, statistics, collector) | statistics cache under `statsMu`, tables `traffic_history`, `peer_traffic_history` | dump of the interface, status, a record every interval | interface, repository, locator |
| Locator, `system/locator.go` | cached address and country | lookup | external services |
| HTTP API, `api/` | none | routing, decoding, mapping of errors to answers | all services |
| Server process, `cmd/server` | none | start: database, repository, first sync, collector, listener; shutdown | Docker (`restart: unless-stopped`) |
| Dashboard session, `App.jsx`, `LoginModal.jsx` and the dialogs | token, `authStatus`, `loading`, the last answers | polls every 5 s, changes, login, setup, logout | API |
| Settings dialogs, `NetworkSettingsModal.jsx`, `AmneziaConfigModal.jsx`, `awg3.js` | a form, copied when it opens | edit, 3.1 defaults, generate a packet, save | session (`serverConfig`), API |
| Packet generator, `quicGenerator.js` | none | `generateQUICPayload` | WebCrypto, the dialog |
| Traffic series, `traffic.js`, `useLiveTrafficHistory.js`, `charts/` | samples of the totals | sample, merge, differences, periods | session (`status`) |
| Presentation: `Header`, `Topbar`, `Sidebar`, icons | none | render | session |

Every HTTP request is served by a goroutine of its own. Requests meet in four
places: the two tables, `awg0.conf`, the client files and the interface. The
only lock among them is the mutex of the repository, which an `AddPeer`, a
`DeletePeer` and a `SaveServerConfig` hold from the SQL statement to the end of
the file flush. Loads, client files and syncs are not under any lock.

What makes this hard, and what should hold anyway:

- **Interleaving of whole requests.** A request loads the configuration, then
  writes, then syncs; another may write between any two of these. The file must
  follow the database, the interface the database, private keys must survive.
- **Answers.** A statement may be committed although the flush after it fails,
  or although its reply is lost. An answer of success or of refusal must still
  tell the truth.
- **Crashes.** Database, files and interface are three places without a common
  transaction. The start of the process must bring them together again.
- **Error paths and the mutex.** No failure may keep it.
- **The tab.** `App.jsx` aborts nothing and orders nothing: polls overlap, answers
  come late, in any order, after a logout or in another session, and the body of
  an error is taken for data. The tab must still come to show what is stored, end
  its session when the token expires and not before, and stop asking afterwards.
- **Whole configurations.** A dialog sends back the whole configuration, half of
  it from when it was opened and half from the last poll. A save must change what
  was edited and nothing else.
- **Counters.** Totals are cached, recorded in two steps and reset with the
  interface. Charts made of differences must not draw what was never received.

`PROJECT.json` lists each of these hazards at its line, those that no property
covers too, with the reason.

## Modules

| Module | Models |
|---|---|
| `AwgData` | settings, rows, requests and pure helpers: the port override of `LoadServerConfig`, the UNIQUE constraints, `AllocateNextIP`, input validation |
| `PeerRegistry` | the abstract specification: what the API promises about clients and settings |
| `AwgService` | `CreateClient`, `DeleteClient`, `UpdateServerConfig` over the repository: one action per step that another request can fall between, crash, restart; it implements `PeerRegistry` (`RegistryKept`) |
| `MCAwgService` | the instances TLC checks |
| `AdminAuth` | the administrators and their tokens: setup in its two statements, login, change of the password, expiry |
| `DashboardSession` | one tab: its token, polls, changes and forms, over `AdminAuth`, which it extends and implements (`SessionImplementsAuth`) |
| `QuicPayload` | the packet that `generateQUICPayload` makes, and a reader of it after RFC 9000 |
| `SettingsForms` | both settings dialogs of a tab, with `UpdateServerConfig` and another browser; extends `QuicPayload` |
| `TrafficSeries` | counters, cache, collector, the status, the samples of the tab, its series |
| `MCAdminAuth`, `MCDashboardSession`, `MCSettingsForms`, `MCTrafficSeries` | their instances for TLC |
| `PeerRegistryProofs`, `AwgServiceProofs`, `AwgClientsProofs`, `DashboardSessionProofs`, `QuicPayloadProofs`, `SettingsFormsProofs`, `TrafficSeriesProofs`, `TrafficChartsProofs` | the theorems |

`SettingsForms` and `TrafficSeries` stand beside `DashboardSession` and not over it:
they take from the session that polls bring answers at any time and of any age,
errors among them, which is more than it does.

### AwgService and the code

`pc[r]` is the next step of request `r`, or its answer (`lost`: the process died).

| Step (`pc`) | Actions | Code |
|---|---|---|
| `idle` | `Receive` | handler, validation that precedes every read |
| `row`, `peers` | `ReadRow`, `ReadPeers`, `NoFreeIP`, `ReadFails` | the two statements of `LoadServerConfig`, `AllocateNextIP` |
| `find` | `Find`, `ReadFails` | `GetPeerByName` |
| `insert`, `drop`, `save` | `Write`, `Conflict`, `WriteFails` | the SQL statement of `AddPeer`, `DeletePeer`, `SaveServerConfig`, once `mu` is free |
| `flush` | `Flush`, `FlushFails` | the rest of the critical section |
| `truncate`, `fill` | `Truncate`, `Fill`, `FileFails` | `os.WriteFile` of a client file: open with truncation, then write |
| `remove` | `RemoveFile`, `RemoveFails` | `os.Remove` of a client file |
| `syncRow`, `syncPeers`, `apply` | `SyncRow`, `SyncPeers`, `Apply`, `SyncFails` | `syncRuntime`: its `LoadServerConfig`, `awg syncconf` |
| `list`, `pick` | `List`, `Pick`, `Finish`, `ListFails` | `regenerateClientConfigs` |

`Crash`, `BootFlush` and `BootSync` are the death of the process and the start
of `main.go` over a database that has a configuration: `NewPostgresConfigRepo`
flushes the file, `NewAWGService` syncs, and only then is the port opened. A start
that exits on a failure of the database or of the flush has changed nothing: it is
no step of its own, but the starts that Docker makes until one gets through.

`db`, `file`, `live` and `profile` are the database, `awg0.conf`, the running
interface and `clientsDir`. `cfg` is the configuration a request loaded first (the
`newCfg` of an update once it is saved), `snap` the one its sync loaded. Three
variables remember the past for the properties only: `took` (whose statement
was committed), `behind` and `unsynced` (a failure or a crash has left the file
or the interface behind the database; cleared by the next flush or sync).

Abstractions, and why they lose nothing the properties see:

- A key is the identity of the request that generated it, for private, public
  and preshared key at once: keys are random, generated together, never changed.
- An address is its last octet in the one subnet of the interface, which is all
  `AllocateNextIP` looks at. Settings are the port and everything else; the
  port is apart because `AWG_PORT` overrides it.
- `ReadDir` returns the files by name; here they come in any order, which adds
  behaviours and lets TLC use the symmetry of names. The read of a file in
  `Pick` and the choice to rewrite it are one step, because the code acts on
  what it read even if the file changes before it opens it again, and so does
  the model: `draft` holds what is going to be written.
- A file that is removed while another request has it open is written to
  nowhere (`RemoveFile` clears that draft).
- Of two `os.WriteFile` on one file the one that fills it last wins. In reality a
  shorter content over a longer one, both opened before either was filled, would
  keep the tail of the longer; that mixture is not modelled.
- `awg0.conf` is written in one step. It is only read when the process starts
  over an empty database, which is not modelled, and is rewritten at every
  other start.
- The commands of a sync other than `awg syncconf` are one step with it.
- A fault is a kind of step that fails ("sql", "flush", "profile", "sync"), at any
  time, any number of times. A client that hangs up cancels its context: that
  is an SQL or a flush failure at that step.

### AdminAuth and the code

| Action | Code |
|---|---|
| `SetupPasses`, `SetupRefused` | `SetupAdmin` up to its checks: the count, the lengths |
| `SetupInserts`, `SetupConflicts`, `SetupFails` | its `INSERT` and the token it signs; the name is taken; the connection fails, with the row committed or not |
| `LogsIn`, `LoginRefused` | `Login` |
| `ChangesPassword` | `ChangePassword`, for the administrator of the token, without the old password |
| `TokensExpire` | time, or a new `JWT_SECRET` |

`admins` is the table, `passed` the setups between their two statements, `tokens` the
owners of the tokens in the order of issue, of which the first `expired` are no
longer accepted: all tokens live equally long. `Authorized` is what
`AuthMiddleware` asks. Names and passwords are values, `TooShort` those below the
minimal lengths. The time of the last login is left out.

### DashboardSession and the code

| Action | Code |
|---|---|
| `Tick` | the interval of 5 seconds in the effect of a token |
| `AskCreate`, `AskSave`, `AskDelete`, `AskPassword` | the dialogs that call `authenticatedFetch` |
| `AskProfile`, `AnswerProfile` | `QRModal`, whose `fetch` is its own: its 401 does not end the session |
| `Submit`, `HandleEnter` | the login screen, `handleLogin`, `handleSetup` and the effect of the new token (`StartSession`) |
| `Logout`, `Reload` | `handleLogout`; the page is loaded again |
| `Answer` (`TurnedAway`, `AnswerChange`, `AnswerPoll`, `AnswerLogin`, `CountSetup`, `FinishSetup`, ...), `AnswerCheck` | middleware and handlers of the server |
| `HandleUnauthorized`, `HandlePoll`, `HandleMe`, `HandleChange`, `HandleCheck` | `authenticatedFetch`, `fetchData`, `fetchUserData`, the rest of the change handlers, `checkAuthStatus` |
| `Fails` | a request or its answer is lost, or the server answers with an error body |
| `Others` | a setup, a change and the passing of time elsewhere |

`calls` are the requests in flight, each with the token of the closure that sent it,
for a handler sees the state of the render that started it. What runs between two
awaits is one step. Abstractions: what the server stores is a version number;
creations and saves are not told apart, since both end with a poll on success and
nothing else; `/api/auth/me` only brings a name to show, so it is answered when it
is handled; theme, tabs, search and events are display.

### SettingsForms, QuicPayload and the code

| Action | Code |
|---|---|
| `HandlePoll` | `fetchData` sets `serverConfig`: a configuration of any age, or none after an error |
| `Open`, `Close` | the dialog is mounted (its form is `useState(...)` of then) and unmounted |
| `Edit`, `applyAwg3Defaults` | `handleChange`, `handleObfChange`, the button for a key; the 3.1 defaults |
| `TypeDomain`, `Generated` | `handleDomainChange` before and after its await |
| `Submit`, `AnswerSave`, `HandleSave` | `handleSubmit` before its await, `UpdateServerConfig` with `validateObfuscation`, `handleSubmit` after it |
| `TimerFires` | the `setTimeout` of 1.5 seconds that closes the dialog |
| `LoseSave`, `OtherSaves` | the request or its answer is lost, or the tab gives up and the server takes the request later (`late`); a save in another browser |

A configuration has one field of each sort: shown only (`listen_port`), in no dialog
(`private_key`), editable with a default (`address`, `s4`, `i1`), and of AmneziaWG 3.1
(`header_protection_key`, `random_trailers`); the other fields are treated like one
of these. `past` has every configuration since the page was loaded, so a poll may
be arbitrarily late. A packet in `i1` is the name it was generated from, and
`QuicPayload` says which bytes that stands for: headers, lengths, frames and
padding, with the payload in the clear, since anyone derives its keys from the
connection id. `base`, `edited` and a save's `seen` are not in the code.

### TrafficSeries and the code

| Action | Code |
|---|---|
| `Transfer`, `RosterChanges`, `CountersRestart` | the interface counts; clients come and go; counters begin anew, of removed peers or of all |
| `LoadPeers`, `CacheHit`, `Dump`, `CacheStore` | `GetClients` of a poll or of the collector: the list of clients, then what is cached, or `awg show` outside every lock and the store of it |
| `RecordTraffic`, `RecordPeerTraffic` | the collector: the totals, then the peers, each after a `GetClients` of its own and with a time of its own |
| `GetSystemStatus`, `Show` | the rest of the answer to a poll; `fetchData` shows it and `useLiveTrafficHistory` samples it |
| `Remount` | the dashboard leaves the screen and comes back |

`merged`, `chartSeries`, `GetTopPeersTrafficHistory`, `buildPeersTrafficSeries` and
`filterByPeriod` are the pure functions between these and what is drawn. The lists of
clients and the counters are kept with all they ever were (`tables`, `counters`), and a
reading is a pair of places in these: the `load` and the `dump` it was made of. So two callers
may both find the cache too old, and the older dump may be stored last or shown
last, as in the code. `load`, `dump`, `moved` and `restarted` are not in the code.
Abstractions: received bytes only, sent ones are treated alike; cached
counters may be of any age; the second `LoadServerConfig` of a status only decides
whether it fails; the browser has the clock of the server, for a sample with another is like a late one;
the chart of the clients is drawn from the whole table, and the choice of the ten
busiest is left out; rates and formats are left out.

## Properties and runs

### The server's requests

| Property | What it says |
|---|---|
| `FileFollowsDb` | with the mutex free and no failure since the last flush, `awg0.conf` has the stored settings, and the stored peers while no update has ever been made: flushes never overtake writes |
| `FileHasPeers` | with no request in progress, the file has exactly the stored peers |
| `LiveFollowsDb` | with no request in progress and the last sync done, the interface runs what is stored |
| `ProfilesFollowDb` | with no request in progress and none that failed, every client has a file that lets it in with the current settings, and nobody else has a file |
| `KeyKept` | the file of a client whose name nobody else uses never has another key, however regenerations overlap; it is empty only in the hands of a regeneration that writes the key back, or after one has died at it or a write may have failed |
| `AnsweredClientServed` | when `CreateClient` answers, the interface it configured has the client, unless it has been deleted meanwhile |
| `RegistryKept` | the refinement: every request changes the tables at most once, in one step between its arrival and its answer; success means it did, a refusal that it did not and that its reason held |
| `EveryRequestAnswered` | no path keeps the mutex: every request is answered, or lost with the process |
| `PrivateKeysKept` | what a comment of the code promises and the code does not keep (below) |

| Run | Instance | Shows |
|---|---|---|
| `concurrent` | 3 requests at once, 2 names, 2 addresses, 2 settings, flush failures | `TypeOK`, `FileFollowsDb`, `KeyKept`, `AnsweredClientServed`, `RegistryKept` |
| `serial` | 3 requests one at a time, bad and blank input, SQL, flush and sync failures, 1 crash | `KeyKept`, `FileHasPeers`, `LiveFollowsDb`, `ProfilesFollowDb` |
| `liveness` | 2 requests at once, 1 name, all failures, 1 crash, `AWG_PORT` set | `FileFollowsDb`, `EveryRequestAnswered` |
| `live_lags` | 2 overlapping creations | `LiveFollowsDb` fails |
| `file_lags` | a creation and an update overlap | `FileHasPeers` fails |
| `key_lost` | a deletion and a creation of one name overlap | `PrivateKeysKept` fails |

Bounds. A race here needs a request that loads, one that writes in between and,
for files and names, a third that made the name exist: three requests. Two
names and two addresses are what three requests need to clash and not to clash,
and to find the subnet full. `MaxCrashes = 1` lets a crash hit any step of a
request whose predecessors left any state, and failures before, during and
after the restart. `MaxInFlight` chooses between requests one at a time, for what
only holds at rest without races, and all at once. `Permutations` of requests
and of names is sound: both are compared for equality only. The liveness run uses
no symmetry. `CHECK_DEADLOCK FALSE`: once all requests are answered, the model
has nothing left to do.

Fairness (`LiveSpec`): each request that can take a step takes one, because Go
schedules every goroutine and statements, files and commands return; a Go mutex
is handed over. Nothing is assumed about arrivals, crashes, starts or which of
success and failure comes: a server may stay down, its requests are lost.

### Administrators and session

| Property | What it says |
|---|---|
| `TokensHaveOwners` | no token is handed out for a row that an overlapping setup, a conflict or a failure kept out of the table |
| `EndsByExpiry` | a session ends at logout or once a token has expired, never because a request was lost or the server had an error |
| `ExpiredEnds` | the polls notice that the token has expired and bring the login screen, whatever the administrator does |
| `PollsStop` | a tab that stays logged out stops asking for protected data, handlers of the old session included |
| `Converges` | in a session that lasts, the tab comes to show what is stored and keeps showing it |
| `SpinnerEnds` | the spinner of the first load ends, whatever becomes of the first poll |
| `OneAdmin` | what a comment of `SetupAdmin` promises and the code does not keep |

Run `session`: one user name, so that setups of two browsers clash, 2 tokens (a
session and its successor), 2 requests in flight (an older and a younger poll, or a
change and a poll), one `/api/auth/status` in flight, one change of the stored data,
one mishap (a lost request, an error or a reload). One endpoint stands for the
three of a poll: a poll is handled when all its answers are in, and what the tab
shows is set from one poll as a whole. Run `setup_race`: two names, two callers.

Fairness (`LiveSpec`): the server answers what it was asked (`WF` of `Answer` for each
request), the event loop gets to every answer (`SF` of `Handle`, because the bounds
of `checks` and of `calls` hold some handlers up for a time), the
interval fires (`SF` of `Tick`: only the bound of calls ever holds it up; in the
browser nothing does). Nothing is assumed of the administrator, of other browsers,
of expiry or of failures. `ExpiredEnds`, `PollsStop` and `Converges` need the interval:
nothing else in the tab ever looks at the token or at the data again.

### Settings dialogs

| Property | What it says |
|---|---|
| `SettingsTypeOK` | types; what is stored is a configuration that `validateObfuscation` accepts |
| `SavesTheEdits` | field by field: a save stores what was edited; what was not stays, or gets the default of an empty field, unless it was changed elsewhere after the dialog, or the tab, had loaded it. One stale field excuses no other, and the order of polls, generations, timers and late requests excuses none |
| `DefaultsValid` | after "Apply 3.1 defaults" the server takes the form, but for a bad key that was there and a padding such as "12.5", which `Number` reads and `Atoi` does not |
| `GeneratedExact`, `GeneratedNamed` | whichever generation came last, the packet in the form is well formed and carries the name |
| `PortReadOnly` | what the label of the port promises and the code does not keep |
| `Awg3StayEmpty` | what a comment of the obfuscation dialog promises of the 3.1 settings, "empty unless set", and a stale tab does not keep |

Run `settings`: 4 steps of the administrator (open, edit, submit and one more, so that
a timer meets a dialog that was opened again), one fault, late request or save elsewhere, the
defaults of AmneziaWG 2 and a 3.1 configuration as what is stored. The names have 30
and 247 characters: with 30 the length of the packet first needs two bytes, with
247 the first zero of the extensions is gone. Runs `settings_reset` and `stale_dialog`: two steps.

### Traffic charts

| Property | What it says |
|---|---|
| `TrafficTypeOK` | types; samples are in the order of time, two successive ones differ |
| `GhostsBounded` | the chart of the interface, in any period, shows no more than was received, and that at most once more for each point that has older counters or an older list of clients than the point before it: an answer is late, a dump failed, or the cache took an older one |
| `PeersExact` | the chart of the clients shows of each exactly what was received between its last point before the period, or its first, and its last; less only after a restart. It asks that no dump failed and none is older than that of the batch before |

The totals do go back: of two overlapping dumps the older may be stored last, and when
they rise again the chart counts the bytes in between twice. A bound that allowed for no
such point would be false of the code. What must not happen is that one such point costs
more than once what was received, or that a point in its order costs anything.

Run `traffic`: the collector and two polls, whose dumps overlap with each other and
with its own; 3 seconds (one before, one at and one after the start of a period; the
period of length 0 and the one without a limit), 2 rounds of the collector, 2 samples,
1 byte, which is enough to be counted twice, and one change (a client, a restart of
counters, a failure or a remount). Two clients, so that one lacks points the other has.
Clients and polls are interchangeable. Within a second anything may come in any order.
The theorems hold for any number of all of these, and so for histories that the limits cut.

## What the code does not keep

1. `live_lags`: r1 and r2 are stored; r1's sync loads between them, r2's loads
   after; r2 applies, then r1. The interface lacks r2, which was answered 201, until
   the next change. `syncRuntime` would have to load and apply under one lock.
2. `file_lags`: an update loads the peers, a creation stores its client and
   flushes, the update saves and flushes the peers it had loaded. `awg0.conf` lacks
   the client until the next change of a client or restart. The database and the
   interface have it: `syncRuntime` does not read this file.
3. `key_lost`: a deletion commits, a creation of the same name stores its row and
   its file, the deletion removes the file.
4. `setup_race`: two setups with different names both count no administrator,
   both hash their passwords, both insert: two administrators, although "it
   fails once one exists". Neither is locked out and both tokens have a row
   (`TokensHaveOwners`, `PasswordsKept` hold all the same).
5. `settings_reset`: the dialogs copy `serverConfig` when they are opened. Before the
   first poll is answered, or after an error body, that is nothing: the form has
   defaults, a save sends them as the whole configuration. The port that the form
   calls read-only becomes 689, the private key empty.
6. `stale_dialog`: another browser turns a 3.1 setting off; this tab, which has the
   settings of before, saves the network dialog, which does not even show it, and so
   turns it on again: "filling them in silently would disconnect clients that still
   run an older profile". `SavesTheEdits` says what such a save does keep.

Three more consequences are visible in the models. With `AWG_PORT` set, a port that is
saved goes to the client files, while the interface keeps the published one (one
request shows it; `ProfilesFollowDb` is stated without `AWG_PORT`). A client
created during an update may keep the old settings in its file
(`ProfilesFollowDb` is therefore checked one request at a time). A 401 that
comes late ends a session that has begun since (`EndsByExpiry` therefore asks only
that some token has expired).

## Theorems

For all values of the constants that satisfy the named assumptions
(`DataAssumption`, `ServiceAssumption`, `AuthAssumption`, `SessionAssumption`,
`SettingsAssumption`, `TrafficAssumption`: special values are distinct from ordinary ones, bounds are
numbers, what is stored at first is valid), any faults and any number of requests:

| Theorem | States |
|---|---|
| `TypeCorrect` | `Spec => []TypeOK` of `AwgService` |
| `FileCorrect` | `Spec => []FileFollowsDb` |
| `AnsweredClientsServed` | `Spec => AnsweredClientServed` |
| `KeysAreKept` | `Spec => []KeyKept` |
| `PeersReachTheFile` | `Spec => []FileHasPeers`, if `MaxInFlight = 1` |
| `InterfaceFollows` | `Spec => []LiveFollowsDb`, if `MaxInFlight = 1` |
| `ProfilesFollow` | `Spec => []ProfilesFollowDb`, if `MaxInFlight = 1`, no client file fails to be written and `AWG_PORT` is not set (`compose.yaml:56` sets one) |
| `RegistryImplemented` | `Spec => RegistryKept`: the service implements the registry |
| `RegistrySound` | in every implementation of the registry, clients never share a name, a key or an address, and a refused request leaves no client |
| `AuthTypes` | `AuthSpec => []AuthTypeOK` |
| `TokensHaveTheirOwners` | `AuthSpec => []TokensHaveOwners` |
| `PasswordsAreKept` | `AuthSpec => PasswordsKept`: overlapping setups lock nobody out |
| `SessionImplementsAuth` | `Spec => AuthSpec`: the tab with its server implements `AdminAuth` |
| `SessionTokensHaveOwners` | `Spec => []TokensHaveOwners` of `DashboardSession` |
| `SessionTypes` | `Spec => []SessionTypeOK` of `DashboardSession` |
| `SessionsEndByExpiry` | `Spec => EndsByExpiry` |
| `SettingsFollow` | `Spec => []FollowsInv`, the inductive invariant of the dialogs |
| `SavesStoreTheEdits` | `Spec => SavesTheEdits` |
| `SettingsTypes` | `Spec => []SettingsTypeOK` |
| `DefaultsAreValid` | `Spec => DefaultsValid` |
| `GeneratedAreExact`, `GeneratedAreNamed` | `Spec => []GeneratedExact`, `Spec => []GeneratedNamed`, for typed names of at most 65526 characters |
| `TrafficTypes` | `Spec => []TrafficTypeOK` |
| `PeersAreExact` | `Spec => []PeersExact` |
| `GhostsAreBounded` | `Spec => []GhostsBounded` |
| `PacketsAreExact` | for a name of every such length: the measured lengths are those of the packet, its length field counts what follows it, the frames fill the payload |
| `NamesAreCarried` | for the same lengths: whoever puts the two frames in their places has the ClientHello, name and all, from behind its random on |
| `VarintsAreRead` | a reader of QUIC reads back every integer that `quicVarint` writes, wherever it stands in a packet |

- `TypeCorrect`. `TypeOK` is not inductive: `draft` has a valid name and address
  only because validation comes first and the address is chosen before the
  `INSERT`. `Shape` says which kinds of request can be at each step and what they have
  by then; `TypeInv == TypeOK /\ Shape` is inductive (`StepType`, one lemma per action
  that does more than go on).
- `FileCorrect`. `FileInv` adds that a request at its flush owns the mutex
  (`FlushOwned`) and, if it is an update, still has in its hands the settings that
  the database has: nothing can have been written since. All other steps of a
  request are `Quiet`: they touch neither database, file nor mutex.
- `RegistryImplemented`. `ProgressInv` relates each step to whether the request's
  statement was committed: not before it, always after it, unknown after a
  failure or a crash. The steps that leave the database alone are stutters or
  answers (`MoveRefines`), a committed statement is the one change (`WrittenChanges`), a
  crash abandons all open requests.
- `AnsweredClientsServed`. A sync that is about to apply has, of a creation that has
  not been answered, the row or its deletion was committed since (`ServedInv`): it loaded
  after the commit. No hypothesis, for it speaks of the sync of the request itself.
- `KeysAreKept`. What is in a client file, or on its way there, was made from a row
  (`FilesInv`), and the rows with a key are the one that `CreateClient` stored with it
  (`RowsInv`). If of the committed creations and deletions only one has a name (`Sole`),
  nothing else can be in the file of that name, and from the creation's write on it is
  there or in the hands of the regeneration that has truncated it (`FileKept`). The
  statement has no hypothesis about crashes and failures but says what they may do: leave the file
  empty after a regeneration has died (`Cut`), or empty or missing where writes fail. They
  never leave it with another key.
- `PeersReachTheFile`, `InterfaceFollows`, `ProfilesFollow`. With `MaxInFlight = 1` no two
  requests are being served (`Alone`), so what a request has loaded is what is stored
  until it writes. Each invariant says what is still owed at each step: a flush
  (`PeersInv`), a sync (`LiveInv`: `Unsettled`), a client file or its settings
  (`ProfilesInv`: `Owed`, `Stale`). The hypothesis is needed: `live_lags` and `file_lags`
  are behaviours it excludes. The port of `AWG_PORT`, which only the interface has, is
  excluded for `ProfilesFollow` by its own. A failed write of a client
  file is excluded for `ProfilesFollow` only: the code ignores the error, so the file
  stays as it was although the request is answered with success.
- `RegistrySound` is about the abstract specification, so it holds of the rows of
  `AwgService` by the refinement.
- `TokensHaveTheirOwners` and `PasswordsAreKept`. `AuthTypeOK` is inductive as it
  stands. No operation removes a row (`RowsStay`), a token is signed only after its
  row is there, and a setup inserts only where there is none.
- `SessionImplementsAuth`. With `AuthTypeOK`, every step of the tab is a step of
  `AdminAuth` or leaves its variables alone (`StepIsAuth`); a token in a request that
  is `Authorized` is one that was issued. What holds of `AuthSpec` holds of the
  composition, whence `SessionTokensHaveOwners`.
- `SessionTypes` and `SessionsEndByExpiry`. An answer may come long after it was given,
  to a tab that has another token. `CallHolds` says of each request what it can carry
  by then: only forms are sent without a token, and nothing is turned away before some
  token has expired, which never becomes false again (`TokensGrow`).
- `SavesStoreTheEdits`. The form of a dialog, and of every save
  under way, follows the configuration it was opened with in all fields that were
  not edited, and the payload is that form over what the tab had at the submit
  (`FollowsInv`). It says nothing of polls, of what is stored or of the other browser,
  because a save stores its payload whatever they did. A generation that ends after
  an edit is an edit; one whose dialog is gone changes nothing.
- `SettingsTypes` and `DefaultsAreValid`. That a save of the open dialog finds it
  waiting is not inductive as it stands: the answer of one save ends the wait of
  all. At most one save belongs to the dialog (`SavesInv`), for a dialog
  that waits has its button disabled. With it, a dialog always has a complete form, and the
  3.1 defaults make it one that the server takes.
- `PacketsAreExact`, `NamesAreCarried`. A byte string is known by its length and its
  bytes. The packet is followed one concatenation at a time, each part at its offset,
  so no induction over bytes is needed; the lengths are arithmetic, with one case
  per length that a QUIC integer can have. 65526 is where the two
  bytes for the length of the extensions of the ClientHello overflow. DNS
  ends at 253, but the dialog checks no length.
- `TrafficTypes`. Lists and counters only grow longer, and whatever is cached, answered,
  recorded or shown is a reading of ones that there were (`AnswersInv`, `RowsInv`). Between two dumps
  no counter gains more than was received (`CountersInv`). A sample enters the tab only if it
  differs from the last one and is not older in time (`InOrder`). Sums over clients
  count units (`Total` is the number of pairs of a client and one of its bytes), so
  that they grow with their terms by the theorems about cardinality, without induction.
- `PeersAreExact`. A client that is deleted never comes back (`TablesInv`), and the collector is one
  goroutine (`RoundInv`), so once a client is missing from a batch it is missing from all later
  ones, and its rows in the history are contiguous (`BatchesInv`). What a run of ordered
  points of a client draws is at most what it received between their dumps, and
  exactly the difference of their counters without a restart (`RunsHold`). The chart merges the
  timestamps of all clients; its intervals within a period correspond one-to-one to the
  steps between the client's own points (`PeerCarried`), and two sums whose terms correspond
  are equal because their units do (`TotalCarried`).
- `GhostsAreBounded`. A point knows the list and the dump it was made of, whichever came into
  the cache in between. If both are no older than those of the point before, the
  total gains no more than was received between the two dumps (`TwoReads`): a client that
  is only in the later list was not known before. Along the points that a chart
  draws, each run of such points adds up to at most what was received, and each
  other point starts a new run (`Chain`).
- Both argue along the indices of a sequence. This is an induction whose hypothesis is a
  set and not a predicate: a set that has 1 and with each index the next one has all of them,
  since otherwise there were a least one missing (`Least`, `Induct`). So it needs no
  theorem that takes an operator.

Checked by TLC only: liveness and what rests on fairness, which is out of the
prover's reach: `EveryRequestAnswered`, `ExpiredEnds`, `PollsStop`,
`Converges`, `SpinnerEnds`. Every other property of a passing run is stated by a theorem.

## Not modelled

- The first start over an empty database: connection retries, migration, the import
  of a configuration file. It runs once, before any request is served.
- The commands of a sync one by one (link, address, `iptables`): their state is that
  of the kernel, and the code only checks whether they succeed.
- The text of `awg0.conf`, client files and `vpn://` keys, and the ranges of the headers
  H1-H4 in it: parsing and formatting, which the tests of `src/api` cover by tables.
- Which free octet is chosen after the subnet has changed: no property of the
  service depends on it.
- The caches of the location and of the CPU: shown only.
- The clipboard, downloads, QR encoding and the cryptography and random bytes of the
  packet: no state of their own. Frames of the packet other than those of level 4:
  the dialog asks for no other.
- The other reads of the API (downloads, QR codes) change nothing that is
  modelled; routing, logging, packaging and rendering have no state of their own.
