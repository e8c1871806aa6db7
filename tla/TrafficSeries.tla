--------------------------- MODULE TrafficSeries ---------------------------
(***************************************************************************)
(* The traffic charts of the dashboard: the counters of the interface, the *)
(* collector that records them, the status that polls bring, the samples   *)
(* that the tab takes of it (useLiveTrafficHistory.js) and the series that *)
(* it draws (traffic.js, Dashboard.jsx).                                   *)
(*                                                                         *)
(* Only received bytes are counted, tx is treated like rx. A clock second  *)
(* is the unit of the timestamps; what runs within one may come in any     *)
(* order. The lists of clients and the counters are kept with all they     *)
(* ever were, so that a reading can say of which it is: `load` and `dump`, *)
(* fields of a point that the code has not. A dump that failed is 0.       *)
(***************************************************************************)
EXTENDS Integers, FiniteSets, SequencesExt

CONSTANTS
    Peers,
    Polls,       \* requests GET /api/status or GET /api/clients
    HistorySize, \* trafficHistorySize and peerHistorySize: 24 and 288
    MaxPoints,   \* MAX_POINTS: 36
    MetricsInterval, \* from a row to the next round of the collector, at least:
                 \* five minutes but for what the round has lasted
    Windows,     \* lengths of the PERIODS: an hour, 6 and 24 hours
    MaxTime,     \* bounds: seconds,
    MaxMoved,    \* bytes,
    MaxChanges   \* clients created or deleted, restarts and failures

VARIABLES
    clock,
    tables,     \* the peers in the database: all their lists, the last one now
    counters,   \* of the interface, likewise: bytes, and moved, not in the
                \* code, what a peer has ever received
    stats,      \* statsCache, 0 before there is one
    totals,     \* traffic_history
    peerPoints, \* peer_traffic_history, one record for a batch
    call,       \* GetClients: of each poll, and of the collector "totals" and "peers"
    status,     \* what the tab shows of the polls
    live,       \* liveHistory, which ends with lastSampleRef
    changes

vars == <<clock, tables, counters, stats, totals, peerPoints, call, status, live, changes>>
Callers == Polls \cup {"totals", "peers"}

ASSUME TrafficAssumption ==
    /\ IsFiniteSet(Peers)
    /\ {"totals", "peers"} \cap Polls = {}
    /\ HistorySize \in Nat \ {0}
    /\ MaxPoints \in Nat \ {0}
    /\ MetricsInterval \in Nat \ {0}
    /\ Windows \subseteq Nat
    /\ MaxTime \in Nat /\ MaxMoved \in Nat

\* The sum of f over S: its units, counted.
Total(f, S) == Cardinality(UNION {{p} \X (1 .. f[p]) : p \in S})
\* ORDER BY timestamp DESC LIMIT n, reversed; slice(-n).
LastOf(s, n) == SubSeq(s, IF Len(s) > n THEN Len(s) - n + 1 ELSE 1, Len(s))
PositiveDiff(a, b) == IF a > b THEN a - b ELSE 0
Change == changes < MaxChanges /\ changes' = changes + 1

clients == Last(tables)
\* Who was ever a client, up to the list n.
Known(n) == UNION {tables[i] : i \in 1 .. n}
moved == Last(counters).moved
\* Whose counters ever began anew.
restarted == {p \in Peers : Last(counters).bytes[p] # moved[p]}
-----------------------------------------------------------------------------
(* The series.                                                             *)

Timestamps(points) == {points[i].timestamp : i \in DOMAIN points}
Ascending(times) ==
    [i \in 1 .. Cardinality(times) |->
        CHOOSE t \in times : Cardinality({u \in times : u < t}) = i - 1]
\* WHERE, and filter of JavaScript: the entries at the indices I, in their order.
Select(s, I) == [k \in DOMAIN Ascending(I) |-> s[Ascending(I)[k]]]
\* byTimestamp and find: Map.set keeps the last point of a timestamp.
At(points, t) == LET I == {i \in DOMAIN points : points[i].timestamp = t}
                 IN  points[CHOOSE i \in I : \A j \in I : j <= i]

mergeTrafficHistory(serverHistory, liveHistory) ==
    LET both == serverHistory \o liveHistory
        times == Ascending(Timestamps(both))
    IN  [i \in DOMAIN times |-> At(both, times[i])]

\* Mutant: Math.abs in place of Math.max(0, ...).
buildTrafficSeriesAbs(history) ==
    [i \in 1 .. PositiveDiff(Len(history), 1) |->
        [timestamp |-> history[i + 1].timestamp,
         download |-> PositiveDiff(history[i + 1].rx, history[i].rx)
                      + PositiveDiff(history[i].rx, history[i + 1].rx)]]

\* A counter that went down counts as nothing moved.
buildTrafficSeries(history) ==
    [i \in 1 .. PositiveDiff(Len(history), 1) |->
        [timestamp |-> history[i + 1].timestamp,
         download |-> PositiveDiff(history[i + 1].rx, history[i].rx)]]

\* Mutant: the first point of a peer counts from zero.
buildPeersTrafficSeriesFromZero(historyOf) ==
    LET times == Ascending(UNION {Timestamps(historyOf[p]) : p \in DOMAIN historyOf})
    IN  [i \in 1 .. PositiveDiff(Len(times), 1) |->
           [timestamp |-> times[i + 1],
            download |-> [p \in DOMAIN historyOf |->
              LET has == {j \in {i, i + 1} : times[j] \in Timestamps(historyOf[p])}
              IN  IF i + 1 \notin has THEN 0
                  ELSE PositiveDiff(At(historyOf[p], times[i + 1]).rx,
                                    IF i \in has THEN At(historyOf[p], times[i]).rx ELSE 0)]]]

\* The timestamps are those of all peers: one without a point at both ends of
\* an interval has moved nothing in it.
buildPeersTrafficSeries(historyOf) ==
    LET times == Ascending(UNION {Timestamps(historyOf[p]) : p \in DOMAIN historyOf})
    IN  [i \in 1 .. PositiveDiff(Len(times), 1) |->
           [timestamp |-> times[i + 1],
            download |-> [p \in DOMAIN historyOf |->
              IF {times[i], times[i + 1]} \subseteq Timestamps(historyOf[p])
              THEN PositiveDiff(At(historyOf[p], times[i + 1]).rx,
                                At(historyOf[p], times[i]).rx)
              ELSE 0]]]

\* What a status has of the tables; n is the length of the first when it was
\* given, or 0 if it could not be read.
GetTrafficHistory(n) == LastOf(SubSeq(totals, 1, n), HistorySize)

GetTopPeersTrafficHistory ==
    [p \in UNION {DOMAIN peerPoints[i].rx : i \in DOMAIN peerPoints} |->
       LET rows == {i \in DOMAIN peerPoints : p \in DOMAIN peerPoints[i].rx}
           points == LastOf(Select(peerPoints, rows), HistorySize)
       IN  [i \in DOMAIN points |-> [points[i] EXCEPT !.rx = @[p]]]]

\* The chart of the clients does not depend on when its answer was given but
\* for the rows it could have: it is drawn from the whole table.
merged(n) == mergeTrafficHistory(GetTrafficHistory(n), live)

\* Points of a chart that has none: they have no timestamp, which counts as 0,
\* long before any window.
Epoch == -1
generatePlaceholderSeries == [i \in 1 .. 12 |-> [timestamp |-> Epoch, download |-> 0]]

chartSeries(n) ==
    LET series == buildTrafficSeries(merged(n))
    IN  IF series = <<>> THEN generatePlaceholderSeries ELSE series

\* Both charts have a copy of it. Its result, kept by useMemo until the series
\* or the period changes, is the one at that time.
All == -1
Periods == Windows \cup {All}
filterByPeriod(series, period) ==
    IF period = All THEN series
    ELSE Select(series, {i \in DOMAIN series : /\ series[i].timestamp # Epoch
                                               /\ series[i].timestamp >= clock - period})

\* What the traffic overview draws of its series, and so do the bars below it,
\* and what the chart of the clients draws.
TrafficOverview(series, period) == filterByPeriod(series, period)
PeersTrafficChart(series, period) == filterByPeriod(series, period)
-----------------------------------------------------------------------------
(* GetClients and the totals that GetSystemStatus makes of it: the peers of
   the list `load` with the counters of `dump`, zeros if awg failed. An error
   body has no totals; the list 0 stands for it.                           *)
Reading(load, dump) ==
    [p \in IF load = 0 THEN {} ELSE tables[load] |->
        IF dump = 0 THEN 0 ELSE counters[dump].bytes[p]]
TotalRx(load, dump) == Total(Reading(load, dump), DOMAIN Reading(load, dump))

Idle == [pc |-> "idle", load |-> 0, dump |-> 0]
Nothing == [Idle EXCEPT !.pc = "answered"]

Init ==
    /\ clock = 0
    /\ tables \in {<<S>> : S \in SUBSET Peers}
    /\ counters = <<[bytes |-> [p \in Peers |-> 0], moved |-> [p \in Peers |-> 0]]>>
    /\ stats = 0
    /\ totals = <<>>
    /\ peerPoints = <<>>
    /\ call = [c \in Callers |-> Idle]
    /\ status = Nothing
    /\ live = <<>>
    /\ changes = 0

Tick ==
    /\ clock < MaxTime
    /\ clock' = clock + 1
    /\ UNCHANGED <<tables, counters, stats, totals, peerPoints, call, status, live, changes>>

\* A deleted client is on the interface until the sync, and a late sync may
\* bring it back.
Transfer(p) ==
    /\ p \in Known(Len(tables))
    /\ Total(moved, Peers) < MaxMoved
    /\ counters' = Append(counters, [bytes |-> [Last(counters).bytes EXCEPT ![p] = @ + 1],
                                     moved |-> [moved EXCEPT ![p] = @ + 1]])
    /\ UNCHANGED <<clock, tables, stats, totals, peerPoints, call, status, live, changes>>

\* A client is created, with a new key, or deleted.
RosterChanges ==
    /\ Change
    /\ \/ \E p \in Peers \ Known(Len(tables)) : tables' = Append(tables, clients \cup {p})
       \/ \E p \in clients : tables' = Append(tables, clients \ {p})
    /\ UNCHANGED <<clock, counters, stats, totals, peerPoints, call, status, live>>

\* Counters begin at zero: of peers that a sync removed, for good or until the
\* next one, or of all when the interface is set up anew.
CountersRestart ==
    /\ Change
    /\ \E S \in (SUBSET {p \in Peers : Last(counters).bytes[p] > 0}) \ {{}} :
         counters' = Append(counters,
           [Last(counters) EXCEPT !.bytes = [p \in Peers |-> IF p \in S THEN 0 ELSE @[p]]])
    /\ UNCHANGED <<clock, tables, stats, totals, peerPoints, call, status, live>>

\* recordTraffic begins at a tick, in one goroutine: the totals, and then the
\* peers, whether or not the totals were stored.
Since(points) == points # <<>> => Last(points).timestamp + MetricsInterval <= clock
Starts(c) ==
    CASE c = "totals" -> /\ call[c].pc = "idle" /\ call["peers"].pc = "idle"
                         /\ Since(totals) /\ Since(peerPoints)
      [] c = "peers"  -> call[c].pc = "next"
      [] OTHER        -> call[c].pc = "idle"

Becomes(c, new) == call' = [call EXCEPT ![c] = new]

\* LoadServerConfig of GetClients. If it fails a poll has an error body, and
\* the round of the collector is over.
LoadPeers(c) ==
    /\ Starts(c)
    /\ \/ /\ Becomes(c, [Idle EXCEPT !.pc = "loaded", !.load = Len(tables)])
          /\ UNCHANGED changes
       \/ /\ Becomes(c, IF c \in Polls THEN Nothing ELSE Idle)
          /\ Change
    /\ UNCHANGED <<clock, tables, counters, stats, totals, peerPoints, status, live>>

\* fetchPeerRuntimeStats: what is cached, of whatever age, or awg show, which
\* may fail. Several callers may find the cache too old.
CacheHit(c) ==
    /\ call[c].pc = "loaded"
    /\ stats # 0
    /\ Becomes(c, [call[c] EXCEPT !.pc = "read", !.dump = stats])
    /\ UNCHANGED <<clock, tables, counters, stats, totals, peerPoints, status, live, changes>>

Dump(c) ==
    /\ call[c].pc = "loaded"
    /\ \/ /\ Becomes(c, [call[c] EXCEPT !.pc = "dumped", !.dump = Len(counters)])
          /\ UNCHANGED changes
       \/ /\ Becomes(c, [call[c] EXCEPT !.pc = "read"])
          /\ Change
    /\ UNCHANGED <<clock, tables, counters, stats, totals, peerPoints, status, live>>

\* The dump was made without statsMu: the cache may have a younger one.
CacheStore(c) ==
    /\ call[c].pc = "dumped"
    /\ stats' = call[c].dump
    /\ Becomes(c, [call[c] EXCEPT !.pc = "read"])
    /\ UNCHANGED <<clock, tables, counters, totals, peerPoints, status, live, changes>>

\* The rest of GetSystemStatus: an error body if its second LoadServerConfig
\* fails.
GetSystemStatus(c) ==
    /\ call[c].pc = "read"
    /\ \/ Becomes(c, [call[c] EXCEPT !.pc = "answered"]) /\ UNCHANGED changes
       \/ Becomes(c, Nothing) /\ Change
    /\ UNCHANGED <<clock, tables, counters, stats, totals, peerPoints, status, live>>

Stamped(c, rx) ==
    [timestamp |-> clock, load |-> call[c].load, dump |-> call[c].dump, rx |-> rx]

\* The first half of recordTraffic: a failed insert is logged, a failed status
\* ends the round.
RecordTraffic ==
    /\ call["totals"].pc = "read"
    /\ \/ /\ totals' = Append(totals,
                 Stamped("totals", TotalRx(call["totals"].load, call["totals"].dump)))
          /\ call' = [call EXCEPT !["totals"] = Idle, !["peers"].pc = "next"]
          /\ UNCHANGED changes
       \/ /\ \E next \in {"next", "idle"} :
               call' = [call EXCEPT !["totals"] = Idle, !["peers"].pc = next]
          /\ UNCHANGED totals
          /\ Change
    /\ UNCHANGED <<clock, tables, counters, stats, peerPoints, status, live>>

\* The second half: the batch is one transaction and has one timestamp.
RecordPeerTraffic ==
    /\ call["peers"].pc = "read"
    /\ \/ /\ peerPoints' = Append(peerPoints,
                 Stamped("peers", Reading(call["peers"].load, call["peers"].dump)))
          /\ UNCHANGED changes
       \/ UNCHANGED peerPoints /\ Change
    /\ Becomes("peers", Idle)
    /\ UNCHANGED <<clock, tables, counters, stats, totals, status, live>>

Sample(s) ==
    [timestamp |-> clock, load |-> s.load, dump |-> s.dump, rx |-> TotalRx(s.load, s.dump)]

\* Mutant: every answer is a sample.
SampledAlways(s, samples) == LastOf(Append(samples, Sample(s)), MaxPoints)

\* The effect of useLiveTrafficHistory: a sample at the time of the browser,
\* unless the totals are those of the last sample.
Sampled(s, samples) ==
    IF samples # <<>> /\ Last(samples).rx = Sample(s).rx
    THEN samples
    ELSE LastOf(Append(samples, Sample(s)), MaxPoints)

\* fetchData shows an answer, early or late, before or after younger ones, or
\* it is lost or was one to GET /api/clients.
Show(c) ==
    /\ call[c].pc = "answered"
    /\ \/ status' = call[c] /\ live' = Sampled(call[c], live)
       \/ UNCHANGED <<status, live>>
    /\ Becomes(c, [Idle EXCEPT !.pc = "over"])
    /\ UNCHANGED <<clock, tables, counters, stats, totals, peerPoints, changes>>

\* The Dashboard leaves the screen and comes back, with the tab of the
\* clients or with a login: its samples begin with the status of before.
Remount ==
    /\ Change
    /\ live # <<>>
    /\ live' = Sampled(status, <<>>)
    /\ UNCHANGED <<clock, tables, counters, stats, totals, peerPoints, call, status>>

Next ==
    \/ Tick \/ RosterChanges \/ CountersRestart
    \/ \E p \in Peers : Transfer(p)
    \/ \E c \in Callers : LoadPeers(c) \/ CacheHit(c) \/ Dump(c) \/ CacheStore(c)
    \/ RecordTraffic \/ RecordPeerTraffic
    \/ \E c \in Polls : GetSystemStatus(c) \/ Show(c)
    \/ Remount

Spec == Init /\ [][Next]_vars
-----------------------------------------------------------------------------
(* The types; the samples are in the order of their time and no two
   successive ones have the same total.                                    *)
IsPoint(x) == x.timestamp \in 0 .. MaxTime /\ x.rx \in 0 .. MaxMoved

TrafficTypeOK ==
    /\ clock \in 0 .. MaxTime
    /\ \A n \in DOMAIN tables : tables[n] \subseteq Peers
    /\ \A n \in DOMAIN counters : \A f \in {counters[n].bytes, counters[n].moved} :
         f \in [Peers -> 0 .. MaxMoved]
    /\ stats \in 0 .. Len(counters)
    /\ \A i \in DOMAIN totals : IsPoint(totals[i])
    /\ \A i \in DOMAIN peerPoints : peerPoints[i].rx \in [DOMAIN peerPoints[i].rx -> 0 .. MaxMoved]
    /\ Len(live) <= MaxPoints
    /\ \A i \in DOMAIN live : IsPoint(live[i])
    /\ \A i \in 2 .. Len(live) :
         /\ live[i - 1].timestamp <= live[i].timestamp
         /\ live[i - 1].rx # live[i].rx

(* The chart of the interface, with what its first point begins from, never
   shows more than was received, in any of the periods, though clients are
   created and deleted and counters begin anew; a point that has older counters
   or an older list than the one before it, because an answer is late, a dump
   failed or the cache took an older one, lets it show as much again at most. *)
Sum(seq) == Total(seq, DOMAIN seq)
Back(points) ==
    {i \in 2 .. Len(points) : \/ points[i].dump < points[i - 1].dump
                              \/ points[i].load < points[i - 1].load}

GhostsBounded ==
    \A n \in 0 .. Len(totals) :
    LET points == merged(n)
        series == chartSeries(n)
        bound == Total(moved, Peers) * (1 + Cardinality(Back(points)))
        Shown(drawn) == Sum([i \in DOMAIN drawn |-> drawn[i].download])
    IN  points # <<>> =>
          \A period \in Periods :
            points[1].rx + Shown(TrafficOverview(series, period)) <= bound

(* The chart of the clients shows of each what was received between its last
   point before the period, or its first, and its last one, though the batches
   and the limits of the history leave the clients with different points; less
   only after a restart. No dump may have failed, and none may be older than
   the one of the batch before.                                            *)
PeersExact ==
    LET historyOf == GetTopPeersTrafficHistory
        series == buildPeersTrafficSeries(historyOf)
        Shown(drawn, p) == Sum([i \in DOMAIN drawn |-> drawn[i].download[p]])
        From(points, period) ==
          LET before == Select(points, {i \in DOMAIN points :
                          period # All /\ points[i].timestamp < clock - period})
          IN  IF before = <<>> THEN points[1] ELSE Last(before)
        Ordered(points) == \A i \in DOMAIN points : points[i].dump # 0 /\ i \notin Back(points)
    IN  \A p \in DOMAIN historyOf, period \in Periods :
          LET points == historyOf[p]
              shown == Shown(PeersTrafficChart(series, period), p)
          IN  Ordered(points)
                => /\ shown <= moved[p]
                   /\ p \notin restarted =>
                        shown = Last(points).rx - From(points, period).rx
=============================================================================
