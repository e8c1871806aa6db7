------------------------ MODULE TrafficSeriesProofs ------------------------
(***************************************************************************)
(* The types of the counters, the history and the samples, and what every  *)
(* answer and every stored point is a reading of, for any number of        *)
(* clients, polls and points, any overlap and any failures.                *)
(***************************************************************************)
EXTENDS TrafficSeries, FiniteSetTheorems, SequenceTheorems, TLAPS

-----------------------------------------------------------------------------
(* Sums.                                                                    *)

\* One counter has as many units as it counts.
LEMMA Column ==
  ASSUME NEW p, NEW k \in Nat
  PROVE  IsFiniteSet({p} \X (1 .. k)) /\ Cardinality({p} \X (1 .. k)) = k
<1>1. IsFiniteSet({p}) /\ Cardinality({p}) = 1
  BY FS_Singleton, Zenon
<1>2. IsFiniteSet(1 .. k) /\ Cardinality(1 .. k) = k
  <2>1. 1 \in Int /\ k \in Int
    OBVIOUS
  <2>2. IsFiniteSet(1 .. k) /\ Cardinality(1 .. k) = IF 1 > k THEN 0 ELSE k - 1 + 1
    BY <2>1, FS_Interval, Zenon
  <2> QED
    BY <2>2
<1> DEFINE A == {p}
           B == 1 .. k
<1> HIDE DEF A, B
<1>3. IsFiniteSet(A \X B) /\ Cardinality(A \X B) = Cardinality(A) * Cardinality(B)
  BY <1>1, <1>2, FS_Product, Zenon DEF A, B
<1>4. Cardinality(A) * Cardinality(B) = k
  BY <1>1, <1>2 DEF A, B
<1> QED
  BY <1>3, <1>4, Zenon DEF A, B

\* What Total counts.
Units(f, S) == UNION {{p} \X (1 .. f[p]) : p \in S}

LEMMA UnitsFinite ==
  ASSUME NEW S, IsFiniteSet(S), NEW f, \A p \in S : f[p] \in Nat
  PROVE  IsFiniteSet(Units(f, S)) /\ Total(f, S) \in Nat
<1> DEFINE sets == {{p} \X (1 .. f[p]) : p \in S}
           g == [p \in S |-> {p} \X (1 .. f[p])]
<1>1. IsFiniteSet(sets)
  <2>1. g \in Surjection(S, sets)
    BY DEF Surjection
  <2> QED
    BY <2>1, FS_Surjection
<1>2. \A T \in sets : IsFiniteSet(T)
  <2> SUFFICES ASSUME NEW p \in S PROVE IsFiniteSet({p} \X (1 .. f[p]))
    OBVIOUS
  <2>1. f[p] \in Nat
    OBVIOUS
  <2> QED
    BY <2>1, Column
<1> HIDE DEF sets
<1>3. IsFiniteSet(UNION sets)
  BY <1>1, <1>2, FS_UNION
<1> QED
  BY <1>3, FS_CardinalityType DEF Units, Total, sets

\* A part has no more, and what is less sums up to less.
LEMMA TotalLess ==
  ASSUME NEW S, IsFiniteSet(S), NEW T \in SUBSET S,
         NEW f, NEW g, \A p \in S : f[p] \in Nat /\ g[p] \in Nat /\ f[p] <= g[p]
  PROVE  Total(f, T) \in Nat /\ Total(g, S) \in Nat /\ Total(f, T) <= Total(g, S)
<1>1. IsFiniteSet(T)
  BY FS_Subset
<1>2. IsFiniteSet(Units(g, S)) /\ Total(g, S) \in Nat /\ Total(f, T) \in Nat
  BY <1>1, UnitsFinite
<1>3. Units(f, T) \subseteq Units(g, S)
  BY DEF Units
<1>4. Cardinality(Units(f, T)) <= Cardinality(Units(g, S))
  BY <1>2, <1>3, FS_Subset
<1> QED
  BY <1>2, <1>4 DEF Total, Units

LEMMA OneOfTotal ==
  ASSUME NEW S, IsFiniteSet(S), NEW f, \A p \in S : f[p] \in Nat, NEW p \in S
  PROVE  f[p] <= Total(f, S)
<1>1. IsFiniteSet(Units(f, S))
  BY UnitsFinite
<1>2. {p} \X (1 .. f[p]) \subseteq Units(f, S)
  BY DEF Units
<1>3. Cardinality({p} \X (1 .. f[p])) <= Cardinality(Units(f, S))
  BY <1>1, <1>2, FS_Subset
<1>4. Cardinality({p} \X (1 .. f[p])) = f[p]
  BY Column
<1> QED
  BY <1>3, <1>4 DEF Total, Units

LEMMA TotalPlusOne ==
  ASSUME NEW S, IsFiniteSet(S), NEW f \in [S -> Nat], NEW p \in S
  PROVE  Total([f EXCEPT ![p] = @ + 1], S) = Total(f, S) + 1
<1> DEFINE g == [f EXCEPT ![p] = @ + 1]
           unit == <<p, f[p] + 1>>
<1>1. IsFiniteSet(Units(f, S))
  BY UnitsFinite
<1>2. unit \notin Units(f, S)
  BY DEF Units
<1>3. Units(g, S) = Units(f, S) \cup {unit}
  <2>1. ASSUME NEW u \in Units(g, S) PROVE u \in Units(f, S) \cup {unit}
    BY DEF Units
  <2>2. ASSUME NEW u \in Units(f, S) \cup {unit} PROVE u \in Units(g, S)
    BY DEF Units
  <2> QED
    BY <2>1, <2>2
<1>4. Cardinality(Units(f, S) \cup {unit}) = Cardinality(Units(f, S)) + 1
  BY <1>1, <1>2, FS_AddElement
<1> QED
  BY <1>3, <1>4 DEF Total, Units

LEMMA TotalOfZero == Total([p \in Peers |-> 0], Peers) = 0
<1>1. Units([p \in Peers |-> 0], Peers) = {}
  BY DEF Units
<1> QED
  BY <1>1, FS_EmptySet DEF Total, Units
-----------------------------------------------------------------------------
(* The invariant.                                                           *)

Counters == [bytes : [Peers -> Nat], moved : [Peers -> Nat]]
Call == [pc : {"idle", "loaded", "dumped", "read", "answered", "over", "next"},
         load : Nat, dump : Nat]
Point == [timestamp : 0 .. MaxTime, load : Nat, dump : Nat, rx : 0 .. MaxMoved]
Batch == [timestamp : 0 .. MaxTime, load : Nat, dump : Nat,
          rx : UNION {[S -> 0 .. MaxMoved] : S \in SUBSET Peers}]

TypesInv ==
    /\ clock \in 0 .. MaxTime
    /\ tables \in Seq(SUBSET Peers) /\ tables # <<>>
    /\ counters \in Seq(Counters) /\ counters # <<>>
    /\ totals \in Seq(Point)
    /\ peerPoints \in Seq(Batch)
    /\ call \in [Callers -> Call] /\ status \in Call

\* No counter has more than was ever received, and none gains more than was
\* received meanwhile.
CountersInv ==
    /\ \A n \in 1 .. Len(counters) : \A p \in Peers :
         counters[n].bytes[p] <= counters[n].moved[p]
    /\ \A m, n \in 1 .. Len(counters) : m <= n =>
         \A p \in Peers :
           /\ counters[m].moved[p] <= counters[n].moved[p]
           /\ counters[n].bytes[p] + counters[m].moved[p]
                <= counters[n].moved[p] + counters[m].bytes[p]
    /\ Total(moved, Peers) <= MaxMoved

\* A deleted client never comes back.
TablesInv ==
    \A l, m, n \in 1 .. Len(tables) :
      l <= m /\ m <= n => tables[l] \cap tables[n] \subseteq tables[m]

\* What is cached, answered, stored or shown is a reading of lists and dumps
\* that there were.
Exists(a) == a.load \in 0 .. Len(tables) /\ a.dump \in 0 .. Len(counters)
AnswersInv ==
    /\ stats \in 0 .. Len(counters)
    /\ \A c \in Callers : Exists(call[c])
    /\ Exists(status)
Told(points) ==
    \A i \in DOMAIN points :
      Exists(points[i]) /\ points[i].rx = TotalRx(points[i].load, points[i].dump)
Batched(rows) ==
    /\ \A i \in DOMAIN rows : /\ Exists(rows[i]) /\ rows[i].load # 0
                             /\ rows[i].rx = Reading(rows[i].load, rows[i].dump)
    /\ \A i, j \in DOMAIN rows : i < j => /\ rows[i].timestamp < rows[j].timestamp
                                         /\ rows[i].load <= rows[j].load
RowsInv == Told(totals) /\ Told(live) /\ Batched(peerPoints)

\* The collector is in one half of a round, since the batch of the one before,
\* and its list is not older than that of any batch.
Active(c) == call[c].pc \notin {"idle", "next"}
RoundInv ==
    /\ call["peers"].pc # "idle" => call["totals"].pc = "idle"
    /\ (call["peers"].pc # "idle" \/ call["totals"].pc # "idle") => Since(peerPoints)
    /\ Active("peers") =>
         \A i \in DOMAIN peerPoints : peerPoints[i].load <= call["peers"].load
    /\ \A c \in {"totals", "peers"} : Active(c) => call[c].load # 0

\* The samples are in the order of their time, and each differs from the one
\* before it.
InOrder(samples) ==
    /\ samples \in Seq(Point)
    /\ Len(samples) <= MaxPoints
    /\ \A i \in 1 .. Len(samples) : samples[i].timestamp <= clock
    /\ \A i \in 2 .. Len(samples) : /\ samples[i - 1].timestamp <= samples[i].timestamp
                                    /\ samples[i - 1].rx # samples[i].rx

TrafficInv ==
    TypesInv /\ CountersInv /\ TablesInv /\ AnswersInv /\ RowsInv /\ RoundInv /\ InOrder(live)
-----------------------------------------------------------------------------
(* The counters and the lists, which only grow longer.                      *)

LEMMA LastEntries ==
  ASSUME TypesInv
  PROVE  /\ Len(tables) \in Nat \ {0} /\ Len(counters) \in Nat \ {0}
         /\ clients = tables[Len(tables)] /\ clients \in SUBSET Peers
         /\ Last(counters) = counters[Len(counters)] /\ Last(counters) \in Counters
         /\ moved = Last(counters).moved
         /\ moved \in [Peers -> Nat]
         /\ \A n \in 1 .. Len(tables) : tables[n] \in SUBSET Peers
         /\ \A n \in 1 .. Len(counters) :
              counters[n].bytes \in [Peers -> Nat] /\ counters[n].moved \in [Peers -> Nat]
<1>1. /\ tables \in Seq(SUBSET Peers) /\ tables # <<>>
      /\ counters \in Seq(Counters) /\ counters # <<>>
  BY DEF TypesInv
<1>2. /\ Len(tables) \in Nat \ {0} /\ Len(counters) \in Nat \ {0}
      /\ \A n \in 1 .. Len(tables) : tables[n] \in SUBSET Peers
      /\ \A n \in 1 .. Len(counters) : counters[n] \in Counters
  BY <1>1
<1>3. Len(tables) \in 1 .. Len(tables) /\ Len(counters) \in 1 .. Len(counters)
  BY <1>2
<1>4. /\ clients = tables[Len(tables)] /\ Last(counters) = counters[Len(counters)]
      /\ moved = Last(counters).moved
  BY DEF clients, moved, Last
<1> QED
  BY <1>2, <1>3, <1>4 DEF Counters

\* What is appended to the counters, and the history stays a history.
LEMMA CountersLonger ==
  ASSUME TypesInv, CountersInv, NEW x \in Counters, counters' = Append(counters, x),
         \A p \in Peers : /\ x.bytes[p] <= x.moved[p]
                          /\ moved[p] <= x.moved[p]
                          /\ x.bytes[p] + moved[p] <= x.moved[p] + Last(counters).bytes[p],
         Total(x.moved, Peers) <= MaxMoved
  PROVE  CountersInv' /\ counters' \in Seq(Counters) /\ counters' # <<>>
<1> DEFINE N == Len(counters)
           X(n) == IF n = N + 1 THEN x ELSE counters[n]
<1>1. /\ counters \in Seq(Counters) /\ N \in Nat \ {0}
      /\ Last(counters) = counters[N] /\ moved = counters[N].moved
  BY LastEntries DEF TypesInv
<1>2. /\ counters' \in Seq(Counters) /\ counters' # <<>> /\ Len(counters') = N + 1
      /\ \A n \in 1 .. N + 1 : counters'[n] = X(n)
  BY <1>1
<1>3. moved' = x.moved
  BY <1>1, <1>2 DEF moved, Last
<1>4. \A n \in 1 .. N : /\ counters[n].bytes \in [Peers -> Nat] /\ counters[n].moved \in [Peers -> Nat]
                        /\ X(n) = counters[n]
  BY <1>1, LastEntries
<1>5. x.bytes \in [Peers -> Nat] /\ x.moved \in [Peers -> Nat]
  BY DEF Counters
<1>6. ASSUME NEW n \in 1 .. N + 1, NEW p \in Peers PROVE X(n).bytes[p] <= X(n).moved[p]
  <2>1. CASE n = N + 1
    BY <2>1
  <2>2. CASE n # N + 1
    <3>1. n \in 1 .. N
      BY <1>1, <2>2
    <3> QED
      BY <1>4, <3>1 DEF CountersInv
  <2> QED
    BY <2>1, <2>2
<1>7. ASSUME NEW m \in 1 .. N + 1, NEW n \in 1 .. N + 1, m <= n, NEW p \in Peers
      PROVE  /\ X(m).moved[p] <= X(n).moved[p]
             /\ X(n).bytes[p] + X(m).moved[p] <= X(n).moved[p] + X(m).bytes[p]
  <2>1. CASE m = N + 1
    <3>1. n = N + 1 /\ X(m) = x /\ X(n) = x
      BY <1>1, <1>7, <2>1
    <3>2. x.bytes[p] \in Nat /\ x.moved[p] \in Nat
      BY <1>5
    <3> QED
      BY <3>1, <3>2
  <2>2. CASE m # N + 1 /\ n # N + 1
    <3>1. m \in 1 .. N /\ n \in 1 .. N
      BY <1>1, <2>2
    <3> QED
      BY <1>4, <1>7, <3>1 DEF CountersInv
  <2>3. CASE m # N + 1 /\ n = N + 1
    <3>1. m \in 1 .. N /\ N \in 1 .. N /\ m <= N /\ X(n) = x /\ X(m) = counters[m]
      BY <1>1, <2>3
    <3>2. /\ counters[m].moved[p] <= moved[p]
          /\ Last(counters).bytes[p] + counters[m].moved[p] <= moved[p] + counters[m].bytes[p]
      BY <1>1, <3>1 DEF CountersInv
    <3>3. /\ counters[m].moved[p] \in Nat /\ counters[m].bytes[p] \in Nat
          /\ moved[p] \in Nat /\ Last(counters).bytes[p] \in Nat
          /\ x.bytes[p] \in Nat /\ x.moved[p] \in Nat
      BY <1>1, <1>4, <1>5, <3>1
    <3>4. /\ moved[p] <= x.moved[p]
          /\ x.bytes[p] + moved[p] <= x.moved[p] + Last(counters).bytes[p]
      OBVIOUS
    <3>5. /\ counters[m].moved[p] <= x.moved[p]
          /\ x.bytes[p] + counters[m].moved[p] <= x.moved[p] + counters[m].bytes[p]
      <4> HIDE DEF X
      <4> QED
        BY <3>2, <3>3, <3>4, SMTT(30)
    <3> QED
      BY <3>1, <3>5, Zenon
  <2> QED
    BY <2>1, <2>2, <2>3
<1> HIDE DEF X
<1> QED
  BY <1>2, <1>3, <1>6, <1>7 DEF CountersInv

LEMMA TransferStep ==
  ASSUME TypesInv, CountersInv, NEW p \in Peers, Transfer(p)
  PROVE  CountersInv' /\ counters' \in Seq(Counters) /\ counters' # <<>>
<1> DEFINE last == Last(counters)
           x == [bytes |-> [last.bytes EXCEPT ![p] = @ + 1],
                 moved |-> [moved EXCEPT ![p] = @ + 1]]
<1>1. counters' = Append(counters, x) /\ Total(moved, Peers) < MaxMoved
  BY DEF Transfer
<1>2. /\ last.bytes \in [Peers -> Nat] /\ moved \in [Peers -> Nat]
      /\ \A q \in Peers : last.bytes[q] <= moved[q]
  <2>1. Len(counters) \in 1 .. Len(counters)
    BY LastEntries
  <2> QED
    BY <2>1, LastEntries DEF CountersInv, Counters
<1>3. IsFiniteSet(Peers) /\ MaxMoved \in Nat
  BY TrafficAssumption
<1>4. Total(x.moved, Peers) <= MaxMoved
  <2>1. Total(moved, Peers) \in Nat
    BY <1>2, <1>3, UnitsFinite
  <2>2. Total(x.moved, Peers) = Total(moved, Peers) + 1
    BY <1>2, <1>3, TotalPlusOne
  <2> QED
    BY <1>1, <1>3, <2>1, <2>2
<1> HIDE DEF last
<1>5. x \in Counters
  BY <1>2 DEF Counters
<1>6. \A q \in Peers : /\ x.bytes[q] <= x.moved[q]
                       /\ moved[q] <= x.moved[q]
                       /\ x.bytes[q] + moved[q] <= x.moved[q] + last.bytes[q]
  BY <1>2
<1> HIDE DEF x
<1> QED
  BY <1>1, <1>4, <1>5, <1>6, CountersLonger DEF last

LEMMA RestartStep ==
  ASSUME TypesInv, CountersInv, CountersRestart
  PROVE  CountersInv' /\ counters' \in Seq(Counters) /\ counters' # <<>>
<1>1. PICK S : counters' = Append(counters,
        [Last(counters) EXCEPT !.bytes = [p \in Peers |-> IF p \in S THEN 0 ELSE @[p]]])
  BY DEF CountersRestart
<1> DEFINE last == Last(counters)
           x == [last EXCEPT !.bytes = [p \in Peers |-> IF p \in S THEN 0 ELSE @[p]]]
<1>2. /\ last \in Counters /\ moved = last.moved
      /\ \A q \in Peers : last.bytes[q] <= moved[q]
  <2>1. Len(counters) \in 1 .. Len(counters)
    BY LastEntries
  <2> QED
    BY <2>1, LastEntries DEF CountersInv
<1>3. Total(moved, Peers) <= MaxMoved
  BY DEF CountersInv
<1> HIDE DEF last
<1>4. x \in Counters /\ x.moved = moved /\ \A p \in Peers : x.bytes[p] \in {0, last.bytes[p]}
  BY <1>2 DEF Counters
<1>5. \A q \in Peers : /\ x.bytes[q] <= x.moved[q]
                       /\ moved[q] <= x.moved[q]
                       /\ x.bytes[q] + moved[q] <= x.moved[q] + last.bytes[q]
  BY <1>2, <1>4 DEF Counters
<1> HIDE DEF x
<1> QED
  BY <1>1, <1>3, <1>4, <1>5, CountersLonger DEF last, x

LEMMA RosterStep ==
  ASSUME TypesInv, TablesInv, RosterChanges
  PROVE  TablesInv' /\ tables' \in Seq(SUBSET Peers) /\ tables' # <<>>
<1> DEFINE N == Len(tables)
<1>1. PICK S : /\ tables' = Append(tables, S) /\ S \subseteq Peers
               /\ \A p \in S : p \in clients \/ p \notin Known(Len(tables))
  <2>1. clients \in SUBSET Peers
    BY LastEntries
  <2> HIDE DEF clients
  <2> QED
    BY <2>1 DEF RosterChanges
<1>2. tables \in Seq(SUBSET Peers) /\ N \in Nat \ {0} /\ clients = tables[N]
  BY LastEntries DEF TypesInv
<1> HIDE DEF clients
<1>3. /\ tables' \in Seq(SUBSET Peers) /\ tables' # <<>> /\ Len(tables') = N + 1
      /\ \A n \in 1 .. N : tables'[n] = tables[n]
      /\ tables'[N + 1] = S
  BY <1>1, <1>2
<1>4. ASSUME NEW l \in 1 .. N + 1, NEW m \in 1 .. N + 1, NEW n \in 1 .. N + 1, l <= m, m <= n,
             NEW p \in tables'[l] \cap tables'[n]
      PROVE  p \in tables'[m]
  <2>1. CASE n # N + 1
    <3>1. l \in 1 .. N /\ m \in 1 .. N /\ n \in 1 .. N
      BY <1>2, <1>4, <2>1
    <3> QED
      BY <1>3, <1>4, <3>1 DEF TablesInv
  <2>2. CASE m = N + 1
    <3>1. n = m
      BY <1>2, <1>4, <2>2
    <3> QED
      BY <1>4, <3>1
  <2>3. CASE n = N + 1 /\ m # N + 1
    <3>1. l \in 1 .. N /\ m \in 1 .. N /\ N \in 1 .. N /\ m <= N
      BY <1>2, <1>4, <2>3
    <3>2. p \in S /\ p \in tables[l]
      BY <1>3, <1>4, <2>3, <3>1
    <3>3. p \in Known(N)
      BY <3>1, <3>2 DEF Known
    <3>4. p \in tables[N]
      BY <1>1, <1>2, <3>2, <3>3
    <3> QED
      BY <1>3, <1>4, <3>1, <3>2, <3>4 DEF TablesInv
  <2> QED
    BY <2>1, <2>2, <2>3
<1> QED
  BY <1>3, <1>4 DEF TablesInv

\* All that there was stays, and in its place.
Longer ==
    /\ Len(tables) \in Nat /\ Len(tables') \in Nat /\ Len(tables) <= Len(tables')
    /\ \A n \in 1 .. Len(tables) : tables'[n] = tables[n]
    /\ Len(counters) \in Nat /\ Len(counters') \in Nat /\ Len(counters) <= Len(counters')
    /\ \A n \in 1 .. Len(counters) : counters'[n] = counters[n]

LEMMA HistoryStep ==
  ASSUME TypesInv, CountersInv, TablesInv, [Next]_vars
  PROVE  /\ CountersInv' /\ TablesInv' /\ Longer
         /\ tables' \in Seq(SUBSET Peers) /\ tables' # <<>>
         /\ counters' \in Seq(Counters) /\ counters' # <<>>
<1>1. /\ tables \in Seq(SUBSET Peers) /\ tables # <<>>
      /\ counters \in Seq(Counters) /\ counters # <<>>
  BY DEF TypesInv
<1>2. \/ UNCHANGED tables /\ UNCHANGED counters
      \/ RosterChanges /\ UNCHANGED counters
      \/ (CountersRestart \/ \E p \in Peers : Transfer(p)) /\ UNCHANGED tables
  BY DEF Next, vars, Tick, RosterChanges, CountersRestart, Transfer, LoadPeers, CacheHit, Dump,
         CacheStore, RecordTraffic, RecordPeerTraffic, GetSystemStatus, Show, Remount
<1>3. CASE UNCHANGED tables /\ UNCHANGED counters
  BY <1>1, <1>3 DEF CountersInv, TablesInv, Longer, moved
<1>4. CASE RosterChanges /\ UNCHANGED counters
  <2>1. PICK S : tables' = Append(tables, S)
    BY <1>4 DEF RosterChanges
  <2> QED
    BY <1>1, <1>4, <2>1, RosterStep DEF CountersInv, Longer, moved
<1>5. CASE (CountersRestart \/ \E p \in Peers : Transfer(p)) /\ UNCHANGED tables
  <2>1. PICK x : counters' = Append(counters, x)
    BY <1>5 DEF CountersRestart, Transfer
  <2>2. CountersInv' /\ counters' \in Seq(Counters) /\ counters' # <<>>
    BY <1>5, RestartStep, TransferStep
  <2> QED
    BY <1>1, <1>5, <2>1, <2>2 DEF TablesInv, Longer
<1> QED
  BY <1>2, <1>3, <1>4, <1>5

\* What was read remains what it was.
LEMMA ReadingKept ==
  ASSUME Longer, NEW a, Exists(a)
  PROVE  /\ Exists(a)'
         /\ Reading(a.load, a.dump)' = Reading(a.load, a.dump)
         /\ TotalRx(a.load, a.dump)' = TotalRx(a.load, a.dump)
<1>1. a.load \in 0 .. Len(tables) /\ a.dump \in 0 .. Len(counters)
  BY DEF Exists
<1>2. a.load # 0 => tables'[a.load] = tables[a.load]
  BY <1>1 DEF Longer
<1>3. a.dump # 0 => counters'[a.dump] = counters[a.dump]
  BY <1>1 DEF Longer
<1>4. Reading(a.load, a.dump)' = Reading(a.load, a.dump)
  BY <1>2, <1>3 DEF Reading
<1>5. Exists(a)'
  BY <1>1 DEF Exists, Longer
<1> QED
  BY <1>4, <1>5 DEF TotalRx

\* The sums of counters that have not more than was received.
LEMMA CountersFit ==
  ASSUME TypesInv, CountersInv, NEW n \in 1 .. Len(counters)
  PROVE  /\ \A p \in Peers : counters[n].bytes[p] \in Nat /\ counters[n].bytes[p] \in 0 .. MaxMoved
         /\ counters[n].bytes \in [Peers -> 0 .. MaxMoved]
         /\ counters[n].moved \in [Peers -> 0 .. MaxMoved]
         /\ \A S \in SUBSET Peers : Total(counters[n].bytes, S) \in 0 .. MaxMoved
<1> DEFINE N == Len(counters)
<1>1. IsFiniteSet(Peers) /\ MaxMoved \in Nat
  BY TrafficAssumption
<1>2. /\ N \in 1 .. N /\ n <= N /\ moved = counters[N].moved /\ moved \in [Peers -> Nat]
      /\ counters[n].bytes \in [Peers -> Nat] /\ counters[n].moved \in [Peers -> Nat]
  BY LastEntries
<1>3. \A p \in Peers : counters[n].bytes[p] <= counters[n].moved[p] /\ counters[n].moved[p] <= moved[p]
  BY <1>2 DEF CountersInv
<1> HIDE DEF moved
<1>4. /\ Total(moved, Peers) <= MaxMoved /\ Total(moved, Peers) \in Nat
      /\ \A p \in Peers : moved[p] \in Nat /\ moved[p] <= Total(moved, Peers)
  <2>1. Total(moved, Peers) <= MaxMoved
    BY DEF CountersInv
  <2> QED
    BY <1>1, <1>2, <2>1, UnitsFinite, OneOfTotal
<1>5. \A p \in Peers : counters[n].bytes[p] \in 0 .. MaxMoved /\ counters[n].moved[p] \in 0 .. MaxMoved
  BY <1>1, <1>2, <1>3, <1>4
<1>6. ASSUME NEW S \in SUBSET Peers PROVE Total(counters[n].bytes, S) \in 0 .. MaxMoved
  <2>1. \A p \in Peers : /\ counters[n].bytes[p] \in Nat /\ moved[p] \in Nat
                         /\ counters[n].bytes[p] <= moved[p]
    BY <1>2, <1>3
  <2>2. /\ Total(counters[n].bytes, S) \in Nat
        /\ Total(counters[n].bytes, S) <= Total(moved, Peers)
    BY <1>1, <2>1, TotalLess
  <2> QED
    BY <1>1, <1>4, <2>2
<1> QED
  BY <1>2, <1>5, <1>6

LEMMA ReadingFits ==
  ASSUME TypesInv, CountersInv, NEW a, Exists(a)
  PROVE  /\ Reading(a.load, a.dump) \in UNION {[S -> 0 .. MaxMoved] : S \in SUBSET Peers}
         /\ TotalRx(a.load, a.dump) \in 0 .. MaxMoved
<1> DEFINE S == IF a.load = 0 THEN {} ELSE tables[a.load]
           f == Reading(a.load, a.dump)
<1>1. /\ a.load \in 0 .. Len(tables) /\ a.dump \in 0 .. Len(counters)
      /\ Len(tables) \in Nat /\ Len(counters) \in Nat /\ MaxMoved \in Nat
  BY LastEntries, TrafficAssumption DEF Exists
<1>2. S \in SUBSET Peers
  <2>1. CASE a.load = 0
    BY <2>1
  <2>2. CASE a.load # 0
    <3>1. a.load \in 1 .. Len(tables)
      BY <1>1, <2>2
    <3> QED
      BY <2>2, <3>1, LastEntries
  <2> QED
    BY <2>1, <2>2
<1>3. f = [p \in S |-> IF a.dump = 0 THEN 0 ELSE counters[a.dump].bytes[p]]
  BY DEF Reading
<1> HIDE DEF S, f
<1>4. CASE a.dump = 0
  <2>1. f = [p \in S |-> 0]
    BY <1>3, <1>4
  <2>2. f \in [S -> 0 .. MaxMoved]
    BY <1>1, <2>1
  <2>3. Units(f, DOMAIN f) = {}
    BY <2>1 DEF Units
  <2>4. Total(f, DOMAIN f) = 0
    BY <2>3, FS_EmptySet DEF Total, Units
  <2> QED
    BY <1>1, <1>2, <2>2, <2>4 DEF f, TotalRx
<1>5. CASE a.dump # 0
  <2>1. a.dump \in 1 .. Len(counters) /\ f = [p \in S |-> counters[a.dump].bytes[p]]
    BY <1>1, <1>3, <1>5
  <2>2. f \in [S -> 0 .. MaxMoved]
    BY <1>2, <2>1, CountersFit
  <2>3. Units(f, DOMAIN f) = Units(counters[a.dump].bytes, S)
    BY <2>1 DEF Units
  <2>4. Total(counters[a.dump].bytes, S) \in 0 .. MaxMoved
    BY <1>2, <2>1, CountersFit
  <2>5. Total(f, DOMAIN f) = Total(counters[a.dump].bytes, S)
    BY <2>3 DEF Total, Units
  <2> QED
    BY <1>2, <2>2, <2>4, <2>5 DEF f, TotalRx
<1> QED
  BY <1>4, <1>5
-----------------------------------------------------------------------------
(* The samples.                                                             *)

\* LastOf has up to n entries from the end.
LEMMA LastOfEnds ==
  ASSUME NEW S, NEW s \in Seq(S), NEW n \in Nat
  PROVE  /\ LastOf(s, n) \in Seq(S)
         /\ Len(LastOf(s, n)) <= n
         /\ \E k \in 0 .. Len(s) : /\ Len(LastOf(s, n)) = Len(s) - k
                                   /\ \A i \in 1 .. Len(s) - k : LastOf(s, n)[i] = s[k + i]
<1>1. CASE Len(s) > n
  <2> DEFINE k == Len(s) - n
  <2>1. LastOf(s, n) = SubSeq(s, k + 1, Len(s)) /\ k \in 1 .. Len(s)
    BY <1>1 DEF LastOf
  <2>2. Len(s) - k <= n /\ k \in 0 .. Len(s) /\ Len(s) \in Nat
    BY <1>1, <2>1
  <2> HIDE DEF k
  <2>3. /\ Len(s) - (k + 1) + 1 = Len(s) - k /\ k + 1 \in Int /\ Len(s) \in Int
        /\ k + 1 <= Len(s) \/ Len(s) - k = 0
        /\ \A i \in k + 1 .. Len(s) : s[i] \in S
    BY <2>2
  <2>4. /\ SubSeq(s, k + 1, Len(s)) \in Seq(S)
        /\ Len(SubSeq(s, k + 1, Len(s))) = Len(s) - k
        /\ \A i \in 1 .. Len(s) - k : SubSeq(s, k + 1, Len(s))[i] = s[k + 1 + i - 1]
    BY <2>3, SubSeqProperties
  <2>5. \A i \in 1 .. Len(s) - k : k + 1 + i - 1 = k + i
    BY <2>2
  <2> QED
    BY <2>1, <2>2, <2>4, <2>5, Zenon
<1>2. CASE ~(Len(s) > n)
  <2>1. LastOf(s, n) = SubSeq(s, 1, Len(s))
    BY <1>2 DEF LastOf
  <2>2. SubSeq(s, 1, Len(s)) = s
    OBVIOUS
  <2>3. /\ Len(s) <= n /\ 0 \in 0 .. Len(s) /\ Len(s) = Len(s) - 0
        /\ \A i \in 1 .. Len(s) - 0 : s[i] = s[0 + i]
    BY <1>2
  <2> QED
    BY <2>1, <2>2, <2>3
<1> QED
  BY <1>1, <1>2

\* One more sample, which differs from the last.
LEMMA OneMore ==
  ASSUME NEW samples, InOrder(samples), clock \in Nat,
         NEW x \in Point, x.timestamp = clock, samples # <<>> => Last(samples).rx # x.rx
  PROVE  InOrder(LastOf(Append(samples, x), MaxPoints))
<1> DEFINE longer == Append(samples, x)
           ends == LastOf(longer, MaxPoints)
           m == Len(samples)
<1>1. samples \in Seq(Point) /\ m \in Nat /\ MaxPoints \in Nat
  BY TrafficAssumption DEF InOrder
<1>2. /\ longer \in Seq(Point) /\ Len(longer) = m + 1 /\ longer[m + 1] = x
      /\ \A i \in 1 .. m : longer[i] = samples[i]
  BY <1>1
<1>3. \A i \in 1 .. m + 1 : longer[i].timestamp <= clock
  BY <1>1, <1>2 DEF InOrder
<1>4. ASSUME NEW i \in 2 .. m + 1
      PROVE  longer[i - 1].timestamp <= longer[i].timestamp /\ longer[i - 1].rx # longer[i].rx
  <2>1. CASE i = m + 1
    <3>1. m # 0 /\ longer[i - 1] = samples[m] /\ longer[i] = x
      BY <1>1, <1>2, <2>1
    <3>2. Last(samples) = samples[m] /\ samples # <<>>
      BY <1>1, <3>1 DEF Last
    <3>3. samples[m].timestamp <= clock
      BY <1>1, <3>1 DEF InOrder
    <3> QED
      BY <3>1, <3>2, <3>3
  <2>2. CASE i # m + 1
    <3>1. i \in 2 .. m /\ i \in 1 .. m /\ i - 1 \in 1 .. m
      BY <1>1, <2>2
    <3>2. longer[i - 1] = samples[i - 1] /\ longer[i] = samples[i]
      BY <1>2, <3>1
    <3> QED
      BY <3>1, <3>2 DEF InOrder
  <2> QED
    BY <2>1, <2>2
<1> HIDE DEF longer
<1>5. /\ ends \in Seq(Point) /\ Len(ends) <= MaxPoints
      /\ \E k \in 0 .. Len(longer) : /\ Len(ends) = Len(longer) - k
                                     /\ \A i \in 1 .. Len(longer) - k : ends[i] = longer[k + i]
  BY <1>1, <1>2, LastOfEnds
<1> HIDE DEF ends
<1>6. PICK k \in 0 .. m + 1 : /\ Len(ends) = m + 1 - k
                              /\ \A i \in 1 .. m + 1 - k : ends[i] = longer[k + i]
  <2>1. Len(longer) = m + 1
    BY <1>2
  <2> QED
    BY <1>5, <2>1
<1>7. \A i \in 1 .. Len(ends) : ends[i].timestamp <= clock
  <2> SUFFICES ASSUME NEW i \in 1 .. Len(ends) PROVE ends[i].timestamp <= clock
    OBVIOUS
  <2>1. ends[i] = longer[k + i] /\ k + i \in 1 .. m + 1
    BY <1>1, <1>6
  <2> QED
    BY <1>3, <2>1
<1>8. ASSUME NEW i \in 2 .. Len(ends)
      PROVE  ends[i - 1].timestamp <= ends[i].timestamp /\ ends[i - 1].rx # ends[i].rx
  <2>1. /\ ends[i] = longer[k + i] /\ k + i \in 2 .. m + 1
        /\ ends[i - 1] = longer[k + (i - 1)] /\ k + (i - 1) = (k + i) - 1
    BY <1>1, <1>6
  <2> QED
    BY <1>4, <2>1
<1> QED
  BY <1>5, <1>7, <1>8 DEF InOrder, ends, longer

LEMMA SampleIsPoint ==
  ASSUME TypesInv, CountersInv, NEW s, Exists(s)
  PROVE  Sample(s) \in Point /\ Sample(s).timestamp = clock
<1>1. TotalRx(s.load, s.dump) \in 0 .. MaxMoved
  BY ReadingFits
<1>2. s.load \in Nat /\ s.dump \in Nat /\ clock \in 0 .. MaxTime
  BY LastEntries DEF Exists, TypesInv
<1> QED
  BY <1>1, <1>2 DEF Sample, Point

\* An answer is sampled, or is as the last sample.
LEMMA SampledInOrder ==
  ASSUME TypesInv, CountersInv, NEW samples, InOrder(samples), NEW s, Exists(s)
  PROVE  InOrder(Sampled(s, samples))
<1> DEFINE x == Sample(s)
<1>1. clock \in Nat /\ x \in Point /\ x.timestamp = clock
  BY SampleIsPoint, TrafficAssumption DEF TypesInv
<1> HIDE DEF x
<1>2. CASE samples # <<>> /\ Last(samples).rx = x.rx
  BY <1>2 DEF Sampled, x
<1>3. CASE ~(samples # <<>> /\ Last(samples).rx = x.rx)
  <2>1. Sampled(s, samples) = LastOf(Append(samples, x), MaxPoints)
    BY <1>3 DEF Sampled, x
  <2>2. InOrder(LastOf(Append(samples, x), MaxPoints))
    BY <1>1, <1>3, OneMore
  <2> QED
    BY <2>1, <2>2
<1> QED
  BY <1>2, <1>3

LEMMA SampledTold ==
  ASSUME TypesInv, CountersInv, NEW samples, InOrder(samples), Told(samples), NEW s, Exists(s)
  PROVE  Told(Sampled(s, samples))
<1> DEFINE x == Sample(s)
           longer == Append(samples, x)
           ends == LastOf(longer, MaxPoints)
<1>1. x \in Point /\ samples \in Seq(Point) /\ MaxPoints \in Nat
  BY SampleIsPoint, TrafficAssumption DEF InOrder
<1>2. Exists(x) /\ x.rx = TotalRx(x.load, x.dump)
  BY DEF Sample, Exists
<1> HIDE DEF x
<1>3. /\ longer \in Seq(Point) /\ DOMAIN longer = 1 .. Len(longer) /\ Len(longer) \in Nat
      /\ \A i \in DOMAIN longer :
           longer[i] = x \/ \E j \in DOMAIN samples : longer[i] = samples[j]
  <2>1. /\ Len(longer) = Len(samples) + 1 /\ Len(samples) \in Nat /\ longer[Len(samples) + 1] = x
        /\ \A i \in 1 .. Len(samples) : i \in DOMAIN samples /\ longer[i] = samples[i]
        /\ longer \in Seq(Point)
    BY <1>1
  <2> QED
    BY <2>1
<1>4. CASE Sampled(s, samples) = samples
  BY <1>4
<1>5. CASE Sampled(s, samples) = ends
  <2> HIDE DEF longer
  <2>1. /\ ends \in Seq(Point)
        /\ \E k \in 0 .. Len(longer) : /\ Len(ends) = Len(longer) - k
                                       /\ \A i \in 1 .. Len(longer) - k : ends[i] = longer[k + i]
    BY <1>1, <1>3, LastOfEnds
  <2>2. PICK k \in 0 .. Len(longer) : /\ Len(ends) = Len(longer) - k
                                      /\ \A i \in 1 .. Len(longer) - k : ends[i] = longer[k + i]
    BY <2>1
  <2> HIDE DEF ends
  <2>3. \A i \in DOMAIN ends : ends[i] = x \/ \E j \in DOMAIN samples : ends[i] = samples[j]
    <3> SUFFICES ASSUME NEW i \in DOMAIN ends
                 PROVE  ends[i] = x \/ \E j \in DOMAIN samples : ends[i] = samples[j]
      OBVIOUS
    <3>1. i \in 1 .. Len(longer) - k /\ k + i \in DOMAIN longer
      BY <1>3, <2>1, <2>2
    <3>2. ends[i] = longer[k + i]
      BY <2>2, <3>1
    <3> QED
      BY <1>3, <3>1, <3>2
  <2> QED
    BY <1>2, <1>5, <2>3 DEF Told
<1>6. Sampled(s, samples) = samples \/ Sampled(s, samples) = ends
  BY DEF Sampled, x, ends, longer
<1> QED
  BY <1>4, <1>5, <1>6

LEMMA SamplesStep ==
  ASSUME TypesInv, CountersInv, AnswersInv, InOrder(live), Told(live), [Next]_vars
  PROVE  InOrder(live)' /\ \E samples : live' = samples /\ Told(samples)
<1>0. clock \in Nat
  BY TrafficAssumption DEF TypesInv
<1>1. ASSUME NEW s, Exists(s), NEW samples, InOrder(samples), Told(samples),
             live' = Sampled(s, samples), clock' = clock
      PROVE  InOrder(live)' /\ \E points : live' = points /\ Told(points)
  <2>1. InOrder(Sampled(s, samples)) /\ Told(Sampled(s, samples))
    BY <1>1, SampledInOrder, SampledTold
  <2> QED
    BY <1>1, <2>1 DEF InOrder
<1>2. CASE Remount
  <2>1. InOrder(<<>>) /\ Told(<<>>)
    BY TrafficAssumption DEF InOrder, Told
  <2>2. live' = Sampled(status, <<>>) /\ clock' = clock /\ Exists(status)
    BY <1>2 DEF Remount, AnswersInv
  <2> QED
    BY <1>1, <2>1, <2>2
<1>3. CASE \E c \in Polls : Show(c) /\ live' = Sampled(call[c], live)
  <2>1. PICK c \in Polls : Show(c) /\ live' = Sampled(call[c], live)
    BY <1>3
  <2>2. Exists(call[c]) /\ clock' = clock
    BY <2>1 DEF Show, AnswersInv, Callers
  <2> QED
    BY <1>1, <2>1, <2>2
<1>4. CASE UNCHANGED live /\ (clock' = clock \/ clock' = clock + 1)
  <2>1. \A i \in 1 .. Len(live) : live[i].timestamp <= clock'
    <3> SUFFICES ASSUME NEW i \in 1 .. Len(live) PROVE live[i].timestamp <= clock'
      OBVIOUS
    <3>1. live[i] \in Point /\ live[i].timestamp <= clock
      BY DEF InOrder
    <3>2. live[i].timestamp \in Nat
      BY <3>1, TrafficAssumption DEF Point
    <3> QED
      BY <1>0, <1>4, <3>1, <3>2
  <2>2. InOrder(live)'
    BY <1>4, <2>1 DEF InOrder
  <2> QED
    BY <1>4, <2>2
<1>5. \/ Remount
      \/ \E c \in Polls : Show(c) /\ live' = Sampled(call[c], live)
      \/ UNCHANGED live /\ (clock' = clock \/ clock' = clock + 1)
  BY DEF Next, vars, Tick, RosterChanges, CountersRestart, Transfer, LoadPeers, CacheHit, Dump,
         CacheStore, RecordTraffic, RecordPeerTraffic, GetSystemStatus, Show
<1> QED
  BY <1>2, <1>3, <1>4, <1>5

-----------------------------------------------------------------------------
(* The callers.                                                             *)

LEMMA CallersAre ==
  /\ "totals" \in Callers /\ "peers" \in Callers /\ "totals" # "peers"
  /\ \A c \in Polls : c \in Callers /\ c # "totals" /\ c # "peers"
BY TrafficAssumption DEF Callers

\* What a step of one caller makes of it.
CallStep(c, new) ==
    /\ call' = [call EXCEPT ![c] = new]
    /\ new \in Call
    /\ Exists(new)
    /\ UNCHANGED <<clock, tables, counters, totals, peerPoints>>

LEMMA CallSteps ==
  ASSUME TypesInv, AnswersInv, NEW c \in Callers,
         \/ LoadPeers(c) \/ CacheHit(c) \/ Dump(c) \/ CacheStore(c)
         \/ c \in Polls /\ (GetSystemStatus(c) \/ Show(c))
  PROVE  /\ \E new : CallStep(c, new)
         /\ stats' \in 0 .. Len(counters)
         /\ status' \in Call /\ Exists(status')
<1>1. /\ Len(tables) \in Nat \ {0} /\ Len(counters) \in Nat \ {0}
      /\ stats \in 0 .. Len(counters)
      /\ call[c] \in Call /\ Exists(call[c]) /\ status \in Call /\ Exists(status)
  BY LastEntries DEF TypesInv, AnswersInv
<1>2. Idle \in Call /\ Exists(Idle) /\ Nothing \in Call /\ Exists(Nothing)
  BY <1>1 DEF Idle, Nothing, Call, Exists
<1> DEFINE T == Len(tables)
           C == Len(counters)
<1>9. /\ T \in Nat /\ T \in 0 .. T /\ C \in Nat /\ C \in 0 .. C /\ 0 \in 0 .. C
      /\ stats \in Nat /\ stats \in 0 .. C
      /\ call[c] \in Call /\ call[c].load \in 0 .. T /\ call[c].dump \in 0 .. C
  BY <1>1 DEF Exists
<1>3. CASE LoadPeers(c)
  <2>1. PICK new \in {Idle, Nothing, [Idle EXCEPT !.pc = "loaded", !.load = Len(tables)]} :
          Becomes(c, new) /\ UNCHANGED <<clock, tables, counters, totals, peerPoints, stats, status>>
    BY <1>3 DEF LoadPeers
  <2>2. new \in Call /\ Exists(new)
    <3> DEFINE loaded == [Idle EXCEPT !.pc = "loaded", !.load = T]
    <3> HIDE DEF T, C
    <3>1. loaded \in Call /\ loaded.load = T /\ loaded.dump = 0
      BY <1>9 DEF Idle, Call
    <3> HIDE DEF loaded
    <3> QED
      BY <1>2, <1>9, <2>1, <3>1 DEF loaded, T, C, Exists
  <2> QED
    BY <1>1, <2>1, <2>2 DEF CallStep, Becomes
<1>4. CASE CacheHit(c)
  <2> DEFINE new == [call[c] EXCEPT !.pc = "read", !.dump = stats]
  <2>1. Becomes(c, new) /\ UNCHANGED <<clock, tables, counters, totals, peerPoints, stats, status>>
    BY <1>4 DEF CacheHit
  <2>2. new \in Call /\ Exists(new)
    <3> HIDE DEF T, C
    <3>1. new \in Call /\ new.load = call[c].load /\ new.dump = stats
      BY <1>9 DEF Call
    <3> HIDE DEF new
    <3> QED
      BY <1>9, <3>1 DEF T, C, Exists
  <2> HIDE DEF new
  <2> QED
    BY <1>1, <2>1, <2>2 DEF CallStep, Becomes
<1>5. CASE Dump(c)
  <2>1. PICK new \in {[call[c] EXCEPT !.pc = "dumped", !.dump = Len(counters)],
                      [call[c] EXCEPT !.pc = "read"]} :
          Becomes(c, new) /\ UNCHANGED <<clock, tables, counters, totals, peerPoints, stats, status>>
    BY <1>5 DEF Dump
  <2>2. new \in Call /\ Exists(new)
    <3> DEFINE dumped == [call[c] EXCEPT !.pc = "dumped", !.dump = C]
               failed == [call[c] EXCEPT !.pc = "read"]
    <3> HIDE DEF T, C
    <3>1. /\ dumped \in Call /\ dumped.load = call[c].load /\ dumped.dump = C
          /\ failed \in Call /\ failed.load = call[c].load /\ failed.dump = call[c].dump
      BY <1>9 DEF Call
    <3> HIDE DEF dumped, failed
    <3> QED
      BY <1>9, <2>1, <3>1 DEF dumped, failed, T, C, Exists
  <2> QED
    BY <1>1, <2>1, <2>2 DEF CallStep, Becomes
<1>6. CASE CacheStore(c)
  <2> DEFINE new == [call[c] EXCEPT !.pc = "read"]
  <2>1. /\ Becomes(c, new) /\ UNCHANGED <<clock, tables, counters, totals, peerPoints, status>>
        /\ stats' = call[c].dump
    BY <1>6 DEF CacheStore
  <2>2. new \in Call /\ Exists(new) /\ call[c].dump \in 0 .. Len(counters)
    BY <1>1 DEF Call, Exists
  <2> HIDE DEF new
  <2> QED
    BY <1>1, <2>1, <2>2 DEF CallStep, Becomes
<1>7. CASE c \in Polls /\ GetSystemStatus(c)
  <2>1. PICK new \in {[call[c] EXCEPT !.pc = "answered"], Nothing} :
          Becomes(c, new) /\ UNCHANGED <<clock, tables, counters, totals, peerPoints, stats, status>>
    BY <1>7 DEF GetSystemStatus
  <2>2. new \in Call /\ Exists(new)
    BY <1>1, <1>2 DEF Call, Exists
  <2> QED
    BY <1>1, <2>1, <2>2 DEF CallStep, Becomes
<1>8. CASE c \in Polls /\ Show(c)
  <2> DEFINE new == [Idle EXCEPT !.pc = "over"]
  <2>1. /\ Becomes(c, new) /\ UNCHANGED <<clock, tables, counters, totals, peerPoints, stats>>
        /\ status' \in {status, call[c]}
    BY <1>8 DEF Show
  <2>2. new \in Call /\ Exists(new)
    BY <1>1 DEF Idle, Call, Exists
  <2> HIDE DEF new
  <2> QED
    BY <1>1, <2>1, <2>2 DEF CallStep, Becomes
<1> QED
  BY <1>3, <1>4, <1>5, <1>6, <1>7, <1>8

-----------------------------------------------------------------------------
(* The rows.                                                                *)

LEMMA ToldKept ==
  ASSUME Longer, NEW points, Told(points)
  PROVE  Told(points)'
<1> SUFFICES ASSUME NEW i \in DOMAIN points
             PROVE  /\ Exists(points[i])'
                    /\ points[i].rx = TotalRx(points[i].load, points[i].dump)'
  BY DEF Told
<1>1. Exists(points[i]) /\ points[i].rx = TotalRx(points[i].load, points[i].dump)
  BY DEF Told
<1> QED
  BY <1>1, ReadingKept

LEMMA BatchedKept ==
  ASSUME Longer, NEW rows, Batched(rows)
  PROVE  Batched(rows)'
<1>1. ASSUME NEW i \in DOMAIN rows
      PROVE  /\ Exists(rows[i])' /\ rows[i].load # 0
             /\ rows[i].rx = Reading(rows[i].load, rows[i].dump)'
  <2>1. /\ Exists(rows[i]) /\ rows[i].load # 0
        /\ rows[i].rx = Reading(rows[i].load, rows[i].dump)
    BY DEF Batched
  <2> QED
    BY <2>1, ReadingKept
<1> QED
  BY <1>1 DEF Batched

LEMMA BatchFields ==
  ASSUME NEW rows \in Seq(Batch)
  PROVE  /\ Len(rows) \in Nat /\ DOMAIN rows = 1 .. Len(rows)
         /\ \A i \in DOMAIN rows : /\ rows[i] \in Batch
                                  /\ rows[i].timestamp \in 0 .. MaxTime
                                  /\ rows[i].timestamp \in Nat /\ rows[i].timestamp <= MaxTime
                                  /\ rows[i].load \in Nat /\ rows[i].dump \in Nat
<1>1. MaxTime \in Nat
  BY TrafficAssumption
<1>2. ASSUME NEW x \in Batch
      PROVE  x.timestamp \in 0 .. MaxTime /\ x.load \in Nat /\ x.dump \in Nat
  <2> DEFINE U == UNION {[S -> 0 .. MaxMoved] : S \in SUBSET Peers}
             T == 0 .. MaxTime
  <2>1. x \in [timestamp : T, load : Nat, dump : Nat, rx : U]
    BY DEF Batch
  <2> HIDE DEF U, T
  <2>2. x.timestamp \in T /\ x.load \in Nat /\ x.dump \in Nat
    BY <2>1
  <2> QED
    BY <2>2 DEF T
<1>3. Len(rows) \in Nat /\ DOMAIN rows = 1 .. Len(rows) /\ \A i \in DOMAIN rows : rows[i] \in Batch
  BY LenProperties, ElementOfSeq, Zenon
<1> QED
  BY <1>1, <1>2, <1>3

LEMMA RecordTrafficStep ==
  ASSUME TrafficInv, RecordTraffic
  PROVE  /\ totals' \in Seq(Point)
         /\ \E rows : totals' = rows /\ Told(rows)
         /\ call' \in [Callers -> Call] /\ \A c \in Callers : Exists(call'[c])
<1> DEFINE a == call["totals"]
           x == Stamped("totals", TotalRx(a.load, a.dump))
<1>1. /\ totals \in Seq(Point) /\ Told(totals) /\ call \in [Callers -> Call]
      /\ \A c \in Callers : Exists(call[c])
      /\ a \in Call /\ Exists(a) /\ call["peers"] \in Call /\ Exists(call["peers"])
  BY CallersAre DEF TrafficInv, TypesInv, RowsInv, AnswersInv
<1>2. x \in Point /\ Exists(x) /\ x.rx = TotalRx(x.load, x.dump)
  <2>1. TotalRx(a.load, a.dump) \in 0 .. MaxMoved /\ clock \in 0 .. MaxTime
    BY <1>1, ReadingFits DEF TrafficInv, TypesInv
  <2> QED
    BY <1>1, <2>1 DEF Stamped, Point, Exists, Call
<1>3. PICK next \in {"next", "idle"} :
        /\ call' = [call EXCEPT !["totals"] = Idle, !["peers"].pc = next]
        /\ totals' = totals \/ totals' = Append(totals, x)
  BY DEF RecordTraffic
<1> HIDE DEF x
<1>4. totals' \in Seq(Point) /\ \E rows : totals' = rows /\ Told(rows)
  <2>1. CASE totals' = totals
    BY <1>1, <2>1
  <2>2. CASE totals' = Append(totals, x)
    <3>1. Append(totals, x) \in Seq(Point)
      BY <1>1, <1>2
    <3>2. \A i \in DOMAIN Append(totals, x) :
            \/ Append(totals, x)[i] = x
            \/ i \in DOMAIN totals /\ Append(totals, x)[i] = totals[i]
      BY <1>1
    <3>3. Told(Append(totals, x))
      BY <1>1, <1>2, <3>2 DEF Told
    <3> QED
      BY <2>2, <3>1, <3>3
  <2> QED
    BY <1>3, <2>1, <2>2
<1> DEFINE b == [call["peers"] EXCEPT !.pc = next]
<1>5. Idle \in Call /\ Exists(Idle) /\ b \in Call /\ Exists(b)
  <2>1. Idle \in Call /\ b \in Call /\ b.load = call["peers"].load /\ b.dump = call["peers"].dump
    BY <1>1 DEF Idle, Call
  <2>2. Exists(Idle)
    BY LastEntries DEF Idle, Exists, TrafficInv
  <2> QED
    BY <1>1, <2>1, <2>2 DEF Exists
<1>6. /\ DOMAIN call' = Callers
      /\ \A c \in Callers : call'[c] \in {Idle, b, call[c]}
  BY <1>1, <1>3, CallersAre
<1> HIDE DEF b
<1>7. \A c \in Callers : call'[c] \in Call /\ Exists(call'[c])
  BY <1>1, <1>5, <1>6
<1>8. call' = [c \in Callers |-> call'[c]]
  BY <1>1, <1>3
<1> QED
  BY <1>4, <1>7, <1>8

LEMMA RecordPeersStep ==
  ASSUME TrafficInv, RecordPeerTraffic
  PROVE  /\ peerPoints' \in Seq(Batch)
         /\ \E rows : peerPoints' = rows /\ Batched(rows)
         /\ call' = [call EXCEPT !["peers"] = Idle]
<1> DEFINE a == call["peers"]
           x == Stamped("peers", Reading(a.load, a.dump))
<1>1. /\ peerPoints \in Seq(Batch) /\ Batched(peerPoints)
      /\ a \in Call /\ Exists(a) /\ a.pc = "read"
  BY CallersAre DEF TrafficInv, TypesInv, RowsInv, AnswersInv, RecordPeerTraffic
<1>2. /\ a.load # 0 /\ Since(peerPoints)
      /\ \A i \in DOMAIN peerPoints : peerPoints[i].load <= a.load
  BY <1>1 DEF TrafficInv, RoundInv, Active
<1>3. x \in Batch /\ Exists(x) /\ x.load = a.load /\ x.timestamp = clock /\ x.load # 0
      /\ x.rx = Reading(x.load, x.dump)
  <2>1. Reading(a.load, a.dump) \in UNION {[S -> 0 .. MaxMoved] : S \in SUBSET Peers}
    BY <1>1, ReadingFits DEF TrafficInv
  <2>2. clock \in 0 .. MaxTime
    BY DEF TrafficInv, TypesInv
  <2> QED
    BY <1>1, <1>2, <2>1, <2>2 DEF Stamped, Batch, Exists, Call
<1>4. \A i \in DOMAIN peerPoints : peerPoints[i].timestamp < clock
  <2> SUFFICES ASSUME NEW i \in DOMAIN peerPoints PROVE peerPoints[i].timestamp < clock
    OBVIOUS
  <2> DEFINE N == Len(peerPoints)
  <2>1. N \in Nat \ {0} /\ i \in 1 .. N /\ Last(peerPoints) = peerPoints[N] /\ peerPoints # <<>>
    BY <1>1 DEF Last
  <2>2. peerPoints[N].timestamp + MetricsInterval <= clock
    BY <1>2, <2>1 DEF Since
  <2>3. peerPoints[i].timestamp <= peerPoints[N].timestamp
    <3>1. N \in DOMAIN peerPoints /\ peerPoints[N].timestamp \in Nat
      BY <1>1, <2>1, BatchFields
    <3>2. i = N \/ i < N
      BY <2>1
    <3>3. i < N => peerPoints[i].timestamp < peerPoints[N].timestamp
      BY <1>1, <3>1 DEF Batched
    <3>4. peerPoints[i].timestamp \in Nat
      BY <1>1, BatchFields
    <3> HIDE DEF N
    <3> QED
      BY <3>1, <3>2, <3>3, <3>4
  <2>4. peerPoints[N].timestamp \in Nat /\ peerPoints[i].timestamp \in Nat /\ clock \in Nat
    <3>1. N \in DOMAIN peerPoints /\ clock \in 0 .. MaxTime
      BY <1>1, <2>1, BatchFields DEF TrafficInv, TypesInv
    <3> QED
      BY <1>1, <3>1, BatchFields, TrafficAssumption
  <2> HIDE DEF N
  <2> QED
    BY <2>2, <2>3, <2>4, TrafficAssumption
<1>5. Becomes("peers", Idle) /\ (peerPoints' = peerPoints \/ peerPoints' = Append(peerPoints, x))
  BY DEF RecordPeerTraffic
<1>6. CASE peerPoints' = Append(peerPoints, x)
  <2> DEFINE rows == Append(peerPoints, x)
             N == Len(peerPoints)
  <2> HIDE DEF x
  <2>1. /\ rows \in Seq(Batch) /\ N \in Nat /\ DOMAIN rows = 1 .. N + 1 /\ rows[N + 1] = x
        /\ \A i \in 1 .. N : i \in DOMAIN peerPoints /\ rows[i] = peerPoints[i]
    BY <1>1, <1>3
  <2> HIDE DEF rows, N
  <2>2. \A i \in DOMAIN rows : /\ Exists(rows[i]) /\ rows[i].load # 0
                               /\ rows[i].rx = Reading(rows[i].load, rows[i].dump)
    <3> SUFFICES ASSUME NEW i \in DOMAIN rows
                 PROVE  /\ Exists(rows[i]) /\ rows[i].load # 0
                        /\ rows[i].rx = Reading(rows[i].load, rows[i].dump)
      OBVIOUS
    <3>1. i \in 1 .. N \/ i = N + 1
      BY <2>1
    <3> QED
      BY <1>1, <1>3, <2>1, <3>1 DEF Batched
  <2>3. \A i, j \in DOMAIN rows : i < j => /\ rows[i].timestamp < rows[j].timestamp
                                           /\ rows[i].load <= rows[j].load
    <3> SUFFICES ASSUME NEW i \in DOMAIN rows, NEW j \in DOMAIN rows, i < j
                 PROVE  rows[i].timestamp < rows[j].timestamp /\ rows[i].load <= rows[j].load
      OBVIOUS
    <3>1. i \in 1 .. N
      BY <2>1
    <3>2. j \in 1 .. N \/ j = N + 1
      BY <2>1
    <3> QED
      BY <1>1, <1>2, <1>3, <1>4, <2>1, <3>1, <3>2 DEF Batched
  <2>4. Batched(rows)
    BY <2>2, <2>3 DEF Batched
  <2> QED
    BY <1>5, <1>6, <2>1, <2>4 DEF rows, Becomes
<1> QED
  BY <1>1, <1>5, <1>6 DEF Becomes

LEMMA TypesStep ==
  ASSUME TrafficInv, [Next]_vars
  PROVE  TypesInv' /\ AnswersInv'
<1>1. /\ TypesInv /\ CountersInv /\ TablesInv /\ AnswersInv /\ Longer
      /\ tables' \in Seq(SUBSET Peers) /\ tables' # <<>>
      /\ counters' \in Seq(Counters) /\ counters' # <<>>
  BY HistoryStep DEF TrafficInv
<1>2. /\ clock \in 0 .. MaxTime /\ MaxTime \in Nat
      /\ totals \in Seq(Point) /\ peerPoints \in Seq(Batch)
      /\ call \in [Callers -> Call] /\ \A c \in Callers : Exists(call[c])
      /\ stats \in 0 .. Len(counters)
      /\ status \in Call /\ Exists(status)
  BY <1>1, TrafficAssumption DEF TypesInv, AnswersInv
<1>3. stats \in 0 .. Len(counters')
  BY <1>1, <1>2 DEF Longer
<1>4. ASSUME call' \in [Callers -> Call], \A c \in Callers : Exists(call'[c]),
             status' \in Call, Exists(status'), stats' \in 0 .. Len(counters),
             totals' \in Seq(Point), peerPoints' \in Seq(Batch), clock' \in 0 .. MaxTime
      PROVE  TypesInv' /\ AnswersInv'
  <2>1. \A a : Exists(a) => a.load \in 0 .. Len(tables') /\ a.dump \in 0 .. Len(counters')
    BY <1>1 DEF Exists, Longer
  <2>2. stats' \in 0 .. Len(counters')
    BY <1>1, <1>4 DEF Longer
  <2>3. AnswersInv'
    BY <1>4, <2>1, <2>2 DEF AnswersInv, Exists
  <2> QED
    BY <1>1, <1>4, <2>3 DEF TypesInv
<1>5. CASE RecordTraffic
  <2>1. /\ totals' \in Seq(Point) /\ call' \in [Callers -> Call]
        /\ \A c \in Callers : Exists(call'[c])
    BY <1>5, RecordTrafficStep
  <2>2. UNCHANGED <<clock, stats, status, peerPoints>>
    BY <1>5 DEF RecordTraffic
  <2> QED
    BY <1>2, <1>4, <2>1, <2>2
<1>6. CASE RecordPeerTraffic
  <2>1. peerPoints' \in Seq(Batch) /\ call' = [call EXCEPT !["peers"] = Idle]
    BY <1>6, RecordPeersStep
  <2>2. UNCHANGED <<clock, stats, status, totals>>
    BY <1>6 DEF RecordPeerTraffic
  <2>3. Idle \in Call /\ Exists(Idle)
    BY <1>1, LastEntries DEF Idle, Call, Exists
  <2>4. call' \in [Callers -> Call] /\ \A c \in Callers : Exists(call'[c])
    BY <1>2, <2>1, <2>3
  <2> QED
    BY <1>2, <1>4, <2>1, <2>2, <2>4
<1>7. ASSUME NEW c \in Callers,
             \/ LoadPeers(c) \/ CacheHit(c) \/ Dump(c) \/ CacheStore(c)
             \/ c \in Polls /\ (GetSystemStatus(c) \/ Show(c))
      PROVE  TypesInv' /\ AnswersInv'
  <2>1. PICK new : CallStep(c, new)
    BY <1>1, <1>7, CallSteps
  <2>2. stats' \in 0 .. Len(counters) /\ status' \in Call /\ Exists(status')
    BY <1>1, <1>7, CallSteps
  <2>3. call' \in [Callers -> Call] /\ \A d \in Callers : Exists(call'[d])
    BY <1>2, <2>1 DEF CallStep
  <2> QED
    BY <1>2, <1>4, <2>1, <2>2, <2>3 DEF CallStep
<1>8. CASE \/ Tick \/ RosterChanges \/ CountersRestart \/ (\E p \in Peers : Transfer(p))
           \/ Remount \/ UNCHANGED vars
  <2>1. /\ UNCHANGED <<stats, status, totals, peerPoints, call>>
        /\ clock' = clock \/ (clock < MaxTime /\ clock' = clock + 1)
    <3>1. CASE Tick
      BY <3>1 DEF Tick
    <3>2. CASE RosterChanges
      BY <3>2 DEF RosterChanges
    <3>3. CASE CountersRestart
      BY <3>3 DEF CountersRestart
    <3>4. CASE (\E p \in Peers : Transfer(p)) \/ Remount \/ UNCHANGED vars
      BY <3>4 DEF Transfer, Remount, vars
    <3> QED
      BY <1>8, <3>1, <3>2, <3>3, <3>4
  <2>2. clock' \in 0 .. MaxTime
    BY <1>2, <2>1
  <2> QED
    BY <1>2, <1>4, <2>1, <2>2
<1> QED
  BY <1>5, <1>6, <1>7, <1>8, CallersAre DEF Next

LEMMA RowsStep ==
  ASSUME TrafficInv, [Next]_vars
  PROVE  RowsInv' /\ InOrder(live)'
<1>1. TypesInv /\ CountersInv /\ AnswersInv /\ InOrder(live) /\ Longer
      /\ Told(totals) /\ Told(live) /\ Batched(peerPoints)
  BY HistoryStep DEF TrafficInv, RowsInv
<1>2. InOrder(live)' /\ \E points : live' = points /\ Told(points)
  BY <1>1, SamplesStep
<1>3. \E rows : totals' = rows /\ Told(rows)
  <2>1. RecordTraffic \/ UNCHANGED totals
    BY DEF Next, vars, Tick, RosterChanges, CountersRestart, Transfer, LoadPeers, CacheHit, Dump,
           CacheStore, RecordPeerTraffic, GetSystemStatus, Show, Remount
  <2> QED
    BY <1>1, <2>1, RecordTrafficStep
<1>4. \E rows : peerPoints' = rows /\ Batched(rows)
  <2>1. RecordPeerTraffic \/ UNCHANGED peerPoints
    BY DEF Next, vars, Tick, RosterChanges, CountersRestart, Transfer, LoadPeers, CacheHit, Dump,
           CacheStore, RecordTraffic, GetSystemStatus, Show, Remount
  <2> QED
    BY <1>1, <2>1, RecordPeersStep
<1>5. Told(live)'
  <2>1. PICK points : live' = points /\ Told(points)
    BY <1>2
  <2>2. Told(points)'
    BY <1>1, <2>1, ToldKept
  <2> QED
    BY <2>1, <2>2 DEF Told, Exists
<1>6. Told(totals)'
  <2>1. PICK points : totals' = points /\ Told(points)
    BY <1>3
  <2>2. Told(points)'
    BY <1>1, <2>1, ToldKept
  <2> QED
    BY <2>1, <2>2 DEF Told, Exists
<1>7. Batched(peerPoints)'
  <2>1. PICK rows : peerPoints' = rows /\ Batched(rows)
    BY <1>4
  <2>2. Batched(rows)'
    BY <1>1, <2>1, BatchedKept
  <2> QED
    BY <2>1, <2>2 DEF Batched, Exists
<1> QED
  BY <1>2, <1>5, <1>6, <1>7 DEF RowsInv

-----------------------------------------------------------------------------
(* The rounds of the collector.                                             *)

LEMMA SinceKept ==
  ASSUME TypesInv, Since(peerPoints), clock' \in Nat, clock <= clock', UNCHANGED peerPoints
  PROVE  Since(peerPoints)'
<1> SUFFICES ASSUME peerPoints # <<>> PROVE Last(peerPoints).timestamp + MetricsInterval <= clock'
  BY DEF Since
<1> DEFINE t == Last(peerPoints).timestamp
<1>1. t \in Nat
  <2>1. peerPoints \in Seq(Batch)
    BY DEF TypesInv
  <2>2. Len(peerPoints) \in DOMAIN peerPoints
    BY <2>1
  <2> QED
    BY <2>1, <2>2, BatchFields DEF Last
<1>2. t + MetricsInterval <= clock /\ clock \in Nat /\ MetricsInterval \in Nat
  BY TrafficAssumption DEF Since, TypesInv
<1> HIDE DEF t
<1> QED
  BY <1>1, <1>2 DEF t

\* Steps that are not of the collector.
LEMMA RoundKept ==
  ASSUME TypesInv, RoundInv, clock' \in Nat, clock <= clock', UNCHANGED peerPoints,
         call'["totals"] = call["totals"], call'["peers"] = call["peers"]
  PROVE  RoundInv'
<1>1. Since(peerPoints) => Since(peerPoints)'
  BY SinceKept
<1> QED
  BY <1>1 DEF RoundInv, Active

\* A step within the half of a round that began.
LEMMA RoundContinues ==
  ASSUME TypesInv, RoundInv, NEW c \in {"totals", "peers"}, Active(c),
         UNCHANGED <<clock, peerPoints>>, NEW new, call' = [call EXCEPT ![c] = new],
         new.pc \notin {"idle", "next"} /\ new.load = call[c].load
  PROVE  RoundInv'
<1>1. /\ call'[c] = new
      /\ \A d \in {"totals", "peers"} \ {c} : call'[d] = call[d]
  <2>1. DOMAIN call = Callers
    BY DEF TypesInv
  <2> QED
    BY <2>1, CallersAre
<1>2. Since(peerPoints)' = Since(peerPoints)
  BY DEF Since
<1>3. Since(peerPoints) /\ call[c].load # 0
  BY DEF RoundInv, Active
<1>4. CASE c = "totals"
  <2>1. call'["totals"] = new /\ call'["peers"] = call["peers"] /\ call["peers"].pc = "idle"
    BY <1>1, <1>4 DEF RoundInv, Active
  <2> QED
    BY <1>2, <1>3, <1>4, <2>1 DEF RoundInv, Active
<1>5. CASE c = "peers"
  <2>1. call'["peers"] = new /\ call'["totals"] = call["totals"] /\ call["totals"].pc = "idle"
    BY <1>1, <1>5 DEF RoundInv, Active
  <2>2. \A i \in DOMAIN peerPoints : peerPoints[i].load <= new.load
    BY <1>5 DEF RoundInv
  <2> QED
    BY <1>2, <1>3, <1>5, <2>1, <2>2 DEF RoundInv, Active
<1> QED
  BY <1>4, <1>5

LEMMA RoundBegins ==
  ASSUME TrafficInv, NEW c \in {"totals", "peers"}, LoadPeers(c)
  PROVE  RoundInv'
<1>1. /\ TypesInv /\ RoundInv /\ Batched(peerPoints) /\ peerPoints \in Seq(Batch)
      /\ Len(tables) \in Nat \ {0}
      /\ DOMAIN call = Callers /\ UNCHANGED <<clock, peerPoints>> /\ Starts(c) /\ c \notin Polls
  BY LastEntries, CallersAre DEF TrafficInv, RowsInv, TypesInv, LoadPeers
<1>2. PICK new \in {Idle, [Idle EXCEPT !.pc = "loaded", !.load = Len(tables)]} :
        call' = [call EXCEPT ![c] = new]
  BY <1>1 DEF LoadPeers, Becomes
<1>3. /\ call'[c] = new
      /\ \A d \in {"totals", "peers"} \ {c} : call'[d] = call[d]
  BY <1>1, <1>2, CallersAre
<1>4. new.pc = "idle" \/ (new.pc = "loaded" /\ new.load = Len(tables))
  <2> DEFINE n == Len(tables)
             loaded == [Idle EXCEPT !.pc = "loaded", !.load = n]
  <2>1. n \in Nat
    BY <1>1
  <2> HIDE DEF n
  <2>2. loaded.pc = "loaded" /\ loaded.load = n /\ Idle.pc = "idle"
    BY <2>1 DEF Idle
  <2> HIDE DEF loaded
  <2> QED
    BY <1>2, <2>2 DEF loaded, n
<1>5. \A i \in DOMAIN peerPoints : peerPoints[i].load <= Len(tables)
  BY <1>1 DEF Batched, Exists
<1>6. Since(peerPoints)' = Since(peerPoints)
  BY <1>1 DEF Since
<1>7. CASE c = "totals"
  <2>1. call["peers"].pc = "idle" /\ Since(peerPoints)
    BY <1>1, <1>7 DEF Starts
  <2> QED
    BY <1>1, <1>3, <1>4, <1>6, <1>7, <2>1 DEF RoundInv, Active
<1>8. CASE c = "peers"
  <2>1. call["peers"].pc = "next"
    BY <1>1, <1>8 DEF Starts
  <2>2. call["totals"].pc = "idle" /\ Since(peerPoints)
    BY <1>1, <2>1 DEF RoundInv
  <2> QED
    BY <1>1, <1>3, <1>4, <1>5, <1>6, <1>8, <2>1, <2>2 DEF RoundInv, Active
<1> QED
  BY <1>7, <1>8

LEMMA RoundStep ==
  ASSUME TrafficInv, [Next]_vars
  PROVE  RoundInv'
<1>1. /\ TypesInv /\ RoundInv /\ TypesInv' /\ AnswersInv
      /\ clock \in Nat /\ clock' \in Nat /\ DOMAIN call = Callers
      /\ \A c \in Callers : call[c] \in Call
  BY TypesStep, TrafficAssumption DEF TrafficInv, TypesInv
<1>2. CASE RecordTraffic
  <2>1. PICK next \in {"next", "idle"} :
          call' = [call EXCEPT !["totals"] = Idle, !["peers"].pc = next]
    BY <1>2 DEF RecordTraffic
  <2>2. /\ call'["totals"] = Idle /\ call'["peers"] = [call["peers"] EXCEPT !.pc = next]
        /\ call["peers"] \in Call
    BY <1>1, <2>1, CallersAre
  <2>3. call'["peers"].pc = next
    BY <2>2 DEF Call
  <2>4. Since(peerPoints) /\ UNCHANGED <<clock, peerPoints>>
    BY <1>1, <1>2 DEF RoundInv, RecordTraffic
  <2>5. Since(peerPoints)'
    BY <2>4 DEF Since
  <2>6. call'["totals"].pc = "idle" /\ call'["peers"].pc \in {"next", "idle"}
    BY <2>2, <2>3 DEF Idle
  <2> QED
    BY <2>5, <2>6 DEF RoundInv, Active
<1>3. CASE RecordPeerTraffic
  <2>1. call' = [call EXCEPT !["peers"] = Idle] /\ call["peers"].pc = "read"
    BY <1>3 DEF RecordPeerTraffic, Becomes
  <2>2. /\ call'["peers"] = Idle /\ call'["totals"] = call["totals"]
        /\ call["totals"].pc = "idle"
    BY <1>1, <2>1, CallersAre DEF RoundInv
  <2> QED
    BY <2>2 DEF RoundInv, Active, Idle
<1>4. ASSUME NEW c \in {"totals", "peers"}, CacheHit(c) \/ Dump(c) \/ CacheStore(c)
      PROVE  RoundInv'
  <2>1. c \in Callers /\ call[c] \in Call
    BY <1>1, CallersAre
  <2>2. /\ Active(c) /\ UNCHANGED <<clock, peerPoints>>
        /\ \E new \in {[call[c] EXCEPT !.pc = "read", !.dump = stats],
                       [call[c] EXCEPT !.pc = "dumped", !.dump = Len(counters)],
                       [call[c] EXCEPT !.pc = "read"]} : call' = [call EXCEPT ![c] = new]
    <3>1. CASE CacheHit(c)
      BY <3>1 DEF CacheHit, Active, Becomes
    <3>2. CASE Dump(c)
      BY <3>2 DEF Dump, Active, Becomes
    <3>3. CASE CacheStore(c)
      BY <3>3 DEF CacheStore, Active, Becomes
    <3> QED
      BY <1>4, <3>1, <3>2, <3>3
  <2>3. PICK new \in {[call[c] EXCEPT !.pc = "read", !.dump = stats],
                      [call[c] EXCEPT !.pc = "dumped", !.dump = Len(counters)],
                      [call[c] EXCEPT !.pc = "read"]} : call' = [call EXCEPT ![c] = new]
    BY <2>2
  <2>4. new.pc \notin {"idle", "next"} /\ new.load = call[c].load
    BY <2>1, <2>3 DEF Call
  <2> QED
    BY <1>1, <2>2, <2>3, <2>4, RoundContinues
<1>5. ASSUME NEW c \in Polls, LoadPeers(c) \/ CacheHit(c) \/ Dump(c) \/ CacheStore(c)
                              \/ GetSystemStatus(c) \/ Show(c)
      PROVE  RoundInv'
  <2>1. PICK new : CallStep(c, new)
    BY <1>1, <1>5, CallersAre, CallSteps
  <2>2. call'["totals"] = call["totals"] /\ call'["peers"] = call["peers"]
    BY <1>1, <2>1, CallersAre DEF CallStep
  <2> QED
    BY <1>1, <2>1, <2>2, RoundKept DEF CallStep
<1>6. CASE \/ Tick \/ RosterChanges \/ CountersRestart \/ (\E p \in Peers : Transfer(p))
           \/ Remount \/ UNCHANGED vars
  <2>1. UNCHANGED <<peerPoints, call>> /\ (clock' = clock \/ clock' = clock + 1)
    <3>1. CASE Tick
      BY <3>1 DEF Tick
    <3>2. CASE RosterChanges
      BY <3>2 DEF RosterChanges
    <3>3. CASE CountersRestart
      BY <3>3 DEF CountersRestart
    <3>4. CASE (\E p \in Peers : Transfer(p)) \/ Remount \/ UNCHANGED vars
      BY <3>4 DEF Transfer, Remount, vars
    <3> QED
      BY <1>6, <3>1, <3>2, <3>3, <3>4
  <2> QED
    BY <1>1, <2>1, RoundKept
<1>7. ASSUME NEW c \in {"totals", "peers"}, LoadPeers(c) PROVE RoundInv'
  BY <1>7, RoundBegins
<1> QED
  BY <1>2, <1>3, <1>4, <1>5, <1>6, <1>7 DEF Next, Callers

-----------------------------------------------------------------------------
LEMMA TrafficInit == Init => TrafficInv
<1> SUFFICES ASSUME Init PROVE TrafficInv
  OBVIOUS
<1> DEFINE zero == [p \in Peers |-> 0]
           first == [bytes |-> zero, moved |-> zero]
<1>1. counters = <<first>>
  BY DEF Init
<1>2. PICK S \in SUBSET Peers : tables = <<S>>
  BY DEF Init
<1>3. /\ clock = 0 /\ stats = 0 /\ totals = <<>> /\ peerPoints = <<>> /\ live = <<>>
      /\ call = [c \in Callers |-> Idle] /\ status = Nothing
  BY DEF Init
<1>4. 0 \in 0 .. MaxTime /\ MaxTime \in Nat /\ MaxMoved \in Nat /\ MaxPoints \in Nat
  BY TrafficAssumption
<1>5. Len(tables) = 1 /\ Len(counters) = 1 /\ counters[1] = first /\ tables[1] = S
  BY <1>1, <1>2
<1>6. Idle \in Call /\ Exists(Idle) /\ Nothing \in Call /\ Exists(Nothing)
  BY <1>5 DEF Idle, Nothing, Call, Exists
<1>7. TypesInv
  <2>1. first \in Counters
    BY DEF Counters
  <2> HIDE DEF first
  <2> QED
    BY <1>1, <1>2, <1>3, <1>4, <1>6, <2>1 DEF TypesInv
<1>8. CountersInv
  <2>1. moved = zero
    BY <1>1 DEF moved, Last
  <2>2. Total(zero, Peers) = 0
    BY TotalOfZero
  <2>3. \A p \in Peers : first.bytes[p] = 0 /\ first.moved[p] = 0
    OBVIOUS
  <2>4. \A n \in 1 .. Len(counters) : counters[n] = first
    BY <1>5
  <2> HIDE DEF first, zero
  <2> QED
    BY <1>4, <2>1, <2>2, <2>3, <2>4 DEF CountersInv
<1>9. TablesInv
  <2>1. \A l, m \in 1 .. Len(tables) : l = m
    BY <1>5
  <2> QED
    BY <2>1 DEF TablesInv
<1>10. AnswersInv /\ RoundInv
  BY <1>3, <1>5, <1>6, CallersAre DEF AnswersInv, RoundInv, Active, Idle
<1>11. RowsInv /\ InOrder(live)
  BY <1>3, <1>4 DEF RowsInv, Told, Batched, InOrder
<1> QED
  BY <1>7, <1>8, <1>9, <1>10, <1>11 DEF TrafficInv

(* The inductive invariant, among others that no counter gains more than was
   received, that a deleted client does not come back, and that whatever is
   cached, answered, stored or shown, in whichever order callers overlap, is
   a reading of a list and of a dump that there were.                      *)
THEOREM TrafficHolds == Spec => []TrafficInv
<1>1. TrafficInv /\ [Next]_vars => TrafficInv'
  BY HistoryStep, TypesStep, RowsStep, RoundStep DEF TrafficInv
<1> QED
  BY <1>1, TrafficInit, PTL DEF Spec

(* The counters, the history and the samples have their types; the samples are
   in the order of their time and none repeats the total before it, whatever
   answers are late, failed or overtaken: see TrafficTypeOK.               *)
THEOREM TrafficTypes == Spec => []TrafficTypeOK
<1>1. ASSUME TrafficInv PROVE TrafficTypeOK
  <2>0. TypesInv /\ CountersInv /\ InOrder(live) /\ peerPoints \in Seq(Batch)
    BY <1>1 DEF TrafficInv, TypesInv
  <2>1. /\ \A n \in DOMAIN tables : tables[n] \subseteq Peers
        /\ \A n \in DOMAIN counters : \A f \in {counters[n].bytes, counters[n].moved} :
             f \in [Peers -> 0 .. MaxMoved]
    <3>1. DOMAIN tables = 1 .. Len(tables) /\ DOMAIN counters = 1 .. Len(counters)
      BY <2>0 DEF TypesInv
    <3> QED
      BY <2>0, <3>1, LastEntries, CountersFit
  <2>2. clock \in 0 .. MaxTime /\ stats \in 0 .. Len(counters)
    BY <1>1 DEF TrafficInv, TypesInv, AnswersInv
  <2>3. \A i \in DOMAIN totals : IsPoint(totals[i])
    <3>1. \A i \in DOMAIN totals : totals[i] \in Point
      BY <2>0 DEF TypesInv
    <3> QED
      BY <3>1 DEF Point, IsPoint
  <2>4. ASSUME NEW i \in DOMAIN peerPoints
        PROVE  peerPoints[i].rx \in [DOMAIN peerPoints[i].rx -> 0 .. MaxMoved]
    <3>1. peerPoints[i] \in Batch
      BY <2>0, BatchFields
    <3>2. PICK S \in SUBSET Peers : peerPoints[i].rx \in [S -> 0 .. MaxMoved]
      BY <3>1 DEF Batch
    <3> QED
      BY <3>2
  <2>5. /\ Len(live) <= MaxPoints
        /\ \A i \in DOMAIN live : IsPoint(live[i])
        /\ \A i \in 2 .. Len(live) : /\ live[i - 1].timestamp <= live[i].timestamp
                                     /\ live[i - 1].rx # live[i].rx
    <3>1. \A i \in DOMAIN live : live[i] \in Point
      BY <2>0 DEF InOrder
    <3>2. \A i \in DOMAIN live : IsPoint(live[i])
      BY <3>1 DEF Point, IsPoint
    <3> QED
      BY <2>0, <3>2 DEF InOrder
  <2> QED
    BY <2>1, <2>2, <2>3, <2>4, <2>5 DEF TrafficTypeOK
<1> QED
  BY <1>1, TrafficHolds, PTL
=============================================================================
