------------------------- MODULE PeerRegistryProofs -------------------------
(***************************************************************************)
(* What every implementation of the registry of clients inherits.          *)
(***************************************************************************)
EXTENDS PeerRegistry, TLAPS

\* An invalid request is never open, so that what is added names a client.
OpenValid == \A r \in Reqs : Open(r) => ~Invalid(call[r])

\* Only a request that has come has made its change.
TookCalled == \A r \in took : call[r] # NoOp

RegistryInv == RegistryTypeOK /\ OpenValid /\ TookCalled /\ RowsDistinct /\ RowsOwned

\* RegistryInv holds at the start.
LEMMA InitRegistry ==
    ASSUME InitSettings \in Settings, RegistryInit
    PROVE  RegistryInv
BY DEF RegistryInit, RegistryInv, RegistryTypeOK, Answers, OpenValid, Open,
       TookCalled, RowsDistinct, RowsOwned

\* A step that leaves the clients alone and answers no open request whose
\* change was made with a refusal.
LEMMA AnswerKeeps ==
    ASSUME RegistryInv, UNCHANGED <<rows, settings, call, took>>,
           answer' \in [Reqs -> Answers],
           \A r \in Reqs : \/ answer'[r] = answer[r]
                           \/ answer'[r] # "none" /\ (answer'[r] = "refused" => r \notin took)
    PROVE  RegistryInv'
<1> USE DEF RegistryInv
<1>1. RegistryTypeOK'
  BY DEF RegistryTypeOK
<1>2. OpenValid'
  BY DEF OpenValid, Open
<1>3. TookCalled' /\ RowsDistinct' /\ RowsOwned'
  BY DEF TookCalled, RowsDistinct, RowsOwned, RegistryTypeOK, Rows
<1> QED
  BY <1>1, <1>2, <1>3

\* A request that comes has changed nothing yet.
LEMMA CallKeeps ==
    ASSUME RegistryInv, NEW r \in Reqs, Call(r)
    PROVE  RegistryInv'
<1> USE DEF RegistryInv
<1>1. PICK o \in Ops :
        /\ call' = [call EXCEPT ![r] = o]
        /\ IF Invalid(o) THEN Reply(r, "refused") ELSE UNCHANGED answer
  BY DEF Call
<1>2. UNCHANGED <<rows, settings, took>> /\ call[r] = NoOp
  BY DEF Call
<1>3. RegistryTypeOK'
  BY <1>1, <1>2 DEF Reply, RegistryTypeOK, Answers
<1>4. OpenValid'
  BY <1>1, <1>2 DEF OpenValid, Open, Reply, RegistryTypeOK
<1>5. RowsDistinct'
  BY <1>2 DEF RowsDistinct
<1>6. r \notin took
  BY <1>2 DEF TookCalled
<1>7. TookCalled'
  BY <1>1, <1>2, <1>6 DEF TookCalled, RegistryTypeOK
<1>8. RowsOwned'
  BY <1>1, <1>2, <1>6 DEF RowsOwned, Reply, RegistryTypeOK, Rows
<1> QED
  BY <1>3, <1>4, <1>5, <1>7, <1>8

\* A change adds a client that clashes with none, or takes clients away.
LEMMA ChangeKeeps ==
    ASSUME RegistryInv, NEW r \in Reqs, Change(r)
    PROVE  RegistryInv'
<1> USE DEF RegistryInv
<1>1. /\ call' = call
      /\ answer' \in [Reqs -> Answers]
      /\ \A q \in Reqs : answer'[q] = answer[q] \/ answer'[q] = "failed"
  BY DEF Change, Reply, RegistryTypeOK, Answers
<1>2. Open(r) /\ r \notin took /\ call[r] \in Ops /\ ~Invalid(call[r])
  BY DEF Change, Add, Remove, Configure, Pending, Open, RegistryTypeOK, OpenValid
<1>3. OpenValid' /\ (took' = took \cup {r} => TookCalled')
  BY <1>1, <1>2 DEF OpenValid, TookCalled, Open
<1>4. ASSUME NEW ip \in IPs, Add(r, ip) PROVE RegistryInv'
  <2> DEFINE row == [name |-> call[r].name, key |-> r, ip |-> ip]
  <2>1. /\ ~Clash(row, rows)
        /\ rows' = rows \cup {row} /\ took' = took \cup {r} /\ settings' = settings
    BY <1>4 DEF Add
  <2>2. row \in Rows
    BY <1>2, <1>4 DEF Add, Pending, Ops, CreateOps, DeleteOps, UpdateOps, Invalid, Rows
  <2>3. RegistryTypeOK'
    BY <1>1, <2>1, <2>2 DEF RegistryTypeOK
  <2>4. RowsDistinct'
    BY <2>1 DEF RowsDistinct, Clash
  <2>5. RowsOwned'
    BY <1>1, <1>2, <2>1 DEF RowsOwned, Open, RegistryTypeOK, Rows
  <2> QED
    BY <1>3, <2>1, <2>3, <2>4, <2>5
<1>5. CASE Remove(r) \/ Configure(r)
  <2>1. rows' \subseteq rows /\ took' = took \cup {r}
    BY <1>5 DEF Remove, Configure
  <2>2. settings' \in Settings
    BY <1>2, <1>5
       DEF Remove, Configure, Pending, RegistryTypeOK, Ops, CreateOps, DeleteOps, UpdateOps
  <2>3. RegistryTypeOK'
    BY <1>1, <2>1, <2>2 DEF RegistryTypeOK
  <2>4. RowsDistinct' /\ RowsOwned'
    BY <1>1, <2>1 DEF RowsDistinct, RowsOwned, RegistryTypeOK, Rows
  <2> QED
    BY <1>3, <2>1, <2>3, <2>4
<1> QED
  BY <1>4, <1>5 DEF Change

\* RegistryInv is inductive.
LEMMA RegistryStep == RegistryInv /\ [RegistryNext]_registryVars => RegistryInv'
<1> SUFFICES ASSUME RegistryInv, [RegistryNext]_registryVars PROVE RegistryInv'
  OBVIOUS
<1>1. ASSUME NEW r \in Reqs, Succeed(r) \/ Refuse(r) \/ Fail(r) PROVE RegistryInv'
  <2>1. UNCHANGED <<rows, settings, call, took>>
    BY <1>1 DEF Succeed, Refuse, Fail
  <2>2. PICK a \in {"ok", "refused", "failed"} : Reply(r, a) /\ (a = "refused" => r \notin took)
    BY <1>1 DEF Succeed, Refuse, Fail
  <2> QED
    BY <2>1, <2>2, AnswerKeeps DEF Reply, RegistryInv, RegistryTypeOK, Answers
<1>2. CASE Abandon
  BY <1>2, AnswerKeeps DEF Abandon, RegistryInv, RegistryTypeOK, Answers
<1>3. CASE UNCHANGED registryVars
  BY <1>3, AnswerKeeps DEF registryVars, RegistryInv, RegistryTypeOK
<1> QED
  BY <1>1, <1>2, <1>3, CallKeeps, ChangeKeeps DEF RegistryNext

\* No two clients ever share a name, a key or an address, and a request that
\* was refused has left no client behind: see RowsDistinct and RowsOwned.
THEOREM RegistrySound ==
    ASSUME InitSettings \in Settings
    PROVE  RegistrySpec => [](RowsDistinct /\ RowsOwned)
<1>1. RegistryInit => RegistryInv
  BY InitRegistry
<1>2. RegistrySpec => []RegistryInv
  BY <1>1, RegistryStep, PTL DEF RegistrySpec
<1> QED
  BY <1>2, PTL DEF RegistryInv
=============================================================================
