-------------------------- MODULE AwgClientsProofs --------------------------
(***************************************************************************)
(* What the clients get from AwgService: the interface serves them, and    *)
(* their files keep their keys, for any number of overlapping requests;    *)
(* and what holds in addition when requests come one at a time.            *)
(***************************************************************************)
EXTENDS AwgServiceProofs, FiniteSetTheorems

-----------------------------------------------------------------------------
(* Rows.                                                                    *)

\* A committed CreateClient has stored row y at some time.
Created(y) ==
    /\ y.key \in took
    /\ op[y.key].kind = "create"
    /\ op[y.key].name = y.name

\* All rows ever stored with the key of y are y.
SameKeySameRow(y) == \A x \in db.peers : x.key = y.key => x = y

\* The rows that are stored, and those a request has loaded, were stored by
\* the requests that generated their keys; one that is about to build its
\* client configuration still has the address of its row.
RowsInv ==
    /\ \A y \in db.peers : /\ Created(y)
                           /\ SameKeySameRow(y)
                           /\ pc[y.key] = "flush" => ip[y.key] = y.ip
    /\ \A r \in Reqs : \A y \in cfg[r].peers : Created(y) /\ SameKeySameRow(y)

-----------------------------------------------------------------------------
(* Client files.                                                            *)

\* A committed CreateClient had the name n.
Used(n) == \E k \in took : op[k].kind = "create" /\ op[k].name = n

\* Nobody writes a file for a name that was never used. A CreateClient writes
\* the file of its own client; whoever is to open a file has what to write.
FilesInv ==
    /\ \A n \in Names : profile[n] \in Profiles => Used(n)
    /\ \A r \in Reqs :
          draft[r] # NoDraft =>
              /\ r \in took
              /\ Used(draft[r].name)
              /\ Is(r, "create") => draft[r].name = op[r].name
    /\ \A r \in Reqs : pc[r] = "truncate" => draft[r] # NoDraft

\* Of the committed creations and deletions only the one that stored x has its
\* name: Concerned, without those that may still come to nothing.
Sole(x) ==
    \A q \in took : op[q].kind \in {"create", "delete"} /\ op[q].name = x.name => q = x.key

\* The steps of a CreateClient that has written its file, and its answer.
Kept == {"syncRow", "syncPeers", "apply", "ok"}

\* Request r has opened the file of x and is about to write what opens x.
Refills(r, x) ==
    /\ pc[r] = "fill"
    /\ draft[r] # NoDraft
    /\ draft[r].name = x.name
    /\ Opens(draft[r].profile, x)

\* A regeneration died in a crash.
Cut == \E r \in Reqs : pc[r] = "lost" /\ Is(r, "update")

\* What is or will be in the file of x opens x, and from the first time the
\* file is written it is there or on its way back, but for crashes and failures.
FileKept(x) ==
    /\ profile[x.name] \in Profiles => Opens(profile[x.name], x)
    /\ \A r \in Reqs : draft[r] # NoDraft /\ draft[r].name = x.name
                            => Opens(draft[r].profile, x)
    /\ pc[x.key] = "fill" => draft[x.key] # NoDraft
    /\ pc[x.key] \in Kept =>
          \/ profile[x.name] \in Profiles
          \/ profile[x.name] = Empty /\ (Cut \/ \E r \in Reqs : Refills(r, x))
          \/ "profile" \in Faults

KeyInv == \A x \in db.peers : Sole(x) => FileKept(x)

-----------------------------------------------------------------------------
(* The interface has the client it is about to answer for.                  *)

Loaded(r) ==
    pc[r] = "apply" /\ Is(r, "create") /\ Row(r) \in db.peers => Row(r) \in snap[r].peers

ServedInv == \A r \in Reqs : Loaded(r)

-----------------------------------------------------------------------------
(* Steps that leave the rows alone, and steps that change them.             *)

\* A step of r, or its arrival, that leaves the database alone.
Keeps(r) ==
    /\ UNCHANGED <<db, took>>
    /\ \A q \in took : op'[q] = op[q]
    /\ pc'[r] # "flush"
    /\ pc'[r] = "apply" => snap'[r].peers = db.peers
    /\ \A q \in Reqs : q # r => /\ pc'[q] = pc[q]
                               /\ op'[q] = op[q]
                               /\ ip'[q] = ip[q]
                               /\ snap'[q] = snap[q]
    /\ \A q \in Reqs : cfg'[q].peers \in {cfg[q].peers, db.peers, {}}

\* A committed SQL write of r, whether r gets to know of it or not.
Stores(r) ==
    /\ MayWrite(r)
    /\ db' = Written(r)
    /\ took' = took \cup {r}
    /\ UNCHANGED <<op, profile, crashes>>
    /\ pc'[r] \in {"flush", "failed"}
    /\ pc'[r] = "flush" => ip'[r] = ip[r]
    /\ draft'[r] \in {draft[r], NoDraft}
    /\ \A q \in Reqs : q # r => /\ pc'[q] = pc[q]
                               /\ ip'[q] = ip[q]
                               /\ snap'[q] = snap[q]
                               /\ draft'[q] = draft[q]
    /\ \A q \in Reqs : cfg'[q].peers \in {cfg[q].peers, {}}

\* A step that leaves the database alone, and the client files and those who
\* are writing them too.
Calm(r) ==
    /\ Keeps(r)
    /\ UNCHANGED <<profile, crashes>>
    /\ pc[r] # "fill"
    /\ pc'[r] \notin {"truncate", "fill"}
    /\ r \in took /\ Is(r, "create") /\ pc'[r] \in Kept => pc[r] \in Kept
    /\ draft'[r] \in {draft[r], NoDraft}
    /\ \A q \in Reqs : q # r => draft'[q] = draft[q]

\* Going on, or answering, is calm when the step is.
LEMMA ProceedIsCalm ==
    ASSUME TypeOK, NEW r \in Reqs, NEW step \in Steps, Proceed(r, step),
           UNCHANGED <<db, profile, op, took, crashes>>,
           pc[r] # "fill", step \notin {"flush", "apply", "truncate", "fill"},
           Is(r, "create") /\ step \in Kept => pc[r] \in Kept
    PROVE  Calm(r)
<1>1. /\ \A q \in Reqs : q # r => /\ pc'[q] = pc[q]
                                 /\ ip'[q] = ip[q]
                                 /\ cfg'[q] = cfg[q]
                                 /\ snap'[q] = snap[q]
                                 /\ draft'[q] = draft[q]
      /\ pc'[r] = step
      /\ cfg'[r].peers \in {cfg[r].peers, {}}
      /\ draft'[r] \in {draft[r], NoDraft}
  BY ProceedType
<1> QED
  BY <1>1 DEF Calm, Keeps

\* Calm steps.
LEMMA CalmSteps ==
    ASSUME TypeInv, ProgressInv, NEW r \in Reqs,
           \/ (\E o \in Ops : Receive(r, o))
           \/ ReadRow(r) \/ ReadPeers(r) \/ NoFreeIP(r) \/ Find(r) \/ ReadFails(r)
           \/ Conflict(r) \/ FlushFails(r) \/ RemoveFails(r)
           \/ SyncRow(r) \/ SyncPeers(r) \/ Apply(r) \/ SyncFails(r)
           \/ List(r) \/ ListFails(r) \/ Finish(r)
    PROVE  Calm(r)
<1> USE DEF TypeInv
<1>1. CASE NoFreeIP(r) \/ ReadFails(r) \/ Conflict(r) \/ FlushFails(r)
  BY <1>1, ProceedIsCalm
     DEF NoFreeIP, ReadFails, Conflict, FlushFails, At, Kept, Steps, Answered, stored, ghosts
<1>2. CASE Find(r)
  <2>1. PICK step \in {"drop", "refused"} : Proceed(r, step)
    BY <1>2 DEF Find
  <2>2. step \in Steps /\ step \notin Kept /\ step \notin {"flush", "apply", "truncate", "fill"}
    BY DEF Steps, Working, Answered, Kept
  <2> QED
    BY <1>2, <2>1, <2>2, ProceedIsCalm DEF Find, At, stored, ghosts
<1>3. CASE RemoveFails(r) \/ ListFails(r) \/ Finish(r)
  <2>1. op[r].kind # "create" /\ pc[r] # "fill"
    BY <1>3 DEF RemoveFails, ListFails, Finish, At, Shape, ShapeOf
  <2> QED
    BY <1>3, <2>1, ProceedIsCalm
       DEF RemoveFails, ListFails, Finish, Is, Steps, Working, Answered, stored, ghosts
<1>4. CASE Apply(r) \/ SyncFails(r)
  <2>1. pc[r] \in Kept
    BY <1>4 DEF Apply, SyncFails, At, Kept
  <2>2. PICK step \in {"list", "ok"} : Proceed(r, step)
    BY <1>4 DEF Apply, SyncFails, AfterSync
  <2>3. step \in Steps
    BY DEF Steps, Working, Answered
  <2> QED
    BY <1>4, <2>1, <2>2, <2>3, ProceedIsCalm DEF Apply, SyncFails, Kept, stored
<1>5. CASE ReadRow(r)
  BY <1>5 DEF ReadRow, At, Go, Kept, Calm, Keeps, TypeOK, Configs, stored, ghosts
<1>6. CASE ReadPeers(r)
  BY <1>6 DEF ReadPeers, At, Go, Kept, Calm, Keeps, TypeOK, Configs, stored, ghosts
<1>7. CASE SyncRow(r) \/ SyncPeers(r) \/ List(r)
  BY <1>7 DEF SyncRow, SyncPeers, List, At, Go, Kept, Calm, Keeps, TypeOK, Configs, stored, ghosts
<1>8. ASSUME NEW o \in Ops, Receive(r, o) PROVE Calm(r)
  <2>1. r \notin took /\ pc[r] = "idle" /\ pc'[r] \in {"refused", "find", "row"}
    BY <1>8 DEF Receive, At, Go, TypeOK, ProgressInv, Progress, Before
  <2> QED
    BY <1>8, <2>1 DEF Receive, Go, Kept, Calm, Keeps, TypeOK, stored, ghosts
<1> QED
  BY <1>1, <1>2, <1>3, <1>4, <1>5, <1>6, <1>7, <1>8

\* Flushes and operations on files leave the rows alone.
LEMMA KeepingSteps ==
    ASSUME TypeInv, ProgressInv, NEW r \in Reqs,
           \/ Flush(r) \/ Truncate(r) \/ Fill(r) \/ FileFails(r) \/ RemoveFile(r)
           \/ (\E n \in Names : Pick(r, n))
    PROVE  Keeps(r)
<1> USE DEF TypeInv
<1>1. CASE Truncate(r)
  <2>1. Proceed(r, "fill") /\ "fill" \in Steps /\ "fill" \notin Answered
    BY <1>1 DEF Truncate, Steps, Working, Answered
  <2> QED
    BY <1>1, <2>1, ProceedType DEF Truncate, Keeps, ghosts
<1>2. CASE Fill(r) \/ FileFails(r)
  <2>1. AfterFile(r) \in {"syncRow", "pick"} /\ AfterFile(r) \in Steps
    BY DEF AfterFile, Steps, Working
  <2> QED
    BY <1>2, <2>1, GoType DEF Fill, FileFails, Keeps, stored, ghosts
<1>3. CASE RemoveFile(r)
  BY <1>3 DEF RemoveFile, Go, Keeps, TypeOK, ghosts
<1>4. ASSUME NEW n \in Names, Pick(r, n) PROVE Keeps(r)
  BY <1>4 DEF Pick, At, Go, Keeps, TypeOK, stored, ghosts
<1>5. CASE Flush(r)
  <2>1. PICK step \in {"truncate", "remove", "syncRow"} : Go(r, step)
    BY <1>5, OpFields DEF Flush, Is, At, TypeOK, Shape, ShapeOf
  <2>2. step \in Steps
    BY DEF Steps, Working
  <2> QED
    BY <1>5, <2>1, <2>2, GoType DEF Flush, Keeps
<1> QED
  BY <1>1, <1>2, <1>3, <1>4, <1>5

\* The SQL writes.
LEMMA StoringSteps ==
    ASSUME TypeInv, NEW r \in Reqs, Write(r) \/ WriteFails(r)
    PROVE  Stores(r) \/ Calm(r)
<1> USE DEF TypeInv
<1>1. CASE Write(r)
  BY <1>1 DEF Write, Go, Stores, TypeOK, Configs
<1>2. CASE WriteFails(r)
  <2>1. Proceed(r, "failed") /\ "failed" \in Steps /\ pc[r] # "fill"
    BY <1>2 DEF WriteFails, MayWrite, At, Steps, Answered
  <2>2. CASE UNCHANGED <<db, ghosts>>
    BY <1>2, <2>1, <2>2, ProceedIsCalm DEF WriteFails, Kept, ghosts
  <2>3. CASE db' = Written(r) /\ took' = took \cup {r}
    <3>1. /\ \A q \in Reqs : q # r => /\ pc'[q] = pc[q]
                                     /\ ip'[q] = ip[q]
                                     /\ cfg'[q] = cfg[q]
                                     /\ snap'[q] = snap[q]
                                     /\ draft'[q] = draft[q]
          /\ pc'[r] = "failed"
          /\ cfg'[r].peers \in {cfg[r].peers, {}}
          /\ draft'[r] \in {draft[r], NoDraft}
      BY <2>1, ProceedType
    <3> QED
      BY <1>2, <2>3, <3>1 DEF WriteFails, Stores
  <2> QED
    BY <1>2, <2>2, <2>3 DEF WriteFails
<1> QED
  BY <1>1, <1>2

\* What a crash, a start or nothing at all does to the rows and the requests.
LEMMA OtherSteps ==
    ASSUME TypeInv, Crash \/ BootFlush \/ BootSync \/ UNCHANGED vars
    PROVE  /\ UNCHANGED <<db, took, op, profile>>
           /\ \/ /\ crashes' # 0
                 /\ \A q \in Reqs : /\ pc'[q] \notin Working
                                    /\ cfg'[q].peers = {}
                                    /\ draft'[q] = NoDraft
              \/ UNCHANGED <<pc, ip, cfg, snap, draft, crashes>>
<1> USE DEF TypeInv
<1>1. CASE Crash
  <2>1. Forget(Reqs) /\ crashes \in Nat /\ crashes' = crashes + 1
    BY <1>1 DEF Crash, TypeOK
  <2>2. \A q \in Reqs : pc'[q] \notin Working
    BY <1>1 DEF Crash, InFlight, Working
  <2> QED
    BY <1>1, <2>1, <2>2, ForgetType DEF Crash
<1>2. CASE BootFlush \/ BootSync \/ UNCHANGED vars
  BY <1>2 DEF BootFlush, BootSync, vars, stored, locals, ghosts
<1> QED
  BY <1>1, <1>2

\* A request that is served is one of those in flight, and only it moves.
LEMMA ServeMoves ==
    ASSUME TypeInv, ProgressInv, NEW r \in Reqs, Serve(r)
    PROVE  /\ pc[r] \in Working
           /\ op' = op
           /\ \A q \in Reqs : q # r => pc'[q] = pc[q]
<1>1. pc[r] \in Working /\ op' = op
  BY DEF Serve, ReadRow, ReadPeers, NoFreeIP, Find, ReadFails, Write, MayWrite, Conflict,
         WriteFails, Flush, FlushFails, Truncate, Fill, FileFails, RemoveFile, RemoveFails,
         SyncRow, SyncPeers, Apply, SyncFails, List, ListFails, Pick, Finish, At, Working
<1>2. Keeps(r) \/ Stores(r)
  BY CalmSteps, KeepingSteps, StoringSteps DEF Serve, Calm
<1> QED
  BY <1>1, <1>2 DEF Keeps, Stores

\* What a committed write leaves is what was there, or the new row.
LEMMA StoredRows ==
    ASSUME TypeInv, ProgressInv, NEW r \in Reqs, Stores(r)
    PROVE  /\ r \notin took
           /\ \A x \in db'.peers : x \in db.peers \/ (Is(r, "create") /\ x = Row(r))
<1> USE DEF TypeInv
<1>1. op[r].kind \in {"create", "delete", "update"} /\ db \in Configs
  BY WrittenType, OpFields DEF Stores, TypeOK
<1>2. r \notin took
  BY DEF Stores, MayWrite, At, ProgressInv, Progress, Before
<1>3. CASE Is(r, "create")
  BY <1>1, <1>2, <1>3 DEF Stores, Written, Is, Configs
<1>4. CASE Is(r, "delete")
  BY <1>1, <1>2, <1>4 DEF Stores, Written, Is, Configs
<1>5. CASE Is(r, "update")
  BY <1>1, <1>2, <1>5 DEF Stores, Written, Is, Configs
<1> QED
  BY <1>1, <1>3, <1>4, <1>5 DEF Is

\* Keeping the rows keeps what is known of them.
LEMMA KeepsRows ==
    ASSUME TypeInv, RowsInv, NEW r \in Reqs, Keeps(r)
    PROVE  RowsInv'
<1>1. ASSUME NEW y, Created(y), SameKeySameRow(y)
      PROVE  Created(y)' /\ SameKeySameRow(y)'
  BY <1>1 DEF Created, SameKeySameRow, Keeps
<1>2. ASSUME NEW y \in db'.peers
      PROVE  Created(y)' /\ SameKeySameRow(y)' /\ (pc'[y.key] = "flush" => ip'[y.key] = y.ip)
  <2>1. y \in db.peers /\ y.key \in Reqs
    BY ConfigWith DEF Keeps, TypeInv, TypeOK, Rows
  <2>2. CASE y.key = r
    BY <1>1, <2>1, <2>2 DEF RowsInv, Keeps
  <2>3. CASE y.key # r
    BY <1>1, <2>1, <2>3 DEF RowsInv, Keeps
  <2> QED
    BY <2>2, <2>3
<1>3. ASSUME NEW q \in Reqs, NEW y \in cfg'[q].peers
      PROVE  Created(y)' /\ SameKeySameRow(y)'
  <2>1. y \in cfg[q].peers \/ y \in db.peers
    BY <1>3 DEF Keeps
  <2> QED
    BY <1>1, <1>3, <2>1 DEF RowsInv
<1> QED
  BY <1>2, <1>3 DEF RowsInv

\* A new row has a new key.
LEMMA StoresRows ==
    ASSUME TypeInv, ProgressInv, RowsInv, NEW r \in Reqs, Stores(r)
    PROVE  RowsInv'
<1> USE DEF TypeInv
<1>1. r \notin took /\ \A x \in db'.peers : x \in db.peers \/ (Is(r, "create") /\ x = Row(r))
  BY StoredRows
<1>2. Row(r).key = r /\ Row(r).name = op[r].name /\ Row(r).ip = ip[r]
  BY DEF Row
<1>3. \A x \in db.peers : x.key \in took /\ x.key # r
  BY <1>1 DEF RowsInv, Created
<1>4. ASSUME NEW y, Created(y), SameKeySameRow(y)
      PROVE  Created(y)' /\ SameKeySameRow(y)'
  <2>1. y.key # r /\ Created(y)'
    BY <1>1, <1>4 DEF Created, Stores
  <2> QED
    BY <1>1, <1>2, <1>4, <2>1 DEF SameKeySameRow
<1>5. ASSUME NEW y \in db'.peers
      PROVE  Created(y)' /\ SameKeySameRow(y)' /\ (pc'[y.key] = "flush" => ip'[y.key] = y.ip)
  <2>1. CASE y \in db.peers
    <3>1. y.key # r /\ y.key \in Reqs
      BY <1>3, <2>1 DEF TypeOK
    <3> QED
      BY <1>4, <2>1, <3>1 DEF RowsInv, Stores
  <2>2. CASE Is(r, "create") /\ y = Row(r)
    <3>1. Created(y)'
      BY <1>2, <2>2 DEF Created, Stores, Is
    <3>2. SameKeySameRow(y)'
      BY <1>1, <1>2, <1>3, <2>2 DEF SameKeySameRow
    <3> QED
      BY <1>2, <2>2, <3>1, <3>2 DEF Stores
  <2> QED
    BY <1>1, <2>1, <2>2
<1>6. ASSUME NEW q \in Reqs, NEW y \in cfg'[q].peers
      PROVE  Created(y)' /\ SameKeySameRow(y)'
  BY <1>4, <1>6 DEF RowsInv, Stores
<1> QED
  BY <1>5, <1>6 DEF RowsInv

\* RowsInv is inductive.
LEMMA RowsStep == TypeInv /\ ProgressInv /\ RowsInv /\ [Next]_vars => RowsInv'
<1> SUFFICES ASSUME TypeInv, ProgressInv, RowsInv, [Next]_vars PROVE RowsInv'
  OBVIOUS
<1>1. ASSUME NEW r \in Reqs, Keeps(r) PROVE RowsInv'
  BY <1>1, KeepsRows
<1>2. ASSUME NEW r \in Reqs, Stores(r) PROVE RowsInv'
  BY <1>2, StoresRows
<1>3. CASE Crash \/ BootFlush \/ BootSync \/ UNCHANGED vars
  <2>1. /\ UNCHANGED <<db, took, op>>
        /\ \/ \A q \in Reqs : pc'[q] # "flush" /\ cfg'[q].peers = {}
           \/ UNCHANGED <<pc, ip, cfg>>
    BY <1>3, OtherSteps DEF Working
  <2>2. \A y \in db.peers : y.key \in Reqs
    BY ConfigWith DEF TypeInv, TypeOK, Rows
  <2> QED
    BY <2>1, <2>2 DEF RowsInv, Created, SameKeySameRow
<1> QED
  BY <1>1, <1>2, <1>3, CalmSteps, KeepingSteps, StoringSteps DEF Next, Serve, Calm

\* Nothing is stored at the start.
LEMMA RowsInit == Init => RowsInv
BY DEF Init, InitConfig, RowsInv

-----------------------------------------------------------------------------
(* The answer to CreateClient.                                              *)

\* ServedInv is inductive: once deleted, a row never comes back.
LEMMA ServedStep == TypeInv /\ ProgressInv /\ ServedInv /\ [Next]_vars => ServedInv'
<1> SUFFICES ASSUME TypeInv, ProgressInv, ServedInv, [Next]_vars, NEW q \in Reqs
             PROVE  Loaded(q)'
  BY DEF ServedInv
<1> USE DEF TypeInv
<1>1. ASSUME NEW r \in Reqs, Keeps(r) PROVE Loaded(q)'
  <2>1. CASE q = r
    BY <1>1, <2>1 DEF Loaded, Keeps
  <2>2. CASE q # r
    BY <1>1, <2>2 DEF Loaded, Keeps, ServedInv, Is, Row
  <2> QED
    BY <2>1, <2>2
<1>2. ASSUME NEW r \in Reqs, Stores(r) PROVE Loaded(q)'
  <2>1. CASE q = r
    BY <1>2, <2>1 DEF Loaded, Stores
  <2>2. CASE q # r
    <3>1. Row(q)' = Row(q) /\ Row(q).key = q /\ Row(r).key = r
      BY <1>2, <2>2 DEF Row, Stores
    <3>2. Row(q) \in db'.peers => Row(q) \in db.peers
      BY <1>2, <2>2, <3>1, StoredRows
    <3> QED
      BY <1>2, <2>2, <3>1, <3>2 DEF Loaded, Stores, ServedInv, Is
  <2> QED
    BY <2>1, <2>2
<1>3. CASE Crash \/ BootFlush \/ BootSync \/ UNCHANGED vars
  <2>1. /\ UNCHANGED <<db, op>>
        /\ pc'[q] # "apply" \/ UNCHANGED <<pc, ip, snap>>
    BY <1>3, OtherSteps DEF Working
  <2> QED
    BY <2>1 DEF ServedInv, Loaded, Is, Row
<1> QED
  BY <1>1, <1>2, <1>3, CalmSteps, KeepingSteps, StoringSteps DEF Next, Serve, Calm

\* The answer that CreateClient gives after its sync.
Served(r) ==
    /\ pc[r] = "apply" /\ pc'[r] = "ok" /\ "sync" \notin Faults
    /\ Is(r, "create") /\ Row(r) \in db.peers
    => Row(r) \in live'.peers

\* Only the awg command itself answers a CreateClient after its sync.
LEMMA AnsweredByApply ==
    ASSUME TypeInv, ProgressInv, [Next]_vars, NEW r \in Reqs,
           pc[r] = "apply", pc'[r] = "ok"
    PROVE  Apply(r) \/ SyncFails(r)
<1> USE DEF TypeInv
<1>1. ASSUME NEW q \in Reqs, q # r, Keeps(q) \/ Stores(q) PROVE FALSE
  BY <1>1 DEF Keeps, Stores
<1>2. ASSUME NEW q \in Reqs, (\E o \in Ops : Receive(q, o)) \/ Serve(q) PROVE q = r
  BY <1>1, <1>2, CalmSteps, KeepingSteps, StoringSteps DEF Serve, Calm
<1>3. CASE Crash \/ BootFlush \/ BootSync \/ UNCHANGED vars
  <2>1. UNCHANGED pc \/ pc'[r] = "lost"
    BY <1>3 DEF Crash, BootFlush, BootSync, vars, InFlight, Working
  <2> QED
    BY <2>1
<1>4. CASE (\E o \in Ops : Receive(r, o)) \/ Serve(r)
  BY <1>4 DEF Serve, Receive, ReadRow, ReadPeers, NoFreeIP, Find, ReadFails, Write,
              MayWrite, Conflict, WriteFails, Flush, FlushFails, Truncate, Fill, FileFails,
              RemoveFile, RemoveFails, SyncRow, SyncPeers, List, ListFails, Pick, Finish, At
<1> QED
  BY <1>2, <1>3, <1>4 DEF Next

\* A client that is answered is on the interface: see AnsweredClientServed.
THEOREM AnsweredClientsServed == Spec => AnsweredClientServed
<1>1. Init => ServedInv
  BY DEF Init, ServedInv, Loaded
<1>2. ASSUME TypeInv, ProgressInv, ServedInv, [Next]_vars
      PROVE  \A r \in Reqs : Served(r)
  <2> SUFFICES ASSUME NEW r \in Reqs, pc[r] = "apply", pc'[r] = "ok", "sync" \notin Faults,
                      Is(r, "create"), Row(r) \in db.peers
               PROVE  Row(r) \in live'.peers
    BY DEF Served
  <2>1. Apply(r)
    BY <1>2, AnsweredByApply DEF SyncFails
  <2> QED
    BY <1>2, <2>1 DEF Apply, ServedInv, Loaded
<1>3. TypeInv /\ ProgressInv /\ ServedInv /\ [Next]_vars => [\A r \in Reqs : Served(r)]_vars
  BY <1>2
<1>4. Spec => [][\A r \in Reqs : Served(r)]_vars
  BY <1>1, <1>3, InitType, StepType, ProgressInit, ProgressStep, ServedStep, PTL DEF Spec
<1> QED
  BY <1>4 DEF AnsweredClientServed, Served

-----------------------------------------------------------------------------
(* FilesInv is an invariant.                                                *)

\* What was used once stays so.
LEMMA UsedStays ==
    ASSUME took \subseteq took', \A q \in took : op'[q] = op[q], NEW n, Used(n)
    PROVE  Used(n)'
BY DEF Used

\* A flush, and each operation on a client file, keep FilesInv.
LEMMA FileSteps ==
    ASSUME TypeInv, ProgressInv, RowsInv, FilesInv, NEW r \in Reqs,
           \/ Flush(r) \/ Truncate(r) \/ Fill(r) \/ FileFails(r) \/ RemoveFile(r)
           \/ (\E n \in Names : Pick(r, n))
    PROVE  FilesInv'
<1> USE DEF TypeInv
<1>1. r \in took /\ UNCHANGED <<op, took>>
  BY DEF Flush, Truncate, Fill, FileFails, RemoveFile, Pick, At, After, ProgressInv, Progress,
         stored, ghosts
<1>2. \A n : Used(n)' <=> Used(n)
  BY <1>1 DEF Used
<1>3. CASE Flush(r)
  <2>1. /\ UNCHANGED profile
        /\ \A q \in Reqs : q # r => pc'[q] = pc[q] /\ draft'[q] = draft[q]
    BY <1>3 DEF Flush, Go, TypeOK
  <2>2. CASE Is(r, "create")
    <3>1. draft'[r] = NewDraft(r) /\ NewDraft(r) # NoDraft
      BY <1>3, <2>2, NewDraftType, ServiceAssumption DEF Flush, TypeOK
    <3>2. NewDraft(r).name = op[r].name /\ Used(op[r].name)
      BY <1>1, <2>2 DEF NewDraft, Used, Is
    <3> QED
      BY <1>1, <1>2, <2>1, <3>1, <3>2 DEF FilesInv, Is
  <2>3. CASE ~Is(r, "create")
    <3>1. pc'[r] # "truncate" /\ draft'[r] = draft[r]
      BY <1>3, <2>3, OpFields DEF Flush, Go, Is, At, TypeOK, Shape, ShapeOf
    <3> QED
      BY <1>1, <1>2, <2>1, <3>1 DEF FilesInv, Is
  <2> QED
    BY <2>2, <2>3
<1>4. CASE Truncate(r)
  <2>1. Proceed(r, "fill") /\ "fill" \in Steps /\ "fill" \notin Answered
    BY <1>4 DEF Truncate, Steps, Working, Answered
  <2>2. /\ pc'[r] = "fill" /\ draft' = draft
        /\ \A q \in Reqs : q # r => pc'[q] = pc[q]
    BY <2>1, ProceedType
  <2>3. \A n \in Names : profile'[n] \in {profile[n], Empty}
    BY <1>4 DEF Truncate, TypeOK
  <2> QED
    BY <1>1, <1>2, <2>2, <2>3, ServiceAssumption DEF FilesInv, Is
<1>5. CASE Fill(r) \/ FileFails(r)
  <2>1. AfterFile(r) \in Steps /\ AfterFile(r) # "truncate"
    BY DEF AfterFile, Steps, Working
  <2>2. /\ pc'[r] # "truncate"
        /\ \A q \in Reqs : q # r => pc'[q] = pc[q]
        /\ draft'[r] = NoDraft
        /\ \A q \in Reqs : q # r => draft'[q] = draft[q]
    BY <1>5, <2>1, GoType DEF Fill, FileFails, TypeOK
  <2>3. ASSUME NEW n \in Names, profile'[n] \in Profiles PROVE Used(n)
    <3>1. profile'[n] = profile[n] \/ (draft[r] # NoDraft /\ draft[r].name = n)
      BY <1>5 DEF Fill, FileFails, TypeOK, stored
    <3> QED
      BY <2>3, <3>1 DEF FilesInv
  <2> QED
    BY <1>1, <1>2, <2>2, <2>3 DEF FilesInv, Is
<1>6. CASE RemoveFile(r)
  <2>1. /\ pc'[r] # "truncate"
        /\ \A q \in Reqs : q # r => pc'[q] = pc[q]
        /\ \A n \in Names : profile'[n] \in {profile[n], NoFile}
        /\ \A q \in Reqs : draft'[q] = draft[q] \/ (pc[q] = "fill" /\ draft'[q] = NoDraft)
    BY <1>6 DEF RemoveFile, Go, TypeOK
  <2> QED
    BY <1>1, <1>2, <2>1, ServiceAssumption DEF FilesInv, Is
<1>7. ASSUME NEW n \in Names, Pick(r, n) PROVE FilesInv'
  <2>1. UNCHANGED profile /\ \A q \in Reqs : q # r => pc'[q] = pc[q] /\ draft'[q] = draft[q]
    BY <1>7 DEF Pick, Go, TypeOK, stored
  <2>2. CASE Renewable(r, n) /\ Go(r, "truncate")
    <3>1. PICK x \in cfg[r].peers : x.name = n /\ draft' = [draft EXCEPT ![r] = Renewed(r, x)]
      BY <1>7, <2>2 DEF Pick, Go, TypeOK
    <3>2. draft'[r] = Renewed(r, x) /\ Renewed(r, x) # NoDraft
      BY <2>2, <3>1, RenewedType, ServiceAssumption DEF TypeOK
    <3>3. Renewed(r, x).name = x.name /\ Used(x.name)
      BY DEF RowsInv, Created, Renewed, Used
    <3>4. op[r].kind # "create"
      BY <1>7 DEF Pick, At, Shape, ShapeOf
    <3> QED
      BY <1>1, <1>2, <2>1, <3>2, <3>3, <3>4 DEF FilesInv, Is
  <2>3. CASE UNCHANGED <<draft, pc>>
    BY <1>1, <1>2, <2>1, <2>3 DEF FilesInv, Is
  <2> QED
    BY <1>7, <2>2, <2>3 DEF Pick
<1> QED
  BY <1>3, <1>4, <1>5, <1>6, <1>7

\* FilesInv is inductive.
LEMMA FilesStep ==
    TypeInv /\ ProgressInv /\ RowsInv /\ FilesInv /\ [Next]_vars => FilesInv'
<1> SUFFICES ASSUME TypeInv, ProgressInv, RowsInv, FilesInv, [Next]_vars PROVE FilesInv'
  OBVIOUS
<1>1. ASSUME NEW r \in Reqs, Calm(r) PROVE FilesInv'
  <2>1. \A n : Used(n) => Used(n)'
    BY <1>1, UsedStays DEF Calm, Keeps
  <2>2. \A q \in Reqs : draft'[q] \in {draft[q], NoDraft} /\ (q \in took => op'[q] = op[q])
    BY <1>1 DEF Calm, Keeps
  <2>3. \A q \in Reqs : pc'[q] = "truncate" => pc[q] = "truncate" /\ draft'[q] = draft[q]
    BY <1>1 DEF Calm, Keeps
  <2> QED
    BY <1>1, <2>1, <2>2, <2>3 DEF FilesInv, Is, Calm, Keeps
<1>2. ASSUME NEW r \in Reqs, Stores(r) PROVE FilesInv'
  <2>1. \A n : Used(n) => Used(n)'
    BY <1>2, UsedStays DEF Stores
  <2>2. \A q \in Reqs : draft'[q] \in {draft[q], NoDraft}
    BY <1>2 DEF Stores
  <2>3. \A q \in Reqs : pc'[q] = "truncate" => pc[q] = "truncate" /\ draft'[q] = draft[q]
    BY <1>2 DEF Stores
  <2> QED
    BY <1>2, <2>1, <2>2, <2>3 DEF FilesInv, Is, Stores
<1>3. CASE Crash \/ BootFlush \/ BootSync \/ UNCHANGED vars
  <2>1. /\ UNCHANGED <<took, op, profile>>
        /\ \/ \A q \in Reqs : pc'[q] # "truncate" /\ draft'[q] = NoDraft
           \/ UNCHANGED <<pc, draft>>
    BY <1>3, OtherSteps DEF Working
  <2> QED
    BY <2>1 DEF FilesInv, Used, Is
<1> QED
  BY <1>1, <1>2, <1>3, CalmSteps, FileSteps, StoringSteps DEF Next, Serve

\* No client has a file at the start.
LEMMA FilesInit == Init => FilesInv
BY ServiceAssumption DEF Init, FilesInv

-----------------------------------------------------------------------------
(* KeyInv is an invariant.                                                  *)

\* The row x of a client whose name nobody else has used, when x is stored and
\* the step leaves the lost requests lost.
KeptSoFar(x) ==
    /\ TypeInv /\ ProgressInv /\ RowsInv /\ FilesInv
    /\ x \in db.peers
    /\ Sole(x)
    /\ FileKept(x)
    /\ Cut => Cut'

\* What is known of such a row.
LEMMA KeptRow ==
    ASSUME NEW x, KeptSoFar(x)
    PROVE  /\ x.name \in Names /\ x.key \in Reqs /\ x.key \in took
           /\ op[x.key].kind = "create" /\ op[x.key].name = x.name
           /\ \A y : Created(y) /\ SameKeySameRow(y) /\ y.name = x.name => y = x
<1>1. x \in Rows /\ Created(x)
  BY ConfigWith DEF KeptSoFar, TypeInv, TypeOK, RowsInv
<1>2. ASSUME NEW y, Created(y), SameKeySameRow(y), y.name = x.name PROVE y = x
  <2>1. y.key = x.key
    BY <1>2 DEF KeptSoFar, Sole, Created
  <2> QED
    BY <1>2, <2>1 DEF KeptSoFar, SameKeySameRow
<1> QED
  BY <1>1, <1>2 DEF Created, Rows

\* Calm steps keep a file kept.
LEMMA CalmKeeps ==
    ASSUME NEW x, KeptSoFar(x), NEW r \in Reqs, Calm(r)
    PROVE  FileKept(x)'
<1>1. x.key \in Reqs /\ x.key \in took /\ op[x.key].kind = "create"
  BY KeptRow
<1>2. \A q \in Reqs : draft'[q] \in {draft[q], NoDraft}
  BY DEF Calm
<1>3. pc'[x.key] = "fill" => pc[x.key] = "fill" /\ draft'[x.key] = draft[x.key]
  BY <1>1 DEF Calm, Keeps
<1>4. pc'[x.key] \in Kept => pc[x.key] \in Kept
  BY <1>1 DEF Calm, Keeps, Is
<1>5. \A q \in Reqs : Refills(q, x) => Refills(q, x)'
  BY DEF Refills, Opens, Calm, Keeps
<1>6. UNCHANGED profile
  BY DEF Calm
<1> QED
  BY <1>2, <1>3, <1>4, <1>5, <1>6 DEF KeptSoFar, FileKept, Opens

\* Committed writes keep a file kept: they are others' writes.
LEMMA StoresKeeps ==
    ASSUME NEW x, KeptSoFar(x), NEW r \in Reqs, Stores(r)
    PROVE  FileKept(x)'
<1>1. x.key \in Reqs /\ x.key # r
  BY KeptRow, StoredRows DEF KeptSoFar
<1>2. \A q \in Reqs : draft'[q] \in {draft[q], NoDraft}
  BY DEF Stores
<1>3. pc'[x.key] = pc[x.key] /\ draft'[x.key] = draft[x.key]
  BY <1>1 DEF Stores
<1>4. ASSUME NEW q \in Reqs, Refills(q, x) PROVE Refills(q, x)'
  <2>1. q # r
    BY <1>4 DEF Refills, Stores, MayWrite, At
  <2> QED
    BY <1>4, <2>1 DEF Refills, Opens, Stores
<1>5. UNCHANGED profile
  BY DEF Stores
<1> QED
  BY <1>2, <1>3, <1>4, <1>5 DEF KeptSoFar, FileKept, Opens

\* A new row starts without a file and without anybody who writes one.
LEMMA StoredIsKept ==
    ASSUME TypeInv, ProgressInv, FilesInv, NEW r \in Reqs, Stores(r),
           NEW x \in db'.peers, Is(r, "create"), x = Row(r), Sole(x)'
    PROVE  FileKept(x)'
<1>1. x.name = op[r].name /\ x.key = r /\ r \notin took
  BY StoredRows DEF Row
<1>2. x.name \in Names
  BY WrittenType DEF Stores, Rows
<1>3. ~Used(x.name)
  <2> SUFFICES ASSUME NEW k \in took, op[k].kind = "create", op[k].name = x.name PROVE FALSE
    BY DEF Used
  <2>1. k = x.key
    BY DEF Sole, Stores
  <2> QED
    BY <1>1, <2>1
<1>4. profile'[x.name] \notin Profiles
  BY <1>2, <1>3 DEF FilesInv, Stores
<1>5. \A q \in Reqs : draft'[q] # NoDraft => draft'[q].name # x.name
  <2>1. \A q \in Reqs : draft'[q] \in {draft[q], NoDraft}
    BY DEF Stores
  <2> QED
    BY <1>3, <2>1 DEF FilesInv
<1>6. pc'[x.key] \notin {"fill"} \cup Kept
  BY <1>1 DEF Stores, Kept
<1> QED
  BY <1>4, <1>5, <1>6 DEF FileKept

\* A flush starts the file of a new client: its own.
LEMMA FlushKeeps ==
    ASSUME NEW x, KeptSoFar(x), NEW r \in Reqs, Flush(r)
    PROVE  FileKept(x)'
<1> USE DEF KeptSoFar, TypeInv
<1>1. /\ x.key \in Reqs /\ r \in took /\ pc[r] = "flush"
      /\ op[x.key].name = x.name
  BY KeptRow DEF Flush, At, ProgressInv, Progress, After
<1>2. PICK step \in {"truncate", "remove", "syncRow"} :
          Go(r, step) /\ (Is(r, "create") => step = "truncate")
  BY OpFields DEF Flush, Is, At, TypeOK, Shape, ShapeOf
<1>3. /\ pc'[r] = step
      /\ \A q \in Reqs : q # r => pc'[q] = pc[q] /\ draft'[q] = draft[q]
      /\ UNCHANGED profile
      /\ draft'[r] = IF Is(r, "create") THEN NewDraft(r) ELSE draft[r]
  BY <1>2 DEF Flush, Go, TypeOK
<1>4. ASSUME Is(r, "create"), op[r].name = x.name
      PROVE  Opens(NewDraft(r).profile, x)
  <2>1. r = x.key
    BY <1>1, <1>4 DEF Sole, Is
  <2>2. ip[r] = x.ip
    BY <1>1, <2>1 DEF RowsInv
  <2> QED
    BY <2>1, <2>2 DEF NewDraft, Opens
<1>5. ASSUME NEW q \in Reqs, draft'[q] # NoDraft, draft'[q].name = x.name
      PROVE  Opens(draft'[q].profile, x)
  <2>1. CASE q = r /\ Is(r, "create")
    BY <1>3, <1>4, <1>5, <2>1 DEF NewDraft
  <2>2. CASE ~(q = r /\ Is(r, "create"))
    <3>1. draft'[q] = draft[q]
      BY <1>3, <2>2
    <3> QED
      BY <1>5, <3>1 DEF FileKept
  <2> QED
    BY <2>1, <2>2
<1>6. ASSUME x.key = r PROVE pc'[x.key] \notin {"fill"} \cup Kept
  BY <1>2, <1>3, <1>6, KeptRow DEF Kept, Is
<1>7. ASSUME NEW q \in Reqs, Refills(q, x) PROVE Refills(q, x)'
  BY <1>1, <1>3, <1>7 DEF Refills, Opens
<1> QED
  BY <1>1, <1>3, <1>5, <1>6, <1>7 DEF FileKept, Opens

\* Who truncates a file holds what belongs in it.
LEMMA TruncateKeeps ==
    ASSUME NEW x, KeptSoFar(x), NEW r \in Reqs, Truncate(r)
    PROVE  FileKept(x)'
<1> USE DEF KeptSoFar, TypeInv
<1>1. x.key \in Reqs /\ x.name \in Names /\ op[x.key].kind = "create" /\ op[x.key].name = x.name
  BY KeptRow
<1>2. /\ pc[r] = "truncate" /\ draft[r] # NoDraft
      /\ Is(r, "create") => draft[r].name = op[r].name
  BY DEF Truncate, At, FilesInv
<1>3. Proceed(r, "fill") /\ "fill" \in Steps /\ "fill" \notin Answered
  BY DEF Truncate, Steps, Working, Answered
<1>4. /\ pc'[r] = "fill" /\ draft' = draft
      /\ \A q \in Reqs : q # r => pc'[q] = pc[q]
  BY <1>3, ProceedType
<1>5. ASSUME NEW q \in Reqs, Refills(q, x) PROVE Refills(q, x)'
  BY <1>2, <1>4, <1>5 DEF Refills, Opens
<1>6. CASE draft[r].name = x.name
  <2>1. profile'[x.name] = Empty
    BY <1>1, <1>6 DEF Truncate, TypeOK
  <2>2. Refills(r, x)'
    BY <1>2, <1>4, <1>6 DEF Refills, FileKept, Opens
  <2> QED
    BY <1>1, <1>2, <1>4, <2>1, <2>2, ServiceAssumption DEF FileKept, Opens
<1>7. CASE draft[r].name # x.name
  <2>1. profile'[x.name] = profile[x.name]
    BY <1>1, <1>7 DEF Truncate, TypeOK
  <2>2. x.key # r
    BY <1>1, <1>2, <1>7 DEF Is
  <2> QED
    BY <1>1, <1>4, <1>5, <2>1, <2>2 DEF FileKept, Opens
<1> QED
  BY <1>6, <1>7

\* What is written is what belongs in the file.
LEMMA FillKeeps ==
    ASSUME NEW x, KeptSoFar(x), NEW r \in Reqs, Fill(r)
    PROVE  FileKept(x)'
<1> USE DEF KeptSoFar, TypeInv
<1>1. x.key \in Reqs /\ x.name \in Names /\ op[x.key].kind = "create" /\ op[x.key].name = x.name
  BY KeptRow
<1>2. /\ pc[r] = "fill"
      /\ draft[r] # NoDraft /\ Is(r, "create") => draft[r].name = op[r].name
  BY DEF Fill, At, FilesInv
<1>3. AfterFile(r) \in Steps /\ AfterFile(r) # "fill"
  BY DEF AfterFile, Steps, Working
<1>4. /\ pc'[r] # "fill"
      /\ \A q \in Reqs : q # r => pc'[q] = pc[q] /\ draft'[q] = draft[q]
      /\ draft'[r] = NoDraft
  BY <1>3, GoType DEF Fill, TypeOK
<1>5. ASSUME NEW q \in Reqs, q # r, Refills(q, x) PROVE Refills(q, x)'
  BY <1>4, <1>5 DEF Refills, Opens
<1>6. CASE draft[r] # NoDraft /\ draft[r].name = x.name
  <2>1. draft[r].profile \in Profiles
    BY <1>6 DEF TypeOK
  <2>2. profile'[x.name] = draft[r].profile /\ Opens(draft[r].profile, x)
    BY <1>1, <1>6 DEF Fill, TypeOK, FileKept
  <2> QED
    BY <1>1, <1>4, <2>1, <2>2 DEF FileKept, Opens
<1>7. CASE ~(draft[r] # NoDraft /\ draft[r].name = x.name)
  <2>1. profile'[x.name] = profile[x.name]
    BY <1>1, <1>7 DEF Fill, TypeOK
  <2>2. x.key # r
    BY <1>1, <1>2, <1>7 DEF Is, FileKept
  <2>3. ~Refills(r, x)
    BY <1>7 DEF Refills
  <2> QED
    BY <1>1, <1>4, <1>5, <2>1, <2>2, <2>3 DEF FileKept, Opens
<1> QED
  BY <1>6, <1>7

\* Nobody who is deleting has the name of this client.
LEMMA RemoveKeeps ==
    ASSUME NEW x, KeptSoFar(x), NEW r \in Reqs, RemoveFile(r)
    PROVE  FileKept(x)'
<1> USE DEF KeptSoFar, TypeInv
<1>1. x.key \in Reqs /\ x.name \in Names /\ op[x.key].kind = "create" /\ op[x.key].name = x.name
  BY KeptRow
<1>2. pc[r] = "remove" /\ r \in took /\ op[r].kind = "delete"
  BY DEF RemoveFile, At, Shape, ShapeOf, ProgressInv, Progress, After
<1>3. op[r].name # x.name
  BY <1>1, <1>2 DEF Sole
<1>4. /\ pc'[r] = "syncRow"
      /\ \A q \in Reqs : q # r => pc'[q] = pc[q]
      /\ profile'[x.name] = profile[x.name]
      /\ \A q \in Reqs : \/ draft'[q] = draft[q]
                          \/ /\ draft[q] # NoDraft /\ draft[q].name # x.name
                             /\ draft'[q] = NoDraft
  BY <1>1, <1>3 DEF RemoveFile, Go, TypeOK
<1>5. x.key # r
  BY <1>1, <1>2
<1>6. draft[x.key] # NoDraft => draft[x.key].name = x.name
  BY <1>1 DEF FilesInv, Is
<1>7. ASSUME NEW q \in Reqs, Refills(q, x) PROVE Refills(q, x)'
  BY <1>2, <1>4, <1>7 DEF Refills, Opens
<1> QED
  BY <1>1, <1>4, <1>5, <1>6, <1>7 DEF FileKept, Opens

\* A regeneration takes the key from the file, and the rest from the row.
LEMMA PickKeeps ==
    ASSUME NEW x, KeptSoFar(x), NEW r \in Reqs, NEW n \in Names, Pick(r, n)
    PROVE  FileKept(x)'
<1> USE DEF KeptSoFar, TypeInv
<1>1. x.key \in Reqs /\ op[x.key].kind = "create"
  BY KeptRow
<1>2. pc[r] = "pick" /\ op[r].kind = "update" /\ x.key # r
  BY <1>1 DEF Pick, At, Shape, ShapeOf
<1>3. UNCHANGED profile
  BY DEF Pick, stored
<1>4. CASE UNCHANGED <<draft, pc>>
  BY <1>3, <1>4 DEF FileKept, Refills, Opens
<1>5. CASE Renewable(r, n) /\ Go(r, "truncate")
  <2>1. PICK y \in cfg[r].peers : y.name = n /\ draft' = [draft EXCEPT ![r] = Renewed(r, y)]
    BY <1>5 DEF Pick, Go, TypeOK
  <2>2. /\ \A q \in Reqs : q # r => pc'[q] = pc[q] /\ draft'[q] = draft[q]
        /\ draft'[r] = Renewed(r, y)
    BY <1>5, <2>1 DEF Go, TypeOK
  <2>3. ASSUME y.name = x.name PROVE Opens(Renewed(r, y).profile, x)
    <3>1. y = x
      BY <2>3, KeptRow DEF RowsInv
    <3>2. profile[x.name] \in Profiles
      BY <1>5, <2>1, <3>1, RenewedType
    <3> QED
      BY <3>1, <3>2 DEF FileKept, Renewed, Opens
  <2>4. Renewed(r, y).name = y.name
    BY DEF Renewed
  <2>5. ASSUME NEW q \in Reqs, Refills(q, x) PROVE Refills(q, x)'
    BY <1>2, <2>2, <2>5 DEF Refills, Opens
  <2>6. ASSUME NEW q \in Reqs, draft'[q] # NoDraft, draft'[q].name = x.name
        PROVE  Opens(draft'[q].profile, x)
    BY <2>2, <2>3, <2>4, <2>6 DEF FileKept
  <2> QED
    BY <1>1, <1>2, <1>3, <2>2, <2>5, <2>6 DEF FileKept, Opens
<1> QED
  BY <1>4, <1>5 DEF Pick

\* A file that fails is forgotten, and may be lost.
LEMMA FileFailsKeeps ==
    ASSUME NEW x, KeptSoFar(x), NEW r \in Reqs, FileFails(r)
    PROVE  FileKept(x)'
<1> USE DEF KeptSoFar, TypeInv
<1>1. x.key \in Reqs
  BY KeptRow
<1>2. AfterFile(r) \in Steps /\ AfterFile(r) # "fill" /\ "profile" \in Faults /\ UNCHANGED profile
  BY DEF FileFails, AfterFile, Steps, Working, stored
<1>3. /\ pc'[r] # "fill"
      /\ \A q \in Reqs : q # r => pc'[q] = pc[q] /\ draft'[q] = draft[q]
      /\ draft'[r] = NoDraft
  BY <1>2, GoType DEF FileFails, TypeOK
<1> QED
  BY <1>1, <1>2, <1>3 DEF FileKept, Opens

\* Whoever was refilling a file when the process died was regenerating it.
LEMMA CrashKeeps ==
    ASSUME NEW x, KeptSoFar(x), Crash
    PROVE  FileKept(x)'
<1> USE DEF KeptSoFar, TypeInv
<1>1. x.key \in Reqs /\ op[x.key].kind = "create" /\ op[x.key].name = x.name
  BY KeptRow
<1>2. /\ UNCHANGED <<op, profile>>
      /\ \A q \in Reqs : /\ pc'[q] = IF pc[q] \in Working THEN "lost" ELSE pc[q]
                         /\ draft'[q] = NoDraft
  BY OtherSteps DEF Crash, InFlight, TypeOK
<1>3. pc'[x.key] \in Kept => pc'[x.key] = pc[x.key]
  BY <1>1, <1>2 DEF Kept
<1>4. pc'[x.key] # "fill"
  BY <1>1, <1>2 DEF Working
<1>5. ASSUME NEW r \in Reqs, Refills(r, x), pc[x.key] # "fill" PROVE Cut'
  <2>1. pc[r] = "fill" /\ draft[r] # NoDraft /\ r # x.key /\ r \in took
    BY <1>5 DEF Refills, FilesInv
  <2>2. op[r].kind # "create"
    BY <1>5, <2>1, <1>1 DEF Sole, FilesInv, Refills, Is
  <2>3. op[r] # NoOp /\ op[r].kind # "delete"
    BY <2>1 DEF Shape, ShapeOf
  <2>4. op[r].kind = "update"
    BY <2>2, <2>3, OpFields DEF TypeOK
  <2>5. pc'[r] = "lost"
    BY <2>1, <1>2 DEF Working
  <2> QED
    BY <1>2, <2>4, <2>5 DEF Cut, Is
<1>6. "fill" \notin Kept
  BY DEF Kept
<1> QED
  BY <1>1, <1>2, <1>3, <1>4, <1>5, <1>6 DEF FileKept, Opens

\* Who is answered, or lost, stays so.
LEMMA CutStays == TypeInv /\ ProgressInv /\ Cut /\ [Next]_vars => Cut'
<1> SUFFICES ASSUME TypeInv, ProgressInv, Cut, [Next]_vars PROVE Cut'
  OBVIOUS
<1>1. PICK q \in Reqs : pc[q] = "lost" /\ Is(q, "update")
  BY DEF Cut
<1>2. SUFFICES pc'[q] = "lost" /\ op'[q] = op[q]
  BY <1>1, <1>2 DEF Cut, Is
<1>3. ASSUME NEW r \in Reqs, NEW o \in Ops, Receive(r, o) PROVE pc'[q] = "lost" /\ op'[q] = op[q]
  BY <1>1, <1>3 DEF Receive, Go, At, TypeInv, TypeOK
<1>4. ASSUME NEW r \in Reqs, Serve(r) PROVE pc'[q] = "lost" /\ op'[q] = op[q]
  BY <1>1, <1>4, ServeMoves DEF Working
<1>5. CASE Crash \/ BootFlush \/ BootSync \/ UNCHANGED vars
  BY <1>1, <1>5 DEF Crash, BootFlush, BootSync, vars, InFlight, Working, TypeInv, TypeOK
<1> QED
  BY <1>3, <1>4, <1>5 DEF Next

\* KeyInv is inductive.
LEMMA KeyStep ==
    TypeInv /\ ProgressInv /\ RowsInv /\ FilesInv /\ KeyInv /\ [Next]_vars => KeyInv'
<1> SUFFICES ASSUME TypeInv, ProgressInv, RowsInv, FilesInv, KeyInv, [Next]_vars,
                    NEW x \in db'.peers, Sole(x)'
             PROVE  FileKept(x)'
  BY DEF KeyInv
<1>1. ASSUME took \subseteq took', \A q \in took : op'[q] = op[q], x \in db.peers
      PROVE  KeptSoFar(x)
  BY <1>1, CutStays DEF KeptSoFar, KeyInv, Sole
<1>2. ASSUME NEW r \in Reqs, Calm(r) PROVE FileKept(x)'
  BY <1>1, <1>2, CalmKeeps DEF Calm, Keeps
<1>3. ASSUME NEW r \in Reqs, Stores(r) PROVE FileKept(x)'
  <2>1. CASE x \in db.peers
    BY <1>1, <1>3, <2>1, StoresKeeps DEF Stores
  <2>2. CASE x \notin db.peers
    BY <1>3, <2>2, StoredRows, StoredIsKept
  <2> QED
    BY <2>1, <2>2
<1>4. ASSUME NEW r \in Reqs,
             \/ Flush(r) \/ Truncate(r) \/ Fill(r) \/ FileFails(r) \/ RemoveFile(r)
             \/ (\E n \in Names : Pick(r, n))
      PROVE  FileKept(x)'
  <2>1. UNCHANGED <<db, took, op>>
    BY <1>4 DEF Flush, Truncate, Fill, FileFails, RemoveFile, Pick, stored, ghosts
  <2>2. KeptSoFar(x)
    BY <1>1, <2>1
  <2> QED
    BY <1>4, <2>2, FlushKeeps, TruncateKeeps, FillKeeps, FileFailsKeeps, RemoveKeeps, PickKeeps
<1>5. CASE Crash \/ BootFlush \/ BootSync \/ UNCHANGED vars
  <2>1. UNCHANGED <<db, took, op, profile>>
    BY <1>5, OtherSteps
  <2>2. KeptSoFar(x)
    BY <1>1, <2>1
  <2>3. CASE Crash
    BY <2>2, <2>3, CrashKeeps
  <2>4. CASE BootFlush \/ BootSync \/ UNCHANGED vars
    <3>1. UNCHANGED <<pc, draft>>
      BY <2>4 DEF BootFlush, BootSync, vars, locals
    <3> QED
      BY <2>1, <2>2, <3>1 DEF KeptSoFar, FileKept, Refills, Opens
  <2> QED
    BY <1>5, <2>3, <2>4
<1> QED
  BY <1>2, <1>3, <1>4, <1>5, CalmSteps, StoringSteps DEF Next, Serve

\* Nobody is stored at the start.
LEMMA KeyInit == Init => KeyInv
BY DEF Init, InitConfig, KeyInv

\* The private keys survive all regenerations: see KeyKept.
THEOREM KeysAreKept == Spec => []KeyKept
<1>1. ASSUME TypeInv, ProgressInv, KeyInv PROVE KeyKept
  <2> SUFFICES ASSUME NEW x \in db.peers, Concerned(x.name) = {x.key}, pc[x.key] \in Kept
               PROVE  \/ /\ profile[x.name] \notin {NoFile, Empty}
                         /\ Opens(profile[x.name], x)
                      \/ /\ profile[x.name] = Empty
                         /\ Cut \/ \E r \in Reqs : Refills(r, x)
                      \/ profile[x.name] \in {NoFile, Empty} /\ "profile" \in Faults
    BY DEF KeyKept, Kept, Refills, Cut
  <2>1. Sole(x)
    <3> SUFFICES ASSUME NEW q \in took, op[q].kind \in {"create", "delete"},
                        op[q].name = x.name
                 PROVE  q = x.key
      BY DEF Sole
    <3>1. q \in Reqs /\ pc[q] # "refused" /\ op[q] # NoOp
      BY <1>1 DEF TypeInv, TypeOK, Shape, ShapeOf, ProgressInv, Progress, Before
    <3>2. q \in Concerned(x.name)
      BY <3>1 DEF Concerned
    <3> QED
      BY <3>2
  <2>2. FileKept(x)
    BY <1>1, <2>1 DEF KeyInv
  <2>3. profile[x.name] \in Profiles \cup {NoFile, Empty}
    BY <1>1, ConfigWith DEF TypeInv, TypeOK, Rows
  <2> QED
    BY <2>2, <2>3, ServiceAssumption DEF FileKept
<1>2. Spec => [](TypeInv /\ ProgressInv /\ RowsInv /\ FilesInv /\ KeyInv)
  BY InitType, StepType, ProgressInit, ProgressStep, RowsInit, RowsStep,
     FilesInit, FilesStep, KeyInit, KeyStep, PTL DEF Spec
<1> QED
  BY <1>1, <1>2, PTL

-----------------------------------------------------------------------------
(* Requests one at a time: what overlapping requests break holds without     *)
(* them, through failures and crashes.                                      *)

\* No two requests are being served.
Alone == \A q, r \in Reqs : pc[q] \in Working /\ pc[r] \in Working => q = r

\* Between a write and its flush, awg0.conf may lack what was written; an
\* UpdateServerConfig has the stored peers in its hands.
PeersInv ==
    /\ (\A r \in Reqs : pc[r] # "flush") /\ ~behind => file.peers = db.peers
    /\ \A r \in Reqs : pc[r] \in {"save", "flush"} /\ Is(r, "update")
                            => cfg[r].peers = db.peers

\* r has changed the database and has not applied it to the interface.
Unsettled(r) ==
    \/ pc[r] \in {"flush", "remove", "syncRow", "syncPeers", "apply"}
    \/ pc[r] \in {"truncate", "fill"} /\ Is(r, "create")

\* What a sync has loaded is what is stored.
LiveInv ==
    /\ (\A r \in Reqs : ~Unsettled(r)) /\ ~unsynced => live = Stored
    /\ \A r \in Reqs : pc[r] = "syncPeers" => snap[r].settings = Listening(db.settings)
    /\ \A r \in Reqs : pc[r] = "apply" => snap[r] = Stored

\* r has still to write or to remove the client file n.
Owed(r, n) ==
    \/ pc[r] \in {"flush", "truncate", "fill"} /\ Is(r, "create") /\ op[r].name = n
    \/ pc[r] \in {"flush", "remove"} /\ Is(r, "delete") /\ op[r].name = n
    \/ pc[r] = "fill" /\ Is(r, "update") /\ draft[r].name = n

\* r has changed the settings, and has still to bring them to the client file n.
Stale(r, n) ==
    /\ \/ pc[r] \in {"flush", "syncRow", "syncPeers", "apply", "list"}
       \/ pc[r] \in {"pick", "truncate", "fill"} /\ n \in todo[r]
       \/ pc[r] = "truncate" /\ draft[r].name = n
    /\ Is(r, "update")

\* The client of name n has a file that lets it in, or there is neither.
Right(n) ==
    /\ (\A x \in db.peers : x.name # n) => profile[n] = NoFile
    /\ \A x \in db.peers : x.name = n => profile[n] \in Profiles /\ Opens(profile[n], x)

\* The file of the client of name n has the settings of the server.
Fresh(n) == \A x \in db.peers : x.name = n => profile[n].settings = db.settings

\* The file n is as the database says, but for what is owed and stale.
FileCurrent(n) ==
    (\A r \in Reqs : ~Owed(r, n)) => Right(n) /\ ((\A r \in Reqs : ~Stale(r, n)) => Fresh(n))

\* What r has in its hands is as the database says.
InHand(r) ==
    /\ pc[r] \in {"peers", "insert", "flush"} /\ Is(r, "create")
          => cfg[r].settings = db.settings
    /\ pc[r] \in {"flush", "truncate", "fill"} /\ Is(r, "create") => Row(r) \in db.peers
    /\ pc[r] \in {"flush", "remove"} /\ Is(r, "delete")
          => \A x \in db.peers : x.name # op[r].name
    /\ pc[r] \in {"save"} \cup (After \cap Working) /\ Is(r, "update")
          => cfg[r].peers = db.peers
    /\ pc[r] \in After \cap Working /\ Is(r, "update") => cfg[r].settings = db.settings
    /\ pc[r] \in {"truncate", "fill"} =>
          /\ draft[r] # NoDraft
          /\ Is(r, "create") => draft[r].name = op[r].name
          /\ draft[r].profile.settings = db.settings
          /\ \E x \in db.peers : x.name = draft[r].name /\ Opens(draft[r].profile, x)

\* No two rows have a name in common.
OneRowPerName == \A x, y \in db.peers : x.name = y.name => x = y

ProfilesInv ==
    Smooth => /\ OneRowPerName
              /\ \A n \in Names : FileCurrent(n)
              /\ \A r \in Reqs : InHand(r)

-----------------------------------------------------------------------------
(* One request at a time.                                                   *)

\* With room for one request, one is received when none is in flight.
LEMMA NoneInFlight ==
    ASSUME MaxInFlight = 1, Alone, Cardinality(InFlight) < MaxInFlight
    PROVE  \A q \in Reqs : pc[q] \notin Working
<1> SUFFICES ASSUME NEW q \in Reqs, pc[q] \in Working PROVE FALSE
  OBVIOUS
<1>1. InFlight = {q}
  BY DEF InFlight, Alone
<1>2. Cardinality({q}) = 1
  BY FS_Singleton
<1> QED
  BY <1>1, <1>2

\* Alone is inductive.
LEMMA AloneStep ==
    ASSUME MaxInFlight = 1
    PROVE  TypeInv /\ ProgressInv /\ Alone /\ [Next]_vars => Alone'
<1> SUFFICES ASSUME TypeInv, ProgressInv, Alone, [Next]_vars PROVE Alone'
  OBVIOUS
<1>1. ASSUME NEW r \in Reqs, NEW o \in Ops, Receive(r, o) PROVE Alone'
  <2>1. \A q \in Reqs : pc[q] \notin Working
    BY <1>1, NoneInFlight DEF Receive
  <2>2. \A q \in Reqs : q # r => pc'[q] = pc[q]
    BY <1>1 DEF Receive, Go, TypeInv, TypeOK
  <2> QED
    BY <2>1, <2>2 DEF Alone
<1>2. ASSUME NEW r \in Reqs, Serve(r) PROVE Alone'
  BY <1>2, ServeMoves DEF Alone
<1>3. CASE Crash \/ BootFlush \/ BootSync \/ UNCHANGED vars
  BY <1>3, OtherSteps DEF Alone
<1> QED
  BY <1>1, <1>2, <1>3 DEF Next

\* At the start no request has come.
LEMMA AloneInit == Init => Alone
BY DEF Init, Alone, Working

\* Whoever is served is served alone.
LEMMA OnlyOne ==
    ASSUME TypeInv, ProgressInv, Alone, NEW r \in Reqs, Serve(r)
    PROVE  \A q \in Reqs : q # r => pc[q] \notin Working /\ pc'[q] = pc[q]
BY ServeMoves DEF Alone

-----------------------------------------------------------------------------
(* awg0.conf has the stored peers.                                          *)

\* PeersInv is inductive when requests come one at a time.
LEMMA PeersStep ==
    ASSUME MaxInFlight = 1
    PROVE  TypeInv /\ ProgressInv /\ Alone /\ PeersInv /\ [Next]_vars => PeersInv'
<1> SUFFICES ASSUME TypeInv, ProgressInv, Alone, PeersInv, [Next]_vars PROVE PeersInv'
  OBVIOUS
<1>1. ASSUME NEW r \in Reqs, NEW o \in Ops, Receive(r, o) PROVE PeersInv'
  <2>1. \A q \in Reqs : pc[q] \notin Working
    BY <1>1, NoneInFlight DEF Receive
  <2>2. /\ \A q \in Reqs : pc'[q] \notin {"save", "flush"}
        /\ UNCHANGED <<db, file, behind>>
    BY <1>1, <2>1 DEF Receive, Go, TypeInv, TypeOK, Working, stored, ghosts
  <2> QED
    BY <2>1, <2>2 DEF PeersInv, Working
<1>2. ASSUME NEW r \in Reqs, Serve(r) PROVE PeersInv'
  <2>1. \A q \in Reqs : q # r => pc[q] \notin {"save", "flush"} /\ pc'[q] = pc[q]
    BY <1>2, OnlyOne DEF Working
  <2>2. op' = op
    BY <1>2, ServeMoves
  <2>3. CASE Quiet(r)
    BY <2>1, <2>2, <2>3 DEF Quiet, PeersInv
  <2>4. CASE Write(r)
    <3>1. pc'[r] = "flush"
      BY <2>4 DEF Write, Go, TypeInv, TypeOK
    <3>2. Is(r, "update") => pc[r] = "save"
      BY <2>4 DEF Write, MayWrite, At, Is, TypeInv, Shape, ShapeOf
    <3>3. Is(r, "update") => cfg'[r].peers = cfg[r].peers /\ db'.peers = db.peers
      BY <2>4 DEF Write, Written, Is, TypeInv, TypeOK, Configs
    <3> QED
      BY <2>1, <2>2, <3>1, <3>2, <3>3 DEF PeersInv, Is
  <2>5. CASE WriteFails(r)
    <3>1. pc[r] # "flush" /\ pc'[r] = "failed"
      BY <2>5, ProceedType
         DEF WriteFails, MayWrite, At, Steps, Answered, TypeInv
    <3>2. UNCHANGED <<db, file, behind>> \/ behind' = TRUE
      BY <2>5 DEF WriteFails, ghosts
    <3> QED
      BY <2>1, <3>1, <3>2 DEF PeersInv
  <2>6. CASE Flush(r)
    <3>1. pc[r] = "flush" /\ pc'[r] \notin {"save", "flush"} /\ UNCHANGED db
      BY <2>6, OpFields DEF Flush, At, Go, Is, TypeInv, TypeOK, Shape, ShapeOf
    <3>2. file'.peers = db.peers
      BY <2>6, <3>1 DEF Flush, FlushedConfig, Stored, PeersInv
    <3> QED
      BY <2>1, <3>1, <3>2 DEF PeersInv
  <2>7. CASE FlushFails(r)
    <3>1. behind' = TRUE /\ pc'[r] = "failed"
      BY <2>7, ProceedType DEF FlushFails, Steps, Answered, TypeInv
    <3> QED
      BY <2>1, <3>1 DEF PeersInv
  <2> QED
    BY <1>2, <2>3, <2>4, <2>5, <2>6, <2>7, QuietSteps DEF Serve
<1>3. CASE Crash
  <2>1. behind' = TRUE /\ \A q \in Reqs : pc'[q] \notin {"save", "flush"}
    BY <1>3 DEF Crash, InFlight, Working
  <2> QED
    BY <2>1 DEF PeersInv
<1>4. CASE BootFlush \/ BootSync \/ UNCHANGED vars
  BY <1>4 DEF BootFlush, BootSync, vars, stored, locals, ghosts, Stored, PeersInv, Is
<1> QED
  BY <1>1, <1>2, <1>3, <1>4 DEF Next

\* When requests come one at a time, awg0.conf has the stored peers after
\* every change: see FileHasPeers.
THEOREM PeersReachTheFile ==
    ASSUME MaxInFlight = 1
    PROVE  Spec => []FileHasPeers
<1>1. Init => PeersInv
  BY DEF Init, PeersInv
<1>2. PeersInv => FileHasPeers
  BY DEF PeersInv, FileHasPeers, AtRest, InFlight, Working
<1>3. Spec => [](TypeInv /\ ProgressInv /\ Alone /\ PeersInv)
  BY <1>1, InitType, StepType, ProgressInit, ProgressStep, AloneInit, AloneStep, PeersStep,
     PTL DEF Spec
<1> QED
  BY <1>2, <1>3, PTL

-----------------------------------------------------------------------------
(* The interface is in line with the database.                              *)

\* A step of r that leaves the database and the interface alone, and does not
\* take from r what it has still to apply.
Unapplied(r) ==
    /\ UNCHANGED <<db, op, live>>
    /\ unsynced' \in {unsynced, TRUE}
    /\ pc'[r] \notin {"syncPeers", "apply"}
    /\ Unsettled(r) => Unsettled(r)' \/ unsynced' = TRUE

\* All steps but the committed writes and those of a sync.
LEMMA UnappliedSteps ==
    ASSUME TypeInv, NEW r \in Reqs,
           \/ ReadRow(r) \/ ReadPeers(r) \/ NoFreeIP(r) \/ Find(r) \/ ReadFails(r)
           \/ Conflict(r) \/ Flush(r) \/ FlushFails(r)
           \/ Truncate(r) \/ Fill(r) \/ FileFails(r) \/ RemoveFile(r) \/ RemoveFails(r)
           \/ SyncFails(r)
           \/ List(r) \/ ListFails(r) \/ (\E n \in Names : Pick(r, n)) \/ Finish(r)
    PROVE  Unapplied(r)
<1> USE DEF TypeInv
<1>1. ASSUME NEW step \in Steps, Go(r, step) \/ Proceed(r, step) PROVE pc'[r] = step
  BY <1>1, GoType, ProceedType
<1>2. CASE NoFreeIP(r) \/ Find(r) \/ ReadFails(r) \/ Conflict(r)
  BY <1>1, <1>2
     DEF NoFreeIP, Find, ReadFails, Conflict, At, Unapplied, Unsettled, Steps, Working,
         Answered, stored, ghosts
<1>3. CASE ReadRow(r) \/ ReadPeers(r) \/ List(r)
  BY <1>1, <1>3
     DEF ReadRow, ReadPeers, List, At, Unapplied, Unsettled, Steps, Working, stored, ghosts
<1>4. CASE FlushFails(r)
  BY <1>1, <1>4 DEF FlushFails, Unapplied, Steps, Answered, stored
<1>5. CASE SyncFails(r)
  <2>1. AfterSync(r) \in Steps \ {"syncPeers", "apply"}
    BY DEF AfterSync, Steps, Working, Answered
  <2> QED
    BY <1>1, <1>5, <2>1 DEF SyncFails, Unapplied, stored
<1>6. CASE Flush(r)
  <2>1. op[r].kind \in {"create", "delete", "update"} /\ op' = op
    BY <1>6, OpFields DEF Flush, At, TypeOK, Shape, ShapeOf
  <2>2. \/ Is(r, "create") /\ Go(r, "truncate")
        \/ Go(r, "remove")
        \/ Go(r, "syncRow")
    BY <1>6, <2>1 DEF Flush, Is
  <2>3. Unsettled(r)' /\ pc'[r] \notin {"syncPeers", "apply"}
    BY <1>1, <2>1, <2>2 DEF Unsettled, Is, Steps, Working
  <2> QED
    BY <1>6, <2>3 DEF Flush, Unapplied
<1>7. CASE Truncate(r)
  BY <1>1, <1>7 DEF Truncate, At, Unapplied, Unsettled, Is, Steps, Working, ghosts
<1>8. CASE Fill(r) \/ FileFails(r)
  <2>1. \/ Is(r, "create") /\ pc'[r] = "syncRow"
        \/ ~Is(r, "create") /\ pc'[r] = "pick"
    BY <1>1, <1>8 DEF Fill, FileFails, AfterFile, Steps, Working
  <2> QED
    BY <1>8, <2>1 DEF Fill, FileFails, At, Unapplied, Unsettled, stored, ghosts
<1>9. CASE RemoveFile(r) \/ RemoveFails(r)
  BY <1>1, <1>9
     DEF RemoveFile, RemoveFails, Unapplied, Unsettled, Steps, Working, stored, ghosts
<1>10. CASE ListFails(r) \/ Finish(r)
  BY <1>1, <1>10
     DEF ListFails, Finish, At, Unapplied, Unsettled, Steps, Answered, stored, ghosts
<1>11. ASSUME NEW n \in Names, Pick(r, n) PROVE Unapplied(r)
  BY <1>1, <1>11 DEF Pick, At, Unapplied, Unsettled, Steps, Working, stored, ghosts
<1> QED
  BY <1>2, <1>3, <1>4, <1>5, <1>6, <1>7, <1>8, <1>9, <1>10, <1>11

\* LiveInv is inductive when requests come one at a time.
LEMMA LiveStep ==
    ASSUME MaxInFlight = 1
    PROVE  TypeInv /\ ProgressInv /\ Alone /\ LiveInv /\ [Next]_vars => LiveInv'
<1> SUFFICES ASSUME TypeInv, ProgressInv, Alone, LiveInv, [Next]_vars PROVE LiveInv'
  OBVIOUS
<1> USE DEF TypeInv
<1>1. ASSUME NEW r \in Reqs, NEW o \in Ops, Receive(r, o) PROVE LiveInv'
  <2>1. \A q \in Reqs : pc[q] \notin Working
    BY <1>1, NoneInFlight DEF Receive
  <2>2. /\ \A q \in Reqs : ~Unsettled(q)
        /\ \A q \in Reqs : pc'[q] \notin {"syncPeers", "apply"}
        /\ UNCHANGED <<db, live, unsynced>>
    BY <1>1, <2>1 DEF Receive, Go, TypeOK, Working, Unsettled, stored, ghosts
  <2> QED
    BY <2>2 DEF LiveInv, Stored, Listening
<1>2. ASSUME NEW r \in Reqs, Serve(r) PROVE LiveInv'
  <2>1. \A q \in Reqs :
          q # r => /\ ~Unsettled(q) /\ ~Unsettled(q)'
                   /\ pc'[q] \notin {"syncPeers", "apply"}
    BY <1>2, OnlyOne DEF Working, Unsettled
  <2>2. CASE Unapplied(r)
    <3>1. ASSUME \A q \in Reqs : ~Unsettled(q)', ~unsynced' PROVE live' = Stored'
      <4>1. ~Unsettled(r)' /\ unsynced' # TRUE
        BY <3>1
      <4>2. unsynced' = unsynced /\ ~Unsettled(r)
        BY <2>2, <4>1 DEF Unapplied
      <4>3. ~unsynced
        BY <3>1, <4>2
      <4> QED
        BY <2>1, <2>2, <4>2, <4>3 DEF Unapplied, LiveInv, Stored, Listening
    <3> QED
      BY <2>1, <2>2, <3>1 DEF LiveInv, Unapplied
  <2>3. CASE Write(r)
    <3>1. pc'[r] = "flush"
      BY <2>3 DEF Write, Go, TypeOK
    <3> QED
      BY <2>1, <3>1 DEF LiveInv, Unsettled
  <2>4. CASE WriteFails(r)
    <3>1. ~Unsettled(r) /\ pc'[r] = "failed"
      BY <2>4, ProceedType DEF WriteFails, MayWrite, At, Unsettled, Steps, Answered
    <3>2. UNCHANGED <<db, live, unsynced>> \/ unsynced' = TRUE
      BY <2>4 DEF WriteFails, ghosts
    <3> QED
      BY <2>1, <3>1, <3>2 DEF LiveInv, Stored, Listening
  <2>5. CASE SyncRow(r)
    <3>1. /\ pc'[r] = "syncPeers" /\ UNCHANGED db
          /\ snap'[r] = [snap[r] EXCEPT !.settings = Listening(db.settings)]
      BY <2>5 DEF SyncRow, Go, TypeOK, stored
    <3>2. snap'[r].settings = Listening(db.settings)
      BY <3>1 DEF TypeOK, Configs
    <3> QED
      BY <2>1, <3>1, <3>2 DEF LiveInv, Unsettled, Listening
  <2>6. CASE SyncPeers(r)
    <3>1. /\ pc[r] = "syncPeers" /\ pc'[r] = "apply" /\ UNCHANGED db
          /\ snap'[r] = [snap[r] EXCEPT !.peers = db.peers]
      BY <2>6 DEF SyncPeers, At, Go, TypeOK, stored
    <3>2. snap[r].settings = Listening(db.settings) /\ snap[r] \in Configs
      BY <3>1 DEF LiveInv, TypeOK
    <3>3. snap'[r] = Stored
      BY <3>1, <3>2 DEF Stored, Configs
    <3>4. Stored' = Stored
      BY <3>1 DEF Stored, Listening
    <3> QED
      BY <2>1, <3>1, <3>3, <3>4 DEF LiveInv, Unsettled
  <2>7. CASE Apply(r)
    <3>1. /\ pc[r] = "apply" /\ live' = snap[r] /\ UNCHANGED db
          /\ pc'[r] \in {"list", "ok"}
      BY <2>7, ProceedType DEF Apply, At, AfterSync, Steps, Working, Answered
    <3>2. live' = Stored' /\ ~Unsettled(r)'
      BY <3>1 DEF LiveInv, Stored, Listening, Unsettled
    <3> QED
      BY <2>1, <3>1, <3>2 DEF LiveInv
  <2> QED
    BY <1>2, <2>2, <2>3, <2>4, <2>5, <2>6, <2>7, UnappliedSteps DEF Serve
<1>3. CASE Crash
  <2>1. unsynced' = TRUE /\ \A q \in Reqs : pc'[q] \notin {"syncPeers", "apply"}
    BY <1>3 DEF Crash, InFlight, Working
  <2> QED
    BY <2>1 DEF LiveInv
<1>4. CASE BootFlush \/ BootSync \/ UNCHANGED vars
  <2>1. UNCHANGED <<db, pc, op, snap>> /\ (UNCHANGED <<live, unsynced>> \/ live' = Stored)
    BY <1>4 DEF BootFlush, BootSync, vars, stored, locals, ghosts
  <2> QED
    BY <2>1 DEF LiveInv, Stored, Listening, Unsettled, Is
<1> QED
  BY <1>1, <1>2, <1>3, <1>4 DEF Next

\* When requests come one at a time, the interface is in line with the database
\* whenever none is served: see LiveFollowsDb.
THEOREM InterfaceFollows ==
    ASSUME MaxInFlight = 1
    PROVE  Spec => []LiveFollowsDb
<1>1. Init => LiveInv
  BY DEF Init, LiveInv
<1>2. LiveInv => LiveFollowsDb
  BY DEF LiveInv, LiveFollowsDb, AtRest, InFlight, Working, Unsettled
<1>3. Spec => [](TypeInv /\ ProgressInv /\ Alone /\ LiveInv)
  BY <1>1, InitType, StepType, ProgressInit, ProgressStep, AloneInit, AloneStep, LiveStep,
     PTL DEF Spec
<1> QED
  BY <1>2, <1>3, PTL

-----------------------------------------------------------------------------
(* The client files are in line with the database.                          *)

\* All that ProfilesInv says when r is the one request that is served.
ProfilesWith(r) ==
    /\ OneRowPerName
    /\ \A n \in Names : ~Owed(r, n) => Right(n) /\ (~Stale(r, n) => Fresh(n))
    /\ InHand(r)

\* r is the one request that is served.
ServedAlone(r) ==
    /\ TypeInv /\ ProgressInv /\ Alone /\ ProfilesInv
    /\ Serve(r)
    /\ Smooth'

\* Nobody else owes or holds anything, before the step of r and after it.
LEMMA ServedProfiles ==
    ASSUME NEW r \in Reqs, ServedAlone(r)
    PROVE  /\ ProfilesWith(r)
           /\ ProfilesWith(r)' => ProfilesInv'
<1> USE DEF ServedAlone
<1>1. /\ pc[r] \in Working /\ op' = op
      /\ \A q \in Reqs : q # r => pc[q] \notin Working /\ pc'[q] = pc[q]
  BY ServeMoves, OnlyOne
<1>2. Smooth
  <2> SUFFICES ASSUME NEW q \in Reqs PROVE pc[q] \notin {"failed", "lost"}
    BY DEF Smooth
  <2>1. CASE q = r
    BY <1>1, <2>1 DEF Working
  <2>2. CASE q # r
    BY <1>1, <2>2 DEF Smooth
  <2> QED
    BY <2>1, <2>2
<1>3. ASSUME NEW q \in Reqs, q # r, NEW n
      PROVE  ~Owed(q, n) /\ ~Owed(q, n)' /\ ~Stale(q, n) /\ ~Stale(q, n)' /\ InHand(q)'
  BY <1>1, <1>3 DEF Owed, Stale, InHand, Working
<1>4. ProfilesWith(r)
  BY <1>2, <1>3 DEF ProfilesInv, ProfilesWith, FileCurrent
<1>5. ASSUME ProfilesWith(r)' PROVE ProfilesInv'
  <2>1. ASSUME NEW n \in Names PROVE FileCurrent(n)'
    BY <1>5 DEF ProfilesWith, FileCurrent
  <2>2. ASSUME NEW q \in Reqs PROVE InHand(q)'
    BY <1>3, <1>5 DEF ProfilesWith
  <2> QED
    BY <1>5, <2>1, <2>2 DEF ProfilesWith, ProfilesInv
<1> QED
  BY <1>4, <1>5

\* A step that changes neither database nor files, and leaves r what it owes.
Steady(r) ==
    /\ UNCHANGED <<db, profile, op>>
    /\ \A n \in Names : (Owed(r, n) => Owed(r, n)') /\ (Stale(r, n) => Stale(r, n)')
    /\ InHand(r)'

\* Steady steps keep the files as they are.
LEMMA SteadyKeeps ==
    ASSUME NEW r \in Reqs, ServedAlone(r), Steady(r)
    PROVE  ProfilesWith(r)'
<1>1. ProfilesWith(r)
  BY ServedProfiles
<1>2. OneRowPerName'
  BY <1>1 DEF ProfilesWith, Steady, OneRowPerName
<1>3. ASSUME NEW n \in Names, ~Owed(r, n)'
      PROVE  Right(n)' /\ (~Stale(r, n)' => Fresh(n)')
  <2>1. ~Owed(r, n) /\ (~Stale(r, n)' => ~Stale(r, n))
    BY <1>3 DEF Steady
  <2>2. Right(n)' = Right(n) /\ Fresh(n)' = Fresh(n)
    BY DEF Steady, Right, Fresh, Opens
  <2> QED
    BY <1>1, <2>1, <2>2 DEF ProfilesWith
<1> QED
  BY <1>2, <1>3 DEF ProfilesWith, Steady

\* Loads and refusals are steady.
LEMMA LoadsSteady ==
    ASSUME ListenPort = NoPort, NEW r \in Reqs, ServedAlone(r),
           \/ ReadRow(r) \/ ReadPeers(r) \/ NoFreeIP(r) \/ Find(r) \/ Conflict(r)
    PROVE  Steady(r)
<1> USE DEF ServedAlone, TypeInv
<1>1. InHand(r)
  BY ServedProfiles DEF ProfilesWith
<1>2. \A n \in Names : ~Owed(r, n) /\ ~Stale(r, n)
  BY DEF ReadRow, ReadPeers, NoFreeIP, Find, Conflict, At, Owed, Stale
<1>3. ASSUME NEW step \in Steps, Go(r, step) \/ Proceed(r, step) PROVE pc'[r] = step
  BY <1>3, GoType, ProceedType
<1>4. CASE NoFreeIP(r) \/ Find(r) \/ Conflict(r)
  <2>1. pc'[r] \in {"refused", "drop"}
    BY <1>3, <1>4 DEF NoFreeIP, Find, Conflict, Steps, Working, Answered
  <2> QED
    BY <1>2, <1>4, <2>1 DEF NoFreeIP, Find, Conflict, Steady, InHand, After, stored
<1>5. CASE ReadRow(r)
  <2>1. pc'[r] = "peers"
    BY <1>3, <1>5 DEF ReadRow, Steps, Working
  <2>2. cfg'[r].settings = db.settings
    BY <1>5 DEF ReadRow, Listening, TypeOK, Configs
  <2> QED
    BY <1>2, <1>5, <2>1, <2>2 DEF ReadRow, Steady, InHand, After, stored
<1>6. CASE ReadPeers(r)
  <2>1. \/ Is(r, "update") /\ pc'[r] = "save"
        \/ Is(r, "create") /\ pc'[r] = "insert"
    BY <1>3, <1>6 DEF ReadPeers, Steps, Working
  <2>2. cfg'[r].settings = cfg[r].settings /\ cfg'[r].peers = db.peers
    BY <1>6 DEF ReadPeers, TypeOK, Configs
  <2>3. pc[r] = "peers"
    BY <1>6 DEF ReadPeers, At
  <2> QED
    BY <1>1, <1>2, <1>6, <2>1, <2>2, <2>3 DEF ReadPeers, Steady, InHand, After, Is, stored
<1> QED
  BY <1>4, <1>5, <1>6

\* So is a flush: what it hands on is as the database says.
LEMMA FlushSteady ==
    ASSUME NEW r \in Reqs, ServedAlone(r), Flush(r)
    PROVE  Steady(r)
<1> USE DEF ServedAlone, TypeInv
<1>1. InHand(r) /\ pc[r] = "flush" /\ op' = op /\ UNCHANGED <<db, profile, cfg, ip>>
  BY ServedProfiles DEF ProfilesWith, Flush, At
<1>2. op[r].kind \in {"create", "delete", "update"}
  BY <1>1, OpFields DEF TypeOK, Shape, ShapeOf
<1>3. CASE Is(r, "create")
  <2>1. pc'[r] = "truncate" /\ draft'[r] = NewDraft(r)
    BY <1>3 DEF Flush, Go, Is, TypeOK
  <2>2. /\ NewDraft(r) # NoDraft
        /\ NewDraft(r).name = op[r].name
        /\ NewDraft(r).profile.settings = cfg[r].settings
        /\ Row(r).name = op[r].name /\ Opens(NewDraft(r).profile, Row(r))
    BY <1>3, NewDraftType, ServiceAssumption DEF Flush, NewDraft, Opens, Row
  <2>3. Row(r) \in db.peers /\ cfg[r].settings = db.settings /\ UNCHANGED Row(r)
    BY <1>1, <1>3 DEF InHand, Row
  <2>4. InHand(r)'
    BY <1>1, <1>3, <2>1, <2>2, <2>3 DEF InHand, Is
  <2> QED
    BY <1>1, <1>3, <2>1, <2>4 DEF Steady, Owed, Stale, Is
<1>4. CASE Is(r, "delete")
  <2>1. pc'[r] = "remove"
    BY <1>4 DEF Flush, Go, Is, TypeOK
  <2> QED
    BY <1>1, <1>4, <2>1 DEF Steady, Owed, Stale, InHand, Is
<1>5. CASE Is(r, "update")
  <2>1. pc'[r] = "syncRow"
    BY <1>5 DEF Flush, Go, Is, TypeOK
  <2>2. cfg[r].peers = db.peers /\ cfg[r].settings = db.settings
    BY <1>1, <1>5 DEF InHand, After, Working
  <2> QED
    BY <1>1, <1>5, <2>1, <2>2 DEF Steady, Owed, Stale, InHand, Is
<1> QED
  BY <1>2, <1>3, <1>4, <1>5 DEF Is

\* So are a sync, whether it works or not, and the end of a regeneration.
LEMMA SyncSteady ==
    ASSUME NEW r \in Reqs, ServedAlone(r),
           SyncRow(r) \/ SyncPeers(r) \/ Apply(r) \/ SyncFails(r) \/ Finish(r)
    PROVE  Steady(r)
<1> USE DEF ServedAlone, TypeInv
<1>1. InHand(r) /\ UNCHANGED <<db, profile, op>>
  BY ServedProfiles DEF ProfilesWith, SyncRow, SyncPeers, Apply, SyncFails, Finish, stored
<1>2. ASSUME NEW step \in Steps, Go(r, step) \/ Proceed(r, step) PROVE pc'[r] = step
  BY <1>2, GoType, ProceedType
<1>3. CASE Finish(r)
  <2>1. pc[r] = "pick" /\ pc'[r] = "ok" /\ todo[r] = {}
    BY <1>2, <1>3 DEF Finish, At, Steps, Answered
  <2> QED
    BY <1>1, <2>1 DEF Steady, Owed, Stale, InHand, Working
<1>4. CASE SyncRow(r) \/ SyncPeers(r) \/ Apply(r) \/ SyncFails(r)
  <2>1. /\ pc[r] \in {"syncRow", "syncPeers", "apply"}
        /\ \/ pc'[r] \in {"syncPeers", "apply"} /\ cfg' = cfg
           \/ pc'[r] = "list" /\ cfg' = cfg
           \/ pc'[r] = "ok" /\ ~Is(r, "update")
    <3>1. CASE SyncRow(r) \/ SyncPeers(r)
      BY <1>2, <1>4, <3>1 DEF SyncRow, SyncPeers, At, Steps, Working
    <3>2. CASE Apply(r) \/ SyncFails(r)
      <4>1. pc[r] \in {"syncRow", "syncPeers", "apply"} /\ Proceed(r, AfterSync(r))
        BY <3>2 DEF Apply, SyncFails, At
      <4>2. CASE Is(r, "update")
        <5>1. Proceed(r, "list") /\ "list" \in Steps /\ "list" \notin Answered
          BY <4>1, <4>2 DEF AfterSync, Steps, Working, Answered
        <5> QED
          BY <4>1, <5>1, ProceedType
      <4>3. CASE ~Is(r, "update")
        <5>1. Proceed(r, "ok") /\ "ok" \in Steps
          BY <4>1, <4>3 DEF AfterSync, Steps, Answered
        <5> QED
          BY <4>1, <4>3, <5>1, ProceedType
      <4> QED
        BY <4>2, <4>3
    <3> QED
      BY <1>4, <3>1, <3>2
  <2>2. ASSUME Is(r, "update") PROVE cfg[r].peers = db.peers /\ cfg[r].settings = db.settings
    BY <1>1, <2>1, <2>2 DEF InHand, After, Working
  <2>3. InHand(r)'
    BY <1>1, <2>1, <2>2 DEF InHand, Is, Working
  <2> QED
    BY <1>1, <2>1, <2>3 DEF Steady, Owed, Stale, Is
<1> QED
  BY <1>3, <1>4

\* The list of a regeneration has all client files.
LEMMA ListProfiles ==
    ASSUME NEW r \in Reqs, ServedAlone(r), List(r)
    PROVE  ProfilesWith(r)'
<1> USE DEF ServedAlone, TypeInv
<1>1. ProfilesWith(r)
  BY ServedProfiles
<1>2. /\ pc[r] = "list" /\ pc'[r] = "pick" /\ UNCHANGED <<db, profile, op, cfg>>
      /\ todo'[r] = {n \in Names : profile[n] # NoFile}
      /\ Is(r, "update")
  BY DEF List, At, Go, TypeOK, Shape, ShapeOf, Is, stored
<1>3. InHand(r)'
  BY <1>1, <1>2 DEF ProfilesWith, InHand, After, Working, Is
<1>4. ASSUME NEW n \in Names PROVE Right(n)' /\ (~Stale(r, n)' => Fresh(n)')
  <2>1. Right(n)
    BY <1>1, <1>2 DEF ProfilesWith, Owed, Is
  <2>2. Right(n)'
    BY <1>2, <2>1 DEF Right, Opens
  <2>3. ~Stale(r, n)' => profile[n] = NoFile
    BY <1>2 DEF Stale, Is
  <2>4. profile[n] = NoFile => Fresh(n)'
    BY <1>2, <2>1, ServiceAssumption DEF Right, Fresh
  <2> QED
    BY <2>2, <2>3, <2>4
<1> QED
  BY <1>1, <1>2, <1>3, <1>4 DEF ProfilesWith, OneRowPerName

\* A regeneration passes over no file of a client.
LEMMA PickProfiles ==
    ASSUME NEW r \in Reqs, ServedAlone(r), NEW m \in Names, Pick(r, m)
    PROVE  ProfilesWith(r)'
<1> USE DEF ServedAlone, TypeInv
<1>1. ProfilesWith(r)
  BY ServedProfiles
<1>2. /\ pc[r] = "pick" /\ UNCHANGED <<db, profile, op, cfg>>
      /\ todo'[r] = todo[r] \ {m}
      /\ Is(r, "update")
  BY DEF Pick, At, Go, TypeOK, Shape, ShapeOf, Is, stored
<1>3. cfg[r].peers = db.peers /\ cfg[r].settings = db.settings
  BY <1>1, <1>2 DEF ProfilesWith, InHand, After, Working
<1>4. ASSUME NEW n \in Names
      PROVE  /\ Right(n) /\ Right(n)'
             /\ n \notin todo[r] => Fresh(n)'
  BY <1>1, <1>2 DEF ProfilesWith, Owed, Stale, Is, Right, Fresh, Opens
<1>5. CASE ~Renewable(r, m) /\ UNCHANGED <<draft, pc>>
  <2>1. \A x \in db.peers : x.name # m
    BY <1>3, <1>4, <1>5, ServiceAssumption DEF Renewable, Right
  <2>2. Fresh(m)'
    BY <1>2, <2>1 DEF Fresh
  <2>3. InHand(r)'
    BY <1>2, <1>3, <1>5 DEF InHand, Is
  <2>4. ASSUME NEW n \in Names, ~Stale(r, n)' PROVE Fresh(n)'
    BY <1>2, <1>4, <1>5, <2>2, <2>4 DEF Stale, Is
  <2> QED
    BY <1>1, <1>2, <1>4, <2>3, <2>4 DEF ProfilesWith, OneRowPerName
<1>6. CASE Renewable(r, m) /\ Go(r, "truncate")
  <2>1. PICK x \in cfg[r].peers : x.name = m /\ draft' = [draft EXCEPT ![r] = Renewed(r, x)]
    BY <1>6 DEF Pick, Go, TypeOK
  <2>2. pc'[r] = "truncate" /\ draft'[r] = Renewed(r, x)
    BY <1>6, <2>1 DEF Go, TypeOK
  <2>3. /\ Renewed(r, x) # NoDraft
        /\ Renewed(r, x).name = m
        /\ Renewed(r, x).profile.settings = db.settings
    BY <1>3, <1>6, <2>1, RenewedType, ServiceAssumption DEF Renewed
  <2>4. x \in db.peers /\ Opens(Renewed(r, x).profile, x)
    BY <1>3, <1>4, <2>1 DEF Renewed, Right, Opens
  <2>5. InHand(r)'
    BY <1>2, <1>3, <2>1, <2>2, <2>3, <2>4 DEF InHand, Is
  <2>6. ASSUME NEW n \in Names, ~Stale(r, n)' PROVE Fresh(n)'
    BY <1>2, <1>4, <2>2, <2>3, <2>6 DEF Stale, Is
  <2> QED
    BY <1>1, <1>2, <1>4, <2>5, <2>6 DEF ProfilesWith, OneRowPerName
<1> QED
  BY <1>5, <1>6 DEF Pick

\* A committed write owes what it changes.
LEMMA WriteProfiles ==
    ASSUME NEW r \in Reqs, ServedAlone(r), Write(r)
    PROVE  ProfilesWith(r)'
<1> USE DEF ServedAlone, TypeInv
<1>1. ProfilesWith(r)
  BY ServedProfiles
<1>2. /\ MayWrite(r) /\ db' = Written(r)
      /\ pc[r] \in {"insert", "drop", "save"} /\ pc'[r] = "flush"
      /\ UNCHANGED <<profile, op, ip>>
      /\ db \in Configs /\ cfg \in [Reqs -> Configs]
  BY DEF Write, MayWrite, At, Go, TypeOK
<1>3. \A n \in Names : ~Owed(r, n) /\ ~Stale(r, n)
  BY <1>2 DEF Owed, Stale
<1>4. \A n \in Names : Right(n) /\ Fresh(n)
  BY <1>1, <1>3 DEF ProfilesWith
<1>5. op[r].kind \in {"create", "delete", "update"}
  BY <1>2, WrittenType, OpFields
<1>6. CASE Is(r, "create")
  <2>1. /\ db'.peers = db.peers \cup {Row(r)} /\ db'.settings = db.settings
        /\ UNCHANGED <<cfg, Row(r)>> /\ Row(r).name = op[r].name
    BY <1>2, <1>6 DEF Write, Written, Is, Configs, Row
  <2>2. pc[r] = "insert"
    BY <1>2, <1>6 DEF Shape, ShapeOf, Is
  <2>3. InHand(r)'
    BY <1>1, <1>2, <1>6, <2>1, <2>2 DEF ProfilesWith, InHand, Is
  <2>4. \A x \in db.peers : x.name # op[r].name
    BY <1>2, <1>6, <2>1 DEF MayWrite, Clash
  <2>5. OneRowPerName'
    BY <1>1, <2>1, <2>4 DEF ProfilesWith, OneRowPerName
  <2>6. ASSUME NEW n \in Names, ~Owed(r, n)' PROVE Right(n)' /\ Fresh(n)'
    <3>1. Row(r).name # n
      BY <1>2, <1>6, <2>1, <2>6 DEF Owed, Is
    <3> QED
      BY <1>2, <1>4, <2>1, <3>1 DEF Right, Fresh, Opens
  <2> QED
    BY <2>3, <2>5, <2>6 DEF ProfilesWith
<1>7. CASE Is(r, "delete")
  <2>1. /\ db'.peers = {x \in db.peers : x.name # op[r].name}
        /\ db'.settings = db.settings
    BY <1>2, <1>7 DEF Written, Is, Configs
  <2>2. InHand(r)'
    BY <1>2, <1>7, <2>1 DEF InHand, Is
  <2>3. OneRowPerName'
    BY <1>1, <2>1 DEF ProfilesWith, OneRowPerName
  <2>4. ASSUME NEW n \in Names, ~Owed(r, n)' PROVE Right(n)' /\ Fresh(n)'
    <3>1. op[r].name # n
      BY <1>2, <1>7, <2>4 DEF Owed, Is
    <3> QED
      BY <1>2, <1>4, <2>1, <3>1 DEF Right, Fresh, Opens
  <2> QED
    BY <2>2, <2>3, <2>4 DEF ProfilesWith
<1>8. CASE Is(r, "update")
  <2>1. db'.peers = db.peers /\ db'.settings = op[r].settings
    BY <1>2, <1>8 DEF Written, Is, Configs
  <2>2. cfg'[r].settings = op[r].settings /\ cfg'[r].peers = cfg[r].peers
    BY <1>2, <1>8 DEF Write, Configs
  <2>3. pc[r] = "save"
    BY <1>2, <1>8 DEF Shape, ShapeOf, Is
  <2>4. InHand(r)'
    BY <1>1, <1>2, <1>8, <2>1, <2>2, <2>3 DEF ProfilesWith, InHand, Is
  <2>5. OneRowPerName'
    BY <1>1, <2>1 DEF ProfilesWith, OneRowPerName
  <2>6. ASSUME NEW n \in Names PROVE Right(n)' /\ Stale(r, n)'
    BY <1>2, <1>4, <1>8, <2>1 DEF Right, Opens, Stale, Is
  <2> QED
    BY <2>4, <2>5, <2>6 DEF ProfilesWith
<1> QED
  BY <1>5, <1>6, <1>7, <1>8 DEF Is

\* The file that is opened is owed.
LEMMA TruncateProfiles ==
    ASSUME NEW r \in Reqs, ServedAlone(r), Truncate(r)
    PROVE  ProfilesWith(r)'
<1> USE DEF ServedAlone, TypeInv
<1>1. ProfilesWith(r)
  BY ServedProfiles
<1>2. Proceed(r, "fill") /\ "fill" \in Steps /\ "fill" \notin Answered
  BY DEF Truncate, Steps, Working, Answered
<1>3. /\ pc[r] = "truncate" /\ pc'[r] = "fill"
      /\ UNCHANGED <<db, op, ip, cfg, todo, draft>>
  BY <1>2, ProceedType DEF Truncate, At, Proceed, locals
<1>4. InHand(r)'
  BY <1>1, <1>3 DEF ProfilesWith, InHand, After, Working, Is, Row, Opens
<1>5. Is(r, "create") \/ Is(r, "update")
  BY <1>3, OpFields DEF TypeOK, Shape, ShapeOf, Is
<1>6. draft[r].name = op[r].name \/ Is(r, "update")
  BY <1>1, <1>3, <1>5 DEF ProfilesWith, InHand
<1>7. ASSUME NEW n \in Names, ~Owed(r, n)' PROVE Right(n)' /\ (~Stale(r, n)' => Fresh(n)')
  <2>1. draft[r].name # n
    BY <1>3, <1>5, <1>6, <1>7 DEF Owed, Is
  <2>2. profile'[n] = profile[n]
    BY <2>1 DEF Truncate, TypeOK
  <2>3. ~Owed(r, n) /\ (Stale(r, n) => Stale(r, n)')
    BY <1>3, <1>7, <2>1 DEF Owed, Stale, Is
  <2> QED
    BY <1>1, <1>3, <2>2, <2>3 DEF ProfilesWith, Right, Fresh, Opens
<1> QED
  BY <1>1, <1>3, <1>4, <1>7 DEF ProfilesWith, OneRowPerName

\* The file that is written is right and has the settings of the server.
LEMMA FillProfiles ==
    ASSUME NEW r \in Reqs, ServedAlone(r), Fill(r)
    PROVE  ProfilesWith(r)'
<1> USE DEF ServedAlone, TypeInv
<1>1. ProfilesWith(r)
  BY ServedProfiles
<1>2. /\ pc[r] = "fill" /\ UNCHANGED <<db, op, ip, cfg, todo>>
      /\ draft[r] # NoDraft
      /\ Is(r, "create") => draft[r].name = op[r].name
      /\ draft[r].profile.settings = db.settings
  BY <1>1 DEF Fill, At, ProfilesWith, InHand
<1>3. PICK x \in db.peers : x.name = draft[r].name /\ Opens(draft[r].profile, x)
  BY <1>1, <1>2 DEF ProfilesWith, InHand
<1>4. draft[r].name \in Names /\ draft[r].profile \in Profiles
  BY <1>2 DEF TypeOK
<1>5. \A n \in Names : profile'[n] = IF n = draft[r].name THEN draft[r].profile ELSE profile[n]
  BY <1>2 DEF Fill, TypeOK
<1>6. \/ Is(r, "create") /\ pc'[r] = "syncRow"
      \/ Is(r, "update") /\ pc'[r] = "pick"
  BY <1>2, OpFields DEF Fill, Go, AfterFile, Is, TypeOK, Shape, ShapeOf
<1>7. InHand(r)'
  BY <1>1, <1>2, <1>6 DEF ProfilesWith, InHand, After, Working, Is
<1>8. ASSUME NEW n \in Names PROVE Right(n)' /\ (~Stale(r, n)' => Fresh(n)')
  <2>1. CASE n = draft[r].name
    <3>1. \A y \in db.peers : y.name = n => y = x
      BY <1>1, <1>3, <2>1 DEF ProfilesWith, OneRowPerName
    <3> QED
      BY <1>2, <1>3, <1>4, <1>5, <2>1, <3>1 DEF Right, Fresh, Opens
  <2>2. CASE n # draft[r].name
    <3>1. ~Owed(r, n) /\ (Stale(r, n) => Stale(r, n)')
      BY <1>2, <1>6, <2>2 DEF Owed, Stale, Is
    <3> QED
      BY <1>1, <1>2, <1>5, <2>2, <3>1 DEF ProfilesWith, Right, Fresh, Opens
  <2> QED
    BY <2>1, <2>2
<1> QED
  BY <1>1, <1>2, <1>7, <1>8 DEF ProfilesWith, OneRowPerName

\* The file that is removed is that of a client who is no more.
LEMMA RemoveProfiles ==
    ASSUME NEW r \in Reqs, ServedAlone(r), RemoveFile(r)
    PROVE  ProfilesWith(r)'
<1> USE DEF ServedAlone, TypeInv
<1>1. ProfilesWith(r)
  BY ServedProfiles
<1>2. /\ pc[r] = "remove" /\ pc'[r] = "syncRow" /\ UNCHANGED <<db, op, todo>>
      /\ Is(r, "delete")
  BY DEF RemoveFile, At, Go, TypeOK, Shape, ShapeOf, Is
<1>3. \A n \in Names : profile'[n] = IF n = op[r].name THEN NoFile ELSE profile[n]
  BY DEF RemoveFile, TypeOK
<1>4. \A x \in db.peers : x.name # op[r].name
  BY <1>1, <1>2 DEF ProfilesWith, InHand
<1>5. InHand(r)'
  BY <1>2 DEF InHand, Is
<1>6. ASSUME NEW n \in Names PROVE Right(n)' /\ Fresh(n)'
  <2>1. CASE n = op[r].name
    BY <1>2, <1>3, <1>4, <2>1 DEF Right, Fresh
  <2>2. CASE n # op[r].name
    <3>1. ~Owed(r, n) /\ ~Stale(r, n)
      BY <1>2, <2>2 DEF Owed, Stale, Is
    <3> QED
      BY <1>1, <1>2, <1>3, <2>2, <3>1 DEF ProfilesWith, Right, Fresh, Opens
  <2> QED
    BY <2>1, <2>2
<1> QED
  BY <1>1, <1>2, <1>5, <1>6 DEF ProfilesWith, OneRowPerName

\* ProfilesInv is inductive when requests come one at a time, no operation on
\* a client file fails, and AWG_PORT is empty.
LEMMA ProfilesStep ==
    ASSUME MaxInFlight = 1, "profile" \notin Faults, ListenPort = NoPort
    PROVE  TypeInv /\ ProgressInv /\ Alone /\ ProfilesInv /\ [Next]_vars => ProfilesInv'
<1> SUFFICES ASSUME TypeInv, ProgressInv, Alone, ProfilesInv, [Next]_vars, Smooth'
             PROVE  ProfilesInv'
  BY DEF ProfilesInv
<1> USE DEF TypeInv
<1>1. ASSUME NEW r \in Reqs, Serve(r) PROVE ProfilesInv'
  <2>1. ServedAlone(r)
    BY <1>1 DEF ServedAlone
  <2>2. ~ReadFails(r) /\ ~WriteFails(r) /\ ~FlushFails(r)
    <3>1. Proceed(r, "failed") => pc'[r] = "failed"
      BY ProceedType DEF Steps, Answered
    <3> QED
      BY <3>1 DEF Smooth, ReadFails, WriteFails, FlushFails
  <2>3. ~FileFails(r) /\ ~RemoveFails(r) /\ ~ListFails(r)
    BY DEF FileFails, RemoveFails, ListFails
  <2>4. ProfilesWith(r)'
    BY <1>1, <2>1, <2>2, <2>3, SteadyKeeps, LoadsSteady, FlushSteady, SyncSteady,
       ListProfiles, PickProfiles, WriteProfiles, TruncateProfiles, FillProfiles,
       RemoveProfiles
    DEF Serve
  <2> QED
    BY <2>1, <2>4, ServedProfiles
<1>2. ASSUME \A q \in Reqs : pc'[q] \notin Working \ {"row", "find"},
             \A q \in Reqs : pc[q] \notin Working,
             Smooth, UNCHANGED <<db, profile>>
      PROVE  ProfilesInv'
  <2>1. ASSUME NEW q \in Reqs, NEW n
        PROVE  ~Owed(q, n) /\ ~Stale(q, n) /\ InHand(q)'
    BY <1>2, <2>1 DEF Owed, Stale, InHand, Working, After
  <2>2. \A n \in Names : Right(n) /\ Fresh(n)
    BY <1>2, <2>1 DEF ProfilesInv, FileCurrent
  <2>3. \A n \in Names : Right(n)' /\ Fresh(n)'
    BY <1>2, <2>2 DEF Right, Fresh, Opens
  <2> QED
    BY <1>2, <2>1, <2>3 DEF ProfilesInv, FileCurrent, OneRowPerName
<1>3. ASSUME NEW r \in Reqs, NEW o \in Ops, Receive(r, o) PROVE ProfilesInv'
  <2>1. \A q \in Reqs : pc[q] \notin Working
    BY <1>3, NoneInFlight DEF Receive
  <2>2. /\ pc[r] = "idle" /\ pc'[r] \in {"refused", "row", "find"}
        /\ \A q \in Reqs : q # r => pc'[q] = pc[q]
        /\ UNCHANGED <<db, profile>>
    BY <1>3 DEF Receive, At, Go, TypeOK, stored
  <2>3. Smooth
    BY <2>2 DEF Smooth
  <2>4. \A q \in Reqs : pc'[q] \notin Working \ {"row", "find"}
    BY <2>1, <2>2 DEF Working
  <2> QED
    BY <1>2, <2>1, <2>2, <2>3, <2>4
<1>4. CASE Crash
  <2>1. \A q \in Reqs : pc[q] \notin Working /\ pc'[q] = pc[q]
    BY <1>4 DEF Crash, InFlight, Smooth
  <2>2. Smooth
    BY <2>1 DEF Smooth
  <2> QED
    BY <1>2, <1>4, <2>1, <2>2 DEF Crash
<1>5. CASE BootFlush \/ BootSync \/ UNCHANGED vars
  <2>1. UNCHANGED <<db, profile, pc, op, ip, cfg, todo, draft>>
    BY <1>5 DEF BootFlush, BootSync, vars, stored, locals
  <2> QED
    BY <2>1 DEF ProfilesInv, Smooth, OneRowPerName, FileCurrent, Owed, Stale, Right, Fresh,
                InHand, Is, Row, Opens
<1> QED
  BY <1>1, <1>3, <1>4, <1>5 DEF Next

\* When requests come one at a time, no operation on a client file fails and
\* AWG_PORT is empty, the client files are in line with the database whenever
\* none is served and none has failed: see ProfilesFollowDb.
THEOREM ProfilesFollow ==
    ASSUME MaxInFlight = 1, "profile" \notin Faults, ListenPort = NoPort
    PROVE  Spec => []ProfilesFollowDb
<1>1. Init => ProfilesInv
  <2> SUFFICES ASSUME Init PROVE ProfilesInv
    OBVIOUS
  <2>1. db.peers = {} /\ \A n \in Names : profile[n] = NoFile
    BY DEF Init, InitConfig
  <2>2. \A r \in Reqs : pc[r] = "idle"
    BY DEF Init
  <2> QED
    BY <2>1, <2>2 DEF ProfilesInv, OneRowPerName, FileCurrent, Right, Fresh, InHand, After
<1>2. ASSUME TypeInv, ProfilesInv PROVE ProfilesFollowDb
  <2> SUFFICES ASSUME InFlight = {}, Smooth, NEW n \in Names
               PROVE  IF \E x \in db.peers : x.name = n
                      THEN /\ profile[n] \notin {NoFile, Empty}
                           /\ \A x \in db.peers : x.name = n => Opens(profile[n], x)
                           /\ profile[n].settings = db.settings
                      ELSE profile[n] = NoFile
    BY DEF ProfilesFollowDb, AtRest
  <2>1. \A r \in Reqs : ~Owed(r, n) /\ ~Stale(r, n)
    BY DEF InFlight, Owed, Stale, Working
  <2>2. Right(n) /\ Fresh(n)
    BY <1>2, <2>1 DEF ProfilesInv, FileCurrent
  <2> QED
    BY <2>2, ServiceAssumption DEF Right, Fresh
<1>3. Spec => [](TypeInv /\ ProgressInv /\ Alone /\ ProfilesInv)
  BY <1>1, InitType, StepType, ProgressInit, ProgressStep, AloneInit, AloneStep, ProfilesStep,
     PTL DEF Spec
<1> QED
  BY <1>2, <1>3, PTL

=============================================================================
