-------------------------- MODULE AwgServiceProofs --------------------------
(***************************************************************************)
(* What holds of AwgService for any number of requests, names, addresses   *)
(* and settings, with any failures and any number of crashes, and that it  *)
(* implements PeerRegistry.                                                *)
(***************************************************************************)
EXTENDS AwgService, TLAPS

-----------------------------------------------------------------------------
(* The data. *)

\* What LoadServerConfig returns for stored settings is settings.
LEMMA ListeningType ==
    ASSUME NEW s \in Settings
    PROVE  Listening(s) \in Settings
BY DataAssumption DEF Listening, Settings

\* The fields of a request, by its kind.
LEMMA OpFields ==
    ASSUME NEW o \in Ops
    PROVE  /\ o.kind \in {"create", "delete", "update"}
           /\ o.kind = "create" => /\ o.name \in Names \cup BlankNames
                                   /\ o.ip \in IPs \cup {AnyIP}
           /\ o.kind = "delete" => o.name \in Names
           /\ o.kind = "update" => o.settings \in Settings
BY DEF Ops, CreateOps, DeleteOps, UpdateOps

\* A request that was not refused at once names a client or has settings.
LEMMA ValidOp ==
    ASSUME NEW o \in Ops, ~Invalid(o)
    PROVE  o.kind \in {"create", "delete"} => o.name \in Names
BY OpFields DEF Invalid

-----------------------------------------------------------------------------
(* Types. *)

\* Where a request of each kind can be, and what it has by then: CreateClient,
\* DeleteClient and UpdateServerConfig share steps, which are told apart by it.
ShapeOf(r) ==
    /\ pc[r] = "idle" <=> op[r] = NoOp
    /\ pc[r] \in Working => ~Invalid(op[r])
    /\ pc[r] \in {"find", "drop", "remove"} => op[r].kind = "delete"
    /\ pc[r] = "insert" => op[r].kind = "create"
    /\ pc[r] \in {"save", "list", "pick"} => op[r].kind = "update"
    /\ pc[r] \in {"row", "peers", "truncate", "fill"} => op[r].kind # "delete"
    /\ pc[r] \in {"insert", "flush"} /\ op[r].kind = "create" => ip[r] \in IPs

Shape == \A r \in Reqs : ShapeOf(r)

TypeInv == TypeOK /\ Shape

\* The types, in the groups that actions change together.
LocalsType ==
    /\ ip \in [Reqs -> IPs \cup {AnyIP}]
    /\ cfg \in [Reqs -> Configs]
    /\ snap \in [Reqs -> Configs]
    /\ todo \in [Reqs -> SUBSET Names]
    /\ draft \in [Reqs -> [name : Names, profile : Profiles] \cup {NoDraft}]

Steps == {"idle"} \cup Working \cup Answered

\* The settings the server starts with make a configuration.
LEMMA InitConfigType == InitConfig \in Configs
BY ServiceAssumption DEF InitConfig, Configs

\* Whatever a request does, it changes the step of no other one.
LEMMA GoType ==
    ASSUME TypeOK, NEW r \in Reqs, NEW step \in Steps, Go(r, step)
    PROVE  /\ pc' \in [Reqs -> Steps]
           /\ pc'[r] = step
           /\ \A q \in Reqs : q # r => pc'[q] = pc[q]
BY DEF TypeOK, Go, Steps

\* A request whose answer is sent forgets what it had, and no other one does.
LEMMA ForgetType ==
    ASSUME TypeOK, NEW S, Forget(S)
    PROVE  /\ LocalsType'
           /\ \A q \in Reqs : q \notin S => /\ ip'[q] = ip[q]
                                            /\ cfg'[q] = cfg[q]
                                            /\ snap'[q] = snap[q]
                                            /\ draft'[q] = draft[q]
           /\ \A q \in Reqs : q \in S => /\ cfg'[q].peers = {}
                                         /\ draft'[q] = NoDraft
<1>1. ip' \in [Reqs -> IPs \cup {AnyIP}] /\ \A q \in Reqs : q \notin S => ip'[q] = ip[q]
  BY DEF TypeOK, Forget
<1>2. /\ cfg' \in [Reqs -> Configs]
      /\ \A q \in Reqs : q \notin S => cfg'[q] = cfg[q]
      /\ \A q \in Reqs : q \in S => cfg'[q] = InitConfig
  BY InitConfigType DEF TypeOK, Forget
<1>3. /\ snap' \in [Reqs -> Configs]
      /\ \A q \in Reqs : q \notin S => snap'[q] = snap[q]
  BY InitConfigType DEF TypeOK, Forget
<1>4. todo' \in [Reqs -> SUBSET Names]
  BY DEF TypeOK, Forget
<1>5. /\ draft' \in [Reqs -> [name : Names, profile : Profiles] \cup {NoDraft}]
      /\ \A q \in Reqs : draft'[q] = IF q \in S THEN NoDraft ELSE draft[q]
  BY DEF TypeOK, Forget
<1>6. InitConfig.peers = {}
  BY DEF InitConfig
<1> QED
  BY <1>1, <1>2, <1>3, <1>4, <1>5, <1>6 DEF LocalsType

\* A step that goes on, or answers, keeps the types and the other requests.
LEMMA ProceedType ==
    ASSUME TypeOK, NEW r \in Reqs, NEW step \in Steps, Proceed(r, step)
    PROVE  /\ pc' \in [Reqs -> Steps]
           /\ pc'[r] = step
           /\ \A q \in Reqs : q # r => /\ pc'[q] = pc[q]
                                      /\ ip'[q] = ip[q]
                                      /\ cfg'[q] = cfg[q]
                                      /\ snap'[q] = snap[q]
                                      /\ draft'[q] = draft[q]
           /\ step \notin Answered => UNCHANGED <<ip, cfg, snap, draft>>
           /\ step \in Answered => cfg'[r].peers = {} /\ draft'[r] = NoDraft
           /\ LocalsType'
<1>1. CASE step \in Answered
  BY <1>1, GoType, ForgetType DEF Proceed
<1>2. CASE step \notin Answered
  BY <1>2, GoType DEF Proceed, locals, TypeOK, LocalsType
<1> QED
  BY <1>1, <1>2

\* A request that goes on without touching the rest of its shape.
LEMMA ShapeOthers ==
    ASSUME Shape, NEW r \in Reqs, op' = op,
           \A q \in Reqs : q # r => pc'[q] = pc[q] /\ ip'[q] = ip[q],
           ShapeOf(r)'
    PROVE  Shape'
<1> SUFFICES ASSUME NEW q \in Reqs PROVE ShapeOf(q)'
  BY DEF Shape
<1>1. CASE q = r
  BY <1>1
<1>2. CASE q # r
  BY <1>2 DEF Shape, ShapeOf
<1> QED
  BY <1>1, <1>2

\* The types hold at the start.
LEMMA InitType == Init => TypeInv
BY ServiceAssumption
   DEF Init, TypeInv, TypeOK, Shape, ShapeOf, InitConfig, Configs, Working, Rows

-----------------------------------------------------------------------------
(* Every action keeps the types, by group: arrival and loads, writes, files, *)
(* sync and boot.                                                            *)

\* A request arrives with its shape: an invalid one goes no further.
LEMMA ReceiveType ==
    ASSUME TypeInv, NEW r \in Reqs, NEW o \in Ops, Receive(r, o)
    PROVE  TypeInv'
<1> USE DEF TypeInv
<1>1. PICK step \in Steps : Go(r, step) /\ (step \in {"row", "find"} => ~Invalid(o))
                            /\ step \in {"refused", "row", "find"}
                            /\ (step = "row" => o.kind # "delete")
                            /\ (step = "find" => o.kind = "delete")
  BY OpFields DEF Receive, Steps, Working, Answered
<1>2. TypeOK'
  BY <1>1, GoType DEF Receive, TypeOK, Steps, stored, ghosts
<1>3. ShapeOf(r)'
  BY <1>1, GoType, DataAssumption DEF Receive, TypeOK, ShapeOf, Working, stored, ghosts
<1>4. ASSUME NEW q \in Reqs, q # r PROVE ShapeOf(q)'
  BY <1>1, <1>4, GoType DEF Receive, TypeOK, Shape, ShapeOf
<1> QED
  BY <1>2, <1>3, <1>4 DEF Shape

\* A configuration with other settings or other rows is one.
LEMMA ConfigWith ==
    ASSUME NEW c \in Configs
    PROVE  /\ \A s \in Settings : [c EXCEPT !.settings = s] \in Configs
           /\ \A P \in SUBSET Rows : [c EXCEPT !.peers = P] \in Configs
           /\ c.settings \in Settings
           /\ c.peers \in SUBSET Rows
BY DEF Configs

\* LoadServerConfig returns a configuration.
LEMMA StoredType == ASSUME TypeOK PROVE Stored \in Configs
BY ListeningType, ConfigWith DEF TypeOK, Stored, Configs

\* CreateClient goes on to its INSERT with an address of the subnet.
LEMMA ReadPeersType ==
    ASSUME TypeInv, NEW r \in Reqs, ReadPeers(r)
    PROVE  TypeInv'
<1> USE DEF TypeInv
<1>1. cfg' \in [Reqs -> Configs]
  BY ConfigWith DEF ReadPeers, TypeOK
<1>2. PICK step \in Steps :
        /\ Go(r, step)
        /\ \/ step = "save" /\ op[r].kind = "update" /\ ip' = ip
           \/ /\ step = "insert" /\ op[r].kind = "create"
              /\ \E i \in IPs : ip' = [ip EXCEPT ![r] = i]
  BY DEF ReadPeers, Is, Steps, Working
<1>3. /\ ip' \in [Reqs -> IPs \cup {AnyIP}]
      /\ step = "insert" => ip'[r] \in IPs
      /\ \A q \in Reqs : q # r => ip'[q] = ip[q]
  BY <1>2 DEF TypeOK
<1>4. TypeOK'
  BY <1>1, <1>2, <1>3, GoType DEF ReadPeers, TypeOK, Steps, stored, ghosts
<1>5. ShapeOf(r)'
  BY <1>2, <1>3, GoType DEF ReadPeers, At, Shape, ShapeOf, Working
<1> QED
  BY <1>2, <1>3, <1>4, <1>5, GoType, ShapeOthers DEF ReadPeers

\* What a write leaves behind: a row that is inserted has a valid name.
LEMMA WrittenType ==
    ASSUME TypeInv, NEW r \in Reqs, MayWrite(r)
    PROVE  /\ op[r] \in Ops /\ ~Invalid(op[r])
           /\ Is(r, "create") => Row(r) \in Rows
           /\ Written(r) \in Configs
           /\ Is(r, "update") => op[r].settings \in Settings
<1> USE DEF TypeInv
<1>1. op[r] \in Ops /\ ~Invalid(op[r])
  BY DEF MayWrite, At, TypeOK, Shape, ShapeOf, Working
<1>2. Is(r, "create") => Row(r) \in Rows
  <2> HAVE Is(r, "create")
  <2>1. ip[r] \in IPs
    BY DEF MayWrite, At, Is, TypeOK, Shape, ShapeOf
  <2> QED
    BY <1>1, <2>1, ValidOp DEF Row, Rows, Is
<1>3. CASE Is(r, "create")
  BY <1>1, <1>2, <1>3, ConfigWith DEF Written, TypeOK, Is
<1>4. CASE Is(r, "delete")
  <2>1. {x \in db.peers : x.name # op[r].name} \in SUBSET Rows
    BY ConfigWith DEF TypeOK
  <2> QED
    BY <1>1, <1>4, <2>1, ConfigWith DEF Written, TypeOK, Is
<1>5. CASE Is(r, "update")
  BY <1>1, <1>5, OpFields, ConfigWith DEF Written, TypeOK, Is
<1> QED
  BY <1>1, <1>2, <1>3, <1>4, <1>5, OpFields DEF Is

\* The SQL writes keep the types.
LEMMA WriteType ==
    ASSUME TypeInv, NEW r \in Reqs, Write(r)
    PROVE  TypeInv'
<1> USE DEF TypeInv
<1>1. MayWrite(r) /\ Go(r, "flush") /\ "flush" \in Steps
  BY DEF Write, Steps, Working
<1>2. db' \in Configs
  BY <1>1, WrittenType DEF Write
<1>3. cfg' \in [Reqs -> Configs]
  BY <1>1, WrittenType, ConfigWith DEF Write, TypeOK
<1>4. TypeOK'
  BY <1>1, <1>2, <1>3, GoType DEF Write, TypeOK, Steps
<1>5. ShapeOf(r)'
  BY <1>1, GoType, WrittenType DEF Write, MayWrite, At, Shape, ShapeOf, Working
<1> QED
  BY <1>1, <1>4, <1>5, GoType, ShapeOthers DEF Write

\* So they do when they fail, committed or not.
LEMMA WriteFailsType ==
    ASSUME TypeInv, NEW r \in Reqs, WriteFails(r)
    PROVE  TypeInv'
<1> USE DEF TypeInv
<1>1. MayWrite(r) /\ Proceed(r, "failed") /\ "failed" \in Steps
  BY DEF WriteFails, Steps, Answered
<1>2. db' \in Configs
  BY <1>1, WrittenType DEF WriteFails, TypeOK
<1>3. took' \subseteq Reqs /\ behind' \in BOOLEAN /\ unsynced' \in BOOLEAN
  BY DEF WriteFails, TypeOK, ghosts
<1>4. TypeOK'
  BY <1>1, <1>2, <1>3, ProceedType DEF WriteFails, TypeOK, Steps, LocalsType
<1>5. ShapeOf(r)'
  BY <1>1, ProceedType, WrittenType, DataAssumption
     DEF WriteFails, Shape, ShapeOf, Working, Answered
<1> QED
  BY <1>1, <1>4, <1>5, ProceedType, ShapeOthers DEF WriteFails

\* The client configuration of a CreateClient has a name and an address.
LEMMA NewDraftType ==
    ASSUME TypeInv, NEW r \in Reqs, At(r, "flush"), Is(r, "create")
    PROVE  NewDraft(r) \in [name : Names, profile : Profiles]
<1> USE DEF TypeInv
<1>1. op[r] \in Ops /\ ~Invalid(op[r])
  BY DEF At, TypeOK, Shape, ShapeOf, Working
<1>2. ip[r] \in IPs /\ op[r].name \in Names
  BY <1>1, ValidOp DEF At, Is, Shape, ShapeOf
<1>3. cfg[r].settings \in Settings
  BY ConfigWith DEF TypeOK
<1> QED
  BY <1>2, <1>3 DEF NewDraft, Profiles

\* The flush keeps the types, and so does the client configuration it leads to.
LEMMA FlushType ==
    ASSUME TypeInv, NEW r \in Reqs, Flush(r)
    PROVE  TypeInv'
<1> USE DEF TypeInv
<1>1. op[r] \in Ops /\ ~Invalid(op[r])
  BY DEF Flush, At, TypeOK, Shape, ShapeOf, Working
<1>2. PICK step \in Steps :
        /\ Go(r, step)
        /\ \/ step = "truncate" /\ op[r].kind = "create"
           \/ step = "remove" /\ op[r].kind = "delete"
           \/ step = "syncRow" /\ op[r].kind = "update"
  BY <1>1, OpFields DEF Flush, Is, Steps, Working
<1>3. file' \in Configs
  BY StoredType DEF Flush, FlushedConfig, TypeOK
<1>4. draft' \in [Reqs -> [name : Names, profile : Profiles] \cup {NoDraft}]
  <2>1. CASE Is(r, "create")
    BY <2>1, NewDraftType DEF Flush, TypeOK
  <2>2. CASE ~Is(r, "create")
    BY <2>2 DEF Flush, TypeOK
  <2> QED
    BY <2>1, <2>2
<1>5. TypeOK'
  BY <1>2, <1>3, <1>4, GoType DEF Flush, TypeOK, Steps
<1>6. ShapeOf(r)'
  BY <1>1, <1>2, GoType, DataAssumption DEF Flush, ShapeOf, Working
<1> QED
  BY <1>2, <1>5, <1>6, GoType, ShapeOthers DEF Flush

\* The step after a client file.
LEMMA AfterFileShape ==
    ASSUME TypeInv, NEW r \in Reqs, At(r, "truncate") \/ At(r, "fill"),
           Go(r, AfterFile(r)), op' = op, ip' = ip
    PROVE  pc' \in [Reqs -> Steps] /\ Shape'
<1> USE DEF TypeInv
<1>1. op[r] \in Ops /\ ~Invalid(op[r]) /\ op[r].kind # "delete"
  BY DEF At, TypeOK, Shape, ShapeOf, Working
<1>2. PICK step \in Steps :
        /\ Go(r, step)
        /\ \/ step = "syncRow" /\ op[r].kind = "create"
           \/ step = "pick" /\ op[r].kind = "update"
  BY <1>1, OpFields DEF AfterFile, Is, Steps, Working
<1>3. ShapeOf(r)'
  BY <1>1, <1>2, GoType, DataAssumption DEF ShapeOf, Working
<1> QED
  BY <1>2, <1>3, GoType, ShapeOthers

\* Opening a client file keeps the types.
LEMMA TruncateType ==
    ASSUME TypeInv, NEW r \in Reqs, Truncate(r)
    PROVE  TypeInv'
<1> USE DEF TypeInv
<1>1. Proceed(r, "fill") /\ "fill" \in Steps
  BY DEF Truncate, Steps, Working
<1>2. profile' \in [Names -> Profiles \cup {NoFile, Empty}]
  BY DEF Truncate, TypeOK
<1>3. TypeOK'
  BY <1>1, <1>2, ProceedType DEF Truncate, TypeOK, Steps, LocalsType, ghosts
<1>4. ShapeOf(r)'
  BY <1>1, ProceedType DEF Truncate, At, Shape, ShapeOf, Working
<1> QED
  BY <1>1, <1>3, <1>4, ProceedType, ShapeOthers DEF Truncate

\* Writing a client file keeps the types.
LEMMA FillType ==
    ASSUME TypeInv, NEW r \in Reqs, Fill(r)
    PROVE  TypeInv'
<1> USE DEF TypeInv
<1>1. pc' \in [Reqs -> Steps] /\ Shape'
  BY AfterFileShape DEF Fill
<1>2. profile' \in [Names -> Profiles \cup {NoFile, Empty}]
  <2>1. CASE draft[r] = NoDraft
    BY <2>1 DEF Fill, TypeOK
  <2>2. CASE draft[r] # NoDraft
    <3>1. draft[r] \in [name : Names, profile : Profiles]
      BY <2>2 DEF TypeOK
    <3>2. draft[r].profile \in Profiles
      BY <3>1
    <3> QED
      BY <2>2, <3>2 DEF Fill, TypeOK
  <2> QED
    BY <2>1, <2>2
<1>3. draft' \in [Reqs -> [name : Names, profile : Profiles] \cup {NoDraft}]
  BY DEF Fill, TypeOK
<1> QED
  BY <1>1, <1>2, <1>3 DEF Fill, TypeOK, Steps, ghosts

\* Failing to write a client file keeps the types.
LEMMA FileFailsType ==
    ASSUME TypeInv, NEW r \in Reqs, FileFails(r)
    PROVE  TypeInv'
<1> USE DEF TypeInv
<1>1. pc' \in [Reqs -> Steps] /\ Shape'
  BY AfterFileShape DEF FileFails
<1>2. draft' \in [Reqs -> [name : Names, profile : Profiles] \cup {NoDraft}]
  BY DEF FileFails, TypeOK
<1> QED
  BY <1>1, <1>2 DEF FileFails, TypeOK, Steps, stored, ghosts

\* Removing a client file keeps the types.
LEMMA RemoveFileType ==
    ASSUME TypeInv, NEW r \in Reqs, RemoveFile(r)
    PROVE  TypeInv'
<1> USE DEF TypeInv
<1>1. Go(r, "syncRow") /\ "syncRow" \in Steps
  BY DEF RemoveFile, Steps, Working
<1>2. profile' \in [Names -> Profiles \cup {NoFile, Empty}]
  BY DEF RemoveFile, TypeOK
<1>3. draft' \in [Reqs -> [name : Names, profile : Profiles] \cup {NoDraft}]
  BY DEF RemoveFile, TypeOK
<1>4. TypeOK'
  BY <1>1, <1>2, <1>3, GoType DEF RemoveFile, TypeOK, Steps, ghosts
<1>5. ShapeOf(r)'
  BY <1>1, GoType DEF RemoveFile, At, Shape, ShapeOf, Working
<1> QED
  BY <1>1, <1>4, <1>5, GoType, ShapeOthers DEF RemoveFile

\* awg syncconf keeps the types.
LEMMA ApplyType ==
    ASSUME TypeInv, NEW r \in Reqs, Apply(r)
    PROVE  TypeInv'
<1> USE DEF TypeInv
<1>1. PICK step \in Steps : /\ Proceed(r, step)
                            /\ \/ step = "ok"
                               \/ step = "list" /\ op[r].kind = "update"
  BY DEF Apply, AfterSync, Is, Steps, Working, Answered
<1>2. TypeOK'
  BY <1>1, ProceedType DEF Apply, TypeOK, Steps, LocalsType
<1>3. ShapeOf(r)'
  BY <1>1, ProceedType DEF Apply, At, Shape, ShapeOf, Working
<1> QED
  BY <1>1, <1>2, <1>3, ProceedType, ShapeOthers DEF Apply

\* A client file to rewrite has a key, a peer and the settings that were saved.
LEMMA RenewedType ==
    ASSUME TypeOK, NEW r \in Reqs, NEW x \in cfg[r].peers, Renewable(r, x.name)
    PROVE  /\ x \in Rows
           /\ profile[x.name] \in Profiles
           /\ Renewed(r, x) \in [name : Names, profile : Profiles]
<1>1. x \in Rows /\ cfg[r].settings \in Settings
  BY ConfigWith DEF TypeOK
<1>2. profile[x.name] \in Profiles
  BY <1>1 DEF Renewable, TypeOK, Rows
<1> QED
  BY <1>1, <1>2 DEF Renewed, Profiles, Rows

\* Visiting a client file keeps the types.
LEMMA PickType ==
    ASSUME TypeInv, NEW r \in Reqs, NEW n \in Names, Pick(r, n)
    PROVE  TypeInv'
<1> USE DEF TypeInv
<1>1. op[r].kind = "update" /\ ~Invalid(op[r])
  BY DEF Pick, At, Shape, ShapeOf, Working
<1>2. todo' \in [Reqs -> SUBSET Names]
  BY DEF Pick, TypeOK
<1>3. CASE Renewable(r, n) /\ Go(r, "truncate")
  <2>1. PICK x \in cfg[r].peers : x.name = n /\ draft' = [draft EXCEPT ![r] = Renewed(r, x)]
    BY <1>3 DEF Pick
  <2>4. Renewed(r, x) \in [name : Names, profile : Profiles]
    BY <1>3, <2>1, RenewedType
  <2>5. draft' \in [Reqs -> [name : Names, profile : Profiles] \cup {NoDraft}]
    BY <2>1, <2>4 DEF TypeOK
  <2>6. "truncate" \in Steps
    BY DEF Steps, Working
  <2>7. TypeOK'
    BY <1>2, <1>3, <2>5, <2>6, GoType DEF Pick, TypeOK, Steps, stored, ghosts
  <2>8. ShapeOf(r)'
    BY <1>1, <1>3, <2>6, GoType DEF Pick, At, Shape, ShapeOf, Working
  <2> QED
    BY <1>3, <2>6, <2>7, <2>8, GoType, ShapeOthers DEF Pick
<1>4. CASE UNCHANGED <<draft, pc>>
  BY <1>2, <1>4 DEF Pick, TypeOK, Shape, ShapeOf, stored, ghosts
<1> QED
  BY <1>3, <1>4 DEF Pick

\* The start of main.go keeps the types.
LEMMA BootType ==
    ASSUME TypeInv, BootFlush \/ BootSync
    PROVE  TypeInv'
<1> USE DEF TypeInv
<1>1. Stored \in Configs
  BY StoredType
<1>2. CASE BootFlush
  BY <1>1, <1>2 DEF BootFlush, TypeOK, Shape, ShapeOf, locals
<1>3. CASE BootSync
  BY <1>1, <1>3 DEF BootSync, TypeOK, Shape, ShapeOf, locals
<1> QED
  BY <1>2, <1>3

\* TypeInv is inductive.
LEMMA StepType == TypeInv /\ [Next]_vars => TypeInv'
<1> SUFFICES ASSUME TypeInv, [Next]_vars PROVE TypeInv'
    OBVIOUS
<1> USE DEF TypeInv
<1>1. ASSUME NEW r \in Reqs, NEW o \in Ops, Receive(r, o) PROVE TypeInv'
  BY <1>1, ReceiveType
<1>2. ASSUME NEW r \in Reqs, ReadRow(r) PROVE TypeInv'
  BY <1>2, ListeningType
     DEF ReadRow, Configs, TypeOK, Shape, ShapeOf, At, Go, Steps, Working, stored,
         ghosts
<1>3. ASSUME NEW r \in Reqs, ReadPeers(r) PROVE TypeInv'
  BY <1>3, ReadPeersType
<1>4. ASSUME NEW r \in Reqs, NoFreeIP(r) PROVE TypeInv'
  BY <1>4, ProceedType
     DEF NoFreeIP, TypeOK, Shape, ShapeOf, At, Steps, Working, Answered, LocalsType,
         stored, ghosts
<1>5. ASSUME NEW r \in Reqs, Find(r) PROVE TypeInv'
  BY <1>5, ProceedType
     DEF Find, TypeOK, Shape, ShapeOf, At, Steps, Working, Answered, LocalsType,
         stored, ghosts
<1>6. ASSUME NEW r \in Reqs, ReadFails(r) PROVE TypeInv'
  BY <1>6, ProceedType
     DEF ReadFails, TypeOK, Shape, ShapeOf, At, Steps, Working, Answered, LocalsType,
         stored, ghosts
<1>7. ASSUME NEW r \in Reqs, Write(r) PROVE TypeInv'
  BY <1>7, WriteType
<1>8. ASSUME NEW r \in Reqs, Conflict(r) PROVE TypeInv'
  BY <1>8, ProceedType
     DEF Conflict, TypeOK, Shape, ShapeOf, At, Steps, Working, Answered, LocalsType,
         stored, ghosts
<1>9. ASSUME NEW r \in Reqs, WriteFails(r) PROVE TypeInv'
  BY <1>9, WriteFailsType
<1>10. ASSUME NEW r \in Reqs, Flush(r) PROVE TypeInv'
  BY <1>10, FlushType
<1>11. ASSUME NEW r \in Reqs, FlushFails(r) PROVE TypeInv'
  BY <1>11, ProceedType
     DEF FlushFails, TypeOK, Shape, ShapeOf, At, Steps, Working, Answered, LocalsType,
         stored, ghosts
<1>12. ASSUME NEW r \in Reqs, Truncate(r) PROVE TypeInv'
  BY <1>12, TruncateType
<1>13. ASSUME NEW r \in Reqs, Fill(r) PROVE TypeInv'
  BY <1>13, FillType
<1>14. ASSUME NEW r \in Reqs, FileFails(r) PROVE TypeInv'
  BY <1>14, FileFailsType
<1>15. ASSUME NEW r \in Reqs, RemoveFile(r) PROVE TypeInv'
  BY <1>15, RemoveFileType
<1>16. ASSUME NEW r \in Reqs, RemoveFails(r) PROVE TypeInv'
  BY <1>16, ProceedType
     DEF RemoveFails, TypeOK, Shape, ShapeOf, At, Steps, Working, Answered, LocalsType,
         stored, ghosts
<1>17. ASSUME NEW r \in Reqs, SyncRow(r) PROVE TypeInv'
  BY <1>17, ListeningType
     DEF SyncRow, Configs, TypeOK, Shape, ShapeOf, At, Go, Steps, Working, stored,
         ghosts
<1>18. ASSUME NEW r \in Reqs, SyncPeers(r) PROVE TypeInv'
  BY <1>18
     DEF SyncPeers, Configs, TypeOK, Shape, ShapeOf, At, Go, Steps, Working, stored,
         ghosts
<1>19. ASSUME NEW r \in Reqs, Apply(r) PROVE TypeInv'
  BY <1>19, ApplyType
<1>20. ASSUME NEW r \in Reqs, SyncFails(r) PROVE TypeInv'
  BY <1>20, ProceedType
     DEF SyncFails, AfterSync, Is, TypeOK, Shape, ShapeOf, At, Steps, Working,
         Answered, LocalsType, stored, ghosts
<1>21. ASSUME NEW r \in Reqs, List(r) PROVE TypeInv'
  BY <1>21 DEF List, TypeOK, Shape, ShapeOf, At, Go, Steps, Working, stored, ghosts
<1>22. ASSUME NEW r \in Reqs, ListFails(r) PROVE TypeInv'
  BY <1>22, ProceedType
     DEF ListFails, TypeOK, Shape, ShapeOf, At, Steps, Working, Answered, LocalsType,
         stored, ghosts
<1>23. ASSUME NEW r \in Reqs, NEW n \in Names, Pick(r, n) PROVE TypeInv'
  BY <1>23, PickType
<1>24. ASSUME NEW r \in Reqs, Finish(r) PROVE TypeInv'
  BY <1>24, ProceedType
     DEF Finish, TypeOK, Shape, ShapeOf, At, Steps, Working, Answered, LocalsType,
         stored, ghosts
<1>25. CASE Crash
  BY <1>25, ForgetType
     DEF Crash, InFlight, LocalsType, TypeOK, Shape, ShapeOf, Steps, Working, Answered
<1>26. CASE BootFlush
  BY <1>26, BootType
<1>27. CASE BootSync
  BY <1>27, BootType
<1>28. CASE UNCHANGED vars
  BY <1>28
     DEF vars, TypeOK, Shape, ShapeOf, stored, locals, ghosts
<1> QED
  BY <1>1, <1>2, <1>3, <1>4, <1>5, <1>6, <1>7, <1>8, <1>9, <1>10,
     <1>11, <1>12, <1>13, <1>14, <1>15, <1>16, <1>17, <1>18, <1>19, <1>20,
     <1>21, <1>22, <1>23, <1>24, <1>25, <1>26, <1>27, <1>28
  DEF Next, Serve

\* Whatever the interleaving, the failures and the crashes, every variable
\* keeps the values the Go types and the code's steps give it.
THEOREM TypeCorrect == Spec => []TypeOK
<1>1. Spec => []TypeInv
  BY InitType, StepType, PTL DEF Spec
<1> QED
  BY <1>1, PTL DEF TypeInv

-----------------------------------------------------------------------------
(* awg0.conf follows the database.                                          *)

\* A request that has the file to write owns the mutex, so that nothing moves
\* in the database before it has written it; and an UpdateServerConfig has in
\* its hands the settings it has stored.
FlushOwned(r) ==
    pc[r] = "flush" =>
        /\ mu = r
        /\ r \in took
        /\ Is(r, "update") => /\ cfg[r].settings = op[r].settings
                              /\ db.settings = op[r].settings

\* Only a request that has arrived has changed the database.
TookArrived == \A r \in Reqs : r \in took => pc[r] # "idle"

FileInv == (\A r \in Reqs : FlushOwned(r)) /\ TookArrived /\ FileFollowsDb

\* A step of r that leaves the database, the file and their lock alone.
Quiet(r) ==
    /\ UNCHANGED <<db, file, mu, op, took, behind>>
    /\ pc[r] # "flush"
    /\ pc'[r] \notin {"idle", "flush"}
    /\ pc'[r] = "save" => cfg'[r].peers = db.peers
    /\ \A q \in Reqs : q # r => pc'[q] = pc[q] /\ cfg'[q] = cfg[q]

\* Quiet steps keep the file where it is.
LEMMA QuietKeepsFile ==
    ASSUME FileInv, NEW r \in Reqs, Quiet(r)
    PROVE  FileInv'
<1>1. ASSUME NEW q \in Reqs PROVE FlushOwned(q)'
  <2>1. CASE q = r
    BY <2>1 DEF Quiet, FlushOwned
  <2>2. CASE q # r
    BY <2>2 DEF Quiet, FlushOwned, FileInv, Is
  <2> QED
    BY <2>1, <2>2
<1>2. TookArrived'
  BY DEF Quiet, FileInv, TookArrived
<1>3. FileFollowsDb'
  BY DEF Quiet, FileInv, FileFollowsDb, Is, Listening
<1> QED
  BY <1>1, <1>2, <1>3 DEF FileInv

\* All steps of a request but the SQL writes and the flush are quiet.
LEMMA QuietSteps ==
    ASSUME TypeInv, NEW r \in Reqs,
           \/ ReadRow(r) \/ ReadPeers(r) \/ NoFreeIP(r) \/ Find(r) \/ ReadFails(r)
           \/ Conflict(r) \/ Truncate(r) \/ Fill(r) \/ FileFails(r)
           \/ RemoveFile(r) \/ RemoveFails(r) \/ SyncRow(r) \/ SyncPeers(r)
           \/ Apply(r) \/ SyncFails(r) \/ List(r) \/ ListFails(r)
           \/ (\E n \in Names : Pick(r, n)) \/ Finish(r)
    PROVE  Quiet(r)
<1> USE DEF TypeInv
<1>1. pc[r] # "flush"
  BY DEF At, ReadRow, ReadPeers, NoFreeIP, Find, ReadFails, Conflict, Truncate, Fill,
         FileFails, RemoveFile, RemoveFails, SyncRow, SyncPeers, Apply, SyncFails, List,
         ListFails, Pick, Finish
<1>2. ASSUME NEW step \in Steps \ {"idle", "flush", "save"}, Go(r, step) \/ Proceed(r, step)
      PROVE  /\ pc'[r] \notin {"idle", "flush", "save"}
             /\ \A q \in Reqs : q # r => pc'[q] = pc[q]
  BY <1>2, GoType, ProceedType
<1>3. ASSUME NEW step \in Steps, Proceed(r, step)
      PROVE  \A q \in Reqs : q # r => cfg'[q] = cfg[q]
  BY <1>3, ProceedType
<1>4. CASE ReadRow(r)
  BY <1>1, <1>2, <1>4 DEF ReadRow, Quiet, Steps, Working, TypeOK, stored, ghosts
<1>5. CASE ReadPeers(r)
  <2>1. PICK step \in {"save", "insert"} : Go(r, step)
    BY <1>5 DEF ReadPeers
  <2>2. step \in Steps
    BY DEF Steps, Working
  <2>3. cfg'[r].peers = db.peers /\ \A q \in Reqs : q # r => cfg'[q] = cfg[q]
    BY <1>5 DEF ReadPeers, TypeOK, Configs
  <2> QED
    BY <1>1, <1>5, <2>1, <2>2, <2>3, GoType DEF ReadPeers, Quiet, stored, ghosts
<1>6. CASE NoFreeIP(r) \/ Find(r) \/ ReadFails(r) \/ Conflict(r)
  BY <1>1, <1>2, <1>3, <1>6
     DEF NoFreeIP, Find, ReadFails, Conflict, Quiet, Steps, Working, Answered, stored, ghosts
<1>7. CASE Truncate(r) \/ RemoveFails(r) \/ ListFails(r) \/ Finish(r)
  BY <1>1, <1>2, <1>3, <1>7
     DEF Truncate, RemoveFails, ListFails, Finish, Quiet, Steps, Working, Answered,
         stored, ghosts
<1>8. /\ AfterFile(r) \in Steps \ {"idle", "flush", "save"}
      /\ AfterSync(r) \in Steps \ {"idle", "flush", "save"}
  BY DEF AfterFile, AfterSync, Steps, Working, Answered
<1>9. CASE Fill(r) \/ FileFails(r)
  BY <1>1, <1>2, <1>8, <1>9 DEF Fill, FileFails, Quiet, stored, ghosts
<1>10. CASE Apply(r) \/ SyncFails(r)
  BY <1>1, <1>2, <1>3, <1>8, <1>10 DEF Apply, SyncFails, Quiet, stored
<1>11. CASE RemoveFile(r) \/ SyncRow(r) \/ SyncPeers(r) \/ List(r)
  BY <1>1, <1>2, <1>11
     DEF RemoveFile, SyncRow, SyncPeers, List, Quiet, Steps, Working, stored, ghosts
<1>12. ASSUME NEW n \in Names, Pick(r, n) PROVE Quiet(r)
  <2>1. CASE Go(r, "truncate")
    BY <1>1, <1>2, <1>12, <2>1 DEF Pick, Quiet, Steps, Working, stored, ghosts
  <2>2. CASE UNCHANGED pc
    BY <1>12, <2>2 DEF Pick, At, Quiet, stored, ghosts
  <2> QED
    BY <1>12, <2>1, <2>2 DEF Pick
<1> QED
  BY <1>4, <1>5, <1>6, <1>7, <1>9, <1>10, <1>11, <1>12

\* FileInv holds at the start.
LEMMA FileInit == Init => FileInv
BY DEF Init, FileInv, FlushOwned, TookArrived, FileFollowsDb

\* FileInv is inductive: the writes and the flushes exclude each other.
LEMMA FileStep == TypeInv /\ FileInv /\ [Next]_vars => FileInv'
<1> SUFFICES ASSUME TypeInv, FileInv, [Next]_vars PROVE FileInv'
  OBVIOUS
<1> USE DEF TypeInv
<1>1. ASSUME NEW r \in Reqs, NEW o \in Ops, Receive(r, o) PROVE FileInv'
  <2>1. /\ pc[r] = "idle" /\ r \notin took
        /\ pc'[r] \notin {"idle", "flush"}
        /\ \A q \in Reqs : q # r => pc'[q] = pc[q] /\ op'[q] = op[q]
        /\ UNCHANGED <<db, file, mu, cfg, took, behind>>
    BY <1>1 DEF Receive, At, Go, TypeOK, FileInv, TookArrived, stored, ghosts
  <2>2. ASSUME NEW q \in Reqs PROVE FlushOwned(q)'
    BY <2>1 DEF FileInv, FlushOwned, Is
  <2>3. TookArrived'
    BY <2>1 DEF FileInv, TookArrived
  <2>4. FileFollowsDb'
    BY <2>1 DEF FileInv, FileFollowsDb, Is, Listening, TypeOK
  <2> QED
    BY <2>2, <2>3, <2>4 DEF FileInv
<1>2. ASSUME NEW r \in Reqs, Write(r) PROVE FileInv'
  <2>1. /\ mu = NoReq /\ mu' = r /\ r \in took'
        /\ pc'[r] = "flush" /\ \A q \in Reqs : q # r => pc'[q] = pc[q]
        /\ UNCHANGED <<op, file, behind>>
    BY <1>2, GoType DEF Write, MayWrite, Steps, Working
  <2>2. \A q \in Reqs : pc[q] # "flush"
    BY <2>1, ServiceAssumption DEF FileInv, FlushOwned
  <2>3. Is(r, "update") => cfg'[r].settings = op[r].settings /\ db'.settings = op[r].settings
    BY <1>2 DEF Write, Written, Is, TypeOK, Configs
  <2>4. ASSUME NEW q \in Reqs PROVE FlushOwned(q)'
    BY <2>1, <2>2, <2>3 DEF FlushOwned, Is
  <2>5. TookArrived'
    BY <1>2, <2>1 DEF Write, FileInv, TookArrived
  <2>6. FileFollowsDb'
    BY <2>1, ServiceAssumption DEF FileFollowsDb
  <2> QED
    BY <2>4, <2>5, <2>6 DEF FileInv
<1>3. ASSUME NEW r \in Reqs, WriteFails(r) PROVE FileInv'
  <2>1. /\ mu = NoReq /\ UNCHANGED <<op, file, mu>>
        /\ pc'[r] = "failed" /\ \A q \in Reqs : q # r => pc'[q] = pc[q]
        /\ UNCHANGED <<db, took, behind>> \/ (behind' = TRUE /\ took' = took \cup {r})
    BY <1>3, ProceedType DEF WriteFails, MayWrite, Steps, Answered, ghosts
  <2>2. \A q \in Reqs : pc[q] # "flush"
    BY <2>1, ServiceAssumption DEF FileInv, FlushOwned
  <2>3. ASSUME NEW q \in Reqs PROVE FlushOwned(q)'
    BY <2>1, <2>2 DEF FlushOwned
  <2>4. TookArrived'
    BY <2>1 DEF FileInv, TookArrived
  <2>5. FileFollowsDb'
    BY <2>1 DEF FileInv, FileFollowsDb, Is, Listening
  <2> QED
    BY <2>3, <2>4, <2>5 DEF FileInv
<1>4. ASSUME NEW r \in Reqs, Flush(r) PROVE FileInv'
  <2>1. /\ pc[r] = "flush" /\ mu = r /\ r \in took
        /\ pc'[r] \notin {"idle", "flush"} /\ \A q \in Reqs : q # r => pc'[q] = pc[q]
        /\ UNCHANGED <<db, op, cfg, took>>
    <3>1. op[r].kind \in {"create", "delete", "update"}
      BY <1>4, OpFields DEF Flush, At, TypeOK, Shape, ShapeOf
    <3> QED
      BY <1>4, <3>1 DEF Flush, At, Go, Is, TypeOK, FileInv, FlushOwned
  <2>2. \A q \in Reqs : q # r => pc[q] # "flush"
    BY <2>1 DEF FileInv, FlushOwned
  <2>3. FileFollowsDb'
    <3>1. CASE Is(r, "update")
      BY <1>4, <2>1, <3>1 DEF Flush, FlushedConfig, FileInv, FlushOwned, FileFollowsDb, Is
    <3>2. CASE ~Is(r, "update")
      BY <1>4, <2>1, <3>2 DEF Flush, FlushedConfig, Stored, FileFollowsDb
    <3> QED
      BY <3>1, <3>2
  <2>4. ASSUME NEW q \in Reqs PROVE FlushOwned(q)'
    BY <2>1, <2>2 DEF FlushOwned
  <2>5. TookArrived'
    BY <2>1 DEF FileInv, TookArrived
  <2> QED
    BY <2>3, <2>4, <2>5 DEF FileInv
<1>5. ASSUME NEW r \in Reqs, FlushFails(r) PROVE FileInv'
  <2>1. /\ pc[r] = "flush" /\ mu = r /\ behind' = TRUE /\ took' = took
        /\ pc'[r] = "failed" /\ \A q \in Reqs : q # r => pc'[q] = pc[q]
    BY <1>5, ProceedType DEF FlushFails, At, Steps, Answered, FileInv, FlushOwned
  <2>2. ASSUME NEW q \in Reqs PROVE FlushOwned(q)'
    BY <2>1 DEF FileInv, FlushOwned
  <2> QED
    BY <2>1, <2>2 DEF FileInv, TookArrived, FileFollowsDb
<1>6. CASE Crash
  <2>1. \A q \in Reqs : pc'[q] # "flush" /\ (pc[q] # "idle" => pc'[q] # "idle")
    BY <1>6 DEF Crash, InFlight, Working, TypeOK
  <2> QED
    BY <1>6, <2>1 DEF Crash, FileInv, FlushOwned, TookArrived, FileFollowsDb
<1>7. CASE BootFlush
  <2>1. UNCHANGED <<db, mu, pc, op, cfg, took>>
    BY <1>7 DEF BootFlush, locals
  <2>2. FileFollowsDb'
    BY <1>7, <2>1 DEF BootFlush, Stored, FileInv, FileFollowsDb, Is, Listening
  <2> QED
    BY <2>1, <2>2 DEF FileInv, FlushOwned, TookArrived, Is
<1>8. CASE BootSync \/ UNCHANGED vars
  <2>1. UNCHANGED <<db, file, mu, pc, op, cfg, took, behind>>
    BY <1>8 DEF BootSync, vars, stored, locals, ghosts
  <2> QED
    BY <2>1 DEF FileInv, FlushOwned, TookArrived, FileFollowsDb, Is, Listening
<1> QED
  BY <1>1, <1>2, <1>3, <1>4, <1>5, <1>6, <1>7, <1>8, QuietSteps, QuietKeepsFile
  DEF Next, Serve

\* Writes and flushes never get out of order: see FileFollowsDb.
THEOREM FileCorrect == Spec => []FileFollowsDb
<1>1. Spec => [](TypeInv /\ FileInv)
  BY InitType, StepType, FileInit, FileStep, PTL DEF Spec
<1> QED
  BY <1>1, PTL DEF FileInv

-----------------------------------------------------------------------------
(***************************************************************************)
(* AwgService implements PeerRegistry: see RegistryKept.                   *)
(***************************************************************************)

\* The steps of a request before its SQL write and after it. After a failure
\* or a crash it may be either, which is why those answers promise nothing.
Before == {"idle", "row", "peers", "insert", "find", "drop", "save", "refused"}
After == {"flush", "truncate", "fill", "remove", "syncRow", "syncPeers", "apply",
          "list", "pick", "ok"}

\* A request is where it is because of what it has done to the database, and
\* an address it is about to insert is one it may have.
Progress(r) ==
    /\ pc[r] \in Before => r \notin took
    /\ pc[r] \in After => r \in took
    /\ pc[r] = "insert" => op[r].ip \in {ip[r], AnyIP}

ProgressInv == \A r \in Reqs : Progress(r)

\* The answers that the requests have got.
Replied == [r \in Reqs |-> IF pc[r] \in Answered THEN pc[r] ELSE "none"]

-----------------------------------------------------------------------------
(* The steps that leave the database alone. *)

\* r goes on to step, which may be its answer.
Moves(r, step) ==
    /\ UNCHANGED <<db, op, took>>
    /\ pc[r] \in Working
    /\ pc' = [pc EXCEPT ![r] = step]
    /\ \A q \in Reqs : q # r => ip'[q] = ip[q]

\* What a refusal may rest on.
Reason(r) ==
    \/ /\ op[r].kind = "create"
       /\ \E i \in IPs : /\ op[r].ip \in {i, AnyIP}
                         /\ Clash([name |-> op[r].name, key |-> r, ip |-> i], db.peers)
    \/ /\ op[r].kind = "delete"
       /\ \A x \in db.peers : x.name # op[r].name

\* Where r may be going.
Onward(r, step) ==
    \/ /\ step \in Before \cap Working /\ pc[r] \in Before
       /\ step = "insert" => op[r].ip \in {ip'[r], AnyIP}
    \/ step = "refused" /\ pc[r] \in Before /\ Reason(r)
    \/ step = "failed"
    \/ step \in After /\ pc[r] \in After

\* Until its SQL write a request goes on, fails, or is refused for a reason.
LEMMA LoadsMove ==
    ASSUME TypeInv, ProgressInv, NEW r \in Reqs,
           \/ ReadRow(r) \/ ReadPeers(r) \/ NoFreeIP(r) \/ Find(r) \/ ReadFails(r)
           \/ Conflict(r) \/ FlushFails(r)
    PROVE  \E step \in Steps : Moves(r, step) /\ Onward(r, step)
<1> USE DEF TypeInv
<1>1. ASSUME NEW step \in Steps, Proceed(r, step), pc[r] \in Working, UNCHANGED <<db, op, took>>
      PROVE  Moves(r, step)
  BY <1>1, ProceedType DEF Proceed, Go, Moves
<1>2. CASE ReadRow(r)
  <2>1. Moves(r, "peers") /\ "peers" \in Steps
    BY <1>2 DEF ReadRow, At, Go, Moves, Steps, Working, stored, ghosts
  <2>2. Onward(r, "peers")
    BY <1>2 DEF ReadRow, At, Onward, Before, Working
  <2> QED
    BY <2>1, <2>2
<1>3. CASE ReadPeers(r)
  <2>1. CASE Is(r, "update") /\ Go(r, "save") /\ UNCHANGED ip
    <3>1. Moves(r, "save") /\ "save" \in Steps
      BY <1>3, <2>1 DEF ReadPeers, At, Go, Moves, Steps, Working, stored, ghosts
    <3>2. Onward(r, "save")
      BY <1>3 DEF ReadPeers, At, Onward, Before, Working
    <3> QED
      BY <3>1, <3>2
  <2>2. ASSUME Go(r, "insert"), NEW i \in IPs, op[r].ip \in {i, AnyIP},
               ip' = [ip EXCEPT ![r] = i]
        PROVE  \E step \in Steps : Moves(r, step) /\ Onward(r, step)
    <3>1. Moves(r, "insert") /\ "insert" \in Steps
      BY <1>3, <2>2 DEF ReadPeers, At, Go, Moves, Steps, Working, TypeOK, stored, ghosts
    <3>2. ip'[r] = i
      BY <2>2 DEF TypeOK
    <3>3. Onward(r, "insert")
      BY <1>3, <2>2, <3>2 DEF ReadPeers, At, Onward, Before, Working
    <3> QED
      BY <3>1, <3>3
  <2> QED
    BY <1>3, <2>1, <2>2 DEF ReadPeers
<1>4. CASE ReadFails(r) \/ FlushFails(r)
  <2>1. Moves(r, "failed") /\ "failed" \in Steps
    BY <1>1, <1>4
       DEF ReadFails, FlushFails, At, Steps, Working, Answered, stored, ghosts
  <2> QED
    BY <2>1 DEF Onward
<1>5. CASE Find(r)
  <2>1. pc[r] = "find" /\ op[r].kind = "delete"
    BY <1>5 DEF Find, At, Shape, ShapeOf
  <2>2. PICK step \in Steps :
          /\ Proceed(r, step)
          /\ \/ step = "drop"
             \/ step = "refused" /\ \A x \in db.peers : x.name # op[r].name
    BY <1>5 DEF Find, Steps, Working, Answered
  <2>3. Moves(r, step)
    BY <1>1, <1>5, <2>1, <2>2 DEF Find, Working, stored, ghosts
  <2>4. Onward(r, step)
    BY <2>1, <2>2 DEF Onward, Before, Working, Reason
  <2> QED
    BY <2>3, <2>4
<1>6. CASE Conflict(r)
  <2>1. /\ pc[r] = "insert" /\ op[r].kind = "create" /\ ip[r] \in IPs
        /\ op[r].ip \in {ip[r], AnyIP}
    BY <1>6 DEF Conflict, At, Shape, ShapeOf, ProgressInv, Progress
  <2>2. Moves(r, "refused") /\ "refused" \in Steps
    BY <1>1, <1>6, <2>1 DEF Conflict, Steps, Working, Answered, stored, ghosts
  <2>3. Onward(r, "refused")
    BY <1>6, <2>1 DEF Conflict, Row, Onward, Before, Reason
  <2> QED
    BY <2>2, <2>3
<1>7. CASE NoFreeIP(r)
  <2>1. pc[r] = "peers" /\ op[r].kind = "create" /\ op[r].ip = AnyIP
    BY <1>7 DEF NoFreeIP, At, Is
  <2>2. Moves(r, "refused") /\ "refused" \in Steps
    BY <1>1, <1>7, <2>1 DEF NoFreeIP, Steps, Working, Answered, stored, ghosts
  <2>3. PICK i \in IPs : \E x \in db.peers : x.ip = i
    BY <1>7, DataAssumption DEF NoFreeIP
  <2>4. Onward(r, "refused")
    BY <2>1, <2>3 DEF Onward, Before, Reason, Clash
  <2> QED
    BY <2>2, <2>4
<1> QED
  BY <1>2, <1>3, <1>4, <1>5, <1>6, <1>7

\* After its SQL write and its flush a request goes on to its success.
LEMMA LaterMove ==
    ASSUME TypeInv, NEW r \in Reqs,
           \/ Flush(r) \/ Truncate(r) \/ Fill(r) \/ FileFails(r)
           \/ RemoveFile(r) \/ RemoveFails(r) \/ SyncRow(r) \/ SyncPeers(r)
           \/ Apply(r) \/ SyncFails(r) \/ List(r) \/ ListFails(r)
           \/ (\E n \in Names : Pick(r, n)) \/ Finish(r)
    PROVE  \E step \in Steps : Moves(r, step) /\ Onward(r, step)
<1> USE DEF TypeInv
<1> SUFFICES ASSUME TRUE
             PROVE  \E step \in After \cap Steps : Moves(r, step) /\ pc[r] \in After
  BY DEF Onward
<1>1. ASSUME NEW step \in Steps, Proceed(r, step), pc[r] \in Working, UNCHANGED <<db, op, took>>
      PROVE  Moves(r, step)
  BY <1>1, ProceedType DEF Proceed, Go, Moves
<1>2. CASE Truncate(r) \/ RemoveFails(r) \/ ListFails(r) \/ Finish(r)
  BY <1>1, <1>2
     DEF Truncate, RemoveFails, ListFails, Finish, At, After, Steps, Working, Answered,
         stored, ghosts
<1>3. AfterFile(r) \in After \cap Steps /\ AfterSync(r) \in After \cap Steps
  BY DEF AfterFile, AfterSync, After, Steps, Working, Answered
<1>4. CASE Fill(r) \/ FileFails(r)
  BY <1>3, <1>4 DEF Fill, FileFails, At, Go, After, Working, Moves, stored, ghosts
<1>5. CASE Apply(r) \/ SyncFails(r)
  BY <1>1, <1>3, <1>5 DEF Apply, SyncFails, At, After, Working, stored
<1>6. CASE RemoveFile(r) \/ SyncRow(r) \/ SyncPeers(r) \/ List(r)
  BY <1>6
     DEF RemoveFile, SyncRow, SyncPeers, List, At, Go, Moves, After, Steps, Working,
         stored, ghosts
<1>7. ASSUME NEW n \in Names, Pick(r, n)
      PROVE  \E step \in After \cap Steps : Moves(r, step) /\ pc[r] \in After
  <2>1. "pick" \in After \cap Steps /\ "truncate" \in After \cap Steps /\ pc[r] = "pick"
    BY <1>7 DEF Pick, At, After, Steps, Working
  <2>2. CASE Go(r, "truncate")
    BY <1>7, <2>1, <2>2 DEF Pick, Go, Moves, Working, stored, ghosts
  <2>3. CASE UNCHANGED pc
    <3>1. pc' = [pc EXCEPT ![r] = "pick"]
      BY <2>1, <2>3 DEF TypeOK
    <3> QED
      BY <1>7, <2>1, <3>1 DEF Pick, Moves, Working, stored, ghosts
  <2> QED
    BY <1>7, <2>2, <2>3 DEF Pick
<1>8. CASE Flush(r)
  <2>1. op[r].kind \in {"create", "delete", "update"}
    BY <1>8, OpFields DEF Flush, At, TypeOK, Shape, ShapeOf
  <2>2. PICK step \in After \cap Steps : Go(r, step)
    BY <1>8, <2>1 DEF Flush, Is, After, Steps, Working
  <2> QED
    BY <1>8, <2>2 DEF Flush, At, Go, Moves, After, Working
<1> QED
  BY <1>2, <1>4, <1>5, <1>6, <1>7, <1>8
-----------------------------------------------------------------------------
(* ProgressInv is an invariant.                                             *)

\* Going on keeps a request where what it has done says it is.
LEMMA MoveKeepsProgress ==
    ASSUME TypeInv, ProgressInv, NEW r \in Reqs, NEW step \in Steps,
           Moves(r, step), Onward(r, step)
    PROVE  ProgressInv'
<1> SUFFICES ASSUME NEW q \in Reqs PROVE Progress(q)'
  BY DEF ProgressInv
<1>1. CASE q = r
  <2>1. pc'[r] = step /\ took' = took /\ op' = op
    BY DEF Moves, TypeInv, TypeOK
  <2>2. Progress(r)
    BY DEF ProgressInv
  <2> QED
    BY <1>1, <2>1, <2>2 DEF Onward, Progress, Before, After, Working
<1>2. CASE q # r
  BY <1>2 DEF Moves, ProgressInv, Progress, TypeInv, TypeOK
<1> QED
  BY <1>1, <1>2

\* ProgressInv holds at the start.
LEMMA ProgressInit == Init => ProgressInv
BY DEF Init, ProgressInv, Progress, After

\* ProgressInv is inductive.
LEMMA ProgressStep == TypeInv /\ ProgressInv /\ [Next]_vars => ProgressInv'
<1> SUFFICES ASSUME TypeInv, ProgressInv, [Next]_vars PROVE ProgressInv'
  OBVIOUS
<1> USE DEF TypeInv
<1>1. ASSUME NEW r \in Reqs, NEW o \in Ops, Receive(r, o) PROVE ProgressInv'
  <2> SUFFICES ASSUME NEW q \in Reqs PROVE Progress(q)'
    BY DEF ProgressInv
  <2>1. CASE q = r
    <3>1. r \notin took' /\ pc'[r] \in {"refused", "find", "row"}
      BY <1>1 DEF Receive, At, Go, TypeOK, ProgressInv, Progress, Before, ghosts
    <3> QED
      BY <2>1, <3>1 DEF Progress, After
  <2>2. CASE q # r
    BY <1>1, <2>2 DEF Receive, Go, TypeOK, ProgressInv, Progress, ghosts
  <2> QED
    BY <2>1, <2>2
<1>2. ASSUME NEW r \in Reqs, Write(r) PROVE ProgressInv'
  <2> SUFFICES ASSUME NEW q \in Reqs PROVE Progress(q)'
    BY DEF ProgressInv
  <2>1. CASE q = r
    BY <1>2, <2>1 DEF Write, Go, TypeOK, Progress, Before
  <2>2. CASE q # r
    BY <1>2, <2>2 DEF Write, Go, TypeOK, ProgressInv, Progress
  <2> QED
    BY <2>1, <2>2
<1>3. ASSUME NEW r \in Reqs, WriteFails(r) PROVE ProgressInv'
  <2>1. /\ pc'[r] = "failed" /\ op' = op /\ \A q \in Reqs : q # r => q \in took' <=> q \in took
        /\ \A q \in Reqs : q # r => pc'[q] = pc[q] /\ ip'[q] = ip[q]
    BY <1>3, ProceedType DEF WriteFails, Steps, Answered, ghosts
  <2> QED
    BY <2>1 DEF ProgressInv, Progress, Before, After
<1>4. CASE Crash
  <2>1. /\ \A q \in Reqs : pc'[q] = "lost" \/ (pc'[q] = pc[q] /\ pc[q] \notin Working)
        /\ UNCHANGED <<op, took>>
    BY <1>4 DEF Crash, InFlight, TypeOK
  <2> QED
    BY <2>1 DEF ProgressInv, Progress, Before, After, Working
<1>5. CASE BootFlush \/ BootSync \/ UNCHANGED vars
  BY <1>5 DEF BootFlush, BootSync, vars, stored, locals, ghosts, ProgressInv, Progress
<1> QED
  BY <1>1, <1>2, <1>3, <1>4, <1>5, LoadsMove, LaterMove, MoveKeepsProgress DEF Next, Serve

-----------------------------------------------------------------------------
(* Every step is a step of the registry, or none.                           *)

\* The data of the registry are those of the service.
LEMMA SameData ==
    /\ Registry!Ops = Ops
    /\ \A o : Registry!Invalid(o) = Invalid(o)
    /\ \A x, S : Registry!Clash(x, S) = Clash(x, S)
BY DEF Registry!Ops, Registry!CreateOps, Registry!DeleteOps, Registry!UpdateOps,
       Registry!Settings, Ops, CreateOps, DeleteOps, UpdateOps, Settings,
       Registry!Invalid, Invalid, Registry!Clash, Clash

\* A request is open to the registry while the service works on it.
LEMMA OpenRequest ==
    ASSUME TypeInv, NEW r \in Reqs
    PROVE  /\ Registry!Open(r) <=> pc[r] \in Working
           /\ Registry!Open(r) => r \in Reqs /\ op[r] \in Ops
<1> USE DEF TypeInv
<1>1. "none" \notin Answered /\ Working \cap Answered = {} /\ "idle" \notin Working \cup Answered
  BY DEF Answered, Working
<1>2. pc[r] \in {"idle"} \cup Working \cup Answered /\ (pc[r] = "idle" <=> op[r] = NoOp)
  BY DEF TypeOK, Shape, ShapeOf
<1>3. op[r] \in Ops \cup {NoOp}
  BY DEF TypeOK
<1> QED
  BY <1>1, <1>2, <1>3 DEF Registry!Open

\* The answers after a step of r, and of nobody else.
LEMMA AnswersMove ==
    ASSUME TypeInv, NEW r \in Reqs, NEW step \in Steps, pc[r] \in Working,
           pc' = [pc EXCEPT ![r] = step]
    PROVE  IF step \in Answered
           THEN Replied' = [Replied EXCEPT ![r] = step]
           ELSE Replied' = Replied
<1> USE DEF TypeInv
<1>1. pc \in [Reqs -> Steps] /\ "idle" \notin Answered /\ Working \cap Answered = {}
  BY DEF TypeOK, Steps, Working, Answered
<1>2. \A q \in Reqs : pc'[q] = IF q = r THEN step ELSE pc[q]
  BY <1>1
<1>3. CASE step \in Answered
  BY <1>2, <1>3 DEF Replied
<1>4. CASE step \notin Answered
  BY <1>1, <1>2, <1>4 DEF Replied
<1> QED
  BY <1>3, <1>4

\* A step that leaves the database alone is an answer, or nothing.
LEMMA MoveRefines ==
    ASSUME TypeInv, ProgressInv, NEW r \in Reqs, NEW step \in Steps,
           Moves(r, step), Onward(r, step)
    PROVE  [Registry!RegistryNext]_(Registry!registryVars)
<1>1. /\ pc[r] \in Working /\ pc' = [pc EXCEPT ![r] = step]
      /\ UNCHANGED <<db.peers, db.settings, op, took>>
  BY DEF Moves
<1>2. Registry!Open(r)
  BY <1>1, OpenRequest
<1>3. CASE step \notin Answered
  <2>1. Replied' = Replied
    BY <1>1, <1>3, AnswersMove
  <2> QED
    BY <1>1, <2>1 DEF Registry!registryVars, Replied
<1>4. CASE step \in Answered
  <2>1. Registry!Reply(r, step)
    BY <1>1, <1>4, AnswersMove DEF Registry!Reply, Replied
  <2>2. Progress(r)
    BY DEF ProgressInv
  <2>3. CASE step = "refused"
    <3>1. pc[r] \in Before /\ Reason(r) /\ r \notin took
      BY <2>2, <2>3 DEF Onward, Before, After, Working, Progress
    <3>2. Registry!Refuse(r)
      BY <1>1, <1>2, <2>1, <2>3, <3>1
         DEF Registry!Refuse, Registry!Wanted, Reason, Registry!Clash, Clash
    <3> QED
      BY <3>2 DEF Registry!RegistryNext
  <2>4. CASE step = "failed"
    <3>1. Registry!Fail(r)
      BY <1>1, <1>2, <2>1, <2>4 DEF Registry!Fail
    <3> QED
      BY <3>1 DEF Registry!RegistryNext
  <2>5. CASE step = "ok"
    <3>1. r \in took
      BY <2>2, <2>5 DEF Onward, Before, After, Working, Progress
    <3>2. Registry!Succeed(r)
      BY <1>1, <1>2, <2>1, <2>5, <3>1 DEF Registry!Succeed
    <3> QED
      BY <3>2 DEF Registry!RegistryNext
  <2>6. step # "lost"
    BY DEF Onward, Before, After, Working
  <2> QED
    BY <1>4, <2>3, <2>4, <2>5, <2>6 DEF Answered
<1> QED
  BY <1>3, <1>4

\* A committed statement is the change of the registry, whatever the answer.
LEMMA WrittenChanges ==
    ASSUME TypeInv, ProgressInv, NEW r \in Reqs, MayWrite(r),
           db' = Written(r), took' = took \cup {r}, op' = op,
           Replied' = Replied \/ Replied' = [Replied EXCEPT ![r] = "failed"]
    PROVE  Registry!RegistryNext
<1> USE DEF TypeInv
<1>1. pc[r] \in Working /\ pc[r] \in Before /\ (pc[r] = "insert" <=> Is(r, "create"))
  BY DEF MayWrite, At, Is, Working, Before, Shape, ShapeOf
<1>2. Registry!Open(r) /\ op[r] \in Ops /\ r \notin took
  BY <1>1, OpenRequest DEF ProgressInv, Progress
<1>3. db \in Configs
  BY DEF TypeOK
<1>4. UNCHANGED Replied \/ Registry!Reply(r, "failed")
  BY DEF Registry!Reply, Replied
<1>5. CASE Is(r, "create")
  <2>1. ip[r] \in IPs /\ op[r].ip \in {ip[r], AnyIP}
    BY <1>1, <1>5 DEF Shape, ShapeOf, ProgressInv, Progress, Is
  <2>2. db'.peers = db.peers \cup {Row(r)} /\ db'.settings = db.settings
    BY <1>3, <1>5 DEF Written, Configs, Is
  <2>3. ~Clash(Row(r), db.peers)
    BY <1>5 DEF MayWrite
  <2>4. Registry!Add(r, ip[r])
    BY <1>2, <1>5, <2>1, <2>2, <2>3
       DEF Registry!Add, Registry!Pending, Registry!Wanted, Is, Row, Registry!Clash, Clash
  <2> QED
    BY <1>4, <2>1, <2>4 DEF Registry!RegistryNext, Registry!Change, Replied
<1>6. CASE Is(r, "delete")
  <2>1. /\ db'.peers = {x \in db.peers : x.name # op[r].name}
        /\ db'.settings = db.settings
    BY <1>3, <1>6 DEF Written, Configs, Is
  <2>2. Registry!Remove(r)
    BY <1>2, <1>6, <2>1 DEF Registry!Remove, Registry!Pending, Is
  <2> QED
    BY <1>4, <2>2 DEF Registry!RegistryNext, Registry!Change, Replied
<1>7. CASE Is(r, "update")
  <2>1. db'.settings = op[r].settings /\ db'.peers = db.peers
    BY <1>3, <1>7 DEF Written, Configs, Is
  <2>2. Registry!Configure(r)
    BY <1>2, <1>7, <2>1 DEF Registry!Configure, Registry!Pending, Is
  <2> QED
    BY <1>4, <2>2 DEF Registry!RegistryNext, Registry!Change, Replied
<1> QED
  BY <1>2, <1>5, <1>6, <1>7, OpFields DEF Is

\* The service starts as the registry does.
LEMMA RefineInit == Init => Registry!RegistryInit
BY DEF Init, InitConfig, Registry!RegistryInit, Answered

\* Every step of the service is a step of the registry, or none.
LEMMA RefineStep ==
    TypeInv /\ ProgressInv /\ [Next]_vars
        => [Registry!RegistryNext]_(Registry!registryVars)
<1> SUFFICES ASSUME TypeInv, ProgressInv, [Next]_vars
             PROVE  [Registry!RegistryNext]_(Registry!registryVars)
  OBVIOUS
<1> USE DEF TypeInv
<1>1. ASSUME NEW r \in Reqs, NEW o \in Ops, Receive(r, o)
      PROVE  Registry!RegistryNext
  <2>1. op[r] = NoOp /\ pc[r] = "idle" /\ op' = [op EXCEPT ![r] = o]
    BY <1>1 DEF Receive, At, Shape, ShapeOf
  <2>2. IF Invalid(o) THEN Replied' = [Replied EXCEPT ![r] = "refused"]
                      ELSE Replied' = Replied
    <3>1. "idle" \notin Answered /\ pc \in [Reqs -> Steps]
      BY DEF TypeOK, Steps, Answered
    <3>2. CASE Invalid(o)
      <4>1. pc' = [pc EXCEPT ![r] = "refused"] /\ "refused" \in Answered
        BY <1>1, <3>2 DEF Receive, Go, Answered
      <4> QED
        BY <3>1, <3>2, <4>1 DEF Replied
    <3>3. CASE ~Invalid(o)
      <4>1. PICK step \in {"find", "row"} : pc' = [pc EXCEPT ![r] = step]
        BY <1>1, <3>3 DEF Receive, Go
      <4>2. \A q \in Reqs : pc'[q] = IF q = r THEN step ELSE pc[q]
        BY <3>1, <4>1
      <4>3. step \notin Answered
        BY DEF Answered
      <4> QED
        BY <2>1, <3>1, <3>3, <4>2, <4>3 DEF Replied
    <3> QED
      BY <3>2, <3>3
  <2>3. Registry!Call(r)
    BY <1>1, <2>1, <2>2, SameData
       DEF Receive, Registry!Call, Registry!Reply, Replied, stored, ghosts
  <2> QED
    BY <2>3 DEF Registry!RegistryNext
<1>2. ASSUME NEW r \in Reqs, Write(r) PROVE Registry!RegistryNext
  <2>1. pc[r] \in Working /\ "flush" \in Steps /\ "flush" \notin Answered
    BY <1>2 DEF Write, MayWrite, At, Steps, Working, Answered
  <2>2. Replied' = Replied
    BY <1>2, <2>1, AnswersMove DEF Write, Go
  <2> QED
    BY <1>2, <2>2, WrittenChanges DEF Write
<1>3. ASSUME NEW r \in Reqs, WriteFails(r) PROVE Registry!RegistryNext
  <2>1. pc[r] \in Working /\ "failed" \in Steps /\ "failed" \in Answered
    BY <1>3 DEF WriteFails, MayWrite, At, Steps, Working, Answered
  <2>2. Replied' = [Replied EXCEPT ![r] = "failed"]
    BY <1>3, <2>1, AnswersMove DEF WriteFails, Proceed, Go
  <2>3. CASE UNCHANGED <<db, ghosts>>
    <3>1. Registry!Fail(r)
      BY <1>3, <2>1, <2>2, <2>3, OpenRequest
         DEF WriteFails, Registry!Fail, Registry!Reply, Replied, ghosts
    <3> QED
      BY <3>1 DEF Registry!RegistryNext
  <2>4. CASE db' = Written(r) /\ took' = took \cup {r}
    BY <1>3, <2>2, <2>4, WrittenChanges DEF WriteFails
  <2> QED
    BY <1>3, <2>3, <2>4 DEF WriteFails
<1>4. CASE Crash
  <2>1. ASSUME NEW r \in Reqs
        PROVE  Replied'[r] = IF Registry!Open(r) THEN "lost" ELSE Replied[r]
    <3>1. pc'[r] = IF pc[r] \in Working THEN "lost" ELSE pc[r]
      BY <1>4 DEF Crash, InFlight
    <3> QED
      BY <3>1, OpenRequest DEF Replied, Answered
  <2>2. Replied' = [r \in Reqs |-> IF Registry!Open(r) THEN "lost" ELSE Replied[r]]
    BY <2>1 DEF Replied
  <2>3. Registry!Abandon
    BY <1>4, <2>2 DEF Crash, Registry!Abandon, Replied
  <2> QED
    BY <2>3 DEF Registry!RegistryNext
<1>5. CASE BootFlush \/ BootSync \/ UNCHANGED vars
  BY <1>5 DEF BootFlush, BootSync, vars, stored, locals, ghosts, Registry!registryVars
<1> QED
  BY <1>1, <1>2, <1>3, <1>4, <1>5, LoadsMove, LaterMove, MoveRefines DEF Next, Serve

\* Every answer tells the truth about the database: see RegistryKept.
THEOREM RegistryImplemented == Spec => RegistryKept
<1>1. Spec => [](TypeInv /\ ProgressInv)
  BY InitType, StepType, ProgressInit, ProgressStep, PTL DEF Spec
<1>2. Spec => Registry!RegistryInit /\ [][Registry!RegistryNext]_(Registry!registryVars)
  BY <1>1, RefineInit, RefineStep, PTL DEF Spec
<1> QED
  BY <1>2 DEF RegistryKept, Registry!RegistrySpec

=============================================================================
