--------------------------- MODULE SettingsForms ---------------------------
(***************************************************************************)
(* The two settings dialogs of a tab, NetworkSettingsModal.jsx and         *)
(* AmneziaConfigModal.jsx, with the polls that feed them, the server they  *)
(* save to and another browser.                                            *)
(*                                                                         *)
(* A configuration has one field of each sort: one that a dialog shows but *)
(* does not edit, one that is in no dialog, editable ones with a default   *)
(* and those of AmneziaWG 3.1, without. The value of i1 is the server name *)
(* it was generated from, or another text.                                 *)
(***************************************************************************)
EXTENDS QuicPayload

CONSTANTS
    SniLength,    \* the server names that are typed, with their lengths
    Addresses,    \* what is typed into the fields, beside the defaults
    Paddings,
    Wide,         \* paddings that Number reads as 12 or more,
    WideToServer, \* and strconv.Atoi
    Keys,         \* header protection keys
    BadKeys,      \* and texts that are none
    Stored,       \* configurations before the first save
    Elsewhere,    \* fields that another browser edits
    MaxSteps,     \* bound: dialogs opened, inputs changed and forms submitted
    MaxOthers     \* bound: saves of the other browser, lost and wrong answers

VARIABLES
    stored,       \* server_config
    serverConfig, \* what the tab has of it
    past,         \* every server_config since the page was loaded
    dialog,
    saves,        \* POST /api/server of this tab
    timers,       \* dialogs that a timer of 1.5 seconds will close
    steps,
    others

vars == <<stored, serverConfig, past, dialog, saves, timers, steps, others>>

Domains == DOMAIN SniLength
Network == {"listen_port", "address"}
Obfuscation == {"s4", "i1", "header_protection_key", "random_trailers"}
Awg3 == {"header_protection_key", "random_trailers"}
Fields == Network \cup Obfuscation \cup {"private_key"}
Group(kind) == IF kind = "network" THEN Network ELSE Obfuscation
Kinds == {"network", "obfuscation"}

\* The defaults that || puts in place of an empty text; with ?? there is none.
Default == [f \in Fields |->
    CASE f = "listen_port" -> "689"
      [] f = "address" -> "172.20.0.1/16"
      [] f = "s4" -> "10"
      [] f = "i1" -> "icloud.com"
      [] OTHER -> ""]

\* Inputs: the one of the port is disabled, the one of random_trailers a select.
\* The text area of i1 is taken to be cleared, as no other text is a packet.
Editable == [f \in Fields |->
    CASE f = "address" -> Addresses \cup {""}
      [] f = "s4" -> Paddings \cup {""}
      [] f = "header_protection_key" -> Keys \cup BadKeys \cup {""}
      [] f = "random_trailers" -> {"", "on", "off"}
      [] f = "i1" -> {""}
      [] OTHER -> {}]

Texts == [f \in Fields |->
    {Default[f], ""} \cup Editable[f] \cup {c[f] : c \in Stored}
    \cup (CASE f = "i1" -> Domains
            [] f = "s4" -> {"12"}
            [] OTHER -> {})]

\* The state before the first answer, and after a body {"error": ...}, in
\* which the forms find no more.
Unloaded == [f \in Fields |-> ""]

\* validateObfuscation.
Valid(c) == c["header_protection_key"] # ""
              => c["header_protection_key"] \in Keys /\ c["s4"] \in WideToServer

ASSUME SettingsAssumption ==
    /\ WideToServer \subseteq Wide
    /\ "12" \in WideToServer
    /\ \A c \in Stored : c = [f \in Fields |-> c[f]] /\ Valid(c) /\ c # Unloaded
    /\ MaxSteps \in Nat /\ MaxOthers \in Nat

IsText(c, fields) == \A f \in fields : c[f] \in Texts[f]
IsConfig(c) == DOMAIN c = Fields /\ IsText(c, Fields)
Step == steps < MaxSteps /\ steps' = steps + 1
Closed == [kind |-> "closed"]
-----------------------------------------------------------------------------
Init ==
    /\ stored \in Stored
    /\ serverConfig = Unloaded
    /\ past = {stored}
    /\ dialog = Closed
    /\ saves = {}
    /\ timers = {}
    /\ steps = 0
    /\ others = 0

\* fetchData takes the answer of a poll, with the settings or with an error.
\* Nothing orders or aborts the polls: it may be as old as the page.
HandlePoll ==
    /\ \/ \E c \in past : serverConfig' = c /\ UNCHANGED others
       \/ others < MaxOthers /\ others' = others + 1 /\ serverConfig' = Unloaded
    /\ UNCHANGED <<stored, past, dialog, saves, timers, steps>>
-----------------------------------------------------------------------------
(* The dialogs. Each is mounted when it opens; the last three fields of     *)
(* the record are not in the code.                                         *)

FormOf(kind, c) ==
    [f \in Group(kind) |-> IF c[f] = "" THEN Default[f] ELSE c[f]]

Open(kind) ==
    /\ dialog = Closed
    /\ Step
    /\ dialog' = [kind |-> kind, form |-> FormOf(kind, serverConfig),
                  generating |-> {}, loading |-> FALSE,
                  base |-> serverConfig, edited |-> {}]
    /\ UNCHANGED <<stored, serverConfig, past, saves, timers, others>>

\* What is under way loses the dialog it belongs to.
Shut ==
    /\ dialog' = Closed
    /\ saves' = {[r EXCEPT !.mine = FALSE] : r \in saves}

Close ==
    /\ dialog # Closed
    /\ Shut
    /\ UNCHANGED <<stored, serverConfig, past, timers, steps, others>>

SetField(f, v) ==
    dialog' = [dialog EXCEPT !.form[f] = v, !.edited = @ \cup {f}]

\* handleChange, handleObfChange and the button that generates a key.
Edit(f, v) ==
    /\ dialog # Closed
    /\ Step
    /\ f \in DOMAIN dialog.form
    /\ SetField(f, v)
    /\ UNCHANGED <<stored, serverConfig, past, saves, timers, others>>

\* Mutant: an S that is there is taken to be wide enough.
applyAwg3DefaultsBlank ==
    /\ dialog.kind = "obfuscation"
    /\ Step
    /\ \E k \in Keys :
         LET form == dialog.form
             new == [form EXCEPT
                       !["random_trailers"] = "on",
                       !["header_protection_key"] = IF @ = "" THEN k ELSE @,
                       !["s4"] = IF @ # "" THEN @ ELSE "12"]
         IN  dialog' = [dialog EXCEPT
                          !.form = new,
                          !.edited = @ \cup {f \in DOMAIN form : form[f] # new[f]}]
    /\ UNCHANGED <<stored, serverConfig, past, saves, timers, others>>

\* AWG3_DEFAULTS, a key if there is none, and an S4 that is wide enough.
applyAwg3Defaults ==
    /\ dialog.kind = "obfuscation"
    /\ Step
    /\ \E k \in Keys :
         LET form == dialog.form
             new == [form EXCEPT
                       !["random_trailers"] = "on",
                       !["header_protection_key"] = IF @ = "" THEN k ELSE @,
                       !["s4"] = IF @ \in Wide THEN @ ELSE "12"]
         IN  dialog' = [dialog EXCEPT
                          !.form = new,
                          !.edited = @ \cup {f \in DOMAIN form : form[f] # new[f]}]
    /\ UNCHANGED <<stored, serverConfig, past, saves, timers, others>>

\* handleDomainChange: a name starts a generation, which several awaits of
\* WebCrypto separate from its end; an empty input clears i1 at once.
TypeDomain ==
    /\ dialog.kind = "obfuscation"
    /\ Step
    /\ \/ \E d \in Domains : dialog' = [dialog EXCEPT !.generating = @ \cup {d}]
       \/ SetField("i1", "")
    /\ UNCHANGED <<stored, serverConfig, past, saves, timers, others>>

\* The awaits of two generations end in any order, or with an exception.
Generated(d) ==
    /\ dialog.kind = "obfuscation"
    /\ d \in dialog.generating
    /\ \/ dialog' = [dialog EXCEPT !.generating = @ \ {d}, !.form["i1"] = d,
                                   !.edited = @ \cup {"i1"}]
       \/ dialog' = [dialog EXCEPT !.generating = @ \ {d}]
    /\ UNCHANGED <<stored, serverConfig, past, saves, timers, steps, others>>
-----------------------------------------------------------------------------
(* Saving.                                                                 *)

\* Mutant: the form comes first and the configuration of the tab last.
PayloadReversed(form) ==
    [f \in Fields |-> IF serverConfig[f] # "" \/ f \notin DOMAIN form
                      THEN serverConfig[f] ELSE form[f]]

\* {...serverConfig, ...formData}: fields that neither has come out empty.
Payload(form) ==
    [f \in Fields |-> IF f \in DOMAIN form THEN form[f] ELSE serverConfig[f]]

\* handleSubmit, with the serverConfig of the last render.
Submit ==
    /\ dialog # Closed
    /\ ~dialog.loading
    /\ Step
    /\ saves' = saves \cup {[kind |-> dialog.kind, payload |-> Payload(dialog.form),
                             answer |-> "asked", mine |-> TRUE,
                             form |-> dialog.form,
                             base |-> dialog.base, seen |-> serverConfig,
                             edited |-> dialog.edited]}
    /\ dialog' = [dialog EXCEPT !.loading = TRUE]
    /\ UNCHANGED <<stored, serverConfig, past, timers, others>>

\* The server has yet to take the request, which the tab may have given up.
AtServer(r) == r.answer \in {"asked", "late"}
Answered(r, a) ==
    saves' = (saves \ {r}) \cup (IF r.answer = "late" THEN {} ELSE {[r EXCEPT !.answer = a]})

\* Mutant: the server does not validate.
StoresAnything(r) ==
    /\ AtServer(r)
    /\ stored' = r.payload

\* UpdateServerConfig.
Stores(r) ==
    /\ AtServer(r)
    /\ Valid(r.payload)
    /\ stored' = r.payload

AnswerSave(r) ==
    /\ \/ Stores(r) /\ Answered(r, "ok")
       \/ /\ AtServer(r)
          /\ ~Valid(r.payload)
          /\ Answered(r, "failed")
          /\ UNCHANGED stored
    /\ past' = past \cup {stored'}
    /\ UNCHANGED <<serverConfig, dialog, timers, steps, others>>

\* The request or its answer is lost, or the server fails; or the tab hears of
\* a failure first and the server takes the request later.
LoseSave(r) ==
    /\ others < MaxOthers
    /\ others' = others + 1
    /\ \/ r.answer \in {"asked", "ok"} /\ Answered(r, "failed")
       \/ /\ r.answer = "asked"
          /\ saves' = (saves \ {r}) \cup {[r EXCEPT !.answer = "failed"],
                                         [r EXCEPT !.answer = "late", !.mine = FALSE]}
    /\ UNCHANGED <<stored, serverConfig, past, dialog, timers, steps>>

\* The rest of handleSubmit, which runs on without its dialog: the timer
\* closes whatever dialog of its kind is open by then.
HandleSave(r) ==
    /\ r.answer \in {"ok", "failed"}
    /\ saves' = saves \ {r}
    /\ dialog' = IF r.mine THEN [dialog EXCEPT !.loading = FALSE] ELSE dialog
    /\ timers' = IF r.answer = "ok" THEN timers \cup {r.kind} ELSE timers
    /\ UNCHANGED <<stored, serverConfig, past, steps, others>>

TimerFires(kind) ==
    /\ kind \in timers
    /\ timers' = timers \ {kind}
    /\ IF dialog.kind = kind THEN Shut ELSE UNCHANGED <<dialog, saves>>
    /\ UNCHANGED <<stored, serverConfig, past, steps, others>>

\* Another browser saves a field that it has just loaded.
OtherSaves ==
    /\ others < MaxOthers
    /\ others' = others + 1
    /\ \E f \in Elsewhere : \E v \in Editable[f] : stored' = [stored EXCEPT ![f] = v]
    /\ Valid(stored')
    /\ past' = past \cup {stored'}
    /\ UNCHANGED <<serverConfig, dialog, saves, timers, steps>>

Next ==
    \/ HandlePoll
    \/ \E kind \in Kinds : Open(kind) \/ TimerFires(kind)
    \/ Close
    \/ \E f \in Fields : \E v \in Editable[f] : Edit(f, v)
    \/ applyAwg3Defaults \/ TypeDomain
    \/ \E d \in Domains : Generated(d)
    \/ Submit
    \/ \E r \in saves : AnswerSave(r) \/ LoseSave(r) \/ HandleSave(r)
    \/ OtherSaves

Spec == Init /\ [][Next]_vars
-----------------------------------------------------------------------------
(* The types; what is stored, also after the saves of this tab, is a       *)
(* configuration that validateObfuscation accepts.                         *)
SettingsTypeOK ==
    /\ IsConfig(stored) /\ Valid(stored)
    /\ IsConfig(serverConfig)
    /\ \A c \in past : IsConfig(c)
    /\ \/ dialog = Closed
       \/ /\ dialog.kind \in Kinds
          /\ DOMAIN dialog.form = Group(dialog.kind)
          /\ IsText(dialog.form, Group(dialog.kind))
          /\ dialog.generating \subseteq Domains
          /\ dialog.loading \in BOOLEAN
          /\ IsConfig(dialog.base)
          /\ dialog.edited \subseteq Group(dialog.kind)
    /\ \A r \in saves :
         /\ r.kind \in Kinds
         /\ DOMAIN r.form = Group(r.kind)
         /\ IsConfig(r.payload) /\ IsConfig(r.base) /\ IsConfig(r.seen)
         /\ r.answer \in {"asked", "ok", "failed", "late"}
         /\ r.mine \in BOOLEAN
         /\ r.mine => dialog # Closed /\ dialog.loading
         /\ r.edited \subseteq Group(r.kind)
    /\ timers \subseteq Kinds
    /\ steps \in 0 .. MaxSteps
    /\ others \in 0 .. MaxOthers

(* What the save of a dialog is made of, but for the edits: its fields as they
   were when it was opened, and the rest as the tab had it at the submit.  *)
Source(r) == [f \in Fields |-> IF f \in Group(r.kind) THEN r.base[f] ELSE r.seen[f]]

(* A save stores what was edited in the dialog. A field that was not edited
   stays as it is, or gets the default of an empty one, unless it was changed
   elsewhere after the dialog or the tab had loaded it, whatever polls,
   generations, timers and late requests did to the other fields.          *)
SavesTheEdits ==
    [][\A r \in saves :
         Stores(r)
           => \A f \in Fields :
                /\ f \in r.edited => stored'[f] = r.form[f]
                /\ f \notin r.edited /\ Source(r)[f] = stored[f]
                     => \/ stored'[f] = stored[f]
                        \/ stored[f] = "" /\ f \in Group(r.kind) /\ stored'[f] = Default[f]]_vars

(* "AmneziaWG 3.1 settings stay empty unless set: filling them in silently
   would disconnect clients that still run an older profile."
   (AmneziaConfigModal.jsx:24-25): one that is stored empty stays so, unless it
   was edited in the dialog that saves.                                    *)
Awg3StayEmpty ==
    [][\A r \in saves :
         Stores(r) => \A f \in Awg3 \ r.edited : stored[f] = "" => stored'[f] = ""]_vars

(* After "Apply 3.1 defaults" the server takes the form, except for a bad key
   that was there and a padding that Number reads and Atoi does not.       *)
DefaultsValid ==
    [][applyAwg3Defaults
         => LET form == dialog'.form
            IN  \/ Valid(form)
                \/ form["header_protection_key"] \in BadKeys
                \/ form["s4"] \in Wide \ WideToServer]_vars

(* Whatever name was typed, and whichever generation came last, the packet in
   the form is well formed and still has the name.                         *)
Generation(d) == generateQUICPayload(SniLength[d])
GeneratedNames == {d \in Domains : dialog # Closed /\ dialog.kind = "obfuscation"
                                    /\ dialog.form["i1"] = d}
GeneratedExact == \A d \in GeneratedNames : PacketExact(Generation(d))
GeneratedNamed ==
    \A d \in GeneratedNames :
      SniCarried(Generation(d), quicTlsClientHelloSniOnly(SniLength[d]))

(* The label of the port: "Read-only (change AWG_PORT in .env)".           *)
PortReadOnly == [][stored'["listen_port"] = stored["listen_port"]]_vars
=============================================================================
