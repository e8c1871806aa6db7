------------------------ MODULE SettingsFormsProofs ------------------------
(***************************************************************************)
(* What a save may change, for all settings, texts, bounds and faults.     *)
(*                                                                         *)
(* A form follows the configuration it was opened with in every field that *)
(* was not edited, and a payload follows the form and what the tab had at  *)
(* the submit. That is all a save can store, so nothing need be known of   *)
(* the polls, of what is stored or of the other browser.                   *)
(***************************************************************************)
EXTENDS SettingsForms, QuicPayloadProofs

Follows(form, kind, base, edited) ==
    /\ form = [f \in Group(kind) |-> form[f]]
    /\ edited \subseteq Group(kind)
    /\ \A f \in Group(kind) \ edited : form[f] = FormOf(kind, base)[f]

DialogFollows ==
    dialog # Closed =>
      /\ dialog = [kind |-> dialog.kind, form |-> dialog.form,
                   generating |-> dialog.generating, loading |-> dialog.loading,
                   base |-> dialog.base, edited |-> dialog.edited]
      /\ dialog.kind \in Kinds
      /\ Follows(dialog.form, dialog.kind, dialog.base, dialog.edited)

SaveFollows(r) ==
    /\ r = [kind |-> r.kind, payload |-> r.payload, answer |-> r.answer,
            mine |-> r.mine, form |-> r.form, base |-> r.base, seen |-> r.seen,
            edited |-> r.edited]
    /\ r.kind \in Kinds
    /\ Follows(r.form, r.kind, r.base, r.edited)
    /\ r.payload = [f \in Fields |-> IF f \in Group(r.kind) THEN r.form[f] ELSE r.seen[f]]
    /\ r.mine => dialog # Closed

FollowsInv == DialogFollows /\ \A r \in saves : SaveFollows(r)

\* A dialog follows what it is opened with.
LEMMA OpenFollows ==
  ASSUME NEW kind \in Kinds, NEW c
  PROVE  Follows(FormOf(kind, c), kind, c, {})
  BY DEF Follows, FormOf

\* Fields that change are edited.
LEMMA EditFollows ==
  ASSUME NEW kind \in Kinds, NEW base, NEW form, NEW edited,
         Follows(form, kind, base, edited),
         NEW new, new = [f \in Group(kind) |-> new[f]],
         NEW more \in SUBSET Group(kind),
         \A f \in Group(kind) \ more : new[f] = form[f]
  PROVE  Follows(new, kind, base, edited \cup more)
  BY DEF Follows

\* A dialog in which only the form, the edited fields and what is under way
\* change still follows.
LEMMA DialogEdited ==
  ASSUME FollowsInv, dialog # Closed, UNCHANGED saves,
         NEW new, new = [f \in Group(dialog.kind) |-> new[f]],
         NEW more \in SUBSET Group(dialog.kind),
         \A f \in Group(dialog.kind) \ more : new[f] = dialog.form[f],
         NEW generating,
         dialog' = [kind |-> dialog.kind, form |-> new, generating |-> generating,
                    loading |-> dialog.loading, base |-> dialog.base,
                    edited |-> dialog.edited \cup more]
  PROVE  FollowsInv'
<1>1. dialog' # Closed
  BY DEF Closed
<1>2. Follows(new, dialog.kind, dialog.base, dialog.edited \cup more)
  BY EditFollows DEF FollowsInv, DialogFollows
<1>3. DialogFollows'
  BY <1>2 DEF FollowsInv, DialogFollows
<1>4. \A r \in saves' : SaveFollows(r)'
  BY <1>1 DEF FollowsInv, SaveFollows
<1> QED
  BY <1>3, <1>4 DEF FollowsInv

\* Closing a dialog leaves what is under way as it was, but for its owner.
LEMMA ShutFollows ==
  ASSUME FollowsInv, Shut
  PROVE  FollowsInv'
<1>1. DialogFollows'
  BY DEF Shut, DialogFollows
<1>2. ASSUME NEW r \in saves'
      PROVE  SaveFollows(r)'
  <2>1. PICK q \in saves : r = [q EXCEPT !.mine = FALSE]
    BY <1>2 DEF Shut
  <2>2. SaveFollows(q)
    BY DEF FollowsInv
  <2>3. r = [kind |-> q.kind, payload |-> q.payload, answer |-> q.answer,
             mine |-> FALSE, form |-> q.form, base |-> q.base, seen |-> q.seen,
             edited |-> q.edited]
    BY <2>1, <2>2 DEF SaveFollows
  <2> QED
    BY <2>2, <2>3 DEF SaveFollows
<1> QED
  BY <1>1, <1>2 DEF FollowsInv

\* What is left of save r: its answer has come, or nobody waits for it.
Remains(q, r) == \E a : \/ q = [r EXCEPT !.answer = a]
                        \/ q = [r EXCEPT !.answer = a, !.mine = FALSE]

\* An answer changes nothing of a save but that it has come.
LEMMA AnsweredFollows ==
  ASSUME FollowsInv, UNCHANGED dialog, NEW r \in saves,
         \A q \in saves' : q \in saves \/ Remains(q, r)
  PROVE  FollowsInv'
<1>1. DialogFollows'
  BY DEF FollowsInv, DialogFollows
<1>2. ASSUME NEW q \in saves'
      PROVE  SaveFollows(q)'
  <2>1. CASE q \in saves
    BY <2>1 DEF FollowsInv, SaveFollows
  <2>2. CASE Remains(q, r)
    <3>1. SaveFollows(r)
      BY DEF FollowsInv
    <3>2. PICK a : \/ q = [r EXCEPT !.answer = a]
                   \/ q = [r EXCEPT !.answer = a, !.mine = FALSE]
      BY <2>2 DEF Remains
    <3>3. \/ q = [kind |-> r.kind, payload |-> r.payload, answer |-> a,
                  mine |-> r.mine, form |-> r.form, base |-> r.base, seen |-> r.seen,
                  edited |-> r.edited]
          \/ q = [kind |-> r.kind, payload |-> r.payload, answer |-> a,
                  mine |-> FALSE, form |-> r.form, base |-> r.base, seen |-> r.seen,
                  edited |-> r.edited]
      BY <3>1, <3>2 DEF SaveFollows
    <3> QED
      BY <3>1, <3>3 DEF SaveFollows
  <2> QED
    BY <1>2, <2>1, <2>2
<1> QED
  BY <1>1, <1>2 DEF FollowsInv

LEMMA OpenStep ==
  ASSUME FollowsInv, NEW kind \in Kinds, Open(kind)
  PROVE  FollowsInv'
<1>1. DialogFollows'
  BY OpenFollows DEF Open, DialogFollows
<1>2. dialog' # Closed
  BY DEF Open, Closed
<1>3. \A r \in saves' : SaveFollows(r)'
  BY <1>2 DEF Open, FollowsInv, SaveFollows
<1> QED
  BY <1>1, <1>3 DEF FollowsInv

LEMMA EditStep ==
  ASSUME FollowsInv, NEW f \in Fields, NEW v, Edit(f, v)
  PROVE  FollowsInv'
<1> DEFINE new == [dialog.form EXCEPT ![f] = v]
<1>1. /\ dialog # Closed
      /\ DialogFollows
  BY DEF Edit, FollowsInv
<1>2. f \in Group(dialog.kind) /\ new = [g \in Group(dialog.kind) |-> new[g]]
  BY <1>1 DEF Edit, DialogFollows, Follows
<1>3. \A g \in Group(dialog.kind) \ {f} : new[g] = dialog.form[g]
  BY <1>1, <1>2 DEF DialogFollows, Follows
<1>4. dialog' = [kind |-> dialog.kind, form |-> new,
                 generating |-> dialog.generating, loading |-> dialog.loading,
                 base |-> dialog.base, edited |-> dialog.edited \cup {f}]
  BY <1>1 DEF Edit, SetField, DialogFollows
<1> HIDE DEF new
<1> QED
  BY <1>1, <1>2, <1>3, <1>4, DialogEdited DEF Edit

LEMMA DefaultsStep ==
  ASSUME FollowsInv, applyAwg3Defaults
  PROVE  FollowsInv'
<1>1. /\ dialog # Closed
      /\ DialogFollows
  BY DEF applyAwg3Defaults, FollowsInv, Closed
<1>2. PICK k \in Keys :
        LET form == dialog.form
            new == [form EXCEPT
                      !["random_trailers"] = "on",
                      !["header_protection_key"] = IF @ = "" THEN k ELSE @,
                      !["s4"] = IF @ \in Wide THEN @ ELSE "12"]
        IN  dialog' = [dialog EXCEPT
                         !.form = new,
                         !.edited = @ \cup {f \in DOMAIN form : form[f] # new[f]}]
  BY DEF applyAwg3Defaults
<1> DEFINE form == dialog.form
           new == [form EXCEPT
                     !["random_trailers"] = "on",
                     !["header_protection_key"] = IF @ = "" THEN k ELSE @,
                     !["s4"] = IF @ \in Wide THEN @ ELSE "12"]
           more == {f \in DOMAIN form : form[f] # new[f]}
<1>3. dialog' = [dialog EXCEPT !.form = new, !.edited = @ \cup more]
  BY <1>2
<1>4. DOMAIN form = Group(dialog.kind) /\ new = [g \in Group(dialog.kind) |-> new[g]]
  BY <1>1 DEF DialogFollows, Follows
<1> HIDE DEF new
<1>5. more \in SUBSET Group(dialog.kind)
  BY <1>4
<1>6. \A g \in Group(dialog.kind) \ more : new[g] = form[g]
  BY <1>4
<1> HIDE DEF more
<1>7. dialog' = [kind |-> dialog.kind, form |-> new,
                 generating |-> dialog.generating, loading |-> dialog.loading,
                 base |-> dialog.base, edited |-> dialog.edited \cup more]
  BY <1>1, <1>3 DEF DialogFollows
<1> QED
  BY <1>1, <1>4, <1>5, <1>6, <1>7, DialogEdited DEF applyAwg3Defaults

LEMMA DomainStep ==
  ASSUME FollowsInv, TypeDomain
  PROVE  FollowsInv'
<1>0. dialog.kind = "obfuscation"
  BY DEF TypeDomain
<1>1. /\ dialog # Closed
      /\ dialog.kind = "obfuscation"
      /\ DialogFollows
  BY <1>0 DEF FollowsInv, Closed
<1>2. ASSUME NEW d \in Domains,
             dialog' = [dialog EXCEPT !.generating = @ \cup {d}]
      PROVE  FollowsInv'
  <2>1. dialog' = [kind |-> dialog.kind, form |-> dialog.form,
                   generating |-> dialog.generating \cup {d},
                   loading |-> dialog.loading, base |-> dialog.base,
                   edited |-> dialog.edited \cup {}]
    BY <1>1, <1>2 DEF DialogFollows
  <2> QED
    BY <1>1, <2>1, DialogEdited DEF TypeDomain, DialogFollows, Follows
<1>3. CASE SetField("i1", "")
  <2> DEFINE new == [dialog.form EXCEPT !["i1"] = ""]
  <2>1. "i1" \in Group(dialog.kind)
    BY <1>1 DEF Group, Obfuscation
  <2>2. /\ new = [g \in Group(dialog.kind) |-> new[g]]
        /\ \A g \in Group(dialog.kind) \ {"i1"} : new[g] = dialog.form[g]
    BY <1>1 DEF DialogFollows, Follows
  <2>3. dialog' = [kind |-> dialog.kind, form |-> new,
                   generating |-> dialog.generating, loading |-> dialog.loading,
                   base |-> dialog.base, edited |-> dialog.edited \cup {"i1"}]
    BY <1>1, <1>3 DEF SetField, DialogFollows
  <2> HIDE DEF new
  <2> QED
    BY <1>1, <2>1, <2>2, <2>3, DialogEdited DEF TypeDomain
<1> QED
  BY <1>2, <1>3 DEF TypeDomain

LEMMA GeneratedStep ==
  ASSUME FollowsInv, NEW d \in Domains, Generated(d)
  PROVE  FollowsInv'
<1>1. /\ dialog # Closed
      /\ dialog.kind = "obfuscation"
      /\ DialogFollows
  BY DEF Generated, FollowsInv, Closed
<1>2. CASE dialog' = [dialog EXCEPT !.generating = @ \ {d}]
  <2>1. dialog' = [kind |-> dialog.kind, form |-> dialog.form,
                   generating |-> dialog.generating \ {d},
                   loading |-> dialog.loading, base |-> dialog.base,
                   edited |-> dialog.edited \cup {}]
    BY <1>1, <1>2 DEF DialogFollows
  <2> QED
    BY <1>1, <2>1, DialogEdited DEF Generated, DialogFollows, Follows
<1>3. CASE dialog' = [dialog EXCEPT !.generating = @ \ {d}, !.form["i1"] = d,
                                    !.edited = @ \cup {"i1"}]
  <2> DEFINE new == [dialog.form EXCEPT !["i1"] = d]
  <2>1. "i1" \in Group(dialog.kind)
    BY <1>1 DEF Group, Obfuscation
  <2>2. /\ new = [g \in Group(dialog.kind) |-> new[g]]
        /\ \A g \in Group(dialog.kind) \ {"i1"} : new[g] = dialog.form[g]
    BY <1>1 DEF DialogFollows, Follows
  <2>3. dialog' = [kind |-> dialog.kind, form |-> new,
                   generating |-> dialog.generating \ {d},
                   loading |-> dialog.loading, base |-> dialog.base,
                   edited |-> dialog.edited \cup {"i1"}]
    BY <1>1, <1>3 DEF DialogFollows
  <2> HIDE DEF new
  <2> QED
    BY <1>1, <2>1, <2>2, <2>3, DialogEdited DEF Generated
<1> QED
  BY <1>2, <1>3 DEF Generated

LEMMA SubmitStep ==
  ASSUME FollowsInv, Submit
  PROVE  FollowsInv'
<1>1. dialog # Closed /\ DialogFollows
  BY DEF Submit, FollowsInv
<1>2. dialog' = [kind |-> dialog.kind, form |-> dialog.form,
                 generating |-> dialog.generating, loading |-> TRUE,
                 base |-> dialog.base, edited |-> dialog.edited]
  BY <1>1 DEF Submit, DialogFollows
<1>3. DialogFollows' /\ dialog' # Closed
  BY <1>1, <1>2 DEF DialogFollows, Closed
<1>4. ASSUME NEW r \in saves'
      PROVE  SaveFollows(r)'
  <2>1. CASE r \in saves
    BY <1>3, <2>1 DEF FollowsInv, SaveFollows
  <2>2. CASE r = [kind |-> dialog.kind, payload |-> Payload(dialog.form),
                  answer |-> "asked", mine |-> TRUE, form |-> dialog.form,
                  base |-> dialog.base, seen |-> serverConfig,
                  edited |-> dialog.edited]
    <3>1. DOMAIN dialog.form = Group(dialog.kind)
      BY <1>1 DEF DialogFollows, Follows
    <3>2. r.payload = [f \in Fields |-> IF f \in Group(r.kind) THEN r.form[f]
                                        ELSE r.seen[f]]
      BY <2>2, <3>1 DEF Payload
    <3>3. /\ r.kind \in Kinds
          /\ Follows(r.form, r.kind, r.base, r.edited)
      BY <1>1, <2>2 DEF DialogFollows
    <3>4. r = [kind |-> r.kind, payload |-> r.payload, answer |-> r.answer,
               mine |-> r.mine, form |-> r.form, base |-> r.base, seen |-> r.seen,
               edited |-> r.edited]
      BY <2>2
    <3> QED
      BY <1>3, <3>2, <3>3, <3>4 DEF SaveFollows
  <2> QED
    BY <1>4, <2>1, <2>2 DEF Submit
<1> QED
  BY <1>3, <1>4 DEF FollowsInv

LEMMA HandleSaveStep ==
  ASSUME FollowsInv, NEW r \in saves, HandleSave(r)
  PROVE  FollowsInv'
<1>1. /\ DialogFollows
      /\ r.mine => dialog # Closed
  BY DEF FollowsInv, SaveFollows
<1>2. ASSUME r.mine
      PROVE  DialogFollows' /\ dialog' # Closed
  <2>1. dialog # Closed /\ dialog' = [dialog EXCEPT !.loading = FALSE]
    BY <1>1, <1>2 DEF HandleSave
  <2>2. dialog' = [kind |-> dialog.kind, form |-> dialog.form,
                   generating |-> dialog.generating, loading |-> FALSE,
                   base |-> dialog.base, edited |-> dialog.edited]
    BY <1>1, <2>1 DEF DialogFollows
  <2> QED
    BY <1>1, <2>1, <2>2 DEF DialogFollows, Closed
<1>3. DialogFollows' /\ (dialog # Closed => dialog' # Closed)
  <2>1. CASE ~r.mine
    BY <1>1, <2>1 DEF HandleSave, DialogFollows
  <2> QED
    BY <1>2, <2>1
<1>4. \A q \in saves' : SaveFollows(q)'
  BY <1>3 DEF HandleSave, FollowsInv, SaveFollows
<1> QED
  BY <1>3, <1>4 DEF FollowsInv

LEMMA FollowsStep ==
  ASSUME FollowsInv, [Next]_vars
  PROVE  FollowsInv'
<1>1. CASE UNCHANGED <<dialog, saves>>
  BY <1>1 DEF FollowsInv, DialogFollows, SaveFollows
<1>2. CASE HandlePoll \/ OtherSaves \/ UNCHANGED vars
  BY <1>1, <1>2 DEF HandlePoll, OtherSaves, vars
<1>3. ASSUME NEW kind \in Kinds, TimerFires(kind)
      PROVE  FollowsInv'
  BY <1>1, <1>3, ShutFollows DEF TimerFires
<1>4. CASE Close
  BY <1>4, ShutFollows DEF Close
<1>5. ASSUME NEW r \in saves, AnswerSave(r) \/ LoseSave(r)
      PROVE  FollowsInv'
  <2>1. \A q \in saves' : q \in saves \/ Remains(q, r)
    BY <1>5 DEF AnswerSave, LoseSave, Answered, Remains
  <2> QED
    BY <1>5, <2>1, AnsweredFollows DEF AnswerSave, LoseSave
<1> QED
  BY <1>2, <1>3, <1>4, <1>5, OpenStep, EditStep, DefaultsStep, DomainStep,
     GeneratedStep, SubmitStep, HandleSaveStep DEF Next

THEOREM SettingsFollow == Spec => []FollowsInv
<1>1. Init => FollowsInv
  BY DEF Init, FollowsInv, DialogFollows
<1>2. FollowsInv /\ [Next]_vars => FollowsInv'
  BY FollowsStep
<1> QED
  BY <1>1, <1>2, PTL DEF Spec

(* A save changes the edited fields, fills in defaults, and else only fields
   that the dialog or the tab had otherwise than they are stored.          *)
THEOREM SavesStoreTheEdits == Spec => SavesTheEdits
<1> DEFINE Edits(r) ==
      Stores(r)
        => \A f \in Fields :
             /\ f \in r.edited => stored'[f] = r.form[f]
             /\ f \notin r.edited /\ Source(r)[f] = stored[f]
                  => \/ stored'[f] = stored[f]
                     \/ stored[f] = "" /\ f \in Group(r.kind) /\ stored'[f] = Default[f]
<1>1. ASSUME NEW r, SaveFollows(r)
      PROVE  Edits(r)
  <2> SUFFICES ASSUME Stores(r), NEW f \in Fields
               PROVE  /\ f \in r.edited => stored'[f] = r.form[f]
                      /\ f \notin r.edited /\ Source(r)[f] = stored[f]
                           => \/ stored'[f] = stored[f]
                              \/ stored[f] = "" /\ f \in Group(r.kind) /\ stored'[f] = Default[f]
    OBVIOUS
  <2>1. stored'[f] = IF f \in Group(r.kind) THEN r.form[f] ELSE r.seen[f]
    BY <1>1 DEF Stores, SaveFollows
  <2>2. r.edited \subseteq Group(r.kind)
    BY <1>1 DEF SaveFollows, Follows
  <2>3. f \in Group(r.kind) \ r.edited
          => r.form[f] = IF r.base[f] = "" THEN Default[f] ELSE r.base[f]
    BY <1>1 DEF SaveFollows, Follows, FormOf
  <2>4. Source(r)[f] = IF f \in Group(r.kind) THEN r.base[f] ELSE r.seen[f]
    BY DEF Source
  <2> QED
    BY <2>1, <2>2, <2>3, <2>4
<1>2. FollowsInv /\ [Next]_vars => [\A r \in saves : Edits(r)]_vars
  BY <1>1 DEF FollowsInv
<1> QED
  BY <1>2, SettingsFollow, PTL DEF Spec, SavesTheEdits
-----------------------------------------------------------------------------
(***************************************************************************)
(* The types. That a save which belongs to the open dialog finds it        *)
(* waiting is not inductive: the answer of one ends the wait of all, so    *)
(* there must be no more than one.                                         *)
(***************************************************************************)

IsConfiguration(c) == c = [f \in Fields |-> c[f]] /\ IsText(c, Fields)

StoredInv ==
    /\ IsConfiguration(stored) /\ Valid(stored)
    /\ IsConfiguration(serverConfig)
    /\ \A c \in past : IsConfiguration(c)

DialogInv ==
    dialog # Closed =>
      /\ IsText(dialog.form, Group(dialog.kind))
      /\ dialog.generating \subseteq Domains
      /\ dialog.loading \in BOOLEAN
      /\ IsConfiguration(dialog.base)

SaveTyped(r) ==
    /\ IsText(r.form, Group(r.kind))
    /\ IsConfiguration(r.base) /\ IsConfiguration(r.seen)
    /\ r.answer \in {"asked", "ok", "failed", "late"}
    /\ r.mine \in BOOLEAN

SavesInv ==
    /\ \A r \in saves : SaveTyped(r)
    /\ \A r \in saves : r.mine => dialog # Closed /\ dialog.loading
    /\ \A r, q \in saves : r.mine /\ q.mine => r = q

CountsInv ==
    /\ timers \subseteq Kinds
    /\ steps \in 0 .. MaxSteps
    /\ others \in 0 .. MaxOthers

SettingsInv == FollowsInv /\ StoredInv /\ DialogInv /\ SavesInv /\ CountsInv

\* The texts that the defaults and the buttons put into a field are of its type.
LEMMA KnownTexts ==
  ASSUME NEW f \in Fields
  PROVE  /\ Default[f] \in Texts[f]
         /\ "" \in Texts[f]
         /\ Editable[f] \subseteq Texts[f]
         /\ f = "s4" => "12" \in Texts[f]
         /\ f = "i1" => Domains \subseteq Texts[f]
         /\ f = "random_trailers" => "on" \in Texts[f]
         /\ f = "header_protection_key" => Keys \subseteq Texts[f]
<1>1. /\ Default[f] \in Texts[f]
      /\ "" \in Texts[f]
      /\ Editable[f] \subseteq Texts[f]
  BY DEF Texts
<1>2. /\ f = "s4" => "12" \in Texts[f]
      /\ f = "i1" => Domains \subseteq Texts[f]
  BY DEF Texts
<1>3. /\ f = "random_trailers" => "on" \in Editable[f]
      /\ f = "header_protection_key" => Keys \subseteq Editable[f]
  BY DEF Editable
<1> QED
  BY <1>1, <1>2, <1>3

LEMMA Groups == \A kind \in Kinds : Group(kind) \subseteq Fields
  BY DEF Group, Fields, Kinds

LEMMA UnloadedTyped == IsConfiguration(Unloaded)
  BY KnownTexts DEF IsConfiguration, IsText, Unloaded

LEMMA FormTyped ==
  ASSUME NEW kind \in Kinds, NEW c, IsConfiguration(c)
  PROVE  IsText(FormOf(kind, c), Group(kind))
<1>1. \A f \in Group(kind) : c[f] \in Texts[f] /\ Default[f] \in Texts[f]
  BY Groups, KnownTexts DEF IsConfiguration, IsText
<1> QED
  BY <1>1 DEF FormOf, IsText

LEMMA PayloadTyped ==
  ASSUME NEW r, SaveFollows(r), SaveTyped(r)
  PROVE  IsConfiguration(r.payload)
<1>1. r.payload = [f \in Fields |-> IF f \in Group(r.kind) THEN r.form[f] ELSE r.seen[f]]
  BY DEF SaveFollows
<1>2. \A f \in Fields : r.payload[f] \in Texts[f]
  BY <1>1 DEF SaveTyped, IsConfiguration, IsText
<1> QED
  BY <1>1, <1>2 DEF IsConfiguration, IsText

LEMMA StoredStep ==
  ASSUME SettingsInv, [Next]_vars
  PROVE  StoredInv'
<1>1. StoredInv
  BY DEF SettingsInv
<1>2. CASE UNCHANGED <<stored, serverConfig, past>>
  BY <1>1, <1>2 DEF StoredInv
<1>3. CASE HandlePoll
  <2>1. IsConfiguration(serverConfig')
    BY <1>1, <1>3, UnloadedTyped DEF HandlePoll, StoredInv
  <2> QED
    BY <1>1, <1>3, <2>1 DEF HandlePoll, StoredInv
<1>4. ASSUME NEW r \in saves, AnswerSave(r)
      PROVE  StoredInv'
  <2>1. IsConfiguration(r.payload)
    BY PayloadTyped DEF SettingsInv, FollowsInv, SavesInv
  <2>2. IsConfiguration(stored') /\ Valid(stored')
    BY <1>1, <1>4, <2>1 DEF AnswerSave, Stores, StoredInv
  <2> QED
    BY <1>1, <1>4, <2>2 DEF AnswerSave, StoredInv
<1>5. CASE OtherSaves
  <2>1. PICK f \in Elsewhere : \E v \in Editable[f] : stored' = [stored EXCEPT ![f] = v]
    BY <1>5 DEF OtherSaves
  <2>2. PICK v \in Editable[f] : stored' = [stored EXCEPT ![f] = v]
    BY <2>1
  <2>3. stored' = [g \in Fields |-> IF g = f THEN v ELSE stored[g]]
    BY <1>1, <2>2 DEF StoredInv, IsConfiguration
  <2>4. \A g \in Fields : stored'[g] \in Texts[g]
    BY <1>1, <2>3, KnownTexts DEF StoredInv, IsConfiguration, IsText
  <2>5. IsConfiguration(stored')
    BY <2>3, <2>4 DEF IsConfiguration, IsText
  <2> QED
    BY <1>1, <1>5, <2>5 DEF OtherSaves, StoredInv
<1> QED
  BY <1>2, <1>3, <1>4, <1>5
     DEF Next, vars, Open, TimerFires, Close, Edit, applyAwg3Defaults, TypeDomain,
         Generated, Submit, LoseSave, HandleSave

\* What a dialog has in its fields, whatever changes them.
LEMMA DialogStep ==
  ASSUME SettingsInv, [Next]_vars
  PROVE  DialogInv'
<1>1. /\ DialogInv /\ DialogFollows /\ StoredInv
      /\ dialog # Closed => /\ dialog.form = [f \in Group(dialog.kind) |-> dialog.form[f]]
                            /\ dialog.kind \in Kinds
  BY DEF SettingsInv, FollowsInv, DialogFollows, Follows
<1>2. CASE UNCHANGED dialog
  BY <1>1, <1>2 DEF DialogInv
<1>3. CASE dialog' = Closed
  BY <1>3 DEF DialogInv
<1>4. ASSUME NEW kind \in Kinds, Open(kind)
      PROVE  DialogInv'
  BY <1>1, <1>4, FormTyped DEF Open, StoredInv, DialogInv
<1>5. ASSUME dialog # Closed, NEW new, IsText(new, Group(dialog.kind)),
             NEW names \in SUBSET Domains, NEW waits \in BOOLEAN, NEW edited,
             dialog' = [kind |-> dialog.kind, form |-> new, generating |-> names,
                        loading |-> waits, base |-> dialog.base, edited |-> edited]
      PROVE  DialogInv'
  BY <1>1, <1>5 DEF DialogInv
<1>6. ASSUME dialog # Closed, NEW f \in Group(dialog.kind), NEW v \in Texts[f]
      PROVE  IsText([dialog.form EXCEPT ![f] = v], Group(dialog.kind))
  BY <1>1, <1>6 DEF DialogInv, IsText
<1>7. ASSUME dialog # Closed, NEW f \in Group(dialog.kind), NEW v \in Texts[f],
             SetField(f, v)
      PROVE  DialogInv'
  <2> DEFINE new == [dialog.form EXCEPT ![f] = v]
  <2>1. dialog' = [kind |-> dialog.kind, form |-> new, generating |-> dialog.generating,
                   loading |-> dialog.loading, base |-> dialog.base,
                   edited |-> dialog.edited \cup {f}]
    BY <1>1, <1>7 DEF SetField, DialogFollows
  <2>2. IsText(new, Group(dialog.kind))
    BY <1>6, <1>7
  <2> HIDE DEF new
  <2> QED
    BY <1>1, <1>5, <1>7, <2>1, <2>2 DEF DialogInv
<1>8. ASSUME NEW f \in Fields, NEW v \in Editable[f], Edit(f, v)
      PROVE  DialogInv'
  <2>1. dialog # Closed /\ f \in Group(dialog.kind) /\ v \in Texts[f]
    BY <1>1, <1>8, KnownTexts DEF Edit
  <2> QED
    BY <1>7, <1>8, <2>1 DEF Edit
<1>9. CASE dialog.kind = "obfuscation" /\ (TypeDomain \/ \E d \in Domains : Generated(d))
  <2>1. dialog # Closed /\ "i1" \in Group(dialog.kind) /\ "i1" \in Fields
    BY <1>9 DEF Closed, Group, Obfuscation, Fields
  <2>2. "" \in Texts["i1"] /\ Domains \subseteq Texts["i1"]
    BY <2>1, KnownTexts
  <2>3. ASSUME NEW names \in SUBSET Domains, dialog' = [dialog EXCEPT !.generating = names]
        PROVE  DialogInv'
    <3>1. dialog' = [kind |-> dialog.kind, form |-> dialog.form, generating |-> names,
                     loading |-> dialog.loading, base |-> dialog.base,
                     edited |-> dialog.edited]
      BY <1>1, <2>1, <2>3 DEF DialogFollows
    <3> QED
      BY <1>1, <1>5, <2>1, <3>1 DEF DialogInv
  <2>4. CASE TypeDomain
    <3>1. ASSUME NEW d \in Domains, dialog' = [dialog EXCEPT !.generating = @ \cup {d}]
          PROVE  DialogInv'
      BY <1>1, <2>1, <2>3, <3>1 DEF DialogInv
    <3> QED
      BY <1>7, <2>1, <2>2, <2>4, <3>1 DEF TypeDomain
  <2>5. ASSUME NEW d \in Domains, Generated(d)
        PROVE  DialogInv'
    <3>1. CASE dialog' = [dialog EXCEPT !.generating = @ \ {d}]
      BY <1>1, <2>1, <2>3, <3>1 DEF DialogInv
    <3>2. CASE dialog' = [dialog EXCEPT !.generating = @ \ {d}, !.form["i1"] = d,
                                        !.edited = @ \cup {"i1"}]
      <4> DEFINE new == [dialog.form EXCEPT !["i1"] = d]
      <4>1. dialog' = [kind |-> dialog.kind, form |-> new,
                       generating |-> dialog.generating \ {d},
                       loading |-> dialog.loading, base |-> dialog.base,
                       edited |-> dialog.edited \cup {"i1"}]
        BY <1>1, <2>1, <3>2 DEF DialogFollows
      <4>2. IsText(new, Group(dialog.kind))
        BY <1>6, <2>1, <2>2
      <4> HIDE DEF new
      <4> QED
        BY <1>1, <1>5, <2>1, <4>1, <4>2 DEF DialogInv
    <3> QED
      BY <2>5, <3>1, <3>2 DEF Generated
  <2> QED
    BY <1>9, <2>4, <2>5
<1>10. CASE applyAwg3Defaults
  <2>1. /\ dialog # Closed
        /\ {"random_trailers", "header_protection_key", "s4"} \subseteq Group(dialog.kind)
        /\ {"random_trailers", "header_protection_key", "s4"} \subseteq Fields
    BY <1>10 DEF applyAwg3Defaults, Closed, Group, Obfuscation, Fields
  <2>2. PICK k \in Keys : \E edited :
          dialog' = [dialog EXCEPT
                       !.form = [dialog.form EXCEPT
                                   !["random_trailers"] = "on",
                                   !["header_protection_key"] = IF @ = "" THEN k ELSE @,
                                   !["s4"] = IF @ \in Wide THEN @ ELSE "12"],
                       !.edited = edited]
    BY <1>10 DEF applyAwg3Defaults
  <2> DEFINE new == [dialog.form EXCEPT
                       !["random_trailers"] = "on",
                       !["header_protection_key"] = IF @ = "" THEN k ELSE @,
                       !["s4"] = IF @ \in Wide THEN @ ELSE "12"]
  <2>3. PICK edited :
          dialog' = [kind |-> dialog.kind, form |-> new, generating |-> dialog.generating,
                     loading |-> dialog.loading, base |-> dialog.base, edited |-> edited]
    BY <1>1, <2>1, <2>2 DEF DialogFollows
  <2>4. /\ "on" \in Texts["random_trailers"]
        /\ k \in Texts["header_protection_key"]
        /\ "12" \in Texts["s4"]
    BY <2>1, KnownTexts
  <2>5. IsText(new, Group(dialog.kind))
    BY <1>1, <2>1, <2>4 DEF DialogInv, IsText
  <2> HIDE DEF new
  <2> QED
    BY <1>1, <1>5, <2>1, <2>3, <2>5 DEF DialogInv
<1>11. ASSUME dialog # Closed, NEW waits \in BOOLEAN,
              dialog' = [dialog EXCEPT !.loading = waits]
       PROVE  DialogInv'
  <2>1. dialog' = [kind |-> dialog.kind, form |-> dialog.form,
                   generating |-> dialog.generating, loading |-> waits,
                   base |-> dialog.base, edited |-> dialog.edited]
    BY <1>1, <1>11 DEF DialogFollows
  <2> QED
    BY <1>1, <1>5, <1>11, <2>1 DEF DialogInv
<1>12. CASE Submit
  BY <1>11, <1>12 DEF Submit
<1>13. ASSUME NEW r \in saves, HandleSave(r)
       PROVE  DialogInv'
  <2>1. r.mine => dialog # Closed
    BY DEF SettingsInv, SavesInv
  <2> QED
    BY <1>2, <1>11, <1>13, <2>1 DEF HandleSave
<1>14. ASSUME NEW kind \in Kinds, TimerFires(kind)
       PROVE  DialogInv'
  BY <1>2, <1>3, <1>14 DEF TimerFires, Shut
<1>15. CASE TypeDomain
  BY <1>9, <1>15 DEF TypeDomain
<1>16. ASSUME NEW d \in Domains, Generated(d)
       PROVE  DialogInv'
  BY <1>9, <1>16 DEF Generated
<1> QED
  BY <1>2, <1>3, <1>4, <1>8, <1>10, <1>12, <1>13, <1>14, <1>15, <1>16
     DEF Next, vars, HandlePoll, Close, Shut, AnswerSave, LoseSave, OtherSaves

\* One save at most belongs to the dialog, and it waits for that one.
LEMMA SavesStep ==
  ASSUME SettingsInv, [Next]_vars
  PROVE  SavesInv'
<1>1. SavesInv /\ DialogInv /\ DialogFollows /\ StoredInv
  BY DEF SettingsInv, FollowsInv
<1>2. ASSUME UNCHANGED saves,
             dialog # Closed => dialog' # Closed /\ dialog'.loading = dialog.loading
      PROVE  SavesInv'
  BY <1>1, <1>2 DEF SavesInv, SaveTyped
<1>3. CASE Shut
  <2>1. ASSUME NEW r \in saves'
        PROVE  SaveTyped(r) /\ ~r.mine
    <3>1. PICK q \in saves : r = [q EXCEPT !.mine = FALSE]
      BY <1>3, <2>1 DEF Shut
    <3>2. SaveTyped(q) /\ SaveFollows(q)
      BY <1>1 DEF SavesInv, SettingsInv, FollowsInv
    <3>3. r = [kind |-> q.kind, payload |-> q.payload, answer |-> q.answer,
               mine |-> FALSE, form |-> q.form, base |-> q.base, seen |-> q.seen,
               edited |-> q.edited]
      BY <3>1, <3>2 DEF SaveFollows
    <3> QED
      BY <3>2, <3>3 DEF SaveTyped
  <2> QED
    BY <2>1 DEF SavesInv, SaveTyped
<1>4. ASSUME UNCHANGED dialog, NEW r \in saves, NEW T, saves' = (saves \ {r}) \cup T,
             \A q \in T : \E a \in {"ok", "failed"} : q = [r EXCEPT !.answer = a],
             \A p, q \in T : p = q
      PROVE  SavesInv'
  <2>1. SaveTyped(r) /\ SaveFollows(r)
    BY <1>1 DEF SavesInv, SettingsInv, FollowsInv
  <2>2. ASSUME NEW q \in T PROVE SaveTyped(q) /\ q.mine = r.mine
    <3>1. PICK a \in {"ok", "failed"} : q = [r EXCEPT !.answer = a]
      BY <1>4
    <3>2. q = [kind |-> r.kind, payload |-> r.payload, answer |-> a,
               mine |-> r.mine, form |-> r.form, base |-> r.base, seen |-> r.seen,
               edited |-> r.edited]
      BY <2>1, <3>1 DEF SaveFollows
    <3> QED
      BY <2>1, <3>2 DEF SaveTyped
  <2>3. \A x \in saves' : SaveTyped(x)
    BY <1>1, <1>4, <2>2 DEF SavesInv
  <2>4. \A x \in saves' : x.mine => dialog' # Closed /\ dialog'.loading
    BY <1>1, <1>4, <2>2 DEF SavesInv
  <2>5. \A x, y \in saves' : x.mine /\ y.mine => x = y
    BY <1>1, <1>4, <2>2 DEF SavesInv
  <2> QED
    BY <2>3, <2>4, <2>5 DEF SavesInv, SaveTyped
<1>5. CASE Submit
  <2> DEFINE q == [kind |-> dialog.kind, payload |-> Payload(dialog.form),
                   answer |-> "asked", mine |-> TRUE, form |-> dialog.form,
                   base |-> dialog.base, seen |-> serverConfig, edited |-> dialog.edited]
  <2>1. /\ dialog # Closed /\ ~dialog.loading
        /\ saves' = saves \cup {q}
        /\ dialog' = [dialog EXCEPT !.loading = TRUE]
    BY <1>5 DEF Submit
  <2>2. dialog' # Closed /\ dialog'.loading
    BY <1>1, <2>1 DEF DialogFollows, Closed
  <2>3. SaveTyped(q)
    BY <1>1, <2>1 DEF SaveTyped, DialogInv, StoredInv
  <2>4. \A r \in saves : ~r.mine
    BY <1>1, <2>1 DEF SavesInv
  <2> HIDE DEF q
  <2>5. \A x \in saves' : SaveTyped(x)
    BY <1>1, <2>1, <2>3 DEF SavesInv
  <2>6. \A x, y \in saves' : x.mine /\ y.mine => x = y
    BY <2>1, <2>4
  <2> QED
    BY <2>2, <2>5, <2>6 DEF SavesInv, SaveTyped
<1>6. ASSUME NEW r \in saves, HandleSave(r)
      PROVE  SavesInv'
  <2>1. saves' = saves \ {r}
    BY <1>6 DEF HandleSave
  <2>2. CASE r.mine
    <3>1. \A q \in saves' : ~q.mine
      BY <1>1, <2>1, <2>2 DEF SavesInv
    <3> QED
      BY <1>1, <2>1, <3>1 DEF SavesInv, SaveTyped
  <2>3. CASE ~r.mine
    <3>1. dialog' = dialog
      BY <1>6, <2>3 DEF HandleSave
    <3> QED
      BY <1>1, <2>1, <3>1 DEF SavesInv, SaveTyped
  <2> QED
    BY <2>2, <2>3
<1>7. ASSUME NEW kind \in Kinds, TimerFires(kind)
      PROVE  SavesInv'
  BY <1>2, <1>3, <1>7 DEF TimerFires
<1>8. ASSUME NEW r \in saves, AnswerSave(r) \/ LoseSave(r)
      PROVE  SavesInv'
  <2>1. ASSUME NEW a \in {"ok", "failed"}, Answered(r, a)
        PROVE  SavesInv'
    <3> DEFINE T == IF r.answer = "late" THEN {} ELSE {[r EXCEPT !.answer = a]}
    <3>1. /\ saves' = (saves \ {r}) \cup T
          /\ \A q \in T : q = [r EXCEPT !.answer = a]
      BY <2>1 DEF Answered
    <3>2. UNCHANGED dialog
      BY <1>8 DEF AnswerSave, LoseSave
    <3> HIDE DEF T
    <3> QED
      BY <1>4, <3>1, <3>2
  <2>2. CASE /\ LoseSave(r)
             /\ saves' = (saves \ {r}) \cup {[r EXCEPT !.answer = "failed"],
                                           [r EXCEPT !.answer = "late", !.mine = FALSE]}
    <3> DEFINE p == [r EXCEPT !.answer = "failed"]
               q == [r EXCEPT !.answer = "late", !.mine = FALSE]
    <3>1. SaveTyped(r) /\ SaveFollows(r)
      BY <1>1 DEF SavesInv, SettingsInv, FollowsInv
    <3>2. p = [kind |-> r.kind, payload |-> r.payload, answer |-> "failed",
               mine |-> r.mine, form |-> r.form, base |-> r.base, seen |-> r.seen,
               edited |-> r.edited]
      BY <3>1 DEF SaveFollows
    <3>3. SaveTyped(p) /\ p.mine = r.mine
      BY <3>1, <3>2 DEF SaveTyped
    <3>4. /\ q.form = r.form /\ q.base = r.base /\ q.seen = r.seen
          /\ q.answer = "late" /\ q.mine = FALSE
      BY <3>1 DEF SaveFollows
    <3>5. SaveTyped(q) /\ ~q.mine
      BY <3>1, <3>4 DEF SaveTyped
    <3>6. saves' = (saves \ {r}) \cup {p, q} /\ UNCHANGED dialog
      BY <2>2 DEF LoseSave
    <3> HIDE DEF p, q
    <3>7. \A x \in saves' : SaveTyped(x)
      BY <1>1, <3>3, <3>5, <3>6 DEF SavesInv
    <3>8. \A x \in saves' : x.mine => dialog' # Closed /\ dialog'.loading
      BY <1>1, <3>3, <3>5, <3>6 DEF SavesInv
    <3>9. \A x, y \in saves' : x.mine /\ y.mine => x = y
      BY <1>1, <3>3, <3>5, <3>6 DEF SavesInv
    <3> QED
      BY <3>7, <3>8, <3>9 DEF SavesInv, SaveTyped
  <2> QED
    BY <1>8, <2>1, <2>2 DEF AnswerSave, LoseSave
<1>9. CASE UNCHANGED <<dialog, saves>>
  BY <1>2, <1>9
<1>10. ASSUME NEW kind \in Kinds, Open(kind)
       PROVE  SavesInv'
  BY <1>2, <1>10 DEF Open
<1>11. ASSUME NEW f \in Fields, NEW v, SetField(f, v), UNCHANGED saves, dialog # Closed
       PROVE  SavesInv'
  <2>1. dialog' # Closed /\ dialog'.loading = dialog.loading
    BY <1>1, <1>11 DEF SetField, DialogFollows, Closed
  <2> QED
    BY <1>2, <1>11, <2>1
<1>12. CASE applyAwg3Defaults
  <2>1. dialog # Closed
    BY <1>12 DEF applyAwg3Defaults, Closed
  <2>2. \E form, edited : dialog' = [dialog EXCEPT !.form = form, !.edited = edited]
    BY <1>12 DEF applyAwg3Defaults
  <2>3. dialog' # Closed /\ dialog'.loading = dialog.loading
    BY <1>1, <2>1, <2>2 DEF DialogFollows, Closed
  <2> QED
    BY <1>2, <1>12, <2>3 DEF applyAwg3Defaults
<1>13. ASSUME dialog.kind = "obfuscation", UNCHANGED saves,
              NEW names, dialog' = [dialog EXCEPT !.generating = names]
       PROVE  SavesInv'
  <2>1. dialog # Closed
    BY <1>13 DEF Closed
  <2>2. dialog' # Closed /\ dialog'.loading = dialog.loading
    BY <1>1, <1>13, <2>1 DEF DialogFollows, Closed
  <2> QED
    BY <1>2, <1>13, <2>2
<1>14. CASE TypeDomain
  <2>1. dialog # Closed /\ dialog.kind = "obfuscation" /\ "i1" \in Fields
    <3>1. dialog.kind = "obfuscation"
      BY <1>14 DEF TypeDomain
    <3> QED
      BY <3>1 DEF Closed, Fields, Obfuscation
  <2>2. ASSUME NEW d \in Domains, dialog' = [dialog EXCEPT !.generating = @ \cup {d}]
        PROVE  SavesInv'
    BY <1>13, <1>14, <2>1, <2>2 DEF TypeDomain
  <2> QED
    BY <1>11, <1>14, <2>1, <2>2 DEF TypeDomain
<1>15. ASSUME NEW d \in Domains, Generated(d)
       PROVE  SavesInv'
  <2>1. dialog # Closed
    BY <1>15 DEF Generated, Closed
  <2>2. CASE dialog' = [dialog EXCEPT !.generating = @ \ {d}, !.form["i1"] = d,
                                      !.edited = @ \cup {"i1"}]
    <3>1. dialog' # Closed /\ dialog'.loading = dialog.loading
      BY <1>1, <2>1, <2>2 DEF DialogFollows, Closed
    <3> QED
      BY <1>2, <1>15, <3>1 DEF Generated
  <2> QED
    BY <1>13, <1>15, <2>2 DEF Generated
<1>16. ASSUME NEW f \in Fields, NEW v, Edit(f, v)
       PROVE  SavesInv'
  BY <1>11, <1>16 DEF Edit
<1> QED
  BY <1>3, <1>5, <1>6, <1>7, <1>8, <1>9, <1>10, <1>12, <1>14, <1>15, <1>16
     DEF Next, vars, HandlePoll, Close, OtherSaves

LEMMA CountsStep ==
  ASSUME SettingsInv, [Next]_vars
  PROVE  CountsInv'
<1> USE SettingsAssumption
<1>1. CountsInv /\ \A r \in saves : r.kind \in Kinds
  BY DEF SettingsInv, FollowsInv, SaveFollows
<1>2. /\ others' = others \/ (others < MaxOthers /\ others' = others + 1)
      /\ steps' = steps \/ Step
  <2>1. ASSUME NEW kind \in Kinds, Open(kind) \/ TimerFires(kind)
        PROVE  others' = others /\ (steps' = steps \/ Step)
    BY <2>1 DEF Open, TimerFires
  <2>2. ASSUME NEW f \in Fields, NEW v, Edit(f, v)
        PROVE  others' = others /\ Step
    BY <2>2 DEF Edit
  <2>3. ASSUME NEW r \in saves, AnswerSave(r) \/ HandleSave(r)
        PROVE  others' = others /\ steps' = steps
    BY <2>3 DEF AnswerSave, HandleSave
  <2>4. ASSUME NEW r \in saves, LoseSave(r)
        PROVE  others < MaxOthers /\ others' = others + 1 /\ steps' = steps
    BY <2>4 DEF LoseSave
  <2>5. ASSUME NEW d \in Domains, Generated(d)
        PROVE  others' = others /\ steps' = steps
    BY <2>5 DEF Generated
  <2>6. CASE applyAwg3Defaults
    BY <2>6 DEF applyAwg3Defaults
  <2>7. CASE TypeDomain
    BY <2>7 DEF TypeDomain
  <2>8. CASE Submit
    BY <2>8 DEF Submit
  <2>9. CASE Close \/ UNCHANGED vars
    BY <2>9 DEF Close, vars
  <2>10. CASE HandlePoll
    BY <2>10 DEF HandlePoll
  <2>11. CASE OtherSaves
    BY <2>11 DEF OtherSaves
  <2> QED
    BY <2>1, <2>2, <2>3, <2>4, <2>5, <2>6, <2>7, <2>8, <2>9, <2>10, <2>11 DEF Next
<1>3. others' \in 0 .. MaxOthers /\ steps' \in 0 .. MaxSteps
  BY <1>1, <1>2 DEF CountsInv, Step
<1>4. timers' \subseteq Kinds
  BY <1>1 DEF CountsInv, Next, vars, HandlePoll, Open, TimerFires, Close, Edit,
     applyAwg3Defaults, TypeDomain, Generated, Submit, AnswerSave, LoseSave,
     HandleSave, OtherSaves
<1> QED
  BY <1>3, <1>4 DEF CountsInv

THEOREM SettingsHold == Spec => []SettingsInv
<1>1. ASSUME Init
      PROVE  SettingsInv
  <2>1. FollowsInv
    BY <1>1 DEF Init, FollowsInv, DialogFollows
  <2>2. IsConfiguration(stored) /\ Valid(stored)
    BY <1>1, SettingsAssumption DEF Init, IsConfiguration, IsText, Texts
  <2>3. StoredInv
    BY <1>1, <2>2, UnloadedTyped DEF Init, StoredInv
  <2>4. DialogInv /\ SavesInv /\ CountsInv
    BY <1>1, SettingsAssumption DEF Init, DialogInv, SavesInv, CountsInv
  <2> QED
    BY <2>1, <2>3, <2>4 DEF SettingsInv
<1>2. ASSUME SettingsInv, [Next]_vars
      PROVE  SettingsInv'
  <2>1. FollowsInv'
    BY <1>2, FollowsStep DEF SettingsInv
  <2> QED
    BY <1>2, <2>1, StoredStep, DialogStep, SavesStep, CountsStep DEF SettingsInv
<1> QED
  BY <1>1, <1>2, PTL DEF Spec

(* The types, for any settings, texts, names and faults. What is stored is
   always a configuration that the validation of the server takes.         *)
THEOREM SettingsTypes == Spec => []SettingsTypeOK
<1>1. ASSUME SettingsInv
      PROVE  SettingsTypeOK
  <2>1. ASSUME NEW c, IsConfiguration(c)
        PROVE  IsConfig(c)
    <3>1. c = [f \in Fields |-> c[f]] /\ IsText(c, Fields)
      BY <2>1 DEF IsConfiguration
    <3>2. DOMAIN c = Fields
      BY <3>1
    <3> QED
      BY <3>1, <3>2 DEF IsConfig
  <2>2. /\ IsConfig(stored) /\ Valid(stored)
        /\ IsConfig(serverConfig)
        /\ \A c \in past : IsConfig(c)
    BY <1>1, <2>1 DEF SettingsInv, StoredInv
  <2>3. dialog # Closed =>
          /\ dialog.kind \in Kinds
          /\ DOMAIN dialog.form = Group(dialog.kind)
          /\ IsText(dialog.form, Group(dialog.kind))
          /\ dialog.generating \subseteq Domains
          /\ dialog.loading \in BOOLEAN
          /\ IsConfig(dialog.base)
          /\ dialog.edited \subseteq Group(dialog.kind)
    <3> SUFFICES ASSUME dialog # Closed
                 PROVE  /\ dialog.kind \in Kinds
                        /\ DOMAIN dialog.form = Group(dialog.kind)
                        /\ IsText(dialog.form, Group(dialog.kind))
                        /\ dialog.generating \subseteq Domains
                        /\ dialog.loading \in BOOLEAN
                        /\ IsConfig(dialog.base)
                        /\ dialog.edited \subseteq Group(dialog.kind)
      OBVIOUS
    <3>1. dialog.kind \in Kinds /\ Follows(dialog.form, dialog.kind, dialog.base, dialog.edited)
      BY <1>1 DEF SettingsInv, FollowsInv, DialogFollows
    <3>2. DOMAIN dialog.form = Group(dialog.kind) /\ dialog.edited \subseteq Group(dialog.kind)
      BY <3>1 DEF Follows
    <3> QED
      BY <1>1, <2>1, <3>1, <3>2 DEF SettingsInv, DialogInv
  <2>4. ASSUME NEW r \in saves
        PROVE  /\ r.kind \in Kinds
               /\ DOMAIN r.form = Group(r.kind)
               /\ IsConfig(r.payload) /\ IsConfig(r.base) /\ IsConfig(r.seen)
               /\ r.answer \in {"asked", "ok", "failed", "late"}
               /\ r.mine \in BOOLEAN
               /\ r.mine => dialog # Closed /\ dialog.loading
               /\ r.edited \subseteq Group(r.kind)
    <3>1. SaveFollows(r) /\ SaveTyped(r)
      BY <1>1 DEF SettingsInv, FollowsInv, SavesInv
    <3>2. r.kind \in Kinds /\ Follows(r.form, r.kind, r.base, r.edited)
      BY <3>1 DEF SaveFollows
    <3>3. DOMAIN r.form = Group(r.kind) /\ r.edited \subseteq Group(r.kind)
      BY <3>2 DEF Follows
    <3>4. IsConfig(r.payload) /\ IsConfig(r.base) /\ IsConfig(r.seen)
      BY <2>1, <3>1, PayloadTyped DEF SaveTyped
    <3>5. r.answer \in {"asked", "ok", "failed", "late"} /\ r.mine \in BOOLEAN
      BY <3>1 DEF SaveTyped
    <3>6. r.mine => dialog # Closed /\ dialog.loading
      BY <1>1 DEF SettingsInv, SavesInv
    <3> QED
      BY <3>2, <3>3, <3>4, <3>5, <3>6
  <2>5. timers \subseteq Kinds /\ steps \in 0 .. MaxSteps /\ others \in 0 .. MaxOthers
    BY <1>1 DEF SettingsInv, CountsInv
  <2> QED
    BY <2>2, <2>3, <2>4, <2>5 DEF SettingsTypeOK
<1> QED
  BY <1>1, SettingsHold, PTL

(* After "Apply 3.1 defaults" the server takes the form, but for a bad key that
   was typed and a padding that Number reads and Atoi does not: a key that was
   stored has passed the validation before.                                *)
THEOREM DefaultsAreValid == Spec => DefaultsValid
<1> DEFINE Taken(form) == \/ Valid(form)
                          \/ form["header_protection_key"] \in BadKeys
                          \/ form["s4"] \in Wide \ WideToServer
<1>1. ASSUME SettingsInv, applyAwg3Defaults
      PROVE  Taken(dialog'.form)
  <2>1. /\ dialog # Closed
        /\ {"random_trailers", "header_protection_key", "s4"} \subseteq Group(dialog.kind)
        /\ "header_protection_key" \in Fields
    BY <1>1 DEF applyAwg3Defaults, Closed, Group, Obfuscation, Fields
  <2>2. /\ dialog = [kind |-> dialog.kind, form |-> dialog.form,
                     generating |-> dialog.generating, loading |-> dialog.loading,
                     base |-> dialog.base, edited |-> dialog.edited]
        /\ dialog.form = [f \in Group(dialog.kind) |-> dialog.form[f]]
    BY <1>1, <2>1 DEF SettingsInv, FollowsInv, DialogFollows, Follows
  <2>3. PICK k \in Keys : \E edited :
          dialog' = [dialog EXCEPT
                       !.form = [dialog.form EXCEPT
                                   !["random_trailers"] = "on",
                                   !["header_protection_key"] = IF @ = "" THEN k ELSE @,
                                   !["s4"] = IF @ \in Wide THEN @ ELSE "12"],
                       !.edited = edited]
    BY <1>1 DEF applyAwg3Defaults
  <2> DEFINE key == dialog.form["header_protection_key"]
             new == [dialog.form EXCEPT
                       !["random_trailers"] = "on",
                       !["header_protection_key"] = IF @ = "" THEN k ELSE @,
                       !["s4"] = IF @ \in Wide THEN @ ELSE "12"]
  <2>4. dialog'.form = new
    BY <2>2, <2>3
  <2>5. /\ new["header_protection_key"] = IF key = "" THEN k ELSE key
        /\ new["s4"] \in Wide \/ new["s4"] = "12"
    BY <2>1, <2>2
  <2>6. key \in {""} \cup Keys \cup BadKeys
    <3>1. key \in Texts["header_protection_key"]
      BY <1>1, <2>1 DEF SettingsInv, DialogInv, IsText
    <3>2. \A c \in Stored : c["header_protection_key"] \in {""} \cup Keys
      BY SettingsAssumption DEF Valid
    <3>3. /\ Default["header_protection_key"] = ""
          /\ Editable["header_protection_key"] = Keys \cup BadKeys \cup {""}
      BY <2>1 DEF Default, Editable
    <3>4. Texts["header_protection_key"]
            = {Default["header_protection_key"], ""} \cup Editable["header_protection_key"]
              \cup {c["header_protection_key"] : c \in Stored} \cup {}
      BY <2>1 DEF Texts
    <3> QED
      BY <3>1, <3>2, <3>3, <3>4
  <2>7. new["header_protection_key"] \in Keys \cup BadKeys
    BY <2>5, <2>6
  <2> HIDE DEF new
  <2>8. Taken(new)
    BY <2>5, <2>7, SettingsAssumption DEF Valid
  <2> QED
    BY <2>4, <2>8
<1>2. SettingsInv /\ [Next]_vars => [applyAwg3Defaults => Taken(dialog'.form)]_vars
  BY <1>1
<1>3. (applyAwg3Defaults => Taken(dialog'.form))
        <=> (applyAwg3Defaults => LET form == dialog'.form
                                  IN  \/ Valid(form)
                                      \/ form["header_protection_key"] \in BadKeys
                                      \/ form["s4"] \in Wide \ WideToServer)
  OBVIOUS
<1> QED
  BY <1>2, <1>3, SettingsHold, PTL DEF Spec, DefaultsValid
-----------------------------------------------------------------------------
(* Every packet that a dialog may hold is well formed: the packet depends on
   the length of the typed name alone, so it holds of every generation,
   whichever answered last. The hypothesis is the limit of the two bytes
   that the ClientHello has for the length of its extensions.              *)
THEOREM GeneratedAreExact ==
  ASSUME \A d \in Domains : SniLength[d] \in Names
  PROVE  Spec => []GeneratedExact
<1>1. GeneratedExact
  BY PacketsAreExact DEF GeneratedExact, GeneratedNames, Generation
<1> QED
  BY <1>1, PTL

(* And the typed name can be read from it. *)
THEOREM GeneratedAreNamed ==
  ASSUME \A d \in Domains : SniLength[d] \in Names
  PROVE  Spec => []GeneratedNamed
<1>1. GeneratedNamed
  BY NamesAreCarried DEF GeneratedNamed, GeneratedNames, Generation
<1> QED
  BY <1>1, PTL
=============================================================================
