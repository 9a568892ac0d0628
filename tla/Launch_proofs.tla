----------------------------- MODULE Launch_proofs -----------------------------
(* From the welcome screen to the dashboard, for any profiles and settings. *)
EXTENDS Launch, TLAPS

LEMMA DirFacts ==
  /\ Default \in Dir /\ Profile \subseteq Dir /\ Dir \ {Default} = Profile
  /\ Pickable \subseteq Profile /\ Unset # Default
  BY LaunchAssumption DEF Dir

LEMMA TextFacts ==
  /\ Empty \in Text /\ NoVals \in [Field -> Text] /\ NoFiles \in [Typed -> Text]
  /\ \A d \in Dir, f \in Field : <<d, f>> \in Text
  /\ \A d \in Dir : <<d, "key">> \in Text /\ <<d, "minted">> \in Text
  BY DEF Text, What, NoVals, NoFiles, Typed

LEMMA FieldFacts ==
  /\ 1 \in DOMAIN FieldOrder
  /\ DOMAIN FieldOrder = 1 .. Len(FieldOrder) /\ Len(FieldOrder) \in Nat
  /\ \A i \in DOMAIN FieldOrder : FieldOrder[i] \in Field
  /\ Typed \subseteq Field /\ Typed = Field \ Choice
  BY LaunchAssumption DEF Typed

-----------------------------------------------------------------------------
(* The types                                                                *)

LEMMA EventFacts ==
  ASSUME TypeOK
  PROVE  /\ <<>> \in Seq({"line", "up", "failed"}) /\ Len(<<>>) = 0 /\ Buffer >= 1
         /\ \A x \in {"line", "up", "failed"} : Len(events) < Buffer =>
                /\ Append(events, x) \in Seq({"line", "up", "failed"})
                /\ Len(Append(events, x)) <= Buffer
         /\ events # <<>> => /\ Tail(events) \in Seq({"line", "up", "failed"})
                             /\ Len(Tail(events)) <= Buffer
  BY LaunchAssumption DEF TypeOK

LEMMA NoEvents ==
  ASSUME events' = <<>>
  PROVE  events' \in Seq({"line", "up", "failed"}) /\ Len(events') <= Buffer
  BY LaunchAssumption

LEMMA ResetType ==
  ASSUME IInv, Reset, at' \in Stage, active' \in Dir, made' \subseteq Profile,
         UNCHANGED <<writing, saved, joined, ident, member, shown>>
  PROVE  TypeOK'
<1>1. events' \in Seq({"line", "up", "failed"}) /\ Len(events') <= Buffer
      BY NoEvents DEF Reset
<1>2. vals' \in [Field -> Text] /\ idx' \in DOMAIN FieldOrder
      BY TextFacts, FieldFacts DEF Reset
<1>3. Default \in Dir /\ Empty \in Text
      BY DirFacts, TextFacts
<1> QED BY <1>1, <1>2, <1>3 DEF IInv, TypeOK, Reset, BringUp

LEMMA InputType ==
  ASSUME IInv, NEW d \in Dir, NEW f \in Field
  PROVE  <<d, f>> \in Text /\ Committed \in [Field -> Text]
<1>1. focused \in Field
      BY FieldFacts DEF IInv, TypeOK, focused
<1> QED BY <1>1, TextFacts DEF IInv, TypeOK, Committed

LEMMA WelcomeType ==
  ASSUME IInv,
         \/ Leave \/ ChooseProfile \/ NewName \/ StartNode \/ StartFails
         \/ NewNetwork \/ StartAnyway \/ JoinNetwork \/ TypeKey \/ EnterKey
         \/ \E d \in Dir : PickEntry(d)
         \/ \E p \in Profile : CreateProfile(p) \/ CreateFails(p) \/ AskDelete(p)
  PROVE  TypeOK'
<1> USE DirFacts, TextFacts
    DEF IInv, TypeOK, Go, sharedVars, formVars, welcomeVars, cfgVars, bootVars, historyVars
<1>1. CASE Leave
  <2>1. at' \in Stage
        BY <1>1 DEF Leave, Leads, Stage, Screen
  <2>2. touched' \in BOOLEAN
        BY <1>1 DEF Leave
  <2> QED BY <1>1, <2>1, <2>2 DEF Leave
<1>2. CASE ChooseProfile \/ NewName \/ NewNetwork \/ StartAnyway \/ JoinNetwork \/ EnterKey
      BY <1>2 DEF ChooseProfile, NewName, NewNetwork, StartAnyway, JoinNetwork, EnterKey,
                  Stage, Screen
<1>3. ASSUME NEW d \in Dir, NEW p \in Dir, PickEntry(d) \/ AskDelete(p) PROVE TypeOK'
      BY <1>3 DEF PickEntry, AskDelete, Stage, Screen
<1>4. ASSUME NEW p \in Profile, CreateProfile(p) \/ CreateFails(p) PROVE TypeOK'
      BY <1>4 DEF CreateProfile, CreateFails, UseProfile, UseFails, Stage, Screen
<1>5. CASE StartNode
  <2>1. selected = Default \/ selected \in Profile
        BY DEF Dir
  <2> QED BY <1>5, <2>1 DEF StartNode, UseProfile, HasJoined, Stage, Screen
<1>6. CASE StartFails
  <2>1. selected \in Profile
        BY <1>6 DEF StartFails, Dir
  <2> QED BY <1>6, <2>1 DEF StartFails, UseFails, Stage, Screen
<1>7. CASE TypeKey
  <2>1. <<selected, "key">> \in Text
        OBVIOUS
  <2> QED BY <1>7, <2>1 DEF TypeKey, Stage, Screen
<1> QED BY <1>1, <1>2, <1>3, <1>4, <1>5, <1>6, <1>7

LEMMA DeleteType == IInv /\ ConfirmDelete => TypeOK'
<1> SUFFICES ASSUME IInv, ConfirmDelete PROVE TypeOK'
    OBVIOUS
<1> USE DirFacts, TextFacts
    DEF IInv, TypeOK, Go, formVars, welcomeVars, cfgVars, bootVars, historyVars
<1>1. at' \in Stage
      BY DEF ConfirmDelete, Stage, Screen
<1>2. CASE DeleteProfile(selected)
      BY <1>1, <1>2 DEF ConfirmDelete, DeleteProfile
<1>3. CASE DeleteFails(selected)
  <2>1. PICK F \in SUBSET Typed :
          saved' = [saved EXCEPT ![selected] = [f \in Typed |-> IF f \in F THEN Empty ELSE @[f]]]
        BY <1>3 DEF DeleteFails
  <2>2. [f \in Typed |-> IF f \in F THEN Empty ELSE saved[selected][f]] \in [Typed -> Text]
        OBVIOUS
  <2>3. saved' \in [Dir -> [Typed -> Text]]
        BY <2>1, <2>2
  <2> QED BY <1>1, <1>3, <2>3 DEF ConfirmDelete, DeleteFails
<1> QED BY <1>2, <1>3 DEF ConfirmDelete

LEMMA MoveIndex ==
  ASSUME IInv, MoveField
  PROVE  \E i \in DOMAIN FieldOrder : Focus(i)
<1>1. PICK i : /\ i \in {(idx % Len(FieldOrder)) + 1, IF idx = 1 THEN Len(FieldOrder) ELSE idx - 1}
               /\ Focus(i)
      BY DEF MoveField
<1>2. idx \in 1 .. Len(FieldOrder) /\ Len(FieldOrder) \in Nat \ {0}
      BY FieldFacts DEF IInv, TypeOK
<1>3. idx % Len(FieldOrder) \in 0 .. Len(FieldOrder) - 1
      BY <1>2
<1>4. i = (idx % Len(FieldOrder)) + 1 \/ i = Len(FieldOrder) \/ (i = idx - 1 /\ idx # 1)
      BY <1>1
<1>5. i \in 1 .. Len(FieldOrder)
      BY <1>2, <1>3, <1>4
<1> QED BY <1>1, <1>5, FieldFacts

LEMMA FormType == IInv /\ FormStep => TypeOK'
<1> SUFFICES ASSUME IInv, FormStep PROVE TypeOK'
    OBVIOUS
<1> USE DirFacts, TextFacts, FieldFacts
    DEF Go, sharedVars, formVars, welcomeVars, cfgVars, bootVars, historyVars
<1>1. focused \in Field /\ Committed \in [Field -> Text]
      BY InputType DEF focused, IInv, TypeOK
<1>2. CASE OpenSettings
  <2>3. formDir' \in Dir
        BY <1>2 DEF OpenSettings, profileDataDir, IInv, TypeOK
  <2>1. vals' \in [Field -> Text]
    <3>1. PICK F \in SUBSET Typed : vals' = Loaded(formDir', F)
          BY <1>2 DEF OpenSettings
    <3> QED BY <2>3, <3>1 DEF Loaded, IInv, TypeOK
  <2>2. input' \in Text
        BY <1>2, <2>1 DEF OpenSettings
  <2> QED BY <1>2, <2>1, <2>2, <2>3 DEF OpenSettings, IInv, TypeOK, Stage, Screen
<1>3. CASE TypeSetting
  <2>1. input' \in Text
        BY <1>1, <1>3 DEF TypeSetting, IInv, TypeOK
  <2> QED BY <1>3, <2>1 DEF TypeSetting, IInv, TypeOK
<1>4. CASE MoveField
  <2>1. vals' \in [Field -> Text]
        BY <1>1, <1>4 DEF MoveField
  <2>2. PICK i \in DOMAIN FieldOrder : Focus(i)
        BY <1>4, MoveIndex
  <2>4. input' \in Text /\ idx' \in DOMAIN FieldOrder
        BY <2>1, <2>2 DEF Focus, IInv, TypeOK
  <2> QED BY <1>4, <2>1, <2>4 DEF MoveField, IInv, TypeOK
<1>5. CASE SaveForm
  <2>1. vals' \in [Field -> Text]
        BY <1>1, <1>5 DEF SaveForm
  <2>2. PICK n \in 0 .. Len(FieldOrder), torn \in BOOLEAN :
          saved' = [saved EXCEPT ![formDir] = Persisted(n, torn)]
        BY <1>5 DEF SaveForm
  <2>3. Persisted(n, torn) \in [Typed -> Text]
        BY <2>1 DEF Persisted, IInv, TypeOK
  <2>4. saved' \in [Dir -> [Typed -> Text]]
        BY <2>2, <2>3 DEF IInv, TypeOK
  <2> QED BY <1>5, <2>1, <2>4 DEF SaveForm, IInv, TypeOK
<1>6. CASE EscSettings
      BY <1>6 DEF EscSettings, IInv, TypeOK, Stage, Screen
<1> QED BY <1>2, <1>3, <1>4, <1>5, <1>6 DEF FormStep

LEMMA BootType ==
  ASSUME IInv,
         \/ LoadConfig \/ MintSelfKey
         \/ Progress \/ UpSucceeds \/ UpFails \/ MarkJoined \/ LoadOrCreateIdentity
         \/ IdentityFails \/ PostResult \/ ReadLine \/ ReadUp \/ CancelBoot
  PROVE  TypeOK'
<1> USE DirFacts, TextFacts, EventFacts
    DEF Go, BringsUp, sharedVars, formVars, welcomeVars, cfgVars, bootVars, historyVars
<1>1. CASE LoadConfig
      BY <1>1 DEF LoadConfig, ResolveDataDir, IInv, TypeOK, Stage
<1>2. CASE MintSelfKey
  <2>1. cfgKey' \in Text /\ bringUp' \in BringUp /\ at' \in Stage
        BY <1>2 DEF MintSelfKey, IInv, TypeOK, BringUp, Stage
  <2> QED BY <1>2, <2>1 DEF MintSelfKey, IInv, TypeOK
<1>3. CASE Progress \/ PostResult \/ ReadLine
  <2>1. events' \in Seq({"line", "up", "failed"}) /\ Len(events') <= Buffer
        BY <1>3 DEF Progress, PostResult, ReadLine, IInv
  <2> QED BY <1>3, <2>1 DEF Progress, PostResult, ReadLine, IInv, TypeOK, BringUp
<1>4. CASE UpSucceeds \/ UpFails \/ MarkJoined \/ IdentityFails
      BY <1>4 DEF UpSucceeds, UpFails, MarkJoined, IdentityFails, IInv, TypeOK, BringUp
<1>5. CASE LoadOrCreateIdentity
      BY <1>5 DEF LoadOrCreateIdentity, NewIdentity, IInv, TypeOK, BringUp
<1>6. CASE ReadUp
  <2>1. events' \in Seq({"line", "up", "failed"}) /\ Len(events') <= Buffer
        BY <1>6, NoEvents DEF ReadUp
  <2> QED BY <1>6, <2>1 DEF ReadUp, IInv, TypeOK, Stage
<1>7. CASE CancelBoot
      BY <1>7 DEF CancelBoot, IInv, TypeOK, Stage
<1> QED BY <1>1, <1>2, <1>3, <1>4, <1>5, <1>6, <1>7

LEMMA TypeStep == IInv /\ [Next]_vars => TypeOK'
<1> SUFFICES ASSUME IInv, [Next]_vars PROVE TypeOK'
    OBVIOUS
<1> USE DirFacts
<1>1. CASE Exit
      BY <1>1, ResetType DEF Exit, Stage, sharedVars, IInv, TypeOK
<1>2. CASE Launch
      BY <1>2, ResetType DEF Launch, Go, Stage, Screen, sharedVars, IInv, TypeOK
<1>3. ASSUME NEW p \in Profile, SwitchProfile(p) PROVE TypeOK'
      BY <1>3, ResetType DEF SwitchProfile, UseProfile, Go, Stage, Screen, IInv, TypeOK
<1>4. ASSUME NEW p \in Profile, SwitchFails(p) \/ OtherTruncates(p) PROVE TypeOK'
      BY <1>4 DEF SwitchFails, OtherTruncates, UseFails, Go, IInv, TypeOK,
                  welcomeVars, formVars, cfgVars, bootVars, historyVars
<1>5. CASE OtherWrites
      BY <1>5 DEF OtherWrites, IInv, TypeOK, welcomeVars, formVars, cfgVars, bootVars
<1>6. CASE UNCHANGED vars
      BY <1>6 DEF vars, sharedVars, welcomeVars, formVars, cfgVars, bootVars, historyVars,
                  IInv, TypeOK
<1>7. CASE WelcomeStep
      BY <1>1, <1>2, <1>7, WelcomeType, DeleteType DEF WelcomeStep, QuitWelcome
<1>8. CASE BootStep
      BY <1>1, <1>8, BootType DEF BootStep, ReadFailed, CancelEnds
<1>9. CASE FormStep
      BY <1>9, FormType
<1> QED BY <1>1, <1>3, <1>4, <1>5, <1>6, <1>7, <1>8, <1>9 DEF Next, Dies

-----------------------------------------------------------------------------
(* The kinds of steps                                                       *)

Restarts == Launch \/ Exit \/ \E p \in Profile : SwitchProfile(p)
Browses ==
    \/ Leave \/ ChooseProfile \/ NewName \/ \E d \in Dir : PickEntry(d)
    \/ \E p \in Profile : CreateProfile(p) \/ CreateFails(p) \/ AskDelete(p)
Chooses ==
    \/ StartNode \/ StartFails \/ NewNetwork \/ StartAnyway \/ JoinNetwork
    \/ TypeKey \/ EnterKey
Boots ==
    \/ Progress \/ UpSucceeds \/ UpFails \/ MarkJoined \/ LoadOrCreateIdentity
    \/ IdentityFails \/ PostResult \/ ReadLine \/ ReadUp \/ CancelBoot
Disturbs ==
    OtherWrites \/ \E p \in Profile : SwitchFails(p) \/ OtherTruncates(p)

LEMMA StepKinds ==
  Next => \/ Restarts \/ Browses \/ ConfirmDelete \/ Chooses \/ FormStep
          \/ LoadConfig \/ MintSelfKey \/ Boots \/ Disturbs
  BY DirFacts DEF Next, WelcomeStep, BootStep, QuitWelcome, ReadFailed, CancelEnds, Dies,
                  Restarts, Browses, Chooses, Boots, Disturbs

\* What was picked stays decided until the directory is resolved, and is what comes up.
LEMMA PickStep == IInv /\ [Next]_vars => PickHolds' /\ BootsPicked'
<1> SUFFICES ASSUME IInv, [Next]_vars PROVE PickHolds' /\ BootsPicked'
    OBVIOUS
<1> USE DirFacts DEF Go, IInv, PickHolds, BootsPicked, Overruled, Deciding, Configured, Screen,
           TypeOK, sharedVars, welcomeVars, formVars, cfgVars, bootVars, historyVars
<1>1. CASE Restarts
      BY <1>1 DEF Restarts, Launch, Exit, SwitchProfile, Reset, UseProfile
<1>2. CASE Browses
      BY <1>2 DEF Browses, Leave, Leads, ChooseProfile, NewName, PickEntry, CreateProfile,
                  CreateFails, AskDelete, UseProfile, UseFails
<1>3. CASE ConfirmDelete
      BY <1>3 DEF ConfirmDelete, DeleteProfile, DeleteFails
<1>4. CASE Chooses
      BY <1>4 DEF Chooses, StartNode, StartFails, NewNetwork, StartAnyway, JoinNetwork, TypeKey,
                  EnterKey, UseProfile, UseFails
<1>5. CASE FormStep
      BY <1>5 DEF FormStep, OpenSettings, TypeSetting, MoveField, SaveForm, EscSettings
<1>6. CASE LoadConfig
      BY <1>6 DEF LoadConfig, ResolveDataDir
<1>7. CASE MintSelfKey
      BY <1>7 DEF MintSelfKey
<1>8. CASE Boots
      BY <1>8 DEF Boots, Progress, UpSucceeds, UpFails, MarkJoined, LoadOrCreateIdentity,
                  IdentityFails, PostResult, ReadLine, ReadUp, CancelBoot, BringsUp, AtBoot
<1>9. CASE Disturbs
      BY <1>9 DEF Disturbs, SwitchFails, OtherTruncates, OtherWrites, UseFails
<1>10. CASE UNCHANGED vars
      BY <1>10 DEF vars
<1> QED BY <1>1, <1>2, <1>3, <1>4, <1>5, <1>6, <1>7, <1>8, <1>9, <1>10, StepKinds

LEMMA FormInput == IInv /\ FormStep => InputHolds' /\ KeyIsRight' /\ FilesHoldTheirOwn'
<1> SUFFICES ASSUME IInv, FormStep PROVE InputHolds' /\ KeyIsRight' /\ FilesHoldTheirOwn'
    OBVIOUS
<1> USE DEF Go, IInv, InputHolds, KeyIsRight, FilesHoldTheirOwn, Overruled, Configured, Screen,
            TypeOK,
            focused, sharedVars, welcomeVars, formVars, cfgVars, bootVars, historyVars
<1>1. CASE OpenSettings
  <2>1. /\ at' = "settings" /\ selected' = selected /\ saved' = saved /\ idx' = 1
        /\ authKey' = authKey /\ authKey = Empty
        BY <1>1 DEF OpenSettings
  <2>4. formDir' \in Dir
        BY <1>1, DirFacts DEF OpenSettings, profileDataDir
  <2>5. PICK F \in SUBSET Typed : vals' = Loaded(formDir', F)
        BY <1>1 DEF OpenSettings
  <2>2. \A f \in Field : vals'[f] \in {Empty, <<formDir', f>>}
        BY <2>4, <2>5, FieldFacts DEF Loaded
  <2>3. FieldOrder[1] \notin Choice => input' \in {Empty, <<formDir', FieldOrder[1]>>}
        BY <1>1, <2>2, FieldFacts DEF OpenSettings
  <2> QED BY <2>1, <2>2, <2>3
<1>2. CASE TypeSetting
      BY <1>2 DEF TypeSetting
<1>3. CASE MoveField
  <2>1. \A f \in Field : vals'[f] \in {Empty, <<formDir, f>>}
        BY <1>3 DEF MoveField, Committed
  <2>2. PICK i : Focus(i) /\ i \in DOMAIN FieldOrder
        BY <1>3, MoveIndex
  <2>3. FieldOrder[idx'] \notin Choice => input' \in {Empty, <<formDir, FieldOrder[idx']>>}
        BY <2>1, <2>2, FieldFacts DEF Focus
  <2> QED BY <1>3, <2>1, <2>3 DEF MoveField
<1>4. CASE SaveForm
  <2>1. \A f \in Field : vals'[f] \in {Empty, <<formDir, f>>}
        BY <1>4 DEF SaveForm, Committed
  <2>2. PICK n \in 0 .. Len(FieldOrder), torn \in BOOLEAN :
          saved' = [saved EXCEPT ![formDir] = Persisted(n, torn)]
        BY <1>4 DEF SaveForm
  <2>3. \A f \in Typed : Persisted(n, torn)[f] \in {Empty, <<formDir, f>>}
        BY <2>1, FieldFacts DEF Persisted
  <2>4. \A d \in Dir, f \in Typed : saved'[d][f] \in {Empty, <<d, f>>}
        BY <2>2, <2>3
  <2> QED BY <1>4, <2>1, <2>4 DEF SaveForm
<1>5. CASE EscSettings
      BY <1>5 DEF EscSettings, NoVals
<1> QED BY <1>1, <1>2, <1>3, <1>4, <1>5 DEF FormStep

\* No text ends up in another field, another directory or as another one's key.
LEMMA InputStep == IInv /\ [Next]_vars => InputHolds' /\ KeyIsRight' /\ FilesHoldTheirOwn'
<1> SUFFICES ASSUME IInv, [Next]_vars PROVE InputHolds' /\ KeyIsRight' /\ FilesHoldTheirOwn'
    OBVIOUS
<1> USE DirFacts DEF Go, IInv, InputHolds, KeyIsRight, FilesHoldTheirOwn, Overruled, Configured,
           Screen, TypeOK, focused, NoVals,
           sharedVars, welcomeVars, formVars, cfgVars, bootVars, historyVars
<1>1. CASE Restarts
      BY <1>1 DEF Restarts, Launch, Exit, SwitchProfile, Reset, UseProfile
<1>2. CASE Browses
      BY <1>2 DEF Browses, Leave, Leads, ChooseProfile, NewName, PickEntry, CreateProfile,
                  CreateFails, AskDelete, UseProfile, UseFails
<1>3. CASE ConfirmDelete
      BY <1>3 DEF ConfirmDelete, DeleteProfile, DeleteFails, NoFiles
<1>4. CASE Chooses
      BY <1>4 DEF Chooses, StartNode, StartFails, NewNetwork, StartAnyway, JoinNetwork, TypeKey,
                  EnterKey, UseProfile, UseFails
<1>5. CASE FormStep
      BY <1>5, FormInput
<1>6. CASE LoadConfig
  <2>1. cfgKey' = authKey /\ cfgKey' \in {Empty, <<selected, "key">>}
        BY <1>6 DEF LoadConfig
  <2>2. selected' = selected /\ (Overruled' \/ cfgDir' = selected)
        BY <1>6 DEF LoadConfig, ResolveDataDir, PickHolds, Deciding, Overruled
  <2>3. at' = "loaded" /\ input' = Empty /\ authKey' = Empty /\ UNCHANGED <<vals, saved, formDir>>
        BY <1>6 DEF LoadConfig
  <2>4. vals' = NoVals
        BY <1>6, <2>3 DEF LoadConfig
  <2> QED BY <2>1, <2>2, <2>3, <2>4 DEF Overruled
<1>7. CASE MintSelfKey
      BY <1>7 DEF MintSelfKey
<1>8. CASE Boots
      BY <1>8 DEF Boots, Progress, UpSucceeds, UpFails, MarkJoined, LoadOrCreateIdentity,
                  IdentityFails, PostResult, ReadLine, ReadUp, CancelBoot, BringsUp, AtBoot
<1>9. CASE Disturbs
      BY <1>9 DEF Disturbs, SwitchFails, OtherTruncates, OtherWrites, UseFails
<1>10. CASE UNCHANGED vars
      BY <1>10 DEF vars
<1> QED BY <1>1, <1>2, <1>3, <1>4, <1>5, <1>6, <1>7, <1>8, <1>9, <1>10, StepKinds

LEMMA BootsHold == IInv /\ Boots => BootHolds' /\ LabelIsDir' /\ NodeFilesAreTrue'
<1> SUFFICES ASSUME IInv, Boots PROVE BootHolds' /\ LabelIsDir' /\ NodeFilesAreTrue'
    OBVIOUS
<1> USE DEF Go, IInv, BootHolds, LabelIsDir, NodeFilesAreTrue, TypeOK, AtBoot, BringsUp,
            sharedVars, welcomeVars, formVars, cfgVars, bootVars, historyVars
<1>1. CASE Progress \/ ReadLine
  <2>1. \A i \in DOMAIN events' :
          events'[i] = "up" => bringUp = "posted" /\ ident[cfgDir] = "first"
    <3>1. CASE Progress
          BY <3>1 DEF Progress
    <3>2. CASE ReadLine
      <4>1. \A i \in DOMAIN Tail(events) :
              i + 1 \in DOMAIN events /\ Tail(events)[i] = events[i + 1]
            BY <3>2 DEF ReadLine
      <4> QED BY <3>2, <4>1 DEF ReadLine
    <3> QED BY <1>1, <3>1, <3>2
  <2>2. /\ UNCHANGED <<at, bringUp, label, cfgDir, cfgName, ident, joined, member, shown>>
        /\ at \in {"booting", "cancelling"}
        BY <1>1 DEF Progress, ReadLine
  <2> QED BY <2>1, <2>2
<1>2. CASE UpSucceeds \/ UpFails
      BY <1>2 DEF UpSucceeds, UpFails
<1>3. CASE MarkJoined
      BY <1>3 DEF MarkJoined
<1>4. CASE LoadOrCreateIdentity
      BY <1>4 DEF LoadOrCreateIdentity, NewIdentity
<1>5. CASE IdentityFails
  <2>1. /\ ident[cfgDir] = "none" => ident'[cfgDir] = "none" /\ shown' = shown
        /\ ident[cfgDir] # "none" => shown' = shown \ {cfgDir}
        /\ ident'[cfgDir] \in {"none", ident[cfgDir]}
        /\ \A d \in Dir \ {cfgDir} : ident'[d] = ident[d]
        BY <1>5 DEF IdentityFails
  <2>2. /\ bringUp' = "lost" /\ at \in {"booting", "cancelling"}
        /\ UNCHANGED <<at, events, label, cfgDir, cfgName, joined, member>>
        BY <1>5 DEF IdentityFails
  <2>3. \A d \in shown' : ident'[d] = "first"
        BY <2>1
  <2>4. \A d \in Dir : ident'[d] # "second"
        BY <2>1
  <2>5. bringUp = "identifying" /\ \A i \in DOMAIN events : events[i] # "up"
        BY <1>5 DEF IdentityFails
  <2> QED BY <2>2, <2>3, <2>4, <2>5
<1>6. CASE PostResult
      BY <1>6 DEF PostResult
<1>7. CASE ReadUp
  <2>1. ident[cfgDir] = "first"
        BY <1>7 DEF ReadUp
  <2>2. events' = <<>> /\ DOMAIN events' = {}
        BY <1>7 DEF ReadUp
  <2> QED BY <1>7, <2>1, <2>2 DEF ReadUp
<1>8. CASE CancelBoot
      BY <1>8 DEF CancelBoot
<1> QED BY <1>1, <1>2, <1>3, <1>4, <1>5, <1>6, <1>7, <1>8 DEF Boots

\* The bring-up leaves on disk what is true of the node.
LEMMA BootStepHolds == IInv /\ [Next]_vars => BootHolds' /\ LabelIsDir' /\ NodeFilesAreTrue'
<1> SUFFICES ASSUME IInv, [Next]_vars PROVE BootHolds' /\ LabelIsDir' /\ NodeFilesAreTrue'
    OBVIOUS
<1> USE DirFacts DEF Go, IInv, BootHolds, LabelIsDir, NodeFilesAreTrue, Screen, TypeOK,
           sharedVars, welcomeVars, formVars, cfgVars, bootVars, historyVars
<1>1. CASE Restarts
      BY <1>1 DEF Restarts, Launch, Exit, SwitchProfile, Reset, UseProfile
<1>2. CASE Browses
      BY <1>2 DEF Browses, Leave, Leads, ChooseProfile, NewName, PickEntry, CreateProfile,
                  CreateFails, AskDelete, UseProfile, UseFails
<1>3. CASE ConfirmDelete
      BY <1>3 DEF ConfirmDelete, DeleteProfile, DeleteFails
<1>4. CASE Chooses
      BY <1>4 DEF Chooses, StartNode, StartFails, NewNetwork, StartAnyway, JoinNetwork, TypeKey,
                  EnterKey, UseProfile, UseFails
<1>5. CASE FormStep
      BY <1>5 DEF FormStep, OpenSettings, TypeSetting, MoveField, SaveForm, EscSettings
<1>6. CASE LoadConfig
      BY <1>6 DEF LoadConfig, ResolveDataDir
<1>7. CASE MintSelfKey
      BY <1>7 DEF MintSelfKey
<1>8. CASE Boots
      BY <1>8, BootsHold
<1>9. CASE Disturbs
      BY <1>9 DEF Disturbs, SwitchFails, OtherTruncates, OtherWrites, UseFails
<1>10. CASE UNCHANGED vars
      BY <1>10 DEF vars
<1> QED BY <1>1, <1>2, <1>3, <1>4, <1>5, <1>6, <1>7, <1>8, <1>9, <1>10, StepKinds

-----------------------------------------------------------------------------
(* The theorems                                                             *)

LEMMA InvInit == Init => IInv
<1> SUFFICES ASSUME Init PROVE IInv
    OBVIOUS
<1> USE DirFacts, TextFacts, FieldFacts DEF Init, Fresh
<1>1. events \in Seq({"line", "up", "failed"}) /\ Len(events) <= Buffer /\ DOMAIN events = {}
      BY LaunchAssumption
<1>2. TypeOK
      BY <1>1 DEF TypeOK, Stage, BringUp
<1>3. PickHolds /\ BootsPicked /\ LabelIsDir /\ NodeFilesAreTrue
      BY DEF PickHolds, BootsPicked, LabelIsDir, NodeFilesAreTrue, Deciding, Configured
<1>4. InputHolds /\ KeyIsRight /\ FilesHoldTheirOwn
      BY DEF InputHolds, KeyIsRight, FilesHoldTheirOwn, Configured, NoVals, NoFiles
<1>5. BootHolds
      BY <1>1 DEF BootHolds
<1> QED BY <1>2, <1>3, <1>4, <1>5 DEF IInv

\* Every reachable state satisfies the inductive invariant.
THEOREM Invariance == Spec => []IInv
<1>1. Init => IInv
      BY InvInit
<1>2. IInv /\ [Next]_vars => IInv'
      BY TypeStep, PickStep, InputStep, BootStepHolds DEF IInv
<1> QED BY <1>1, <1>2, PTL DEF Spec

\* The types hold: among them that the channel of boot events never holds more than
\* its buffer (booting.go, RunBoot), and that the form's focus stays on a field.
THEOREM TypeCorrect == Spec => []TypeOK
<1>1. IInv => TypeOK
      BY DEF IInv
<1> QED BY <1>1, Invariance, PTL

\* The data directory LoadConfig resolves is the one of the profile picked on the
\* welcome screen, unless DATA_DIR, another process or an unreadable app.json has come
\* between.
THEOREM BootsCorrect == Spec => []BootsPicked
<1>1. IInv => BootsPicked
      BY DEF IInv
<1> QED BY <1>1, Invariance, PTL

\* The dashboard shows the profile whose directory the node runs in, however often
\* other processes switch the active profile meanwhile.
THEOREM LabelCorrect == Spec => []LabelIsDir
<1>1. IInv => LabelIsDir
      BY DEF IInv
<1> QED BY <1>1, Invariance, PTL

\* The one text input of the welcome screen never makes a name or a setting the auth
\* key, and the key the node is given was typed for the directory that comes up, or
\* minted by its credentials, unless the profile it was typed for was overruled.
THEOREM KeyCorrect == Spec => []KeyIsRight
<1>1. IInv => KeyIsRight
      BY DEF IInv
<1> QED BY <1>1, Invariance, PTL

\* Whatever is typed, in whatever order the fields are visited, and wherever saving
\* the form stops, a settings file holds a text meant for it.
THEOREM FilesCorrect == Spec => []FilesHoldTheirOwn
<1>1. IInv => FilesHoldTheirOwn
      BY DEF IInv
<1> QED BY <1>1, Invariance, PTL

\* tailscale.ip and node.id say what is true of the node of their directory, at
\* whatever step of the bring-up a process ends; an identity, as long as it can be read.
THEOREM NodeFilesCorrect == Spec => []NodeFilesAreTrue
<1>1. IInv => NodeFilesAreTrue
      BY DEF IInv
<1> QED BY <1>1, Invariance, PTL
=============================================================================
