--------------------------------- MODULE Launch ---------------------------------
(***************************************************************************)
(* `edgegrid dashboard` from the welcome screen to the dashboard: the choice *)
(* of a profile, its settings form, the resolution of the data directory,    *)
(* the boot screen over the goroutine that brings the node up, and the       *)
(* restart that switches profiles (internal/tui/app/welcome.go, booting.go,  *)
(* app.go; cmd/edgegrid/main.go; internal/node/config.go, profile.go,        *)
(* ident.go, node.go).  Other EdgeGrid processes of the same user switch the *)
(* active profile meanwhile.                                                 *)
(*                                                                           *)
(* A data directory goes by the name of its profile; Default stands for      *)
(* ./data and for the empty name.  A text is abstracted to what it was typed *)
(* for: <<d, f>> is what belongs into field f of directory d.                *)
(***************************************************************************)
EXTENDS Naturals, Sequences

CONSTANTS
    Profile,
    Default,
    Unset,       \* DATA_DIR is not in the environment; nobody is writing
    Pickable,    \* the profiles the user of this process works with (a bound)
    Field,
    FieldOrder,  \* how the form lists them
    Choice,      \* the fields that are picked from a list
    Credentials, \* the fields that make up the Tailscale API credentials
    Buffer       \* how many boot events the channel holds

Dir == Profile \cup {Default}

\* What is chosen is read by no code, so only typed fields have their files here.
Typed == Field \ Choice

ASSUME LaunchAssumption ==
    /\ Default \notin Profile
    /\ Unset \notin Profile \cup {Default}
    /\ Pickable \subseteq Profile
    /\ FieldOrder \in Seq(Field) /\ Len(FieldOrder) > 0
    /\ \A f \in Field : \E i \in DOMAIN FieldOrder : FieldOrder[i] = f
    /\ Choice \subseteq Field /\ Credentials \subseteq Typed
    /\ {"key", "minted"} \cap Field = {}
    /\ Buffer \in Nat \ {0}


Empty == <<>>
What == Field \cup {"key", "minted"}
Text == {Empty} \cup (Dir \X What)

VARIABLES
    \* what the processes of one user share
    active,   \* the profile app.json names; Default if there is none, or half a file
    writing,  \* whose name another process has truncated app.json for
    made,     \* the profile directories
    saved,    \* the files of the settings form, in each directory
    joined,   \* the directories with a tailscale.ip
    ident,    \* the node.id of each directory
    \* this process
    at,       \* the screen
    env,      \* DATA_DIR in its environment
    listed,   \* the profile list as it was last read
    selected, \* the entry the submenu is about, and then the one that was picked
    input,    \* the one text input of all the screens
    authKey,
    vals,     \* the settings form
    idx,      \* the field in focus
    formDir,  \* the directory it is about, as its header says
    cfgDir, cfgName, cfgKey, \* node.Config
    bringUp,  \* how far the goroutine of RunBoot has come
    events,   \* its channel
    label,    \* the profile the dashboard shows
    \* history
    touched,  \* another process has written app.json between the pick and LoadConfig, or
              \* LoadConfig could not read it
    member,   \* the directories whose node has been on the tailnet
    shown     \* the directories whose node identity peers may have seen, and that has been
              \* readable to every start since

sharedVars == <<active, writing, made, saved, joined, ident>>
formVars == <<vals, idx, formDir>>
welcomeVars == <<listed, selected, input, authKey>>
cfgVars == <<cfgDir, cfgName, cfgKey>>
bootVars == <<bringUp, events, label>>
historyVars == <<touched, member, shown>>
vars == <<sharedVars, at, env, welcomeVars, formVars, cfgVars, bootVars, historyVars>>

\* Screens with the number of their subMode; then the stages after RunWelcome.
Screen == {"menu", "list", "naming", "submenu", "bench", "deleting", "settings",
           "role", "key", "warned"}
Stage == Screen \cup {"off", "starting", "loaded", "booting", "cancelling", "dashboard"}
Deciding == {"role", "key", "warned", "starting"}
Configured == {"loaded", "booting", "cancelling", "dashboard"}

BringUp == {"none", "up", "marking", "identifying", "won", "lost", "posted"}

TypeOK ==
    /\ active \in Dir
    /\ writing \in Profile \cup {Unset}
    /\ made \subseteq Profile
    /\ saved \in [Dir -> [Typed -> Text]]
    /\ joined \subseteq Dir
    /\ ident \in [Dir -> {"none", "first", "second"}]
    /\ at \in Stage
    /\ env \in {Default, Unset}
    /\ listed \subseteq Profile
    /\ selected \in Dir
    /\ input \in Text /\ authKey \in Text
    /\ vals \in [Field -> Text]
    /\ idx \in DOMAIN FieldOrder /\ formDir \in Dir
    /\ cfgDir \in Dir /\ cfgName \in Dir /\ cfgKey \in Text
    /\ bringUp \in BringUp
    /\ events \in Seq({"line", "up", "failed"}) /\ Len(events) <= Buffer
    /\ label \in Dir
    /\ touched \in BOOLEAN /\ member \subseteq Dir /\ shown \subseteq Dir

NoVals == [f \in Field |-> Empty]
NoFiles == [f \in Typed |-> Empty]

\* What a process starts with: newWelcomeModel, and nothing of the node.
Fresh ==
    /\ listed = {} /\ selected = Default
    /\ input = Empty /\ authKey = Empty
    /\ vals = NoVals /\ idx = 1 /\ formDir = Default
    /\ cfgDir = Default /\ cfgName = Default /\ cfgKey = Empty
    /\ bringUp = "none" /\ events = <<>> /\ label = Default

Init ==
    /\ active = Default /\ writing = Unset /\ made = {}
    /\ saved = [d \in Dir |-> NoFiles]
    /\ joined = {} /\ ident = [d \in Dir |-> "none"]
    /\ at = "off" /\ env = Unset /\ Fresh
    /\ touched = FALSE /\ member = {} /\ shown = {}

\* A process image is replaced, or gone: only files stay.
Reset ==
    /\ env' = Unset
    /\ listed' = {} /\ selected' = Default
    /\ input' = Empty /\ authKey' = Empty
    /\ vals' = NoVals /\ idx' = 1 /\ formDir' = Default
    /\ cfgDir' = Default /\ cfgName' = Default /\ cfgKey' = Empty
    /\ bringUp' = "none" /\ events' = <<>> /\ label' = Default
    /\ touched' = FALSE

Exit ==
    /\ at' = "off" /\ Reset
    /\ UNCHANGED <<sharedVars, member, shown>>

-----------------------------------------------------------------------------
(* Profiles and tokens, as files                                            *)

\* The directory a profile's name stands for: ./data if the root cannot be had.
profileDataDir(d) == {d, Default}

\* What a read may say: a file that cannot be read counts as missing.
HasJoined(d) == {FALSE, (d \in joined)}

HasTailscaleAPI(d) == {FALSE, (\A f \in Credentials : saved[d][f] # Empty)}

\* Creates the directory, then truncates and writes app.json.
UseProfile(p) ==
    /\ active' = p
    /\ made' = made \cup {p}
    /\ UNCHANGED <<writing, saved, joined, ident>>

\* An error of any of its steps.
UseFails(p) ==
    /\ active' \in {active, Default}
    /\ made' \in {made, made \cup {p}}
    /\ UNCHANGED <<writing, saved, joined, ident>>

\* app.json still names the profile if it can be neither read nor written.
DeleteProfile(p) ==
    /\ made' = made \ {p}
    /\ saved' = [saved EXCEPT ![p] = NoFiles]
    /\ joined' = joined \ {p}
    /\ ident' = [ident EXCEPT ![p] = "none"]
    /\ active' \in IF active = p THEN {Default, p} ELSE {active}
    /\ member' = member \ {p} /\ shown' = shown \ {p}
    /\ UNCHANGED <<writing, touched>>

\* The files that RemoveAll comes to before the one that it cannot remove.
DeleteFails(p) ==
    /\ \E F \in SUBSET Typed :
        saved' = [saved EXCEPT ![p] = [f \in Typed |-> IF f \in F THEN Empty ELSE @[f]]]
    /\ joined' \in {joined, joined \ {p}}
    /\ ident' \in {ident, [ident EXCEPT ![p] = "none"]}
    /\ shown' = shown \ {p}
    /\ UNCHANGED <<active, writing, made, touched, member>>

\* `edgegrid profile use`, or the dashboard of another process.
OtherTruncates(p) ==
    /\ writing = Unset
    /\ writing' = p /\ active' = Default /\ made' = made \cup {p}
    /\ touched' = (touched \/ at \in Deciding)
    /\ UNCHANGED <<saved, joined, ident, at, env, welcomeVars, formVars, cfgVars,
                   bootVars, member, shown>>

\* Written over what this process has put there meanwhile, it may be no JSON.
OtherWrites ==
    /\ writing # Unset
    /\ active' \in {writing} \cup (IF active = Default THEN {} ELSE {Default})
    /\ writing' = Unset
    /\ touched' = (touched \/ at \in Deciding)
    /\ UNCHANGED <<made, saved, joined, ident, at, env, welcomeVars, formVars, cfgVars,
                   bootVars, member, shown>>

-----------------------------------------------------------------------------
(* The welcome screen                                                       *)

Go(from, to) == at = from /\ at' = to

Launch ==
    /\ Go("off", "menu") /\ Reset
    /\ UNCHANGED <<sharedVars, member, shown>>

\* q and ctrl+c, and the log tail, which ends the process too.
QuitWelcome == at \in Screen /\ Exit

\* Every esc, "no" and "back", and the diagnostics.
Leads == {<<"list", "menu">>, <<"naming", "list">>, <<"submenu", "list">>,
          <<"menu", "bench">>, <<"bench", "menu">>, <<"deleting", "list">>,
          <<"role", "submenu">>, <<"key", "role">>, <<"warned", "role">>}

Leave ==
    /\ \E l \in Leads : Go(l[1], l[2])
    /\ touched' = (touched /\ at' \in Deciding)
    /\ UNCHANGED <<sharedVars, env, welcomeVars, formVars, cfgVars, bootVars, member, shown>>

\* A list that cannot be read is empty.
ChooseProfile ==
    /\ Go("menu", "list")
    /\ listed' \in {made, {}}
    /\ UNCHANGED <<sharedVars, env, selected, input, authKey, formVars, cfgVars,
                   bootVars, historyVars>>

PickEntry(d) ==
    /\ d \in (listed \cap Pickable) \cup {Default}
    /\ Go("list", "submenu")
    /\ selected' = d
    /\ UNCHANGED <<sharedVars, env, listed, input, authKey, formVars, cfgVars,
                   bootVars, historyVars>>

NewName ==
    /\ Go("list", "naming")
    /\ input' = Empty
    /\ UNCHANGED <<sharedVars, env, listed, selected, authKey, formVars, cfgVars,
                   bootVars, historyVars>>

\* The new profile is the active one at once.
CreateProfile(p) ==
    /\ Go("naming", "submenu")
    /\ UseProfile(p)
    /\ selected' = p
    /\ UNCHANGED <<env, listed, input, authKey, formVars, cfgVars, bootVars, historyVars>>

CreateFails(p) ==
    /\ Go("naming", "naming")
    /\ UseFails(p)
    /\ UNCHANGED <<env, welcomeVars, formVars, cfgVars, bootVars, historyVars>>

AskDelete(p) ==
    /\ p \in listed \cap Pickable
    /\ Go("list", "deleting")
    /\ selected' = p
    /\ UNCHANGED <<sharedVars, env, listed, input, authKey, formVars, cfgVars,
                   bootVars, historyVars>>

ConfirmDelete ==
    /\ Go("deleting", "list")
    /\ DeleteProfile(selected) \/ DeleteFails(selected)
    /\ listed' \in {made', {}}
    /\ UNCHANGED <<env, selected, input, authKey, formVars, cfgVars, bootVars>>

\* Slip: "default" leaves whatever profile is active
StartAsActive ==
    /\ at = "submenu"
    /\ IF selected = Default THEN UNCHANGED sharedVars ELSE UseProfile(selected)
    /\ \E d \in profileDataDir(selected) : \E isMember \in HasJoined(d) :
        at' = IF isMember THEN "starting" ELSE "role"
    /\ touched' = (writing # Unset)
    /\ UNCHANGED <<env, listed, selected, input, authKey, formVars, cfgVars, bootVars,
                   member, shown>>

\* triggerSubmenu on its first item.  A node that is a member needs no key.
StartNode ==
    /\ at = "submenu"
    /\ IF selected = Default
       THEN env' = Default /\ UNCHANGED sharedVars
       ELSE UseProfile(selected) /\ UNCHANGED env
    /\ \E d \in profileDataDir(selected) : \E isMember \in HasJoined(d) :
        at' = IF isMember THEN "starting" ELSE "role"
    /\ touched' = (writing # Unset)
    /\ UNCHANGED <<listed, selected, input, authKey, formVars, cfgVars, bootVars,
                   member, shown>>

StartFails ==
    /\ Go("submenu", "submenu") /\ selected # Default
    /\ UseFails(selected)
    /\ UNCHANGED <<env, welcomeVars, formVars, cfgVars, bootVars, historyVars>>

NewNetwork ==
    /\ \E d \in profileDataDir(selected) : \E canMint \in HasTailscaleAPI(d) :
        Go("role", IF canMint THEN "starting" ELSE "warned")
    /\ UNCHANGED <<sharedVars, env, welcomeVars, formVars, cfgVars, bootVars, historyVars>>

StartAnyway ==
    /\ Go("warned", "starting")
    /\ UNCHANGED <<sharedVars, env, welcomeVars, formVars, cfgVars, bootVars, historyVars>>

\* Slip: the screen goes on with the text input as it is
JoinSameInput ==
    /\ Go("role", "key")
    /\ UNCHANGED <<sharedVars, env, welcomeVars, formVars, cfgVars, bootVars, historyVars>>

JoinNetwork ==
    /\ Go("role", "key")
    /\ input' = Empty
    /\ UNCHANGED <<sharedVars, env, listed, selected, authKey, formVars, cfgVars,
                   bootVars, historyVars>>

\* Slip: the key is kept as it is typed, also when the screen is left
KeepKey ==
    /\ Go("key", "key")
    /\ input' \in {Empty, <<selected, "key">>} /\ authKey' = input'
    /\ UNCHANGED <<sharedVars, env, listed, selected, formVars, cfgVars, bootVars,
                   historyVars>>

TypeKey ==
    /\ Go("key", "key")
    /\ input' \in {Empty, <<selected, "key">>}
    /\ UNCHANGED <<sharedVars, env, listed, selected, authKey, formVars, cfgVars,
                   bootVars, historyVars>>

EnterKey ==
    /\ Go("key", "starting")
    /\ authKey' = input
    /\ UNCHANGED <<sharedVars, env, listed, selected, input, formVars, cfgVars,
                   bootVars, historyVars>>

-----------------------------------------------------------------------------
(* The settings form                                                        *)

focused == FieldOrder[idx]

\* What the fields show when the form is opened and the files of F cannot be read; a
\* choice is always made.
Loaded(d, F) ==
    [f \in Field |-> IF f \in Choice THEN <<d, f>>
                    ELSE IF f \in F THEN Empty ELSE saved[d][f]]

OpenSettings ==
    /\ at \in {"submenu", "warned"} /\ at' = "settings"
    /\ formDir' \in profileDataDir(selected)
    /\ \E F \in SUBSET Typed : vals' = Loaded(formDir', F)
    /\ idx' = 1
    /\ input' = IF FieldOrder[1] \in Choice THEN Empty ELSE vals'[FieldOrder[1]]
    /\ touched' = FALSE
    /\ UNCHANGED <<sharedVars, env, listed, selected, authKey, cfgVars,
                   bootVars, member, shown>>

\* Slip: the text input is taken for a choice too
CommittedAny == [vals EXCEPT ![focused] = input]

\* saveSettingsField; the text input holds nothing of a choice.
Committed == IF focused \in Choice THEN vals ELSE [vals EXCEPT ![focused] = input]

Focus(i) ==
    /\ idx' = i
    /\ input' = IF FieldOrder[i] \in Choice THEN input ELSE vals'[FieldOrder[i]]

TypeSetting ==
    /\ Go("settings", "settings") /\ focused \notin Choice
    /\ input' \in {Empty, <<formDir, focused>>}
    /\ UNCHANGED <<sharedVars, env, listed, selected, authKey, formVars, cfgVars,
                   bootVars, historyVars>>

\* The arrows wrap around, enter goes on to the next field.
MoveField ==
    /\ Go("settings", "settings")
    /\ vals' = Committed
    /\ \E i \in {(idx % Len(FieldOrder)) + 1, IF idx = 1 THEN Len(FieldOrder) ELSE idx - 1} :
            Focus(i)
    /\ UNCHANGED <<sharedVars, env, listed, selected, authKey, formDir, cfgVars,
                   bootVars, historyVars>>

\* The first n fields are written, in the order of the form, and then a file that
\* cannot be; a port that is no port stops it at 0.
Persisted(n, torn) ==
    [f \in Typed |->
        IF \E i \in 1 .. n : FieldOrder[i] = f THEN vals'[f]
        ELSE IF torn /\ FieldOrder[n + 1] = f THEN Empty ELSE saved[formDir][f]]

\* ctrl+s, and enter in the last field.
SaveForm ==
    /\ Go("settings", "settings")
    /\ vals' = Committed
    /\ \E n \in 0 .. Len(FieldOrder), torn \in BOOLEAN :
        /\ n = Len(FieldOrder) => ~torn
        /\ saved' = [saved EXCEPT ![formDir] = Persisted(n, torn)]
    /\ UNCHANGED <<active, writing, made, joined, ident, env, welcomeVars, idx, formDir,
                   cfgVars, bootVars, historyVars>>

\* What the form held is read by nobody before it is opened again.
EscSettings ==
    /\ Go("settings", "submenu")
    /\ vals' = NoVals /\ idx' = 1 /\ formDir' = Default
    /\ UNCHANGED <<sharedVars, env, welcomeVars, cfgVars, bootVars, historyVars>>

-----------------------------------------------------------------------------
(* From the choice to a node                                                *)

\* One read of app.json, which may fail, decides the directory and its label.
ResolveDataDir ==
    \E name \in {active, Default} :
        /\ cfgDir' = IF env # Unset THEN env ELSE name
        /\ cfgName' = IF env # Unset THEN Default ELSE name
        /\ touched' = (touched \/ (env = Unset /\ name # active))

\* defaultHostname writes into the directory.  The welcome model is gone.
LoadConfig ==
    /\ Go("starting", "loaded")
    /\ ResolveDataDir
    /\ cfgKey' = authKey
    /\ made' = made \cup ({cfgDir'} \ {Default})
    /\ listed' = {} /\ input' = Empty /\ authKey' = Empty
    /\ UNCHANGED <<active, writing, saved, joined, ident, env, selected, formVars, bootVars,
                   member, shown>>

\* Slip: the marker is saved before the bring-up
MintMarked ==
    /\ Go("loaded", "booting")
    /\ bringUp' = "up" /\ joined' = joined \cup {cfgDir}
    /\ UNCHANGED <<active, writing, made, saved, ident, env, welcomeVars, formVars, cfgVars,
                   events, label, historyVars>>

\* A key for itself, if it has none, was never a member, and can have one made.
MintSelfKey ==
    /\ Go("loaded", "booting")
    /\ bringUp' = "up"
    /\ \E isMember \in HasJoined(cfgDir), canMint \in HasTailscaleAPI(cfgDir) :
        IF cfgKey = Empty /\ ~isMember /\ canMint
        THEN cfgKey' \in {<<cfgDir, "minted">>, Empty}
        ELSE UNCHANGED cfgKey
    /\ UNCHANGED <<sharedVars, env, welcomeVars, formVars, cfgDir, cfgName, events, label,
                   historyVars>>

AtBoot == at \in {"booting", "cancelling"}

BringsUp(from, to) == AtBoot /\ bringUp = from /\ bringUp' = to

\* onProgress, from any goroutine of tsnet: dropped if the channel is full.
Progress ==
    /\ AtBoot /\ bringUp # "none" /\ Len(events) < Buffer
    /\ events' = Append(events, "line")
    /\ UNCHANGED <<sharedVars, at, env, welcomeVars, formVars, cfgVars, bringUp, label,
                   historyVars>>

\* ts.Up returns; tailscale.ip is truncated, unless it cannot be opened or there is no
\* address to write.
UpSucceeds ==
    /\ BringsUp("up", "marking")
    /\ member' = member \cup {cfgDir}
    /\ joined' \in {joined, joined \ {cfgDir}}
    /\ UNCHANGED <<active, writing, made, saved, ident, at, env, welcomeVars, formVars,
                   cfgVars, events, label, touched, shown>>

UpFails ==
    /\ BringsUp("up", "lost")
    /\ UNCHANGED <<sharedVars, at, env, welcomeVars, formVars, cfgVars, events, label,
                   historyVars>>

\* A write that fails is a warning.
MarkJoined ==
    /\ BringsUp("marking", "identifying")
    /\ joined' \in {joined \cup {cfgDir}, joined}
    /\ UNCHANGED <<active, writing, made, saved, ident, at, env, welcomeVars, formVars,
                   cfgVars, events, label, historyVars>>

\* A random identity: another one than the directory had when peers saw it.
NewIdentity == IF cfgDir \in shown THEN "second" ELSE "first"

\* Slip: a directory without the marker is taken for a new node
IdentityByMarker ==
    /\ BringsUp("identifying", "won")
    /\ ident' = [ident EXCEPT ![cfgDir] = IF cfgDir \notin joined THEN NewIdentity ELSE @]
    /\ UNCHANGED <<active, writing, made, saved, joined, at, env, welcomeVars, formVars,
                   cfgVars, events, label, historyVars>>

\* node.id is created, or read, or replaced because it cannot be read: peers take the
\* node for another one.
LoadOrCreateIdentity ==
    /\ BringsUp("identifying", "won")
    /\ \/ /\ ident' = [ident EXCEPT ![cfgDir] = IF @ = "none" THEN NewIdentity ELSE @]
          /\ UNCHANGED shown
       \/ /\ ident[cfgDir] # "none"
          /\ ident' = [ident EXCEPT ![cfgDir] = "first"]
          /\ shown' = shown \ {cfgDir}
    /\ UNCHANGED <<active, writing, made, saved, joined, at, env, welcomeVars, formVars,
                   cfgVars, events, label, touched, member>>

\* A new one cannot be saved, at worst over the one that cannot be read.
IdentityFails ==
    /\ BringsUp("identifying", "lost")
    /\ ident' \in {ident, [ident EXCEPT ![cfgDir] = "none"]}
    /\ shown' = IF ident[cfgDir] = "none" THEN shown ELSE shown \ {cfgDir}
    /\ UNCHANGED <<active, writing, made, saved, joined, at, env, welcomeVars, formVars,
                   cfgVars, events, label, touched, member>>

\* Slips: the last event is dropped too if the channel is full; it goes in anyway
PostOrDrop ==
    /\ AtBoot /\ bringUp \in {"won", "lost"}
    /\ bringUp' = "posted"
    /\ events' = IF Len(events) < Buffer
                  THEN Append(events, IF bringUp = "won" THEN "up" ELSE "failed")
                  ELSE events
    /\ UNCHANGED <<sharedVars, at, env, welcomeVars, formVars, cfgVars, label, historyVars>>

PostAnyway ==
    /\ AtBoot /\ bringUp \in {"won", "lost"}
    /\ bringUp' = "posted"
    /\ events' = Append(events, IF bringUp = "won" THEN "up" ELSE "failed")
    /\ UNCHANGED <<sharedVars, at, env, welcomeVars, formVars, cfgVars, label, historyVars>>

\* The last event is sent by a send that waits for room.
PostResult ==
    /\ AtBoot /\ bringUp \in {"won", "lost"} /\ Len(events) < Buffer
    /\ bringUp' = "posted"
    /\ events' = Append(events, IF bringUp = "won" THEN "up" ELSE "failed")
    /\ UNCHANGED <<sharedVars, at, env, welcomeVars, formVars, cfgVars, label, historyVars>>

ReadLine ==
    /\ AtBoot /\ events # <<>> /\ Head(events) = "line"
    /\ events' = Tail(events)
    /\ UNCHANGED <<sharedVars, at, env, welcomeVars, formVars, cfgVars, bringUp, label,
                   historyVars>>

\* Slip: the label is read from app.json again
ReadUpActive ==
    /\ AtBoot /\ events # <<>> /\ Head(events) = "up"
    /\ at' = "dashboard"
    /\ events' = <<>> /\ label' = active
    /\ shown' = shown \cup {cfgDir}
    /\ UNCHANGED <<sharedVars, env, welcomeVars, formVars, cfgVars, bringUp, touched, member>>

\* The node starts and the dashboard opens, even if q was pressed just before.
ReadUp ==
    /\ AtBoot /\ events # <<>> /\ Head(events) = "up"
    /\ at' = "dashboard"
    /\ events' = <<>> /\ label' = cfgName
    /\ shown' = shown \cup {cfgDir}
    /\ UNCHANGED <<sharedVars, env, welcomeVars, formVars, cfgVars, bringUp, touched, member>>

ReadFailed == AtBoot /\ events # <<>> /\ Head(events) = "failed" /\ Exit

\* The program ends when its quit message comes; the goroutine goes with the process.
CancelBoot ==
    /\ Go("booting", "cancelling")
    /\ UNCHANGED <<sharedVars, env, welcomeVars, formVars, cfgVars, bootVars, historyVars>>

CancelEnds == at = "cancelling" /\ Exit

\* `/profile`: the process replaces itself by one without DATA_DIR.
SwitchProfile(p) ==
    /\ Go("dashboard", "menu") /\ Reset
    /\ UseProfile(p)
    /\ UNCHANGED <<member, shown>>

SwitchFails(p) ==
    /\ Go("dashboard", "dashboard")
    /\ UseFails(p)
    /\ UNCHANGED <<env, welcomeVars, formVars, cfgVars, bootVars, historyVars>>

\* The dashboard is left, or the process is killed, at any point.
Dies == at # "off" /\ Exit

WelcomeStep ==
    \/ Launch \/ QuitWelcome \/ Leave \/ ChooseProfile \/ NewName
    \/ \E d \in Dir : PickEntry(d)
    \/ \E p \in Pickable : CreateProfile(p) \/ CreateFails(p) \/ AskDelete(p)
    \/ ConfirmDelete \/ StartNode \/ StartFails
    \/ NewNetwork \/ StartAnyway \/ JoinNetwork \/ TypeKey \/ EnterKey

FormStep ==
    \/ OpenSettings \/ TypeSetting \/ MoveField \/ SaveForm \/ EscSettings

BootStep ==
    \/ LoadConfig \/ MintSelfKey
    \/ Progress \/ UpSucceeds \/ UpFails \/ MarkJoined \/ LoadOrCreateIdentity
    \/ IdentityFails \/ PostResult
    \/ ReadLine \/ ReadUp \/ ReadFailed \/ CancelBoot \/ CancelEnds

Next ==
    \/ WelcomeStep \/ FormStep \/ BootStep
    \/ \E p \in Pickable : SwitchProfile(p) \/ SwitchFails(p)
    \/ \E p \in Profile : OtherTruncates(p)
    \/ OtherWrites \/ Dies

Spec == Init /\ [][Next]_vars

\* A sender that waits is served before the channel has room for anybody else.
FairSpec ==
    Spec /\ SF_vars(PostResult) /\ WF_vars(ReadLine \/ ReadUp \/ ReadFailed)
         /\ WF_vars(CancelEnds)

-----------------------------------------------------------------------------
(* Properties                                                               *)

\* Picking a profile did not settle what comes up: another process has switched
\* profiles since, app.json could not be read, or "default" had been picked before.
Overruled == selected # Default /\ (touched \/ env # Unset)

\* A node comes up in the directory of the profile that was picked, provided that no
\* other process has switched profiles since, that app.json can be read, and that
\* "default" was not picked before.  Default itself needs none of this.
BootsPicked == at \in Configured /\ ~Overruled => cfgDir = selected

\* What the comment on WelcomeAction says: the choice decides the directory.
ChoiceDecides == at \in Configured /\ ~touched => cfgDir = selected

\* The profile shown is the one the node runs in, whatever others switch meanwhile.
LabelIsDir == at = "dashboard" => label = cfgDir

\* tsnet is given an auth key, none of the other texts typed into the same input, and
\* one for the directory that comes up: typed for it, or minted by its credentials.  A
\* key typed for a profile that was overruled goes to what comes up instead.
KeyIsRight ==
    /\ at = "key" => input \in {Empty, <<selected, "key">>}
    /\ at = "starting" => authKey \in {Empty, <<selected, "key">>}
    /\ at \in Configured =>
        \/ cfgKey \in {Empty, <<cfgDir, "key">>, <<cfgDir, "minted">>}
        \/ Overruled /\ cfgKey = <<selected, "key">>

\* A settings file holds what was typed into its own field, for its own directory.
FilesHoldTheirOwn ==
    /\ \A d \in Dir, f \in Typed : saved[d][f] \in {Empty, <<d, f>>}
    /\ \A f \in Field : vals[f] \in {Empty, <<formDir, f>>}

\* What a directory says of its node is true, wherever a process dies: it counts as
\* joined only if its node has been on the tailnet, and it keeps the identity that
\* peers have seen for as long as that can be read.
NodeFilesAreTrue ==
    /\ joined \subseteq member
    /\ \A d \in shown : ident[d] = "first"

\* The result of a bring-up ends the boot screen, however many lines are in its way.
ResultIsSeen == bringUp \in {"won", "lost"} ~> ~AtBoot

-----------------------------------------------------------------------------
(* The inductive invariant behind them                                      *)

\* From the pick to LoadConfig, app.json or the environment says what was picked.
PickHolds ==
    at \in Deciding =>
        /\ selected = Default => env = Default
        /\ ~touched /\ env = Unset => active = selected

\* The form and the key are empty while nobody fills them in, and the text input
\* belongs to the field in focus.
InputHolds ==
    /\ at # "starting" => authKey = Empty
    /\ at # "settings" => vals = NoVals
    /\ at = "settings" /\ focused \notin Choice => input \in {Empty, <<formDir, focused>>}

\* What the goroutine of RunBoot has done so far is on disk, and it runs at boot only.
BootHolds ==
    /\ cfgName = cfgDir
    /\ at \notin {"booting", "cancelling", "dashboard"} => bringUp = "none" /\ events = <<>>
    /\ bringUp \in {"marking", "identifying"} => cfgDir \in member
    /\ bringUp = "won" => ident[cfgDir] = "first"
    /\ \A i \in DOMAIN events :
        events[i] = "up" => bringUp = "posted" /\ ident[cfgDir] = "first"
    /\ \A d \in Dir : ident[d] # "second"

IInv ==
    /\ TypeOK
    /\ PickHolds /\ BootsPicked
    /\ InputHolds /\ KeyIsRight /\ FilesHoldTheirOwn
    /\ BootHolds /\ LabelIsDir /\ NodeFilesAreTrue
=============================================================================
