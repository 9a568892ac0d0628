-------------------------------- MODULE Admission --------------------------------
(***************************************************************************)
(* How a node lets peers in: the listener and its accept loop, the hello     *)
(* exchange, the routing of a connection, and the check of the access list   *)
(* behind it, while the list is being changed                                *)
(* (internal/discovery/listener.go, hello.go; internal/node/peer.go, acl.go, *)
(* aclstore.go, task_acl.go).                                                *)
(*                                                                           *)
(* An entry of an access list is a file, abstracted to what it says: nothing *)
(* ("none": there is no file), allow, deny, or "empty" for one that has been *)
(* truncated, or cut short, before its allow line.  What happens to a        *)
(* connection after its verdict is in TaskExecution and BlobTransfer.        *)
(***************************************************************************)
EXTENDS FiniteSets

CONSTANTS
    Conn,
    Peer,
    PeerOf,   \* whom WhoIs names for a connection
    Intents,  \* what it may ask for, of "hello", "blob", "task", "result" (a bound)
    Setter    \* who sets entries: the dashboards on this data directory

ASSUME AdmissionAssumption ==
    /\ PeerOf \in [Conn -> Peer]
    /\ Intents \in [Conn -> SUBSET {"hello", "blob", "task", "result"}]

\* The intents with an access list of their own, and those with no deadline.
Intent == UNION {Intents[c] : c \in Conn}
Kind == Intent \cap {"blob", "task"}
Endless == {"task"}

Entry == Kind \X Peer
Decision == {"allow", "deny"}
Content == {"none", "empty"} \cup Decision

VARIABLES
    loop,     \* Serve: "accepting" or "returned"
    ln,       \* the listener: "open" or "closed"
    stage,    \* of each connection
    intent,   \* what its hello says
    fallback, \* the default policy as its check has read it
    verdict,
    default,  \* does the default file of a list say allow
    entry,    \* the file of each entry
    tmp,      \* and its temporary name
    set,      \* the call of set each setter is in
    adrift,   \* history: the checks whose default has changed since they read it, or could
              \* not be read
    told,     \* history: the decisions that may be on record for an entry
    mixed     \* history: calls of set have overlapped since it had only one

listenVars == <<loop, ln>>
checkVars == <<fallback, verdict, adrift>>
connVars == <<stage, intent, checkVars>>
fileVars == <<entry, tmp>>
tellVars == <<told, mixed>>
vars == <<listenVars, connVars, default, fileVars, set, tellVars>>

Stage == {"none", "backlog", "greeting", "reading", "checking", "looking", "decided",
          "closed"}
Idle == [at |-> "idle"]
Set == [at : {"opened", "written"}, e : Entry, want : Decision,
        fd : {"tmp", "entry", "gone"}, alone : BOOLEAN]

TypeOK ==
    /\ loop \in {"accepting", "returned"} /\ ln \in {"open", "closed"}
    /\ stage \in [Conn -> Stage]
    /\ intent \in [Conn -> Intent \cup {"none"}]
    /\ \A c \in Conn : stage[c] \in {"checking", "looking", "decided"} => intent[c] \in Kind
    /\ fallback \in [Conn -> BOOLEAN]
    /\ verdict \in [Conn -> {"none", "accept", "refuse", "failed"}]
    /\ default \in [Kind -> BOOLEAN] /\ adrift \subseteq Conn
    /\ entry \in [Entry -> Content] /\ tmp \in [Entry -> Content]
    /\ set \in [Setter -> {Idle} \cup Set]
    /\ told \in [Entry -> SUBSET ({"none"} \cup Decision)]
    /\ mixed \in [Entry -> BOOLEAN]

Init ==
    /\ loop = "accepting" /\ ln = "open"
    /\ stage = [c \in Conn |-> "none"]
    /\ intent = [c \in Conn |-> "none"]
    /\ fallback = [c \in Conn |-> FALSE]
    /\ verdict = [c \in Conn |-> "none"]
    /\ default \in [Kind -> BOOLEAN] /\ adrift = {}
    /\ entry = [e \in Entry |-> "none"] /\ tmp = [e \in Entry |-> "none"]
    /\ set = [s \in Setter |-> Idle]
    /\ told = [e \in Entry |-> {"none"}] /\ mixed = [e \in Entry |-> FALSE]

-----------------------------------------------------------------------------
(* The listener                                                             *)

Go(c, from, to) == stage[c] = from /\ stage' = [stage EXCEPT ![c] = to]

Connect(c) ==
    /\ ln = "open" /\ Go(c, "none", "backlog")
    /\ UNCHANGED <<listenVars, intent, checkVars, default, fileVars, set, tellVars>>

\* Slip: the connection is handled before the next one is accepted
AcceptInTurn(c) ==
    /\ loop = "accepting" /\ ln = "open" /\ Go(c, "backlog", "greeting")
    /\ \A d \in Conn : stage[d] \in {"none", "backlog", "closed"}
    /\ UNCHANGED <<listenVars, intent, checkVars, default, fileVars, set, tellVars>>

\* Every connection has a goroutine of its own.
Accept(c) ==
    /\ loop = "accepting" /\ ln = "open" /\ Go(c, "backlog", "greeting")
    /\ UNCHANGED <<listenVars, intent, checkVars, default, fileVars, set, tellVars>>

\* Any other error than that of a closed listener, which then stays open.
AcceptFails ==
    /\ loop = "accepting" /\ ln = "open" /\ loop' = "returned"
    /\ UNCHANGED <<ln, connVars, default, fileVars, set, tellVars>>

\* By the cancelled context, or by Close; what has not been accepted is refused.
CloseListener ==
    /\ ln = "open" /\ ln' = "closed"
    /\ stage' = [c \in Conn |-> IF stage[c] = "backlog" THEN "closed" ELSE stage[c]]
    /\ UNCHANGED <<loop, intent, checkVars, default, fileVars, set, tellVars>>

ServeReturns ==
    /\ loop = "accepting" /\ ln = "closed" /\ loop' = "returned"
    /\ UNCHANGED <<ln, connVars, default, fileVars, set, tellVars>>

-----------------------------------------------------------------------------
(* One connection                                                           *)

\* WhoIs, the two hellos within their deadline, and handlePeer, which has nothing to
\* do for a mere hello.
Greet(c, i) ==
    /\ Go(c, "greeting", IF i = "hello" THEN "closed" ELSE "reading")
    /\ intent' = [intent EXCEPT ![c] = IF i = "hello" THEN "none" ELSE i]
    /\ UNCHANGED <<listenVars, checkVars, default, fileVars, set, tellVars>>

GreetFails(c) ==
    /\ Go(c, "greeting", "closed")
    /\ UNCHANGED <<listenVars, intent, checkVars, default, fileVars, set, tellVars>>

\* Slip: a request for a result goes the same way
ReadAny(c) ==
    /\ Go(c, "reading", "checking")
    /\ UNCHANGED <<listenVars, intent, checkVars, default, fileVars, set, tellVars>>

\* The manifest or the task.
ReadRequest(c) ==
    /\ Go(c, "reading", "checking") /\ intent[c] \in Kind
    /\ UNCHANGED <<listenVars, intent, checkVars, default, fileVars, set, tellVars>>

\* Or it does not come; a request for a result is answered without a check.
ReadEnds(c) ==
    /\ Go(c, "reading", "closed")
    /\ intent' = [intent EXCEPT ![c] = "none"]
    /\ UNCHANGED <<listenVars, checkVars, default, fileVars, set, tellVars>>

EntryOf(c) == <<intent[c], PeerOf[c]>>

\* defaultAllows
ReadDefault(c) ==
    /\ Go(c, "checking", "looking")
    /\ fallback' = [fallback EXCEPT ![c] = default[intent[c]]]
    /\ UNCHANGED <<listenVars, intent, verdict, adrift, default, fileVars, set, tellVars>>

\* A default file that cannot be read denies.
DefaultUnread(c) ==
    /\ Go(c, "checking", "looking")
    /\ fallback' = [fallback EXCEPT ![c] = FALSE] /\ adrift' = adrift \cup {c}
    /\ UNCHANGED <<listenVars, intent, verdict, default, fileVars, set, tellVars>>

Allows(content, otherwise) ==
    IF content = "none" THEN otherwise ELSE content = "allow"

Decide(c, v) ==
    /\ Go(c, "looking", "decided")
    /\ verdict' = [verdict EXCEPT ![c] = v] /\ fallback' = [fallback EXCEPT ![c] = FALSE]
    /\ adrift' = adrift \ {c}
    /\ UNCHANGED <<listenVars, intent, default, fileVars, set, tellVars>>

\* lookup.  A file that is replaced after it was opened is read as it was.
LookUp(c) ==
    /\ stage[c] = "looking"
    /\ Decide(c, IF Allows(entry[EntryOf(c)], fallback[c]) THEN "accept" ELSE "refuse")

\* Slip: an entry that cannot be read is no entry
FallBack(c) ==
    /\ stage[c] = "looking" /\ entry[EntryOf(c)] # "none"
    /\ Decide(c, IF fallback[c] THEN "accept" ELSE "failed")

LookUpFails(c) ==
    /\ stage[c] = "looking" /\ entry[EntryOf(c)] # "none"
    /\ Decide(c, "failed")

\* The verdict is written; both exchanges end in bounded time whatever it says.
Finish(c) ==
    /\ Go(c, "decided", "closed")
    /\ intent' = [intent EXCEPT ![c] = "none"] /\ verdict' = [verdict EXCEPT ![c] = "none"]
    /\ UNCHANGED <<listenVars, fallback, adrift, default, fileVars, set, tellVars>>

-----------------------------------------------------------------------------
(* Changing a list                                                          *)

Busy(e) == {s \in Setter : set[s] # Idle /\ set[s].e = e}

\* The same call, now that another one has been made, or has taken the temporary name.
Disturbed(r) == [r EXCEPT !.alone = FALSE]
Overtaken(r) == [r EXCEPT !.fd = IF @ = "tmp" THEN "entry" ELSE "gone"]

\* Slip: the entry is written in place
SetInPlace(s, e, want) ==
    /\ set[s] = Idle
    /\ entry' = [entry EXCEPT ![e] = "empty"]
    /\ set' = [set EXCEPT ![s] = [at |-> "opened", e |-> e, want |-> want, fd |-> "entry",
                                  alone |-> Busy(e) = {}]]
    /\ UNCHANGED <<listenVars, connVars, default, tmp, tellVars>>

\* os.WriteFile opens the temporary name and truncates it.
SetOpens(s, e, want) ==
    /\ set[s] = Idle
    /\ tmp' = [tmp EXCEPT ![e] = "empty"]
    /\ set' = [t \in Setter |->
                IF t = s
                THEN [at |-> "opened", e |-> e, want |-> want, fd |-> "tmp",
                      alone |-> Busy(e) = {}]
                ELSE IF t \in Busy(e) THEN Disturbed(set[t]) ELSE set[t]]
    /\ mixed' = [mixed EXCEPT ![e] = @ \/ Busy(e) # {}]
    /\ told' = [told EXCEPT ![e] =
                    IF Busy(e) = {} THEN @ ELSE @ \cup {want} \cup {set[t].want : t \in Busy(e)}]
    /\ UNCHANGED <<listenVars, connVars, default, entry>>

\* The file that was opened may have been given the name of the entry since.
Put(s, content) ==
    entry' = IF set[s].fd = "entry" THEN [entry EXCEPT ![set[s].e] = content] ELSE entry

\* What the last one leaves behind is truncated before anybody reads it.
PutAside(s, content) ==
    tmp' = IF Busy(set[s].e) = {s} /\ set'[s] = Idle THEN [tmp EXCEPT ![set[s].e] = "none"]
           ELSE IF set[s].fd = "tmp" THEN [tmp EXCEPT ![set[s].e] = content] ELSE tmp

SetWrites(s) ==
    /\ set[s] # Idle /\ set[s].at = "opened"
    /\ set' = [set EXCEPT ![s].at = "written"]
    /\ Put(s, set[s].want) /\ PutAside(s, set[s].want)
    /\ UNCHANGED <<listenVars, connVars, default, tellVars>>

\* Cut short, perhaps after the allow line.
SetWriteFails(s) ==
    /\ set[s] # Idle /\ set[s].at = "opened"
    /\ set' = [set EXCEPT ![s] = Idle]
    /\ \E content \in {"empty", set[s].want} : Put(s, content) /\ PutAside(s, content)
    /\ UNCHANGED <<listenVars, connVars, default, tellVars>>

\* The others that have opened the temporary name now hold the entry.
SetRenames(s) ==
    /\ set[s] # Idle /\ set[s].at = "written" /\ tmp[set[s].e] # "none"
    /\ LET e == set[s].e IN
        /\ entry' = [entry EXCEPT ![e] = tmp[e]]
        /\ tmp' = [tmp EXCEPT ![e] = "none"]
        /\ set' = [t \in Setter |->
                    IF t = s THEN Idle
                    ELSE IF t \in Busy(e) THEN Overtaken(set[t]) ELSE set[t]]
        /\ mixed' = [mixed EXCEPT ![e] = @ /\ ~set[s].alone]
        /\ told' = [told EXCEPT ![e] = IF set[s].alone THEN {set[s].want} ELSE @]
    /\ UNCHANGED <<listenVars, connVars, default>>

\* The rename fails, as it does once another setter has taken the name, or the
\* process is killed.
SetEnds(s) ==
    /\ set[s] # Idle
    /\ set' = [set EXCEPT ![s] = Idle]
    /\ PutAside(s, tmp[set[s].e])
    /\ UNCHANGED <<listenVars, connVars, default, entry, tellVars>>

\* The owner adds, edits or removes an entry, by an editor that replaces the file.
EditByHand(e, content) ==
    /\ Busy(e) = {}
    /\ entry' = [entry EXCEPT ![e] = content]
    /\ told' = [told EXCEPT ![e] = {content}] /\ mixed' = [mixed EXCEPT ![e] = FALSE]
    /\ UNCHANGED <<listenVars, connVars, default, tmp, set>>

\* And the default, which a check may have read already.
EditDefault(k) ==
    /\ default' = [default EXCEPT ![k] = ~@]
    /\ adrift' = adrift \cup {c \in Conn : stage[c] = "looking" /\ intent[c] = k}
    /\ UNCHANGED <<listenVars, stage, intent, fallback, verdict, fileVars, set, tellVars>>

Handling(c) ==
    \/ GreetFails(c) \/ ReadDefault(c) \/ DefaultUnread(c)
    \/ LookUp(c) \/ LookUpFails(c) \/ Finish(c)
    \/ intent[c] \notin Endless /\ ReadEnds(c)

Listening ==
    \/ \E c \in Conn : Accept(c)
    \/ AcceptFails \/ CloseListener \/ ServeReturns

Setting(s) ==
    \/ \E e \in Entry, want \in Decision : SetOpens(s, e, want)
    \/ SetWrites(s) \/ SetWriteFails(s) \/ SetRenames(s) \/ SetEnds(s)

Next ==
    \/ Listening
    \/ \E c \in Conn : \/ Connect(c) \/ Handling(c) \/ ReadRequest(c) \/ ReadEnds(c)
                       \/ \E i \in Intents[c] : Greet(c, i)
    \/ \E s \in Setter : Setting(s)
    \/ \E e \in Entry, content \in {"none"} \cup Decision : EditByHand(e, content)
    \/ \E k \in Kind : EditDefault(k)

Spec == Init /\ [][Next]_vars

\* What a peer sends is not fair, what happens without it is.
FairSpec ==
    /\ Spec
    /\ WF_vars(ServeReturns)
    /\ \A c \in Conn : WF_vars(Accept(c)) /\ WF_vars(Handling(c))

-----------------------------------------------------------------------------
(* Properties                                                               *)

\* The default a check goes by: the one in force, or, if that has changed under it or
\* could not be read, what it has got.
Otherwise(c) == IF c \in adrift THEN fallback[c] ELSE default[intent[c]]

\* What the decisions on record say, with the default where there is none.
InForce(c) == {Allows(v, Otherwise(c)) : v \in told[EntryOf(c)]}

\* A check says what is on record, however it falls among the steps of a change, of
\* failed changes, and of crashes.  It may refuse without that when it cannot read
\* the entry, or when calls of set overlapped; it never accepts.  A default that is
\* edited between its two reads counts as it was read.
VerdictAsTold ==
    [][\A c \in Conn : stage[c] = "looking" /\ stage'[c] = "decided" =>
        \/ verdict'[c] = "accept" /\ TRUE \in InForce(c)
        \/ verdict'[c] = "refuse" /\ (FALSE \in InForce(c) \/ mixed[EntryOf(c)])
        \/ verdict'[c] = "failed"]_vars

\* Every connection is taken and closed again while Serve runs, whatever its peer and
\* the peers of the others do, but one that promises a task and does not send it.
ConnsClose ==
    \A c \in Conn :
        stage[c] = "backlog" ~> \/ stage[c] = "closed" \/ loop = "returned"
                                \/ stage[c] = "reading" /\ intent[c] \in Endless

-----------------------------------------------------------------------------
(* The inductive invariant behind VerdictAsTold                             *)

FallbackIsDefault ==
    \A c \in Conn :
        stage[c] = "looking" /\ c \notin adrift => fallback[c] = default[intent[c]]

OnRecord(e, content) == content \in told[e] \/ (content = "empty" /\ mixed[e])

\* A setter that is alone has the temporary name, and what it wrote there, to itself;
\* the decisions of the others are all on record.
SetterSound(s) ==
    set[s] # Idle =>
        IF set[s].alone
        THEN /\ Busy(set[s].e) = {s} /\ set[s].fd = "tmp"
             /\ set[s].at = "written" => tmp[set[s].e] = set[s].want
        ELSE /\ mixed[set[s].e] /\ set[s].want \in told[set[s].e]
             /\ tmp[set[s].e] = "none" \/ OnRecord(set[s].e, tmp[set[s].e])

IInv ==
    /\ TypeOK
    /\ FallbackIsDefault
    /\ \A e \in Entry : OnRecord(e, entry[e])
    /\ \A s \in Setter : SetterSound(s)
=============================================================================
