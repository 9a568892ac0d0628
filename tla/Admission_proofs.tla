---------------------------- MODULE Admission_proofs ----------------------------
(* The checks of the access lists, for any peers, connections and setters. *)
EXTENDS Admission, TLAPS

LEMMA InvInit == Init => IInv
<1> SUFFICES ASSUME Init PROVE IInv
    OBVIOUS
<1>1. TypeOK
      BY DEF Init, TypeOK, Stage, Content
<1> QED BY <1>1 DEF Init, IInv, FallbackIsDefault, OnRecord, SetterSound

LEMMA EntryOfType ==
  ASSUME NEW c \in Conn, intent[c] \in Kind
  PROVE  EntryOf(c) \in Entry
  BY AdmissionAssumption DEF EntryOf, Entry

\* A step of a connection alone.
LEMMA ConnStep ==
  ASSUME IInv, NEW c \in Conn, TypeOK', FallbackIsDefault',
         UNCHANGED <<fileVars, set, tellVars>>
  PROVE  IInv'
  BY DEF IInv, OnRecord, SetterSound, Busy, fileVars, tellVars

LEMMA ListenStep ==
  ASSUME IInv,
         \/ \E c \in Conn : \/ Connect(c) \/ Accept(c) \/ GreetFails(c) \/ ReadRequest(c)
                            \/ ReadEnds(c) \/ Finish(c) \/ LookUp(c) \/ LookUpFails(c)
                            \/ \E i \in Intents[c] : Greet(c, i)
         \/ AcceptFails \/ CloseListener \/ ServeReturns
  PROVE  IInv'
<1>1. UNCHANGED <<default, fileVars, set, tellVars>>
      BY DEF Connect, Accept, GreetFails, ReadRequest, ReadEnds, Finish, LookUp, LookUpFails,
             Decide, Greet, AcceptFails, CloseListener, ServeReturns
<1>2. TypeOK' /\ FallbackIsDefault'
  <2>1. CASE AcceptFails \/ CloseListener \/ ServeReturns
        BY <1>1, <2>1 DEF IInv, TypeOK, FallbackIsDefault, AcceptFails, CloseListener,
                     ServeReturns, Stage, connVars, checkVars, fileVars, tellVars
  <2>2. ASSUME NEW c \in Conn, Connect(c) \/ Accept(c) \/ GreetFails(c) \/ ReadRequest(c)
        PROVE  TypeOK' /\ FallbackIsDefault'
        BY <1>1, <2>2 DEF IInv, TypeOK, FallbackIsDefault, Connect, Accept, GreetFails,
                     ReadRequest, Go, Stage, listenVars, checkVars, fileVars, tellVars
  <2>3. ASSUME NEW c \in Conn, ReadEnds(c) \/ Finish(c)
        PROVE  TypeOK' /\ FallbackIsDefault'
        BY <1>1, <2>3 DEF IInv, TypeOK, FallbackIsDefault, ReadEnds, Finish, Go, Stage,
                     listenVars, checkVars, fileVars, tellVars
  <2>4. ASSUME NEW c \in Conn, NEW i \in Intents[c], Greet(c, i)
        PROVE  TypeOK' /\ FallbackIsDefault'
    <3>1. i \in Intent
          BY DEF Intent
    <3> QED BY <1>1, <2>4, <3>1 DEF IInv, TypeOK, FallbackIsDefault, Greet, Go, Stage,
                     listenVars, checkVars, fileVars, tellVars
  <2>5. ASSUME NEW c \in Conn, LookUp(c) \/ LookUpFails(c)
        PROVE  TypeOK' /\ FallbackIsDefault'
    <3>1. PICK v \in {"accept", "refuse", "failed"} : Decide(c, v)
          BY <2>5 DEF LookUp, LookUpFails
    <3> QED BY <1>1, <3>1 DEF IInv, TypeOK, FallbackIsDefault, Decide, Go, Stage,
                     listenVars, checkVars, fileVars, tellVars
  <2> QED BY <2>1, <2>2, <2>3, <2>4, <2>5
<1> QED BY <1>1, <1>2 DEF IInv, OnRecord, SetterSound, Busy, fileVars, tellVars

LEMMA ReadDefaultStep ==
  ASSUME IInv, NEW c \in Conn, ReadDefault(c) \/ DefaultUnread(c)
  PROVE  IInv'
<1>1. default[intent[c]] \in BOOLEAN
      BY DEF IInv, TypeOK, ReadDefault, DefaultUnread, Go
<1>2. TypeOK' /\ FallbackIsDefault'
      BY <1>1 DEF IInv, TypeOK, FallbackIsDefault, ReadDefault, DefaultUnread, Go, Stage,
             listenVars, fileVars, tellVars
<1> QED BY <1>2 DEF ReadDefault, DefaultUnread, IInv, OnRecord, SetterSound, Busy, fileVars,
          tellVars

LEMMA EditDefaultStep ==
  ASSUME IInv, NEW k \in Kind, EditDefault(k)
  PROVE  IInv'
<1>1. TypeOK' /\ FallbackIsDefault'
      BY DEF IInv, TypeOK, FallbackIsDefault, EditDefault, listenVars, connVars, checkVars,
             fileVars, tellVars
<1> QED BY <1>1 DEF EditDefault, IInv, OnRecord, SetterSound, Busy, fileVars, tellVars

LEMMA EditStep ==
  ASSUME IInv, NEW e \in Entry, NEW content \in {"none"} \cup Decision, EditByHand(e, content)
  PROVE  IInv'
<1>1. content \in Content
      BY DEF Content
<1>2. TypeOK' /\ FallbackIsDefault'
      BY <1>1 DEF IInv, TypeOK, FallbackIsDefault, EditByHand, listenVars, connVars, checkVars
<1>3. \A x \in Entry : OnRecord(x, entry[x])'
      BY DEF IInv, TypeOK, EditByHand, OnRecord
<1>4. ASSUME NEW s \in Setter PROVE SetterSound(s)'
  <2>1. set[s] # Idle => set[s].e # e
      BY DEF EditByHand, Busy
  <2> QED BY <2>1 DEF EditByHand, IInv, TypeOK, SetterSound, OnRecord, Busy
<1> QED BY <1>2, <1>3, <1>4 DEF IInv

-----------------------------------------------------------------------------

LEMMA SetShape ==
  ASSUME TypeOK, NEW s \in Setter, set[s] # Idle
  PROVE  /\ set[s] \in Set /\ set[s].e \in Entry /\ set[s].want \in Decision
         /\ set[s].at \in {"opened", "written"} /\ set[s].alone \in BOOLEAN
         /\ set[s].fd \in {"tmp", "entry", "gone"}
  BY DEF TypeOK, Set

LEMMA NotIdle == \A r \in Set : r # Idle
  BY DEF Set, Idle

LEMMA DisturbedShape ==
  ASSUME NEW r \in Set
  PROVE  /\ Disturbed(r) \in Set /\ Disturbed(r).e = r.e /\ Disturbed(r).want = r.want
         /\ Disturbed(r).at = r.at /\ Disturbed(r).fd = r.fd /\ Disturbed(r).alone = FALSE
  BY DEF Set, Disturbed

\* The setters of an entry that a step leaves alone.
LEMMA Elsewhere ==
  ASSUME IInv, NEW e \in Entry, NEW t \in Setter, set[t] # Idle, set[t].e # e,
         set'[t] = set[t],
         \A u \in Setter : set'[u] = set[u] \/ ((set[u] = Idle \/ set[u].e = e)
                                             /\ (set'[u] = Idle \/ set'[u].e = e)),
         \A x \in Entry \ {e} : /\ tmp'[x] = tmp[x] /\ told'[x] = told[x]
                                /\ mixed'[x] = mixed[x]
  PROVE  SetterSound(t)'
<1>1. set[t].e \in Entry \ {e}
      BY SetShape DEF IInv
<1>2. ASSUME NEW u \in Setter
      PROVE  u \in Busy(set[t].e)' <=> u \in Busy(set[t].e)
      BY <1>1 DEF Busy
<1>3. Busy(set[t].e)' = Busy(set[t].e)
      BY <1>2 DEF Busy
<1>4. SetterSound(t)
      BY DEF IInv
<1> QED BY <1>1, <1>3, <1>4 DEF SetterSound, OnRecord

LEMMA OpensStep ==
  ASSUME IInv, NEW s \in Setter, NEW e \in Entry, NEW want \in Decision, SetOpens(s, e, want)
  PROVE  IInv'
<1> DEFINE opened == [at |-> "opened", e |-> e, want |-> want, fd |-> "tmp",
                      alone |-> Busy(e) = {}]
<1>1. opened \in Set /\ set'[s] = opened /\ set[s] = Idle
      BY DEF SetOpens, Set
<1>2. \A t \in Setter \ {s} : t \notin Busy(e) => set'[t] = set[t]
      BY DEF SetOpens
<1>3. \A t \in Busy(e) : /\ t \in Setter /\ t # s /\ set[t] # Idle /\ set[t].e = e
                         /\ set'[t] = Disturbed(set[t])
      BY DEF SetOpens, Busy
<1>4. \A t \in Busy(e) : /\ set'[t] \in Set /\ set'[t].e = e /\ set'[t].want = set[t].want
                         /\ set'[t].at = set[t].at /\ set'[t].fd = set[t].fd
                         /\ set'[t].alone = FALSE
  <2> SUFFICES ASSUME NEW t \in Busy(e)
               PROVE  /\ set'[t] \in Set /\ set'[t].e = e /\ set'[t].want = set[t].want
                      /\ set'[t].at = set[t].at /\ set'[t].fd = set[t].fd
                      /\ set'[t].alone = FALSE
      OBVIOUS
  <2>1. set[t] \in Set
        BY <1>3, SetShape DEF IInv
  <2>2. set'[t] = Disturbed(set[t]) /\ set[t].e = e
        BY <1>3
  <2> QED BY <2>1, <2>2, DisturbedShape
<1>5. set' \in [Setter -> {Idle} \cup Set]
      BY <1>1, <1>2, <1>4 DEF SetOpens, IInv, TypeOK
<1>6. told' \in [Entry -> SUBSET ({"none"} \cup Decision)]
  <2>1. {set[t].want : t \in Busy(e)} \subseteq Decision
        BY <1>3, SetShape DEF IInv
  <2> QED BY <2>1 DEF SetOpens, IInv, TypeOK
<1>7. mixed' \in [Entry -> BOOLEAN] /\ tmp' \in [Entry -> Content]
      BY DEF SetOpens, IInv, TypeOK, Content
<1>8. TypeOK' /\ FallbackIsDefault'
      BY <1>5, <1>6, <1>7 DEF SetOpens, IInv, TypeOK, FallbackIsDefault, listenVars, connVars,
            checkVars
<1>9. \A x \in Entry : told[x] \subseteq told'[x] /\ (mixed[x] => mixed'[x])
      BY DEF SetOpens, IInv, TypeOK
<1>10. \A x \in Entry : OnRecord(x, entry[x])'
      BY <1>9 DEF SetOpens, IInv, OnRecord
<1>11. \A t \in Setter : set'[t] # Idle => \/ set[t] # Idle /\ set[t].e # e /\ set'[t] = set[t]
                                           \/ t = s \/ t \in Busy(e)
  BY <1>1, <1>2 DEF Busy
<1>12. tmp'[e] = "empty"
  BY DEF SetOpens, IInv, TypeOK
<1>13. ASSUME NEW t \in Setter, set[t] # Idle, set[t].e # e, set'[t] = set[t]
       PROVE  SetterSound(t)'
  <2>1. \A u \in Setter : set'[u] = set[u] \/ ((set[u] = Idle \/ set[u].e = e)
                                             /\ (set'[u] = Idle \/ set'[u].e = e))
    <3>1. set[s] = Idle /\ set'[s].e = e
          BY <1>1
    <3> QED BY <1>2, <1>3, <1>4, <3>1
  <2>2. \A x \in Entry \ {e} : /\ tmp'[x] = tmp[x] /\ told'[x] = told[x]
                               /\ mixed'[x] = mixed[x]
        BY DEF SetOpens, IInv, TypeOK
  <2> QED BY <1>13, <2>1, <2>2, Elsewhere
<1>14. CASE Busy(e) = {}
  <2>1. set'[s].alone = TRUE /\ set'[s].fd = "tmp" /\ set'[s].at = "opened" /\ set'[s].e = e
    <3>1. opened.alone = TRUE
          BY <1>14
    <3> QED BY <1>1, <3>1
  <2>2. \A u \in Setter : u \in Busy(e)' <=> u = s
        BY <1>1, <1>2, <1>11, <1>14, <2>1, NotIdle DEF Busy
  <2>3. Busy(e)' = {s}
        BY <2>2 DEF Busy
  <2>4. SetterSound(s)'
        BY <2>1, <2>3 DEF SetterSound
  <2>5. \A t \in Setter : set'[t] = Idle => SetterSound(t)'
        BY DEF SetterSound
  <2>6. \A t \in Setter : SetterSound(t)'
        BY <1>11, <1>13, <1>14, <2>4, <2>5
  <2> QED BY <1>8, <1>10, <2>6 DEF IInv
<1>15. CASE Busy(e) # {}
  <2>1. mixed'[e] = TRUE /\ want \in told'[e]
        BY <1>15 DEF SetOpens, IInv, TypeOK
  <2>2. \A t \in Busy(e) : set[t].want \in told'[e]
        BY <1>15 DEF SetOpens, IInv, TypeOK
  <2>3. set'[s].e = e /\ set'[s].alone = FALSE /\ set'[s].want = want
    <3>1. opened.alone = FALSE
          BY <1>15
    <3> QED BY <1>1, <3>1
  <2>4. SetterSound(s)'
        BY <1>12, <2>1, <2>3 DEF SetterSound, OnRecord
  <2>5. ASSUME NEW t \in Busy(e) PROVE SetterSound(t)'
        BY <1>4, <1>12, <2>1, <2>2 DEF SetterSound, OnRecord
  <2>6. \A t \in Setter : set'[t] = Idle => SetterSound(t)'
        BY DEF SetterSound
  <2>7. \A t \in Setter : SetterSound(t)'
        BY <1>11, <1>13, <2>4, <2>5, <2>6
  <2> QED BY <1>8, <1>10, <2>7 DEF IInv
<1> QED BY <1>14, <1>15

-----------------------------------------------------------------------------

LEMMA SetType ==
  ASSUME IInv, NEW s \in Setter, NEW r \in {Idle} \cup Set, set' = [set EXCEPT ![s] = r]
  PROVE  /\ set' \in [Setter -> {Idle} \cup Set] /\ set'[s] = r
         /\ \A t \in Setter \ {s} : set'[t] = set[t]
  BY DEF IInv, TypeOK

\* A step of one setter that leaves the others where they are, and the temporary name
\* to them in a state on record.
LEMMA OneSets ==
  ASSUME IInv, NEW s \in Setter, set[s] # Idle, NEW e \in Entry, set[s].e = e,
         NEW r \in {Idle} \cup Set, r = Idle \/ r.e = e, set' = [set EXCEPT ![s] = r],
         UNCHANGED tellVars,
         \A x \in Entry \ {e} : tmp'[x] = tmp[x],
         set[s].alone \/ tmp'[e] = "none" \/ OnRecord(e, tmp[e])',
         SetterSound(s)'
  PROVE  \A t \in Setter : SetterSound(t)'
<1> SUFFICES ASSUME NEW t \in Setter, t # s, set'[t] # Idle
             PROVE  SetterSound(t)'
    BY DEF SetterSound
<1>1. set'[t] = set[t] /\ set[t] # Idle /\ set'[s] = r
      BY SetType
<1>2. told' = told /\ mixed' = mixed
      BY DEF tellVars
<1>3. CASE set[t].e # e
  <2>1. \A u \in Setter : set'[u] = set[u] \/ ((set[u] = Idle \/ set[u].e = e)
                                             /\ (set'[u] = Idle \/ set'[u].e = e))
        BY SetType
  <2> QED BY <1>1, <1>2, <1>3, <2>1, Elsewhere
<1>4. CASE set[t].e = e
  <2>1. s \in Busy(e) /\ t \in Busy(e)
        BY <1>1, <1>4 DEF Busy
  <2>2. ~set[s].alone /\ ~set[t].alone
        BY <1>1, <1>4, <2>1 DEF IInv, SetterSound
  <2>3. tmp'[e] = "none" \/ OnRecord(e, tmp[e])'
        BY <2>2 DEF OnRecord
  <2>4. mixed[e] /\ set[t].want \in told[e]
        BY <1>1, <1>4, <2>2 DEF IInv, SetterSound
  <2>5. set'[t].e = e /\ ~set'[t].alone /\ mixed'[e] /\ set'[t].want \in told'[e]
        BY <1>1, <1>2, <1>4, <2>2, <2>4
  <2> QED BY <2>3, <2>5 DEF SetterSound
<1> QED BY <1>3, <1>4

LEMMA PutAsideShape ==
  ASSUME IInv, NEW s \in Setter, set[s] # Idle, NEW content \in Content, PutAside(s, content)
  PROVE  /\ tmp' \in [Entry -> Content]
         /\ \A x \in Entry \ {set[s].e} : tmp'[x] = tmp[x]
         /\ tmp'[set[s].e] \in {"none", tmp[set[s].e], content}
         /\ set[s].fd = "tmp" /\ set'[s] # Idle => tmp'[set[s].e] = content
  BY SetShape DEF PutAside, IInv, TypeOK, Content

LEMMA PutShape ==
  ASSUME IInv, NEW s \in Setter, set[s] # Idle, NEW content \in Content, Put(s, content),
         UNCHANGED tellVars,
         set[s].alone \/ OnRecord(set[s].e, content)
  PROVE  /\ entry' \in [Entry -> Content]
         /\ \A x \in Entry : OnRecord(x, entry[x])'
<1>1. set[s].e \in Entry /\ told' = told /\ mixed' = mixed
      BY SetShape DEF IInv, tellVars
<1>2. CASE set[s].fd = "entry"
  <2>1. OnRecord(set[s].e, content)
        BY <1>2 DEF IInv, SetterSound
  <2> QED BY <1>1, <1>2, <2>1 DEF Put, IInv, TypeOK, OnRecord
<1>3. CASE set[s].fd # "entry"
      BY <1>1, <1>3 DEF Put, IInv, TypeOK, OnRecord
<1> QED BY <1>2, <1>3

LEMMA WrittenShape ==
  ASSUME IInv, NEW s \in Setter, set[s] # Idle, set' = [set EXCEPT ![s].at = "written"]
  PROVE  LET r == [set[s] EXCEPT !.at = "written"] IN
         /\ r \in Set /\ r.e = set[s].e /\ r.want = set[s].want /\ r.fd = set[s].fd
         /\ r.alone = set[s].alone /\ r.at = "written"
         /\ set' = [set EXCEPT ![s] = r]
<1>1. set[s] \in Set
      BY SetShape DEF IInv
<1> QED BY <1>1 DEF Set

LEMMA WritesStep ==
  ASSUME IInv, NEW s \in Setter, SetWrites(s)
  PROVE  IInv'
<1> DEFINE want == set[s].want
<1> PICK e \in Entry : set[s].e = e
    BY SetShape DEF IInv, SetWrites
<1>1. /\ set[s] # Idle /\ set' = [set EXCEPT ![s].at = "written"]
      /\ Put(s, want) /\ PutAside(s, want)
      /\ UNCHANGED <<listenVars, connVars, default, tellVars>>
      BY DEF SetWrites
<1>2. PICK r \in Set : /\ r.e = e /\ r.want = want /\ r.fd = set[s].fd
                       /\ r.alone = set[s].alone /\ r.at = "written"
                       /\ set' = [set EXCEPT ![s] = r]
      BY <1>1, WrittenShape
<1>3. e \in Entry /\ want \in Decision /\ want \in Content
      BY <1>1, SetShape DEF IInv, Content
<1>4. set' \in [Setter -> {Idle} \cup Set] /\ set'[s] = r /\ r # Idle
      BY <1>2, SetType, NotIdle
<1>5. set[s].alone \/ OnRecord(e, want)
      BY <1>1 DEF IInv, SetterSound, OnRecord
<1>6. entry' \in [Entry -> Content] /\ \A x \in Entry : OnRecord(x, entry[x])'
      BY <1>1, <1>3, <1>5, PutShape
<1>7. /\ tmp' \in [Entry -> Content] /\ \A x \in Entry \ {e} : tmp'[x] = tmp[x]
      /\ tmp'[e] \in {"none", tmp[e], want}
      /\ set[s].fd = "tmp" => tmp'[e] = want
      BY <1>1, <1>3, <1>4, PutAsideShape
<1>8. TypeOK' /\ FallbackIsDefault'
      BY <1>1, <1>4, <1>6, <1>7 DEF IInv, TypeOK, FallbackIsDefault, listenVars, connVars,
            checkVars, tellVars
<1>9. told' = told /\ mixed' = mixed
      BY <1>1 DEF tellVars
<1>10. set[s].alone \/ tmp'[e] = "none" \/ OnRecord(e, tmp[e])'
      BY <1>1, <1>5, <1>7, <1>9 DEF IInv, SetterSound, OnRecord
<1>11. SetterSound(s)'
  <2>1. CASE set[s].alone
    <3>1. Busy(e) = {s} /\ set[s].fd = "tmp"
          BY <1>1, <2>1 DEF IInv, SetterSound
    <3>2. \A t \in Setter : t \in Busy(e)' <=> t \in Busy(e)
          BY <1>1, <1>2, <1>4, SetType DEF Busy
    <3>3. Busy(e)' = {s}
          BY <3>1, <3>2 DEF Busy
    <3> QED BY <1>2, <1>4, <1>7, <2>1, <3>1, <3>3 DEF SetterSound
  <2>2. CASE ~set[s].alone
    <3>1. mixed[e] /\ want \in told[e]
          BY <1>1, <2>2 DEF IInv, SetterSound
    <3> QED BY <1>2, <1>4, <1>9, <1>10, <2>2, <3>1 DEF SetterSound, OnRecord
  <2> QED BY <2>1, <2>2
<1>12. \A t \in Setter : SetterSound(t)'
      BY <1>1, <1>2, <1>7, <1>10, <1>11, OneSets
<1> QED BY <1>6, <1>8, <1>12 DEF IInv

\* A call that returns, or dies, before its rename.
LEMMA EndStep ==
  ASSUME IInv, NEW s \in Setter, set[s] # Idle, NEW content \in Content,
         content = "none" \/ set[s].alone \/ OnRecord(set[s].e, content),
         set' = [set EXCEPT ![s] = Idle], PutAside(s, content),
         entry' \in [Entry -> Content], \A x \in Entry : OnRecord(x, entry[x])',
         UNCHANGED <<listenVars, connVars, default, tellVars>>
  PROVE  IInv'
<1> PICK e \in Entry : set[s].e = e
    BY SetShape DEF IInv
<1>1. set' \in [Setter -> {Idle} \cup Set] /\ set'[s] = Idle
      BY SetType
<1>2. /\ tmp' \in [Entry -> Content] /\ \A x \in Entry \ {e} : tmp'[x] = tmp[x]
      /\ tmp'[e] \in {"none", tmp[e], content}
      BY PutAsideShape
<1>3. TypeOK' /\ FallbackIsDefault'
      BY <1>1, <1>2 DEF IInv, TypeOK, FallbackIsDefault, listenVars, connVars, checkVars,
            tellVars
<1>4. told' = told /\ mixed' = mixed
      BY DEF tellVars
<1>5. set[s].alone \/ tmp'[e] = "none" \/ OnRecord(e, tmp[e])'
  <2>1. set[s].alone \/ tmp[e] = "none" \/ OnRecord(e, tmp[e])
        BY DEF IInv, SetterSound
  <2> QED BY <1>2, <1>4, <2>1 DEF OnRecord
<1>6. SetterSound(s)'
      BY <1>1 DEF SetterSound
<1>7. \A t \in Setter : SetterSound(t)'
      BY <1>2, <1>5, <1>6, OneSets
<1> QED BY <1>3, <1>7 DEF IInv

LEMMA EndsStep ==
  ASSUME IInv, NEW s \in Setter, SetWriteFails(s) \/ SetEnds(s)
  PROVE  IInv'
<1> PICK e \in Entry : set[s].e = e
    BY SetShape DEF IInv, SetWriteFails, SetEnds
<1>1. /\ set[s] # Idle /\ set' = [set EXCEPT ![s] = Idle]
      /\ UNCHANGED <<listenVars, connVars, default, tellVars>>
      BY DEF SetWriteFails, SetEnds
<1>2. e \in Entry /\ set[s].want \in Content /\ tmp[e] \in Content
      BY <1>1, SetShape DEF IInv, TypeOK, Content
<1>3. CASE SetEnds(s)
  <2>1. PutAside(s, tmp[e]) /\ entry' = entry
        BY <1>3 DEF SetEnds
  <2>2. tmp[e] = "none" \/ set[s].alone \/ OnRecord(e, tmp[e])
        BY <1>1 DEF IInv, SetterSound, OnRecord
  <2>3. entry' \in [Entry -> Content] /\ \A x \in Entry : OnRecord(x, entry[x])'
        BY <1>1, <2>1 DEF IInv, TypeOK, OnRecord, tellVars
  <2> QED BY <1>1, <1>2, <2>1, <2>2, <2>3, EndStep
<1>4. CASE SetWriteFails(s)
  <2>1. PICK content \in {"empty", set[s].want} : Put(s, content) /\ PutAside(s, content)
        BY <1>4 DEF SetWriteFails
  <2>2. content \in Content
        BY <1>2, <2>1 DEF Content
  <2>3. set[s].alone \/ OnRecord(e, content)
        BY <1>1, <2>1 DEF IInv, SetterSound, OnRecord
  <2>4. entry' \in [Entry -> Content] /\ \A x \in Entry : OnRecord(x, entry[x])'
        BY <1>1, <2>1, <2>2, <2>3, PutShape
  <2> QED BY <1>1, <2>1, <2>2, <2>3, <2>4, EndStep
<1> QED BY <1>3, <1>4

LEMMA OvertakenShape ==
  ASSUME NEW r \in Set
  PROVE  /\ Overtaken(r) \in Set /\ Overtaken(r).e = r.e /\ Overtaken(r).want = r.want
         /\ Overtaken(r).at = r.at /\ Overtaken(r).alone = r.alone
  BY DEF Set, Overtaken

LEMMA RenamesStep ==
  ASSUME IInv, NEW s \in Setter, SetRenames(s)
  PROVE  IInv'
<1> PICK e \in Entry : set[s].e = e
    BY SetShape DEF IInv, SetRenames
<1>1. /\ set[s] # Idle /\ set[s].at = "written" /\ tmp[e] # "none"
      /\ entry' = [entry EXCEPT ![e] = tmp[e]]
      /\ tmp' = [tmp EXCEPT ![e] = "none"]
      /\ mixed' = [mixed EXCEPT ![e] = @ /\ ~set[s].alone]
      /\ told' = [told EXCEPT ![e] = IF set[s].alone THEN {set[s].want} ELSE @]
      /\ UNCHANGED <<listenVars, connVars, default>>
      BY DEF SetRenames
<1>2. /\ set[s] \in Set /\ e \in Entry /\ set[s].want \in Decision /\ tmp[e] \in Content
      /\ s \in Busy(e)
      BY <1>1, SetShape DEF IInv, TypeOK, Busy
<1>3. /\ set'[s] = Idle
      /\ \A t \in Busy(e) \ {s} : set'[t] = Overtaken(set[t])
      /\ \A t \in Setter \ Busy(e) : set'[t] = set[t]
      BY <1>2 DEF SetRenames, Busy
<1>4. \A t \in Busy(e) \ {s} : /\ t \in Setter /\ set[t] \in Set /\ set[t] # Idle /\ set[t].e = e
      BY SetShape DEF IInv, Busy
<1>5. ASSUME NEW t \in Busy(e) \ {s}
      PROVE  /\ set'[t] \in Set /\ set'[t].e = e /\ set'[t].want = set[t].want
             /\ set'[t].at = set[t].at /\ set'[t].alone = set[t].alone
  <2>1. set'[t] = Overtaken(set[t]) /\ set[t] \in Set /\ set[t].e = e
        BY <1>3, <1>4
  <2> QED BY <2>1, OvertakenShape
<1>6. set' \in [Setter -> {Idle} \cup Set]
  <2>1. \A t \in Setter : set'[t] \in {Idle} \cup Set
        BY <1>3, <1>5 DEF IInv, TypeOK
  <2>2. set' = [t \in Setter |-> set'[t]]
        BY DEF SetRenames
  <2> QED BY <2>1, <2>2
<1>7. /\ entry' \in [Entry -> Content] /\ tmp' \in [Entry -> Content]
      /\ mixed' \in [Entry -> BOOLEAN]
      /\ told' \in [Entry -> SUBSET ({"none"} \cup Decision)]
      BY <1>1, <1>2 DEF IInv, TypeOK, Content
<1>8. TypeOK' /\ FallbackIsDefault'
      BY <1>1, <1>6, <1>7 DEF IInv, TypeOK, FallbackIsDefault, listenVars, connVars, checkVars
<1>9. \A x \in Entry \ {e} : /\ tmp'[x] = tmp[x] /\ told'[x] = told[x] /\ mixed'[x] = mixed[x]
                             /\ entry'[x] = entry[x]
      BY <1>1 DEF IInv, TypeOK
<1>10. OnRecord(e, entry[e])'
  <2>1. entry'[e] = tmp[e]
        BY <1>1, <1>2 DEF IInv, TypeOK
  <2>2. CASE set[s].alone
    <3>1. tmp[e] = set[s].want
          BY <1>1, <2>2 DEF IInv, SetterSound
    <3>2. told'[e] = {set[s].want}
          BY <1>1, <1>2, <2>2 DEF IInv, TypeOK
    <3> QED BY <2>1, <3>1, <3>2 DEF OnRecord
  <2>3. CASE ~set[s].alone
    <3>1. OnRecord(e, tmp[e])
          BY <1>1, <2>3 DEF IInv, SetterSound
    <3>2. told'[e] = told[e]
          BY <1>1, <1>2, <2>3 DEF IInv, TypeOK
    <3>3. mixed[e] => mixed'[e]
          BY <1>1, <1>2, <2>3 DEF IInv, TypeOK
    <3> QED BY <2>1, <3>1, <3>2, <3>3 DEF OnRecord
  <2> QED BY <2>2, <2>3
<1>11. \A x \in Entry : OnRecord(x, entry[x])'
      BY <1>9, <1>10 DEF IInv, OnRecord
<1>12. ASSUME NEW t \in Setter \ Busy(e), set'[t] # Idle
       PROVE  SetterSound(t)'
  <2>1. set'[t] = set[t] /\ set[t] # Idle /\ set[t].e # e
        BY <1>3, <1>12 DEF Busy
  <2>2. ASSUME NEW u \in Setter
        PROVE  set'[u] = set[u] \/ ((set[u] = Idle \/ set[u].e = e)
                                    /\ (set'[u] = Idle \/ set'[u].e = e))
    <3>1. CASE u \notin Busy(e)
          BY <1>3, <3>1
    <3>2. CASE u \in Busy(e)
          BY <1>3, <1>5, <3>2 DEF Busy
    <3> QED BY <3>1, <3>2
  <2> QED BY <1>2, <1>9, <2>1, <2>2, Elsewhere
<1>13. ASSUME NEW t \in Busy(e) \ {s}
       PROVE  SetterSound(t)'
  <2>1. t \in Setter /\ set[t] # Idle /\ set[t].e = e
        BY <1>4
  <2>2. ~set[s].alone /\ ~set[t].alone
        BY <1>1, <1>2, <2>1 DEF IInv, SetterSound
  <2>3. mixed[e] /\ set[t].want \in told[e]
        BY <2>1, <2>2 DEF IInv, SetterSound
  <2>4. mixed'[e] /\ told'[e] = told[e] /\ tmp'[e] = "none"
        BY <1>1, <1>2, <2>2, <2>3 DEF IInv, TypeOK
  <2>5. set'[t].e = e /\ ~set'[t].alone /\ set'[t].want \in told'[e]
        BY <1>5, <2>2, <2>3, <2>4
  <2> QED BY <2>4, <2>5 DEF SetterSound
<1>14. \A t \in Setter : SetterSound(t)'
  <2>1. \A t \in Setter : set'[t] = Idle => SetterSound(t)'
        BY DEF SetterSound
  <2> QED BY <1>3, <1>12, <1>13, <2>1
<1> QED BY <1>8, <1>11, <1>14 DEF IInv

LEMMA InvStep == IInv /\ [Next]_vars => IInv'
<1> SUFFICES ASSUME IInv, [Next]_vars PROVE IInv'
    OBVIOUS
<1>1. CASE Listening
      BY <1>1, ListenStep DEF Listening
<1>2. ASSUME NEW c \in Conn, \/ Connect(c) \/ Handling(c) \/ ReadRequest(c) \/ ReadEnds(c)
                             \/ \E i \in Intents[c] : Greet(c, i)
      PROVE  IInv'
      BY <1>2, ListenStep, ReadDefaultStep DEF Handling
<1>3. ASSUME NEW s \in Setter, Setting(s) PROVE IInv'
      BY <1>3, OpensStep, WritesStep, EndsStep, RenamesStep DEF Setting
<1>4. ASSUME NEW e \in Entry, NEW content \in {"none"} \cup Decision, EditByHand(e, content)
      PROVE  IInv'
      BY <1>4, EditStep
<1>5. ASSUME NEW k \in Kind, EditDefault(k) PROVE IInv'
      BY <1>5, EditDefaultStep
<1>6. CASE UNCHANGED vars
  <2>1. TypeOK' /\ FallbackIsDefault'
        BY <1>6 DEF IInv, TypeOK, FallbackIsDefault, vars, listenVars, connVars, checkVars,
              fileVars, tellVars
  <2> QED BY <1>6, <2>1 DEF IInv, OnRecord, SetterSound, Busy, vars, fileVars, tellVars
<1> QED BY <1>1, <1>2, <1>3, <1>4, <1>5, <1>6 DEF Next

THEOREM Invariance == Spec => []IInv
<1> QED BY InvInit, InvStep, PTL DEF Spec

\* The types, for any connections, peers, setters, and whatever a connection may ask.
THEOREM TypeCorrect == Spec => []TypeOK
<1>1. IInv => TypeOK
      BY DEF IInv
<1> QED BY <1>1, Invariance, PTL

\* What one look-up decides, from a state of the invariant.
LEMMA LookedUp ==
  ASSUME IInv, NEW c \in Conn, stage[c] = "looking", verdict'[c] \in {"accept", "refuse"},
         verdict' = [verdict EXCEPT ![c] =
                        IF Allows(entry[EntryOf(c)], fallback[c]) THEN "accept" ELSE "refuse"]
  PROVE  \/ verdict'[c] = "accept" /\ TRUE \in InForce(c)
         \/ verdict'[c] = "refuse" /\ (FALSE \in InForce(c) \/ mixed[EntryOf(c)])
<1> DEFINE e == EntryOf(c)
<1>1. e \in Entry /\ fallback[c] = Otherwise(c)
      BY EntryOfType DEF IInv, TypeOK, FallbackIsDefault, Otherwise
<1>2. OnRecord(e, entry[e])
      BY <1>1 DEF IInv
<1>3. verdict'[c] = IF Allows(entry[e], fallback[c]) THEN "accept" ELSE "refuse"
      BY DEF IInv, TypeOK
<1>4. fallback[c] \in BOOLEAN
      BY DEF IInv, TypeOK
<1>5. CASE entry[e] \in told[e]
  <2>1. Allows(entry[e], Otherwise(c)) \in InForce(c)
        BY <1>5 DEF InForce
  <2>2. Allows(entry[e], fallback[c]) \in BOOLEAN
        BY <1>4 DEF Allows
  <2>3. Allows(entry[e], fallback[c]) \in InForce(c)
        BY <1>1, <2>1
  <2>4. CASE Allows(entry[e], fallback[c]) = TRUE
        BY <1>3, <2>3, <2>4
  <2>5. CASE Allows(entry[e], fallback[c]) = FALSE
        BY <1>3, <2>3, <2>5
  <2> QED BY <2>2, <2>4, <2>5
<1>6. CASE entry[e] = "empty" /\ mixed[e]
      BY <1>3, <1>6 DEF Allows
<1> QED BY <1>2, <1>5, <1>6 DEF OnRecord

\* Between a look-up and a change of the list, in every interleaving of their steps with
\* those of other changes, failures and crashes, and whenever the default is edited.
THEOREM VerdictCorrect == Spec => VerdictAsTold
<1> DEFINE Told == \A c \in Conn : stage[c] = "looking" /\ stage'[c] = "decided" =>
        \/ verdict'[c] = "accept" /\ TRUE \in InForce(c)
        \/ verdict'[c] = "refuse" /\ (FALSE \in InForce(c) \/ mixed[EntryOf(c)])
        \/ verdict'[c] = "failed"
<1>1. IInv /\ [Next]_vars => [Told]_vars
  <2> SUFFICES ASSUME IInv, Next, NEW c \in Conn, stage[c] = "looking", stage'[c] = "decided"
               PROVE  \/ verdict'[c] = "accept" /\ TRUE \in InForce(c)
                      \/ verdict'[c] = "refuse" /\ (FALSE \in InForce(c) \/ mixed[EntryOf(c)])
                      \/ verdict'[c] = "failed"
      OBVIOUS
  <2>1. LookUp(c) \/ LookUpFails(c)
    <3>1. stage'[c] # stage[c]
          OBVIOUS
    <3>2. CASE Listening
          BY <3>1, <3>2 DEF Listening, Accept, AcceptFails, CloseListener, ServeReturns, Go,
                            connVars, IInv, TypeOK
    <3>3. CASE \E s \in Setter : Setting(s)
          BY <3>1, <3>3 DEF Setting, SetOpens, SetWrites, SetWriteFails, SetRenames, SetEnds,
                            connVars
    <3>4. CASE \/ \E e \in Entry, content \in {"none"} \cup Decision : EditByHand(e, content)
               \/ \E k \in Kind : EditDefault(k)
          BY <3>1, <3>4 DEF EditByHand, EditDefault, connVars
    <3>5. ASSUME NEW d \in Conn, \/ Connect(d) \/ GreetFails(d) \/ ReadDefault(d) \/ Finish(d)
                                 \/ DefaultUnread(d)
                                 \/ ReadRequest(d) \/ ReadEnds(d)
                                 \/ \E i \in Intents[d] : Greet(d, i)
          PROVE  FALSE
          BY <3>5 DEF Connect, GreetFails, ReadDefault, DefaultUnread, Finish, ReadRequest,
                      ReadEnds, Greet,
                      Go, IInv, TypeOK
    <3>6. ASSUME NEW d \in Conn, LookUp(d) \/ LookUpFails(d)
          PROVE  d = c
          BY <3>6 DEF LookUp, LookUpFails, Decide, Go, IInv, TypeOK
    <3> QED BY <3>2, <3>3, <3>4, <3>5, <3>6 DEF Next, Handling
  <2>2. CASE LookUpFails(c)
        BY <2>2 DEF LookUpFails, Decide, IInv, TypeOK
  <2>3. CASE LookUp(c)
    <3>1. verdict' = [verdict EXCEPT ![c] =
                        IF Allows(entry[EntryOf(c)], fallback[c]) THEN "accept" ELSE "refuse"]
          BY <2>3 DEF LookUp, Decide
    <3>2. verdict'[c] \in {"accept", "refuse"}
          BY <3>1 DEF IInv, TypeOK
    <3> QED BY <3>1, <3>2, LookedUp
  <2> QED BY <2>1, <2>2, <2>3
<1> QED BY <1>1, Invariance, PTL DEF Spec, VerdictAsTold
=============================================================================
