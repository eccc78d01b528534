---------------------------- MODULE ListsProofs -----------------------------
(***************************************************************************)
(* Proofs about what the lists of posts show: every post of the server     *)
(* once it is settled, and no post twice, over lost connections, restarts  *)
(* and refused writes.                                                     *)
(***************************************************************************)
EXTENDS PostsProofs

-----------------------------------------------------------------------------
(* The invariant.                                                          *)
IsList(l) == l.kind \in Lists

SharedIds == {p \in Ids : author[p] # Nil}
SharedKeys == UNION {Place(p) : p \in SharedIds}

\* only the share of a post writes its body
Bodies == {Body(p) : p \in Ids}

\* a list has one callback, for the whole location, and nothing is shown or
\* open on a device that registered none
Single(d) ==
    /\ \A l \in listeners[d] : IsList(l) => l.at = Root
    /\ \A l, m \in listeners[d] : IsList(l) /\ m.kind = l.kind => l = m
    /\ post[d] # Nil => listeners[d] # {}
    /\ \A k \in Lists : listed[d][k] # {} \/ InRows(d, k) # {} => listeners[d] # {}

\* a list that has nothing coming was told of the posts in view
Follows(d) == \A l \in listeners[d] :
    IsList(l) /\ EventsFor(mainQ[d], l) = {} => listed[d][l.kind] = Posted(View(d))

\* all it is told of was shared
OfShared(d) ==
    /\ \A k \in Lists : listed[d][k] \subseteq SharedIds
    /\ \A i \in 1..Len(mainQ[d]) : Filled(mainQ[d][i].snap) \subseteq SharedKeys

\* and has a row if it belongs to the list
Inserted(d) == \A k \in Lists : \A p \in listed[d][k] : Belongs(d, k, p) => rows[d][k][p] > 0

ListsAt(d) ==
    /\ Wired(d) /\ Current(d) /\ AllFill(d) /\ Grows(d, Bodies)
    /\ Single(d) /\ Follows(d) /\ OfShared(d) /\ Inserted(d)

ListsInv ==
    /\ InSync /\ ListensFirst /\ Once(Bodies) /\ Filled(server) \subseteq SharedKeys
    /\ \A d \in Devices : ListsAt(d)

-----------------------------------------------------------------------------
(* Steps, as the lists of a device e see them; M: the callbacks done at e. *)
Quiet(e, M) ==
    /\ listed'[e] = listed[e] /\ rows'[e] = rows[e]
    /\ \A l \in M : ~IsList(l)
    /\ Ended(e) => listeners[e] = {}

Given(e, l) ==
    LET snap == Head(mainQ[e]).snap
    IN  /\ IsList(l)
        /\ \A p \in Added(e, l.kind, snap) : Whole(snap, p)
        /\ listed'[e] = [listed[e] EXCEPT ![l.kind] = Posted(snap)]
        /\ rows'[e] = [rows[e] EXCEPT ![l.kind] = [p \in Ids |-> rows[e][l.kind][p]
               + (IF p \in Added(e, l.kind, snap) /\ Belongs(e, l.kind, p) THEN 1 ELSE 0)]]

Called(e, M) ==
    /\ mainQ[e] # << >> /\ listeners'[e] = listeners[e]
    /\ \E l \in Head(mainQ[e]).to : M = {l} /\ Given(e, l)

Closed(e) ==
    Ended(e) /\ listed'[e] = [k \in Lists |-> {}] /\ rows'[e] = NoRows /\ post'[e] = Nil

Registers(e) ==
    /\ \A l \in listeners'[e] \ listeners[e] : IsList(l) => l.at = Root /\ ~Registered(e, l.kind)
    /\ \A l, m \in listeners'[e] \ listeners[e] : l = m
    /\ post'[e] # Nil => listeners'[e] # {}

Local(e, M) == Registers(e) /\ (Quiet(e, M) \/ Called(e, M) \/ Closed(e))

\* what the step of device d does to the recorded writes
Recorded(d) ==
    /\ \A e \in Devices : e # d => pend'[e] = pend[e]
    /\ \/ author' = author /\ pend'[d] \in {pend[d], << >>}
       \/ author' = author /\ pend[d] # << >> /\ pend'[d] = Tail(pend[d])
       \/ \E p \in Ids, t \in Texts : /\ author[p] = Nil /\ author' = [author EXCEPT ![p] = uid[d]]
                                      /\ pend'[d] = Append(pend[d], Made(p, t))
       \/ \E p \in Ids, t \in Texts \cup {"made"} :
              author' = author /\ pend'[d] = Append(pend[d], Edit(p, t))

AllOk(box) == \A i \in Answers(box) : box[i].ok

KeepsOk == \A e \in Devices : AllOk(inbox[e]) => AllOk(inbox'[e])

ListStep(d, M) ==
    /\ DBStep(d, M) /\ \A e \in Devices : Local(e, IF e = d THEN M ELSE {})
    /\ Recorded(d)
    /\ Refuse(d) \/ KeepsOk

Ready == TypeOK /\ \A d \in Devices : Wired(d) /\ Single(d)

\* a callback is registered
LEMMA Opens ==
    ASSUME NEW e \in Devices, NEW l, listeners'[e] = listeners[e] \cup {l},
           IsList(l) => l.at = Root /\ ~Registered(e, l.kind),
           listed'[e] = listed[e], rows'[e] = rows[e]
    PROVE  Local(e, {})
<1>1. ~Ended(e) /\ listeners'[e] # {}
  BY DEF Ended
<1>2. \A m \in listeners'[e] \ listeners[e] : m = l
  OBVIOUS
<1> QED BY <1>1, <1>2 DEF Local, Registers, Quiet

\* a device whose lists a step does not concern
LEMMA Untouched ==
    ASSUME NEW e \in Devices, NEW M, Single(e), listed'[e] = listed[e], rows'[e] = rows[e],
           post'[e] \in {post[e], Nil}, listeners'[e] = listeners[e], \A l \in M : ~IsList(l)
    PROVE  Local(e, M)
  BY DEF Local, Registers, Quiet, Ended, Single

LEMMA OthersUntouched ==
    ASSUME Ready, NEW d \in Devices, NEW M, Local(d, M),
           \A e \in Devices : e # d => /\ listed'[e] = listed[e] /\ rows'[e] = rows[e]
                                       /\ post'[e] = post[e] /\ listeners'[e] = listeners[e]
    PROVE  \A e \in Devices : Local(e, IF e = d THEN M ELSE {})
  BY Untouched DEF Ready

LEMMA ListenersListen ==
    ASSUME Ready, NEW d \in Devices, listeners[d] # {} PROVE sub[d] # "off"
  BY DEF Ready, Wired

LEMMA OkLater ==
    ASSUME NEW box \in Seq(Message), AllOk(box)
    PROVE  /\ box # << >> => AllOk(Tail(box))
           /\ \A m \in Message : (m.t = "ack" => m.ok) => AllOk(Append(box, m))
<1>1. ASSUME box # << >> PROVE AllOk(Tail(box))
  <2>1. \A i \in Answers(Tail(box)) : i + 1 \in Answers(box) /\ Tail(box)[i] = box[i + 1]
    BY <1>1 DEF Answers
  <2> QED BY <2>1 DEF AllOk
<1>2. ASSUME NEW m \in Message, m.t = "ack" => m.ok PROVE AllOk(Append(box, m))
  <2>1. \A i \in Answers(Append(box, m)) :
            \/ i \in Answers(box) /\ Append(box, m)[i] = box[i]
            \/ Append(box, m)[i] = m /\ m.t = "ack"
    BY DEF Answers
  <2> QED BY <1>2, <2>1 DEF AllOk
<1> QED BY <1>1, <1>2

(* What the user does and what the main queue runs.                        *)
LEMMA TouchIsStep ==
    ASSUME Ready, NEW d \in Devices, Touch(d)
    PROVE  ListStep(d, {})
<1>0. /\ DBTypeOK /\ mainQ \in [Devices -> Seq(Event)] /\ pend \in [Devices -> Seq(Write)]
      /\ listeners \in [Devices -> SUBSET Listener] /\ Single(d)
  BY DEF Ready, TypeOK, DBTypeOK
<1>1. ASSUME NEW q, q = mainQ[d], AppStep(d, q) PROVE DBStep(d, {})
  BY <1>1 DEF DBStep, Taken
<1>2. ASSUME inbox' = inbox PROVE KeepsOk
  BY <1>2 DEF KeepsOk
<1>3. ASSUME SharePost(d) PROVE ListStep(d, {})
  <2>1. PICK p \in Ids, t \in Texts : /\ author[p] = Nil /\ author' = [author EXCEPT ![p] = uid[d]]
                                      /\ Put(d, Made(p, t), mainQ[d])
    BY <1>3 DEF SharePost, Made
  <2>2. UNCHANGED <<listed, rows, post, listeners, inbox>>
    BY <1>3, <2>1 DEF SharePost, screenVars, Put
  <2>3. sub[d] # "off"
    BY <1>3, ListenersListen DEF SharePost, Registered
  <2>4. Made(p, t) \in Write
    BY WriteType
  <2>5. DBStep(d, {})
    BY <1>1, <2>1, <2>3, <2>4 DEF AppStep
  <2>6. Recorded(d)
    BY <1>0, <2>1 DEF Put, Recorded
  <2>7. Local(d, {})
    BY <1>0, <2>2, Untouched
  <2> QED BY <1>2, <2>2, <2>5, <2>6, <2>7, OthersUntouched DEF ListStep
<1>4. ASSUME OpenHome(d) \/ OpenProfile(d) PROVE ListStep(d, {})
  <2>1. PICK kind \in {"home", "mine"} : ~Registered(d, kind) /\ Observe(d, kind, Root, mainQ[d])
    BY <1>4 DEF OpenHome, OpenProfile
  <2>2. UNCHANGED <<listed, rows, post, author>>
    BY <1>4 DEF OpenHome, OpenProfile, screenVars
  <2>3. PICK n : listeners' = [listeners EXCEPT ![d] = @ \cup {[kind |-> kind, at |-> Root, n |-> n]}]
    BY <2>1 DEF Observe
  <2>4. UNCHANGED <<inbox, pend>>
    BY <2>1 DEF Observe
  <2>5. DBStep(d, {})
    BY <1>1, <2>1, RootPlace, KindsAssumption DEF AppStep
  <2>6. Recorded(d)
    BY <2>2, <2>4 DEF Recorded
  <2>7. Local(d, {})
    <3> DEFINE l == [kind |-> kind, at |-> Root, n |-> n]
    <3>1. listeners'[d] = listeners[d] \cup {l} /\ l.kind = kind /\ l.at = Root
      BY <1>0, <2>3
    <3> HIDE DEF l
    <3> QED BY <2>1, <2>2, <3>1, Opens
  <2> QED BY <1>0, <1>2, <2>2, <2>3, <2>4, <2>5, <2>6, <2>7, OthersUntouched DEF ListStep
<1>5. ASSUME OpenDetail(d) PROVE ListStep(d, {})
  <2>1. PICK p \in Ids : post' = [post EXCEPT ![d] = p] /\ Observe(d, "detail", Place(p), mainQ[d])
    BY <1>5 DEF OpenDetail
  <2>2. UNCHANGED <<listed, rows, author>>
    BY <1>5 DEF OpenDetail
  <2>3. PICK n : listeners' = [listeners EXCEPT ![d] =
                                   @ \cup {[kind |-> "detail", at |-> Place(p), n |-> n]}]
    BY <2>1 DEF Observe
  <2>4. UNCHANGED <<inbox, pend>>
    BY <2>1 DEF Observe
  <2>5. DBStep(d, {})
    BY <1>1, <2>1, Parts, KindsAssumption DEF AppStep
  <2>6. Recorded(d)
    BY <2>2, <2>4 DEF Recorded
  <2>7. Local(d, {})
    <3> DEFINE l == [kind |-> "detail", at |-> Place(p), n |-> n]
    <3>1. listeners'[d] = listeners[d] \cup {l} /\ l.kind = "detail"
      BY <1>0, <2>3
    <3>2. ~IsList(l)
      BY <3>1, KindsAssumption DEF IsList
    <3> HIDE DEF l
    <3> QED BY <2>2, <3>1, <3>2, Opens
  <2>8. \A e \in Devices : e # d => post'[e] = post[e] /\ listeners'[e] = listeners[e]
    BY <1>0, <2>1, <2>3 DEF Ready, TypeOK
  <2> QED BY <1>2, <2>2, <2>4, <2>5, <2>6, <2>7, <2>8, OthersUntouched DEF ListStep
<1>6. ASSUME Type(d) PROVE ListStep(d, {})
  <2>1. UNCHANGED <<dbVars, listed, rows, post, author>>
    BY <1>6 DEF Type
  <2>2. UNCHANGED <<server, cache, known, pend, inbox, sub, listeners, mainQ>>
    BY <2>1 DEF dbVars
  <2>3. DBStep(d, {})
    BY <1>0, <1>1, <2>2 DEF AppStep
  <2>4. Recorded(d)
    BY <2>1, <2>2 DEF Recorded
  <2>5. Local(d, {})
    BY <1>0, <2>1, <2>2, Untouched
  <2> QED BY <1>2, <2>1, <2>2, <2>3, <2>4, <2>5, OthersUntouched DEF ListStep
<1>7. ASSUME buttonUpdate(d) \/ Cancel(d) PROVE ListStep(d, {})
  <2>1. /\ post[d] \in Ids /\ form[d] \in Texts \cup {"made"} /\ Saves(d) /\ post[d] # Nil
        /\ UNCHANGED <<listed, rows, author>>
        /\ post'[d] \in {post[d], Nil} /\ \A e \in Devices : e # d => post'[e] = post[e]
    BY <1>7 DEF buttonUpdate, Cancel, Ready, TypeOK
  <2>2. PICK p \in Ids, t \in Texts \cup {"made"} : Put(d, Edit(p, t), mainQ[d])
    BY <2>1, SavesIs
  <2>3. sub[d] # "off"
    BY <1>0, <2>1, ListenersListen DEF Single
  <2>4. Edit(p, t) \in Write
    BY WriteType
  <2>5. DBStep(d, {})
    BY <1>1, <2>2, <2>3, <2>4 DEF AppStep
  <2>6. Recorded(d)
    BY <1>0, <2>1, <2>2 DEF Put, Recorded
  <2>7. UNCHANGED <<listeners, inbox>>
    BY <2>2 DEF Put
  <2>8. Local(d, {})
    BY <1>0, <2>1, <2>7, Untouched
  <2> QED BY <1>2, <2>1, <2>5, <2>6, <2>7, <2>8, OthersUntouched DEF ListStep
<1> QED BY <1>3, <1>4, <1>5, <1>6, <1>7 DEF Touch

\* the callbacks of an event
LEMMA CallbackStep ==
    ASSUME Ready, NEW d \in Devices, mainQ[d] # << >>, NEW l \in Head(mainQ[d]).to,
           mainQ' = [mainQ EXCEPT ![d] = Popped(d, l)],
           UNCHANGED <<server, cache, known, pend, inbox, sub, listeners, author>>
    PROVE  DBStep(d, {l}) /\ Recorded(d) /\ KeepsOk
<1>1. Taken(d, {l}, Popped(d, l)) /\ AppStep(d, Popped(d, l))
  BY DEF Taken, AppStep
<1> QED BY <1>1 DEF DBStep, Recorded, KeepsOk

LEMMA RestartIsStep ==
    ASSUME Ready, NEW d \in Devices, Restart(d)
    PROVE  ListStep(d, {})
<1>1. Terminate(d) /\ author' = author
  BY DEF Restart
<1>2. DBStep(d, {})
  BY <1>1 DEF DBStep, NetStep
<1>3. Ended(d) /\ inbox'[d] = << >> /\ pend'[d] = << >>
      /\ \A e \in Devices : e # d => inbox'[e] = inbox[e] /\ pend'[e] = pend[e]
                                   /\ listeners'[e] = listeners[e]
  BY <1>1 DEF Terminate, Ended, Ready, TypeOK, DBTypeOK
<1>4. /\ listed'[d] = [k \in Lists |-> {}] /\ rows'[d] = NoRows /\ post'[d] = Nil
      /\ \A e \in Devices : e # d => listed'[e] = listed[e] /\ rows'[e] = rows[e] /\ post'[e] = post[e]
  BY DEF Restart, Ready, TypeOK
<1>5. Local(d, {})
  BY <1>3, <1>4 DEF Local, Closed, Registers, Ended
<1>6. Recorded(d)
  BY <1>1, <1>3 DEF Recorded
<1>7. KeepsOk
  <2>1. AllOk(<< >>)
    BY DEF AllOk, Answers
  <2> QED BY <1>3, <2>1 DEF KeepsOk
<1> QED BY <1>2, <1>3, <1>4, <1>5, <1>6, <1>7, OthersUntouched DEF ListStep

LEMMA MainQueueIsStep ==
    ASSUME Ready, NEW d \in Devices, MainQueue(d)
    PROVE  \E M : ListStep(d, M)
<1>1. ASSUME ListCallback(d) PROVE \E M : ListStep(d, M)
  <2>1. mainQ[d] # << >> /\ UNCHANGED <<server, cache, known, pend, inbox, sub, listeners, post, author>>
    BY <1>1 DEF ListCallback
  <2> DEFINE snap == Head(mainQ[d]).snap
  <2>2. PICK l \in Head(mainQ[d]).to :
            /\ IsList(l)
            /\ \A p \in Added(d, l.kind, snap) : Whole(snap, p)
            /\ mainQ' = [mainQ EXCEPT ![d] = Popped(d, l)]
            /\ listed' = [listed EXCEPT ![d][l.kind] = Posted(snap)]
            /\ rows' = [rows EXCEPT ![d][l.kind] = [p \in Ids |->
                   @[p] + (IF p \in Added(d, l.kind, snap) /\ Belongs(d, l.kind, p) THEN 1 ELSE 0)]]
    BY <1>1 DEF ListCallback, IsList
  <2>3. DBStep(d, {l}) /\ Recorded(d) /\ KeepsOk
    BY <2>1, <2>2, CallbackStep
  <2> DEFINE r == [p \in Ids |-> rows[d][l.kind][p]
                      + (IF p \in Added(d, l.kind, snap) /\ Belongs(d, l.kind, p) THEN 1 ELSE 0)]
  <2>4. /\ listed' = [listed EXCEPT ![d] = [listed[d] EXCEPT ![l.kind] = Posted(snap)]]
        /\ rows' = [rows EXCEPT ![d] = [rows[d] EXCEPT ![l.kind] = r]]
    BY <2>2 DEF Ready, TypeOK
  <2>5. Called(d, {l})
    <3>1. /\ listed'[d] = [listed[d] EXCEPT ![l.kind] = Posted(snap)]
          /\ rows'[d] = [rows[d] EXCEPT ![l.kind] = r]
      BY <2>4 DEF Ready, TypeOK
    <3>2. Given(d, l)
      BY <2>2, <3>1 DEF Given
    <3> QED BY <2>1, <3>2 DEF Called
  <2>6. Registers(d)
    BY <2>1 DEF Registers, Ready, Single
  <2>7. \A e \in Devices : e # d => listed'[e] = listed[e] /\ rows'[e] = rows[e]
    <3> HIDE DEF r, snap
    <3> QED BY <2>4 DEF Ready, TypeOK
  <2>8. ListStep(d, {l})
    BY <2>1, <2>3, <2>5, <2>6, <2>7, OthersUntouched DEF ListStep, Local
  <2> QED BY <2>8
<1>2. ASSUME DetailCallback(d) PROVE \E M : ListStep(d, M)
  <2>1. mainQ[d] # << >> /\ UNCHANGED <<server, cache, known, pend, inbox, sub, listeners>>
        /\ UNCHANGED <<listed, rows, post, author>>
    BY <1>2 DEF DetailCallback
  <2>2. PICK l \in Head(mainQ[d]).to :
            l.kind = "detail" /\ mainQ' = [mainQ EXCEPT ![d] = Popped(d, l)]
    BY <1>2 DEF DetailCallback
  <2>3. DBStep(d, {l}) /\ Recorded(d) /\ KeepsOk
    BY <2>1, <2>2, CallbackStep
  <2>4. ~IsList(l)
    BY <2>2, KindsAssumption DEF IsList
  <2>5. Local(d, {l})
    BY <2>1, <2>4, Untouched DEF Ready
  <2>6. ListStep(d, {l})
    BY <2>1, <2>3, <2>5, OthersUntouched DEF ListStep
  <2> QED BY <2>6
<1>3. ASSUME FieldMissing(d) PROVE Restart(d)
  BY <1>3 DEF FieldMissing
<1>4. ASSUME Restart(d) PROVE ListStep(d, {})
  BY <1>4, RestartIsStep
<1> QED BY <1>1, <1>2, <1>3, <1>4 DEF MainQueue

(* The library's, the server's and the connection's steps.                 *)
LEMMA NetIsStep ==
    ASSUME Ready, NEW d \in Devices,
           Receive(d) \/ Listening(d) \/ Accept(d) \/ Refuse(d) \/ Reconnect(d)
    PROVE  ListStep(d, {})
<1>0. DBTypeOK /\ \A e \in Devices : inbox[e] \in Seq(Message)
  BY DEF Ready, TypeOK, DBTypeOK
<1>1. /\ OnDataUpdate(d) \/ AckWrite(d) \/ ServerListen(d) \/ ServerAccept(d)
         \/ ServerRefuse(d) \/ RestoreState(d)
      /\ UNCHANGED <<listed, rows, post, author>>
  BY DEF Receive, Listening, Accept, Refuse, Reconnect, screenVars
<1>2. DBStep(d, {})
  BY <1>1 DEF DBStep, NetStep
<1>3. listeners' = listeners
  BY <1>1 DEF OnDataUpdate, AckWrite, ServerListen, ServerAccept, ServerRefuse, RestoreState
<1>4. Recorded(d)
  <2>1. CASE AckWrite(d)
    <3>1. pend[d] # << >> /\ pend' = [pend EXCEPT ![d] = Tail(pend[d])]
      BY <1>0, <2>1, AckWriteType DEF AckWrite, WithoutOldest
    <3> QED BY <1>0, <1>1, <3>1 DEF Recorded, DBTypeOK
  <2>2. CASE pend' = pend
    BY <1>1, <2>2 DEF Recorded
  <2> QED BY <1>1, <2>1, <2>2 DEF OnDataUpdate, ServerListen, ServerAccept, ServerRefuse, RestoreState
<1>5. Refuse(d) \/ KeepsOk
  <2>1. ASSUME NEW box, inbox' = [inbox EXCEPT ![d] = box], AllOk(inbox[d]) => AllOk(box)
        PROVE  KeepsOk
    BY <1>0, <2>1 DEF KeepsOk, DBTypeOK
  <2>2. ASSUME Receive(d) PROVE KeepsOk
    <3>1. inbox[d] # << >> /\ inbox' = [inbox EXCEPT ![d] = Tail(inbox[d])]
      BY <2>2 DEF Receive, OnDataUpdate, AckWrite
    <3> QED BY <1>0, <2>1, <3>1, OkLater
  <2>3. ASSUME Listening(d) PROVE KeepsOk
    <3>1. inbox' = [inbox EXCEPT ![d] = Append(inbox[d], Data(server))]
      BY <2>3 DEF Listening, ServerListen
    <3>2. Data(server) \in Message /\ Data(server).t = "data"
      BY <1>0 DEF Data, Message, DBTypeOK
    <3> QED BY <1>0, <2>1, <3>1, <3>2, OkLater
  <2>4. ASSUME Accept(d) PROVE KeepsOk
    <3>1. ASSUME NEW e \in Devices, AllOk(inbox[e]) PROVE AllOk(inbox'[e])
      <4> DEFINE b1 == IF sub[e] = "on" /\ server' # server
                       THEN Append(inbox[e], Data(server')) ELSE inbox[e]
      <4>1. /\ server' \in Tree /\ b1 \in Seq(Message)
            /\ inbox'[e] = IF e = d THEN Append(b1, Ack(TRUE)) ELSE b1
        BY <1>0, <2>4, ServerAcceptInbox DEF Accept
      <4>2. /\ Data(server') \in Message /\ Data(server').t = "data"
            /\ Ack(TRUE) \in Message /\ Ack(TRUE).ok = TRUE
        BY <4>1 DEF Data, Ack, Message
      <4>3. AllOk(b1)
        BY <1>0, <3>1, <4>2, OkLater
      <4> HIDE DEF b1
      <4> QED BY <4>1, <4>2, <4>3, OkLater
    <3> QED BY <3>1 DEF KeepsOk
  <2>5. ASSUME Reconnect(d) PROVE KeepsOk
    <3>1. inbox' = [inbox EXCEPT ![d] = << >>]
      BY <2>5 DEF Reconnect, RestoreState
    <3>2. AllOk(<< >>)
      BY DEF AllOk, Answers
    <3> QED BY <2>1, <3>1, <3>2
  <2> QED BY <2>2, <2>3, <2>4, <2>5
<1>6. Local(d, {})
  BY <1>1, <1>3, Untouched DEF Ready
<1> QED BY <1>1, <1>2, <1>3, <1>4, <1>5, <1>6, OthersUntouched DEF ListStep

LEMMA NextIsStep ==
    ASSUME Ready, Next
    PROVE  \E d \in Devices : \E M : ListStep(d, M)
<1>1. ASSUME NEW d \in Devices, Kill(d) PROVE ListStep(d, {})
  BY <1>1, RestartIsStep DEF Kill
<1> QED BY <1>1, TouchIsStep, MainQueueIsStep, NetIsStep DEF Next

-----------------------------------------------------------------------------
(* The recorded writes.                                                    *)

\* what was recorded before, and the new write
LEMMA RecordedWrites ==
    ASSUME DBTypeOK, NEW d \in Devices, Recorded(d)
    PROVE  \/ /\ author' = author
              /\ \E s \in {0, 1} : \A i \in 1..Len(pend'[d]) :
                     i + s \in 1..Len(pend[d]) /\ pend'[d][i] = pend[d][i + s]
           \/ \E w \in Write :
                  /\ \A k \in DOMAIN w : w[k] # Nil
                  /\ Len(pend'[d]) = Len(pend[d]) + 1 /\ pend'[d][Len(pend[d]) + 1] = w
                  /\ \A i \in 1..Len(pend[d]) : pend'[d][i] = pend[d][i]
                  /\ \/ author' = author /\ DOMAIN w \cap Bodies = {}
                     \/ \E p \in Ids : /\ author[p] = Nil /\ author' = [author EXCEPT ![p] = uid[d]]
                                      /\ DOMAIN w = Place(p)
<1> DEFINE Old == /\ author' = author
                  /\ \E s \in {0, 1} : \A i \in 1..Len(pend'[d]) :
                         i + s \in 1..Len(pend[d]) /\ pend'[d][i] = pend[d][i + s]
<1>0. pend[d] \in Seq(Write)
  BY DEF DBTypeOK
<1>1. ASSUME author' = author, pend'[d] \in {pend[d], << >>} PROVE Old
  <2>1. \A i \in 1..Len(pend'[d]) : i + 0 \in 1..Len(pend[d]) /\ pend'[d][i] = pend[d][i + 0]
    BY <1>0, <1>1
  <2> QED BY <1>1, <2>1
<1>2. ASSUME author' = author, pend[d] # << >>, pend'[d] = Tail(pend[d]) PROVE Old
  <2>1. \A i \in 1..Len(pend'[d]) : i + 1 \in 1..Len(pend[d]) /\ pend'[d][i] = pend[d][i + 1]
    BY <1>0, <1>2
  <2> QED BY <1>2, <2>1
<1>3. ASSUME NEW w \in Write, pend'[d] = Append(pend[d], w)
      PROVE  /\ Len(pend'[d]) = Len(pend[d]) + 1 /\ pend'[d][Len(pend[d]) + 1] = w
             /\ \A i \in 1..Len(pend[d]) : pend'[d][i] = pend[d][i]
  BY <1>0, <1>3
<1>4. ASSUME NEW p \in Ids, NEW t \in Texts
      PROVE  /\ Made(p, t) \in Write /\ DOMAIN Made(p, t) = Place(p)
             /\ \A k \in DOMAIN Made(p, t) : Made(p, t)[k] # Nil
  BY WriteType
<1>5. ASSUME NEW p \in Ids, NEW t \in Texts \cup {"made"}
      PROVE  /\ Edit(p, t) \in Write /\ DOMAIN Edit(p, t) \cap Bodies = {}
             /\ \A k \in DOMAIN Edit(p, t) : Edit(p, t)[k] # Nil
  <2>1. Edit(p, t) \in Write /\ DOMAIN Edit(p, t) = {Text(p)} /\ Edit(p, t)[Text(p)] # Nil
    BY WriteType
  <2>2. Text(p) \notin Bodies
    BY DEF Text, Bodies, Body
  <2> QED BY <2>1, <2>2
<1> DEFINE New == \E w \in Write :
                      /\ \A k \in DOMAIN w : w[k] # Nil
                      /\ Len(pend'[d]) = Len(pend[d]) + 1 /\ pend'[d][Len(pend[d]) + 1] = w
                      /\ \A i \in 1..Len(pend[d]) : pend'[d][i] = pend[d][i]
                      /\ \/ author' = author /\ DOMAIN w \cap Bodies = {}
                         \/ \E p \in Ids : /\ author[p] = Nil /\ author' = [author EXCEPT ![p] = uid[d]]
                                          /\ DOMAIN w = Place(p)
<1>6. ASSUME NEW p \in Ids, NEW t \in Texts, author[p] = Nil,
             author' = [author EXCEPT ![p] = uid[d]], pend'[d] = Append(pend[d], Made(p, t))
      PROVE  New
  <2>1. PICK w : w = Made(p, t)
    OBVIOUS
  <2>2. w \in Write /\ DOMAIN w = Place(p) /\ \A k \in DOMAIN w : w[k] # Nil
    BY <1>4, <2>1
  <2>3. pend'[d] = Append(pend[d], w)
    BY <1>6, <2>1
  <2> HIDE DEF Old
  <2> QED BY <1>3, <1>6, <2>2, <2>3
<1>7. ASSUME NEW p \in Ids, NEW t \in Texts \cup {"made"},
             author' = author, pend'[d] = Append(pend[d], Edit(p, t))
      PROVE  New
  <2>1. PICK w : w = Edit(p, t)
    OBVIOUS
  <2>2. w \in Write /\ DOMAIN w \cap Bodies = {} /\ \A k \in DOMAIN w : w[k] # Nil
    BY <1>5, <2>1
  <2>3. pend'[d] = Append(pend[d], w)
    BY <1>7, <2>1
  <2> HIDE DEF Old
  <2> QED BY <1>3, <1>7, <2>2, <2>3
<1>8. Old \/ New
  <2> HIDE DEF Old, New
  <2> QED BY <1>1, <1>2, <1>6, <1>7 DEF Recorded
<1> QED BY <1>8

\* an author is an author for good
LEMMA RecordedAuthors ==
    ASSUME TypeOK, NEW d \in Devices, Recorded(d), NEW p \in Ids
    PROVE  /\ author'[p] = author[p] \/ (author[p] = Nil /\ author'[p] # Nil)
           /\ SharedIds \subseteq SharedIds' /\ SharedKeys \subseteq SharedKeys'
<1>1. uid[d] # Nil
  BY UsersAssumption
<1>2. \A q \in Ids : author'[q] = author[q] \/ (author[q] = Nil /\ author'[q] # Nil)
  BY <1>1 DEF Recorded, TypeOK
<1>3. SharedIds \subseteq SharedIds'
  BY <1>2 DEF SharedIds
<1> QED BY <1>2, <1>3 DEF SharedKeys

LEMMA RecordedFills ==
    ASSUME DBTypeOK, NEW d \in Devices, Recorded(d), NEW e \in Devices, AllFill(e)
    PROVE  AllFill(e)'
<1>1. CASE e # d
  BY <1>1 DEF Recorded, AllFill
<1>2. CASE e = d
  <2>1. Len(pend[d]) \in Nat
    BY DEF DBTypeOK
  <2>2. \A i \in 1..Len(pend'[d]) :
            \/ \E j \in 1..Len(pend[d]) : pend'[d][i] = pend[d][j]
            \/ \A k \in DOMAIN pend'[d][i] : pend'[d][i][k] # Nil
    <3>1. CASE \E s \in {0, 1} : \A i \in 1..Len(pend'[d]) :
                   i + s \in 1..Len(pend[d]) /\ pend'[d][i] = pend[d][i + s]
      BY <3>1
    <3>2. ASSUME NEW w, \A k \in DOMAIN w : w[k] # Nil, Len(pend'[d]) = Len(pend[d]) + 1,
                 pend'[d][Len(pend[d]) + 1] = w, \A i \in 1..Len(pend[d]) : pend'[d][i] = pend[d][i],
                 NEW i \in 1..Len(pend'[d])
          PROVE  \/ \E j \in 1..Len(pend[d]) : pend'[d][i] = pend[d][j]
                 \/ \A k \in DOMAIN pend'[d][i] : pend'[d][i][k] # Nil
      <4>1. i \in 1..Len(pend[d]) \/ i = Len(pend[d]) + 1
        BY <2>1, <3>2
      <4> QED BY <3>2, <4>1
    <3>3. \/ \E s \in {0, 1} : \A i \in 1..Len(pend'[d]) :
                  i + s \in 1..Len(pend[d]) /\ pend'[d][i] = pend[d][i + s]
          \/ \E w \in Write :
                    /\ \A k \in DOMAIN w : w[k] # Nil
                    /\ Len(pend'[d]) = Len(pend[d]) + 1 /\ pend'[d][Len(pend[d]) + 1] = w
                    /\ \A i \in 1..Len(pend[d]) : pend'[d][i] = pend[d][i]
      BY RecordedWrites
    <3>4. CASE \E w \in Write :
                      /\ \A k \in DOMAIN w : w[k] # Nil
                      /\ Len(pend'[d]) = Len(pend[d]) + 1 /\ pend'[d][Len(pend[d]) + 1] = w
                      /\ \A i \in 1..Len(pend[d]) : pend'[d][i] = pend[d][i]
      BY <3>2, <3>4
    <3> QED BY <3>1, <3>3, <3>4
  <2>3. \A i \in 1..Len(pend'[d]) : Filling(pend'[d][i])
    BY <1>2, <2>2 DEF AllFill, Filling
  <2> QED BY <1>2, <2>3 DEF AllFill
<1> QED BY <1>1, <1>2

\* nothing recorded touches a post that nobody shared
LEMMA NotYetWritten ==
    ASSUME DBTypeOK, AuthorInv, NEW p \in Ids, author[p] = Nil, NEW e \in Devices, NEW i \in 1..Len(pend[e])
    PROVE  DOMAIN pend[e][i] \cap Place(p) = {}
<1>1. Touched(pend[e][i]) \subseteq Own(e)
  BY DEF AuthorInv, Authored
<1>2. p \notin Own(e)
  BY UsersAssumption DEF Own
<1> QED BY <1>1, <1>2 DEF Touched

\* a post is shared once, so one write alone has its body
LEMMA RecordedOnce ==
    ASSUME DBTypeOK, AuthorInv, Once(Bodies), NEW d \in Devices, Recorded(d)
    PROVE  Once(Bodies)'
<1>0. Len(pend[d]) \in Nat /\ \A e \in Devices : Len(pend[e]) \in Nat
  BY DEF DBTypeOK
<1>1. ASSUME NEW s \in {0, 1},
             \A i \in 1..Len(pend'[d]) : i + s \in 1..Len(pend[d]) /\ pend'[d][i] = pend[d][i + s]
      PROVE  Once(Bodies)'
  <2> DEFINE shift(e) == IF e = d THEN s ELSE 0
  <2>1. ASSUME NEW e \in Devices, NEW i \in 1..Len(pend'[e])
        PROVE  i + shift(e) \in 1..Len(pend[e]) /\ pend'[e][i] = pend[e][i + shift(e)]
    <3>1. CASE e = d
      BY <1>1, <3>1
    <3>2. CASE e # d
      <4>1. pend'[e] = pend[e] /\ i + 0 = i
        BY <3>2, <1>0 DEF Recorded
      <4> QED BY <3>2, <4>1
    <3> QED BY <3>1, <3>2
  <2>2. \A e \in Devices : shift(e) \in Nat
    OBVIOUS
  <2> HIDE DEF shift
  <2>3. ASSUME NEW x \in Devices, NEW y \in Devices, NEW i \in 1..Len(pend'[x]), NEW j \in 1..Len(pend'[y]),
               DOMAIN pend'[x][i] \cap DOMAIN pend'[y][j] \cap Bodies # {}
        PROVE  x = y /\ i = j
    <3> DEFINE a == i + shift(x)
               b == j + shift(y)
    <3>a. a \in 1..Len(pend[x]) /\ pend'[x][i] = pend[x][a]
      BY <2>1
    <3>b. b \in 1..Len(pend[y]) /\ pend'[y][j] = pend[y][b]
      BY <2>1
    <3> HIDE DEF a, b
    <3>c. DOMAIN pend[x][a] \cap DOMAIN pend[y][b] \cap Bodies # {}
      BY <2>3, <3>a, <3>b
    <3>1. x = y /\ a = b
      BY <3>a, <3>b, <3>c DEF Once
    <3>2. i \in Int /\ j \in Int /\ shift(x) \in Int
      BY <2>2
    <3> QED BY <3>1, <3>2 DEF a, b
  <2> QED BY <2>3 DEF Once
<1>2. ASSUME NEW w, Len(pend'[d]) = Len(pend[d]) + 1, pend'[d][Len(pend[d]) + 1] = w,
             \A i \in 1..Len(pend[d]) : pend'[d][i] = pend[d][i],
             \A e \in Devices : \A i \in 1..Len(pend[e]) : DOMAIN pend[e][i] \cap DOMAIN w \cap Bodies = {}
      PROVE  Once(Bodies)'
  <2>1. ASSUME NEW e \in Devices, NEW i \in 1..Len(pend'[e])
        PROVE  \/ i \in 1..Len(pend[e]) /\ pend'[e][i] = pend[e][i]
               \/ e = d /\ i = Len(pend[d]) + 1 /\ pend'[e][i] = w
    <3>1. CASE e = d
      BY <1>0, <1>2, <3>1
    <3>2. CASE e # d
      BY <3>2 DEF Recorded
    <3> QED BY <3>1, <3>2
  <2>2. ASSUME NEW x \in Devices, NEW y \in Devices, NEW i \in 1..Len(pend'[x]), NEW j \in 1..Len(pend'[y]),
               DOMAIN pend'[x][i] \cap DOMAIN pend'[y][j] \cap Bodies # {}
        PROVE  x = y /\ i = j
    <3> DEFINE Old(e, n) == n \in 1..Len(pend[e]) /\ pend'[e][n] = pend[e][n]
               New(e, n) == e = d /\ n = Len(pend[d]) + 1 /\ pend'[e][n] = w
    <3>1. (Old(x, i) \/ New(x, i)) /\ (Old(y, j) \/ New(y, j))
      BY <2>1
    <3>2. CASE Old(x, i) /\ Old(y, j)
      <4>1. DOMAIN pend[x][i] \cap DOMAIN pend[y][j] \cap Bodies # {}
        BY <2>2, <3>2
      <4> QED BY <3>2, <4>1 DEF Once
    <3>3. ~(Old(x, i) /\ New(y, j)) /\ ~(New(x, i) /\ Old(y, j))
      <4>1. \A e \in Devices : \A n \in 1..Len(pend[e]) : DOMAIN w \cap DOMAIN pend[e][n] \cap Bodies = {}
        BY <1>2
      <4> QED BY <1>2, <2>2, <4>1
    <3>4. CASE New(x, i) /\ New(y, j)
      BY <3>4
    <3> HIDE DEF Old, New
    <3> QED BY <3>1, <3>2, <3>3, <3>4
  <2> QED BY <2>2 DEF Once
<1>3. ASSUME NEW w, DOMAIN w \cap Bodies = {}
      PROVE  \A e \in Devices : \A i \in 1..Len(pend[e]) : DOMAIN pend[e][i] \cap DOMAIN w \cap Bodies = {}
  BY <1>3
<1>4. ASSUME NEW p \in Ids, author[p] = Nil, NEW w, DOMAIN w = Place(p)
      PROVE  \A e \in Devices : \A i \in 1..Len(pend[e]) : DOMAIN pend[e][i] \cap DOMAIN w \cap Bodies = {}
  BY <1>4, NotYetWritten
<1> QED BY <1>1, <1>2, <1>3, <1>4, RecordedWrites

-----------------------------------------------------------------------------
(* What the lists know.                                                    *)

\* values with more children show more posts
LEMMA PostedFilled ==
    ASSUME NEW v, NEW p \in Ids
    PROVE  /\ p \in Posted(v) <=> Place(p) \cap Filled(v) # {}
           /\ Whole(v, p) => Body(p) \in Filled(v)
           /\ Body(p) \in Filled(v) => p \in Posted(v)
<1>1. Place(p) \subseteq Keys /\ Body(p) \in Place(p)
  BY Parts
<1> QED BY <1>1 DEF Posted, Present, Whole, Filled

LEMMA PostedGrows ==
    ASSUME NEW v, NEW v2, Filled(v) \subseteq Filled(v2) PROVE Posted(v) \subseteq Posted(v2)
<1>1. ASSUME NEW p \in Ids, p \in Posted(v) PROVE p \in Posted(v2)
  BY <1>1, PostedFilled
<1> QED BY <1>1 DEF Posted

LEMMA PostedShared ==
    ASSUME NEW v, Filled(v) \subseteq SharedKeys PROVE Posted(v) \subseteq SharedIds
<1>1. ASSUME NEW p \in Ids, p \in Posted(v) PROVE p \in SharedIds
  <2>1. PICK k \in Place(p) : k \in SharedKeys
    BY <1>1, PostedFilled
  <2>2. PICK q \in SharedIds : k \in Place(q)
    BY <2>1 DEF SharedKeys
  <2>3. q = p
    BY <2>1, <2>2, Apart DEF SharedIds
  <2> QED BY <2>2, <2>3
<1> QED BY <1>1 DEF Posted

\* the callback of a list is registered, for the whole location
LEMMA CalledList ==
    ASSUME DBTypeOK, NEW e \in Devices, NEW M, Wired(e), Single(e), Called(e, M)
    PROVE  \E l \in listeners[e] :
               /\ M = {l} /\ l.kind \in Lists /\ l.at = Root /\ Given(e, l)
               /\ 1 \in 1..Len(mainQ[e]) /\ Head(mainQ[e]) = mainQ[e][1]
<1>1. mainQ[e] # << >>
  BY DEF Called
<1>2. 1 \in 1..Len(mainQ[e]) /\ Head(mainQ[e]) = mainQ[e][1]
  BY <1>1 DEF DBTypeOK
<1>3. Head(mainQ[e]).to \subseteq listeners[e]
  BY <1>2 DEF Wired
<1>4. PICK l \in Head(mainQ[e]).to : M = {l} /\ Given(e, l)
  BY DEF Called
<1>5. l \in listeners[e] /\ l.kind \in Lists
  BY <1>3, <1>4 DEF Given, IsList
<1>6. l.at = Root
  BY <1>5 DEF Single, IsList
<1> QED BY <1>2, <1>4, <1>5, <1>6

\* what a callback does to a list, and that it leaves the others
LEMMA GivenIs ==
    ASSUME TypeOK, NEW e \in Devices, NEW l, Given(e, l), NEW k \in Lists
    PROVE  /\ k # l.kind => listed'[e][k] = listed[e][k] /\ rows'[e][k] = rows[e][k]
           /\ k = l.kind =>
                  /\ listed'[e][k] = Posted(Head(mainQ[e]).snap)
                  /\ \A p \in Posted(Head(mainQ[e]).snap) \ listed[e][k] : Whole(Head(mainQ[e]).snap, p)
                  /\ \A p \in Ids : rows'[e][k][p] = rows[e][k][p]
                         + (IF p \in Posted(Head(mainQ[e]).snap) \ listed[e][k] /\ Belongs(e, k, p)
                            THEN 1 ELSE 0)
<1> DEFINE snap == Head(mainQ[e]).snap
           r == [p \in Ids |-> rows[e][l.kind][p]
                   + (IF p \in Added(e, l.kind, snap) /\ Belongs(e, l.kind, p) THEN 1 ELSE 0)]
<1>1. /\ listed'[e] = [listed[e] EXCEPT ![l.kind] = Posted(snap)]
      /\ rows'[e] = [rows[e] EXCEPT ![l.kind] = r]
      /\ \A p \in Added(e, l.kind, snap) : Whole(snap, p)
  BY DEF Given
<1>2. listed[e] \in [Lists -> SUBSET Ids] /\ rows[e] \in [Lists -> [Ids -> Nat]]
  BY DEF TypeOK
<1>3. CASE k # l.kind
  <2> HIDE DEF r, snap
  <2> QED BY <1>1, <1>2, <1>3
<1>4. CASE k = l.kind
  <2>1. \A p \in Ids : r[p] = rows[e][k][p]
            + (IF p \in Posted(snap) \ listed[e][k] /\ Belongs(e, k, p) THEN 1 ELSE 0)
    BY <1>4 DEF Added
  <2> HIDE DEF r
  <2>2. listed'[e][k] = Posted(snap) /\ rows'[e][k] = r
    BY <1>1, <1>2, <1>4
  <2> QED BY <1>1, <1>4, <2>1, <2>2 DEF Added
<1> QED BY <1>3, <1>4

LEMMA LocalSingle ==
    ASSUME TypeOK, NEW d \in Devices, NEW M, DBStep(d, M), NEW e \in Devices, NEW N, Local(e, N),
           Wired(e), Single(e)
    PROVE  Single(e)'
<1>1. Ended(e) \/ listeners[e] \subseteq listeners'[e]
  <2>1. Ended(e) \/ \E q \in Seq(Event) : Opened(e, q) \/ Altered(e, q)
    BY StepIsLocal DEF TypeOK
  <2> QED BY <2>1 DEF Opened, Altered
<1>2. \A l \in listeners'[e] : IsList(l) => l.at = Root
  BY DEF Single, Local, Registers
<1>3. ASSUME NEW l \in listeners'[e], NEW m \in listeners'[e], IsList(l), m.kind = l.kind
      PROVE  l = m
  <2>1. IsList(m)
    BY <1>3 DEF IsList
  <2>2. CASE l \in listeners[e] /\ m \in listeners[e]
    BY <1>3, <2>2 DEF Single
  <2>3. CASE l \in listeners[e] /\ m \notin listeners[e]
    BY <1>3, <2>1, <2>3 DEF Local, Registers, Registered
  <2>4. CASE l \notin listeners[e] /\ m \in listeners[e]
    BY <1>3, <2>4 DEF Local, Registers, Registered
  <2>5. CASE l \notin listeners[e] /\ m \notin listeners[e]
    BY <1>3, <2>5 DEF Local, Registers
  <2> QED BY <2>2, <2>3, <2>4, <2>5
<1>4. ASSUME NEW k \in Lists, listed'[e][k] # {} \/ InRows(e, k)' # {}
      PROVE  listeners'[e] # {}
  <2>1. CASE Quiet(e, N)
    <3>1. listed'[e][k] = listed[e][k] /\ InRows(e, k)' = InRows(e, k)
      BY <2>1 DEF Quiet, InRows
    <3>2. listeners[e] # {}
      BY <1>4, <3>1 DEF Single
    <3> QED BY <1>1, <2>1, <3>2 DEF Quiet
  <2>2. CASE Called(e, N)
    <3>1. listeners[e] # {}
      BY <2>2, CalledList DEF TypeOK
    <3> QED BY <2>2, <3>1 DEF Called
  <2>3. CASE Closed(e)
    <3>1. listed'[e][k] = {} /\ InRows(e, k)' = {}
      BY <2>3 DEF Closed, NoRows, InRows
    <3> QED BY <1>4, <3>1
  <2> QED BY <2>1, <2>2, <2>3 DEF Local
<1>5. post'[e] # Nil => listeners'[e] # {}
  BY DEF Local, Registers
<1> QED BY <1>2, <1>3, <1>4, <1>5 DEF Single

LEMMA LocalFollows ==
    ASSUME TypeOK, NEW d \in Devices, NEW M, DBStep(d, M), NEW e \in Devices,
           Local(e, IF e = d THEN M ELSE {}), Wired(e), Single(e), Current(e), Follows(e)
    PROVE  Follows(e)'
<1> DEFINE N == IF e = d THEN M ELSE {}
<1>0. listed[e] \in [Lists -> SUBSET Ids]
  BY DEF TypeOK
<1>1. SUFFICES ASSUME NEW l \in listeners'[e], IsList(l), EventsFor(mainQ'[e], l) = {}
               PROVE  listed'[e][l.kind] = Posted(View(e)')
  BY DEF Follows, Posted, Present
<1>2. Complete(known'[e], pend'[e], l)
  BY <1>1 DEF Complete, IsList
<1>3. \/ /\ l \in N
         /\ At(Head(mainQ[e]).snap, l.at) = At(View(e)', l.at)
      \/ /\ l \notin N
         /\ l \in listeners[e] /\ EventsFor(mainQ[e], l) = {}
         /\ At(View(e), l.at) = At(View(e)', l.at)
  <2>1. \/ /\ e = d /\ l \in M
           /\ At(Head(mainQ[e]).snap, l.at) = At(View(e)', l.at)
        \/ /\ e # d \/ l \notin M
           /\ l \in listeners[e] /\ EventsFor(mainQ[e], l) = {}
           /\ At(View(e), l.at) = At(View(e)', l.at)
    BY <1>1, <1>2, StepTells DEF TypeOK
  <2>2. l \in N <=> e = d /\ l \in M
    OBVIOUS
  <2> HIDE DEF N
  <2> QED BY <2>1, <2>2
<1>4. ASSUME NEW v, NEW v2, l.at = Root, At(v, l.at) = At(v2, l.at) PROVE Posted(v) = Posted(v2)
  <2>1. \A k \in Keys : At(v, l.at)[k] = v[k] /\ At(v2, l.at)[k] = v2[k]
    BY <1>4 DEF At, Root
  <2>2. Filled(v) = Filled(v2)
    BY <1>4, <2>1 DEF Filled
  <2>3. Posted(v) \subseteq Posted(v2)
    BY <2>2, PostedGrows
  <2>4. Posted(v2) \subseteq Posted(v)
    BY <2>2, PostedGrows
  <2> QED BY <2>3, <2>4
<1> HIDE DEF N
<1>5. CASE l \in N /\ At(Head(mainQ[e]).snap, l.at) = At(View(e)', l.at)
  <2>1. Called(e, N)
    <3>1. ~Closed(e)
      BY <1>1 DEF Closed, Ended
    <3>2. ~Quiet(e, N)
      BY <1>1, <1>5 DEF Quiet
    <3> QED BY <3>1, <3>2 DEF Local, N
  <2>b. DBTypeOK
    BY DEF TypeOK
  <2>a. PICK m \in listeners[e] : N = {m} /\ m.at = Root /\ m.kind \in Lists /\ Given(e, m)
    BY <2>1, <2>b, CalledList
  <2>2. l = m
    BY <1>5, <2>a
  <2>3. Posted(Head(mainQ[e]).snap) = Posted(View(e)')
    BY <1>4, <1>5, <2>a, <2>2
  <2>4. listed'[e][l.kind] = Posted(Head(mainQ[e]).snap)
    BY <2>a, <2>2, GivenIs
  <2> QED BY <2>3, <2>4
<1>6. CASE /\ l \notin N
           /\ l \in listeners[e] /\ EventsFor(mainQ[e], l) = {}
           /\ At(View(e), l.at) = At(View(e)', l.at)
  <2>1. listed[e][l.kind] = Posted(View(e)) /\ l.at = Root
    BY <1>1, <1>6 DEF Follows, Single
  <2>2. Posted(View(e)) = Posted(View(e)')
    BY <1>4, <1>6, <2>1
  <2>3. listed'[e][l.kind] = listed[e][l.kind]
    <3>1. CASE Quiet(e, N)
      BY <3>1 DEF Quiet
    <3>2. CASE Called(e, N)
      <4>1. PICK m \in listeners[e] : N = {m} /\ m.kind \in Lists /\ Given(e, m)
        BY <3>2, CalledList DEF TypeOK
      <4>2. m.kind # l.kind
        BY <1>1, <1>6, <4>1 DEF Single
      <4>3. l.kind \in Lists
        BY <1>1 DEF IsList
      <4> QED BY <4>1, <4>2, <4>3, GivenIs
    <3>3. ~Closed(e)
      BY <1>1 DEF Closed, Ended
    <3> QED BY <3>1, <3>2, <3>3 DEF Local, N
  <2> QED BY <2>1, <2>2, <2>3
<1> QED BY <1>3, <1>5, <1>6

\* posts are written by those who shared them, so nothing else comes in view
LEMMA ViewShared ==
    ASSUME DBTypeOK', AuthorInv', NEW e \in Devices, AllFill(e)', Grows(e, Bodies)',
           Filled(server') \subseteq SharedKeys'
    PROVE  Filled(View(e)') \subseteq SharedKeys'
<1>0. cache'[e] \in Tree /\ pend'[e] \in Seq(Write) /\ \A i \in 1..Len(pend'[e]) : pend'[e][i] \in Write
  BY DEF DBTypeOK
<1>1. ASSUME NEW i \in 1..Len(pend'[e]), NEW k \in DOMAIN pend'[e][i] PROVE k \in SharedKeys'
  <2>1. k \in Keys
    BY <1>0, <1>1 DEF Write
  <2>2. PICK p \in Ids : k \in Place(p)
    BY <2>1, PartsAssumption
  <2>3. author'[p] = uid[e]
    BY <1>1, <2>2 DEF AuthorInv, Authored, Touched, Own
  <2>4. p \in SharedIds'
    BY <2>3, UsersAssumption DEF SharedIds
  <2> QED BY <2>2, <2>4 DEF SharedKeys
<1>2. \A i \in 1..Len(pend'[e]) : Filling(pend'[e][i])
  BY DEF AllFill
<1>3. Filled(Overlay(cache'[e], pend'[e])) =
          Filled(cache'[e]) \cup UNION {DOMAIN pend'[e][i] : i \in 1..Len(pend'[e])}
  BY <1>0, <1>2, FilledOverlay
<1>4. Filled(cache'[e]) \subseteq SharedKeys'
  BY DEF Grows, Growing
<1> QED BY <1>1, <1>3, <1>4 DEF View

LEMMA LocalShared ==
    ASSUME TypeOK, TypeOK', AuthorInv', NEW d \in Devices, NEW M, DBStep(d, M), Recorded(d),
           NEW e \in Devices, NEW N, Local(e, N), Wired(e), Single(e), OfShared(e),
           AllFill(e)', Grows(e, Bodies)', Filled(server') \subseteq SharedKeys'
    PROVE  OfShared(e)'
<1>1. SharedIds \subseteq SharedIds' /\ SharedKeys \subseteq SharedKeys'
  BY RecordedAuthors, PartsAssumption
<1>2. ASSUME NEW i \in 1..Len(mainQ'[e]) PROVE Filled(mainQ'[e][i].snap) \subseteq SharedKeys'
  <2>1. Filled(View(e)') \subseteq SharedKeys'
    BY ViewShared DEF TypeOK
  <2>2. \A j \in 1..Len(mainQ[e]) : Filled(mainQ[e][j].snap) \subseteq SharedKeys'
    BY <1>1 DEF OfShared
  <2>3. DBTypeOK
    BY DEF TypeOK
  <2>4. \/ mainQ'[e][i].snap = View(e)'
        \/ \E j \in 1..Len(mainQ[e]) : mainQ'[e][i].snap = mainQ[e][j].snap
    BY <1>2, <2>3, StepShows
  <2> QED BY <2>1, <2>2, <2>4
<1>3. ASSUME NEW k \in Lists PROVE listed'[e][k] \subseteq SharedIds'
  <2>1. CASE Quiet(e, N)
    BY <1>1, <2>1 DEF Quiet, OfShared
  <2>2. CASE Called(e, N)
    <3>1. PICK l \in listeners[e] : /\ Given(e, l)
                                    /\ 1 \in 1..Len(mainQ[e]) /\ Head(mainQ[e]) = mainQ[e][1]
      BY <2>2, CalledList DEF TypeOK
    <3>2. Posted(Head(mainQ[e]).snap) \subseteq SharedIds
      BY <3>1, PostedShared DEF OfShared
    <3>3. listed[e][k] \subseteq SharedIds
      BY DEF OfShared
    <3> QED BY <1>1, <3>1, <3>2, <3>3, GivenIs
  <2>3. CASE Closed(e)
    BY <2>3 DEF Closed
  <2> QED BY <2>1, <2>2, <2>3 DEF Local
<1> QED BY <1>2, <1>3 DEF OfShared

LEMMA LocalInserted ==
    ASSUME TypeOK, NEW d \in Devices, Recorded(d), NEW e \in Devices, NEW N, Local(e, N),
           Wired(e), Single(e), OfShared(e), Inserted(e)
    PROVE  Inserted(e)'
<1>1. SUFFICES ASSUME NEW k \in Lists, NEW p \in listed'[e][k], Belongs(e, k, p)'
               PROVE  rows'[e][k][p] > 0
  BY DEF Inserted
<1>0. rows[e] \in [Lists -> [Ids -> Nat]] /\ listed[e] \in [Lists -> SUBSET Ids]
  BY DEF TypeOK
<1>2. ASSUME p \in SharedIds PROVE Belongs(e, k, p)
  <2>1. p \in Ids /\ author[p] # Nil
    BY <1>2 DEF SharedIds
  <2>2. author'[p] = author[p]
    BY <2>1, RecordedAuthors
  <2> QED BY <1>1, <2>2 DEF Belongs
<1>3. CASE Quiet(e, N)
  <2>1. p \in listed[e][k] /\ rows'[e][k][p] = rows[e][k][p]
    BY <1>1, <1>3 DEF Quiet
  <2> QED BY <1>2, <2>1 DEF OfShared, Inserted
<1>4. CASE Called(e, N)
  <2>1. PICK l \in listeners[e] : /\ Given(e, l)
                                  /\ 1 \in 1..Len(mainQ[e]) /\ Head(mainQ[e]) = mainQ[e][1]
    BY <1>4, CalledList DEF TypeOK
  <2>2. CASE k # l.kind
    <3>1. p \in listed[e][k] /\ rows'[e][k] = rows[e][k]
      BY <1>1, <2>1, <2>2, GivenIs
    <3> QED BY <1>2, <3>1 DEF OfShared, Inserted
  <2>3. CASE k = l.kind
    <3> DEFINE S == Posted(Head(mainQ[e]).snap)
    <3>1. p \in S /\ S \subseteq SharedIds
      BY <1>1, <2>1, <2>3, GivenIs, PostedShared DEF OfShared
    <3>2. Belongs(e, k, p) /\ p \in Ids
      BY <1>2, <3>1 DEF SharedIds
    <3>3. rows'[e][k][p] = rows[e][k][p]
              + (IF p \in S \ listed[e][k] /\ Belongs(e, k, p) THEN 1 ELSE 0)
      BY <2>1, <2>3, <3>2, GivenIs
    <3>4. rows[e][k][p] \in Nat
      BY <1>0, <3>2
    <3>5. p \in listed[e][k] => rows[e][k][p] > 0
      BY <3>2 DEF Inserted
    <3> HIDE DEF S
    <3> QED BY <3>1, <3>2, <3>3, <3>4, <3>5
  <2> QED BY <2>2, <2>3
<1>5. CASE Closed(e)
  BY <1>1, <1>5 DEF Closed
<1> QED BY <1>3, <1>4, <1>5 DEF Local

-----------------------------------------------------------------------------
(* While the server refused nothing, a view only grows, and what a list    *)
(* was told of is in every event that is still on its way to it.           *)
Unrefused(d) ==
    /\ AllOk(inbox[d]) /\ Rising(mainQ[d], View(d))
    /\ \A k \in Lists :
           /\ InRows(d, k) \subseteq listed[d][k] /\ listed[d][k] \subseteq Posted(View(d))
           /\ \A i \in 1..Len(mainQ[d]) : listed[d][k] \subseteq Posted(mainQ[d][i].snap)

SightHolds(e) == Filled(View(e)) \subseteq Filled(View(e)') \/ Ended(e)

LEMMA UnrefusedSight ==
    ASSUME DBTypeOK, ListsInv, NEW d \in Devices, NEW M, DBStep(d, M), AllOk(inbox[d]), AllFill(d)',
           NEW e \in Devices
    PROVE  SightHolds(e)
<1>1. ~Refused(d)
  <2>1. ASSUME AckWrite(d) PROVE Head(inbox[d]).ok
    <3>1. inbox[d] # << >> /\ Head(inbox[d]).t = "ack" /\ inbox[d] \in Seq(Message)
      BY <2>1 DEF AckWrite, DBTypeOK
    <3>2. 1 \in Answers(inbox[d]) /\ Head(inbox[d]) = inbox[d][1]
      BY <3>1 DEF Answers
    <3> QED BY <3>2 DEF AllOk
  <2> QED BY <2>1 DEF Refused
<1>2. CASE ~Terminate(d)
  <2>1. \A x \in Devices : Grows(x, Bodies) /\ AllFill(x)
    BY DEF ListsInv, ListsAt
  <2> QED BY <1>1, <1>2, <2>1, SightGrows DEF SightHolds
<1>3. CASE Terminate(d)
  <2>1. CASE e = d
    BY <1>3, <2>1 DEF Terminate, Ended, DBTypeOK, SightHolds
  <2>2. CASE e # d
    <3>1. cache'[e] = cache[e] /\ pend'[e] = pend[e]
      BY <1>3, <2>2 DEF Terminate, DBTypeOK
    <3> QED BY <3>1 DEF SightHolds, View
  <2> QED BY <2>1, <2>2
<1> QED BY <1>2, <1>3

LEMMA LocalUnrefused ==
    ASSUME TypeOK, NEW d \in Devices, NEW M, DBStep(d, M), KeepsOk, NEW e \in Devices, NEW N,
           Local(e, N), Wired(e), Single(e), Unrefused(e), SightHolds(e)
    PROVE  Unrefused(e)'
<1>0. DBTypeOK /\ rows[e] \in [Lists -> [Ids -> Nat]] /\ listed[e] \in [Lists -> SUBSET Ids]
      /\ mainQ[e] \in Seq(Event)
  BY DEF TypeOK, DBTypeOK
<1>1. AllOk(inbox'[e])
  BY DEF KeepsOk, Unrefused
<1>2. Rising(mainQ'[e], View(e)')
  BY <1>0, StepRises DEF Unrefused, SightHolds
<1> DEFINE Kept(k) == /\ InRows(e, k)' \subseteq listed'[e][k] /\ listed'[e][k] \subseteq Posted(View(e)')
                      /\ \A i \in 1..Len(mainQ'[e]) : listed'[e][k] \subseteq Posted(mainQ'[e][i].snap)
<1>3. ASSUME NEW k \in Lists, InRows(e, k)' = {}, listed'[e][k] = {} PROVE Kept(k)
  BY <1>3
\* a set of posts that is in view and in every event of the queue stays so
<1>4. ASSUME NEW S, S \subseteq Posted(View(e)), Filled(View(e)) \subseteq Filled(View(e)'),
             \A j \in 1..Len(mainQ[e]) : S \subseteq Posted(mainQ[e][j].snap)
      PROVE  /\ S \subseteq Posted(View(e)')
             /\ \A i \in 1..Len(mainQ'[e]) : S \subseteq Posted(mainQ'[e][i].snap)
  <2>1. S \subseteq Posted(View(e)')
    <3> DEFINE v == View(e)
               v2 == View(e)'
    <3>1. Filled(v) \subseteq Filled(v2)
      BY <1>4
    <3> HIDE DEF v, v2
    <3>2. Posted(v) \subseteq Posted(v2)
      BY <3>1, PostedGrows
    <3> QED BY <1>4, <3>2 DEF v, v2
  <2> QED BY <1>0, <1>4, <2>1, StepShows
<1>5. ASSUME NEW k \in Lists PROVE Kept(k)
  <2>1. CASE Ended(e)
    <3>1. CASE Quiet(e, N)
      <4>1. listeners[e] = {} /\ listed'[e][k] = listed[e][k] /\ InRows(e, k)' = InRows(e, k)
        BY <2>1, <3>1 DEF Quiet, InRows
      <4> QED BY <1>3, <4>1 DEF Single
    <3>2. ~Called(e, N)
      BY <1>0, <2>1, CalledList DEF Called, Ended
    <3>3. CASE Closed(e)
      BY <1>3, <3>3 DEF Closed, NoRows, InRows
    <3> QED BY <3>1, <3>2, <3>3 DEF Local
  <2>2. CASE ~Ended(e) /\ Filled(View(e)) \subseteq Filled(View(e)')
    <3>1. /\ InRows(e, k) \subseteq listed[e][k] /\ listed[e][k] \subseteq Posted(View(e))
          /\ \A i \in 1..Len(mainQ[e]) : listed[e][k] \subseteq Posted(mainQ[e][i].snap)
      BY DEF Unrefused
    <3>2. CASE listed'[e][k] = listed[e][k] /\ rows'[e][k] = rows[e][k]
      <4>1. InRows(e, k)' = InRows(e, k)
        BY <3>2 DEF InRows
      <4> QED BY <1>4, <2>2, <3>1, <3>2, <4>1
    <3>3. CASE Called(e, N)
      <4>1. PICK l \in listeners[e] : /\ Given(e, l)
                                      /\ 1 \in 1..Len(mainQ[e]) /\ Head(mainQ[e]) = mainQ[e][1]
        BY <1>0, <3>3, CalledList
      <4>2. CASE k # l.kind
        BY <3>2, <4>1, <4>2, GivenIs
      <4>3. CASE k = l.kind
        <5> DEFINE S == Posted(mainQ[e][1].snap)
        <5>1. /\ Filled(mainQ[e][1].snap) \subseteq Filled(View(e))
              /\ \A j \in 1..Len(mainQ[e]) : Filled(mainQ[e][1].snap) \subseteq Filled(mainQ[e][j].snap)
          <6>1. Rising(mainQ[e], View(e))
            BY DEF Unrefused
          <6>2. \A j \in 1..Len(mainQ[e]) : j = 1 \/ 1 < j
            BY <1>0
          <6> QED BY <4>1, <6>1, <6>2 DEF Rising
        <5>2. S \subseteq Posted(View(e)) /\ \A j \in 1..Len(mainQ[e]) : S \subseteq Posted(mainQ[e][j].snap)
          BY <5>1, PostedGrows
        <5>3. listed'[e][k] = S
          BY <4>1, <4>3, GivenIs
        <5>4. \A p \in Ids : rows'[e][k][p] = rows[e][k][p]
                  + (IF p \in S \ listed[e][k] /\ Belongs(e, k, p) THEN 1 ELSE 0)
          BY <4>1, <4>3, GivenIs
        <5>5. listed[e][k] \subseteq S
          BY <3>1, <4>1
        <5> HIDE DEF S
        <5>6. InRows(e, k)' \subseteq S
          BY <1>0, <3>1, <5>4, <5>5 DEF InRows
        <5> QED BY <1>4, <2>2, <5>2, <5>3, <5>6
      <4> QED BY <4>2, <4>3
    <3>4. CASE Quiet(e, N)
      BY <3>2, <3>4 DEF Quiet
    <3> QED BY <2>2, <3>3, <3>4 DEF Local, Closed
  <2> QED BY <2>1, <2>2 DEF SightHolds
<1> QED BY <1>1, <1>2, <1>5 DEF Unrefused

-----------------------------------------------------------------------------
(* The invariant holds.                                                    *)
LEMMA InitLists == Init => ListsInv /\ \A d \in Devices : Unrefused(d)
<1> SUFFICES ASSUME Init PROVE ListsInv /\ \A d \in Devices : Unrefused(d)
  OBVIOUS
<1>0. /\ server = NoTree /\ author = [p \in Ids |-> Nil]
      /\ \A d \in Devices :
             /\ cache[d] = NoTree /\ pend[d] = << >> /\ inbox[d] = << >> /\ mainQ[d] = << >>
             /\ sub[d] = "off" /\ listeners[d] = {} /\ post[d] = Nil
             /\ listed[d] = [k \in Lists |-> {}] /\ rows[d] = NoRows
  BY DEF Init, DBInit
<1>1. Filled(NoTree) = {}
  BY DEF Filled, NoTree
<1>2. Len(<< >>) = 0 /\ Answers(<< >>) = {} /\ DataIn(<< >>) = {}
  BY DEF Answers, DataIn
<1>3. InSync /\ ListensFirst /\ Once(Bodies) /\ Filled(server) \subseteq SharedKeys
  BY <1>0, <1>1, <1>2 DEF InSync, ListensFirst, Once
<1>4. ASSUME NEW d \in Devices PROVE ListsAt(d) /\ Unrefused(d)
  <2>1. Wired(d) /\ Current(d) /\ AllFill(d)
    BY <1>0, <1>2 DEF Wired, Current, AllFill
  <2>2. Grows(d, Bodies)
    BY <1>0, <1>1, <1>2 DEF Grows, Growing
  <2>3. \A k \in Lists : InRows(d, k) = {} /\ listed[d][k] = {}
    BY <1>0 DEF NoRows, InRows
  <2>4. Single(d) /\ Follows(d) /\ OfShared(d) /\ Inserted(d)
    BY <1>0, <1>2, <2>3 DEF Single, Follows, OfShared, Inserted
  <2>5. Unrefused(d)
    BY <1>0, <1>2, <2>3 DEF Unrefused, AllOk, Rising
  <2> QED BY <2>1, <2>2, <2>4, <2>5 DEF ListsAt
<1> QED BY <1>3, <1>4 DEF ListsInv

\* the server, too, holds what was shared and nothing else
LEMMA ServerShared ==
    ASSUME TypeOK, AuthorInv, Filled(server) \subseteq SharedKeys,
           NEW d \in Devices, NEW M, DBStep(d, M), Recorded(d)
    PROVE  Filled(server') \subseteq SharedKeys'
<1>0. pend[d] \in Seq(Write)
  BY DEF TypeOK, DBTypeOK
<1>1. PICK S : S = SharedKeys
  OBVIOUS
<1>2. ASSUME NEW i \in 1..Len(pend[d]), NEW k \in DOMAIN pend[d][i] PROVE k \in S
  <2>1. k \in Keys
    BY <1>0, <1>2 DEF Write
  <2>2. PICK p \in Ids : k \in Place(p)
    BY <2>1, PartsAssumption
  <2>3. author[p] = uid[d]
    BY <1>2, <2>2 DEF AuthorInv, Authored, Touched, Own
  <2>4. p \in SharedIds
    BY <2>3, UsersAssumption DEF SharedIds
  <2> QED BY <1>1, <2>2, <2>4 DEF SharedKeys
<1>3. Filled(server') \subseteq S
  BY <1>1, <1>2, ServerWithin DEF TypeOK
<1>4. S \subseteq SharedKeys'
  BY <1>1, RecordedAuthors, PartsAssumption
<1> QED BY <1>3, <1>4

LEMMA StepLists ==
    ASSUME TypeOK, AuthorInv, ListsInv, TypeOK', AuthorInv',
           NEW d \in Devices, NEW M, ListStep(d, M)
    PROVE  ListsInv'
<1>0. /\ DBStep(d, M) /\ Recorded(d) /\ DBTypeOK
      /\ \A e \in Devices : Local(e, IF e = d THEN M ELSE {})
      /\ \A e \in Devices : ListsAt(e)
      /\ \A e \in Devices : Grows(e, Bodies) /\ AllFill(e)
      /\ InSync /\ ListensFirst /\ Once(Bodies)
  BY DEF ListStep, ListsInv, ListsAt, TypeOK
<1>1. InSync' /\ ListensFirst' /\ Once(Bodies)'
  BY <1>0, StepInSync, StepListensFirst, RecordedOnce
<1>2. Filled(server') \subseteq SharedKeys'
  BY <1>0, ServerShared DEF ListsInv
<1>3. ASSUME NEW e \in Devices PROVE ListsAt(e)'
  <2> DEFINE N == IF e = d THEN M ELSE {}
  <2>1. Local(e, N)
    BY <1>0
  <2>2. Wired(e) /\ Current(e) /\ AllFill(e) /\ Single(e) /\ Follows(e) /\ OfShared(e) /\ Inserted(e)
    BY <1>0 DEF ListsAt
  <2>3. Wired(e)' /\ Current(e)' /\ AllFill(e)'
    BY <1>0, <2>2, StepWired, StepTells, RecordedFills
  <2>4. Grows(e, Bodies)'
    BY <1>0, StepGrows
  <2>5. Single(e)'
    BY <1>0, <2>1, <2>2, LocalSingle
  <2>6. Follows(e)'
    BY <1>0, <2>1, <2>2, LocalFollows
  <2>7. OfShared(e)'
    BY <1>0, <1>2, <2>1, <2>2, <2>3, <2>4, LocalShared
  <2>8. Inserted(e)'
    BY <1>0, <2>1, <2>2, LocalInserted
  <2> QED BY <2>3, <2>4, <2>5, <2>6, <2>7, <2>8 DEF ListsAt
<1> QED BY <1>1, <1>2, <1>3 DEF ListsInv

LEMMA NextLists == TypeOK /\ AuthorInv /\ ListsInv /\ [Next]_vars => ListsInv'
<1> SUFFICES ASSUME TypeOK, AuthorInv, ListsInv, [Next]_vars PROVE ListsInv'
  OBVIOUS
<1>1. TypeOK' /\ AuthorInv'
  BY NextTypeOK, NextAuthors
<1>2. Ready
  BY DEF Ready, ListsInv, ListsAt
<1>3. CASE Next
  BY <1>1, <1>2, <1>3, NextIsStep, StepLists
<1>4. CASE UNCHANGED vars
  <2>1. /\ UNCHANGED <<server, cache, known, pend, inbox, sub, listeners, mainQ>>
        /\ UNCHANGED <<author, listed, rows, post>>
    BY <1>4 DEF vars, dbVars, screenVars
  <2>2. InSync' /\ ListensFirst' /\ Once(Bodies)' /\ Filled(server') \subseteq SharedKeys'
    BY <2>1 DEF ListsInv, InSync, ListensFirst, Once, SharedKeys, SharedIds
  <2>3. ASSUME NEW d \in Devices PROVE ListsAt(d)'
    <3>1. ListsAt(d)
      BY DEF ListsInv
    <3>2. Wired(d)' /\ Current(d)' /\ AllFill(d)' /\ Grows(d, Bodies)'
      BY <2>1, <3>1 DEF ListsAt, Wired, Current, AllFill, Grows, View
    <3>3. Single(d)' /\ Follows(d)' /\ OfShared(d)'
      BY <2>1, <3>1 DEF ListsAt, Single, Follows, OfShared, View, InRows, SharedKeys, SharedIds
    <3>4. Inserted(d)'
      BY <2>1, <3>1 DEF ListsAt, Inserted, Belongs
    <3> QED BY <3>2, <3>3, <3>4 DEF ListsAt
  <2> QED BY <2>2, <2>3 DEF ListsInv
<1> QED BY <1>3, <1>4

UnrefusedInv ==
    /\ budget.refusals <= MaxRefusals
    /\ budget.refusals = MaxRefusals => \A d \in Devices : Unrefused(d)

LEMMA NextUnrefused ==
    TypeOK /\ AuthorInv /\ ListsInv /\ UnrefusedInv /\ [Next]_vars => UnrefusedInv'
<1> SUFFICES ASSUME TypeOK, AuthorInv, ListsInv, UnrefusedInv, [Next]_vars PROVE UnrefusedInv'
  OBVIOUS
<1>0. budget.refusals \in Nat /\ MaxRefusals \in Nat /\ budget.refusals <= MaxRefusals
  BY BudgetAssumption DEF TypeOK, Budgets, UnrefusedInv
<1>1. ASSUME NEW d \in Devices, Refuse(d) PROVE budget'.refusals = budget.refusals - 1
  BY <1>1 DEF Refuse, Spend, TypeOK, Budgets
<1>2. ASSUME \A d \in Devices : ~Refuse(d) PROVE budget'.refusals = budget.refusals
  BY <1>2 DEF Next, Touch, MainQueue, SharePost, OpenHome, OpenProfile, OpenDetail, Type,
              buttonUpdate, Cancel, ListCallback, DetailCallback, FieldMissing, Receive, Listening,
              Accept, Reconnect, Kill, Spend, vars, TypeOK, Budgets
<1>3. CASE \E d \in Devices : Refuse(d)
  BY <1>0, <1>1, <1>3 DEF UnrefusedInv
<1>4. CASE (\A d \in Devices : ~Refuse(d)) /\ Next
  <2>1. SUFFICES ASSUME budget.refusals = MaxRefusals, NEW e \in Devices PROVE Unrefused(e)'
    BY <1>0, <1>2, <1>4 DEF UnrefusedInv
  <2>2. Ready
    BY DEF Ready, ListsInv, ListsAt
  <2>p. PICK d \in Devices : \E M : ListStep(d, M)
    BY <1>4, <2>2, NextIsStep
  <2>3. PICK M : ListStep(d, M)
    BY <2>p
  <2> DEFINE N == IF e = d THEN M ELSE {}
  <2>4. DBStep(d, M) /\ Recorded(d) /\ Local(e, N) /\ KeepsOk /\ DBTypeOK
    BY <1>4, <2>3 DEF ListStep, TypeOK
  <2>5. AllFill(d) /\ Wired(e) /\ Single(e) /\ Unrefused(e) /\ Unrefused(d)
    BY <2>1 DEF ListsInv, ListsAt, UnrefusedInv
  <2>6. SightHolds(e)
    BY <2>4, <2>5, RecordedFills, UnrefusedSight DEF Unrefused
  <2> HIDE DEF N
  <2> QED BY <2>4, <2>5, <2>6, LocalUnrefused
<1>5. CASE UNCHANGED vars
  BY <1>5 DEF vars, dbVars, screenVars, UnrefusedInv, Unrefused, View, InRows
<1> QED BY <1>3, <1>4, <1>5

(* A list that nothing is under way for shows every post of the server it  *)
(* should, whatever was lost, refused or killed on the way there; and      *)
(* none but those as long as the server refused nothing, since its rows    *)
(* are for posts its view once had and a view loses none (loadPosts and    *)
(* loadMyPost, which add rows at .childAdded only).                        *)
THEOREM ListsAreRight == Spec => []ListsRight
<1>1. ASSUME TypeOK, AuthorInv, ListsInv, UnrefusedInv PROVE ListsRight
  <2>1. SUFFICES ASSUME NEW d \in Devices, NEW k \in Lists, Settled(d, k)
                 PROVE  /\ Due(d, k) \subseteq InRows(d, k)
                        /\ budget.refusals = MaxRefusals => InRows(d, k) \subseteq Due(d, k)
    BY DEF ListsRight
  <2>2. ListsAt(d) /\ InSync /\ DBTypeOK
    BY <1>1 DEF ListsInv, TypeOK
  <2>3. PICK l \in listeners[d] : l.kind = k
    BY <2>1 DEF Settled, Registered
  <2>4. EventsFor(mainQ[d], l) = {}
    BY <2>1, <2>3 DEF Settled, EventsFor
  <2>5. View(d) = server
    BY <2>1, <2>2, IdleViewIsServer DEF Settled
  <2>6. listed[d][k] = Posted(server)
    BY <2>2, <2>3, <2>4, <2>5 DEF ListsAt, Follows, IsList
  <2>7. Due(d, k) \subseteq InRows(d, k)
    BY <2>2, <2>6 DEF ListsAt, Inserted, Due, InRows, Posted
  <2>8. ASSUME budget.refusals = MaxRefusals, NEW p \in InRows(d, k) PROVE p \in Due(d, k)
    <3>1. p \in Posted(server)
      BY <1>1, <2>6, <2>8 DEF UnrefusedInv, Unrefused
    <3>2. k = "mine" => author[p] = uid[d]
      BY <1>1, <2>8 DEF InRows, AuthorInv, Authored, Shown, Own
    <3>3. k = "home" \/ k = "mine"
      BY KindsAssumption
    <3> QED BY <3>1, <3>2, <3>3 DEF Due, Belongs
  <2> QED BY <2>7, <2>8
<1>2. Init => UnrefusedInv
  <2>1. Init => budget.refusals = MaxRefusals /\ MaxRefusals \in Nat
    BY BudgetAssumption DEF Init
  <2> QED BY <2>1, InitLists DEF UnrefusedInv
<1> QED BY <1>1, <1>2, InitTypeOK, NextTypeOK, InitAuthors, NextAuthors, InitLists, NextLists,
           NextUnrefused, PTL DEF Spec

-----------------------------------------------------------------------------
(* A post gets a row when its body is there.  A list that has forgotten    *)
(* the post adds another one should the body come again; but what leaves a *)
(* view was refused, and nobody writes it any more.                        *)
Gone(p) ==
    /\ author[p] # Nil /\ Body(p) \notin Filled(server)
    /\ \A e \in Devices : \A i \in 1..Len(pend[e]) : Body(p) \notin DOMAIN pend[e][i]

Rowed(d, p) == \E k \in Lists : rows[d][k][p] > 0

\* what was seen once, in a row or in an event, is in every event after it and
\* in view, or gone; and what a list has a row for but forgot shows nowhere
Law(d, p) ==
    /\ Lasting(mainQ[d], View(d), Body(p), Gone(p), Rowed(d, p))
    /\ \A k \in Lists :
           /\ rows[d][k][p] <= 1
           /\ rows[d][k][p] > 0 /\ p \notin listed[d][k] => Lost(mainQ[d], View(d), Body(p))

RowsInv == \A d \in Devices, p \in Ids : Law(d, p)

LEMMA GoneForGood ==
    ASSUME TypeOK, NEW d \in Devices, NEW M, DBStep(d, M), Recorded(d), NEW p \in Ids, Gone(p)
    PROVE  Gone(p)'
<1>0. DBTypeOK /\ server \in Tree /\ \A e \in Devices : pend[e] \in Seq(Write) /\ Len(pend[e]) \in Nat
  BY DEF TypeOK, DBTypeOK
<1>1. author'[p] # Nil
  BY RecordedAuthors DEF Gone
<1>2. Body(p) \notin Filled(server')
  <2> DEFINE S == Keys \ {Body(p)}
  <2>1. Filled(server) \subseteq S
    BY DEF Gone, Filled
  <2>2. ASSUME NEW i \in 1..Len(pend[d]) PROVE DOMAIN pend[d][i] \subseteq S
    <3>1. pend[d][i] \in Write
      BY <1>0
    <3>2. DOMAIN pend[d][i] \subseteq Keys
      BY <3>1 DEF Write
    <3> QED BY <3>2 DEF Gone
  <2> HIDE DEF S
  <2>3. Filled(server') \subseteq S
    BY <1>0, <2>1, <2>2, ServerWithin
  <2> QED BY <2>3 DEF S
<1>3. ASSUME NEW i \in 1..Len(pend'[d]) PROVE Body(p) \notin DOMAIN pend'[d][i]
  <2>1. ASSUME NEW s \in {0, 1},
               \A j \in 1..Len(pend'[d]) : j + s \in 1..Len(pend[d]) /\ pend'[d][j] = pend[d][j + s]
        PROVE  Body(p) \notin DOMAIN pend'[d][i]
    BY <2>1 DEF Gone
  <2>2. ASSUME NEW w, Len(pend'[d]) = Len(pend[d]) + 1, pend'[d][Len(pend[d]) + 1] = w,
               \A j \in 1..Len(pend[d]) : pend'[d][j] = pend[d][j], Body(p) \notin DOMAIN w
        PROVE  Body(p) \notin DOMAIN pend'[d][i]
    <3>1. i \in 1..Len(pend[d]) \/ i = Len(pend[d]) + 1
      BY <1>0, <2>2
    <3> QED BY <2>2, <3>1 DEF Gone
  <2>3. Body(p) \in Bodies
    BY DEF Bodies
  <2>4. ASSUME NEW q \in Ids, author[q] = Nil PROVE Body(p) \notin Place(q)
    BY <2>4, Parts, Apart DEF Gone
  <2> QED BY <1>0, <2>1, <2>2, <2>3, <2>4, RecordedWrites
<1>4. \A e \in Devices : e # d => pend'[e] = pend[e]
  BY DEF Recorded
<1>5. \A e \in Devices : \A i \in 1..Len(pend'[e]) : Body(p) \notin DOMAIN pend'[e][i]
  BY <1>3, <1>4 DEF Gone
<1> QED BY <1>1, <1>2, <1>5 DEF Gone

LEMMA GoneUnseen ==
    ASSUME DBTypeOK', NEW e \in Devices, AllFill(e)', Grows(e, Bodies)', NEW p \in Ids, Gone(p)'
    PROVE  Body(p) \notin Filled(View(e)')
<1>0. cache'[e] \in Tree /\ pend'[e] \in Seq(Write)
  BY DEF DBTypeOK
<1>1. \A i \in 1..Len(pend'[e]) : Filling(pend'[e][i])
  BY DEF AllFill
<1>2. Filled(Overlay(cache'[e], pend'[e])) =
          Filled(cache'[e]) \cup UNION {DOMAIN pend'[e][i] : i \in 1..Len(pend'[e])}
  BY <1>0, <1>1, FilledOverlay
<1>3. Body(p) \notin Filled(cache'[e])
  BY DEF Gone, Grows, Growing
<1> QED BY <1>2, <1>3 DEF View, Gone

\* what leaves a view is gone
LEMMA LeftIsGone ==
    ASSUME TypeOK, TypeOK', AuthorInv, ListsInv, NEW d \in Devices, NEW M, DBStep(d, M), Recorded(d),
           AllFill(d)', NEW e \in Devices, ~Ended(e), NEW p \in Ids,
           Body(p) \in Filled(View(e)), Body(p) \notin Filled(View(e)')
    PROVE  Gone(p)'
<1> DEFINE b == Body(p)
<1>0. /\ DBTypeOK /\ b \in Bodies /\ Once(Bodies)
      /\ \A x \in Devices : Grows(x, Bodies) /\ AllFill(x)
  BY DEF TypeOK, ListsInv, ListsAt, Bodies
<1>1. ASSUME cache'[e] = cache[e], pend'[e] = pend[e] PROVE FALSE
  BY <1>1 DEF View
<1>2. ~Terminate(d)
  <2>1. ASSUME Terminate(d) PROVE FALSE
    <3>1. e # d
      BY <1>0, <2>1 DEF Terminate, Ended, DBTypeOK
    <3> QED BY <1>0, <1>1, <2>1, <3>1 DEF Terminate, DBTypeOK
  <2> QED BY <2>1
<1>3. b \notin Filled(server) /\ Refused(d)
  BY <1>0, <1>2, SightGrows
<1>4. AckWrite(d) /\ server' = server /\ cache' = cache /\ pend' = [pend EXCEPT ![d] = Tail(pend[d])]
      /\ pend[d] # << >>
  BY <1>0, <1>3, AckWriteType DEF Refused, AckWrite, WithoutOldest
<1>5. e = d
  BY <1>0, <1>1, <1>4 DEF DBTypeOK
<1>6. cache[d] \in Tree /\ pend[d] \in Seq(Write) /\ pend'[d] = Tail(pend[d]) /\ cache'[d] = cache[d]
  BY <1>0, <1>4 DEF DBTypeOK
<1>7. PICK i \in 1..Len(pend[d]) : b \in DOMAIN pend[d][i]
  <2>1. Filled(Overlay(cache[d], pend[d])) =
            Filled(cache[d]) \cup UNION {DOMAIN pend[d][i] : i \in 1..Len(pend[d])}
    BY <1>0, <1>6, FilledOverlay DEF AllFill
  <2>2. b \notin Filled(cache[d])
    BY <1>0, <1>3 DEF Grows, Growing
  <2> QED BY <1>5, <2>1, <2>2 DEF View
<1>8. author'[p] # Nil
  <2>1. p \in Touched(pend[d][i])
    BY <1>7, Parts DEF Touched
  <2>2. author[p] # Nil
    BY <2>1, UsersAssumption DEF AuthorInv, Authored, Own
  <2> QED BY <2>2, RecordedAuthors
<1>9. \A j \in 1..Len(pend'[d]) : b \notin DOMAIN pend'[d][j]
  <2>1. pend'[d] \in Seq(Write) /\ \A j \in 1..Len(pend'[d]) : Filling(pend'[d][j])
    BY DEF TypeOK, DBTypeOK, AllFill
  <2>2. Filled(Overlay(cache'[d], pend'[d])) =
            Filled(cache'[d]) \cup UNION {DOMAIN pend'[d][j] : j \in 1..Len(pend'[d])}
    BY <1>6, <2>1, FilledOverlay
  <2> QED BY <1>5, <2>2 DEF View
<1>10. ASSUME NEW x \in Devices, NEW j \in 1..Len(pend'[x]) PROVE b \notin DOMAIN pend'[x][j]
  <2>1. CASE x = d
    BY <1>9, <2>1
  <2>2. CASE x # d
    <3>1. pend'[x] = pend[x]
      BY <1>0, <1>4, <2>2 DEF DBTypeOK
    <3> QED BY <1>0, <1>7, <2>2, <3>1 DEF Once
  <2> QED BY <2>1, <2>2
<1> QED BY <1>3, <1>4, <1>8, <1>10 DEF Gone

LEMMA StaysLost ==
    ASSUME DBTypeOK, NEW d \in Devices, NEW M, DBStep(d, M), NEW e \in Devices, NEW k,
           Lost(mainQ[e], View(e), k), k \notin Filled(View(e)')
    PROVE  Lost(mainQ'[e], View(e)', k)
<1>1. ASSUME NEW i \in 1..Len(mainQ'[e]) PROVE ~Has(mainQ'[e], i, k)
  BY <1>1, StepShows DEF Lost, Has
<1> QED BY <1>1 DEF Lost

\* a row more is a row for a post whose body the next event shows and that the
\* list has not, or no longer, been told of
LEMMA NewRow ==
    ASSUME TypeOK, NEW e \in Devices, NEW N, Local(e, N), Wired(e), Single(e), ~Ended(e),
           NEW k \in Lists, NEW p \in Ids
    PROVE  \/ rows'[e][k][p] = rows[e][k][p] /\ listed'[e][k] = listed[e][k]
           \/ /\ mainQ[e] # << >> /\ listed'[e][k] = Posted(mainQ[e][1].snap)
              /\ \/ rows'[e][k][p] = rows[e][k][p]
                 \/ /\ rows'[e][k][p] = rows[e][k][p] + 1 /\ p \notin listed[e][k]
                    /\ p \in listed'[e][k] /\ Has(mainQ[e], 1, Body(p))
<1>1. CASE Quiet(e, N)
  BY <1>1 DEF Quiet
<1>2. CASE Called(e, N)
  <2>1. PICK l \in listeners[e] : /\ Given(e, l)
                                  /\ 1 \in 1..Len(mainQ[e]) /\ Head(mainQ[e]) = mainQ[e][1]
    BY <1>2, CalledList DEF TypeOK
  <2>2. CASE k # l.kind
    BY <2>1, <2>2, GivenIs
  <2>3. CASE k = l.kind
    <3> DEFINE snap == mainQ[e][1].snap
    <3>1. /\ listed'[e][k] = Posted(snap)
          /\ \A q \in Posted(snap) \ listed[e][k] : Whole(snap, q)
          /\ rows'[e][k][p] = rows[e][k][p]
                 + (IF p \in Posted(snap) \ listed[e][k] /\ Belongs(e, k, p) THEN 1 ELSE 0)
      BY <2>1, <2>3, GivenIs
    <3>2. rows[e][k][p] \in Nat
      BY DEF TypeOK
    <3>3. Whole(snap, p) => Has(mainQ[e], 1, Body(p))
      BY PostedFilled DEF Has
    <3>4. mainQ[e] # << >>
      BY <1>2 DEF Called
    <3> HIDE DEF snap
    <3> QED BY <3>1, <3>2, <3>3, <3>4 DEF snap
  <2> QED BY <2>2, <2>3
<1>3. ~Closed(e)
  BY DEF Closed
<1> QED BY <1>1, <1>2, <1>3 DEF Local

LEMMA StepRows ==
    ASSUME TypeOK, TypeOK', AuthorInv, ListsInv, ListsInv', NEW d \in Devices, NEW M, ListStep(d, M),
           NEW e \in Devices, NEW p \in Ids, Law(e, p)
    PROVE  Law(e, p)'
<1> DEFINE b == Body(p)
           N == IF e = d THEN M ELSE {}
<1>0. /\ DBTypeOK /\ DBStep(d, M) /\ Recorded(d) /\ Local(e, N)
      /\ Wired(e) /\ Single(e) /\ AllFill(d)' /\ AllFill(e)' /\ Grows(e, Bodies)'
      /\ mainQ[e] \in Seq(Event) /\ rows[e] \in [Lists -> [Ids -> Nat]]
  BY DEF TypeOK, DBTypeOK, ListStep, ListsInv, ListsAt
<1> HIDE DEF N
<1>1. CASE Ended(e)
  <2>1. mainQ'[e] = << >> /\ \A k \in Lists : rows'[e][k][p] = 0
    <3>1. CASE Quiet(e, N)
      <4>1. listeners[e] = {} /\ rows'[e] = rows[e] /\ mainQ'[e] = << >>
        BY <1>1, <3>1 DEF Quiet, Ended
      <4>2. ASSUME NEW k \in Lists PROVE rows[e][k][p] = 0
        <5>1. InRows(e, k) = {}
          BY <1>0, <4>1 DEF Single
        <5>2. ~(rows[e][k][p] > 0) /\ rows[e][k][p] \in Nat
          BY <1>0, <5>1 DEF InRows
        <5> QED BY <5>2
      <4> QED BY <4>1, <4>2
    <3>2. ~Called(e, N)
      BY <1>0, <1>1, CalledList DEF Called, Ended
    <3>3. CASE Closed(e)
      BY <1>1, <3>3 DEF Closed, NoRows, Ended
    <3> QED BY <1>0, <3>1, <3>2, <3>3 DEF Local
  <2>2. ~Rowed(e, p)'
    BY <2>1 DEF Rowed
  <2>3. Lasting(mainQ'[e], View(e)', b, Gone(p)', Rowed(e, p)')
    BY <2>1, <2>2 DEF Lasting, Seen
  <2> QED BY <2>1, <2>3 DEF Law
<1>2. CASE ~Ended(e)
  <2>1. Gone(p) => Gone(p)'
    BY <1>0, GoneForGood
  <2>2. Gone(p)' => b \notin Filled(View(e)')
    BY <1>0, GoneUnseen DEF TypeOK
  <2>3. b \in Filled(View(e)) /\ b \notin Filled(View(e)') => Gone(p)'
    BY <1>0, <1>2, LeftIsGone
  <2>4. Lasting(mainQ[e], View(e), b, Gone(p), Rowed(e, p))
    BY DEF Law
  <2>5. \A k \in Lists :
            \/ rows'[e][k][p] = rows[e][k][p] /\ listed'[e][k] = listed[e][k]
            \/ /\ mainQ[e] # << >> /\ listed'[e][k] = Posted(mainQ[e][1].snap)
               /\ \/ rows'[e][k][p] = rows[e][k][p]
                  \/ /\ rows'[e][k][p] = rows[e][k][p] + 1 /\ p \notin listed[e][k]
                     /\ p \in listed'[e][k] /\ Has(mainQ[e], 1, b)
    BY <1>0, <1>2, NewRow
  <2>6. Rowed(e, p)' => Rowed(e, p) \/ (mainQ[e] # << >> /\ Has(mainQ[e], 1, b))
    BY <2>5 DEF Rowed
  <2>7. Lasting(mainQ'[e], View(e)', b, Gone(p)', Rowed(e, p)')
    BY <1>0, <1>2, <2>1, <2>2, <2>3, <2>4, <2>6, StepLasts
  <2>8. ASSUME Rowed(e, p), Lost(mainQ[e], View(e), b) PROVE Lost(mainQ'[e], View(e)', b)
    <3>1. Gone(p)
      <4>1. Len(mainQ[e]) \in Nat
        BY <1>0
      <4>2. 0 \in 0..Len(mainQ[e]) /\ Seen(mainQ[e], Rowed(e, p), b, 0)
        BY <2>8, <4>1 DEF Seen
      <4> QED BY <2>4, <2>8, <4>2 DEF Lasting, Lost
    <3> QED BY <1>0, <2>1, <2>2, <2>8, <3>1, StaysLost
  <2>9. ASSUME Rowed(e, p), mainQ[e] # << >>, ~Has(mainQ[e], 1, b) PROVE Lost(mainQ[e], View(e), b)
    <3>1. Len(mainQ[e]) \in Nat /\ 1 \in 1..Len(mainQ[e]) /\ 1 > 0 /\ 0 \in 0..Len(mainQ[e])
      BY <1>0, <2>9
    <3>2. Seen(mainQ[e], Rowed(e, p), b, 0)
      BY <2>9 DEF Seen
    <3>3. Fading(mainQ[e], View(e), b, 0)
      BY <2>4, <3>1, <3>2 DEF Lasting
    <3>4. b \notin Filled(View(e)) /\ \A m \in 1..Len(mainQ[e]) : m > 1 => ~Has(mainQ[e], m, b)
      BY <2>9, <3>1, <3>3 DEF Fading
    <3>5. \A m \in 1..Len(mainQ[e]) : m = 1 \/ m > 1
      BY <3>1
    <3> QED BY <2>9, <3>4, <3>5 DEF Lost
  <2>10. ASSUME NEW k \in Lists
         PROVE  /\ rows'[e][k][p] <= 1
                /\ rows'[e][k][p] > 0 /\ p \notin listed'[e][k] => Lost(mainQ'[e], View(e)', b)
    <3>0. rows[e][k][p] \in Nat
      BY <1>0
    <3>1. /\ rows[e][k][p] <= 1
          /\ rows[e][k][p] > 0 /\ p \notin listed[e][k] => Lost(mainQ[e], View(e), b)
      BY DEF Law
    <3>2. rows[e][k][p] > 0 => Rowed(e, p)
      BY DEF Rowed
    <3>3. CASE rows'[e][k][p] = rows[e][k][p] /\ listed'[e][k] = listed[e][k]
      BY <2>8, <3>1, <3>2, <3>3
    <3>4. CASE /\ mainQ[e] # << >> /\ listed'[e][k] = Posted(mainQ[e][1].snap)
               /\ rows'[e][k][p] = rows[e][k][p]
      <4>1. ASSUME rows[e][k][p] > 0, p \notin listed'[e][k] PROVE Lost(mainQ'[e], View(e)', b)
        <5>1. ~Has(mainQ[e], 1, b)
          BY <3>4, <4>1, PostedFilled DEF Has
        <5> QED BY <2>8, <2>9, <3>2, <3>4, <4>1, <5>1
      <4> QED BY <3>1, <3>4, <4>1
    <3>5. CASE /\ rows'[e][k][p] = rows[e][k][p] + 1 /\ p \notin listed[e][k]
               /\ p \in listed'[e][k] /\ mainQ[e] # << >> /\ Has(mainQ[e], 1, b)
      <4>1. Len(mainQ[e]) \in Nat /\ 1 \in 1..Len(mainQ[e])
        BY <1>0, <3>5
      <4>2. ~Lost(mainQ[e], View(e), b)
        BY <3>5, <4>1 DEF Lost
      <4>3. rows[e][k][p] = 0
        BY <3>0, <3>1, <3>5, <4>2
      <4> QED BY <3>5, <4>3
    <3> QED BY <2>5, <3>3, <3>4, <3>5
  <2> QED BY <2>7, <2>10 DEF Law
<1> QED BY <1>1, <1>2

LEMMA InitRows == Init => RowsInv
<1> SUFFICES ASSUME Init, NEW d \in Devices, NEW p \in Ids PROVE Law(d, p)
  BY DEF RowsInv
<1>1. mainQ[d] = << >> /\ \A k \in Lists : rows[d][k][p] = 0
  BY DEF Init, DBInit, NoRows
<1>2. ~Rowed(d, p)
  BY <1>1 DEF Rowed
<1> QED BY <1>1, <1>2 DEF Law, Lasting, Seen

LEMMA NextRows == TypeOK /\ AuthorInv /\ ListsInv /\ RowsInv /\ [Next]_vars => RowsInv'
<1> SUFFICES ASSUME TypeOK, AuthorInv, ListsInv, RowsInv, [Next]_vars, NEW e \in Devices, NEW p \in Ids
             PROVE  Law(e, p)'
  BY DEF RowsInv
<1>1. TypeOK' /\ ListsInv' /\ Law(e, p)
  BY NextTypeOK, NextLists DEF RowsInv
<1>2. Ready
  BY DEF Ready, ListsInv, ListsAt
<1>3. CASE Next
  <2>p. PICK d \in Devices : \E M : ListStep(d, M)
    BY <1>2, <1>3, NextIsStep
  <2>1. PICK M : ListStep(d, M)
    BY <2>p
  <2> QED BY <1>1, <2>1, StepRows
<1>4. CASE UNCHANGED vars
  <2>1. UNCHANGED <<server, cache, pend, mainQ, author, listed, rows>>
    BY <1>4 DEF vars, dbVars, screenVars
  <2>2. View(e)' = View(e) /\ Gone(p)' = Gone(p) /\ Rowed(e, p)' = Rowed(e, p)
    BY <2>1 DEF View, Gone, Rowed
  <2> QED BY <1>1, <2>1, <2>2 DEF Law
<1> QED BY <1>3, <1>4

(* No list has two rows for a post: not after a reconnection, which brings *)
(* the same value again, and not after a refusal, which takes a post from  *)
(* the view of a list that keeps its row (the callbacks append at every    *)
(* .childAdded and compare nothing with the rows they have).               *)
THEOREM NoDuplicates == Spec => []NoDuplicateRows
<1>1. RowsInv => NoDuplicateRows
  BY DEF RowsInv, Law, NoDuplicateRows
<1> QED BY <1>1, InitTypeOK, NextTypeOK, InitAuthors, NextAuthors, InitLists, NextLists,
           InitRows, NextRows, PTL DEF Spec

=============================================================================
