------------------------ MODULE ParticipationProofs -------------------------
(***************************************************************************)
(* Proofs about the screen of a post and its participant list.             *)
(***************************************************************************)
EXTENDS Participation, RealtimeDBProofs

-----------------------------------------------------------------------------
(* Type correctness.                                                       *)
LEMMA EntryType ==
    ASSUME NEW u \in Users
    PROVE  Entry(u) \in Write /\ DOMAIN Entry(u) = {u} /\ Entry(u)[u] # Nil
<1>1. Entry(u) \in [{u} -> Vals \cup {Nil}] /\ {u} \in SUBSET Keys
  BY EntryAssumption DEF Entry, Users
<1>2. Entry(u) \in Write
  BY <1>1 DEF Write
<1> QED BY <1>2, EntryAssumption, NilAssumption DEF Entry

\* btnNotParticipate's callback never finds the user's id (ListUid)
LEMMA NeverLeaves ==
    ASSUME NEW d \in Devices, NEW snap
    PROVE  ListUid(d, snap) # uid[d]
  BY NilAssumption, UsersAssumption DEF ListUid, Users

LEMMA PlacesHere == Root \in Places /\ \A d \in Devices : {uid[d]} \in Places
<1>1. Keys # {} /\ \A d \in Devices : uid[d] \in Keys
  BY UsersAssumption DEF Users
<1>2. \A d \in Devices : {uid[d]} \subseteq Keys /\ {uid[d]} # {}
  BY <1>1
<1>3. \A S \in SUBSET Keys : S # {} => S \in Places
  BY DEF Places
<1> QED BY <1>1, <1>2, <1>3 DEF Root

\* what the label can show
LEMMA CountIsNumber ==
    ASSUME NEW snap
    PROVE  Cardinality(Listed(snap)) \in Nat
<1>1. Listed(snap) \in SUBSET Users
  BY DEF Listed
<1> QED BY <1>1, UsersAssumption, FS_Subset, FS_CardinalityType

LEMMA InitTypeOK == Init => TypeOK
<1> SUFFICES ASSUME Init PROVE TypeOK
  OBVIOUS
<1> DEFINE s0 == [u \in Users |-> IF u \in Earlier THEN "entry" ELSE Nil]
<1>1. s0 \in Tree
  BY EntryAssumption DEF Tree, Users
<1>2. DBInit(s0)
  BY DEF Init
<1> HIDE DEF s0
<1>3. DBTypeOK
  BY <1>1, <1>2, InitType
<1>4. Earlier \in SUBSET Users /\ Registered \in SUBSET Users
  BY EarlierAssumption, RegisteredAssumption
<1> QED BY <1>3, <1>4, BudgetAssumption DEF Init, TypeOK, Budgets

LEMMA RestartTypeOK ==
    ASSUME TypeOK, NEW d \in Devices, Restart(d), budget' \in Budgets
    PROVE  TypeOK'
  BY TerminateType DEF TypeOK, Restart

LEMMA NextTypeOK == TypeOK /\ [Next]_vars => TypeOK'
<1> SUFFICES ASSUME TypeOK, [Next]_vars PROVE TypeOK'
  OBVIOUS
<1>0. \A d \in Devices : mainQ[d] \in Seq(Event) /\ uid[d] \in Keys
  BY UsersAssumption DEF TypeOK, DBTypeOK, Users
<1>1. ASSUME NEW d \in Devices, Open(d) PROVE TypeOK'
  <2>1. DBTypeOK'
    <3>1. Observe(d, "count", Root, mainQ[d])
      BY <1>1 DEF Open
    <3> QED BY <1>0, <3>1, ObserveType, KindsAssumption, PlacesHere DEF TypeOK
  <2>2. Cardinality(listeners[d]) + 1 \in Nat
    BY FS_CardinalityType DEF TypeOK, DBTypeOK
  <2> QED BY <1>1, <2>1, <2>2 DEF Open, recordVars, readVars, TypeOK, Spend, Budgets
<1>2. ASSUME NEW d \in Devices, btnParticipate(d) PROVE TypeOK'
  <2>1. DBTypeOK'
    BY <1>2 DEF btnParticipate, TypeOK, DBTypeOK, dbVars, Answered
  <2>2. budget' \in Budgets
    BY <1>2 DEF btnParticipate, TypeOK, Spend, Budgets
  <2>4. tapped' \in SUBSET Users
    <3>1. uid[d] \in Users /\ tapped \in SUBSET Users /\ tapped' = tapped \cup {uid[d]}
      BY <1>0, <1>2 DEF btnParticipate, TypeOK, Users
    <3> QED BY <3>1
  <2>3. waiting' \in [Devices -> Nat]
    BY <1>2 DEF btnParticipate, TypeOK
  <2> QED BY <1>2, <2>1, <2>2, <2>3, <2>4 DEF btnParticipate, recordVars, screenVars, TypeOK
<1>3. ASSUME NEW d \in Devices, btnNotParticipate(d) PROVE TypeOK'
  <2>1. DBTypeOK'
    <3>1. Observe(d, "leave", Root, mainQ[d])
      BY <1>3 DEF btnNotParticipate
    <3> QED BY <1>0, <3>1, ObserveType, KindsAssumption, PlacesHere DEF TypeOK
  <2> QED BY <1>3, <2>1 DEF btnNotParticipate, recordVars, readVars, TypeOK, Spend, Budgets
<1>4. ASSUME NEW d \in Devices, btnCancel(d) PROVE TypeOK'
  <2>1. DBTypeOK'
    BY <1>4 DEF btnCancel, TypeOK, DBTypeOK, dbVars, Answered
  <2> QED BY <1>4, <2>1 DEF btnCancel, recordVars, readVars, TypeOK
<1>5. ASSUME NEW d \in Devices, UserMissing(d) PROVE TypeOK'
  BY <1>5, RestartTypeOK DEF UserMissing, TypeOK
<1>6. ASSUME NEW d \in Devices, UserCallback(d) PROVE TypeOK'
  <2>1. DBTypeOK'
    <3>1. CASE MayJoin(d)
      <4>1. Observe(d, "join", {uid[d]}, mainQ[d])
        BY <1>6, <3>1 DEF UserCallback
      <4> QED BY <1>0, <4>1, ObserveType, KindsAssumption, PlacesHere DEF TypeOK
    <3>2. CASE ~MayJoin(d)
      BY <1>6, <3>2 DEF UserCallback, TypeOK, DBTypeOK, dbVars, Answered
    <3> QED BY <3>1, <3>2
  <2> QED BY <1>6, <2>1 DEF UserCallback, recordVars, screenVars, TypeOK
<1>7. ASSUME NEW d \in Devices, NEW l \in Head(mainQ[d]).to, mainQ[d] # << >>,
             mainQ' = [mainQ EXCEPT ![d] = Popped(d, l)],
             UNCHANGED <<server, cache, known, pend, inbox, sub, listeners>>
      PROVE  DBTypeOK'
  <2>1. Popped(d, l) \in Seq(Event)
    BY <1>7, PoppedType DEF TypeOK
  <2> QED BY <1>7, <2>1 DEF TypeOK, DBTypeOK, Answered
<1>8. ASSUME NEW d \in Devices, CountCallback(d) PROVE TypeOK'
  <2>1. DBTypeOK'
    BY <1>7, <1>8 DEF CountCallback
  <2>2. PICK l \in Head(mainQ[d]).to : label' = [label EXCEPT ![d] =
            IF l.n = screen[d] THEN Cardinality(Listed(Head(mainQ[d]).snap)) ELSE @]
    BY <1>8 DEF CountCallback
  <2>3. label' \in [Devices -> Nat \cup {Nil}]
    BY <2>2, CountIsNumber DEF TypeOK
  <2> QED BY <1>8, <2>1, <2>3 DEF CountCallback, recordVars, readVars, TypeOK
<1>9. ASSUME NEW d \in Devices, JoinCallback(d) PROVE TypeOK'
  <2>1. PICK l \in Head(mainQ[d]).to :
            IF EntryUid(d, Head(mainQ[d]).snap) # uid[d]
            THEN Put(d, Entry(uid[d]), Popped(d, l)) /\ told' = told \cup {uid[d]}
            ELSE /\ mainQ' = [mainQ EXCEPT ![d] = Popped(d, l)]
                 /\ UNCHANGED <<server, cache, known, pend, inbox, sub, listeners, told>>
    BY <1>9 DEF JoinCallback
  <2>2. mainQ[d] # << >> /\ UNCHANGED <<recordVars, readVars, screenVars, tapped, budget>>
    BY <1>9 DEF JoinCallback
  <2>3. CASE Put(d, Entry(uid[d]), Popped(d, l)) /\ told' = told \cup {uid[d]}
    <3>1. Popped(d, l) \in Seq(Event) /\ Entry(uid[d]) \in Write
      BY <1>0, <2>2, PoppedType, EntryType DEF TypeOK, Users
    <3>2. DBTypeOK'
      BY <2>3, <3>1, PutType DEF TypeOK
    <3> QED BY <1>0, <2>2, <2>3, <3>2 DEF TypeOK, Users, recordVars, readVars, screenVars
  <2>4. CASE /\ mainQ' = [mainQ EXCEPT ![d] = Popped(d, l)]
             /\ UNCHANGED <<server, cache, known, pend, inbox, sub, listeners, told>>
    BY <1>7, <2>2, <2>4 DEF TypeOK, recordVars, readVars, screenVars
  <2> QED BY <2>1, <2>3, <2>4
<1>10. ASSUME NEW d \in Devices, LeaveCallback(d) PROVE TypeOK'
  <2>1. PICK l \in Head(mainQ[d]).to :
            /\ mainQ' = [mainQ EXCEPT ![d] = Popped(d, l)]
            /\ UNCHANGED <<server, cache, known, pend, inbox, sub, listeners>>
    BY <1>10, NeverLeaves DEF LeaveCallback
  <2>2. DBTypeOK'
    BY <1>7, <1>10, <2>1 DEF LeaveCallback
  <2> QED BY <1>10, <2>2 DEF LeaveCallback, uiVars, recordVars, readVars, screenVars, TypeOK
<1>11. ASSUME NEW d \in Devices, Receive(d) \/ Listening(d) \/ Accept(d) PROVE TypeOK'
  <2>1. DBTypeOK'
    BY <1>11, OnDataUpdateType, AckWriteType, ServerListenType, ServerAcceptType
    DEF TypeOK, Receive, Listening, Accept
  <2> QED BY <1>11, <2>1 DEF Receive, Listening, Accept, uiVars, recordVars, readVars, screenVars, TypeOK
<1>12. ASSUME NEW d \in Devices, Refuse(d) \/ Reconnect(d) PROVE TypeOK'
  <2>1. DBTypeOK'
    BY <1>12, ServerRefuseType, RestoreStateType DEF TypeOK, Refuse, Reconnect
  <2>2. budget' \in Budgets
    BY <1>12 DEF Refuse, Reconnect, TypeOK, Spend, Budgets
  <2>3. CASE Refuse(d)
    BY <2>1, <2>2, <2>3 DEF Refuse, uiVars, recordVars, readVars, screenVars, TypeOK
  <2>4. CASE Reconnect(d)
    BY <2>1, <2>2, <2>4 DEF Reconnect, readVars, screenVars, TypeOK
  <2> QED BY <1>12, <2>3, <2>4
<1>13. ASSUME NEW d \in Devices, Kill(d) PROVE TypeOK'
  <2>1. budget' \in Budgets
    BY <1>13 DEF Kill, Spend, Budgets, TypeOK
  <2> QED BY <1>13, <2>1, RestartTypeOK DEF Kill
<1>14. ASSUME NEW d \in Devices, RecordAnswers(d) \/ SaveRecord(d) \/ RecordRefused(d) PROVE TypeOK'
  <2>1. UNCHANGED dbVars
    BY <1>14 DEF RecordAnswers, ServerRecord, RecordStored, RecordTakenBack, SaveRecord, RecordRefused
  <2>2. DBTypeOK'
    BY <2>1 DEF TypeOK, DBTypeOK, dbVars, Answered
  <2>3. uid[d] \in Users
    BY <1>0 DEF Users
  <2>4. CASE RecordAnswers(d)
    BY <2>2, <2>3, <2>4 DEF RecordAnswers, ServerRecord, RecordStored, RecordTakenBack, readVars,
                            screenVars, TypeOK
  <2>5. CASE SaveRecord(d)
    BY <2>2, <2>3, <2>5 DEF SaveRecord, readVars, screenVars, TypeOK
  <2>6. CASE RecordRefused(d)
    BY <2>2, <2>3, <2>6 DEF RecordRefused, readVars, screenVars, TypeOK, Spend, Budgets
  <2> QED BY <1>14, <2>4, <2>5, <2>6
<1>15. ASSUME NEW u \in Users, StoreRecord(u) PROVE TypeOK'
  <2>1. DBTypeOK'
    BY <1>15 DEF StoreRecord, TypeOK, DBTypeOK, dbVars, Answered
  <2> QED BY <1>15, <2>1 DEF StoreRecord, readVars, screenVars, TypeOK
<1>16. CASE UNCHANGED vars
  BY <1>16 DEF vars, uiVars, recordVars, readVars, screenVars, dbVars, TypeOK, DBTypeOK, Answered
<1> QED BY <1>1, <1>2, <1>3, <1>4, <1>5, <1>6, <1>8, <1>9, <1>10, <1>11, <1>12, <1>13,
           <1>14, <1>15, <1>16 DEF Next, Touch, MainQueue, UserQueue

(* Every state of the screen has the types TypeOK gives, whatever the      *)
(* users tap and whatever the server and the connection do.                *)
THEOREM TypeCorrect == Spec => []TypeOK
  BY InitTypeOK, NextTypeOK, PTL DEF Spec

-----------------------------------------------------------------------------
(* Only guests are listed.                                                *)

LEMMA InitGuestInv == Init => GuestInv
<1> SUFFICES ASSUME Init PROVE GuestInv
  OBVIOUS
<1>1. OnlyGuestsListed
  BY EarlierAssumption DEF Init, DBInit, OnlyGuestsListed, MayBeListed, Listed
<1>2. \A d \in Devices : GuestsUnderWay(d)
  BY DEF Init, DBInit, GuestsUnderWay
<1> QED BY <1>1, <1>2 DEF GuestInv

\* a step of d leaves the devices that are not concerned as they were
LEMMA OthersStay ==
    ASSUME NEW e \in Devices, GuestsUnderWay(e), tapped \subseteq tapped', records \subseteq records',
           denied \subseteq denied', saving'[e] = saving[e],
           waiting'[e] = waiting[e], record'[e] = record[e], listeners'[e] = listeners[e],
           mainQ'[e] = mainQ[e], pend'[e] = pend[e]
    PROVE  GuestsUnderWay(e)'
<1>1. Guest(e) => Guest(e)'
  BY DEF Guest, MayBeListed
<1> QED BY <1>1 DEF GuestsUnderWay

LEMMA ObserveGuests ==
    ASSUME DBTypeOK, NEW d \in Devices, GuestsUnderWay(d), NEW kind \in Kinds,
           NEW a \in Places, Observe(d, kind, a, mainQ[d]),
           kind = "join" => Guest(d)
    PROVE  /\ \A l \in listeners'[d] : l.kind = "join" => Guest(d)
           /\ \A i \in 1..Len(mainQ'[d]) : mainQ'[d][i].to \subseteq listeners'[d]
<1> DEFINE l0 == [kind |-> kind, at |-> a, n |-> Cardinality(listeners[d]) + 1]
           to == IF Complete(known[d], pend[d], l0) THEN {l0} ELSE {}
           ls == listeners'[d]
<1>1. l0 \in Listener /\ l0.kind = kind
  BY FS_CardinalityType DEF DBTypeOK, Listener
<1>2. /\ listeners' = [listeners EXCEPT ![d] = @ \cup {l0}]
      /\ mainQ' = [mainQ EXCEPT ![d] = mainQ[d] \o Raised(to, View(d))]
  BY DEF Observe
<1> HIDE DEF l0
<1>3. ls = listeners[d] \cup {l0} /\ mainQ'[d] = mainQ[d] \o Raised(to, View(d))
  BY <1>2 DEF DBTypeOK
<1>4. View(d) \in Tree /\ mainQ[d] \in Seq(Event)
  BY OverlayType DEF DBTypeOK, View
<1>5. to \in SUBSET Listener /\ to \subseteq ls
  BY <1>1, <1>3
<1>6. \A i \in 1..Len(mainQ[d]) : mainQ[d][i].to \subseteq ls
  BY <1>3 DEF GuestsUnderWay
<1> HIDE DEF ls, to
<1>7. \A i \in 1..Len(mainQ'[d]) : mainQ'[d][i].to \subseteq ls
  BY <1>3, <1>4, <1>5, <1>6, RaisedToRegistered
<1>8. \A l \in ls : l.kind = "join" => Guest(d)
  BY <1>1, <1>3 DEF GuestsUnderWay
<1> QED BY <1>7, <1>8 DEF ls

\* the write of a join callback, and the events it raises
LEMMA PutGuests ==
    ASSUME DBTypeOK, NEW d \in Devices, GuestsUnderWay(d), Guest(d),
           NEW q \in Seq(Event), \A i \in 1..Len(q) : q[i].to \subseteq listeners[d],
           Put(d, Entry(uid[d]), q)
    PROVE  /\ \A i \in 1..Len(mainQ'[d]) : mainQ'[d][i].to \subseteq listeners[d]
           /\ \A i \in 1..Len(pend'[d]) : \A k \in DOMAIN pend'[d][i] :
                  pend'[d][i][k] # Nil /\ k = uid[d] /\ Guest(d)
<1> DEFINE w == Entry(uid[d])
           p2 == Append(pend[d], w)
           to == Concerned(listeners[d], known[d], cache[d], pend[d], known[d], cache[d], p2)
<1>1. w \in Write /\ DOMAIN w = {uid[d]} /\ w[uid[d]] # Nil
  BY EntryType, UsersAssumption
<1>2. /\ pend' = [pend EXCEPT ![d] = p2]
      /\ mainQ' = [mainQ EXCEPT ![d] = q \o Raised(to, Overlay(cache[d], p2))]
  BY DEF Put
<1> HIDE DEF w
<1>3. pend[d] \in Seq(Write) /\ p2 \in Seq(Write) /\ cache[d] \in Tree
  BY <1>1, ConcatOne DEF DBTypeOK
<1>4. \A i \in 1..Len(p2) : \A k \in DOMAIN p2[i] : p2[i][k] # Nil /\ k = uid[d] /\ Guest(d)
  <2>1. \A i \in 1..Len(p2) : p2[i] = w \/ (i \in 1..Len(pend[d]) /\ p2[i] = pend[d][i])
    BY <1>1, <1>3
  <2> HIDE DEF p2
  <2> QED BY <1>1, <2>1 DEF GuestsUnderWay
<1> HIDE DEF p2
<1>5. Overlay(cache[d], p2) \in Tree
  BY <1>3, OverlayType
<1>6. to \in SUBSET Listener /\ to \subseteq listeners[d]
  BY DEF Concerned, DBTypeOK
<1> HIDE DEF to
<1>7. mainQ'[d] = q \o Raised(to, Overlay(cache[d], p2)) /\ pend'[d] = p2
  BY <1>2 DEF DBTypeOK
<1> QED BY <1>4, <1>5, <1>6, <1>7, RaisedToRegistered

LEMMA ReceiveGuests ==
    ASSUME DBTypeOK, NEW d \in Devices, GuestsUnderWay(d), OnDataUpdate(d) \/ AckWrite(d)
    PROVE  /\ \A i \in 1..Len(mainQ'[d]) : mainQ'[d][i].to \subseteq listeners[d]
           /\ \A i \in 1..Len(pend'[d]) : \A k \in DOMAIN pend'[d][i] :
                  pend'[d][i][k] # Nil /\ k = uid[d] /\ Guest(d)
<1>0. mainQ[d] \in Seq(Event) /\ pend[d] \in Seq(Write) /\ listeners[d] \in SUBSET Listener
  BY DEF DBTypeOK
<1>1. CASE OnDataUpdate(d)
  <2> DEFINE c2 == Head(inbox[d]).val
             to == Concerned(listeners[d], known[d], cache[d], pend[d], TRUE, c2, pend[d])
  <2>1. /\ mainQ'[d] = mainQ[d] \o Raised(to, Overlay(c2, pend[d])) /\ pend'[d] = pend[d]
        /\ inbox[d] # << >> /\ Head(inbox[d]).t = "data"
    BY <1>1 DEF OnDataUpdate, DBTypeOK
  <2>2. c2 \in Tree
    <3>1. Head(inbox[d]) \in Message
      BY <2>1 DEF DBTypeOK
    <3> QED BY <2>1, <3>1 DEF Message
  <2> HIDE DEF c2
  <2>3. Overlay(c2, pend[d]) \in Tree
    BY <1>0, <2>2, OverlayType
  <2>4. to \in SUBSET Listener /\ to \subseteq listeners[d]
    BY <1>0 DEF Concerned
  <2> HIDE DEF to
  <2>5. \A i \in 1..Len(mainQ'[d]) : mainQ'[d][i].to \subseteq listeners[d]
    BY <1>0, <2>1, <2>3, <2>4, RaisedToRegistered DEF GuestsUnderWay
  <2> QED BY <2>1, <2>5 DEF GuestsUnderWay
<1>2. CASE AckWrite(d)
  <2> DEFINE p2 == Tail(pend[d])
             to == Concerned(listeners[d], known[d], cache[d], pend[d], known[d], cache[d], p2)
  <2>1. /\ mainQ'[d] = mainQ[d] \o Raised(to, Overlay(cache[d], p2)) /\ pend'[d] = p2
        /\ cache[d] \in Tree
    BY <1>2 DEF AckWrite, WithoutOldest, DBTypeOK
  <2>2. pend[d] # << >>
    BY <1>2, AckWriteType
  <2>3. p2 \in Seq(Write) /\ \A i \in 1..Len(p2) : i + 1 \in 1..Len(pend[d]) /\ p2[i] = pend[d][i + 1]
    BY <1>0, <2>2
  <2> HIDE DEF p2
  <2>4. Overlay(cache[d], p2) \in Tree
    BY <2>1, <2>3, OverlayType
  <2>5. to \in SUBSET Listener /\ to \subseteq listeners[d]
    BY <1>0 DEF Concerned
  <2> HIDE DEF to
  <2>6. \A i \in 1..Len(mainQ'[d]) : mainQ'[d][i].to \subseteq listeners[d]
    BY <1>0, <2>1, <2>4, <2>5, RaisedToRegistered DEF GuestsUnderWay
  <2>7. \A i \in 1..Len(pend[d]) : \A k \in DOMAIN pend[d][i] :
            pend[d][i][k] # Nil /\ k = uid[d] /\ Guest(d)
    BY DEF GuestsUnderWay
  <2>8. ASSUME NEW i \in 1..Len(p2), NEW k \in DOMAIN p2[i]
        PROVE  p2[i][k] # Nil /\ k = uid[d] /\ Guest(d)
    <3>1. i + 1 \in 1..Len(pend[d]) /\ p2[i] = pend[d][i + 1]
      BY <2>3
    <3>2. k \in DOMAIN pend[d][i + 1]
      BY <2>8, <3>1
    <3> QED BY <2>7, <3>1, <3>2
  <2> QED BY <2>1, <2>6, <2>8
<1> QED BY <1>1, <1>2

\* what the server accepts
LEMMA AcceptGuests ==
    ASSUME DBTypeOK, NEW d \in Devices, GuestsUnderWay(d), RecordFirst(d), ServerAccept(d)
    PROVE  /\ Listed(server) \subseteq Listed(server')
           /\ Listed(server') \subseteq Listed(server) \cup MayBeListed
<1>1. PutWaits(d) /\ server' = Merge(server, NextPut(d)) /\ server \in Tree
  BY DEF ServerAccept, DBTypeOK
<1>2. NextPut(d) = pend[d][Answered(d) + 1] /\ Answered(d) + 1 \in 1..Len(pend[d])
  BY <1>1, NextPutType DEF NextPut, DBTypeOK
<1>3. \A k \in DOMAIN NextPut(d) : NextPut(d)[k] # Nil /\ k \in MayBeListed
  <2>1. Guest(d) => uid[d] \in MayBeListed
    BY DEF RecordFirst, Guest
  <2> QED BY <1>2, <2>1 DEF GuestsUnderWay
<1>4. \A k \in Keys : server'[k] = IF k \in DOMAIN NextPut(d) THEN NextPut(d)[k] ELSE server[k]
  BY <1>1 DEF Merge
<1> QED BY <1>3, <1>4 DEF Listed, Users

\* no step takes anybody off the list, and only those who may be listed are added
LEMMA ServerSteps ==
    ASSUME TypeOK, GuestInv, [Next]_vars
    PROVE  /\ Listed(server) \subseteq Listed(server')
           /\ Listed(server') \subseteq Listed(server) \cup MayBeListed
<1>1. ASSUME NEW d \in Devices, Accept(d) PROVE ServerAccept(d) /\ RecordFirst(d) /\ GuestsUnderWay(d) /\ DBTypeOK
  BY <1>1 DEF Accept, GuestInv, TypeOK
<1>2. CASE \E d \in Devices : Accept(d)
  BY <1>1, <1>2, AcceptGuests
<1>3. CASE server' = server
  BY <1>3
<1>4. (\E d \in Devices : Accept(d)) \/ server' = server
  <2>1. ASSUME NEW d \in Devices, Touch(d) PROVE server' = server
    BY <2>1 DEF Touch, Open, Observe, btnParticipate, btnNotParticipate, btnCancel, dbVars
  <2>2. ASSUME NEW d \in Devices, MainQueue(d) PROVE server' = server
    BY <2>2 DEF MainQueue, CountCallback, JoinCallback, LeaveCallback, Put
  <2>3. ASSUME NEW d \in Devices, UserQueue(d) PROVE server' = server
    BY <2>3 DEF UserQueue, UserMissing, UserCallback, Observe, Restart, Terminate, dbVars
  <2>4. ASSUME NEW d \in Devices, Receive(d) \/ Listening(d) PROVE server' = server
    BY <2>4 DEF Receive, OnDataUpdate, AckWrite, Listening, ServerListen
  <2>5. ASSUME NEW d \in Devices, Refuse(d) \/ Reconnect(d) \/ Kill(d) PROVE server' = server
    BY <2>5 DEF Refuse, ServerRefuse, Reconnect, RestoreState, Kill, Restart, Terminate
  <2>6. ASSUME NEW d \in Devices, RecordAnswers(d) \/ SaveRecord(d) \/ RecordRefused(d)
        PROVE  server' = server
    BY <2>6 DEF RecordAnswers, ServerRecord, RecordStored, RecordTakenBack, SaveRecord,
                RecordRefused, dbVars
  <2>7. ASSUME NEW u \in Users, StoreRecord(u) PROVE server' = server
    BY <2>7 DEF StoreRecord, dbVars
  <2>8. UNCHANGED vars => server' = server
    BY DEF vars, dbVars
  <2> QED BY <2>1, <2>2, <2>3, <2>4, <2>5, <2>6, <2>7, <2>8 DEF Next
<1> QED BY <1>2, <1>3, <1>4

LEMMA NextGuestInv == TypeOK /\ GuestInv /\ [Next]_vars => GuestInv'
<1> SUFFICES ASSUME TypeOK, GuestInv, [Next]_vars PROVE GuestInv'
  OBVIOUS
<1> USE DEF TypeOK
<1>0. \A d \in Devices : GuestsUnderWay(d) /\ uid[d] \in Keys
  BY UsersAssumption DEF GuestInv, Users
<1>a. tapped \subseteq tapped' /\ records \subseteq records' /\ denied \subseteq denied'
  <2> DEFINE Grown == tapped \subseteq tapped' /\ records \subseteq records' /\ denied \subseteq denied'
  <2>1. ASSUME NEW d \in Devices, Touch(d) PROVE Grown
    BY <2>1 DEF Touch, Open, btnParticipate, btnNotParticipate, btnCancel, recordVars
  <2>2. ASSUME NEW d \in Devices, MainQueue(d) PROVE Grown
    BY <2>2 DEF MainQueue, CountCallback, JoinCallback, LeaveCallback, uiVars, recordVars
  <2>3. ASSUME NEW d \in Devices, UserQueue(d) PROVE Grown
    BY <2>3 DEF UserQueue, UserMissing, UserCallback, Restart, recordVars
  <2>4. ASSUME NEW d \in Devices, Receive(d) \/ Listening(d) \/ Accept(d) \/ Refuse(d) PROVE Grown
    BY <2>4 DEF Receive, Listening, Accept, Refuse, uiVars, recordVars
  <2>5. ASSUME NEW d \in Devices, Reconnect(d) \/ Kill(d) PROVE Grown
    BY <2>5 DEF Reconnect, Kill, Restart
  <2>6. ASSUME NEW d \in Devices, RecordAnswers(d) PROVE Grown
    BY <2>6 DEF RecordAnswers, ServerRecord, RecordStored, RecordTakenBack
  <2>7. ASSUME NEW d \in Devices, SaveRecord(d) \/ RecordRefused(d) PROVE Grown
    BY <2>7 DEF SaveRecord, RecordRefused
  <2>8. ASSUME NEW u \in Users, StoreRecord(u) PROVE Grown
    BY <2>8 DEF StoreRecord
  <2>9. UNCHANGED vars => Grown
    BY DEF vars, uiVars, recordVars
  <2> HIDE DEF Grown
  <2>10. Grown
    BY <2>1, <2>2, <2>3, <2>4, <2>5, <2>6, <2>7, <2>8, <2>9 DEF Next
  <2> QED BY <2>10 DEF Grown
<1>b. MayBeListed \subseteq MayBeListed'
  BY <1>a DEF MayBeListed
<1>c. OnlyGuestsListed'
  <2>1. Listed(server) \subseteq MayBeListed
    BY DEF GuestInv, OnlyGuestsListed
  <2>2. Listed(server') \subseteq MayBeListed'
    BY <1>b, <2>1, ServerSteps
  <2> QED BY <2>2 DEF OnlyGuestsListed, Listed
<1> SUFFICES ASSUME NEW e \in Devices PROVE GuestsUnderWay(e)'
  BY <1>c DEF GuestInv
\* the invariant of a device whose queues and callbacks are unchanged
<1>d. ASSUME saving'[e] = saving[e], waiting'[e] = waiting[e], record'[e] = record[e],
             listeners'[e] = listeners[e], mainQ'[e] = mainQ[e], pend'[e] = pend[e]
      PROVE  GuestsUnderWay(e)'
  BY <1>0, <1>a, <1>d, OthersStay
<1>e. ASSUME NEW d \in Devices, saving'[d] = saving[d], Guest(d) PROVE Guest(d)'
  BY <1>a, <1>b, <1>e DEF Guest
<1>1. ASSUME NEW d \in Devices, Open(d) PROVE GuestsUnderWay(e)'
  <2>1. /\ Observe(d, "count", Root, mainQ[d]) /\ UNCHANGED <<waiting, record, records, denied, saving, tapped>>
        /\ UNCHANGED pend
    BY <1>1 DEF Open, Observe, recordVars, readVars
  <2>2. CASE e = d
    <3>1. /\ \A l \in listeners'[d] : l.kind = "join" => Guest(d)
          /\ \A i \in 1..Len(mainQ'[d]) : mainQ'[d][i].to \subseteq listeners'[d]
      BY <1>0, <2>1, ObserveGuests, KindsAssumption, PlacesHere
    <3>2. GuestsUnderWay(d) /\ pend'[d] = pend[d]
      BY <1>0, <2>1
    <3>3. Guest(d) => Guest(d)'
      BY <1>e, <2>1
    <3>4. GuestsUnderWay(d)'
      BY <2>1, <3>1, <3>2, <3>3 DEF GuestsUnderWay
    <3> QED BY <2>2, <3>4
  <2>3. CASE e # d
    BY <1>d, <2>1, <2>3 DEF Observe, DBTypeOK
  <2> QED BY <2>2, <2>3
<1>2. ASSUME NEW d \in Devices, btnParticipate(d) PROVE GuestsUnderWay(e)'
  <2>1. /\ waiting' = [waiting EXCEPT ![d] = @ + 1] /\ tapped' = tapped \cup {uid[d]}
        /\ UNCHANGED <<mainQ, pend, listeners, records, record, denied, saving>>
    BY <1>2 DEF btnParticipate, dbVars, recordVars
  <2>2. Guest(e) => Guest(e)'
    BY <1>e, <2>1
  <2>3. waiting'[e] > 0 => uid[e] \in tapped'
    <3>1. CASE e = d
      BY <2>1, <3>1
    <3>2. CASE e # d
      BY <1>0, <2>1, <3>2 DEF GuestsUnderWay
    <3> QED BY <3>1, <3>2
  <2> QED BY <1>0, <2>1, <2>2, <2>3 DEF GuestsUnderWay
<1>3. ASSUME NEW d \in Devices, btnNotParticipate(d) PROVE GuestsUnderWay(e)'
  <2>1. /\ Observe(d, "leave", Root, mainQ[d]) /\ UNCHANGED <<waiting, record, records, denied, saving, tapped>>
        /\ UNCHANGED pend
    BY <1>3 DEF btnNotParticipate, Observe, recordVars, readVars
  <2>2. CASE e = d
    <3>1. /\ \A l \in listeners'[d] : l.kind = "join" => Guest(d)
          /\ \A i \in 1..Len(mainQ'[d]) : mainQ'[d][i].to \subseteq listeners'[d]
      BY <1>0, <2>1, ObserveGuests, KindsAssumption, PlacesHere
    <3>2. GuestsUnderWay(d) /\ pend'[d] = pend[d]
      BY <1>0, <2>1
    <3>3. Guest(d) => Guest(d)'
      BY <1>e, <2>1
    <3>4. GuestsUnderWay(d)'
      BY <2>1, <3>1, <3>2, <3>3 DEF GuestsUnderWay
    <3> QED BY <2>2, <3>4
  <2>3. CASE e # d
    BY <1>d, <2>1, <2>3 DEF Observe, DBTypeOK
  <2> QED BY <2>2, <2>3
<1>4. ASSUME NEW d \in Devices, btnCancel(d) \/ Refuse(d) \/ Listening(d) \/ Accept(d)
      PROVE GuestsUnderWay(e)'
  BY <1>4, <1>d DEF btnCancel, dbVars, uiVars, recordVars, readVars, Refuse, ServerRefuse,
                    Listening, ServerListen, Accept, ServerAccept
\* a record that was refused is a reason as good as one that is sent
<1>15. ASSUME NEW d \in Devices, Reconnect(d) PROVE GuestsUnderWay(e)'
  <2>1. /\ UNCHANGED <<mainQ, pend, listeners, records, record, denied, waiting, tapped>>
        /\ saving'[e] = saving[e] \/ (saving[e] = "refused" /\ saving'[e] = "sent")
    BY <1>15 DEF Reconnect, RestoreState, readVars
  <2>2. Guest(e) => Guest(e)'
    BY <1>b, <2>1 DEF Guest
  <2> QED BY <1>0, <2>1, <2>2 DEF GuestsUnderWay
<1>5. ASSUME NEW d \in Devices, Restart(d) PROVE GuestsUnderWay(e)'
  <2>1. CASE e = d
    BY <1>5, <2>1 DEF Restart, Terminate, GuestsUnderWay, DBTypeOK
  <2>2. CASE e # d
    BY <1>5, <1>d, <2>2 DEF Restart, Terminate, DBTypeOK
  <2> QED BY <2>1, <2>2
<1>6. ASSUME NEW d \in Devices, UserCallback(d) PROVE GuestsUnderWay(e)'
  <2>1. /\ waiting[d] > 0 /\ HasRecord(d)
        /\ waiting' = [waiting EXCEPT ![d] = @ - 1]
        /\ UNCHANGED <<record, records, denied, saving, tapped>>
    BY <1>6 DEF UserCallback, recordVars
  <2>2. uid[d] \in tapped /\ (saving[d] = "sent" \/ uid[d] \in records \cup denied)
    BY <1>0, <2>1 DEF GuestsUnderWay, HasRecord, RecordVisible
  <2>3. Guest(d) => Guest(d)'
    BY <1>e, <2>1
  <2>4. CASE MayJoin(d)
    <3>1. Observe(d, "join", {uid[d]}, mainQ[d]) /\ UNCHANGED pend
      BY <1>6, <2>4 DEF UserCallback, Observe
    <3>2. Guest(d)
      BY <2>2, <2>4 DEF Guest, MayBeListed, MayJoin
    <3>3. CASE e = d
      <4>1. /\ \A l \in listeners'[d] : l.kind = "join" => Guest(d)
            /\ \A i \in 1..Len(mainQ'[d]) : mainQ'[d][i].to \subseteq listeners'[d]
        BY <1>0, <3>1, <3>2, ObserveGuests, KindsAssumption, PlacesHere
      <4>2. GuestsUnderWay(d) /\ pend'[d] = pend[d]
        BY <1>0, <3>1
      <4>3. GuestsUnderWay(d)'
        BY <2>1, <2>2, <2>3, <4>1, <4>2 DEF GuestsUnderWay
      <4> QED BY <3>3, <4>3
    <3>4. CASE e # d
      BY <1>d, <2>1, <3>1, <3>4 DEF Observe, DBTypeOK
    <3> QED BY <3>3, <3>4
  <2>5. CASE ~MayJoin(d)
    <3>1. UNCHANGED <<listeners, mainQ, pend>>
      BY <1>6, <2>5 DEF UserCallback, dbVars
    <3>2. CASE e = d
      BY <1>0, <2>1, <2>2, <2>3, <3>1, <3>2 DEF GuestsUnderWay
    <3>3. CASE e # d
      BY <1>d, <2>1, <3>1, <3>3
    <3> QED BY <3>2, <3>3
  <2> QED BY <2>4, <2>5
\* a callback that only takes its event off the main queue
<1>7. ASSUME NEW d \in Devices, NEW l \in Head(mainQ[d]).to, mainQ[d] # << >>,
             mainQ' = [mainQ EXCEPT ![d] = Popped(d, l)],
             UNCHANGED <<waiting, record, records, denied, saving, tapped, listeners, pend>>
      PROVE  GuestsUnderWay(e)'
  <2>1. \A i \in 1..Len(Popped(d, l)) : Popped(d, l)[i].to \subseteq listeners[d]
    BY <1>0, <1>7, PoppedToRegistered DEF GuestsUnderWay
  <2>2. CASE e = d
    <3>1. mainQ'[e] = Popped(d, l)
      BY <1>7, <2>2 DEF DBTypeOK
    <3>2. Guest(e) => Guest(e)'
      BY <1>e, <1>7
    <3> QED BY <1>0, <1>7, <2>1, <2>2, <3>1, <3>2 DEF GuestsUnderWay
  <2>3. CASE e # d
    BY <1>7, <1>d, <2>3 DEF DBTypeOK
  <2> QED BY <2>2, <2>3
<1>8. ASSUME NEW d \in Devices, CountCallback(d) PROVE GuestsUnderWay(e)'
  BY <1>7, <1>8 DEF CountCallback, recordVars, readVars
<1>9. ASSUME NEW d \in Devices, JoinCallback(d) PROVE GuestsUnderWay(e)'
  <2>1. PICK l \in Head(mainQ[d]).to :
            /\ l.kind = "join"
            /\ \/ Put(d, Entry(uid[d]), Popped(d, l))
               \/ /\ mainQ' = [mainQ EXCEPT ![d] = Popped(d, l)]
                  /\ UNCHANGED <<listeners, pend>>
    BY <1>9 DEF JoinCallback
  <2>2. mainQ[d] # << >> /\ UNCHANGED <<waiting, record, records, denied, saving, tapped>>
    BY <1>9 DEF JoinCallback, recordVars, readVars
  <2>3. CASE Put(d, Entry(uid[d]), Popped(d, l))
    <3>1. Guest(d)
      <4>1. Head(mainQ[d]) = mainQ[d][1] /\ 1 \in 1..Len(mainQ[d])
        BY <2>2 DEF DBTypeOK
      <4> QED BY <1>0, <2>1, <4>1 DEF GuestsUnderWay
    <3>2. /\ Popped(d, l) \in Seq(Event)
          /\ \A i \in 1..Len(Popped(d, l)) : Popped(d, l)[i].to \subseteq listeners[d]
      BY <1>0, <2>2, PoppedType, PoppedToRegistered DEF GuestsUnderWay
    <3>3. listeners' = listeners
      BY <2>3 DEF Put
    <3>4. CASE e = d
      <4>1. /\ \A i \in 1..Len(mainQ'[d]) : mainQ'[d][i].to \subseteq listeners[d]
            /\ \A i \in 1..Len(pend'[d]) : \A k \in DOMAIN pend'[d][i] :
                   pend'[d][i][k] # Nil /\ k = uid[d] /\ Guest(d)
        BY <1>0, <2>3, <3>1, <3>2, PutGuests
      <4>2. Guest(d) => Guest(d)'
        BY <1>e, <2>2
      <4> QED BY <1>0, <2>2, <3>3, <3>4, <4>1, <4>2 DEF GuestsUnderWay
    <3>5. CASE e # d
      BY <1>d, <2>2, <2>3, <3>5 DEF Put, DBTypeOK
    <3> QED BY <3>4, <3>5
  <2>4. CASE mainQ' = [mainQ EXCEPT ![d] = Popped(d, l)] /\ UNCHANGED <<listeners, pend>>
    BY <1>7, <2>2, <2>4
  <2> QED BY <2>1, <2>3, <2>4
<1>10. ASSUME NEW d \in Devices, LeaveCallback(d) PROVE GuestsUnderWay(e)'
  <2>1. PICK l \in Head(mainQ[d]).to :
            /\ mainQ' = [mainQ EXCEPT ![d] = Popped(d, l)]
            /\ UNCHANGED <<server, cache, known, pend, inbox, sub, listeners>>
    BY <1>10, NeverLeaves DEF LeaveCallback
  <2> QED BY <1>7, <1>10, <2>1 DEF LeaveCallback, uiVars, recordVars, readVars
<1>11. ASSUME NEW d \in Devices, Receive(d) PROVE GuestsUnderWay(e)'
  <2>1. (OnDataUpdate(d) \/ AckWrite(d)) /\ UNCHANGED <<waiting, record, records, denied, saving, tapped, listeners>>
    BY <1>11 DEF Receive, uiVars, recordVars, readVars, OnDataUpdate, AckWrite
  <2>2. CASE e = d
    <3>1. /\ \A i \in 1..Len(mainQ'[d]) : mainQ'[d][i].to \subseteq listeners[d]
          /\ \A i \in 1..Len(pend'[d]) : \A k \in DOMAIN pend'[d][i] :
                 pend'[d][i][k] # Nil /\ k = uid[d] /\ Guest(d)
      BY <1>0, <2>1, ReceiveGuests
    <3>2. Guest(d) => Guest(d)'
      BY <1>e, <2>1
    <3> QED BY <1>0, <2>1, <2>2, <3>1, <3>2 DEF GuestsUnderWay
  <2>3. CASE e # d
    BY <1>d, <2>1, <2>3 DEF OnDataUpdate, AckWrite, DBTypeOK
  <2> QED BY <2>2, <2>3
\* the record on its way, answered or lost sight of: who had a reason to be
\* listed has one still
<1>12. ASSUME NEW d \in Devices, RecordAnswers(d) \/ SaveRecord(d) \/ RecordRefused(d)
       PROVE  GuestsUnderWay(e)'
  <2>1. UNCHANGED <<listeners, mainQ, pend, waiting, tapped>>
    BY <1>12 DEF RecordAnswers, ServerRecord, RecordStored, RecordTakenBack, SaveRecord,
                 RecordRefused, dbVars, readVars
  <2>2. CASE e # d
    <3>1. saving'[e] = saving[e] /\ record'[e] = record[e]
      BY <1>12, <2>2 DEF RecordAnswers, ServerRecord, RecordStored, RecordTakenBack, SaveRecord,
                         RecordRefused
    <3> QED BY <1>d, <2>1, <3>1
  <2>3. CASE e = d
    <3>1. GuestsUnderWay(d) /\ (Guest(d) => uid[d] \in MayBeListed \/ saving[d] = "sent")
      BY <1>0 DEF Guest
    <3>2. Guest(d) => Guest(d)'
      <4>1. saving'[d] \in {saving[d], "sent"} \/ uid[d] \in records' \cup denied'
        <5>1. CASE ServerRecord(d) \/ SaveRecord(d)
          BY <5>1 DEF ServerRecord, SaveRecord
        <5>2. CASE RecordStored(d) \/ RecordRefused(d)
          BY <5>2 DEF RecordStored, RecordRefused
        <5>3. CASE RecordTakenBack(d)
          BY <3>1, <5>3 DEF RecordTakenBack, GuestsUnderWay
        <5> QED BY <1>12, <5>1, <5>2, <5>3 DEF RecordAnswers
      <4>2. Guest(d) => uid[d] \in tapped \ {Owner}
        BY DEF Guest, MayBeListed
      <4> QED BY <1>b, <2>1, <4>1, <4>2 DEF Guest, MayBeListed
    <3>3. record'[d] = "present" => uid[d] \in records'
      BY <1>12, <1>a, <3>1 DEF RecordAnswers, ServerRecord, RecordStored, RecordTakenBack,
                               SaveRecord, RecordRefused, GuestsUnderWay
    <3>4. saving'[d] = "refused" => uid[d] \in denied'
      BY <1>12, <1>a, <3>1 DEF RecordAnswers, ServerRecord, RecordStored, RecordTakenBack,
                               SaveRecord, RecordRefused, GuestsUnderWay
    <3> QED BY <2>1, <2>3, <3>1, <3>2, <3>3, <3>4 DEF GuestsUnderWay
  <2> QED BY <2>2, <2>3
<1>13. ASSUME NEW u \in Users, StoreRecord(u) PROVE GuestsUnderWay(e)'
  BY <1>13, <1>d DEF StoreRecord, dbVars, readVars
<1>14. CASE UNCHANGED vars
  BY <1>14, <1>d DEF vars, uiVars, recordVars, readVars, dbVars
<1> QED BY <1>1, <1>2, <1>3, <1>4, <1>5, <1>6, <1>8, <1>9, <1>10, <1>11, <1>12, <1>13, <1>14, <1>15
        DEF Next, Touch, MainQueue, UserQueue, UserMissing, Kill

(* Whatever the devices, the users, the timing of callbacks and the        *)
(* failures: the list of participants holds only guests who once tapped "I *)
(* will participate", and each has a record on the server unless the       *)
(* server refused that very record after the entry was made from it        *)
(* (btnParticipate's nested callbacks, Register's setValue).               *)
THEOREM ListedAreGuests == Spec => []OnlyGuestsListed
<1>1. GuestInv => OnlyGuestsListed
  BY DEF GuestInv
<1> QED BY <1>1, InitTypeOK, NextTypeOK, InitGuestInv, NextGuestInv, PTL DEF Spec

(* Nobody drops off the list but by own leaving: a user who is no longer   *)
(* listed after a step has a device on which "I won't participate" was     *)
(* tapped, whatever was refused, sent again, lost or restarted.            *)
THEOREM ListIsKept == Spec => MembershipKept
<1>1. TypeOK /\ GuestInv /\ [Next]_vars =>
          [\A u \in Listed(server) \ Listed(server)' : \E d \in Devices : uid[d] = u /\ Leaving(d)]_vars
  <2> SUFFICES ASSUME TypeOK, GuestInv, [Next]_vars PROVE Listed(server) \subseteq Listed(server)'
    OBVIOUS
  <2>1. Listed(server)' = Listed(server')
    BY DEF Listed
  <2> QED BY <2>1, ServerSteps
<1> QED BY <1>1, InitTypeOK, NextTypeOK, InitGuestInv, NextGuestInv, PTL DEF Spec, MembershipKept

-----------------------------------------------------------------------------
(* The count on the screen.                                                *)

\* what a step of d does to its screen: a new one comes up, the screen stays
\* as it is, its callback is given a snapshot, or the process ends
ScreenStep(d, M) ==
    \/ /\ M = {} /\ screen'[d] = Cardinality(listeners[d]) + 1
       /\ \E l \in Listener : /\ l.kind = "count" /\ l.at = Root /\ l.n = screen'[d]
                              /\ listeners'[d] = listeners[d] \cup {l}
    \/ /\ listeners[d] \subseteq listeners'[d]
       /\ screen'[d] = screen[d] /\ (shown'[d] => shown[d]) /\ label'[d] = label[d]
       /\ \A m \in M : m.n = screen[d] => m.kind # "count"
    \/ /\ listeners[d] \subseteq listeners'[d]
       /\ screen'[d] = screen[d] /\ (shown'[d] => shown[d])
       /\ \E m \in M : m.n = screen[d] /\ label'[d] = Cardinality(Listed(Head(mainQ[d]).snap))
    \/ M = {} /\ Ended(d) /\ screen'[d] = 0 /\ ~shown'[d]

OtherScreensStay(d) == \A e \in Devices : e # d =>
    screen'[e] = screen[e] /\ label'[e] = label[e] /\ shown'[e] = shown[e]

Stays == UNCHANGED <<dbVars, screen, label, shown>>

\* touches and answers that do not concern the list, and touches that open
LEMMA TouchIsStep ==
    ASSUME TypeOK, NEW d \in Devices, Touch(d)
    PROVE  (\E M : DBStep(d, M) /\ ScreenStep(d, M) /\ OtherScreensStay(d))
<1>0. Taken(d, {}, mainQ[d]) /\ Root \in Places /\ {"count", "leave"} \subseteq Kinds
  BY PlacesHere, KindsAssumption DEF Taken
<1>1. CASE Open(d)
  <2> DEFINE l == [kind |-> "count", at |-> Root, n |-> Cardinality(listeners[d]) + 1]
  <2>1. AppStep(d, mainQ[d])
    BY <1>0, <1>1 DEF Open, AppStep
  <2>2. DBStep(d, {})
    BY <1>0, <2>1 DEF DBStep
  <2>3. l \in Listener
    BY <1>0, FS_CardinalityType DEF TypeOK, DBTypeOK, Listener
  <2>4. listeners'[d] = listeners[d] \cup {l} /\ screen'[d] = Cardinality(listeners[d]) + 1
    BY <1>1 DEF Open, Observe, TypeOK, DBTypeOK
  <2>5. ScreenStep(d, {})
    BY <2>3, <2>4 DEF ScreenStep
  <2>6. OtherScreensStay(d)
    BY <1>1 DEF Open, OtherScreensStay, TypeOK
  <2> QED BY <2>2, <2>5, <2>6
<1>2. CASE btnNotParticipate(d)
  <2>1. AppStep(d, mainQ[d])
    BY <1>0, <1>2 DEF btnNotParticipate, AppStep
  <2>2. DBStep(d, {})
    BY <1>0, <2>1 DEF DBStep
  <2>3. ScreenStep(d, {}) /\ OtherScreensStay(d)
    BY <1>2 DEF btnNotParticipate, Observe, ScreenStep, OtherScreensStay, TypeOK, DBTypeOK
  <2> QED BY <2>2, <2>3
<1>3. CASE btnParticipate(d) \/ btnCancel(d)
  <2>1. AppStep(d, mainQ[d])
    BY <1>3 DEF btnParticipate, btnCancel, AppStep, dbVars, TypeOK, DBTypeOK
  <2>2. DBStep(d, {})
    BY <1>0, <2>1 DEF DBStep
  <2>3. ScreenStep(d, {}) /\ OtherScreensStay(d)
    BY <1>3 DEF btnParticipate, btnCancel, screenVars, dbVars, ScreenStep, OtherScreensStay, TypeOK
  <2> QED BY <2>2, <2>3
<1> QED BY <1>1, <1>2, <1>3 DEF Touch

\* a callback runs; an event is for registered callbacks, so the device
\* listens when it writes
LEMMA MainQueueIsStep ==
    ASSUME TypeOK, NEW d \in Devices, Wired(d), MainQueue(d)
    PROVE  \E M : DBStep(d, M) /\ ScreenStep(d, M) /\ OtherScreensStay(d)
<1>1. ASSUME NEW l \in Head(mainQ[d]).to, mainQ[d] # << >>
      PROVE  Taken(d, {l}, Popped(d, l)) /\ sub[d] # "off"
  <2>1. Head(mainQ[d]) = mainQ[d][1] /\ 1 \in 1..Len(mainQ[d])
    BY <1>1 DEF TypeOK, DBTypeOK
  <2>2. listeners[d] # {}
    BY <1>1, <2>1 DEF Wired
  <2> QED BY <1>1, <2>2 DEF Taken, Wired
<1>2. CASE CountCallback(d)
  <2>1. PICK l \in Head(mainQ[d]).to :
            /\ l.kind = "count"
            /\ mainQ' = [mainQ EXCEPT ![d] = Popped(d, l)]
            /\ label' = [label EXCEPT ![d] =
                   IF l.n = screen[d] THEN Cardinality(Listed(Head(mainQ[d]).snap)) ELSE @]
    BY <1>2 DEF CountCallback
  <2>2. /\ mainQ[d] # << >> /\ UNCHANGED <<screen, shown>>
        /\ UNCHANGED <<server, cache, known, pend, inbox, sub, listeners>>
    BY <1>2 DEF CountCallback
  <2>3. DBStep(d, {l})
    BY <1>1, <2>1, <2>2 DEF DBStep, AppStep
  <2>4. label'[d] = IF l.n = screen[d] THEN Cardinality(Listed(Head(mainQ[d]).snap)) ELSE label[d]
    BY <2>1 DEF TypeOK
  <2>5. ScreenStep(d, {l})
    BY <2>2, <2>4 DEF ScreenStep
  <2>6. OtherScreensStay(d)
    BY <2>1, <2>2 DEF OtherScreensStay, TypeOK
  <2> QED BY <2>3, <2>5, <2>6
<1>3. CASE JoinCallback(d) \/ LeaveCallback(d)
  <2>1. mainQ[d] # << >> /\ UNCHANGED <<screen, shown, label>>
    BY <1>3 DEF JoinCallback, LeaveCallback, uiVars, screenVars
  <2>2. PICK l \in Head(mainQ[d]).to :
            /\ l.kind # "count"
            /\ \/ Put(d, Entry(uid[d]), Popped(d, l))
               \/ /\ mainQ' = [mainQ EXCEPT ![d] = Popped(d, l)]
                  /\ UNCHANGED <<server, cache, known, pend, inbox, sub, listeners>>
    BY <1>3, NeverLeaves DEF JoinCallback, LeaveCallback
  <2>3. Entry(uid[d]) \in Write
    BY EntryType, UsersAssumption
  <2>4. AppStep(d, Popped(d, l))
    BY <1>1, <2>1, <2>2, <2>3 DEF AppStep
  <2>5. DBStep(d, {l})
    BY <1>1, <2>1, <2>4 DEF DBStep
  <2>6. ScreenStep(d, {l}) /\ OtherScreensStay(d)
    BY <2>1, <2>2 DEF Put, ScreenStep, OtherScreensStay
  <2> QED BY <2>5, <2>6
<1> QED BY <1>2, <1>3, <1>1 DEF MainQueue

LEMMA RestartIsStep ==
    ASSUME TypeOK, NEW d \in Devices, Restart(d)
    PROVE  \E M : DBStep(d, M) /\ ScreenStep(d, M) /\ OtherScreensStay(d)
<1>1. DBStep(d, {}) /\ Ended(d)
  BY DEF Restart, DBStep, NetStep, Terminate, Ended, TypeOK, DBTypeOK
<1>2. ScreenStep(d, {}) /\ OtherScreensStay(d)
  BY <1>1 DEF Restart, ScreenStep, OtherScreensStay, TypeOK
<1> QED BY <1>1, <1>2

LEMMA NextIsStep ==
    ASSUME TypeOK, \A d \in Devices : Wired(d), Next
    PROVE  \/ Stays
           \/ \E d \in Devices : \E M : DBStep(d, M) /\ ScreenStep(d, M) /\ OtherScreensStay(d)
<1>1. ASSUME NEW d \in Devices, Receive(d) \/ Listening(d) \/ Accept(d) \/ Refuse(d) \/ Reconnect(d)
      PROVE  \E M : DBStep(d, M) /\ ScreenStep(d, M) /\ OtherScreensStay(d)
  <2>1. NetStep(d) /\ UNCHANGED <<screen, label, shown, listeners>>
    BY <1>1 DEF Receive, Listening, Accept, Refuse, Reconnect, NetStep, uiVars, screenVars, OnDataUpdate,
                AckWrite, ServerListen, ServerAccept, ServerRefuse, RestoreState
  <2>2. DBStep(d, {})
    BY <2>1 DEF DBStep
  <2>3. ScreenStep(d, {}) /\ OtherScreensStay(d)
    BY <2>1 DEF ScreenStep, OtherScreensStay
  <2> QED BY <2>2, <2>3
<1>2. ASSUME NEW d \in Devices, UserQueue(d)
      PROVE  Stays \/ \E M : DBStep(d, M) /\ ScreenStep(d, M) /\ OtherScreensStay(d)
  <2>1. CASE UserMissing(d)
    BY <2>1, RestartIsStep DEF UserMissing
  <2>2. CASE UserCallback(d) /\ MayJoin(d)
    <3>1. Observe(d, "join", {uid[d]}, mainQ[d]) /\ UNCHANGED <<screen, label, shown>>
      BY <2>2 DEF UserCallback, screenVars
    <3>2. AppStep(d, mainQ[d])
      BY <3>1, PlacesHere, KindsAssumption DEF AppStep
    <3>3. DBStep(d, {})
      BY <3>2 DEF DBStep, Taken
    <3>4. ScreenStep(d, {}) /\ OtherScreensStay(d)
      BY <3>1 DEF Observe, ScreenStep, OtherScreensStay, TypeOK, DBTypeOK
    <3> QED BY <3>3, <3>4
  <2>3. CASE UserCallback(d) /\ ~MayJoin(d)
    BY <2>3 DEF UserCallback, screenVars, Stays
  <2> QED BY <1>2, <2>1, <2>2, <2>3 DEF UserQueue
<1>3. ASSUME NEW d \in Devices, RecordAnswers(d) \/ SaveRecord(d) \/ RecordRefused(d) PROVE Stays
  BY <1>3 DEF RecordAnswers, ServerRecord, RecordStored, RecordTakenBack, SaveRecord, RecordRefused,
              screenVars, Stays
<1>4. ASSUME NEW u \in Users, StoreRecord(u) PROVE Stays
  BY <1>4 DEF StoreRecord, screenVars, Stays
<1>5. ASSUME NEW d \in Devices, Kill(d)
      PROVE  \E M : DBStep(d, M) /\ ScreenStep(d, M) /\ OtherScreensStay(d)
  BY <1>5, RestartIsStep DEF Kill
<1> QED BY <1>1, <1>2, <1>3, <1>4, <1>5, TouchIsStep, MainQueueIsStep DEF Next

LEMMA InitCountInv == Init => CountInv
<1> SUFFICES ASSUME Init PROVE CountInv
  OBVIOUS
<1>1. InSync /\ ListensFirst
  BY DEF Init, DBInit, InSync, ListensFirst
<1>2. ASSUME NEW d \in Devices
      PROVE  Wired(d) /\ ScreenListens(d) /\ Current(d) /\ LabelShowsView(d)
  <2>1. listeners[d] = {} /\ mainQ[d] = << >> /\ screen[d] = 0 /\ shown[d] = FALSE
    BY DEF Init, DBInit
  <2>2. Cardinality(listeners[d]) = 0
    BY <2>1, FS_EmptySet
  <2> QED BY <2>1, <2>2 DEF Wired, ScreenListens, Current, LabelShowsView
<1> QED BY <1>1, <1>2 DEF CountInv

\* the whole list is complete when a value of it arrived
LEMMA RootIsComplete ==
    ASSUME NEW kn, NEW p, NEW l \in Listener, l.at = Root
    PROVE  Complete(kn, p, l) <=> kn
  BY KindsAssumption DEF Complete

LEMMA ScreenStepListens ==
    ASSUME TypeOK, NEW d \in Devices, NEW M, DBStep(d, M), ScreenStep(d, M), OtherScreensStay(d),
           NEW e \in Devices, Wired(e), ScreenListens(e)
    PROVE  ScreenListens(e)'
<1>0. /\ IsFiniteSet(listeners[e]) /\ Cardinality(listeners[e]) \in Nat /\ screen[e] \in Nat
      /\ listeners[e] \subseteq Listener
  BY FS_CardinalityType DEF TypeOK, DBTypeOK
<1> DEFINE n == Cardinality(listeners[e])
<1>1. ASSUME NEW l \in Listener, l.n = n + 1, listeners'[e] = listeners[e] \cup {l}
      PROVE  Cardinality(listeners'[e]) = n + 1
  <2>1. l \notin listeners[e]
    BY <1>0, <1>1 DEF Wired
  <2> QED BY <1>0, <1>1, <2>1, FS_AddElement
<1>2. CASE e = d /\ screen'[d] = n + 1 /\ M = {}
           /\ \E l \in Listener : /\ l.kind = "count" /\ l.at = Root /\ l.n = screen'[d]
                                  /\ listeners'[d] = listeners[d] \cup {l}
  <2>1. PICK l \in Listener : /\ l.kind = "count" /\ l.at = Root /\ l.n = n + 1
                              /\ listeners'[e] = listeners[e] \cup {l}
    BY <1>2
  <2>2. Cardinality(listeners'[e]) = n + 1 /\ screen'[e] = n + 1
    BY <1>1, <1>2, <2>1
  <2>3. \A m \in listeners[e] : m.n # n + 1
    BY <1>0 DEF Wired
  <2> HIDE DEF n
  <2>4. n + 1 <= n + 1
    BY <1>0 DEF n
  <2> QED BY <2>1, <2>2, <2>3, <2>4 DEF ScreenListens
<1>3. ASSUME listeners[e] \subseteq listeners'[e], screen'[e] = screen[e], shown'[e] => shown[e]
      PROVE  ScreenListens(e)'
  <2>1. CASE listeners'[e] = listeners[e]
    BY <1>3, <2>1 DEF ScreenListens
  <2>2. ASSUME NEW l \in Listener, l.n = n + 1, listeners'[e] = listeners[e] \cup {l}
        PROVE  ScreenListens(e)'
    <3>1. Cardinality(listeners'[e]) = n + 1
      BY <1>1, <2>2
    <3>2. l.n # screen[e] /\ screen[e] <= n + 1
      BY <1>0, <2>2 DEF ScreenListens
    <3> HIDE DEF n
    <3> QED BY <1>3, <2>2, <3>1, <3>2 DEF ScreenListens
  <2>3. \/ listeners'[e] = listeners[e]
        \/ \E l \in Listener : l.n = n + 1 /\ listeners'[e] = listeners[e] \cup {l}
        \/ listeners'[e] = {}
    <3>1. \/ \E q \in Seq(Event) : Opened(e, q) \/ Altered(e, q)
          \/ Ended(e)
      BY StepIsLocal DEF TypeOK
    <3> QED BY <3>1 DEF Opened, Altered, Ended
  <2> HIDE DEF n
  <2> QED BY <1>3, <2>1, <2>2, <2>3
<1>4. CASE e = d /\ Ended(d) /\ screen'[d] = 0 /\ ~shown'[d]
  BY <1>4, FS_EmptySet DEF Ended, ScreenListens
<1>5. CASE e # d
  <2>1. listeners[e] \subseteq listeners'[e]
    <3>1. \E q \in Seq(Event) : Opened(e, q) \/ Altered(e, q)
      BY <1>5, StepIsLocal DEF TypeOK
    <3> QED BY <3>1 DEF Opened, Altered
  <2> QED BY <1>3, <1>5, <2>1 DEF OtherScreensStay
<1>6. CASE e = d
  BY <1>2, <1>3, <1>4, <1>6 DEF ScreenStep
<1> QED BY <1>5, <1>6

LEMMA ScreenStepShows ==
    ASSUME TypeOK, NEW d \in Devices, NEW M, DBStep(d, M), ScreenStep(d, M), OtherScreensStay(d),
           NEW e \in Devices, Wired(e), ScreenListens(e), Current(e), LabelShowsView(e),
           ScreenListens(e)'
    PROVE  Current(e)' /\ LabelShowsView(e)'
<1> DEFINE M2 == IF e = d THEN M ELSE {}
           given(m) == At(Head(mainQ[e]).snap, m.at)
<1>1. PICK s : s = Told(e)
  OBVIOUS
<1>2. PICK s2 : /\ M2 = {} => s2 = s
                /\ \A m \in M2 : s2 = Remember(s, m, given(m))
  <2>1. M2 = {} \/ \E m : M2 = {m}
    <3>1. DBTypeOK
      BY DEF TypeOK
    <3>2. ASSUME NEW q, Taken(d, M, q) PROVE M = {} \/ \E m : M = {m}
      BY <3>2 DEF Taken
    <3>3. M = {} \/ \E q : Taken(d, M, q)
      BY <3>1, StepIsLocal
    <3>4. M = {} \/ \E m : M = {m}
      BY <3>2, <3>3
    <3> QED BY <3>4
  <2>2. CASE M2 = {}
    BY <2>2
  <2>3. ASSUME NEW m, M2 = {m}
        PROVE  \E s2 : /\ M2 = {} => s2 = s
                       /\ \A k \in M2 : s2 = Remember(s, k, given(k))
    <3>1. \A k \in M2 : Remember(s, m, given(m)) = Remember(s, k, given(k))
      BY <2>3
    <3> QED BY <2>3, <3>1
  <2> QED BY <2>1, <2>2, <2>3
<1>3. UpToDate(listeners[e], known[e], cache[e], pend[e], mainQ[e], s)
  BY <1>1, CurrentIsUpToDate
<1>4. UpToDate(listeners[e], known[e], cache[e], pend[e], mainQ[e], s2)'
  <2>1. /\ (e # d \/ M = {}) => s2 = s
        /\ e = d => \A m \in M : s2 = Remember(s, m, At(Head(mainQ[d]).snap, m.at))
    BY <1>2
  <2> QED BY <1>3, <2>1, StepUpToDate DEF TypeOK
<1>5. /\ Current(e)'
      /\ \A l \in listeners'[e] :
             Complete(known'[e], pend'[e], l) /\ EventsFor(mainQ'[e], l) = {} =>
                 l \in DOMAIN s2 /\ s2[l] = At(View(e)', l.at)
  BY <1>4 DEF Current, UpToDate, HasShown, LastShown, View
<1>6. ASSUME NEW l \in listeners'[e], l.n = screen'[e], known'[e], EventsFor(mainQ'[e], l) = {}
      PROVE  label'[e] = Cardinality(Listed(View(e)'))
  <2>1. l \in Listener /\ l.kind = "count" /\ l.at = Root
    <3>1. listeners'[e] \subseteq Listener
      BY StepType DEF TypeOK, DBTypeOK
    <3> QED BY <1>6, <3>1 DEF ScreenListens
  <2>2. l \in DOMAIN s2 /\ s2[l] = At(View(e)', l.at)
    BY <1>5, <1>6, <2>1, RootIsComplete
  <2>3. Listed(s2[l]) = Listed(View(e)')
    BY <2>1, <2>2 DEF At, Root, Listed, Users
  <2>4. CASE l \in M2
    <3>1. e = d /\ s2[l] = given(l)
      BY <1>2, <2>4 DEF Remember
    <3>2. label'[e] = Cardinality(Listed(Head(mainQ[e]).snap))
      <4>1. M # {} /\ l \in M
        BY <2>4
      <4> QED BY <1>6, <2>1, <3>1, <4>1 DEF ScreenStep
    <3>3. Listed(given(l)) = Listed(Head(mainQ[e]).snap)
      BY <2>1 DEF At, Root, Listed, Users
    <3> QED BY <2>3, <3>1, <3>2, <3>3
  <2>5. CASE l \notin M2
    <3>1. l \in DOMAIN s /\ s2[l] = s[l]
      <4>1. CASE M2 = {}
        BY <1>2, <2>2, <4>1
      <4>2. ASSUME NEW m \in M2 PROVE l \in DOMAIN s /\ s2[l] = s[l]
        <5>1. s2 = Remember(s, m, given(m)) /\ l # m
          BY <1>2, <2>5, <4>2
        <5> QED BY <2>2, <5>1 DEF Remember
      <4> QED BY <4>1, <4>2
    <3>2. l \in listeners[e] /\ EventsFor(mainQ[e], l) = {} /\ Complete(known[e], pend[e], l)
          /\ s[l] = At(View(e), l.at)
      BY <1>1, <3>1 DEF Told
    <3>3. known[e]
      BY <2>1, <3>2, RootIsComplete
    <3>4. Listed(s[l]) = Listed(View(e))
      BY <2>1, <3>2 DEF At, Root, Listed, Users
    <3>5. screen'[e] = screen[e] /\ label'[e] = label[e]
      <4>1. CASE e # d
        BY <4>1 DEF OtherScreensStay
      <4>2. CASE e = d
        <5>1. l.n <= Cardinality(listeners[e]) /\ Cardinality(listeners[e]) \in Nat
          BY <3>2, FS_CardinalityType DEF Wired, TypeOK, DBTypeOK
        <5>2. l.n # Cardinality(listeners[e]) + 1
          BY <2>1, <5>1 DEF Listener
        <5>3. ASSUME NEW m \in M, screen'[e] = screen[e] PROVE m.n # screen[e]
          <6>1. m \in listeners[e]
            <7>1. mainQ[e] # << >> /\ m \in Head(mainQ[e]).to
              <8>1. \E q : Taken(e, M, q)
                BY <4>2, <5>3, StepIsLocal DEF TypeOK
              <8> QED BY <5>3, <8>1 DEF Taken
            <7>2. 1 \in 1..Len(mainQ[e]) /\ Head(mainQ[e]) = mainQ[e][1]
              BY <7>1 DEF TypeOK, DBTypeOK
            <7> QED BY <7>1, <7>2 DEF Wired
          <6>2. m # l
            BY <2>5, <4>2, <5>3
          <6> QED BY <1>6, <3>2, <5>3, <6>1, <6>2 DEF Wired
        <5>4. listeners'[e] # {}
          BY <1>6
        <5> QED BY <1>6, <4>2, <5>2, <5>3, <5>4 DEF ScreenStep, Ended
      <4> QED BY <4>1, <4>2
    <3> QED BY <1>6, <2>3, <3>1, <3>2, <3>3, <3>4, <3>5 DEF LabelShowsView
  <2> QED BY <2>4, <2>5
<1> QED BY <1>5, <1>6 DEF LabelShowsView

LEMMA NextCountInv == TypeOK /\ CountInv /\ [Next]_vars => CountInv'
<1> SUFFICES ASSUME TypeOK, CountInv, [Next]_vars PROVE CountInv'
  OBVIOUS
<1>1. CASE Stays
  BY <1>1 DEF Stays, dbVars, CountInv, InSync, ListensFirst, Wired, ScreenListens, Current,
              LabelShowsView, View
<1>2. ASSUME NEW d \in Devices, NEW M, DBStep(d, M), ScreenStep(d, M), OtherScreensStay(d)
      PROVE  CountInv'
  <2>1. InSync' /\ ListensFirst'
    BY <1>2, StepInSync, StepListensFirst DEF CountInv, TypeOK
  <2>2. ASSUME NEW e \in Devices
        PROVE  (Wired(e) /\ ScreenListens(e) /\ Current(e) /\ LabelShowsView(e))'
    <3>1. Wired(e) /\ ScreenListens(e) /\ Current(e) /\ LabelShowsView(e)
      BY DEF CountInv
    <3>2. Wired(e)'
      BY <1>2, <3>1, StepWired DEF TypeOK
    <3>3. ScreenListens(e)'
      BY <1>2, <3>1, ScreenStepListens
    <3>4. Current(e)' /\ LabelShowsView(e)'
      BY <1>2, <3>1, <3>3, ScreenStepShows
    <3> QED BY <3>2, <3>3, <3>4
  <2> QED BY <2>1, <2>2 DEF CountInv
<1>3. CASE UNCHANGED vars
  BY <1>1, <1>3 DEF vars, uiVars, screenVars, Stays
<1> QED BY <1>1, <1>2, <1>3, NextIsStep DEF CountInv

(* The count on the screen is right whenever nothing is under way for it:  *)
(* getCount's callback has been shown the list the server holds, whatever  *)
(* was joined, refused, lost or restarted before, and however many         *)
(* callbacks of earlier screens are still registered.                      *)
THEOREM CountIsRight == Spec => []CountRight
<1>1. TypeOK /\ CountInv => CountRight
  <2> SUFFICES ASSUME TypeOK, CountInv, NEW d \in Devices, shown[d], Settled(d)
               PROVE  label[d] = Cardinality(Listed(server))
    BY DEF CountRight
  <2>1. View(d) = server
    BY IdleViewIsServer DEF Settled, CountInv, TypeOK
  <2>2. PICK l \in listeners[d] : l.n = screen[d]
    BY DEF CountInv, ScreenListens
  <2>3. known[d]
    BY DEF Settled, CountInv, ListensFirst, Introduced
  <2>4. EventsFor(mainQ[d], l) = {}
    BY <2>2 DEF Settled, EventsFor
  <2> QED BY <2>1, <2>2, <2>3, <2>4 DEF CountInv, LabelShowsView
<1> QED BY <1>1, InitTypeOK, NextTypeOK, InitCountInv, NextCountInv, PTL DEF Spec

-----------------------------------------------------------------------------
(* The callbacks do not flood the server.  Each callback on a user's entry *)
(* may still cause so many writes: those recorded, those that the events   *)
(* on the main queue call for, one for the first value from the server,    *)
(* and one for every refusal that the device is yet to hear of.  The sum   *)
(* never exceeds one for every callback and one more for every refusal.    *)
Joining(S) == {l \in S : l.kind = "join"}

Due(ev, u) == IF ev.snap[u] = Nil THEN Joining(ev.to) ELSE {}

Dues(q, u) == UNION {{i} \X Due(q[i], u) : i \in 1..Len(q)}

Refusals(box) == {i \in Answers(box) : ~box[i].ok}

Fits(n, due, kn, j, f, r) ==
    f <= r /\ n + due + (IF kn THEN 0 ELSE j) + j * f <= j * (1 + r)

Weighs(d) ==
    Fits(Len(pend[d]), Cardinality(Dues(mainQ[d], uid[d])), known[d],
         Cardinality(Joiners(d)), Cardinality(Refusals(inbox[d])), MaxRefusals - budget.refusals)

\* nothing happens before the first value from the server
Silent(d) == ~known[d] => pend[d] = << >> /\ mainQ[d] = << >>

WritesAt(d) ==
    /\ Grows(d, {}) /\ Silent(d) /\ Weighs(d)
    /\ \A l \in Joiners(d) : l.at = {uid[d]}

WritesInv == \A d \in Devices : WritesAt(d)

\* the sum, as the steps change it
LEMMA FitsLess ==
    ASSUME NEW n \in Nat, NEW due \in Nat, NEW kn \in BOOLEAN, NEW j \in Nat, NEW f \in Nat,
           NEW r \in Int, Fits(n, due, kn, j, f, r),
           NEW n2 \in Nat, NEW due2 \in Nat, NEW f2 \in Nat, n2 + due2 <= n + due, f2 <= f
    PROVE  Fits(n2, due2, kn, j, f2, r)
<1>1. j * f2 <= j * f
  <2>1. PICK k \in Nat : f = f2 + k
    <3>1. f - f2 \in Nat /\ f = f2 + (f - f2)
      OBVIOUS
    <3> QED BY <3>1
  <2>2. j * f = j * f2 + j * k /\ j * k >= 0 /\ j * f2 \in Nat
    BY <2>1
  <2> QED BY <2>2
<1>2. j * f \in Nat /\ j * f2 \in Nat /\ j * (1 + r) \in Int
  OBVIOUS
<1>3. (IF kn THEN 0 ELSE j) \in Nat
  OBVIOUS
<1> QED BY <1>1, <1>2, <1>3 DEF Fits

LEMMA FitsJoin ==
    ASSUME NEW n \in Nat, NEW due \in Nat, NEW kn \in BOOLEAN, NEW j \in Nat, NEW f \in Nat,
           NEW r \in Int, Fits(n, due, kn, j, f, r),
           NEW due2 \in Nat, due2 <= due + (IF kn THEN 1 ELSE 0)
    PROVE  Fits(n, due2, kn, j + 1, f, r)
<1>1. (j + 1) * f = j * f + f /\ (j + 1) * (1 + r) = j * (1 + r) + (1 + r)
  OBVIOUS
<1>2. j * f \in Nat /\ j * (1 + r) \in Int
  OBVIOUS
<1>3. CASE kn = TRUE
  BY <1>1, <1>2, <1>3 DEF Fits
<1>4. CASE kn = FALSE
  BY <1>1, <1>2, <1>4 DEF Fits
<1> QED BY <1>3, <1>4

LEMMA FitsData ==
    ASSUME NEW n \in Nat, NEW due \in Nat, NEW j \in Nat, NEW f \in Nat,
           NEW r \in Int, Fits(n, due, FALSE, j, f, r), NEW due2 \in Nat, due2 <= due + j
    PROVE  Fits(n, due2, TRUE, j, f, r)
<1>1. j * f \in Nat /\ j * (1 + r) \in Int
  OBVIOUS
<1> QED BY <1>1 DEF Fits

LEMMA FitsRefused ==
    ASSUME NEW n \in Nat, NEW due \in Nat, NEW kn \in BOOLEAN, NEW j \in Nat, NEW f \in Nat,
           NEW r \in Int, Fits(n, due, kn, j, f, r),
           NEW n2 \in Nat, NEW due2 \in Nat, NEW f2 \in Nat,
           n2 <= n, due2 <= due + j, f = f2 + 1
    PROVE  Fits(n2, due2, kn, j, f2, r)
<1>1. j * f = j * f2 + j
  OBVIOUS
<1>2. j * f2 \in Nat /\ j * f \in Nat /\ j * (1 + r) \in Int
  OBVIOUS
<1>3. (IF kn THEN 0 ELSE j) \in Nat
  OBVIOUS
<1> QED BY <1>1, <1>2, <1>3 DEF Fits

LEMMA FitsRefuse ==
    ASSUME NEW n \in Nat, NEW due \in Nat, NEW kn \in BOOLEAN, NEW j \in Nat, NEW f \in Nat,
           NEW r \in Int, Fits(n, due, kn, j, f, r), NEW f2 \in {f, f + 1}
    PROVE  Fits(n, due, kn, j, f2, r + 1)
<1>1. j * (f + 1) = j * f + j /\ j * (1 + (r + 1)) = j * (1 + r) + j
  OBVIOUS
<1>2. j * f \in Nat /\ j * (1 + r) \in Int /\ f2 \in Nat
  OBVIOUS
<1>3. (IF kn THEN 0 ELSE j) \in Nat
  OBVIOUS
<1>4. CASE f2 = f
  BY <1>1, <1>2, <1>3, <1>4 DEF Fits
<1>5. CASE f2 = f + 1
  BY <1>1, <1>2, <1>3, <1>5 DEF Fits
<1> QED BY <1>4, <1>5

LEMMA FitsBounds ==
    ASSUME NEW n \in Nat, NEW due \in Nat, NEW kn \in BOOLEAN, NEW j \in Nat, NEW f \in Nat,
           NEW r \in Int, Fits(n, due, kn, j, f, r)
    PROVE  n <= j * (1 + r)
<1>1. j * f \in Nat /\ j * (1 + r) \in Int
  OBVIOUS
<1>2. (IF kn THEN 0 ELSE j) \in Nat
  OBVIOUS
<1> QED BY <1>1, <1>2 DEF Fits

\* refusals on their way
LEMMA RefusalsFinite ==
    ASSUME NEW box \in Seq(Message)
    PROVE  IsFiniteSet(Refusals(box)) /\ Cardinality(Refusals(box)) \in Nat
<1>1. Refusals(box) \in SUBSET Answers(box)
  BY DEF Refusals
<1> QED BY <1>1, AnswersFinite, FS_Subset, FS_CardinalityType

LEMMA RefusalsAppend ==
    ASSUME NEW box \in Seq(Message), NEW m \in Message
    PROVE  Cardinality(Refusals(Append(box, m))) =
               Cardinality(Refusals(box)) + (IF m.t = "ack" /\ ~m.ok THEN 1 ELSE 0)
<1> DEFINE n == Len(box) + 1
           no == m.t = "ack" /\ ~m.ok
<1>1. Refusals(Append(box, m)) = Refusals(box) \cup (IF no THEN {n} ELSE {})
  BY DEF Refusals, Answers
<1>2. n \notin Refusals(box)
  BY DEF Refusals, Answers
<1>3. Cardinality(Refusals(box) \cup {n}) = Cardinality(Refusals(box)) + 1
  BY <1>2, RefusalsFinite, FS_AddElement
<1>4. Refusals(box) \cup {} = Refusals(box) /\ Cardinality(Refusals(box)) \in Nat
  BY RefusalsFinite
<1> HIDE DEF n, no
<1>5. CASE no
  BY <1>1, <1>3, <1>5 DEF no
<1>6. CASE ~no
  <2>1. Refusals(Append(box, m)) = Refusals(box)
    BY <1>1, <1>6
  <2>2. (IF m.t = "ack" /\ ~m.ok THEN 1 ELSE 0) = 0
    BY <1>6 DEF no
  <2> QED BY <1>4, <2>1, <2>2
<1> QED BY <1>5, <1>6

LEMMA RefusalsTail ==
    ASSUME NEW box \in Seq(Message), box # << >>
    PROVE  Cardinality(Refusals(box)) = Cardinality(Refusals(Tail(box)))
               + (IF Head(box).t = "ack" /\ ~Head(box).ok THEN 1 ELSE 0)
<1> DEFINE A == Refusals(box) \ {1}
           B == Refusals(Tail(box))
           f == [i \in B |-> i + 1]
<1>1. \A i \in B : i + 1 \in A
  BY DEF Refusals, Answers
<1>2. \A j \in A : j - 1 \in B /\ (j - 1) + 1 = j
  BY DEF Refusals, Answers
<1>3. B \subseteq Nat
  BY DEF Refusals, Answers
<1>4. f \in Bijection(B, A)
  <2>1. f \in [B -> A]
    BY <1>1
  <2>2. \A i, j \in B : f[i] = f[j] => i = j
    BY <1>3
  <2>3. \A j \in A : \E i \in B : f[i] = j
    BY <1>2
  <2> QED BY <2>1, <2>2, <2>3, Zenon DEF Bijection, Injection, Surjection, IsInjective
<1>5. ExistsBijection(B, A)
  BY <1>4 DEF ExistsBijection
<1>6. Tail(box) \in Seq(Message)
  OBVIOUS
<1>7. IsFiniteSet(B) /\ IsFiniteSet(Refusals(box)) /\ Cardinality(Refusals(box)) \in Nat
  BY <1>6, RefusalsFinite
<1>8. Cardinality(A) = Cardinality(B)
  <2> HIDE DEF A, B
  <2> QED BY <1>5, <1>7, FS_Bijection
<1>9. 1 \in Refusals(box) <=> Head(box).t = "ack" /\ ~Head(box).ok
  BY DEF Refusals, Answers
<1>10. Cardinality(A) = IF 1 \in Refusals(box) THEN Cardinality(Refusals(box)) - 1
                        ELSE Cardinality(Refusals(box))
  BY <1>7, FS_RemoveElement
<1> HIDE DEF A, B
<1> QED BY <1>7, <1>8, <1>9, <1>10 DEF B

\* writes that the events on the main queue call for
LEMMA DuesFinite ==
    ASSUME NEW q \in Seq(Event), NEW u, NEW ls, IsFiniteSet(ls),
           \A i \in 1..Len(q) : q[i].to \subseteq ls
    PROVE  IsFiniteSet(Dues(q, u)) /\ Cardinality(Dues(q, u)) \in Nat
<1>1. IsFiniteSet((1..Len(q)) \X ls)
  BY FS_Interval, FS_Product, 1 \in Int, Len(q) \in Int
<1>2. Dues(q, u) \in SUBSET ((1..Len(q)) \X ls)
  BY DEF Dues, Due, Joining
<1> QED BY <1>1, <1>2, FS_Subset, FS_CardinalityType

LEMMA DuesAppend ==
    ASSUME NEW q \in Seq(Event), NEW u, NEW ls, IsFiniteSet(ls), NEW e \in Event, e.to \subseteq ls,
           \A i \in 1..Len(q) : q[i].to \subseteq ls
    PROVE  Cardinality(Dues(Append(q, e), u)) <= Cardinality(Dues(q, u)) + Cardinality(Due(e, u))
<1> DEFINE n == Len(q) + 1
           new == {n} \X Due(e, u)
<1>1. Dues(Append(q, e), u) = Dues(q, u) \cup new
  <2>1. 1..Len(Append(q, e)) = (1..Len(q)) \cup {n} /\ Append(q, e)[n] = e
        /\ \A i \in 1..Len(q) : Append(q, e)[i] = q[i]
    OBVIOUS
  <2> HIDE DEF n
  <2> QED BY <2>1 DEF Dues
<1>2. IsFiniteSet(Due(e, u)) /\ Cardinality(Due(e, u)) \in Nat
  <2>1. Due(e, u) \in SUBSET ls
    BY DEF Due, Joining
  <2> QED BY <2>1, FS_Subset, FS_CardinalityType
<1>3. IsFiniteSet(new) /\ Cardinality(new) = Cardinality(Due(e, u))
  <2>1. IsFiniteSet({n}) /\ Cardinality({n}) = 1
    BY FS_Singleton
  <2>2. Cardinality(new) = 1 * Cardinality(Due(e, u)) /\ IsFiniteSet(new)
    <3> HIDE DEF n
    <3> QED BY <1>2, <2>1, FS_Product
  <2> QED BY <1>2, <2>2
<1>4. IsFiniteSet(Dues(q, u)) /\ Cardinality(Dues(q, u)) \in Nat
  BY DuesFinite
<1>5. Cardinality(Dues(q, u) \cap new) \in Nat
  <2> HIDE DEF new
  <2>1. (Dues(q, u) \cap new) \in SUBSET new
    OBVIOUS
  <2> QED BY <1>3, <2>1, FS_Subset, FS_CardinalityType
<1> HIDE DEF new
<1>6. Cardinality(Dues(q, u) \cup new) =
          Cardinality(Dues(q, u)) + Cardinality(new) - Cardinality(Dues(q, u) \cap new)
  BY <1>3, <1>4, FS_Union
<1> QED BY <1>1, <1>2, <1>3, <1>4, <1>5, <1>6

LEMMA DuesTail ==
    ASSUME NEW q \in Seq(Event), q # << >>, NEW u, NEW ls, IsFiniteSet(ls),
           \A i \in 1..Len(q) : q[i].to \subseteq ls
    PROVE  Cardinality(Dues(q, u)) = Cardinality(Due(Head(q), u)) + Cardinality(Dues(Tail(q), u))
<1> DEFINE A == {x \in Dues(q, u) : x[1] # 1}
           H == {1} \X Due(Head(q), u)
           B == Dues(Tail(q), u)
           f == [x \in B |-> <<x[1] + 1, x[2]>>]
<1>0. /\ Tail(q) \in Seq(Event) /\ Head(q) = q[1] /\ Len(q) \in Nat /\ Len(q) > 0
      /\ Len(Tail(q)) = Len(q) - 1 /\ \A i \in 1..Len(Tail(q)) : Tail(q)[i] = q[i + 1]
  OBVIOUS
<1>1. \A x : x \in B <=> /\ x = <<x[1], x[2]>> /\ x[1] \in 1..(Len(q) - 1)
                         /\ x[2] \in Due(q[x[1] + 1], u)
  BY <1>0 DEF Dues
<1>2. \A x : x \in Dues(q, u) <=> /\ x = <<x[1], x[2]>> /\ x[1] \in 1..Len(q)
                                  /\ x[2] \in Due(q[x[1]], u)
  BY DEF Dues
<1>3. f \in Bijection(B, A)
  <2>1. ASSUME NEW x \in B PROVE f[x] \in A
    <3>1. x[1] + 1 \in 1..Len(q) /\ x[1] + 1 # 1 /\ x[2] \in Due(q[x[1] + 1], u)
      BY <1>0, <1>1
    <3>2. PICK y : y = <<x[1] + 1, x[2]>>
      OBVIOUS
    <3>3. y[1] = x[1] + 1 /\ y[2] = x[2] /\ y = <<y[1], y[2]>>
      BY <3>2
    <3>4. y \in Dues(q, u) /\ y[1] # 1
      BY <1>2, <3>1, <3>3
    <3> QED BY <3>2, <3>4
  <2>2. ASSUME NEW x \in B, NEW y \in B, f[x] = f[y] PROVE x = y
    <3>1. x = <<x[1], x[2]>> /\ y = <<y[1], y[2]>> /\ x[1] \in Nat /\ y[1] \in Nat
      BY <1>0, <1>1
    <3>2. x[1] + 1 = y[1] + 1 /\ x[2] = y[2]
      <4>1. <<x[1] + 1, x[2]>> = <<y[1] + 1, y[2]>>
        BY <2>2
      <4> QED BY <4>1
    <3> QED BY <3>1, <3>2
  <2>3. ASSUME NEW y \in A PROVE \E x \in B : f[x] = y
    <3>1. y = <<y[1], y[2]>> /\ y[1] \in 2..Len(q) /\ y[2] \in Due(q[y[1]], u)
      BY <1>0, <1>2
    <3>2. PICK x : x = <<y[1] - 1, y[2]>>
      OBVIOUS
    <3>3. x[1] = y[1] - 1 /\ x[2] = y[2] /\ x = <<x[1], x[2]>>
      BY <3>2
    <3>4. x[1] \in 1..(Len(q) - 1) /\ x[1] + 1 = y[1]
      BY <1>0, <3>1, <3>3
    <3>5. x \in B
      BY <1>1, <3>1, <3>3, <3>4
    <3>6. f[x] = y
      BY <3>1, <3>3, <3>4, <3>5
    <3> QED BY <3>5, <3>6
  <2>4. f \in [B -> A]
    <3> HIDE DEF A, B
    <3> QED BY <2>1
  <2>5. f \in Injection(B, A)
    BY <2>2, <2>4, Zenon DEF Injection, IsInjective
  <2>6. f \in Surjection(B, A)
    BY <2>3, <2>4, Zenon DEF Surjection
  <2> QED BY <2>5, <2>6, Zenon DEF Bijection
<1>4. IsFiniteSet(Dues(q, u))
  BY DuesFinite
<1>5. \A i \in 1..Len(Tail(q)) : Tail(q)[i].to \subseteq ls
  BY <1>0
<1>6. IsFiniteSet(B) /\ Cardinality(B) \in Nat
  BY <1>0, <1>5, DuesFinite
<1>7. Cardinality(A) = Cardinality(B) /\ IsFiniteSet(A)
  <2>1. ExistsBijection(B, A)
    BY <1>3 DEF ExistsBijection
  <2> HIDE DEF A, B
  <2> QED BY <1>6, <2>1, FS_Bijection
<1>8. IsFiniteSet(Due(Head(q), u)) /\ Cardinality(Due(Head(q), u)) \in Nat
  <2>1. Due(Head(q), u) \in SUBSET ls
    BY <1>0 DEF Due, Joining
  <2> QED BY <2>1, FS_Subset, FS_CardinalityType
<1>9. IsFiniteSet(H) /\ Cardinality(H) = Cardinality(Due(Head(q), u))
  <2>1. IsFiniteSet({1}) /\ Cardinality({1}) = 1
    BY FS_Singleton
  <2>2. IsFiniteSet(H) /\ Cardinality(H) = 1 * Cardinality(Due(Head(q), u))
    BY <1>8, <2>1, FS_Product
  <2> QED BY <1>8, <2>2
<1>10. Dues(q, u) = H \cup A
  <2>1. ASSUME NEW x \in H PROVE x \in Dues(q, u)
    <3>1. x = <<x[1], x[2]>> /\ x[1] = 1 /\ x[2] \in Due(q[1], u)
      BY <1>0
    <3> QED BY <1>0, <1>2, <3>1
  <2>2. ASSUME NEW x \in Dues(q, u), x[1] = 1 PROVE x \in H
    BY <1>0, <1>2, <2>2
  <2> QED BY <2>1, <2>2
<1>11. H \cap A = {}
  OBVIOUS
<1> HIDE DEF H, A, B
<1>12. Cardinality(H \cup A) = Cardinality(H) + Cardinality(A) - Cardinality(H \cap A)
  BY <1>7, <1>9, FS_Union
<1>13. Cardinality(H \cap A) = 0
  BY <1>11, FS_EmptySet
<1>14. Cardinality(Dues(q, u)) = Cardinality(H) + Cardinality(A)
  <2>1. Cardinality(H) \in Nat /\ Cardinality(A) \in Nat
    BY <1>6, <1>7, <1>8, <1>9
  <2> QED BY <1>10, <1>12, <1>13, <2>1
<1> QED BY <1>7, <1>9, <1>14 DEF B

\* a callback is done: one event less for it
LEMMA DuesPopped ==
    ASSUME DBTypeOK, NEW d \in Devices, Wired(d), mainQ[d] # << >>, NEW l \in Head(mainQ[d]).to, NEW u
    PROVE  /\ Popped(d, l) \in Seq(Event)
           /\ \A i \in 1..Len(Popped(d, l)) : Popped(d, l)[i].to \subseteq listeners[d]
           /\ Cardinality(Dues(Popped(d, l), u)) <= Cardinality(Dues(mainQ[d], u))
           /\ l.kind = "join" /\ Head(mainQ[d]).snap[u] = Nil =>
                  Cardinality(Dues(Popped(d, l), u)) + 1 <= Cardinality(Dues(mainQ[d], u))
<1> DEFINE q == mainQ[d]
           e == [to |-> Head(q).to \ {l}, snap |-> Head(q).snap]
<1>1. q \in Seq(Event) /\ q # << >> /\ Head(q) \in Event /\ Tail(q) \in Seq(Event)
      /\ Head(q) = q[1] /\ 1 \in 1..Len(q)
      /\ \A i \in 1..Len(Tail(q)) : i + 1 \in 1..Len(q) /\ Tail(q)[i] = q[i + 1]
  BY DEF DBTypeOK
<1>2. /\ IsFiniteSet(listeners[d]) /\ \A i \in 1..Len(q) : q[i].to \subseteq listeners[d]
      /\ \A i \in 1..Len(Tail(q)) : Tail(q)[i].to \subseteq listeners[d]
  BY <1>1 DEF DBTypeOK, Wired
<1>3. /\ Popped(d, l) \in Seq(Event)
      /\ \A i \in 1..Len(Popped(d, l)) : Popped(d, l)[i].to \subseteq listeners[d]
  BY <1>1, <1>2, PoppedType, PoppedToRegistered
<1>4. /\ Cardinality(Dues(q, u)) = Cardinality(Due(Head(q), u)) + Cardinality(Dues(Tail(q), u))
      /\ Cardinality(Dues(Tail(q), u)) \in Nat
  BY <1>1, <1>2, DuesTail, DuesFinite
<1>5. IsFiniteSet(Due(Head(q), u)) /\ Cardinality(Due(Head(q), u)) \in Nat
  <2>1. Due(Head(q), u) \in SUBSET listeners[d]
    BY <1>1, <1>2 DEF Due, Joining
  <2> QED BY <1>2, <2>1, FS_Subset, FS_CardinalityType
<1>6. l \in Due(Head(q), u) <=> l.kind = "join" /\ Head(q).snap[u] = Nil
  BY DEF Due, Joining
<1>7. Cardinality(Dues(Popped(d, l), u)) =
          Cardinality(Due(Head(q), u) \ {l}) + Cardinality(Dues(Tail(q), u))
  <2>1. CASE Head(q).to \ {l} = {}
    <3>1. Popped(d, l) = Tail(q)
      BY <2>1 DEF Popped
    <3>2. Due(Head(q), u) \ {l} = {}
      BY <2>1 DEF Due, Joining
    <3>3. Cardinality(Due(Head(q), u) \ {l}) = 0
      BY <3>2, FS_EmptySet
    <3> QED BY <1>4, <3>1, <3>3
  <2>2. CASE Head(q).to \ {l} # {}
    <3>1. Popped(d, l) = <<e>> \o Tail(q)
      BY <2>2 DEF Popped
    <3>2. e \in Event
      BY <1>1 DEF Event
    <3>3. Due(e, u) = Due(Head(q), u) \ {l}
      BY DEF Due, Joining
    <3> HIDE DEF e, q
    <3>4. Popped(d, l) # << >> /\ Head(Popped(d, l)) = e /\ Tail(Popped(d, l)) = Tail(q)
      BY <1>1, <3>1, <3>2
    <3> QED BY <1>2, <1>3, <3>3, <3>4, DuesTail
  <2> QED BY <2>1, <2>2
<1>8. Cardinality(Due(Head(q), u) \ {l}) = IF l \in Due(Head(q), u)
          THEN Cardinality(Due(Head(q), u)) - 1 ELSE Cardinality(Due(Head(q), u))
  BY <1>5, FS_RemoveElement
<1> HIDE DEF e
<1>9. Cardinality(Dues(Popped(d, l), u)) <= Cardinality(Dues(q, u))
  BY <1>4, <1>5, <1>7, <1>8
<1>10. ASSUME l.kind = "join", Head(q).snap[u] = Nil
       PROVE  Cardinality(Dues(Popped(d, l), u)) + 1 <= Cardinality(Dues(q, u))
  BY <1>4, <1>5, <1>6, <1>7, <1>8, <1>10
<1> QED BY <1>3, <1>9, <1>10

\* an event is raised: it calls for a write if it shows the entry missing
LEMMA DuesRaised ==
    ASSUME NEW q \in Seq(Event), NEW u, NEW ls \in SUBSET Listener, IsFiniteSet(ls),
           NEW to \in SUBSET ls, NEW snap \in Tree, \A i \in 1..Len(q) : q[i].to \subseteq ls
    PROVE  /\ Cardinality(Dues(q \o Raised(to, snap), u)) <=
                  Cardinality(Dues(q, u)) + Cardinality(Joining(ls))
           /\ snap[u] # Nil \/ Joining(to) = {} =>
                  Cardinality(Dues(q \o Raised(to, snap), u)) <= Cardinality(Dues(q, u))
           /\ (\E l : to = {l}) =>
                  Cardinality(Dues(q \o Raised(to, snap), u)) <= Cardinality(Dues(q, u)) + 1
<1> DEFINE e == [to |-> to, snap |-> snap]
           c == Cardinality(Dues(q, u))
           c2 == Cardinality(Dues(q \o Raised(to, snap), u))
<1>1. c \in Nat
  BY DuesFinite
<1>2. e \in Event /\ e.to = to /\ e.snap = snap
  BY DEF Event
<1>3. IsFiniteSet(Joining(ls)) /\ Cardinality(Joining(ls)) \in Nat
  <2>1. Joining(ls) \in SUBSET ls
    BY DEF Joining
  <2> QED BY <2>1, FS_Subset, FS_CardinalityType
<1>4. Due(e, u) \in SUBSET Joining(ls) /\ Due(e, u) \subseteq to
  BY <1>2 DEF Due, Joining
<1>5. /\ Cardinality(Due(e, u)) \in Nat /\ Cardinality(Due(e, u)) <= Cardinality(Joining(ls))
      /\ IsFiniteSet(Due(e, u))
  BY <1>3, <1>4, FS_Subset, FS_CardinalityType
<1>6. snap[u] # Nil \/ Joining(to) = {} => Cardinality(Due(e, u)) = 0
  <2>1. snap[u] # Nil \/ Joining(to) = {} => Due(e, u) = {}
    BY <1>2 DEF Due
  <2> QED BY <2>1, FS_EmptySet
<1>7. (\E l : to = {l}) => Cardinality(Due(e, u)) <= 1
  <2>1. ASSUME NEW l, to = {l} PROVE Cardinality(Due(e, u)) <= 1
    <3>1. IsFiniteSet({l}) /\ Cardinality({l}) = 1
      BY FS_Singleton
    <3>2. Due(e, u) \in SUBSET {l}
      BY <1>4, <2>1
    <3>3. Cardinality(Due(e, u)) <= Cardinality({l})
      BY <3>1, <3>2, FS_Subset
    <3> QED BY <3>1, <3>3
  <2> QED BY <2>1
<1>8. c2 <= c + Cardinality(Due(e, u))
  <2>1. CASE to = {}
    <3>1. q \o Raised(to, snap) = q
      BY <2>1 DEF Raised
    <3> QED BY <1>1, <1>5, <3>1
  <2>2. CASE to # {}
    <3>1. q \o Raised(to, snap) = q \o <<e>>
      BY <2>2 DEF Raised
    <3>2. e.to \subseteq ls
      BY <1>2
    <3> HIDE DEF e
    <3>3. q \o <<e>> = Append(q, e)
      BY <1>2, ConcatOne
    <3> QED BY <1>2, <3>1, <3>2, <3>3, DuesAppend
  <2> QED BY <2>1, <2>2
<1>9. c2 \in Nat
  <2> DEFINE q2 == q \o Raised(to, snap)
  <2>1. to \in SUBSET Listener
    OBVIOUS
  <2>2. Raised(to, snap) \in Seq(Event)
    BY <2>1, RaisedType
  <2>3. \A i \in 1..Len(q2) : q2[i].to \subseteq ls
    BY <2>1, RaisedToRegistered
  <2>4. q2 \in Seq(Event)
    BY <2>2
  <2> HIDE DEF q2
  <2>5. Cardinality(Dues(q2, u)) \in Nat
    BY <2>3, <2>4, DuesFinite
  <2> QED BY <2>5 DEF q2
<1> HIDE DEF c, c2, e
<1>10. c2 <= c + Cardinality(Joining(ls))
  BY <1>1, <1>3, <1>5, <1>8, <1>9
<1>11. ASSUME Cardinality(Due(e, u)) = 0 PROVE c2 <= c
  BY <1>1, <1>8, <1>9, <1>11
<1>12. ASSUME Cardinality(Due(e, u)) <= 1 PROVE c2 <= c + 1
  BY <1>1, <1>5, <1>8, <1>9, <1>12
<1> QED BY <1>6, <1>7, <1>10, <1>11, <1>12 DEF c, c2

\* the numbers of the sum
NumbersAt(e) ==
    /\ Len(pend[e]) \in Nat /\ known[e] \in BOOLEAN
    /\ Cardinality(Dues(mainQ[e], uid[e])) \in Nat
    /\ IsFiniteSet(Joiners(e)) /\ Cardinality(Joiners(e)) \in Nat
    /\ Cardinality(Refusals(inbox[e])) \in Nat

LEMMA AreNumbers ==
    ASSUME NEW p \in Seq(Write), NEW q \in Seq(Event), NEW ls, IsFiniteSet(ls), NEW u,
           NEW box \in Seq(Message), \A i \in 1..Len(q) : q[i].to \subseteq ls
    PROVE  /\ Len(p) \in Nat /\ Cardinality(Dues(q, u)) \in Nat
           /\ IsFiniteSet(Joining(ls)) /\ Cardinality(Joining(ls)) \in Nat
           /\ Cardinality(Refusals(box)) \in Nat
<1>1. Joining(ls) \in SUBSET ls
  BY DEF Joining
<1>2. IsFiniteSet(Joining(ls)) /\ Cardinality(Joining(ls)) \in Nat
  BY <1>1, FS_Subset, FS_CardinalityType
<1> QED BY <1>2, DuesFinite, RefusalsFinite

LEMMA Numbers ==
    ASSUME DBTypeOK, NEW e \in Devices, Wired(e) PROVE NumbersAt(e)
<1>1. /\ pend[e] \in Seq(Write) /\ mainQ[e] \in Seq(Event) /\ IsFiniteSet(listeners[e])
      /\ inbox[e] \in Seq(Message) /\ \A i \in 1..Len(mainQ[e]) : mainQ[e][i].to \subseteq listeners[e]
      /\ known[e] \in BOOLEAN
  BY DEF DBTypeOK, Wired
<1>2. Joiners(e) = Joining(listeners[e])
  BY DEF Joiners, Joining
<1> QED BY <1>1, <1>2, AreNumbers DEF NumbersAt

LEMMA NumbersNext ==
    ASSUME DBTypeOK', NEW e \in Devices, Wired(e)' PROVE NumbersAt(e)'
<1>1. /\ pend'[e] \in Seq(Write) /\ mainQ'[e] \in Seq(Event) /\ IsFiniteSet(listeners'[e])
      /\ inbox'[e] \in Seq(Message) /\ \A i \in 1..Len(mainQ'[e]) : mainQ'[e][i].to \subseteq listeners'[e]
      /\ known'[e] \in BOOLEAN
  BY DEF DBTypeOK, Wired
<1>2. Joiners(e)' = Joining(listeners'[e])
  BY DEF Joiners, Joining
<1> QED BY <1>1, <1>2, AreNumbers DEF NumbersAt

\* a step that leaves no more to come than there was
LEMMA WeighsLess ==
    ASSUME TypeOK, NEW e \in Devices, NumbersAt(e), NumbersAt(e)', Weighs(e),
           Joiners(e)' = Joiners(e), known'[e] = known[e], budget'.refusals = budget.refusals,
           Len(pend'[e]) + Cardinality(Dues(mainQ'[e], uid[e])) <=
               Len(pend[e]) + Cardinality(Dues(mainQ[e], uid[e])),
           Cardinality(Refusals(inbox'[e])) <= Cardinality(Refusals(inbox[e]))
    PROVE  Weighs(e)'
<1>1. MaxRefusals - budget.refusals \in Int
  BY BudgetAssumption DEF TypeOK, Budgets
<1>2. /\ Len(pend'[e]) \in Nat /\ Cardinality(Dues(mainQ'[e], uid[e])) \in Nat
      /\ Cardinality(Refusals(inbox'[e])) \in Nat
  BY DEF NumbersAt
<1>a. /\ Len(pend[e]) \in Nat /\ Cardinality(Dues(mainQ[e], uid[e])) \in Nat
      /\ known[e] \in BOOLEAN /\ Cardinality(Joiners(e)) \in Nat
      /\ Cardinality(Refusals(inbox[e])) \in Nat
  BY DEF NumbersAt
<1>b. Fits(Len(pend[e]), Cardinality(Dues(mainQ[e], uid[e])), known[e], Cardinality(Joiners(e)),
           Cardinality(Refusals(inbox[e])), MaxRefusals - budget.refusals)
  BY DEF Weighs
<1>3. Fits(Len(pend'[e]), Cardinality(Dues(mainQ'[e], uid[e])), known[e], Cardinality(Joiners(e)),
           Cardinality(Refusals(inbox'[e])), MaxRefusals - budget.refusals)
  BY <1>1, <1>2, <1>a, <1>b, FitsLess, ZenonT(60)
<1> QED BY <1>3 DEF Weighs

JoinsAt(e) == \A l \in Joiners(e) : l.at = {uid[e]}

Held(e) == Silent(e) /\ Weighs(e) /\ JoinsAt(e)

\* a device that a step does not concern: the server refuses another's write, at most
LEMMA HeldElsewhere ==
    ASSUME TypeOK, NEW e \in Devices, NumbersAt(e), NumbersAt(e)', Held(e),
           listeners'[e] = listeners[e], pend'[e] = pend[e], mainQ'[e] = mainQ[e],
           known'[e] = known[e],
           Cardinality(Refusals(inbox'[e])) <= Cardinality(Refusals(inbox[e])),
           budget'.refusals = budget.refusals
    PROVE  Held(e)'
<1>1. Joiners(e)' = Joiners(e)
  BY DEF Joiners
<1>2. Weighs(e)'
  BY <1>1, WeighsLess DEF NumbersAt, Held
<1> QED BY <1>1, <1>2 DEF Held, Silent, JoinsAt

LEMMA HeldRefused ==
    ASSUME TypeOK, NEW e \in Devices, NumbersAt(e), Held(e),
           listeners'[e] = listeners[e], pend'[e] = pend[e], mainQ'[e] = mainQ[e],
           known'[e] = known[e],
           Cardinality(Refusals(inbox'[e])) \in
               {Cardinality(Refusals(inbox[e])), Cardinality(Refusals(inbox[e])) + 1},
           budget'.refusals = budget.refusals - 1
    PROVE  Held(e)'
<1>1. Joiners(e)' = Joiners(e)
  BY DEF Joiners
<1>2. /\ MaxRefusals - budget.refusals \in Int
      /\ MaxRefusals - budget'.refusals = (MaxRefusals - budget.refusals) + 1
  BY BudgetAssumption DEF TypeOK, Budgets
<1>a. /\ Len(pend[e]) \in Nat /\ Cardinality(Dues(mainQ[e], uid[e])) \in Nat
      /\ known[e] \in BOOLEAN /\ Cardinality(Joiners(e)) \in Nat
      /\ Cardinality(Refusals(inbox[e])) \in Nat
  BY DEF NumbersAt
<1>b. Fits(Len(pend[e]), Cardinality(Dues(mainQ[e], uid[e])), known[e], Cardinality(Joiners(e)),
           Cardinality(Refusals(inbox[e])), MaxRefusals - budget.refusals)
  BY DEF Weighs, Held
<1>3. Fits(Len(pend[e]), Cardinality(Dues(mainQ[e], uid[e])), known[e], Cardinality(Joiners(e)),
           Cardinality(Refusals(inbox'[e])), (MaxRefusals - budget.refusals) + 1)
  BY <1>2, <1>a, <1>b, FitsRefuse, ZenonT(60)
<1>4. Weighs(e)'
  BY <1>1, <1>2, <1>3 DEF Weighs
<1> QED BY <1>1, <1>4 DEF Held, Silent, JoinsAt

\* a callback is registered: one for the list itself never writes
LEMMA HeldObserve ==
    ASSUME TypeOK, NEW d \in Devices, NumbersAt(d), NumbersAt(d)', Wired(d), Wired(d)', DBTypeOK',
           Held(d), budget'.refusals = budget.refusals,
           NEW kind \in {"count", "leave"}, Observe(d, kind, Root, mainQ[d])
    PROVE  Held(d)'
<1> DEFINE l == [kind |-> kind, at |-> Root, n |-> Cardinality(listeners[d]) + 1]
           to == IF Complete(known[d], pend[d], l) THEN {l} ELSE {}
<1>1. /\ listeners'[d] = listeners[d] \cup {l} /\ mainQ'[d] = mainQ[d] \o Raised(to, View(d))
      /\ pend'[d] = pend[d] /\ known'[d] = known[d] /\ inbox'[d] = inbox[d]
  BY DEF Observe, TypeOK, DBTypeOK
<1>2. l.kind # "join" /\ l.at = Root /\ l.kind \notin Lists
  BY KindsAssumption
<1>3. ~known[d] => to = {}
  BY <1>2 DEF Complete
<1>4. to \subseteq listeners'[d] /\ Joining(to) = {}
  BY <1>1, <1>2 DEF Joining
<1>5. /\ mainQ[d] \in Seq(Event) /\ listeners'[d] \in SUBSET Listener /\ IsFiniteSet(listeners'[d])
      /\ View(d) \in Tree
  BY OverlayType DEF TypeOK, DBTypeOK, View
<1>6. Joiners(d)' = Joiners(d)
  BY <1>1, <1>2 DEF Joiners
<1> HIDE DEF l, to
<1>7. \A i \in 1..Len(mainQ[d]) : mainQ[d][i].to \subseteq listeners'[d]
  BY <1>1 DEF Wired
<1>8. Cardinality(Dues(mainQ'[d], uid[d])) <= Cardinality(Dues(mainQ[d], uid[d]))
  BY <1>1, <1>4, <1>5, <1>7, DuesRaised
<1>9. Weighs(d)'
  <2>1. Cardinality(Refusals(inbox'[d])) <= Cardinality(Refusals(inbox[d]))
    BY <1>1 DEF NumbersAt
  <2>2. Len(pend'[d]) + Cardinality(Dues(mainQ'[d], uid[d])) <=
            Len(pend[d]) + Cardinality(Dues(mainQ[d], uid[d]))
    BY <1>1, <1>8 DEF NumbersAt
  <2> QED BY <1>1, <1>6, <2>1, <2>2, WeighsLess DEF Held
<1>10. Silent(d)'
  BY <1>1, <1>3, <1>5 DEF Silent, Held, Raised
<1> QED BY <1>6, <1>9, <1>10 DEF Held, JoinsAt

\* one for the user's entry may write once, and once more for every refusal
LEMMA HeldJoin ==
    ASSUME TypeOK, NEW d \in Devices, NumbersAt(d), NumbersAt(d)', Wired(d), Wired(d)', DBTypeOK',
           Held(d), budget'.refusals = budget.refusals, Observe(d, "join", {uid[d]}, mainQ[d])
    PROVE  Held(d)'
<1> DEFINE l == [kind |-> "join", at |-> {uid[d]}, n |-> Cardinality(listeners[d]) + 1]
           to == IF Complete(known[d], pend[d], l) THEN {l} ELSE {}
<1>1. /\ listeners'[d] = listeners[d] \cup {l} /\ mainQ'[d] = mainQ[d] \o Raised(to, View(d))
      /\ pend'[d] = pend[d] /\ known'[d] = known[d] /\ inbox'[d] = inbox[d]
  BY DEF Observe, TypeOK, DBTypeOK
<1>2. l.kind = "join" /\ l.at = {uid[d]} /\ l.n = Cardinality(listeners[d]) + 1 /\ l.kind \notin Lists
  BY KindsAssumption
<1>3. ~known[d] => to = {}
  <2>1. ASSUME ~known[d] PROVE Covering(pend[d], uid[d]) = {}
    BY <2>1 DEF Covering, Held, Silent
  <2> HIDE DEF l
  <2> QED BY <1>2, <2>1 DEF Complete
<1>4. to \subseteq listeners'[d] /\ (to = {} \/ to = {l})
  BY <1>1
<1>5. /\ mainQ[d] \in Seq(Event) /\ listeners'[d] \in SUBSET Listener /\ IsFiniteSet(listeners'[d])
      /\ View(d) \in Tree /\ Cardinality(listeners[d]) \in Nat
  BY OverlayType, FS_CardinalityType DEF TypeOK, DBTypeOK, View
<1> HIDE DEF l, to
<1>6. l \notin listeners[d]
  BY <1>2, <1>5 DEF Wired
<1>7. Joiners(d)' = Joiners(d) \cup {l} /\ l \notin Joiners(d)
  BY <1>1, <1>2, <1>6 DEF Joiners
<1>8. Cardinality(Joiners(d)') = Cardinality(Joiners(d)) + 1
  BY <1>7, FS_AddElement DEF NumbersAt
<1>9. \A i \in 1..Len(mainQ[d]) : mainQ[d][i].to \subseteq listeners'[d]
  BY <1>1 DEF Wired
<1>10. ASSUME ~known[d] PROVE mainQ'[d] = mainQ[d]
  <2>1. to = {}
    BY <1>3, <1>10
  <2> QED BY <1>1, <1>5, <2>1 DEF Raised
<1>11. Cardinality(Dues(mainQ'[d], uid[d])) <=
           Cardinality(Dues(mainQ[d], uid[d])) + (IF known[d] THEN 1 ELSE 0)
  <2>0. Cardinality(Dues(mainQ[d], uid[d])) \in Nat /\ Cardinality(Dues(mainQ'[d], uid[d])) \in Nat
    BY DEF NumbersAt
  <2>1. CASE known[d] /\ to = {l}
    <3>1. Cardinality(Dues(mainQ'[d], uid[d])) <= Cardinality(Dues(mainQ[d], uid[d])) + 1
      BY <1>1, <1>4, <1>5, <1>9, <2>1, DuesRaised
    <3> QED BY <2>1, <3>1
  <2>2. CASE to = {}
    <3>1. mainQ'[d] = mainQ[d]
      BY <1>1, <1>5, <2>2 DEF Raised
    <3> QED BY <2>0, <3>1
  <2> QED BY <1>3, <1>4, <2>1, <2>2
<1>12. Weighs(d)'
  <2>1. MaxRefusals - budget.refusals \in Int
    BY BudgetAssumption DEF TypeOK, Budgets
  <2>2. Fits(Len(pend[d]), Cardinality(Dues(mainQ'[d], uid[d])), known[d], Cardinality(Joiners(d)) + 1,
             Cardinality(Refusals(inbox[d])), MaxRefusals - budget.refusals)
    <3>1. /\ Len(pend[d]) \in Nat /\ Cardinality(Dues(mainQ[d], uid[d])) \in Nat
          /\ Cardinality(Dues(mainQ'[d], uid[d])) \in Nat /\ known[d] \in BOOLEAN
          /\ Cardinality(Joiners(d)) \in Nat /\ Cardinality(Refusals(inbox[d])) \in Nat
      BY DEF NumbersAt
    <3>2. Fits(Len(pend[d]), Cardinality(Dues(mainQ[d], uid[d])), known[d], Cardinality(Joiners(d)),
               Cardinality(Refusals(inbox[d])), MaxRefusals - budget.refusals)
      BY DEF Held, Weighs
    <3> QED BY <1>11, <2>1, <3>1, <3>2, FitsJoin, ZenonT(60)
  <2> QED BY <1>1, <1>8, <2>2 DEF Weighs
<1>13. Silent(d)'
  BY <1>1, <1>10 DEF Silent, Held
<1> QED BY <1>2, <1>7, <1>12, <1>13 DEF Held, JoinsAt

\* a callback that does not write
LEMMA HeldCalled ==
    ASSUME TypeOK, NEW d \in Devices, NumbersAt(d), NumbersAt(d)', Wired(d),
           Held(d), budget'.refusals = budget.refusals, mainQ[d] # << >>,
           NEW l \in Head(mainQ[d]).to, mainQ'[d] = Popped(d, l),
           listeners'[d] = listeners[d], pend'[d] = pend[d], known'[d] = known[d], inbox'[d] = inbox[d]
    PROVE  Held(d)'
<1>1. Joiners(d)' = Joiners(d)
  BY DEF Joiners
<1>2. Cardinality(Dues(mainQ'[d], uid[d])) <= Cardinality(Dues(mainQ[d], uid[d]))
  BY DuesPopped DEF TypeOK
<1>3. Weighs(d)'
  BY <1>1, <1>2, WeighsLess DEF NumbersAt, Held
<1> QED BY <1>1, <1>3 DEF Held, Silent, JoinsAt

\* one that does was due, and shows the entry to all callbacks
LEMMA HeldPut ==
    ASSUME TypeOK, NEW d \in Devices, NumbersAt(d), NumbersAt(d)', Wired(d), AllFill(d),
           Held(d), budget'.refusals = budget.refusals, mainQ[d] # << >>,
           NEW l \in Head(mainQ[d]).to, l.kind = "join", Head(mainQ[d]).snap[uid[d]] = Nil,
           Put(d, Entry(uid[d]), Popped(d, l))
    PROVE  Held(d)'
<1> DEFINE w == Entry(uid[d])
           p2 == Append(pend[d], w)
           to == Concerned(listeners[d], known[d], cache[d], pend[d], known[d], cache[d], p2)
<1>1. /\ mainQ'[d] = Popped(d, l) \o Raised(to, Overlay(cache[d], p2))
      /\ pend'[d] = p2 /\ listeners'[d] = listeners[d] /\ known'[d] = known[d] /\ inbox'[d] = inbox[d]
  BY DEF Put, TypeOK, DBTypeOK
<1>2. w \in Write /\ DOMAIN w = {uid[d]} /\ w[uid[d]] # Nil /\ uid[d] \in Keys
  BY EntryType, UsersAssumption DEF Users
<1>3. cache[d] \in Tree /\ pend[d] \in Seq(Write) /\ \A i \in 1..Len(pend[d]) : Filling(pend[d][i])
  BY DEF TypeOK, DBTypeOK, AllFill
<1> HIDE DEF w
<1>4. /\ p2 \in Seq(Write) /\ Len(p2) = Len(pend[d]) + 1 /\ p2[Len(p2)] = w /\ Len(p2) \in 1..Len(p2)
      /\ \A i \in 1..Len(p2) : Filling(p2[i])
  <2>1. Filling(w)
    BY <1>2 DEF Filling
  <2> QED BY <1>2, <1>3, <2>1
<1>5. to \in SUBSET listeners[d]
  BY DEF Concerned
<1> HIDE DEF p2, to
<1>6. Overlay(cache[d], p2)[uid[d]] # Nil
  <2>1. Filled(Overlay(cache[d], p2)) = Filled(cache[d]) \cup UNION {DOMAIN p2[i] : i \in 1..Len(p2)}
    BY <1>3, <1>4, FilledOverlay
  <2>2. uid[d] \in DOMAIN p2[Len(p2)]
    BY <1>2, <1>4
  <2>3. uid[d] \in Filled(Overlay(cache[d], p2))
    BY <1>4, <2>1, <2>2
  <2> QED BY <2>3 DEF Filled
<1>7. /\ Popped(d, l) \in Seq(Event)
      /\ \A i \in 1..Len(Popped(d, l)) : Popped(d, l)[i].to \subseteq listeners[d]
      /\ Cardinality(Dues(Popped(d, l), uid[d])) + 1 <= Cardinality(Dues(mainQ[d], uid[d]))
  BY DuesPopped DEF TypeOK
<1>8. listeners[d] \in SUBSET Listener /\ IsFiniteSet(listeners[d]) /\ Overlay(cache[d], p2) \in Tree
  BY <1>3, <1>4, OverlayType DEF TypeOK, DBTypeOK
<1>9. Cardinality(Dues(mainQ'[d], uid[d])) <= Cardinality(Dues(Popped(d, l), uid[d]))
  BY <1>1, <1>5, <1>6, <1>7, <1>8, DuesRaised
<1>10. Joiners(d)' = Joiners(d)
  BY <1>1 DEF Joiners
<1>11. Len(pend'[d]) + Cardinality(Dues(mainQ'[d], uid[d])) <=
           Len(pend[d]) + Cardinality(Dues(mainQ[d], uid[d]))
  <2>1. Cardinality(Dues(Popped(d, l), uid[d])) \in Nat
    BY <1>7, <1>8, DuesFinite
  <2>2. Len(pend'[d]) = Len(pend[d]) + 1
    BY <1>1, <1>4
  <2> QED BY <1>7, <1>9, <2>1, <2>2 DEF NumbersAt
<1>12. Weighs(d)'
  <2>1. Cardinality(Refusals(inbox'[d])) <= Cardinality(Refusals(inbox[d]))
    BY <1>1 DEF NumbersAt
  <2> QED BY <1>1, <1>10, <1>11, <2>1, WeighsLess DEF Held
<1>13. known[d]
  BY DEF Held, Silent
<1> QED BY <1>1, <1>10, <1>12, <1>13 DEF Held, Silent, JoinsAt

\* when nothing disappears from the view, no callback is shown a missing
\* entry that it was not shown before
LEMMA NobodyMisses ==
    ASSUME NEW u \in Keys, NEW ls, \A l \in Joining(ls) : l.at = {u},
           NEW c, NEW p, NEW c2, NEW p2, Filled(Overlay(c, p)) \subseteq Filled(Overlay(c2, p2))
    PROVE  \/ Overlay(c2, p2)[u] # Nil
           \/ Joining(Concerned(ls, TRUE, c, p, TRUE, c2, p2)) = {}
<1> DEFINE v == Overlay(c, p)
           v2 == Overlay(c2, p2)
<1>1. ASSUME v2[u] = Nil, NEW l \in Joining(Concerned(ls, TRUE, c, p, TRUE, c2, p2)) PROVE FALSE
  <2>1. l.at = {u} /\ At(v2, l.at) # At(v, l.at)
    BY <1>1 DEF Joining, Concerned, Complete
  <2>2. v2[u] # v[u]
    BY <2>1 DEF At
  <2>3. u \in Filled(v)
    BY <1>1, <2>2 DEF Filled
  <2> QED BY <1>1, <2>3 DEF Filled
<1> QED BY <1>1

\* the first value from the server is shown to all callbacks, later ones show no less
LEMMA HeldData ==
    ASSUME TypeOK, NEW d \in Devices, NumbersAt(d), NumbersAt(d)', Wired(d), DBTypeOK',
           Held(d), budget'.refusals = budget.refusals, OnDataUpdate(d),
           Filled(View(d)) \subseteq Filled(View(d)')
    PROVE  Held(d)'
<1> DEFINE to == Concerned(listeners[d], known[d], cache[d], pend[d], TRUE, cache'[d], pend'[d])
           c == Cardinality(Dues(mainQ[d], uid[d]))
           c2 == Cardinality(Dues(mainQ'[d], uid[d]))
<1>1. /\ mainQ'[d] = mainQ[d] \o Raised(to, View(d)')
      /\ pend'[d] = pend[d] /\ listeners'[d] = listeners[d] /\ known'[d] = TRUE
      /\ inbox[d] # << >> /\ Head(inbox[d]).t = "data" /\ inbox'[d] = Tail(inbox[d])
  BY DEF OnDataUpdate, TypeOK, DBTypeOK, View
<1>2. /\ mainQ[d] \in Seq(Event) /\ listeners[d] \in SUBSET Listener /\ IsFiniteSet(listeners[d])
      /\ inbox[d] \in Seq(Message) /\ known[d] \in BOOLEAN /\ uid[d] \in Keys
  BY UsersAssumption DEF TypeOK, DBTypeOK, Users
<1>3. View(d)' \in Tree
  BY OverlayType DEF DBTypeOK, View
<1>4. \A i \in 1..Len(mainQ[d]) : mainQ[d][i].to \subseteq listeners[d]
  BY DEF Wired
<1>5. to \in SUBSET listeners[d]
  BY DEF Concerned
<1>6. Joiners(d)' = Joiners(d) /\ Joiners(d) = Joining(listeners[d])
  BY <1>1 DEF Joiners, Joining
<1>7. Cardinality(Refusals(inbox'[d])) = Cardinality(Refusals(inbox[d]))
  <2>1. Cardinality(Refusals(inbox[d])) = Cardinality(Refusals(Tail(inbox[d])))
            + (IF Head(inbox[d]).t = "ack" /\ ~Head(inbox[d]).ok THEN 1 ELSE 0)
    BY <1>1, <1>2, RefusalsTail
  <2>2. Cardinality(Refusals(Tail(inbox[d]))) \in Nat
    BY <1>1 DEF NumbersAt
  <2>3. Cardinality(Refusals(inbox[d])) = Cardinality(Refusals(Tail(inbox[d]))) + 0
    BY <1>1, <2>1
  <2> QED BY <1>1, <2>2, <2>3
<1>8. \A l \in Joining(listeners[d]) : l.at = {uid[d]}
  BY <1>6 DEF Held, JoinsAt
<1>9. CASE known[d] = FALSE
  <2>1. c2 <= c + Cardinality(Joiners(d))
    <3> HIDE DEF to
    <3> QED BY <1>1, <1>2, <1>3, <1>4, <1>5, <1>6, DuesRaised
  <2>2. MaxRefusals - budget.refusals \in Int
    BY BudgetAssumption DEF TypeOK, Budgets
  <2>3. Fits(Len(pend[d]), c2, TRUE, Cardinality(Joiners(d)),
             Cardinality(Refusals(inbox[d])), MaxRefusals - budget.refusals)
    <3>1. /\ Len(pend[d]) \in Nat /\ c \in Nat /\ c2 \in Nat
          /\ Cardinality(Joiners(d)) \in Nat /\ Cardinality(Refusals(inbox[d])) \in Nat
      BY DEF NumbersAt
    <3>2. Fits(Len(pend[d]), c, FALSE, Cardinality(Joiners(d)),
               Cardinality(Refusals(inbox[d])), MaxRefusals - budget.refusals)
      BY <1>9 DEF Held, Weighs
    <3> HIDE DEF c, c2
    <3> QED BY <2>1, <2>2, <3>1, <3>2, FitsData, ZenonT(60)
  <2>4. Weighs(d)'
    BY <1>1, <1>6, <1>7, <2>3 DEF Weighs
  <2> QED BY <1>1, <1>6, <2>4 DEF Held, Silent, JoinsAt
<1>10. CASE known[d] = TRUE
  <2>1. View(d)'[uid[d]] # Nil \/ Joining(to) = {}
    BY <1>2, <1>8, <1>10, NobodyMisses DEF View
  <2>2. c2 <= c
    <3> HIDE DEF to
    <3> QED BY <1>1, <1>2, <1>3, <1>4, <1>5, <2>1, DuesRaised
  <2>3. Weighs(d)'
    <3>1. Cardinality(Refusals(inbox'[d])) <= Cardinality(Refusals(inbox[d]))
      BY <1>7 DEF NumbersAt
    <3>2. Len(pend'[d]) + Cardinality(Dues(mainQ'[d], uid[d])) <=
              Len(pend[d]) + Cardinality(Dues(mainQ[d], uid[d]))
      <4>1. Len(pend'[d]) = Len(pend[d]) /\ Len(pend[d]) \in Nat
        BY <1>1 DEF NumbersAt
      <4>2. c \in Nat /\ c2 \in Nat
        BY DEF NumbersAt
      <4> HIDE DEF c, c2
      <4>3. Len(pend'[d]) + c2 <= Len(pend[d]) + c
        BY <2>2, <4>1, <4>2
      <4> QED BY <4>3 DEF c, c2
    <3> QED BY <1>1, <1>6, <1>10, <3>1, <3>2, WeighsLess DEF Held
  <2> QED BY <1>1, <1>6, <2>3 DEF Held, Silent, JoinsAt
<1> QED BY <1>2, <1>9, <1>10

\* a refusal may make every callback write once more, an acceptance shows no less
LEMMA HeldAck ==
    ASSUME TypeOK, NEW d \in Devices, NumbersAt(d), NumbersAt(d)', Wired(d), DBTypeOK', ListensFirst,
           Held(d), budget'.refusals = budget.refusals, AckWrite(d),
           ~Refused(d) => Filled(View(d)) \subseteq Filled(View(d)')
    PROVE  Held(d)'
<1> DEFINE to == Concerned(listeners[d], known[d], cache[d], pend[d], known[d], cache'[d], pend'[d])
           c == Cardinality(Dues(mainQ[d], uid[d]))
           c2 == Cardinality(Dues(mainQ'[d], uid[d]))
<1>1. /\ mainQ'[d] = mainQ[d] \o Raised(to, View(d)')
      /\ pend'[d] = Tail(pend[d]) /\ listeners'[d] = listeners[d] /\ known'[d] = known[d]
      /\ inbox[d] # << >> /\ Head(inbox[d]).t = "ack" /\ inbox'[d] = Tail(inbox[d])
  BY DEF AckWrite, WithoutOldest, TypeOK, DBTypeOK, View
<1>2. /\ mainQ[d] \in Seq(Event) /\ listeners[d] \in SUBSET Listener /\ IsFiniteSet(listeners[d])
      /\ inbox[d] \in Seq(Message) /\ known[d] \in BOOLEAN /\ uid[d] \in Keys /\ pend[d] \in Seq(Write)
  BY UsersAssumption DEF TypeOK, DBTypeOK, Users
<1>3. View(d)' \in Tree
  BY OverlayType DEF DBTypeOK, View
<1>4. \A i \in 1..Len(mainQ[d]) : mainQ[d][i].to \subseteq listeners[d]
  BY DEF Wired
<1>5. to \in SUBSET listeners[d]
  BY DEF Concerned
<1>6. Joiners(d)' = Joiners(d) /\ Joiners(d) = Joining(listeners[d])
  BY <1>1 DEF Joiners, Joining
<1>7. Cardinality(Refusals(inbox[d])) =
          Cardinality(Refusals(inbox'[d])) + (IF ~Head(inbox[d]).ok THEN 1 ELSE 0)
  BY <1>1, <1>2, RefusalsTail
<1>8. \A l \in Joining(listeners[d]) : l.at = {uid[d]}
  BY <1>6 DEF Held, JoinsAt
<1>9. known[d] = TRUE
  BY <1>1, <1>2 DEF ListensFirst, Introduced, TypeOK, DBTypeOK
<1>10. Len(pend'[d]) <= Len(pend[d])
  <2>1. Cardinality(Answers(inbox[d])) = Cardinality(Answers(Tail(inbox[d]))) + 1
    BY <1>1, <1>2, AnswersTail
  <2>2. Tail(inbox[d]) \in Seq(Message)
    BY <1>1, <1>2
  <2>3. Cardinality(Answers(Tail(inbox[d]))) \in Nat
    BY <2>2, AnswersFinite
  <2>4. Cardinality(Answers(inbox[d])) <= Len(pend[d])
    BY DEF TypeOK, DBTypeOK, Answered
  <2>5. Len(pend[d]) > 0
    BY <1>2, <2>1, <2>3, <2>4
  <2> QED BY <1>1, <1>2, <2>5
<1>11. Silent(d)' /\ JoinsAt(d)'
  BY <1>1, <1>6, <1>9 DEF Held, Silent, JoinsAt
<1>12. CASE ~Head(inbox[d]).ok
  <2>1. c2 <= c + Cardinality(Joiners(d))
    <3> HIDE DEF to
    <3> QED BY <1>1, <1>2, <1>3, <1>4, <1>5, <1>6, DuesRaised
  <2>2. MaxRefusals - budget.refusals \in Int
    BY BudgetAssumption DEF TypeOK, Budgets
  <2>3. Cardinality(Refusals(inbox[d])) = Cardinality(Refusals(inbox'[d])) + 1
    BY <1>7, <1>12
  <2>4. /\ Len(pend'[d]) \in Nat /\ c2 \in Nat /\ Cardinality(Refusals(inbox'[d])) \in Nat
    BY DEF NumbersAt
  <2>5. Fits(Len(pend'[d]), c2, known[d], Cardinality(Joiners(d)),
             Cardinality(Refusals(inbox'[d])), MaxRefusals - budget.refusals)
    <3>1. /\ Len(pend[d]) \in Nat /\ c \in Nat /\ known[d] \in BOOLEAN
          /\ Cardinality(Joiners(d)) \in Nat /\ Cardinality(Refusals(inbox[d])) \in Nat
      BY DEF NumbersAt
    <3>2. Fits(Len(pend[d]), c, known[d], Cardinality(Joiners(d)),
               Cardinality(Refusals(inbox[d])), MaxRefusals - budget.refusals)
      BY DEF Held, Weighs
    <3> HIDE DEF c, c2
    <3> QED BY <1>10, <2>1, <2>2, <2>3, <2>4, <3>1, <3>2, FitsRefused, ZenonT(60)
  <2>6. Weighs(d)'
    BY <1>1, <1>6, <2>5 DEF Weighs
  <2> QED BY <1>11, <2>6 DEF Held
<1>13. CASE Head(inbox[d]).ok
  <2>1. Filled(View(d)) \subseteq Filled(View(d)')
    BY <1>13 DEF Refused
  <2>2. View(d)'[uid[d]] # Nil \/ Joining(to) = {}
    BY <1>2, <1>8, <1>9, <2>1, NobodyMisses DEF View
  <2>3. c2 <= c
    <3> HIDE DEF to
    <3> QED BY <1>1, <1>2, <1>3, <1>4, <1>5, <2>2, DuesRaised
  <2>4. Weighs(d)'
    <3>1. Cardinality(Refusals(inbox'[d])) <= Cardinality(Refusals(inbox[d]))
      BY <1>7, <1>13 DEF NumbersAt
    <3>2. Len(pend'[d]) + Cardinality(Dues(mainQ'[d], uid[d])) <=
              Len(pend[d]) + Cardinality(Dues(mainQ[d], uid[d]))
      <4>1. Len(pend'[d]) \in Nat /\ Len(pend[d]) \in Nat
        BY DEF NumbersAt
      <4>2. c \in Nat /\ c2 \in Nat
        BY DEF NumbersAt
      <4> HIDE DEF c, c2
      <4>3. Len(pend'[d]) + c2 <= Len(pend[d]) + c
        BY <1>10, <2>3, <4>1, <4>2
      <4> QED BY <4>3 DEF c, c2
    <3> QED BY <1>1, <1>6, <3>1, <3>2, WeighsLess DEF Held
  <2> QED BY <1>11, <2>4 DEF Held
<1> QED BY <1>12, <1>13

\* the process ends
LEMMA HeldEnded ==
    ASSUME TypeOK, NEW d \in Devices, NumbersAt(d), Held(d), budget'.refusals = budget.refusals,
           Terminate(d)
    PROVE  Held(d)'
<1>1. /\ mainQ'[d] = << >> /\ pend'[d] = << >> /\ listeners'[d] = {} /\ known'[d] = FALSE
      /\ inbox'[d] = << >>
  BY DEF Terminate, TypeOK, DBTypeOK
<1>2. Joiners(d)' = {} /\ Dues(mainQ'[d], uid[d]) = {} /\ Refusals(inbox'[d]) = {}
  BY <1>1 DEF Joiners, Dues, Refusals, Answers
<1>3. /\ Cardinality(Joiners(d)') = 0 /\ Cardinality(Dues(mainQ'[d], uid[d])) = 0
      /\ Cardinality(Refusals(inbox'[d])) = 0 /\ Len(pend'[d]) = 0
  BY <1>1, <1>2, FS_EmptySet
<1>4. MaxRefusals - budget.refusals \in Int /\ 0 <= MaxRefusals - budget.refusals
  <2>1. MaxRefusals - budget.refusals \in Int
    BY BudgetAssumption DEF TypeOK, Budgets
  <2>2. Cardinality(Refusals(inbox[d])) \in Nat
    BY DEF NumbersAt
  <2>3. Cardinality(Refusals(inbox[d])) <= MaxRefusals - budget.refusals
    BY DEF Held, Weighs, Fits
  <2> QED BY <2>1, <2>2, <2>3
<1>5. Fits(0, 0, FALSE, 0, 0, MaxRefusals - budget.refusals)
  BY <1>4 DEF Fits
<1>6. Weighs(d)'
  BY <1>1, <1>3, <1>5 DEF Weighs
<1> QED BY <1>1, <1>2, <1>6 DEF Held, Silent, JoinsAt

\* the server and the connection: what is sent and lost, but for refusals
LEMMA HeldNet ==
    ASSUME TypeOK, NEW d \in Devices, ServerListen(d) \/ ServerAccept(d) \/ RestoreState(d),
           NEW e \in Devices, NumbersAt(e), NumbersAt(e)', Held(e), budget'.refusals = budget.refusals
    PROVE  Held(e)'
<1>1. /\ listeners'[e] = listeners[e] /\ pend'[e] = pend[e] /\ mainQ'[e] = mainQ[e]
      /\ known'[e] = known[e]
  BY DEF ServerListen, ServerAccept, RestoreState
<1>2. inbox[e] \in Seq(Message) /\ server \in Tree
  BY DEF TypeOK, DBTypeOK
<1>3. ASSUME NEW v \in Tree
      PROVE  /\ Append(inbox[e], Data(v)) \in Seq(Message)
             /\ Cardinality(Refusals(Append(inbox[e], Data(v)))) = Cardinality(Refusals(inbox[e]))
  <2>1. Data(v) \in Message /\ Data(v).t # "ack"
    BY DEF Data, Message
  <2>2. Cardinality(Refusals(Append(inbox[e], Data(v)))) = Cardinality(Refusals(inbox[e])) + 0
    BY <1>2, <2>1, RefusalsAppend
  <2> QED BY <1>2, <2>1, <2>2 DEF NumbersAt
<1>4. Cardinality(Refusals(inbox'[e])) <= Cardinality(Refusals(inbox[e]))
  <2>1. CASE inbox'[e] = inbox[e]
    BY <2>1 DEF NumbersAt
  <2>2. CASE ServerListen(d)
    <3>1. inbox'[e] = inbox[e] \/ inbox'[e] = Append(inbox[e], Data(server))
      BY <2>2 DEF ServerListen, TypeOK, DBTypeOK
    <3>2. ASSUME inbox'[e] = Append(inbox[e], Data(server))
          PROVE  Cardinality(Refusals(inbox'[e])) <= Cardinality(Refusals(inbox[e]))
      <4>1. Cardinality(Refusals(inbox'[e])) = Cardinality(Refusals(inbox[e]))
        BY <1>2, <1>3, <3>2
      <4> QED BY <4>1 DEF NumbersAt
    <3> QED BY <2>1, <3>1, <3>2
  <2>3. CASE RestoreState(d)
    <3>1. inbox'[e] = inbox[e] \/ inbox'[e] = << >>
      BY <2>3 DEF RestoreState, TypeOK, DBTypeOK
    <3>2. Refusals(<< >>) = {}
      BY DEF Refusals, Answers
    <3>3. Cardinality(Refusals(<< >>)) = 0
      BY <3>2, FS_EmptySet
    <3> QED BY <2>1, <3>1, <3>3 DEF NumbersAt
  <2>4. CASE ServerAccept(d)
    <3> DEFINE b1 == IF sub[e] = "on" /\ server' # server
                     THEN Append(inbox[e], Data(server')) ELSE inbox[e]
    <3>1. /\ server' \in Tree /\ b1 \in Seq(Message)
          /\ inbox'[e] = IF e = d THEN Append(b1, Ack(TRUE)) ELSE b1
      BY <2>4, ServerAcceptInbox DEF TypeOK
    <3>2. Cardinality(Refusals(b1)) = Cardinality(Refusals(inbox[e]))
      BY <1>3, <3>1
    <3> HIDE DEF b1
    <3>3. Cardinality(Refusals(Append(b1, Ack(TRUE)))) = Cardinality(Refusals(b1)) + 0
      <4>1. Ack(TRUE) \in Message /\ Ack(TRUE).ok
        BY DEF Ack, Message
      <4> QED BY <3>1, <4>1, RefusalsAppend
    <3>4. Cardinality(Refusals(inbox'[e])) = Cardinality(Refusals(inbox[e]))
      <4>1. Cardinality(Refusals(inbox[e])) \in Nat
        BY DEF NumbersAt
      <4>2. inbox'[e] = b1 \/ inbox'[e] = Append(b1, Ack(TRUE))
        BY <3>1
      <4>3. Cardinality(Refusals(Append(b1, Ack(TRUE)))) = Cardinality(Refusals(inbox[e]))
        <5>1. PICK r, r1, r2 : /\ r = Cardinality(Refusals(inbox[e])) /\ r1 = Cardinality(Refusals(b1))
                               /\ r2 = Cardinality(Refusals(Append(b1, Ack(TRUE))))
          BY Zenon
        <5>2. r2 = r1 + 0 /\ r1 = r /\ r \in Nat
          BY <3>2, <3>3, <4>1, <5>1, Zenon
        <5>3. r2 = r
          BY <5>2
        <5> QED BY <5>1, <5>3, Zenon
      <4>4. CASE inbox'[e] = b1
        BY <3>2, <4>4
      <4>5. CASE inbox'[e] = Append(b1, Ack(TRUE))
        BY <4>3, <4>5, Zenon
      <4> QED BY <4>2, <4>4, <4>5
    <3> QED BY <3>4 DEF NumbersAt
  <2> QED BY <2>2, <2>3, <2>4
<1> QED BY <1>1, <1>4, HeldElsewhere

\* the server refuses a record: what may be under way is no less than before
LEMMA HeldDenied ==
    ASSUME TypeOK, UNCHANGED dbVars, Spend("refusals"), NEW e \in Devices, NumbersAt(e), Held(e)
    PROVE  Held(e)'
<1>1. /\ listeners'[e] = listeners[e] /\ pend'[e] = pend[e] /\ mainQ'[e] = mainQ[e]
      /\ known'[e] = known[e] /\ inbox'[e] = inbox[e]
  BY DEF dbVars
<1>2. budget'.refusals = budget.refusals - 1
  BY DEF Spend, TypeOK, Budgets
<1> QED BY <1>1, <1>2, HeldRefused

LEMMA HeldRefuse ==
    ASSUME TypeOK, NEW d \in Devices, Refuse(d), NEW e \in Devices, NumbersAt(e), Held(e)
    PROVE  Held(e)'
<1>1. /\ listeners'[e] = listeners[e] /\ pend'[e] = pend[e] /\ mainQ'[e] = mainQ[e]
      /\ known'[e] = known[e]
  BY DEF Refuse, ServerRefuse
<1>2. budget'.refusals = budget.refusals - 1
  BY DEF Refuse, Spend, TypeOK, Budgets
<1>3. Cardinality(Refusals(inbox'[e])) \in
          {Cardinality(Refusals(inbox[e])), Cardinality(Refusals(inbox[e])) + 1}
  <2>1. inbox[e] \in Seq(Message) /\ Ack(FALSE) \in Message
    BY DEF TypeOK, DBTypeOK, Ack, Message
  <2>2. Ack(FALSE).t = "ack" /\ ~Ack(FALSE).ok
    BY DEF Ack
  <2>3. Cardinality(Refusals(Append(inbox[e], Ack(FALSE)))) = Cardinality(Refusals(inbox[e])) + 1
    BY <2>1, <2>2, RefusalsAppend
  <2>4. inbox'[e] = inbox[e] \/ inbox'[e] = Append(inbox[e], Ack(FALSE))
    BY DEF Refuse, ServerRefuse, TypeOK, DBTypeOK
  <2> QED BY <2>3, <2>4
<1> QED BY <1>1, <1>2, <1>3, HeldRefused

\* a device that a step of another one leaves alone
LEMMA HeldAside ==
    ASSUME TypeOK, NEW e \in Devices, NumbersAt(e), NumbersAt(e)', Held(e),
           listeners'[e] = listeners[e], pend'[e] = pend[e], mainQ'[e] = mainQ[e],
           known'[e] = known[e], inbox'[e] = inbox[e], budget'.refusals = budget.refusals
    PROVE  Held(e)'
<1>1. Cardinality(Refusals(inbox'[e])) <= Cardinality(Refusals(inbox[e]))
  BY DEF NumbersAt
<1> QED BY <1>1, HeldElsewhere

LEMMA NextHeld ==
    ASSUME TypeOK, TypeOK', GuestInv, GuestInv', CountInv, CountInv', WritesInv, [Next]_vars,
           NEW e \in Devices
    PROVE  Held(e)'
<1>0. /\ \A d \in Devices : Wired(d) /\ Wired(d)' /\ Held(d) /\ AllFill(d) /\ AllFill(d)' /\ Grows(d, {})
      /\ DBTypeOK /\ DBTypeOK' /\ ListensFirst
  BY DEF TypeOK, CountInv, WritesInv, WritesAt, Held, JoinsAt, GuestInv, GuestsUnderWay, AllFill, Filling
<1>a. \A d \in Devices : NumbersAt(d)
  BY <1>0, Numbers
<1>b. \A d \in Devices : NumbersAt(d)'
  BY <1>0, NumbersNext
<1>c. \A d \in Devices : uid[d] \in Keys /\ {uid[d]} \in Places
  BY PlacesHere, UsersAssumption DEF Users
\* the budget of refusals is touched by a refusal alone
<1>d. ASSUME NEW b \in {"opens", "taps", "drops", "kills"}, Spend(b)
      PROVE  budget'.refusals = budget.refusals
  BY <1>d DEF Spend, TypeOK, Budgets
<1>1. ASSUME NEW d \in Devices, NEW kind \in {"count", "leave"}, Observe(d, kind, Root, mainQ[d]),
             budget'.refusals = budget.refusals
      PROVE  Held(e)'
  <2>1. CASE e = d
    BY <1>0, <1>a, <1>b, <1>1, <2>1, HeldObserve
  <2>2. CASE e # d
    <3>1. /\ listeners'[e] = listeners[e] /\ pend'[e] = pend[e] /\ mainQ'[e] = mainQ[e]
          /\ known'[e] = known[e] /\ inbox'[e] = inbox[e]
      BY <1>1, <2>2 DEF Observe, TypeOK, DBTypeOK
    <3> QED BY <1>0, <1>a, <1>b, <1>1, <3>1, HeldAside
  <2> QED BY <2>1, <2>2
<1>2. ASSUME UNCHANGED dbVars, budget'.refusals = budget.refusals PROVE Held(e)'
  <2>1. /\ listeners'[e] = listeners[e] /\ pend'[e] = pend[e] /\ mainQ'[e] = mainQ[e]
        /\ known'[e] = known[e] /\ inbox'[e] = inbox[e]
    BY <1>2 DEF dbVars
  <2> QED BY <1>0, <1>a, <1>b, <1>2, <2>1, HeldAside
<1>3. ASSUME NEW d \in Devices, Touch(d) PROVE Held(e)'
  <2>1. CASE Open(d)
    <3>1. Observe(d, "count", Root, mainQ[d]) /\ Spend("opens")
      BY <2>1 DEF Open
    <3> QED BY <1>1, <1>d, <3>1
  <2>2. CASE btnParticipate(d)
    <3>1. UNCHANGED dbVars /\ Spend("taps")
      BY <2>2 DEF btnParticipate
    <3> QED BY <1>2, <1>d, <3>1
  <2>3. CASE btnNotParticipate(d)
    <3>1. Observe(d, "leave", Root, mainQ[d]) /\ Spend("taps")
      BY <2>3 DEF btnNotParticipate
    <3> QED BY <1>1, <1>d, <3>1
  <2>4. CASE btnCancel(d)
    BY <1>2, <2>4 DEF btnCancel
  <2> QED BY <1>3, <2>1, <2>2, <2>3, <2>4 DEF Touch
<1>4. ASSUME NEW d \in Devices, NEW l \in Head(mainQ[d]).to, mainQ[d] # << >>,
             mainQ' = [mainQ EXCEPT ![d] = Popped(d, l)],
             UNCHANGED <<server, cache, known, pend, inbox, sub, listeners, budget>>
      PROVE  Held(e)'
  <2>1. /\ listeners'[e] = listeners[e] /\ pend'[e] = pend[e] /\ known'[e] = known[e]
        /\ inbox'[e] = inbox[e] /\ budget'.refusals = budget.refusals
        /\ mainQ'[e] = IF e = d THEN Popped(d, l) ELSE mainQ[e]
    BY <1>4 DEF TypeOK, DBTypeOK
  <2>2. CASE e = d
    BY <1>0, <1>a, <1>b, <1>4, <2>1, <2>2, HeldCalled
  <2>3. CASE e # d
    BY <1>0, <1>a, <1>b, <2>1, <2>3, HeldAside
  <2> QED BY <2>2, <2>3
<1>5. ASSUME NEW d \in Devices, MainQueue(d) PROVE Held(e)'
  <2>1. CASE CountCallback(d)
    BY <1>4, <2>1 DEF CountCallback
  <2>2. CASE LeaveCallback(d)
    BY <1>4, <2>2, NeverLeaves DEF LeaveCallback, uiVars
  <2>3. CASE JoinCallback(d)
    <3>1. PICK l \in Head(mainQ[d]).to :
              /\ l.kind = "join"
              /\ \/ Head(mainQ[d]).snap[uid[d]] = Nil /\ Put(d, Entry(uid[d]), Popped(d, l))
                 \/ /\ mainQ' = [mainQ EXCEPT ![d] = Popped(d, l)]
                    /\ UNCHANGED <<server, cache, known, pend, inbox, sub, listeners>>
      BY <2>3 DEF JoinCallback, EntryUid
    <3>2. mainQ[d] # << >> /\ UNCHANGED budget
      BY <2>3 DEF JoinCallback
    <3>3. CASE /\ mainQ' = [mainQ EXCEPT ![d] = Popped(d, l)]
               /\ UNCHANGED <<server, cache, known, pend, inbox, sub, listeners>>
      BY <1>4, <3>2, <3>3
    <3>4. CASE Head(mainQ[d]).snap[uid[d]] = Nil /\ Put(d, Entry(uid[d]), Popped(d, l))
      <4>1. CASE e = d
        BY <1>0, <1>a, <1>b, <3>1, <3>2, <3>4, <4>1, HeldPut
      <4>2. CASE e # d
        <5>1. /\ listeners'[e] = listeners[e] /\ pend'[e] = pend[e] /\ mainQ'[e] = mainQ[e]
              /\ known'[e] = known[e] /\ inbox'[e] = inbox[e] /\ budget'.refusals = budget.refusals
          BY <3>2, <3>4, <4>2 DEF Put, TypeOK, DBTypeOK
        <5> QED BY <1>0, <1>a, <1>b, <5>1, HeldAside
      <4> QED BY <4>1, <4>2
    <3> QED BY <3>1, <3>3, <3>4
  <2> QED BY <1>5, <2>1, <2>2, <2>3 DEF MainQueue
<1>6. ASSUME NEW d \in Devices, UserCallback(d) PROVE Held(e)'
  <2>1. UNCHANGED dbVars \/ Observe(d, "join", {uid[d]}, mainQ[d])
    BY <1>6 DEF UserCallback
  <2>2. budget'.refusals = budget.refusals
    BY <1>6 DEF UserCallback
  <2>3. CASE Observe(d, "join", {uid[d]}, mainQ[d])
    <3>1. CASE e = d
      BY <1>0, <1>a, <1>b, <2>2, <2>3, <3>1, HeldJoin
    <3>2. CASE e # d
      <4>1. /\ listeners'[e] = listeners[e] /\ pend'[e] = pend[e] /\ mainQ'[e] = mainQ[e]
            /\ known'[e] = known[e] /\ inbox'[e] = inbox[e]
        BY <2>3, <3>2 DEF Observe, TypeOK, DBTypeOK
      <4> QED BY <1>0, <1>a, <1>b, <2>2, <4>1, HeldAside
    <3> QED BY <3>1, <3>2
  <2> QED BY <1>2, <2>1, <2>2, <2>3
<1>7. ASSUME NEW d \in Devices, Restart(d), budget'.refusals = budget.refusals PROVE Held(e)'
  <2>1. Terminate(d)
    BY <1>7 DEF Restart
  <2>2. CASE e = d
    BY <1>0, <1>a, <1>7, <2>1, <2>2, HeldEnded
  <2>3. CASE e # d
    <3>1. /\ listeners'[e] = listeners[e] /\ pend'[e] = pend[e] /\ mainQ'[e] = mainQ[e]
          /\ known'[e] = known[e] /\ inbox'[e] = inbox[e]
      BY <2>1, <2>3 DEF Terminate, TypeOK, DBTypeOK
    <3> QED BY <1>0, <1>a, <1>b, <1>7, <3>1, HeldAside
  <2> QED BY <2>2, <2>3
<1>8. ASSUME NEW d \in Devices, Receive(d) PROVE Held(e)'
  <2>1. (OnDataUpdate(d) \/ AckWrite(d)) /\ budget'.refusals = budget.refusals
    BY <1>8 DEF Receive
  <2>2. CASE e # d
    <3>1. /\ listeners'[e] = listeners[e] /\ pend'[e] = pend[e] /\ mainQ'[e] = mainQ[e]
          /\ known'[e] = known[e] /\ inbox'[e] = inbox[e]
      <4>1. listeners' = listeners /\ \A f \in Devices \ {d} :
                /\ pend'[f] = pend[f] /\ mainQ'[f] = mainQ[f]
                /\ known'[f] = known[f] /\ inbox'[f] = inbox[f]
        <5>1. CASE OnDataUpdate(d)
          BY <5>1 DEF OnDataUpdate, TypeOK, DBTypeOK
        <5>2. CASE AckWrite(d)
          BY <5>2 DEF AckWrite, TypeOK, DBTypeOK
        <5> QED BY <2>1, <5>1, <5>2
      <4> QED BY <2>2, <4>1
    <3> QED BY <1>0, <1>a, <1>b, <2>1, <3>1, HeldAside
  <2>3. ~Refused(d) => Filled(View(d)) \subseteq Filled(View(d)')
    <3>0. NetStep(d)
      BY <2>1 DEF NetStep
    <3>1. DBStep(d, {})
      BY <3>0 DEF DBStep
    <3>2. ~Terminate(d)
      <4>1. inbox[d] # << >> /\ inbox[d] \in Seq(Message)
        BY <2>1 DEF OnDataUpdate, AckWrite, TypeOK, DBTypeOK
      <4>2. sub' = sub
        BY <2>1 DEF OnDataUpdate, AckWrite
      <4>3. ASSUME Terminate(d) PROVE FALSE
        <5>1. sub[d] = "off"
          BY <4>2, <4>3 DEF Terminate, TypeOK, DBTypeOK
        <5> QED BY <1>0, <4>1, <5>1 DEF ListensFirst
      <4> QED BY <4>3
    <3> QED BY <1>0, <3>1, <3>2, SightGrows
  <2>4. CASE e = d /\ OnDataUpdate(d)
    <3>1. ~Refused(d)
      BY <2>4 DEF Refused, AckWrite, OnDataUpdate
    <3> QED BY <1>0, <1>a, <1>b, <2>1, <2>3, <2>4, <3>1, HeldData
  <2>5. CASE e = d /\ AckWrite(d)
    BY <1>0, <1>a, <1>b, <2>1, <2>3, <2>5, HeldAck
  <2> QED BY <2>1, <2>2, <2>4, <2>5
<1>9. ASSUME NEW d \in Devices, Listening(d) \/ Accept(d) \/ Reconnect(d) PROVE Held(e)'
  <2>1. /\ ServerListen(d) \/ ServerAccept(d) \/ RestoreState(d)
        /\ budget'.refusals = budget.refusals
    BY <1>9, <1>d DEF Listening, Accept, Reconnect
  <2> QED BY <1>0, <1>a, <1>b, <2>1, HeldNet
<1>10. ASSUME NEW d \in Devices, Refuse(d) PROVE Held(e)'
  BY <1>0, <1>a, <1>10, HeldRefuse
<1>11. ASSUME NEW d \in Devices, UserMissing(d) \/ Kill(d) PROVE Held(e)'
  BY <1>7, <1>11, <1>d DEF UserMissing, Kill
<1>12. ASSUME NEW d \in Devices, RecordAnswers(d) \/ SaveRecord(d) PROVE Held(e)'
  BY <1>2, <1>12 DEF RecordAnswers, ServerRecord, RecordStored, RecordTakenBack, SaveRecord
<1>15. ASSUME NEW d \in Devices, RecordRefused(d) PROVE Held(e)'
  <2>1. UNCHANGED dbVars /\ Spend("refusals")
    BY <1>15 DEF RecordRefused
  <2> QED BY <1>0, <1>a, <2>1, HeldDenied
<1>13. ASSUME NEW u \in Users, StoreRecord(u) PROVE Held(e)'
  BY <1>2, <1>13 DEF StoreRecord
<1>14. CASE UNCHANGED vars
  BY <1>2, <1>14 DEF vars
<1> QED BY <1>3, <1>5, <1>6, <1>8, <1>9, <1>10, <1>11, <1>12, <1>13, <1>14, <1>15 DEF Next, UserQueue

LEMMA NextGrows ==
    ASSUME TypeOK, GuestInv, CountInv, WritesInv, [Next]_vars, NEW e \in Devices
    PROVE  Grows(e, {})'
<1>1. CASE Stays \/ UNCHANGED vars
  <2>1. inbox' = inbox /\ cache' = cache /\ pend' = pend /\ server' = server
    BY <1>1 DEF Stays, vars, dbVars
  <2>2. Grows(e, {})
    BY DEF WritesInv, WritesAt
  <2> QED BY <2>1, <2>2 DEF Grows
<1>2. ASSUME NEW d \in Devices, NEW M, DBStep(d, M) PROVE Grows(e, {})'
  <2>1. Once({})
    BY DEF Once
  <2>2. \A f \in Devices : Grows(f, {}) /\ AllFill(f)
    BY DEF WritesInv, WritesAt, GuestInv, GuestsUnderWay, AllFill, Filling
  <2>3. DBTypeOK /\ InSync /\ ListensFirst
    BY DEF TypeOK, CountInv
  <2> QED BY <1>2, <2>1, <2>2, <2>3, StepGrows
<1> QED BY <1>1, <1>2, NextIsStep DEF CountInv

LEMMA NextWritesInv ==
    TypeOK /\ TypeOK' /\ GuestInv /\ GuestInv' /\ CountInv /\ CountInv' /\ WritesInv /\ [Next]_vars
        => WritesInv'
<1> SUFFICES ASSUME TypeOK, TypeOK', GuestInv, GuestInv', CountInv, CountInv', WritesInv, [Next]_vars,
                    NEW e \in Devices
             PROVE  WritesAt(e)'
  BY DEF WritesInv
<1>1. Held(e)' /\ Grows(e, {})'
  BY NextHeld, NextGrows
<1> QED BY <1>1 DEF WritesAt, Held, JoinsAt

LEMMA InitWritesInv == Init => WritesInv
<1> SUFFICES ASSUME Init, NEW d \in Devices PROVE WritesAt(d)
  BY DEF WritesInv
<1>1. /\ mainQ[d] = << >> /\ pend[d] = << >> /\ listeners[d] = {} /\ known[d] = FALSE
      /\ inbox[d] = << >> /\ cache[d] = NoTree /\ budget.refusals = MaxRefusals
  BY DEF Init, DBInit
<1>2. Joiners(d) = {} /\ Dues(mainQ[d], uid[d]) = {} /\ Refusals(inbox[d]) = {}
  BY <1>1 DEF Joiners, Dues, Refusals, Answers
<1>3. /\ Cardinality(Joiners(d)) = 0 /\ Cardinality(Dues(mainQ[d], uid[d])) = 0
      /\ Cardinality(Refusals(inbox[d])) = 0 /\ Len(pend[d]) = 0
  BY <1>1, <1>2, FS_EmptySet
<1>4. MaxRefusals - budget.refusals = 0
  BY <1>1, BudgetAssumption
<1>5. Weighs(d)
  BY <1>1, <1>3, <1>4 DEF Weighs, Fits
<1>6. Grows(d, {})
  <2>1. Filled(NoTree) = {} /\ DataIn(<< >>) = {} /\ Answers(<< >>) = {}
    BY DEF Filled, NoTree, DataIn, Answers
  <2> QED BY <1>1, <2>1 DEF Grows, Growing
<1> QED BY <1>1, <1>2, <1>5, <1>6 DEF WritesAt, Silent

(* The callbacks that write whenever the entry is missing do not flood the *)
(* server: a device has never more writes under way than one for every     *)
(* callback and one more for every callback and refusal, however the       *)
(* events, the answers, losses and restarts fall (JoinCallback and the     *)
(* callbacks that btnParticipate never removes).                           *)
THEOREM WritesAreBounded == Spec => []BoundedWrites
<1>1. TypeOK /\ CountInv /\ WritesInv => BoundedWrites
  <2> SUFFICES ASSUME TypeOK, CountInv, WritesInv, NEW d \in Devices
               PROVE  Len(pend[d]) <= Cardinality(Joiners(d)) * (1 + MaxRefusals - budget.refusals)
    BY DEF BoundedWrites
  <2>1. NumbersAt(d) /\ Weighs(d)
    BY Numbers DEF TypeOK, CountInv, WritesInv, WritesAt
  <2>2. /\ MaxRefusals - budget.refusals \in Int
        /\ 1 + MaxRefusals - budget.refusals = 1 + (MaxRefusals - budget.refusals)
    BY BudgetAssumption DEF TypeOK, Budgets
  <2>3. Len(pend[d]) <= Cardinality(Joiners(d)) * (1 + (MaxRefusals - budget.refusals))
    BY <2>1, <2>2, FitsBounds DEF NumbersAt, Weighs
  <2> QED BY <2>2, <2>3
<1> QED BY <1>1, InitTypeOK, NextTypeOK, InitGuestInv, NextGuestInv, InitCountInv, NextCountInv,
           InitWritesInv, NextWritesInv, PTL DEF Spec
=============================================================================
