---------------------------- MODULE PostsProofs ----------------------------
(***************************************************************************)
(* Proofs about the posts: the screens stay well formed, only its author   *)
(* writes to a post, and a post on the server has all its fields.          *)
(***************************************************************************)
EXTENDS Posts, RealtimeDBProofs

-----------------------------------------------------------------------------
(* The parts of a post.                                                    *)
LEMMA Parts ==
    ASSUME NEW p \in Ids
    PROVE  /\ Place(p) \in Places /\ Place(p) \in SUBSET Keys
           /\ Body(p) \in Place(p) /\ Text(p) \in Place(p) /\ Body(p) # Text(p)
<1>1. Place(p) \subseteq Keys
  BY PartsAssumption
<1>2. Body(p) \in Place(p) /\ Text(p) \in Place(p) /\ Body(p) # Text(p)
  BY DEF Place, Body, Text
<1>3. Place(p) # {}
  BY <1>2
<1> QED BY <1>1, <1>2, <1>3 DEF Places

LEMMA Apart == ASSUME NEW p \in Ids, NEW q \in Ids, NEW k, k \in Place(p), k \in Place(q) PROVE p = q
  BY DEF Place, Body, Text

\* a post as Share writes it, and as the buttons do
Made(p, t) == [k \in Place(p) |-> IF k = Body(p) THEN "made" ELSE t]
Edit(p, t) == [k \in {Text(p)} |-> t]

LEMMA WriteType ==
    ASSUME NEW p \in Ids, NEW t \in Texts \cup {"made"}
    PROVE  /\ Made(p, t) \in Write /\ DOMAIN Made(p, t) = Place(p)
           /\ \A k \in DOMAIN Made(p, t) : Made(p, t)[k] # Nil
           /\ Edit(p, t) \in Write /\ DOMAIN Edit(p, t) = {Text(p)} /\ Edit(p, t)[Text(p)] # Nil
<1>1. "made" \in Vals /\ t \in Vals /\ "made" # Nil /\ t # Nil
  BY PartsAssumption, NilAssumption
<1>2. Place(p) \in SUBSET Keys /\ {Text(p)} \in SUBSET Keys
  BY Parts
<1>3. Made(p, t) \in [Place(p) -> Vals \cup {Nil}] /\ Edit(p, t) \in [{Text(p)} -> Vals \cup {Nil}]
  BY <1>1 DEF Made, Edit
<1>4. Made(p, t) \in Write /\ Edit(p, t) \in Write
  BY <1>2, <1>3 DEF Write
<1> QED BY <1>1, <1>4 DEF Made, Edit

-----------------------------------------------------------------------------
(* Type correctness.                                                       *)
LEMMA InitTypeOK == Init => TypeOK
<1> SUFFICES ASSUME Init PROVE TypeOK
  OBVIOUS
<1>1. NoTree \in Tree
  BY DEF NoTree, Tree
<1>2. DBTypeOK
  BY <1>1, InitType DEF Init
<1>3. budget \in Budgets
  BY BudgetAssumption DEF Init, Budgets
<1>4. Blank \in Texts
  BY PartsAssumption
<1>5. rows \in [Devices -> [Lists -> [Ids -> Nat]]]
  BY DEF Init, NoRows
<1> QED BY <1>2, <1>3, <1>4, <1>5 DEF Init, TypeOK

LEMMA RestartTypeOK ==
    ASSUME TypeOK, NEW d \in Devices, Restart(d), budget' \in Budgets
    PROVE  TypeOK'
<1>1. DBTypeOK'
  BY TerminateType DEF TypeOK, Restart
<1>2. Blank \in Texts
  BY PartsAssumption
<1>3. rows' \in [Devices -> [Lists -> [Ids -> Nat]]]
  BY DEF TypeOK, Restart, NoRows
<1> QED BY <1>1, <1>2, <1>3 DEF TypeOK, Restart

LEMMA SpendType ==
    ASSUME budget \in Budgets, NEW b \in {"taps", "edits", "refusals", "drops", "kills"}, Spend(b)
    PROVE  budget' \in Budgets
  BY DEF Spend, Budgets

\* an event's callback is done
LEMMA DoneType ==
    ASSUME DBTypeOK, NEW d \in Devices, NEW l \in Head(mainQ[d]).to, mainQ[d] # << >>,
           mainQ' = [mainQ EXCEPT ![d] = Popped(d, l)],
           UNCHANGED <<server, cache, known, pend, inbox, sub, listeners>>
    PROVE  DBTypeOK' /\ Head(mainQ[d]).snap \in Tree /\ l \in Listener
<1>1. Popped(d, l) \in Seq(Event) /\ Head(mainQ[d]) \in Event /\ l \in Listener
  BY PoppedType
<1>2. DBTypeOK'
  BY <1>1 DEF DBTypeOK, Answered
<1> QED BY <1>1, <1>2 DEF Event

LEMMA SavesIs ==
    ASSUME NEW d \in Devices
    PROVE  Saves(d) <=> Put(d, Edit(post[d], form[d]), mainQ[d])
  BY DEF Saves, Edit

LEMMA NextTypeOK == TypeOK /\ [Next]_vars => TypeOK'
<1> SUFFICES ASSUME TypeOK, [Next]_vars PROVE TypeOK'
  OBVIOUS
<1>0. DBTypeOK /\ (\A d \in Devices : mainQ[d] \in Seq(Event)) /\ budget \in Budgets
  BY DEF TypeOK, DBTypeOK
<1>a. Nil \notin Ids /\ Nil \notin Users /\ \A d \in Devices : uid[d] \in Users
  BY UsersAssumption
<1>1. ASSUME NEW d \in Devices, SharePost(d) PROVE TypeOK'
  <2>1. PICK p \in Ids, t \in Texts :
            author' = [author EXCEPT ![p] = uid[d]] /\ Put(d, Made(p, t), mainQ[d])
    BY <1>1 DEF SharePost, Made
  <2>2. DBTypeOK'
    <3>1. Made(p, t) \in Write
      BY WriteType
    <3> QED BY <1>0, <2>1, <3>1, PutType
  <2>3. author' \in [Ids -> Users \cup {Nil}]
    BY <1>a, <2>1 DEF TypeOK
  <2> QED BY <1>1, <2>2, <2>3 DEF SharePost, screenVars, TypeOK
<1>2. ASSUME NEW d \in Devices, OpenHome(d) \/ OpenProfile(d) PROVE TypeOK'
  <2>1. PICK kind \in {"home", "mine"} : Observe(d, kind, Root, mainQ[d])
    BY <1>2 DEF OpenHome, OpenProfile
  <2>2. Root \in Places
    <3>1. PICK p \in Ids : TRUE
      BY PartsAssumption
    <3>2. Keys # {}
      BY <3>1, Parts
    <3> QED BY <3>2 DEF Root, Places
  <2>3. DBTypeOK'
    BY <1>0, <2>1, <2>2, ObserveType, KindsAssumption
  <2> QED BY <1>2, <2>3 DEF OpenHome, OpenProfile, screenVars, TypeOK
<1>3. ASSUME NEW d \in Devices, OpenDetail(d) PROVE TypeOK'
  <2>1. PICK p \in Ids :
            post' = [post EXCEPT ![d] = p] /\ Observe(d, "detail", Place(p), mainQ[d])
    BY <1>3 DEF OpenDetail
  <2>2. DBTypeOK'
    BY <1>0, <2>1, ObserveType, KindsAssumption, Parts
  <2>3. loader' \in [Devices -> Nat]
    <3>1. Cardinality(listeners[d]) + 1 \in Nat
      BY <1>0, FS_CardinalityType DEF DBTypeOK
    <3> QED BY <1>3, <3>1 DEF OpenDetail, TypeOK
  <2>4. form' \in [Devices -> Texts \cup {"made"}]
    BY <1>3, PartsAssumption DEF OpenDetail, TypeOK
  <2>5. budget' \in Budgets
    BY <1>0, <1>3, SpendType DEF OpenDetail
  <2> QED BY <1>3, <2>1, <2>2, <2>3, <2>4, <2>5 DEF OpenDetail, TypeOK
<1>4. ASSUME NEW d \in Devices, Type(d) PROVE TypeOK'
  <2>1. DBTypeOK'
    BY <1>0, <1>4 DEF Type, dbVars, DBTypeOK, Answered
  <2>2. budget' \in Budgets
    BY <1>0, <1>4, SpendType DEF Type
  <2> QED BY <1>4, <2>1, <2>2 DEF Type, TypeOK
<1>5. ASSUME NEW d \in Devices, buttonUpdate(d) \/ Cancel(d) PROVE TypeOK'
  <2>1. post[d] \in Ids /\ Saves(d)
    BY <1>5 DEF buttonUpdate, Cancel, TypeOK
  <2>2. Edit(post[d], form[d]) \in Write
    BY <2>1, WriteType DEF TypeOK
  <2>3. DBTypeOK'
    BY <1>0, <2>1, <2>2, PutType, SavesIs
  <2>4. budget' \in Budgets
    BY <1>0, <1>5, SpendType DEF buttonUpdate, Cancel
  <2>5. post' \in [Devices -> Ids \cup {Nil}]
    BY <1>5, <2>1 DEF buttonUpdate, Cancel, TypeOK
  <2> QED BY <1>5, <2>3, <2>4, <2>5 DEF buttonUpdate, Cancel, TypeOK
<1>6. ASSUME NEW d \in Devices, ListCallback(d) PROVE TypeOK'
  <2>1. PICK l \in Head(mainQ[d]).to :
            /\ l.kind \in Lists
            /\ mainQ' = [mainQ EXCEPT ![d] = Popped(d, l)]
            /\ listed' = [listed EXCEPT ![d][l.kind] = Posted(Head(mainQ[d]).snap)]
            /\ rows' = [rows EXCEPT ![d][l.kind] = [p \in Ids |->
                   @[p] + (IF p \in Added(d, l.kind, Head(mainQ[d]).snap) /\ Belongs(d, l.kind, p)
                           THEN 1 ELSE 0)]]
    BY <1>6 DEF ListCallback
  <2>2. DBTypeOK'
    BY <1>0, <1>6, <2>1, DoneType DEF ListCallback
  <2>3. listed' \in [Devices -> [Lists -> SUBSET Ids]]
    BY <2>1 DEF TypeOK, Posted
  <2>4. rows' \in [Devices -> [Lists -> [Ids -> Nat]]]
    <3> DEFINE r == [p \in Ids |-> rows[d][l.kind][p]
                        + (IF p \in Added(d, l.kind, Head(mainQ[d]).snap) /\ Belongs(d, l.kind, p)
                           THEN 1 ELSE 0)]
    <3>1. r \in [Ids -> Nat]
      BY <2>1 DEF TypeOK
    <3>2. rows' = [rows EXCEPT ![d] = [rows[d] EXCEPT ![l.kind] = r]]
      BY <2>1 DEF TypeOK
    <3> HIDE DEF r
    <3> QED BY <2>1, <3>1, <3>2 DEF TypeOK
  <2> QED BY <1>6, <2>2, <2>3, <2>4 DEF ListCallback, TypeOK
<1>7. ASSUME NEW d \in Devices, DetailCallback(d) PROVE TypeOK'
  <2>1. PICK l \in Head(mainQ[d]).to, p \in Ids :
            /\ Whole(Head(mainQ[d]).snap, p)
            /\ mainQ' = [mainQ EXCEPT ![d] = Popped(d, l)]
            /\ form' = [form EXCEPT ![d] =
                   IF l.n = loader[d] THEN Head(mainQ[d]).snap[Text(p)] ELSE @]
    BY <1>7 DEF DetailCallback
  <2>2. DBTypeOK' /\ Head(mainQ[d]).snap \in Tree
    BY <1>0, <1>7, <2>1, DoneType DEF DetailCallback
  <2>3. Head(mainQ[d]).snap[Text(p)] \in Texts \cup {"made"}
    BY <2>1, <2>2, Parts, PartsAssumption DEF Whole, Tree
  <2>4. form' \in [Devices -> Texts \cup {"made"}]
    BY <2>1, <2>3 DEF TypeOK
  <2> QED BY <1>7, <2>2, <2>4 DEF DetailCallback, TypeOK
<1>8. ASSUME NEW d \in Devices, FieldMissing(d) \/ Kill(d) PROVE TypeOK'
  <2>1. Restart(d) /\ budget' \in Budgets
    BY <1>0, <1>8, SpendType DEF FieldMissing, Kill
  <2> QED BY <2>1, RestartTypeOK
<1>9. ASSUME NEW d \in Devices, Receive(d) \/ Listening(d) \/ Accept(d) PROVE TypeOK'
  <2>1. DBTypeOK'
    BY <1>0, <1>9, OnDataUpdateType, AckWriteType, ServerListenType, ServerAcceptType
    DEF Receive, Listening, Accept
  <2> QED BY <1>9, <2>1 DEF Receive, Listening, Accept, screenVars, TypeOK
<1>10. ASSUME NEW d \in Devices, Refuse(d) \/ Reconnect(d) PROVE TypeOK'
  <2>1. DBTypeOK'
    BY <1>0, <1>10, ServerRefuseType, RestoreStateType DEF Refuse, Reconnect
  <2>2. budget' \in Budgets
    BY <1>0, <1>10, SpendType DEF Refuse, Reconnect
  <2> QED BY <1>10, <2>1, <2>2 DEF Refuse, Reconnect, screenVars, TypeOK
<1>11. CASE UNCHANGED vars
  BY <1>11 DEF vars, screenVars, dbVars, TypeOK, DBTypeOK, Answered
<1> QED
  BY <1>1, <1>2, <1>3, <1>4, <1>5, <1>6, <1>7, <1>8, <1>9, <1>10, <1>11
  DEF Next, Touch, MainQueue

(* Lists, forms and the library under them are well formed, whatever the   *)
(* users tap and whatever the server and the connection do.                *)
THEOREM TypeCorrect == Spec => []TypeOK
  BY InitTypeOK, NextTypeOK, PTL DEF Spec

-----------------------------------------------------------------------------
(* Only the author writes.  The list of own posts, the screen opened from  *)
(* it and the writes on their way belong to the user of the device; nobody *)
(* becomes the author of somebody else's post.                             *)
Touched(w) == {p \in Ids : DOMAIN w \cap Place(p) # {}}

\* what the screens would write to
Shown(d) == {p \in Ids : rows[d]["mine"][p] > 0 \/ post[d] = p}

Own(d) == {p \in Ids : author[p] = uid[d]}

Authored(d) ==
    /\ Shown(d) \subseteq Own(d)
    /\ \A i \in 1..Len(pend[d]) : Touched(pend[d][i]) \subseteq Own(d)

AuthorInv == \A d \in Devices : Authored(d)

LEMMA TouchedBy ==
    ASSUME NEW p \in Ids, NEW t
    PROVE  Touched(Made(p, t)) = {p} /\ Touched(Edit(p, t)) = {p}
<1>1. DOMAIN Made(p, t) = Place(p) /\ DOMAIN Edit(p, t) = {Text(p)}
  BY DEF Made, Edit
<1>2. Text(p) \in Place(p)
  BY Parts
<1> QED BY <1>1, <1>2, Apart DEF Touched

\* what a step of a device leaves of its lists
LEMMA ShownStays ==
    ASSUME NEW d \in Devices, UNCHANGED <<rows, post>> PROVE Shown(d)' = Shown(d)
  BY DEF Shown

\* a device whose writes are some of those it had, or none new
LEMMA AuthoredStays ==
    ASSUME NEW d \in Devices, Authored(d), Own(d) \subseteq Own(d)', Shown(d)' \subseteq Shown(d),
           \A i \in 1..Len(pend'[d]) : \E j \in 1..Len(pend[d]) : pend'[d][i] = pend[d][j]
    PROVE  Authored(d)'
  BY DEF Authored

LEMMA AuthoredPut ==
    ASSUME DBTypeOK, NEW d \in Devices, Authored(d), NEW w \in Write, NEW q, Put(d, w, q),
           Own(d) \subseteq Own(d)', Touched(w) \subseteq Own(d)', Shown(d)' \subseteq Shown(d)
    PROVE  Authored(d)'
<1>1. pend[d] \in Seq(Write) /\ pend'[d] = Append(pend[d], w)
  BY DEF DBTypeOK, Put
<1>2. \A i \in 1..Len(pend'[d]) : pend'[d][i] = w \/ (i \in 1..Len(pend[d]) /\ pend'[d][i] = pend[d][i])
  BY <1>1
<1>3. \A i \in 1..Len(pend'[d]) : Touched(pend'[d][i]) \subseteq Own(d)'
  BY <1>2 DEF Authored
<1> QED BY <1>3 DEF Authored

\* the steps of the library and the server write nothing
LEMMA WritesStay ==
    ASSUME DBTypeOK, NEW d \in Devices, NEW e \in Devices,
           OnDataUpdate(d) \/ AckWrite(d) \/ ServerListen(d) \/ ServerAccept(d) \/ ServerRefuse(d)
           \/ RestoreState(d) \/ Terminate(d) \/ UNCHANGED pend
    PROVE  \A i \in 1..Len(pend'[e]) : \E j \in 1..Len(pend[e]) : pend'[e][i] = pend[e][j]
<1>1. CASE UNCHANGED pend
  BY <1>1
<1>2. CASE AckWrite(d)
  <2>1. pend[d] \in Seq(Write) /\ pend[d] # << >>
    BY <1>2, AckWriteType DEF DBTypeOK
  <2>2. pend'[e] = IF e = d THEN Tail(pend[d]) ELSE pend[e]
    BY <1>2 DEF AckWrite, WithoutOldest, DBTypeOK
  <2>3. \A i \in 1..Len(Tail(pend[d])) : i + 1 \in 1..Len(pend[d]) /\ Tail(pend[d])[i] = pend[d][i + 1]
    BY <2>1
  <2>4. CASE e = d
    BY <2>2, <2>3, <2>4
  <2>5. CASE e # d
    BY <2>2, <2>5
  <2> QED BY <2>4, <2>5
<1>3. CASE Terminate(d)
  BY <1>3 DEF Terminate, DBTypeOK
<1> QED BY <1>1, <1>2, <1>3 DEF OnDataUpdate, ServerListen, ServerAccept, ServerRefuse, RestoreState

LEMMA InitAuthors == Init => AuthorInv
<1> SUFFICES ASSUME Init, NEW d \in Devices PROVE Authored(d)
  BY DEF AuthorInv
<1>1. Shown(d) = {}
  BY UsersAssumption, KindsAssumption DEF Init, NoRows, Shown
<1>2. Len(pend[d]) = 0
  BY DEF Init, DBInit
<1> QED BY <1>1, <1>2 DEF Authored

LEMMA NextAuthors == TypeOK /\ AuthorInv /\ [Next]_vars => AuthorInv'
<1> SUFFICES ASSUME TypeOK, AuthorInv, [Next]_vars PROVE AuthorInv'
  OBVIOUS
<1>0. DBTypeOK /\ \A d \in Devices : Authored(d)
  BY DEF TypeOK, AuthorInv
<1>a. ASSUME UNCHANGED author PROVE \A e \in Devices : Own(e)' = Own(e)
  BY <1>a DEF Own
<1>1. ASSUME NEW d \in Devices, SharePost(d) PROVE AuthorInv'
  <2>1. PICK p \in Ids, t \in Texts :
            /\ author[p] = Nil /\ author' = [author EXCEPT ![p] = uid[d]]
            /\ Put(d, Made(p, t), mainQ[d])
    BY <1>1 DEF SharePost, Made
  <2>2. \A e \in Devices : uid[e] # Nil
    BY UsersAssumption
  <2>3. \A e \in Devices : Own(e) \subseteq Own(e)'
    BY <2>1, <2>2 DEF Own, TypeOK
  <2>4. p \in Own(d)'
    BY <2>1 DEF Own, TypeOK
  <2>5. \A e \in Devices : Shown(e)' \subseteq Shown(e)
    BY <1>1 DEF SharePost, screenVars, Shown
  <2>6. Made(p, t) \in Write /\ Touched(Made(p, t)) \subseteq Own(d)'
    <3>1. Made(p, t) \in Write
      BY WriteType
    <3>2. Touched(Made(p, t)) = {p}
      BY TouchedBy
    <3> QED BY <2>4, <3>1, <3>2
  <2>7. Authored(d)'
    BY <1>0, <2>1, <2>3, <2>5, <2>6, AuthoredPut
  <2>8. ASSUME NEW e \in Devices, e # d PROVE Authored(e)'
    <3>1. pend'[e] = pend[e]
      BY <1>0, <2>1, <2>8 DEF Put, DBTypeOK
    <3> QED BY <1>0, <2>3, <2>5, <3>1, AuthoredStays
  <2> QED BY <2>7, <2>8 DEF AuthorInv
<1>2. ASSUME NEW d \in Devices, OpenHome(d) \/ OpenProfile(d) \/ Type(d) \/ DetailCallback(d)
             \/ Receive(d) \/ Listening(d) \/ Accept(d) \/ Refuse(d) \/ Reconnect(d)
      PROVE  AuthorInv'
  <2>1. UNCHANGED <<author, rows, post>>
    BY <1>2 DEF OpenHome, OpenProfile, Type, DetailCallback, Receive, Listening, Accept, Refuse,
                Reconnect, screenVars
  <2>2. \/ UNCHANGED pend \/ OnDataUpdate(d) \/ AckWrite(d) \/ ServerListen(d)
        \/ ServerAccept(d) \/ ServerRefuse(d) \/ RestoreState(d)
    BY <1>2 DEF OpenHome, OpenProfile, Type, DetailCallback, Receive, Listening, Accept, Refuse,
                Reconnect, Observe, dbVars
  <2>3. \A e \in Devices : \A i \in 1..Len(pend'[e]) : \E j \in 1..Len(pend[e]) : pend'[e][i] = pend[e][j]
    BY <1>0, <2>2, WritesStay
  <2>4. \A e \in Devices : Own(e) \subseteq Own(e)' /\ Shown(e)' \subseteq Shown(e)
    BY <1>a, <2>1, ShownStays
  <2> QED BY <1>0, <2>3, <2>4, AuthoredStays DEF AuthorInv
<1>3. ASSUME NEW d \in Devices, OpenDetail(d) PROVE AuthorInv'
  <2>1. PICK p \in Ids : rows[d]["mine"][p] > 0 /\ post' = [post EXCEPT ![d] = p]
    BY <1>3 DEF OpenDetail
  <2>2. UNCHANGED <<author, rows, pend>>
    BY <1>3 DEF OpenDetail, Observe
  <2>3. \A e \in Devices : Shown(e)' \subseteq Shown(e)
    BY <2>1, <2>2 DEF Shown, TypeOK
  <2>4. \A e \in Devices : \A i \in 1..Len(pend'[e]) : \E j \in 1..Len(pend[e]) : pend'[e][i] = pend[e][j]
    BY <2>2
  <2> QED BY <1>0, <1>a, <2>2, <2>3, <2>4, AuthoredStays DEF AuthorInv
<1>4. ASSUME NEW d \in Devices, buttonUpdate(d) \/ Cancel(d) PROVE AuthorInv'
  <2>1. post[d] \in Ids /\ form[d] \in Texts \cup {"made"} /\ Saves(d)
    BY <1>4 DEF buttonUpdate, Cancel, TypeOK
  <2>a. PICK q \in Ids : q = post[d]
    BY <2>1
  <2>b. PICK t \in Texts \cup {"made"} : t = form[d]
    BY <2>1
  <2>2. Put(d, Edit(q, t), mainQ[d])
    BY <2>1, <2>a, <2>b, SavesIs
  <2>3. UNCHANGED <<author, rows>> /\ \A e \in Devices : post'[e] = post[e] \/ post'[e] = Nil
    BY <1>4 DEF buttonUpdate, Cancel, TypeOK
  <2>4. \A e \in Devices : Shown(e)' \subseteq Shown(e)
    BY <2>3, UsersAssumption DEF Shown
  <2>5. q \in Own(d)'
    <3>1. q \in Shown(d)
      BY <2>a DEF Shown
    <3> QED BY <1>0, <1>a, <2>3, <3>1 DEF Authored
  <2>6. Edit(q, t) \in Write /\ Touched(Edit(q, t)) \subseteq Own(d)'
    <3>1. Edit(q, t) \in Write
      BY WriteType
    <3>2. Touched(Edit(q, t)) = {q}
      BY TouchedBy
    <3> QED BY <2>5, <3>1, <3>2
  <2>7. Authored(d)'
    BY <1>0, <1>a, <2>2, <2>3, <2>4, <2>6, AuthoredPut
  <2>8. ASSUME NEW e \in Devices, e # d PROVE Authored(e)'
    <3>1. pend'[e] = pend[e]
      BY <1>0, <2>2, <2>8 DEF Put, DBTypeOK
    <3> QED BY <1>0, <1>a, <2>3, <2>4, <3>1, AuthoredStays
  <2> QED BY <2>7, <2>8 DEF AuthorInv
<1>5. ASSUME NEW d \in Devices, ListCallback(d) PROVE AuthorInv'
  <2>1. PICK l \in Head(mainQ[d]).to :
            /\ l.kind \in Lists
            /\ rows' = [rows EXCEPT ![d][l.kind] = [p \in Ids |->
                   @[p] + (IF p \in Added(d, l.kind, Head(mainQ[d]).snap) /\ Belongs(d, l.kind, p)
                           THEN 1 ELSE 0)]]
    BY <1>5 DEF ListCallback
  <2>2. UNCHANGED <<author, post, pend>>
    BY <1>5 DEF ListCallback
  <2>3. ASSUME NEW e \in Devices, NEW p \in Ids, rows'[e]["mine"][p] > 0
        PROVE  rows[e]["mine"][p] > 0 \/ p \in Own(e)
    <3> DEFINE k == l.kind
               r == [x \in Ids |-> rows[d][k][x]
                        + (IF x \in Added(d, k, Head(mainQ[d]).snap) /\ Belongs(d, k, x) THEN 1 ELSE 0)]
    <3>1. rows' = [rows EXCEPT ![d] = [rows[d] EXCEPT ![k] = r]]
      BY <2>1 DEF TypeOK
    <3>2. r[p] = rows[d][k][p] \/ Belongs(d, k, p)
      BY <2>1 DEF TypeOK
    <3> HIDE DEF r, k
    <3>3. CASE e = d /\ k = "mine"
      <4>1. rows'[e]["mine"] = r
        BY <3>1, <3>3, KindsAssumption DEF TypeOK
      <4>2. CASE Belongs(d, k, p)
        BY <3>3, <4>2 DEF Belongs, Own
      <4>3. CASE r[p] = rows[d][k][p]
        BY <2>3, <3>3, <4>1, <4>3
      <4> QED BY <3>2, <4>2, <4>3
    <3>4. CASE e # d \/ k # "mine"
      <4>1. rows'[e]["mine"] = rows[e]["mine"]
        BY <3>1, <3>4, KindsAssumption DEF TypeOK
      <4> QED BY <2>3, <4>1
    <3> QED BY <3>3, <3>4
  <2>4. ASSUME NEW e \in Devices PROVE Authored(e)'
    <3>1. Shown(e)' \subseteq Own(e)'
      BY <1>0, <1>a, <2>2, <2>3 DEF Shown, Authored
    <3> QED BY <1>0, <1>a, <2>2, <3>1 DEF Authored
  <2> QED BY <2>4 DEF AuthorInv
<1>6. ASSUME NEW d \in Devices, FieldMissing(d) \/ Kill(d) PROVE AuthorInv'
  <2>1. Restart(d)
    BY <1>6 DEF FieldMissing, Kill
  <2>2. UNCHANGED author
    BY <2>1 DEF Restart
  <2>3. \A e \in Devices : Shown(e)' \subseteq Shown(e)
    BY <2>1, UsersAssumption, KindsAssumption DEF Restart, Shown, NoRows, TypeOK
  <2>4. \A e \in Devices : \A i \in 1..Len(pend'[e]) : \E j \in 1..Len(pend[e]) : pend'[e][i] = pend[e][j]
    BY <1>0, <2>1, WritesStay DEF Restart
  <2> QED BY <1>0, <1>a, <2>2, <2>3, <2>4, AuthoredStays DEF AuthorInv
<1>7. CASE UNCHANGED vars
  <2>1. UNCHANGED <<author, rows, post, pend>>
    BY <1>7 DEF vars, screenVars, dbVars
  <2>2. \A e \in Devices : Shown(e)' = Shown(e) /\ Own(e)' = Own(e)
    BY <1>a, <2>1, ShownStays
  <2> QED BY <1>0, <2>1, <2>2 DEF AuthorInv, Authored
<1> QED BY <1>1, <1>2, <1>3, <1>4, <1>5, <1>6, <1>7 DEF Next, Touch, MainQueue

(* A device writes to a post only if its user shared it: the filter of the *)
(* list of own posts is all that keeps users off each other's posts.       *)
THEOREM OnlyAuthorsWrite == Spec => []OnlyAuthorWrites
<1>1. AuthorInv => OnlyAuthorWrites
  BY DEF AuthorInv, Authored, OnlyAuthorWrites, Touched, Own
<1> QED BY <1>1, InitTypeOK, NextTypeOK, InitAuthors, NextAuthors, PTL DEF Spec

-----------------------------------------------------------------------------
(* Posts are whole.  As long as the server refuses nothing, a post of which *)
(* anything is seen anywhere, on the server, in a library's copy, in an    *)
(* event or a row, is whole on the server or will be, once the writes      *)
(* recorded ahead of what was seen are accepted.                           *)
WholeIn(v) == {p \in Ids : Whole(v, p)}

\* the posts whose first write is among the unanswered ones up to the i-th;
\* a is the number of writes that were answered
Ahead(w, a, i) == {p \in Ids : \E j \in 1..i : j > a /\ Place(p) \subseteq DOMAIN w[j]}

Sure(W, w, a, i) == W \cup Ahead(w, a, i)

Writes(W, w, a) ==
    \A i \in 1..Len(w) :
        Touched(w[i]) \subseteq Sure(W, w, a, i) /\ \A k \in DOMAIN w[i] : w[i][k] # Nil

Snaps(q, S) == \A i \in 1..Len(q) : Posted(q[i].snap) \subseteq S

News(box, S) == \A i \in 1..Len(box) : box[i].t = "data" => Posted(box[i].val) \subseteq S

Sound(W, c, box, w, a, q, sh) ==
    /\ Posted(c) \subseteq W /\ News(box, W) /\ Writes(W, w, a)
    /\ Snaps(q, Sure(W, w, a, Len(w))) /\ sh \subseteq Sure(W, w, a, Len(w))

SoundAt(d) ==
    Sound(WholeIn(server), cache[d], inbox[d], pend[d], Answered(d), mainQ[d], Shown(d))

AllSound == Posted(server) \subseteq WholeIn(server) /\ \A d \in Devices : SoundAt(d)

WholeInv ==
    budget.refusals <= MaxRefusals /\ (budget.refusals = MaxRefusals => AllSound)

LEMMA SureNext ==
    ASSUME NEW W, NEW w, NEW a \in Nat, NEW i \in Nat, NEW j \in Nat, i <= j
    PROVE  Sure(W, w, a, i) \subseteq Sure(W, w, a, j)
  BY DEF Sure, Ahead

LEMMA SnapsGrow == ASSUME NEW q, NEW S, NEW T, S \subseteq T, Snaps(q, S) PROVE Snaps(q, T)
  BY DEF Snaps

LEMMA NewsGrow == ASSUME NEW q, NEW S, NEW T, S \subseteq T, News(q, S) PROVE News(q, T)
  BY DEF News

LEMMA NewsTail ==
    ASSUME NEW box \in Seq(Message), box # << >>, NEW S, News(box, S)
    PROVE  News(Tail(box), S)
  BY DEF News

LEMMA NewsAppend ==
    ASSUME NEW box \in Seq(Message), NEW m \in Message, NEW S, News(box, S),
           m.t = "data" => Posted(m.val) \subseteq S
    PROVE  News(Append(box, m), S)
<1> DEFINE b2 == Append(box, m)
<1>1. Len(b2) = Len(box) + 1 /\ b2[Len(box) + 1] = m /\ \A i \in 1..Len(box) : b2[i] = box[i]
  OBVIOUS
<1>2. \A i \in 1..Len(b2) : i = Len(box) + 1 \/ i \in 1..Len(box)
  BY <1>1
<1> HIDE DEF b2
<1>3. News(b2, S)
  BY <1>1, <1>2 DEF News
<1> QED BY <1>3 DEF b2

\* more on the server, fewer answered: what was sure is
LEMMA SureStays ==
    ASSUME NEW W, NEW W2, W \subseteq W2, NEW w \in Seq(Write), NEW a, NEW a2,
           \A i \in 1..Len(w) : Sure(W, w, a, i) \subseteq Sure(W2, w, a2, i), Writes(W, w, a)
    PROVE  Writes(W2, w, a2)
  BY DEF Writes

LEMMA SureAppend ==
    ASSUME NEW W, NEW w \in Seq(Write), NEW a \in Nat, NEW x \in Write, Writes(W, w, a),
           \A k \in DOMAIN x : x[k] # Nil, a <= Len(w),
           \A p \in Touched(x) : Place(p) \subseteq DOMAIN x \/ p \in Sure(W, w, a, Len(w))
    PROVE  /\ Writes(W, Append(w, x), a)
           /\ Sure(W, w, a, Len(w)) \subseteq Sure(W, Append(w, x), a, Len(Append(w, x)))
<1> DEFINE w2 == Append(w, x)
           n == Len(w) + 1
<1>1. Len(w2) = n /\ w2[n] = x /\ \A i \in 1..Len(w) : w2[i] = w[i]
  OBVIOUS
<1>2. n \in Nat /\ n > a /\ Len(w) \in Nat
  OBVIOUS
<1> HIDE DEF w2
<1>3. \A i \in 1..Len(w) : Ahead(w2, a, i) = Ahead(w, a, i)
  BY <1>1 DEF Ahead
<1>4. Ahead(w, a, Len(w)) \subseteq Ahead(w2, a, n)
  BY <1>1, <1>2 DEF Ahead
<1>5. \A p \in Ids : Place(p) \subseteq DOMAIN x => p \in Ahead(w2, a, n)
  BY <1>1, <1>2 DEF Ahead
<1>6. Touched(x) \subseteq Sure(W, w2, a, n)
  BY <1>4, <1>5 DEF Sure, Touched
<1>7. ASSUME NEW i \in 1..n
      PROVE  Touched(w2[i]) \subseteq Sure(W, w2, a, i) /\ \A k \in DOMAIN w2[i] : w2[i][k] # Nil
  <2>1. CASE i = n
    BY <1>1, <1>6, <2>1
  <2>2. CASE i \in 1..Len(w)
    BY <1>1, <1>3, <2>2 DEF Writes, Sure
  <2> QED BY <1>2, <2>1, <2>2
<1>8. Writes(W, w2, a)
  BY <1>1, <1>7 DEF Writes
<1>9. Sure(W, w, a, Len(w)) \subseteq Sure(W, w2, a, Len(w2))
  BY <1>1, <1>4 DEF Sure
<1> QED BY <1>8, <1>9 DEF w2

\* the oldest write is forgotten when it was answered
LEMMA SureTail ==
    ASSUME NEW W, NEW w \in Seq(Write), w # << >>, NEW a \in Nat, Writes(W, w, a + 1)
    PROVE  /\ Writes(W, Tail(w), a)
           /\ Sure(W, w, a + 1, Len(w)) \subseteq Sure(W, Tail(w), a, Len(Tail(w)))
<1> DEFINE w2 == Tail(w)
<1>1. Len(w2) = Len(w) - 1 /\ Len(w) \in Nat /\ \A i \in 1..Len(w2) : i + 1 \in 1..Len(w) /\ w2[i] = w[i + 1]
  OBVIOUS
<1> HIDE DEF w2
<1>2. ASSUME NEW i \in 0..Len(w2), NEW p \in Ahead(w, a + 1, i + 1) PROVE p \in Ahead(w2, a, i)
  <2>1. PICK j \in 1..(i + 1) : j > a + 1 /\ Place(p) \subseteq DOMAIN w[j]
    BY <1>2 DEF Ahead
  <2>2. j - 1 \in 1..i /\ j - 1 > a /\ j - 1 \in 1..Len(w2) /\ (j - 1) + 1 = j
    BY <1>1, <2>1
  <2>3. w2[j - 1] = w[j]
    BY <1>1, <2>2
  <2> QED BY <1>2, <2>1, <2>2, <2>3 DEF Ahead
<1>3. ASSUME NEW i \in 1..Len(w2)
      PROVE  Touched(w2[i]) \subseteq Sure(W, w2, a, i) /\ \A k \in DOMAIN w2[i] : w2[i][k] # Nil
  <2>1. i \in 0..Len(w2) /\ i + 1 \in 1..Len(w) /\ w2[i] = w[i + 1]
    BY <1>1
  <2>2. Sure(W, w, a + 1, i + 1) \subseteq Sure(W, w2, a, i)
    BY <1>2, <2>1 DEF Sure
  <2> QED BY <2>1, <2>2 DEF Writes
<1>4. Sure(W, w, a + 1, Len(w)) \subseteq Sure(W, w2, a, Len(w2))
  <2>1. w # << >> /\ Len(w2) \in 0..Len(w2) /\ Len(w2) + 1 = Len(w)
    BY <1>1
  <2> QED BY <1>2, <2>1 DEF Sure
<1>5. Writes(W, w2, a)
  BY <1>3 DEF Writes
<1> QED BY <1>4, <1>5 DEF w2

\* the oldest unanswered write was accepted
LEMMA SureAccepted ==
    ASSUME NEW W, NEW W2, W \subseteq W2, NEW w \in Seq(Write), NEW a \in Nat, a + 1 <= Len(w),
           \A p \in Ids : Place(p) \subseteq DOMAIN w[a + 1] => p \in W2
    PROVE  \A i \in Nat : Sure(W, w, a, i) \subseteq Sure(W2, w, a + 1, i)
<1> SUFFICES ASSUME NEW i \in Nat, NEW p \in Ahead(w, a, i) PROVE p \in Sure(W2, w, a + 1, i)
  BY DEF Sure
<1>1. PICK j \in 1..i : j > a /\ Place(p) \subseteq DOMAIN w[j]
  BY DEF Ahead
<1>2. j = a + 1 \/ j > a + 1
  BY <1>1
<1> QED BY <1>1, <1>2 DEF Sure, Ahead

\* what a library shows
LEMMA OverlayPosted ==
    ASSUME NEW W, NEW c \in Tree, NEW w \in Seq(Write), NEW a \in Nat, Posted(c) \subseteq W,
           Writes(W, w, a)
    PROVE  Posted(Overlay(c, w)) \subseteq Sure(W, w, a, Len(w))
<1> SUFFICES ASSUME NEW p \in Ids, NEW k \in Place(p), Overlay(c, w)[k] # Nil
             PROVE  p \in Sure(W, w, a, Len(w))
  BY DEF Posted, Present
<1>1. k \in Keys
  BY Parts
<1>2. Overlay(c, w)[k] = IF Covering(w, k) = {} THEN c[k] ELSE w[Newest(Covering(w, k))][k]
  BY <1>1 DEF Overlay
<1>3. CASE Covering(w, k) = {}
  BY <1>2, <1>3 DEF Posted, Present, Sure
<1>4. CASE Covering(w, k) # {}
  <2>1. PICK i \in Covering(w, k) : TRUE
    BY <1>4
  <2>2. i \in 1..Len(w) /\ k \in DOMAIN w[i]
    BY <2>1 DEF Covering
  <2>3. p \in Touched(w[i])
    BY <2>2 DEF Touched
  <2>4. p \in Sure(W, w, a, i)
    BY <2>2, <2>3 DEF Writes
  <2>5. i \in Nat /\ Len(w) \in Nat /\ i <= Len(w)
    BY <2>2
  <2> QED BY <2>4, <2>5, SureNext
<1> QED BY <1>3, <1>4

\* what an accepted write does to the posts on the server
LEMMA MergeWhole ==
    ASSUME NEW v \in Tree, NEW w \in Write, \A k \in DOMAIN w : w[k] # Nil
    PROVE  /\ WholeIn(v) \subseteq WholeIn(Merge(v, w))
           /\ \A p \in Ids : Place(p) \subseteq DOMAIN w => p \in WholeIn(Merge(v, w))
           /\ Posted(Merge(v, w)) \subseteq Posted(v) \cup Touched(w)
<1>1. \A p \in Ids : Place(p) \subseteq Keys
  BY Parts
<1>2. \A k \in Keys : Merge(v, w)[k] = IF k \in DOMAIN w THEN w[k] ELSE v[k]
  BY DEF Merge
<1>3. WholeIn(v) \subseteq WholeIn(Merge(v, w))
  BY <1>1, <1>2 DEF WholeIn, Whole
<1>4. \A p \in Ids : Place(p) \subseteq DOMAIN w => p \in WholeIn(Merge(v, w))
  BY <1>1, <1>2 DEF WholeIn, Whole
<1>5. Posted(Merge(v, w)) \subseteq Posted(v) \cup Touched(w)
  BY <1>1, <1>2 DEF Posted, Present, Touched
<1> QED BY <1>3, <1>4, <1>5

LEMMA RaisedSnaps ==
    ASSUME NEW q \in Seq(Event), NEW to \in SUBSET Listener, NEW snap \in Tree, NEW S,
           Snaps(q, S), Posted(snap) \subseteq S
    PROVE  Snaps(q \o Raised(to, snap), S)
<1> DEFINE e == [to |-> to, snap |-> snap]
           q2 == q \o Raised(to, snap)
<1>1. e \in Event /\ e.snap = snap
  BY DEF Event
<1> HIDE DEF e
<1>2. CASE to = {}
  <2>1. q2 = q
    BY <1>2 DEF Raised
  <2> QED BY <2>1
<1>3. CASE to # {}
  <2>1. q2 = Append(q, e)
    <3>1. q2 = q \o <<e>>
      BY <1>3 DEF Raised, e
    <3> QED BY <1>1, <3>1, ConcatOne
  <2> HIDE DEF q2
  <2>2. Snaps(q2, S)
    BY <1>1, <2>1 DEF Snaps
  <2> QED BY <2>2 DEF q2
<1> QED BY <1>2, <1>3

LEMMA PoppedSnaps ==
    ASSUME DBTypeOK, NEW d \in Devices, mainQ[d] # << >>, NEW l \in Head(mainQ[d]).to, NEW S,
           Snaps(mainQ[d], S)
    PROVE  Snaps(Popped(d, l), S) /\ Posted(Head(mainQ[d]).snap) \subseteq S
<1> DEFINE q == mainQ[d]
           e == [to |-> Head(q).to \ {l}, snap |-> Head(q).snap]
<1>1. q \in Seq(Event) /\ Posted(Head(q).snap) \subseteq S
  <2>1. q \in Seq(Event) /\ q # << >>
    BY DEF DBTypeOK
  <2>2. 1 \in 1..Len(q) /\ Head(q) = q[1]
    BY <2>1
  <2>3. Posted(q[1].snap) \subseteq S
    BY <2>2 DEF Snaps
  <2> QED BY <2>1, <2>2, <2>3
<1>2. Popped(d, l) = Tail(q) \/ Popped(d, l) = <<e>> \o Tail(q)
  BY DEF Popped
<1>3. Posted(e.snap) \subseteq S
  BY <1>1
<1> HIDE DEF e
<1>4. Snaps(Tail(q), S)
  BY <1>1 DEF Snaps
<1>5. Snaps(<<e>> \o Tail(q), S)
  BY <1>1, <1>3, <1>4 DEF Snaps
<1> QED BY <1>1, <1>2, <1>4, <1>5

-----------------------------------------------------------------------------
(* The steps of the library, on the device that takes them.                *)
LEMMA SoundTypes ==
    ASSUME DBTypeOK, NEW d \in Devices
    PROVE  /\ pend[d] \in Seq(Write) /\ Len(pend[d]) \in Nat
           /\ Answered(d) \in Nat /\ Answered(d) <= Len(pend[d])
           /\ cache[d] \in Tree /\ inbox[d] \in Seq(Message) /\ mainQ[d] \in Seq(Event)
           /\ listeners[d] \in SUBSET Listener /\ server \in Tree
  BY AnswersFinite DEF DBTypeOK, Answered

\* nothing is new for this device but what the server has
LEMMA SoundGrows ==
    ASSUME NEW W, NEW W2, W \subseteq W2, NEW c, NEW box, NEW w \in Seq(Write), NEW a, NEW q, NEW sh,
           Sound(W, c, box, w, a, q, sh)
    PROVE  Sound(W2, c, box, w, a, q, sh)
<1>1. \A i : Sure(W, w, a, i) \subseteq Sure(W2, w, a, i)
  BY DEF Sure
<1>2. Writes(W2, w, a)
  BY <1>1, SureStays DEF Sound
<1>3. News(box, W2)
  BY NewsGrow DEF Sound
<1>4. Snaps(q, Sure(W2, w, a, Len(w)))
  BY <1>1, SnapsGrow DEF Sound
<1> QED BY <1>1, <1>2, <1>3, <1>4 DEF Sound

LEMMA SoundPut ==
    ASSUME DBTypeOK, NEW d \in Devices, SoundAt(d), NEW x \in Write, Put(d, x, mainQ[d]),
           \A k \in DOMAIN x : x[k] # Nil, Shown(d)' \subseteq Shown(d),
           \A p \in Touched(x) : Place(p) \subseteq DOMAIN x
                                 \/ p \in Sure(WholeIn(server), pend[d], Answered(d), Len(pend[d]))
    PROVE  SoundAt(d)'
<1> DEFINE W == WholeIn(server)
           w2 == Append(pend[d], x)
           a == Answered(d)
           to == Concerned(listeners[d], known[d], cache[d], pend[d], known[d], cache[d], w2)
<1>1. /\ pend'[d] = w2 /\ mainQ'[d] = mainQ[d] \o Raised(to, Overlay(cache[d], w2))
      /\ cache'[d] = cache[d] /\ inbox'[d] = inbox[d] /\ server' = server
  BY DEF Put, DBTypeOK
<1>2. Writes(W, w2, a) /\ Sure(W, pend[d], a, Len(pend[d])) \subseteq Sure(W, w2, a, Len(w2))
  BY SoundTypes, SureAppend DEF SoundAt, Sound
<1>3. w2 \in Seq(Write) /\ Posted(cache[d]) \subseteq W /\ News(inbox[d], W)
  BY SoundTypes DEF SoundAt, Sound
<1>4. to \in SUBSET Listener
  BY SoundTypes DEF Concerned
<1> HIDE DEF w2, to
<1>5. Overlay(cache[d], w2) \in Tree /\ Posted(Overlay(cache[d], w2)) \subseteq Sure(W, w2, a, Len(w2))
  BY <1>2, <1>3, SoundTypes, OverlayType, OverlayPosted
<1>6. Snaps(mainQ[d], Sure(W, w2, a, Len(w2)))
  BY <1>2, SnapsGrow DEF SoundAt, Sound
<1>7. Snaps(mainQ[d] \o Raised(to, Overlay(cache[d], w2)), Sure(W, w2, a, Len(w2)))
  BY <1>4, <1>5, <1>6, SoundTypes, RaisedSnaps
<1>8. Shown(d)' \subseteq Sure(W, w2, a, Len(w2))
  BY <1>2 DEF SoundAt, Sound
<1>9. Answered(d)' = a /\ WholeIn(server)' = W
  BY <1>1 DEF Answered, WholeIn
<1> HIDE DEF W, a
<1>10. Sound(W, cache[d], inbox[d], w2, a, mainQ[d] \o Raised(to, Overlay(cache[d], w2)), Shown(d)')
  BY <1>2, <1>3, <1>7, <1>8 DEF Sound
<1> QED BY <1>1, <1>9, <1>10 DEF SoundAt

LEMMA SoundUpdate ==
    ASSUME DBTypeOK, NEW d \in Devices, SoundAt(d), OnDataUpdate(d), Shown(d)' = Shown(d)
    PROVE  SoundAt(d)'
<1> DEFINE W == WholeIn(server)
           S == Sure(W, pend[d], Answered(d), Len(pend[d]))
           c2 == Head(inbox[d]).val
           to == Concerned(listeners[d], known[d], cache[d], pend[d], TRUE, c2, pend[d])
<1>1. /\ inbox[d] # << >> /\ Head(inbox[d]).t = "data"
      /\ mainQ'[d] = mainQ[d] \o Raised(to, Overlay(c2, pend[d]))
      /\ cache'[d] = c2 /\ inbox'[d] = Tail(inbox[d]) /\ pend'[d] = pend[d] /\ server' = server
  BY DEF OnDataUpdate, DBTypeOK
<1>2. c2 \in Tree /\ Posted(c2) \subseteq W
  <2>1. 1 \in 1..Len(inbox[d]) /\ Head(inbox[d]) = inbox[d][1] /\ inbox[d][1] \in Message
    BY <1>1, SoundTypes
  <2> QED BY <1>1, <2>1 DEF Message, SoundAt, Sound, News
<1>3. News(Tail(inbox[d]), W) /\ Writes(W, pend[d], Answered(d)) /\ Snaps(mainQ[d], S) /\ Shown(d) \subseteq S
  BY <1>1, SoundTypes DEF SoundAt, Sound, News
<1>4. to \in SUBSET Listener
  BY SoundTypes DEF Concerned
<1> HIDE DEF c2, to
<1>5. Overlay(c2, pend[d]) \in Tree /\ Posted(Overlay(c2, pend[d])) \subseteq S
  BY <1>2, <1>3, SoundTypes, OverlayType, OverlayPosted
<1>6. Snaps(mainQ[d] \o Raised(to, Overlay(c2, pend[d])), S)
  BY <1>3, <1>4, <1>5, SoundTypes, RaisedSnaps
<1>7. Answered(d)' = Answered(d)
  <2>1. Tail(inbox[d]) \in Seq(Message)
    BY <1>1, SoundTypes
  <2>2. Cardinality(Answers(inbox[d])) = Cardinality(Answers(Tail(inbox[d]))) + 0
    BY <1>1, SoundTypes, AnswersTail
  <2>3. Cardinality(Answers(Tail(inbox[d]))) \in Nat
    BY <2>1, AnswersFinite
  <2>4. Answered(d)' = Cardinality(Answers(Tail(inbox[d])))
    BY <1>1 DEF Answered
  <2> QED BY <2>2, <2>3, <2>4 DEF Answered
<1>8. WholeIn(server)' = W
  BY <1>1 DEF WholeIn
<1>9. Sound(W, c2, Tail(inbox[d]), pend[d], Answered(d), mainQ[d] \o Raised(to, Overlay(c2, pend[d])), Shown(d))
  BY <1>2, <1>3, <1>6 DEF Sound
<1> QED BY <1>1, <1>7, <1>8, <1>9 DEF SoundAt

LEMMA SoundAck ==
    ASSUME DBTypeOK, NEW d \in Devices, SoundAt(d), AckWrite(d), Shown(d)' = Shown(d)
    PROVE  SoundAt(d)'
<1> DEFINE W == WholeIn(server)
           w2 == Tail(pend[d])
           a == Cardinality(Answers(Tail(inbox[d])))
           S == Sure(W, w2, a, Len(w2))
           to == Concerned(listeners[d], known[d], cache[d], pend[d], known[d], cache[d], w2)
<1>1. /\ inbox[d] # << >> /\ Head(inbox[d]).t = "ack"
      /\ mainQ'[d] = mainQ[d] \o Raised(to, Overlay(cache[d], w2))
      /\ cache'[d] = cache[d] /\ inbox'[d] = Tail(inbox[d]) /\ pend'[d] = w2 /\ server' = server
  BY DEF AckWrite, WithoutOldest, DBTypeOK
<1>2. pend[d] # << >>
  BY AckWriteType
<1>3. a \in Nat /\ Answered(d) = a + 1
  <2>1. Tail(inbox[d]) \in Seq(Message)
    BY <1>1, SoundTypes
  <2>2. Cardinality(Answers(inbox[d])) = Cardinality(Answers(Tail(inbox[d]))) + 1
    BY <1>1, SoundTypes, AnswersTail
  <2> QED BY <2>1, <2>2, AnswersFinite DEF Answered
<1>4. Answered(d)' = a /\ WholeIn(server)' = W
  BY <1>1 DEF Answered, WholeIn
<1>5. Posted(cache[d]) \subseteq W /\ News(Tail(inbox[d]), W) /\ w2 \in Seq(Write)
  <2>1. Posted(cache[d]) \subseteq W /\ News(inbox[d], W)
    BY DEF SoundAt, Sound
  <2> HIDE DEF W
  <2>2. News(Tail(inbox[d]), W)
    BY <1>1, <2>1, SoundTypes, NewsTail
  <2> QED BY <1>2, <2>1, <2>2, SoundTypes
<1>6. to \in SUBSET Listener
  BY SoundTypes DEF Concerned
<1> HIDE DEF a, W
<1>7. Writes(W, w2, a) /\ Sure(W, pend[d], a + 1, Len(pend[d])) \subseteq S
  BY <1>2, <1>3, SoundTypes, SureTail DEF SoundAt, Sound, W
<1> HIDE DEF w2, to
<1>8. Snaps(mainQ[d], S) /\ Shown(d) \subseteq S
  BY <1>3, <1>7, SnapsGrow DEF SoundAt, Sound, W
<1> HIDE DEF S
<1>9. Overlay(cache[d], w2) \in Tree /\ Posted(Overlay(cache[d], w2)) \subseteq S
  BY <1>3, <1>5, <1>7, SoundTypes, OverlayType, OverlayPosted DEF S
<1>10. Snaps(mainQ[d] \o Raised(to, Overlay(cache[d], w2)), S)
  BY <1>6, <1>8, <1>9, SoundTypes, RaisedSnaps
<1>11. Sound(W, cache[d], Tail(inbox[d]), w2, a, mainQ[d] \o Raised(to, Overlay(cache[d], w2)), Shown(d))
  BY <1>5, <1>7, <1>8, <1>10 DEF Sound, S
<1> QED BY <1>1, <1>4, <1>11 DEF SoundAt

-----------------------------------------------------------------------------
(* The server's and the connection's steps.                                *)

\* the server accepts the writer's oldest unanswered write
LEMMA Accepted ==
    ASSUME DBTypeOK, AllSound, NEW d \in Devices, ServerAccept(d)
    PROVE  /\ WholeIn(server) \subseteq WholeIn(server') /\ Posted(server') \subseteq WholeIn(server')
           /\ Answered(d) + 1 <= Len(pend[d])
           /\ \A p \in Ids : Place(p) \subseteq DOMAIN pend[d][Answered(d) + 1] => p \in WholeIn(server')
<1> DEFINE w == pend[d]
           a == Answered(d)
           x == w[a + 1]
           W == WholeIn(server)
<1>1. /\ server \in Tree /\ server' = Merge(server, x) /\ x \in Write
      /\ a \in Nat /\ a + 1 <= Len(w) /\ a + 1 \in 1..Len(w)
  <2>1. PutWaits(d) /\ server' = Merge(server, NextPut(d))
    BY DEF ServerAccept
  <2>2. NextPut(d) \in Write /\ a \in Nat /\ a + 1 <= Len(w)
    BY <2>1, NextPutType
  <2> QED BY <2>1, <2>2, SoundTypes DEF NextPut
<1>2. Posted(server) \subseteq W /\ Writes(W, w, a)
  BY DEF AllSound, SoundAt, Sound
<1> HIDE DEF w, a
<1>3. Touched(x) \subseteq Sure(W, w, a, a + 1) /\ \A k \in DOMAIN x : x[k] # Nil
  BY <1>1, <1>2 DEF Writes
<1>4. \A p \in Ahead(w, a, a + 1) : Place(p) \subseteq DOMAIN x
  <2> SUFFICES ASSUME NEW p \in Ahead(w, a, a + 1) PROVE Place(p) \subseteq DOMAIN x
    OBVIOUS
  <2>1. PICK j \in 1..(a + 1) : j > a /\ Place(p) \subseteq DOMAIN w[j]
    BY DEF Ahead
  <2>2. j = a + 1
    BY <1>1, <2>1
  <2> QED BY <2>1, <2>2
<1> HIDE DEF x, W
<1>5. /\ W \subseteq WholeIn(server')
      /\ \A p \in Ids : Place(p) \subseteq DOMAIN x => p \in WholeIn(server')
      /\ Posted(server') \subseteq Posted(server) \cup Touched(x)
  BY <1>1, <1>3, MergeWhole DEF W
<1>6. Posted(server') \subseteq WholeIn(server')
  BY <1>2, <1>3, <1>4, <1>5 DEF Sure, Ahead
<1> QED BY <1>1, <1>5, <1>6 DEF W, w, a, x

LEMMA SoundAccept ==
    ASSUME DBTypeOK, AllSound, NEW d \in Devices, ServerAccept(d), \A e \in Devices : Shown(e)' = Shown(e)
    PROVE  AllSound'
<1> DEFINE W == WholeIn(server)
           W2 == WholeIn(server')
<1>1. /\ W \subseteq W2 /\ Posted(server') \subseteq W2
      /\ Answered(d) + 1 <= Len(pend[d])
      /\ \A p \in Ids : Place(p) \subseteq DOMAIN pend[d][Answered(d) + 1] => p \in W2
  BY Accepted
<1>2. UNCHANGED <<cache, pend, mainQ>>
  BY DEF ServerAccept
<1>3. WholeIn(server)' = W2 /\ Posted(server)' = Posted(server')
  BY DEF WholeIn, Posted, Whole, Present
<1>4. ASSUME NEW e \in Devices
      PROVE  News(inbox'[e], W2) /\ Answered(e)' = Answered(e) + (IF e = d THEN 1 ELSE 0)
  <2> DEFINE b1 == IF sub[e] = "on" /\ server' # server
                   THEN Append(inbox[e], Data(server')) ELSE inbox[e]
  <2>1. /\ server' \in Tree /\ b1 \in Seq(Message)
        /\ inbox'[e] = IF e = d THEN Append(b1, Ack(TRUE)) ELSE b1
        /\ Answered(e)' = Answered(e) + (IF e = d THEN 1 ELSE 0)
    BY ServerAcceptInbox
  <2>2. News(inbox[e], W)
    BY DEF AllSound, SoundAt, Sound
  <2> HIDE DEF W, W2
  <2>3. News(inbox[e], W2) /\ inbox[e] \in Seq(Message)
    BY <1>1, <2>2, NewsGrow, SoundTypes
  <2>4. Data(server') \in Message /\ Data(server').val = server' /\ Ack(TRUE) \in Message
        /\ Ack(TRUE).t # "data"
    BY <2>1 DEF Data, Ack, Message
  <2>5. News(Append(inbox[e], Data(server')), W2)
    BY <1>1, <2>3, <2>4, NewsAppend
  <2>6. News(b1, W2)
    BY <2>3, <2>5
  <2> HIDE DEF b1
  <2>7. News(Append(b1, Ack(TRUE)), W2)
    BY <2>1, <2>4, <2>6, NewsAppend
  <2> QED BY <2>1, <2>6, <2>7
<1> HIDE DEF W2
<1>5. ASSUME NEW e \in Devices
      PROVE  Sound(W2, cache[e], inbox'[e], pend[e], Answered(e)', mainQ[e], Shown(e))
  <2>1. /\ Posted(cache[e]) \subseteq W /\ Writes(W, pend[e], Answered(e))
        /\ Snaps(mainQ[e], Sure(W, pend[e], Answered(e), Len(pend[e])))
        /\ Shown(e) \subseteq Sure(W, pend[e], Answered(e), Len(pend[e]))
    BY DEF AllSound, SoundAt, Sound
  <2> HIDE DEF W
  <2>2. pend[e] \in Seq(Write) /\ Len(pend[e]) \in Nat /\ Answered(e) \in Nat
    BY SoundTypes
  <2>3. \A i \in Nat : Sure(W, pend[e], Answered(e), i) \subseteq Sure(W2, pend[e], Answered(e)', i)
    <3>1. CASE e = d
      <4>1. Answered(e)' = Answered(e) + 1
        BY <1>4, <3>1
      <4>2. \A i \in Nat : Sure(W, pend[e], Answered(e), i) \subseteq Sure(W2, pend[e], Answered(e) + 1, i)
        BY <1>1, <2>2, <3>1, SureAccepted
      <4> QED BY <4>1, <4>2
    <3>2. CASE e # d
      <4>1. Answered(e)' = Answered(e)
        BY <1>4, <2>2, <3>2
      <4> QED BY <1>1, <4>1 DEF Sure
    <3> QED BY <3>1, <3>2
  <2>4. Writes(W2, pend[e], Answered(e)')
    BY <1>1, <2>1, <2>2, <2>3, SureStays
  <2>5. Snaps(mainQ[e], Sure(W2, pend[e], Answered(e)', Len(pend[e])))
    BY <2>1, <2>2, <2>3, SnapsGrow
  <2> QED BY <1>1, <1>4, <2>1, <2>2, <2>3, <2>4, <2>5 DEF Sound
<1>6. ASSUME NEW e \in Devices PROVE SoundAt(e)'
  BY <1>2, <1>3, <1>5 DEF SoundAt
<1> QED BY <1>1, <1>3, <1>6 DEF AllSound

LEMMA SoundListen ==
    ASSUME DBTypeOK, NEW d \in Devices, SoundAt(d), Posted(server) \subseteq WholeIn(server),
           ServerListen(d), Shown(d)' = Shown(d)
    PROVE  SoundAt(d)'
<1> DEFINE W == WholeIn(server)
           m == Data(server)
<1>1. inbox'[d] = Append(inbox[d], m) /\ UNCHANGED <<server, cache, pend, mainQ>>
  BY DEF ServerListen, DBTypeOK
<1>2. m \in Message /\ m.val = server /\ m.t # "ack"
  BY SoundTypes DEF Data, Message
<1>3. Cardinality(Answers(Append(inbox[d], m))) = Answered(d)
  <2>1. Cardinality(Answers(Append(inbox[d], m))) = Cardinality(Answers(inbox[d])) + 0
    BY <1>2, SoundTypes, AnswersAppend
  <2> QED BY <2>1, SoundTypes DEF Answered
<1> HIDE DEF m
<1>4. News(inbox[d], W)
  BY DEF SoundAt, Sound
<1>5. News(Append(inbox[d], m), W)
  BY <1>2, <1>4, SoundTypes, NewsAppend
<1>6. Sound(W, cache[d], Append(inbox[d], m), pend[d], Answered(d), mainQ[d], Shown(d))
  BY <1>5 DEF SoundAt, Sound
<1>7. Answered(d)' = Answered(d) /\ WholeIn(server)' = W
  BY <1>1, <1>3 DEF Answered, WholeIn
<1> QED BY <1>1, <1>6, <1>7 DEF SoundAt

LEMMA SoundRestore ==
    ASSUME DBTypeOK, NEW d \in Devices, SoundAt(d), RestoreState(d), Shown(d)' = Shown(d)
    PROVE  SoundAt(d)'
<1> DEFINE W == WholeIn(server)
<1>1. inbox'[d] = << >> /\ UNCHANGED <<server, cache, pend, mainQ>>
  BY DEF RestoreState, DBTypeOK
<1>2. Answered(d)' = 0 /\ WholeIn(server)' = W
  BY <1>1, NoAnswers DEF Answered, WholeIn
<1>3. \A i \in Nat : Sure(W, pend[d], Answered(d), i) \subseteq Sure(W, pend[d], 0, i)
  BY SoundTypes DEF Sure, Ahead
<1>4. Writes(W, pend[d], 0)
  BY <1>3, SoundTypes, SureStays DEF SoundAt, Sound
<1>5. Snaps(mainQ[d], Sure(W, pend[d], 0, Len(pend[d])))
  BY <1>3, SoundTypes, SnapsGrow DEF SoundAt, Sound
<1>6. Shown(d) \subseteq Sure(W, pend[d], 0, Len(pend[d])) /\ Posted(cache[d]) \subseteq W
  BY <1>3, SoundTypes DEF SoundAt, Sound
<1>7. News(<< >>, W)
  BY DEF News
<1>8. Sound(W, cache[d], << >>, pend[d], 0, mainQ[d], Shown(d))
  BY <1>4, <1>5, <1>6, <1>7 DEF Sound
<1> QED BY <1>1, <1>2, <1>8 DEF SoundAt

LEMMA SoundRestart ==
    ASSUME TypeOK, NEW d \in Devices, Restart(d)
    PROVE  SoundAt(d)'
<1>1. /\ cache'[d] = NoTree /\ inbox'[d] = << >> /\ pend'[d] = << >> /\ mainQ'[d] = << >>
      /\ rows'[d] = NoRows /\ post'[d] = Nil
  BY DEF Restart, Terminate, TypeOK, DBTypeOK
<1>2. Shown(d)' = {}
  BY <1>1, UsersAssumption, KindsAssumption DEF Shown, NoRows
<1>3. Posted(NoTree) = {}
  BY Parts DEF Posted, Present, NoTree
<1>4. ASSUME NEW W, NEW a PROVE Sound(W, NoTree, << >>, << >>, a, << >>, {})
  BY <1>3 DEF Sound, News, Writes, Snaps
<1> QED BY <1>1, <1>2, <1>4 DEF SoundAt

-----------------------------------------------------------------------------
\* a device nothing happens to
LEMMA SoundStays ==
    ASSUME NEW e \in Devices, SoundAt(e), WholeIn(server)' = WholeIn(server), cache'[e] = cache[e],
           inbox'[e] = inbox[e], pend'[e] = pend[e], mainQ'[e] = mainQ[e], Shown(e)' = Shown(e)
    PROVE  SoundAt(e)'
  BY DEF SoundAt, Answered

\* a callback takes its event off the main queue and shows at most its posts
LEMMA SoundPopped ==
    ASSUME TypeOK, NEW d \in Devices, SoundAt(d), mainQ[d] # << >>, NEW l \in Head(mainQ[d]).to,
           mainQ' = [mainQ EXCEPT ![d] = Popped(d, l)], UNCHANGED <<server, cache, pend, inbox>>,
           Shown(d)' \subseteq Shown(d) \cup Posted(Head(mainQ[d]).snap)
    PROVE  SoundAt(d)'
<1> DEFINE W == WholeIn(server)
           S == Sure(W, pend[d], Answered(d), Len(pend[d]))
<1>1. mainQ'[d] = Popped(d, l) /\ WholeIn(server)' = W /\ Answered(d)' = Answered(d)
  BY DEF TypeOK, DBTypeOK, WholeIn, Answered
<1>2. /\ Posted(cache[d]) \subseteq W /\ News(inbox[d], W) /\ Writes(W, pend[d], Answered(d))
      /\ Snaps(mainQ[d], S) /\ Shown(d) \subseteq S
  BY DEF SoundAt, Sound
<1> HIDE DEF S
<1>3. Snaps(Popped(d, l), S) /\ Posted(Head(mainQ[d]).snap) \subseteq S
  BY <1>2, PoppedSnaps DEF TypeOK
<1>4. Shown(d)' \subseteq S
  BY <1>2, <1>3
<1>5. Sound(W, cache[d], inbox[d], pend[d], Answered(d), Popped(d, l), Shown(d)')
  BY <1>2, <1>3, <1>4 DEF Sound, S
<1> QED BY <1>1, <1>5 DEF SoundAt

\* a callback is registered, and the library answers at once when it can
LEMMA SoundObserve ==
    ASSUME DBTypeOK, NEW d \in Devices, SoundAt(d), NEW kind \in Kinds, NEW at \in Places,
           Observe(d, kind, at, mainQ[d]), Shown(d)' \subseteq Shown(d)
    PROVE  SoundAt(d)'
<1> DEFINE W == WholeIn(server)
           S == Sure(W, pend[d], Answered(d), Len(pend[d]))
           l0 == [kind |-> kind, at |-> at, n |-> Cardinality(listeners[d]) + 1]
           to == IF Complete(known[d], pend[d], l0) THEN {l0} ELSE {}
<1>1. mainQ'[d] = mainQ[d] \o Raised(to, View(d)) /\ UNCHANGED <<server, cache, pend, inbox>>
  BY DEF Observe, DBTypeOK
<1>2. to \in SUBSET Listener
  <2>1. Cardinality(listeners[d]) \in Nat
    BY FS_CardinalityType DEF DBTypeOK
  <2> QED BY <2>1 DEF Listener
<1> HIDE DEF to
<1>3. /\ Posted(cache[d]) \subseteq W /\ News(inbox[d], W) /\ Writes(W, pend[d], Answered(d))
      /\ Snaps(mainQ[d], S) /\ Shown(d) \subseteq S
  BY DEF SoundAt, Sound
<1>4. View(d) \in Tree /\ Posted(View(d)) \subseteq S
  BY <1>3, SoundTypes, OverlayType, OverlayPosted DEF View
<1> HIDE DEF S
<1>5. Snaps(mainQ[d] \o Raised(to, View(d)), S)
  BY <1>2, <1>3, <1>4, SoundTypes, RaisedSnaps
<1>6. Shown(d)' \subseteq S
  BY <1>3
<1>7. Sound(W, cache[d], inbox[d], pend[d], Answered(d), mainQ[d] \o Raised(to, View(d)), Shown(d)')
  BY <1>3, <1>5, <1>6 DEF Sound, S
<1>8. WholeIn(server)' = W /\ Answered(d)' = Answered(d)
  BY <1>1 DEF WholeIn, Answered
<1> QED BY <1>1, <1>7, <1>8 DEF SoundAt

LEMMA RootPlace == Root \in Places
<1>1. PICK p \in Ids : TRUE
  BY PartsAssumption
<1>2. Keys # {}
  BY <1>1, Parts
<1> QED BY <1>2 DEF Root, Places

\* what the list of own posts shows comes from the event
LEMMA ShownByCallback ==
    ASSUME TypeOK, NEW d \in Devices, ListCallback(d)
    PROVE  /\ \E l \in Head(mainQ[d]).to : mainQ' = [mainQ EXCEPT ![d] = Popped(d, l)]
           /\ Shown(d)' \subseteq Shown(d) \cup Posted(Head(mainQ[d]).snap)
           /\ \A e \in Devices \ {d} : Shown(e)' = Shown(e)
<1>1. PICK l \in Head(mainQ[d]).to :
          /\ l.kind \in Lists
          /\ mainQ' = [mainQ EXCEPT ![d] = Popped(d, l)]
          /\ rows' = [rows EXCEPT ![d][l.kind] = [p \in Ids |->
                 @[p] + (IF p \in Added(d, l.kind, Head(mainQ[d]).snap) /\ Belongs(d, l.kind, p)
                         THEN 1 ELSE 0)]]
  BY DEF ListCallback
<1>2. post' = post
  BY DEF ListCallback
<1> DEFINE k == l.kind
           r == [x \in Ids |-> rows[d][k][x]
                    + (IF x \in Added(d, k, Head(mainQ[d]).snap) /\ Belongs(d, k, x) THEN 1 ELSE 0)]
<1>3. rows' = [rows EXCEPT ![d] = [rows[d] EXCEPT ![k] = r]]
  BY <1>1 DEF TypeOK
<1>4. \A p \in Ids : r[p] = rows[d][k][p] \/ p \in Posted(Head(mainQ[d]).snap)
  BY <1>1 DEF TypeOK, Added
<1> HIDE DEF r, k
<1>5. (rows'[d]["mine"] = r /\ k = "mine") \/ rows'[d]["mine"] = rows[d]["mine"]
  BY <1>3, KindsAssumption DEF TypeOK
<1>6. \A e \in Devices \ {d} : rows'[e] = rows[e]
  BY <1>3 DEF TypeOK
<1>7. Shown(d)' \subseteq Shown(d) \cup Posted(Head(mainQ[d]).snap)
  BY <1>2, <1>4, <1>5 DEF Shown
<1>8. \A e \in Devices \ {d} : Shown(e)' = Shown(e)
  BY <1>2, <1>6 DEF Shown
<1> QED BY <1>1, <1>7, <1>8

LEMMA NextSound ==
    ASSUME TypeOK, AllSound, [Next]_vars, \A d \in Devices : ~Refuse(d)
    PROVE  AllSound'
<1>0. DBTypeOK /\ Posted(server) \subseteq WholeIn(server) /\ \A d \in Devices : SoundAt(d)
  BY DEF TypeOK, AllSound
\* a step that leaves the server and the other devices as they are
<1>a. ASSUME server' = server, NEW d \in Devices, SoundAt(d)',
             \A e \in Devices \ {d} : /\ cache'[e] = cache[e] /\ inbox'[e] = inbox[e]
                                      /\ pend'[e] = pend[e] /\ mainQ'[e] = mainQ[e]
                                      /\ Shown(e)' = Shown(e)
      PROVE  AllSound'
  <2>1. WholeIn(server)' = WholeIn(server) /\ Posted(server)' = Posted(server)
    BY <1>a DEF WholeIn, Posted
  <2>2. ASSUME NEW e \in Devices, e # d PROVE SoundAt(e)'
    BY <1>0, <1>a, <2>1, <2>2, SoundStays
  <2> QED BY <1>0, <1>a, <2>1, <2>2 DEF AllSound
<1>1. ASSUME NEW d \in Devices, SharePost(d) PROVE AllSound'
  <2>1. PICK p \in Ids, t \in Texts : Put(d, Made(p, t), mainQ[d])
    BY <1>1 DEF SharePost, Made
  <2>2. UNCHANGED <<rows, post>>
    BY <1>1 DEF SharePost, screenVars
  <2>3. Made(p, t) \in Write /\ DOMAIN Made(p, t) = Place(p)
        /\ \A k \in DOMAIN Made(p, t) : Made(p, t)[k] # Nil
    BY WriteType
  <2>4. Touched(Made(p, t)) = {p}
    BY TouchedBy
  <2>5. \A e \in Devices : Shown(e)' = Shown(e)
    BY <2>2, ShownStays
  <2>6. SoundAt(d)'
    BY <1>0, <2>1, <2>3, <2>4, <2>5, SoundPut
  <2> QED BY <1>0, <1>a, <2>1, <2>5, <2>6 DEF Put, DBTypeOK
<1>2. ASSUME NEW d \in Devices, OpenHome(d) \/ OpenProfile(d) PROVE AllSound'
  <2>1. PICK kind \in {"home", "mine"} : Observe(d, kind, Root, mainQ[d])
    BY <1>2 DEF OpenHome, OpenProfile
  <2>2. UNCHANGED <<rows, post>>
    BY <1>2 DEF OpenHome, OpenProfile, screenVars
  <2>3. \A e \in Devices : Shown(e)' = Shown(e)
    BY <2>2, ShownStays
  <2>4. SoundAt(d)'
    BY <1>0, <2>1, <2>3, RootPlace, KindsAssumption, SoundObserve
  <2> QED BY <1>0, <1>a, <2>1, <2>3, <2>4 DEF Observe, DBTypeOK
<1>3. ASSUME NEW d \in Devices, OpenDetail(d) PROVE AllSound'
  <2>1. PICK p \in Ids : /\ rows[d]["mine"][p] > 0 /\ post' = [post EXCEPT ![d] = p]
                         /\ Observe(d, "detail", Place(p), mainQ[d])
    BY <1>3 DEF OpenDetail
  <2>2. rows' = rows
    BY <1>3 DEF OpenDetail
  <2>3. Shown(d)' \subseteq Shown(d) /\ \A e \in Devices \ {d} : Shown(e)' = Shown(e)
    BY <2>1, <2>2 DEF Shown, TypeOK
  <2>4. SoundAt(d)'
    BY <1>0, <2>1, <2>3, Parts, KindsAssumption, SoundObserve
  <2> QED BY <1>0, <1>a, <2>1, <2>3, <2>4 DEF Observe, DBTypeOK
<1>4. ASSUME NEW d \in Devices, Type(d) PROVE AllSound'
  <2>1. UNCHANGED <<dbVars, rows, post>>
    BY <1>4 DEF Type
  <2>2. UNCHANGED <<server, cache, inbox, pend, mainQ>>
    BY <2>1 DEF dbVars
  <2>3. \A e \in Devices : Shown(e)' = Shown(e)
    BY <2>1, ShownStays
  <2>4. SoundAt(d)'
    BY <1>0, <2>2, <2>3, SoundStays DEF WholeIn
  <2> QED BY <1>a, <2>2, <2>3, <2>4
<1>5. ASSUME NEW d \in Devices, buttonUpdate(d) \/ Cancel(d) PROVE AllSound'
  <2>1. post[d] \in Ids /\ form[d] \in Texts \cup {"made"} /\ Saves(d)
    BY <1>5 DEF buttonUpdate, Cancel, TypeOK
  <2>2. PICK q \in Ids : q = post[d]
    BY <2>1
  <2>3. PICK t \in Texts \cup {"made"} : t = form[d]
    BY <2>1
  <2>4. Put(d, Edit(q, t), mainQ[d])
    BY <2>1, <2>2, <2>3, SavesIs
  <2>5. rows' = rows /\ (post'[d] = post[d] \/ post'[d] = Nil)
        /\ \A e \in Devices \ {d} : post'[e] = post[e]
    BY <1>5 DEF buttonUpdate, Cancel, TypeOK
  <2>6. Shown(d)' \subseteq Shown(d) /\ \A e \in Devices \ {d} : Shown(e)' = Shown(e)
    BY <2>5, UsersAssumption DEF Shown
  <2>7. Edit(q, t) \in Write /\ \A k \in DOMAIN Edit(q, t) : Edit(q, t)[k] # Nil
    <3>1. /\ Edit(q, t) \in Write /\ DOMAIN Edit(q, t) = {Text(q)}
          /\ Edit(q, t)[Text(q)] # Nil
      BY WriteType
    <3> QED BY <3>1
  <2>8. Touched(Edit(q, t)) = {q}
    BY TouchedBy
  <2>9. q \in Sure(WholeIn(server), pend[d], Answered(d), Len(pend[d]))
    <3>1. q \in Shown(d)
      BY <2>2 DEF Shown
    <3> QED BY <1>0, <3>1 DEF SoundAt, Sound
  <2>10. SoundAt(d)'
    BY <1>0, <2>4, <2>6, <2>7, <2>8, <2>9, SoundPut
  <2> QED BY <1>0, <1>a, <2>4, <2>6, <2>10 DEF Put, DBTypeOK
<1>6. ASSUME NEW d \in Devices, ListCallback(d) PROVE AllSound'
  <2>1. /\ \E l \in Head(mainQ[d]).to : mainQ' = [mainQ EXCEPT ![d] = Popped(d, l)]
        /\ Shown(d)' \subseteq Shown(d) \cup Posted(Head(mainQ[d]).snap)
        /\ \A e \in Devices \ {d} : Shown(e)' = Shown(e)
    BY <1>6, ShownByCallback
  <2>2. mainQ[d] # << >> /\ UNCHANGED <<server, cache, pend, inbox>>
    BY <1>6 DEF ListCallback
  <2>3. SoundAt(d)'
    BY <1>0, <2>1, <2>2, SoundPopped
  <2> QED BY <1>0, <1>a, <2>1, <2>2, <2>3 DEF DBTypeOK
<1>7. ASSUME NEW d \in Devices, DetailCallback(d) PROVE AllSound'
  <2>1. PICK l \in Head(mainQ[d]).to : mainQ' = [mainQ EXCEPT ![d] = Popped(d, l)]
    BY <1>7 DEF DetailCallback
  <2>2. mainQ[d] # << >> /\ UNCHANGED <<server, cache, pend, inbox, rows, post>>
    BY <1>7 DEF DetailCallback
  <2>3. \A e \in Devices : Shown(e)' = Shown(e)
    BY <2>2, ShownStays
  <2>4. SoundAt(d)'
    BY <1>0, <2>1, <2>2, <2>3, SoundPopped
  <2> QED BY <1>0, <1>a, <2>1, <2>2, <2>3, <2>4 DEF DBTypeOK
<1>8. ASSUME NEW d \in Devices, FieldMissing(d) \/ Kill(d) PROVE AllSound'
  <2>1. Restart(d)
    BY <1>8 DEF FieldMissing, Kill
  <2>2. SoundAt(d)'
    BY <2>1, SoundRestart
  <2>3. \A e \in Devices \ {d} : rows'[e] = rows[e] /\ post'[e] = post[e]
    BY <2>1 DEF Restart, TypeOK
  <2>4. \A e \in Devices \ {d} : Shown(e)' = Shown(e)
    BY <2>3 DEF Shown
  <2> QED BY <1>0, <1>a, <2>1, <2>2, <2>4 DEF Restart, Terminate, DBTypeOK
<1>9. ASSUME NEW d \in Devices, Receive(d) \/ Listening(d) \/ Reconnect(d) PROVE AllSound'
  <2>1. UNCHANGED <<rows, post>>
    BY <1>9 DEF Receive, Listening, Reconnect, screenVars
  <2>2. \A e \in Devices : Shown(e)' = Shown(e)
    BY <2>1, ShownStays
  <2>3. OnDataUpdate(d) \/ AckWrite(d) \/ ServerListen(d) \/ RestoreState(d)
    BY <1>9 DEF Receive, Listening, Reconnect
  <2>4. SoundAt(d)'
    BY <1>0, <2>2, <2>3, SoundUpdate, SoundAck, SoundListen, SoundRestore
  <2> QED BY <1>0, <1>a, <2>2, <2>3, <2>4
          DEF OnDataUpdate, AckWrite, ServerListen, RestoreState, DBTypeOK
<1>10. ASSUME NEW d \in Devices, Accept(d) PROVE AllSound'
  <2>1. ServerAccept(d) /\ UNCHANGED <<rows, post>>
    BY <1>10 DEF Accept, screenVars
  <2>2. \A e \in Devices : Shown(e)' = Shown(e)
    BY <2>1, ShownStays
  <2> QED BY <1>0, <2>1, <2>2, SoundAccept
<1>11. CASE UNCHANGED vars
  <2>1. UNCHANGED <<server, cache, inbox, pend, mainQ, rows, post>>
    BY <1>11 DEF vars, screenVars, dbVars
  <2>2. \A e \in Devices : Shown(e)' = Shown(e)
    BY <2>1, ShownStays
  <2>3. WholeIn(server)' = WholeIn(server) /\ Posted(server)' = Posted(server)
    BY <2>1 DEF WholeIn, Posted
  <2>4. \A e \in Devices : SoundAt(e)'
    BY <1>0, <2>1, <2>2, <2>3, SoundStays
  <2> QED BY <1>0, <2>3, <2>4 DEF AllSound
<1> QED
  BY <1>1, <1>2, <1>3, <1>4, <1>5, <1>6, <1>7, <1>8, <1>9, <1>10, <1>11
  DEF Next, Touch, MainQueue

LEMMA InitWhole == Init => WholeInv
<1> SUFFICES ASSUME Init PROVE WholeInv
  OBVIOUS
<1>1. Posted(NoTree) = {}
  BY Parts DEF Posted, Present, NoTree
<1>2. \A d \in Devices : Shown(d) = {}
  BY UsersAssumption, KindsAssumption DEF Init, NoRows, Shown
<1>3. ASSUME NEW W, NEW a PROVE Sound(W, NoTree, << >>, << >>, a, << >>, {})
  BY <1>1 DEF Sound, News, Writes, Snaps
<1>4. \A d \in Devices : SoundAt(d)
  BY <1>2, <1>3 DEF Init, DBInit, SoundAt
<1>5. Posted(server) = {} /\ budget.refusals = MaxRefusals /\ MaxRefusals \in Nat
  BY <1>1, BudgetAssumption DEF Init, DBInit
<1> QED BY <1>4, <1>5 DEF WholeInv, AllSound

LEMMA NextWhole == TypeOK /\ WholeInv /\ [Next]_vars => WholeInv'
<1> SUFFICES ASSUME TypeOK, WholeInv, [Next]_vars PROVE WholeInv'
  OBVIOUS
<1>0. budget.refusals \in Nat /\ MaxRefusals \in Nat /\ budget.refusals <= MaxRefusals
  BY BudgetAssumption DEF TypeOK, Budgets, WholeInv
<1>1. ASSUME NEW d \in Devices, Refuse(d) PROVE budget'.refusals = budget.refusals - 1
  BY <1>1 DEF Refuse, Spend, TypeOK, Budgets
<1>2. ASSUME \A d \in Devices : ~Refuse(d) PROVE budget'.refusals = budget.refusals
  BY <1>2 DEF Next, Touch, MainQueue, SharePost, OpenHome, OpenProfile, OpenDetail, Type,
              buttonUpdate, Cancel, ListCallback, DetailCallback, FieldMissing, Receive, Listening,
              Accept, Reconnect, Kill, Spend, vars, TypeOK, Budgets
<1>3. CASE \E d \in Devices : Refuse(d)
  BY <1>0, <1>1, <1>3 DEF WholeInv
<1>4. CASE \A d \in Devices : ~Refuse(d)
  BY <1>0, <1>2, <1>4, NextSound DEF WholeInv
<1> QED BY <1>3, <1>4

(* A post on the server has all its fields, as long as the server refused  *)
(* no write: an update never outruns the share of the post it belongs to,  *)
(* nor outlives it (buttonUpdate after a row that its own write put there, *)
(* lost connections and restarts in between).                              *)
THEOREM PostsAreWhole == Spec => []WholePosts
<1>1. WholeInv => WholePosts
  BY DEF WholeInv, AllSound, WholePosts, WholeIn
<1> QED BY <1>1, InitTypeOK, NextTypeOK, InitWhole, NextWhole, PTL DEF Spec
=============================================================================
