------------------------ MODULE DatabaseClientProofs ------------------------
(***************************************************************************)
(* Proofs about the database library under any app.                        *)
(***************************************************************************)
EXTENDS DatabaseClient, RealtimeDBProofs

-----------------------------------------------------------------------------
(* Type correctness.                                                       *)
LEMMA InitTypeOK == Init => TypeOK
<1> SUFFICES ASSUME Init PROVE TypeOK
  OBVIOUS
<1>1. NoTree \in Tree
  BY DEF NoTree, Tree
<1>2. DBTypeOK
  BY <1>1, InitType DEF Init
<1> QED BY <1>2, BudgetAssumption DEF Init, TypeOK, Budgets

LEMMA NextTypeOK == TypeOK /\ [Next]_vars => TypeOK'
<1> SUFFICES ASSUME TypeOK, [Next]_vars PROVE TypeOK'
  OBVIOUS
<1> USE DEF TypeOK
<1>1. ASSUME NEW d \in Devices, Register(d) PROVE TypeOK'
  <2>1. mainQ[d] \in Seq(Event)
    BY DEF DBTypeOK
  <2>2. DBTypeOK'
    BY <1>1, <2>1, ObserveType DEF Register
  <2> QED BY <1>1, <2>2 DEF Register
<1>2. ASSUME NEW d \in Devices, Change(d) PROVE TypeOK'
  <2>1. mainQ[d] \in Seq(Event)
    BY DEF DBTypeOK
  <2>2. DBTypeOK'
    BY <1>2, <2>1, PutType DEF Change
  <2> QED BY <1>2, <2>2 DEF Change, Spend, Budgets
<1>3. ASSUME NEW d \in Devices, Callback(d) PROVE TypeOK'
  <2>1. PICK l \in Head(mainQ[d]).to : mainQ' = [mainQ EXCEPT ![d] = Popped(d, l)]
    BY <1>3 DEF Callback
  <2>2. Popped(d, l) \in Seq(Event)
    BY <1>3, PoppedType DEF Callback
  <2>3. mainQ' \in [Devices -> Seq(Event)]
    BY <2>1, <2>2 DEF DBTypeOK
  <2>4. UNCHANGED <<server, cache, known, pend, inbox, sub, listeners, budget>>
    BY <1>3 DEF Callback
  <2>5. DBTypeOK'
    BY <2>3, <2>4 DEF DBTypeOK, Answered
  <2>6. seen' = [e \in Devices |-> seen'[e]]
    BY <1>3 DEF Callback
  <2> QED BY <2>4, <2>5, <2>6
<1>4. ASSUME NEW d \in Devices, Receive(d) PROVE TypeOK'
  BY <1>4, OnDataUpdateType, AckWriteType DEF Receive
<1>5. ASSUME NEW d \in Devices, Listening(d) PROVE TypeOK'
  BY <1>5, ServerListenType DEF Listening
<1>6. ASSUME NEW d \in Devices, Accept(d) PROVE TypeOK'
  BY <1>6, ServerAcceptType DEF Accept
<1>7. ASSUME NEW d \in Devices, Refuse(d) PROVE TypeOK'
  BY <1>7, ServerRefuseType DEF Refuse, Spend, Budgets
<1>8. ASSUME NEW d \in Devices, Reconnect(d) PROVE TypeOK'
  BY <1>8, RestoreStateType DEF Reconnect, Spend, Budgets
<1>9. ASSUME NEW d \in Devices, Kill(d) PROVE TypeOK'
  <2>1. DBTypeOK'
    BY <1>9, TerminateType DEF Kill
  <2>2. budget' \in Budgets
    BY <1>9 DEF Kill, Spend, Budgets
  <2>3. seen' = [e \in Devices |-> seen'[e]]
    BY <1>9 DEF Kill
  <2> HIDE DEF TypeOK
  <2> QED BY <2>1, <2>2, <2>3 DEF TypeOK
<1>10. CASE UNCHANGED vars
  BY <1>10 DEF vars, dbVars, DBTypeOK, Answered
<1> QED BY <1>1, <1>2, <1>3, <1>4, <1>5, <1>6, <1>7, <1>8, <1>9, <1>10 DEF Next

(* Every state has the types TypeOK gives, and an answer on its way always *)
(* belongs to a write the library still has recorded, so that ackWrite     *)
(* never finds none to remove.                                             *)
THEOREM TypeCorrect == Spec => []TypeOK
  BY InitTypeOK, NextTypeOK, PTL DEF Spec

-----------------------------------------------------------------------------
(* No lost update.                                                         *)
LEMMA InitDelivered == Init => Delivered
  BY DEF Init, DBInit, Delivered, UpToDate

\* every step is one of an app with the library, and the callback that is
\* done, if any, has seen its event
SeenStep(d, M) ==
    /\ \A e \in Devices : (e # d \/ (M = {} /\ ~Ended(d))) => seen'[e] = seen[e]
    /\ \A m \in M : seen'[d] = Remember(seen[d], m, At(Head(mainQ[d]).snap, m.at))

LEMMA NextIsStep ==
    ASSUME TypeOK, Next
    PROVE  \E d \in Devices : \E M : DBStep(d, M) /\ SeenStep(d, M)
<1>0. PICK d \in Devices :
          \/ Register(d) \/ Change(d) \/ Callback(d) \/ Receive(d)
          \/ Listening(d) \/ Accept(d) \/ Refuse(d) \/ Reconnect(d) \/ Kill(d)
  BY DEF Next
<1>1. Taken(d, {}, mainQ[d])
  BY DEF Taken
<1>2. CASE Register(d)
  <2>1. AppStep(d, mainQ[d]) /\ seen' = seen
    BY <1>2 DEF Register, AppStep
  <2> QED BY <1>1, <2>1 DEF DBStep, SeenStep
<1>3. CASE Change(d)
  <2>1. AppStep(d, mainQ[d]) /\ seen' = seen
    BY <1>3 DEF Change, AppStep
  <2> QED BY <1>1, <2>1 DEF DBStep, SeenStep
<1>4. CASE Callback(d)
  <2>1. PICK m \in Head(mainQ[d]).to :
            /\ mainQ' = [mainQ EXCEPT ![d] = Popped(d, m)]
            /\ seen' = [seen EXCEPT ![d] = Remember(@, m, At(Head(mainQ[d]).snap, m.at))]
    BY <1>4 DEF Callback
  <2>2. AppStep(d, Popped(d, m)) /\ mainQ[d] # << >>
    BY <1>4, <2>1 DEF Callback, AppStep
  <2>3. Taken(d, {m}, Popped(d, m))
    BY <2>1, <2>2 DEF Taken
  <2>4. DBStep(d, {m})
    BY <2>2, <2>3 DEF DBStep
  <2>5. \A e \in Devices : e # d => seen'[e] = seen[e]
    BY <2>1 DEF TypeOK
  <2>6. seen'[d] = Remember(seen[d], m, At(Head(mainQ[d]).snap, m.at))
    BY <2>1 DEF TypeOK
  <2>7. SeenStep(d, {m})
    BY <2>5, <2>6 DEF SeenStep
  <2> QED BY <2>4, <2>7
<1>5. CASE Receive(d) \/ Listening(d) \/ Accept(d) \/ Refuse(d) \/ Reconnect(d)
  <2>1. NetStep(d) /\ seen' = seen
    BY <1>5 DEF Receive, Listening, Accept, Refuse, Reconnect, NetStep
  <2>2. DBStep(d, {})
    BY <2>1 DEF DBStep
  <2>3. SeenStep(d, {})
    BY <2>1 DEF SeenStep
  <2> QED BY <2>2, <2>3
<1>6. CASE Kill(d)
  <2>1. NetStep(d) /\ Ended(d)
    BY <1>6 DEF Kill, NetStep, Terminate, Ended, TypeOK, DBTypeOK
  <2>2. \A e \in Devices : e # d => seen'[e] = seen[e]
    BY <1>6 DEF Kill, TypeOK
  <2>3. DBStep(d, {})
    BY <2>1 DEF DBStep
  <2>4. SeenStep(d, {})
    BY <2>1, <2>2 DEF SeenStep
  <2> QED BY <2>3, <2>4
<1> QED BY <1>0, <1>2, <1>3, <1>4, <1>5, <1>6

LEMMA NextDelivered == TypeOK /\ Delivered /\ [Next]_vars => Delivered'
<1> SUFFICES ASSUME TypeOK, Delivered, [Next]_vars PROVE Delivered'
  OBVIOUS
<1>1. CASE UNCHANGED vars
  BY <1>1 DEF vars, dbVars, Delivered
<1>2. CASE Next
  <2>1. PICK d \in Devices : \E M : DBStep(d, M) /\ SeenStep(d, M)
    BY <1>2, NextIsStep
  <2>2. PICK M : DBStep(d, M) /\ SeenStep(d, M)
    BY <2>1
  <2>3. ASSUME NEW e \in Devices
        PROVE  UpToDate(listeners'[e], known'[e], cache'[e], pend'[e], mainQ'[e], seen'[e])
    <3>1. DBTypeOK /\ UpToDate(listeners[e], known[e], cache[e], pend[e], mainQ[e], seen[e])
      BY DEF TypeOK, Delivered
    <3>2. CASE e = d /\ M = {} /\ Ended(d)
      BY <3>2 DEF Ended, UpToDate
    <3>3. CASE ~(e = d /\ M = {} /\ Ended(d))
      <4>1. /\ (e # d \/ M = {}) => seen'[e] = seen[e]
            /\ e = d => \A m \in M : seen'[e] = Remember(seen[e], m, At(Head(mainQ[d]).snap, m.at))
        BY <2>2, <3>3 DEF SeenStep
      <4>2. PICK s : s = seen[e]
        OBVIOUS
      <4>3. PICK s2 : s2 = seen'[e]
        OBVIOUS
      <4>4. /\ (e # d \/ M = {}) => s2 = s
            /\ e = d => \A m \in M : s2 = Remember(s, m, At(Head(mainQ[d]).snap, m.at))
        BY <4>1, <4>2, <4>3
      <4>5. UpToDate(listeners[e], known[e], cache[e], pend[e], mainQ[e], s)
        BY <3>1, <4>2
      <4>6. UpToDate(listeners[e], known[e], cache[e], pend[e], mainQ[e], s2)'
        BY <2>2, <3>1, <4>4, <4>5, StepUpToDate
      <4> QED BY <4>3, <4>6
    <3> QED BY <3>2, <3>3
  <2> QED BY <2>3 DEF Delivered
<1> QED BY <1>1, <1>2

(* On every device, in every order of events: a callback whose place is    *)
(* complete is shown the current view last (the events the library raises  *)
(* and the order in which the main queue runs them).                       *)
THEOREM NoLostUpdate == Spec => []Delivered
  BY InitTypeOK, NextTypeOK, InitDelivered, NextDelivered, PTL DEF Spec

-----------------------------------------------------------------------------
(* A device that listens is in step with the server up to what is on its   *)
(* way, because the connection delivers in order.                          *)
LEMMA InitInSync == Init => InSync
  BY DEF Init, DBInit, InSync

LEMMA NextInSync == TypeOK /\ InSync /\ [Next]_vars => InSync'
<1> SUFFICES ASSUME TypeOK, InSync, [Next]_vars PROVE InSync'
  OBVIOUS
<1>1. CASE UNCHANGED vars
  BY <1>1 DEF vars, dbVars, InSync
<1>2. CASE Next
  BY <1>2, NextIsStep, StepInSync DEF TypeOK
<1> QED BY <1>1, <1>2

LEMMA InSyncIdleAgrees == TypeOK /\ InSync => IdleAgrees
  BY IdleViewIsServer DEF TypeOK, IdleAgrees

(* A device that listens, with nothing on its way to it and no write of    *)
(* its own unacknowledged, sees exactly what the server holds.             *)
THEOREM IdleDeviceAgrees == Spec => []IdleAgrees
  BY InitTypeOK, NextTypeOK, InitInSync, NextInSync, InSyncIdleAgrees, PTL DEF Spec

-----------------------------------------------------------------------------
(* No answer is processed before a value was: a device listens before it   *)
(* writes, and the server answers both in the order it received them.      *)
LEMMA InitListensFirst == Init => ListensFirst
  BY DEF Init, DBInit, ListensFirst

LEMMA NextListensFirst == TypeOK /\ ListensFirst /\ [Next]_vars => ListensFirst'
<1> SUFFICES ASSUME TypeOK, ListensFirst, [Next]_vars PROVE ListensFirst'
  OBVIOUS
<1>1. CASE UNCHANGED vars
  BY <1>1 DEF vars, dbVars, ListensFirst
<1>2. CASE Next
  BY <1>2, NextIsStep, StepListensFirst DEF TypeOK
<1> QED BY <1>1, <1>2

(* The branch of ackUserWriteOn for an answer that comes before any data   *)
(* is never taken.                                                         *)
THEOREM AnswersFindData == Spec => []AckFindsData
<1>1. TypeOK /\ ListensFirst => AckFindsData
  <2> SUFFICES ASSUME TypeOK, ListensFirst, NEW d \in Devices,
                      inbox[d] # << >>, Head(inbox[d]).t = "ack"
               PROVE  known[d]
    BY DEF AckFindsData
  <2>1. sub[d] = "on"
    BY DEF ListensFirst
  <2> QED BY <2>1 DEF ListensFirst, Introduced
<1> QED BY <1>1, InitTypeOK, NextTypeOK, InitListensFirst, NextListensFirst, PTL DEF Spec
=============================================================================
