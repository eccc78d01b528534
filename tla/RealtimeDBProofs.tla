-------------------------- MODULE RealtimeDBProofs --------------------------
(***************************************************************************)
(* Lemmas about the database library's operators and steps, for any app    *)
(* built on it: the proofs about the screens cite them by name.            *)
(***************************************************************************)
EXTENDS RealtimeDB, FiniteSetTheorems, WellFoundedInduction, TLAPS

-----------------------------------------------------------------------------
(* The newest write or event exists: a non-empty set of positions has a    *)
(* largest element, and Newest is it (Overlay's choice of a pending write). *)
LEMMA NewestIsMax ==
    ASSUME NEW n \in Nat, NEW S \in SUBSET (1..n), S # {}
    PROVE  Newest(S) \in S /\ \A j \in S : j <= Newest(S)
<1> DEFINE T == {n - i : i \in S}
<1>1. T # {}
  BY Zenon
<1>2. \A i \in S : n - i \in Nat
  OBVIOUS
<1>3. T \subseteq Nat
  BY <1>2
<1>4. PICK x \in T : \A y \in T : ~(<<y, x>> \in OpToRel(<, Nat))
  <2> HIDE DEF T
  <2> QED BY <1>1, <1>3, WFMin, NatLessThanWellFounded, Zenon
<1>5. \A y \in T : ~(y < x)
  <2> HIDE DEF T
  <2> QED BY <1>3, <1>4 DEF OpToRel
<1>6. PICK i \in S : x = n - i
  OBVIOUS
<1>7. \A j \in S : ~(n - j < n - i)
  BY <1>5, <1>6
<1>8. \A j \in S : j <= i
  BY <1>7
<1> QED BY <1>8 DEF Newest

(* The largest element is unique, so Newest can be computed by naming it.  *)
LEMMA NewestUnique ==
    ASSUME NEW n \in Nat, NEW S \in SUBSET (1..n), NEW i \in S, \A j \in S : j <= i
    PROVE  Newest(S) = i
<1> DEFINE m == Newest(S)
<1>1. m \in S /\ \A j \in S : j <= m
  BY NewestIsMax
<1> HIDE DEF m
<1>2. \A x \in S : x \in Nat
  OBVIOUS
<1>3. m \in Nat /\ i \in Nat /\ m <= i /\ i <= m
  BY <1>1, <1>2
<1>4. m = i
  BY <1>3
<1> QED BY <1>4 DEF m

(* Laying writes over server data gives a value of the location again.     *)
LEMMA OverlayType ==
    ASSUME NEW c \in Tree, NEW p \in Seq(Write)
    PROVE  Overlay(c, p) \in Tree
<1>1. SUFFICES ASSUME NEW k \in Keys
      PROVE (IF Covering(p, k) = {} THEN c[k] ELSE p[Newest(Covering(p, k))][k])
                \in Vals \cup {Nil}
  BY DEF Overlay, Tree
<1>2. CASE Covering(p, k) = {}
  BY <1>2 DEF Tree
<1>3. CASE Covering(p, k) # {}
  <2> DEFINE i == Newest(Covering(p, k))
  <2>1. i \in Covering(p, k)
    BY <1>3, NewestIsMax, Len(p) \in Nat, Covering(p, k) \in SUBSET (1..Len(p)) DEF Covering
  <2>2. i \in 1..Len(p) /\ k \in DOMAIN p[i]
    BY <2>1 DEF Covering
  <2>3. p[i] \in Write
    BY <2>2
  <2>4. p[i][k] \in Vals \cup {Nil}
    BY <2>2, <2>3 DEF Write
  <2> QED BY <1>3, <2>4
<1> QED BY <1>2, <1>3

(* An event for some of a device's listeners is an event (raiseEvents).    *)
LEMMA RaisedType ==
    ASSUME NEW to \in SUBSET Listener, NEW snap \in Tree
    PROVE  Raised(to, snap) \in Seq(Event)
<1>1. [to |-> to, snap |-> snap] \in Event
  BY DEF Event
<1>2. <<[to |-> to, snap |-> snap]>> \in Seq(Event)
  BY <1>1
<1> QED BY <1>2 DEF Raised

(* Answers on their way: finite, and counted one message at a time.        *)
LEMMA AnswersFinite ==
    ASSUME NEW box \in Seq(Message)
    PROVE  IsFiniteSet(Answers(box)) /\ Cardinality(Answers(box)) \in Nat
<1>1. Answers(box) \in SUBSET (1..Len(box)) /\ Len(box) \in Int
  BY DEF Answers
<1> QED BY <1>1, FS_Interval, FS_Subset, FS_CardinalityType, 1 \in Int

LEMMA AnswersAppend ==
    ASSUME NEW box \in Seq(Message), NEW m \in Message
    PROVE  Cardinality(Answers(Append(box, m))) =
               Cardinality(Answers(box)) + (IF m.t = "ack" THEN 1 ELSE 0)
<1> DEFINE n == Len(box) + 1
<1>1. Answers(Append(box, m)) = Answers(box) \cup (IF m.t = "ack" THEN {n} ELSE {})
  BY DEF Answers
<1>2. n \notin Answers(box)
  BY DEF Answers
<1>3. Cardinality(Answers(box) \cup {n}) = Cardinality(Answers(box)) + 1
  BY <1>2, AnswersFinite, FS_AddElement
<1>4. Answers(box) \cup {} = Answers(box) /\ Cardinality(Answers(box)) \in Nat
  BY AnswersFinite
<1> HIDE DEF n
<1>5. CASE m.t = "ack"
  BY <1>1, <1>3, <1>5
<1>6. CASE m.t # "ack"
  BY <1>1, <1>4, <1>6
<1> QED BY <1>5, <1>6

LEMMA AnswersTail ==
    ASSUME NEW box \in Seq(Message), box # << >>
    PROVE  Cardinality(Answers(box)) =
               Cardinality(Answers(Tail(box))) + (IF Head(box).t = "ack" THEN 1 ELSE 0)
<1> DEFINE A == Answers(box) \ {1}
           B == Answers(Tail(box))
           f == [i \in B |-> i + 1]
<1>1. \A i \in B : i + 1 \in A
  BY DEF Answers
<1>2. \A j \in A : j - 1 \in B /\ (j - 1) + 1 = j
  BY DEF Answers
<1>3. B \subseteq Nat
  BY DEF Answers
<1>4. f \in Bijection(B, A)
  <2>1. f \in [B -> A]
    BY <1>1
  <2>2. \A i, j \in B : f[i] = f[j] => i = j
    BY <1>3
  <2>3. \A j \in A : \E i \in B : f[i] = j
    BY <1>2
  <2> QED BY <2>1, <2>2, <2>3, Zenon DEF Bijection, Injection, Surjection, IsInjective
<1>5. ExistsBijection(B, A)
  BY <1>4 DEF ExistsBijection
<1>6. Tail(box) \in Seq(Message)
  OBVIOUS
<1>7. IsFiniteSet(B) /\ IsFiniteSet(Answers(box))
  BY <1>6, AnswersFinite
<1>8. Cardinality(A) = Cardinality(B)
  <2> HIDE DEF A, B
  <2> QED BY <1>5, <1>7, FS_Bijection
<1>9. 1 \in Answers(box) <=> Head(box).t = "ack"
  BY DEF Answers
<1>10. Cardinality(A) = IF 1 \in Answers(box) THEN Cardinality(Answers(box)) - 1
                        ELSE Cardinality(Answers(box))
  BY <1>7, FS_RemoveElement
<1>11. Cardinality(Answers(box)) \in Nat
  BY AnswersFinite
<1> HIDE DEF A, B
<1> QED BY <1>8, <1>9, <1>10, <1>11 DEF B
-----------------------------------------------------------------------------
(* Every step of the library and of the server keeps the types.            *)
LEMMA ObserveType ==
    ASSUME DBTypeOK, NEW d \in Devices, NEW kind \in Kinds, NEW a \in Places,
           NEW q \in Seq(Event), Observe(d, kind, a, q)
    PROVE  DBTypeOK'
<1> DEFINE l == [kind |-> kind, at |-> a, n |-> Cardinality(listeners[d]) + 1]
           to == IF Complete(known[d], pend[d], l) THEN {l} ELSE {}
<1>1. l \in Listener
  BY FS_CardinalityType DEF DBTypeOK, Listener
<1>2. View(d) \in Tree
  BY OverlayType DEF DBTypeOK, View
<1>3. q \o Raised(to, View(d)) \in Seq(Event)
  BY <1>1, <1>2, RaisedType
<1>4. IsFiniteSet(listeners[d] \cup {l})
  BY FS_AddElement DEF DBTypeOK
<1>5. /\ listeners' = [listeners EXCEPT ![d] = @ \cup {l}]
      /\ mainQ' = [mainQ EXCEPT ![d] = q \o Raised(to, View(d))]
      /\ sub' = [sub EXCEPT ![d] = IF @ = "off" THEN "asked" ELSE @]
      /\ UNCHANGED <<server, cache, known, pend, inbox>>
  BY DEF Observe
<1> HIDE DEF l, to
<1>6. /\ listeners' \in [Devices -> SUBSET Listener]
      /\ mainQ' \in [Devices -> Seq(Event)]
      /\ sub' \in [Devices -> {"off", "asked", "on"}]
  BY <1>1, <1>3, <1>5 DEF DBTypeOK
<1>7. \A e \in Devices : IsFiniteSet(listeners'[e]) /\ Answered(e)' <= Len(pend'[e])
  BY <1>4, <1>5 DEF DBTypeOK, Answered
<1> QED BY <1>5, <1>6, <1>7 DEF DBTypeOK

LEMMA PutType ==
    ASSUME DBTypeOK, NEW d \in Devices, NEW w \in Write, NEW q \in Seq(Event), Put(d, w, q)
    PROVE  DBTypeOK'
<1> DEFINE p2 == Append(pend[d], w)
           to == Concerned(listeners[d], known[d], cache[d], pend[d], known[d], cache[d], p2)
<1>1. p2 \in Seq(Write) /\ Len(p2) = Len(pend[d]) + 1
  BY DEF DBTypeOK
<1>2. to \in SUBSET Listener
  BY DEF DBTypeOK, Concerned
<1>3. Overlay(cache[d], p2) \in Tree
  BY <1>1, OverlayType DEF DBTypeOK
<1>4. /\ pend' = [pend EXCEPT ![d] = p2]
      /\ mainQ' = [mainQ EXCEPT ![d] = q \o Raised(to, Overlay(cache[d], p2))]
      /\ UNCHANGED <<server, cache, known, inbox, sub, listeners>>
  BY DEF Put
<1> HIDE DEF p2, to
<1>5. q \o Raised(to, Overlay(cache[d], p2)) \in Seq(Event)
  BY <1>2, <1>3, RaisedType
<1>6. mainQ' \in [Devices -> Seq(Event)] /\ pend' \in [Devices -> Seq(Write)]
  BY <1>1, <1>4, <1>5 DEF DBTypeOK
<1>7. \A e \in Devices : Answered(e)' <= Len(pend'[e])
  <2>1. \A e \in Devices : Answered(e) \in Nat
    BY AnswersFinite DEF DBTypeOK, Answered
  <2> QED BY <1>1, <1>4, <2>1 DEF DBTypeOK, Answered
<1> QED BY <1>4, <1>6, <1>7 DEF DBTypeOK

LEMMA OnDataUpdateType ==
    ASSUME DBTypeOK, NEW d \in Devices, OnDataUpdate(d)
    PROVE  DBTypeOK'
<1> DEFINE c2 == Head(inbox[d]).val
           to == Concerned(listeners[d], known[d], cache[d], pend[d], TRUE, c2, pend[d])
<1>1. /\ inbox[d] # << >> /\ Head(inbox[d]).t = "data"
      /\ cache' = [cache EXCEPT ![d] = c2]
      /\ known' = [known EXCEPT ![d] = TRUE]
      /\ mainQ' = [mainQ EXCEPT ![d] = @ \o Raised(to, Overlay(c2, pend[d]))]
      /\ inbox' = [inbox EXCEPT ![d] = Tail(@)]
      /\ UNCHANGED <<server, pend, sub, listeners>>
  BY DEF OnDataUpdate
<1>2. c2 \in Tree
  <2>1. Head(inbox[d]) \in Message
    BY <1>1 DEF DBTypeOK
  <2> QED BY <1>1, <2>1 DEF Message
<1>3. to \in SUBSET Listener
  BY DEF DBTypeOK, Concerned
<1> HIDE DEF c2, to
<1>4. Overlay(c2, pend[d]) \in Tree
  BY <1>2, OverlayType DEF DBTypeOK
<1>5. mainQ[d] \o Raised(to, Overlay(c2, pend[d])) \in Seq(Event)
  BY <1>3, <1>4, RaisedType DEF DBTypeOK
<1>6. /\ cache' \in [Devices -> Tree] /\ known' \in [Devices -> BOOLEAN]
      /\ mainQ' \in [Devices -> Seq(Event)] /\ inbox' \in [Devices -> Seq(Message)]
  BY <1>1, <1>2, <1>5 DEF DBTypeOK
<1>7. Cardinality(Answers(Tail(inbox[d]))) <= Len(pend[d])
  <2>1. Cardinality(Answers(inbox[d])) = Cardinality(Answers(Tail(inbox[d]))) + 0
    BY <1>1, AnswersTail DEF DBTypeOK
  <2>2. Cardinality(Answers(Tail(inbox[d]))) \in Nat
    <3>1. Tail(inbox[d]) \in Seq(Message)
      BY <1>1 DEF DBTypeOK
    <3> QED BY <3>1, AnswersFinite
  <2> QED BY <2>1, <2>2 DEF DBTypeOK, Answered
<1>8. \A e \in Devices : Answered(e)' <= Len(pend'[e])
  BY <1>1, <1>7 DEF DBTypeOK, Answered
<1> QED BY <1>1, <1>6, <1>8 DEF DBTypeOK

LEMMA AckWriteType ==
    ASSUME DBTypeOK, NEW d \in Devices, AckWrite(d)
    PROVE  DBTypeOK' /\ pend[d] # << >>
<1> DEFINE p2 == Tail(pend[d])
           to == Concerned(listeners[d], known[d], cache[d], pend[d], known[d], cache[d], p2)
<1>1. /\ inbox[d] # << >> /\ Head(inbox[d]).t = "ack"
      /\ pend' = [pend EXCEPT ![d] = p2]
      /\ mainQ' = [mainQ EXCEPT ![d] = @ \o Raised(to, Overlay(cache[d], p2))]
      /\ inbox' = [inbox EXCEPT ![d] = Tail(@)]
      /\ UNCHANGED <<server, cache, known, sub, listeners>>
  BY DEF AckWrite, WithoutOldest
<1>2. /\ Cardinality(Answers(inbox[d])) = Cardinality(Answers(Tail(inbox[d]))) + 1
      /\ Cardinality(Answers(Tail(inbox[d]))) \in Nat
  <2>1. inbox[d] \in Seq(Message) /\ Tail(inbox[d]) \in Seq(Message)
    BY <1>1 DEF DBTypeOK
  <2> QED BY <1>1, <2>1, AnswersTail, AnswersFinite
<1>3. Len(pend[d]) \in Nat /\ Len(pend[d]) > 0
  BY <1>2 DEF DBTypeOK, Answered
<1>4. pend[d] # << >> /\ p2 \in Seq(Write) /\ Len(p2) = Len(pend[d]) - 1
  BY <1>3 DEF DBTypeOK
<1>5. to \in SUBSET Listener
  BY DEF DBTypeOK, Concerned
<1> HIDE DEF p2, to
<1>6. Overlay(cache[d], p2) \in Tree
  BY <1>4, OverlayType DEF DBTypeOK
<1>7. mainQ[d] \o Raised(to, Overlay(cache[d], p2)) \in Seq(Event)
  BY <1>5, <1>6, RaisedType DEF DBTypeOK
<1>8. /\ pend' \in [Devices -> Seq(Write)]
      /\ mainQ' \in [Devices -> Seq(Event)] /\ inbox' \in [Devices -> Seq(Message)]
  BY <1>1, <1>4, <1>7 DEF DBTypeOK
<1>9. Cardinality(Answers(Tail(inbox[d]))) <= Len(p2)
  BY <1>2, <1>3, <1>4 DEF DBTypeOK, Answered
<1>10. \A e \in Devices : Answered(e)' <= Len(pend'[e])
  BY <1>1, <1>9 DEF DBTypeOK, Answered
<1> QED BY <1>1, <1>4, <1>8, <1>10 DEF DBTypeOK

LEMMA ServerListenType ==
    ASSUME DBTypeOK, NEW d \in Devices, ServerListen(d)
    PROVE  DBTypeOK'
<1>1. Data(server) \in Message /\ Data(server).t # "ack"
  BY DEF DBTypeOK, Data, Message
<1>2. Append(inbox[d], Data(server)) \in Seq(Message)
  BY <1>1 DEF DBTypeOK
<1>3. Cardinality(Answers(Append(inbox[d], Data(server)))) = Answered(d)
  <2>1. inbox[d] \in Seq(Message)
    BY DEF DBTypeOK
  <2>2. Cardinality(Answers(Append(inbox[d], Data(server)))) = Cardinality(Answers(inbox[d])) + 0
    BY <1>1, <2>1, AnswersAppend
  <2> QED BY <2>1, <2>2, AnswersFinite DEF Answered
<1>4. \A e \in Devices : Answered(e)' <= Len(pend'[e])
  BY <1>3 DEF DBTypeOK, Answered, ServerListen
<1> QED BY <1>2, <1>4 DEF DBTypeOK, ServerListen

LEMMA ConcatOne ==
    ASSUME NEW S, NEW s \in Seq(S), NEW x \in S
    PROVE  s \o <<x>> = Append(s, x) /\ s \o << >> = s /\ Append(s, x) \in Seq(S)
  OBVIOUS

LEMMA NextPutType ==
    ASSUME DBTypeOK, NEW d \in Devices, PutWaits(d)
    PROVE  NextPut(d) \in Write /\ Answered(d) \in Nat /\ Answered(d) + 1 <= Len(pend[d])
<1>1. Answered(d) \in Nat
  BY AnswersFinite DEF DBTypeOK, Answered
<1>2. pend[d] \in Seq(Write) /\ Answered(d) < Len(pend[d])
  BY DEF DBTypeOK, PutWaits
<1> QED BY <1>1, <1>2 DEF NextPut

LEMMA MergeType ==
    ASSUME NEW v \in Tree, NEW w \in Write
    PROVE  Merge(v, w) \in Tree
  BY DEF Merge, Tree, Write

(* What an accepted write adds to the inboxes: data for every device that  *)
(* listens, and one answer, for the writer.                                *)
LEMMA ServerAcceptInbox ==
    ASSUME DBTypeOK, NEW d \in Devices, ServerAccept(d), NEW e \in Devices
    PROVE  LET b1 == IF sub[e] = "on" /\ server' # server
                     THEN Append(inbox[e], Data(server')) ELSE inbox[e]
           IN  /\ server' \in Tree
               /\ b1 \in Seq(Message)
               /\ inbox'[e] = IF e = d THEN Append(b1, Ack(TRUE)) ELSE b1
               /\ inbox'[e] \in Seq(Message)
               /\ Answered(e)' = Answered(e) + (IF e = d THEN 1 ELSE 0)
<1> DEFINE ack == Ack(TRUE)
           box == IF sub[e] = "on" /\ server' # server
                  THEN Append(inbox[e], Data(server')) ELSE inbox[e]
<1>1. server' \in Tree
  <2>1. PutWaits(d) /\ server' = Merge(server, NextPut(d))
    BY DEF ServerAccept
  <2> QED BY <2>1, NextPutType, MergeType DEF DBTypeOK
<1>2. inbox[e] \in Seq(Message) /\ Cardinality(Answers(inbox[e])) \in Nat
  BY AnswersFinite DEF DBTypeOK
<1>3. Data(server') \in Message /\ Data(server').t # "ack"
  BY <1>1 DEF Data, Message
<1>4. ack \in Message /\ ack.t = "ack"
  BY DEF Ack, Message
<1>5. box = inbox[e] \/ box = Append(inbox[e], Data(server'))
  OBVIOUS
<1>6. inbox'[e] = box \o (IF e = d THEN <<ack>> ELSE << >>)
  <2>1. inbox'[e] = inbox[e]
            \o (IF sub[e] = "on" /\ server' # server THEN <<Data(server')>> ELSE << >>)
            \o (IF e = d THEN <<ack>> ELSE << >>)
    BY DEF ServerAccept
  <2>2. inbox[e] \o (IF sub[e] = "on" /\ server' # server THEN <<Data(server')>> ELSE << >>) = box
    <3> HIDE DEF ack
    <3> QED BY <1>2, <1>3, ConcatOne
  <2> QED BY <2>1, <2>2
<1>7. box \in Seq(Message) /\ Cardinality(Answers(box)) = Cardinality(Answers(inbox[e]))
  <2> HIDE DEF box
  <2>1. CASE box = inbox[e]
    BY <1>2, <2>1
  <2>2. CASE box = Append(inbox[e], Data(server'))
    <3>1. Append(inbox[e], Data(server')) \in Seq(Message)
      BY <1>2, <1>3
    <3>2. Cardinality(Answers(Append(inbox[e], Data(server')))) = Cardinality(Answers(inbox[e])) + 0
      BY <1>2, <1>3, AnswersAppend
    <3> QED BY <2>2, <3>1, <3>2, <1>2
  <2> QED BY <1>5, <2>1, <2>2
<1> HIDE DEF box, ack
<1>8. inbox'[e] = IF e = d THEN Append(box, ack) ELSE box
  BY <1>4, <1>6, <1>7, ConcatOne
<1>9. Append(box, ack) \in Seq(Message) /\ Cardinality(Answers(Append(box, ack))) = Cardinality(Answers(box)) + 1
  BY <1>4, <1>7, ConcatOne, AnswersAppend
<1>10. Answered(e)' = Answered(e) + (IF e = d THEN 1 ELSE 0)
  BY <1>2, <1>7, <1>8, <1>9 DEF Answered
<1>11. inbox'[e] \in Seq(Message)
  BY <1>7, <1>8, <1>9
<1> QED BY <1>1, <1>7, <1>8, <1>10, <1>11 DEF box, ack

LEMMA ServerAcceptType ==
    ASSUME DBTypeOK, NEW d \in Devices, ServerAccept(d)
    PROVE  DBTypeOK'
<1>1. PutWaits(d) /\ UNCHANGED <<cache, known, pend, sub, listeners, mainQ>>
  BY DEF ServerAccept
<1>2. ASSUME NEW e \in Devices
      PROVE  /\ server' \in Tree /\ inbox'[e] \in Seq(Message)
             /\ Answered(e)' = Answered(e) + (IF e = d THEN 1 ELSE 0)
  BY ServerAcceptInbox
<1>3. inbox' \in [Devices -> Seq(Message)]
  <2>1. inbox' = [e \in Devices |-> inbox'[e]]
    BY DEF ServerAccept
  <2> QED BY <1>2, <2>1
<1>4. \A e \in Devices : Answered(e)' <= Len(pend'[e])
  <2>1. \A e \in Devices : Answered(e) \in Nat /\ Answered(e) <= Len(pend[e])
    BY AnswersFinite DEF DBTypeOK, Answered
  <2> QED BY <1>1, <1>2, <2>1, NextPutType
<1>5. server' \in Tree
  BY <1>2
<1> QED BY <1>1, <1>3, <1>4, <1>5 DEF DBTypeOK

LEMMA ServerRefuseType ==
    ASSUME DBTypeOK, NEW d \in Devices, ServerRefuse(d)
    PROVE  DBTypeOK'
<1> DEFINE ack == Ack(FALSE)
<1>1. ack \in Message /\ ack.t = "ack"
  BY DEF Ack, Message
<1>2. /\ PutWaits(d) /\ inbox' = [inbox EXCEPT ![d] = Append(@, ack)]
      /\ UNCHANGED <<server, cache, known, pend, sub, listeners, mainQ>>
  BY DEF ServerRefuse
<1> HIDE DEF ack
<1>3. inbox[d] \in Seq(Message) /\ Append(inbox[d], ack) \in Seq(Message)
  BY <1>1 DEF DBTypeOK
<1>4. Cardinality(Answers(Append(inbox[d], ack))) = Answered(d) + 1
  BY <1>1, <1>3, AnswersAppend DEF Answered
<1>5. Answered(d) + 1 <= Len(pend[d])
  BY <1>2, NextPutType
<1>6. \A e \in Devices : Answered(e)' <= Len(pend'[e])
  BY <1>2, <1>4, <1>5 DEF DBTypeOK, Answered
<1>7. inbox' \in [Devices -> Seq(Message)]
  BY <1>2, <1>3 DEF DBTypeOK
<1> QED BY <1>2, <1>6, <1>7 DEF DBTypeOK

LEMMA NoAnswers == Answers(<< >>) = {} /\ Cardinality(Answers(<< >>)) = 0
  BY FS_EmptySet DEF Answers

LEMMA RestoreStateType ==
    ASSUME DBTypeOK, NEW d \in Devices, RestoreState(d)
    PROVE  DBTypeOK'
<1>1. \A e \in Devices : Answered(e)' <= Len(pend'[e])
  BY NoAnswers DEF DBTypeOK, Answered, RestoreState
<1> QED BY <1>1 DEF DBTypeOK, RestoreState

LEMMA TerminateType ==
    ASSUME DBTypeOK, NEW d \in Devices, Terminate(d)
    PROVE  DBTypeOK'
<1>1. \A e \in Devices : Answered(e)' <= Len(pend'[e])
  BY NoAnswers DEF DBTypeOK, Answered, Terminate
<1>2. NoTree \in Tree
  BY DEF NoTree, Tree
<1>3. IsFiniteSet({})
  BY FS_EmptySet
<1> QED BY <1>1, <1>2, <1>3 DEF DBTypeOK, Terminate

LEMMA PoppedType ==
    ASSUME DBTypeOK, NEW d \in Devices, mainQ[d] # << >>, NEW l \in Head(mainQ[d]).to
    PROVE  /\ Popped(d, l) \in Seq(Event)
           /\ Head(mainQ[d]) \in Event
           /\ l \in Listener
<1>1. mainQ[d] \in Seq(Event) /\ Head(mainQ[d]) \in Event /\ Tail(mainQ[d]) \in Seq(Event)
  BY DEF DBTypeOK
<1>2. Head(mainQ[d]).to \in SUBSET Listener /\ Head(mainQ[d]).snap \in Tree
  BY <1>1 DEF Event
<1> DEFINE e == [to |-> Head(mainQ[d]).to \ {l}, snap |-> Head(mainQ[d]).snap]
<1>3. e \in Event
  BY <1>2 DEF Event
<1>4. <<e>> \o Tail(mainQ[d]) \in Seq(Event)
  <2> HIDE DEF e
  <2> QED BY <1>1, <1>3
<1> QED BY <1>1, <1>2, <1>4 DEF Popped

LEMMA InitType ==
    ASSUME NEW s0 \in Tree, DBInit(s0)
    PROVE  DBTypeOK
<1>1. NoTree \in Tree
  BY DEF NoTree, Tree
<1>2. \A d \in Devices : IsFiniteSet(listeners[d]) /\ Answered(d) <= Len(pend[d])
  BY NoAnswers, FS_EmptySet DEF DBInit, Answered
<1> QED BY <1>1, <1>2 DEF DBInit, DBTypeOK
-----------------------------------------------------------------------------
(* What an event that is put on the main queue, and a callback that runs,  *)
(* mean for what a listener is shown last.                                 *)
LEMMA RaisedShown ==
    ASSUME NEW q \in Seq(Event), NEW to \in SUBSET Listener, NEW snap \in Tree,
           NEW s, NEW l
    PROVE  LET q2 == q \o Raised(to, snap)
           IN  /\ l \in to => /\ HasShown(q2, s, l)
                             /\ LastShown(q2, s, l) = At(snap, l.at)
               /\ l \notin to => /\ HasShown(q2, s, l) <=> HasShown(q, s, l)
                                /\ LastShown(q2, s, l) = LastShown(q, s, l)
<1> DEFINE q2 == q \o Raised(to, snap)
           e == [to |-> to, snap |-> snap]
           n == Len(q) + 1
<1>1. e \in Event
  BY DEF Event
<1>2. CASE to = {}
  <2>1. q2 = q
    BY <1>2 DEF Raised
  <2> QED BY <1>2, <2>1
<1>3. CASE to # {}
  <2>1. q2 = Append(q, e)
    <3>1. q2 = q \o <<e>>
      BY <1>3 DEF Raised
    <3> HIDE DEF e, q2
    <3> QED BY <1>1, <3>1, ConcatOne
  <2> HIDE DEF q2
  <2>2. /\ q2[n] = e /\ n \in Nat /\ Len(q2) = n
        /\ \A i \in 1..Len(q) : q2[i] = q[i]
    <3> HIDE DEF e
    <3> QED BY <1>1, <2>1
  <2>3. CASE l \in to
    <3>1. n \in EventsFor(q2, l) /\ EventsFor(q2, l) \subseteq 1..n
      BY <2>2, <2>3 DEF EventsFor
    <3>2. Newest(EventsFor(q2, l)) = n
      <4> HIDE DEF n
      <4>1. \A j \in EventsFor(q2, l) : j <= n
        BY <2>2, <3>1
      <4> QED BY <2>2, <3>1, <4>1, NewestUnique
    <3>3. q2[n].snap = snap
      BY <2>2
    <3> HIDE DEF n
    <3> QED BY <2>3, <3>1, <3>2, <3>3 DEF HasShown, LastShown, q2
  <2>4. CASE l \notin to
    <3>1. EventsFor(q2, l) = EventsFor(q, l)
      BY <2>2, <2>4 DEF EventsFor
    <3>2. ASSUME EventsFor(q, l) # {}
          PROVE  Newest(EventsFor(q, l)) \in 1..Len(q)
      <4>1. EventsFor(q, l) \in SUBSET (1..Len(q)) /\ Len(q) \in Nat
        BY DEF EventsFor
      <4> QED BY <3>2, <4>1, NewestIsMax
    <3>3. LastShown(q2, s, l) = LastShown(q, s, l)
      BY <2>2, <3>1, <3>2 DEF LastShown
    <3>4. HasShown(q2, s, l) <=> HasShown(q, s, l)
      BY <3>1 DEF HasShown
    <3> QED BY <2>4, <3>3, <3>4 DEF q2
  <2> QED BY <2>3, <2>4
<1> QED BY <1>2, <1>3

(* Shown what came last, and everything it did not concern unchanged: a    *)
(* change of the library's copy leaves every listener up to date.          *)
LEMMA ChangeKeepsUpToDate ==
    ASSUME NEW ls \in SUBSET Listener, NEW kn, NEW c, NEW p, NEW kn2, NEW c2, NEW p2,
           NEW q \in Seq(Event), NEW s,
           Overlay(c2, p2) \in Tree,
           UpToDate(ls, kn, c, p, q, s)
    PROVE  UpToDate(ls, kn2, c2, p2,
               q \o Raised(Concerned(ls, kn, c, p, kn2, c2, p2), Overlay(c2, p2)), s)
<1> DEFINE to == Concerned(ls, kn, c, p, kn2, c2, p2)
           q2 == q \o Raised(to, Overlay(c2, p2))
<1>1. to \in SUBSET Listener
  BY DEF Concerned
<1>2. ASSUME NEW l \in ls, Complete(kn2, p2, l)
      PROVE  HasShown(q2, s, l) /\ LastShown(q2, s, l) = At(Overlay(c2, p2), l.at)
  <2>1. CASE l \in to
    <3> HIDE DEF to
    <3> QED BY <1>1, <2>1, RaisedShown
  <2>2. CASE l \notin to
    <3>1. Complete(kn, p, l) /\ At(Overlay(c2, p2), l.at) = At(Overlay(c, p), l.at)
      BY <1>2, <2>2 DEF Concerned
    <3>2. HasShown(q, s, l) /\ LastShown(q, s, l) = At(Overlay(c, p), l.at)
      BY <3>1 DEF UpToDate
    <3> HIDE DEF to
    <3> QED BY <1>1, <2>2, <3>1, <3>2, RaisedShown
  <2> QED BY <2>1, <2>2
<1> HIDE DEF to, q2
<1>3. UpToDate(ls, kn2, c2, p2, q2, s)
  BY <1>2 DEF UpToDate
<1> QED BY <1>3 DEF q2, to

(* A callback that runs has seen what was the newest event for it, or one  *)
(* newer is still waiting; the other listeners are not concerned.          *)
LEMMA PoppedShown ==
    ASSUME DBTypeOK, NEW d \in Devices, mainQ[d] # << >>, NEW m \in Head(mainQ[d]).to,
           NEW s, NEW l, HasShown(mainQ[d], s, l)
    PROVE  LET s2 == Remember(s, m, At(Head(mainQ[d]).snap, m.at))
           IN  /\ HasShown(Popped(d, m), s2, l)
               /\ LastShown(Popped(d, m), s2, l) = LastShown(mainQ[d], s, l)
<1> USE DEF Remember
<1> DEFINE q == mainQ[d]
           q2 == Popped(d, m)
           E == EventsFor(q, l)
           E2 == EventsFor(q2, l)
           n == Len(q)
<1>1. q \in Seq(Event) /\ n \in Nat /\ n > 0 /\ q2 \in Seq(Event)
  BY PoppedType DEF DBTypeOK
<1>2. E \in SUBSET (1..n) /\ E2 \in SUBSET (1..Len(q2))
  BY DEF EventsFor
<1>3. 1 \in E <=> l \in Head(q).to
  BY <1>1 DEF EventsFor
<1>4. E # {} => Newest(E) \in E /\ \A j \in E : j <= Newest(E)
  BY <1>1, <1>2, NewestIsMax
<1>5. CASE Head(q).to \ {m} # {}
  <2> DEFINE e2 == [to |-> Head(q).to \ {m}, snap |-> Head(q).snap]
  <2>1. q2 = <<e2>> \o Tail(q)
    BY <1>5 DEF Popped
  <2>2. /\ Len(q2) = n /\ q2[1] = e2
        /\ \A i \in 2..n : q2[i] = q[i]
    <3> HIDE DEF e2
    <3> QED BY <1>1, <2>1
  <2>3. E2 = IF l = m THEN E \ {1} ELSE E
    BY <1>1, <1>3, <2>2 DEF EventsFor
  <2>4. \A i \in E2 : q2[i].snap = q[i].snap
    BY <1>1, <1>2, <2>2
  <2>5. CASE E2 # {}
    <3>1. E # {} /\ Newest(E) \in E2
      <4>1. E # {} /\ (E2 = E \/ (E2 = E \ {1} /\ \E j \in E : j # 1))
        BY <2>3, <2>5
      <4>2. CASE E2 = E
        BY <1>4, <2>5, <4>2
      <4>3. CASE E2 = E \ {1} /\ \E j \in E : j # 1
        <5>1. PICK j \in E : j # 1
          BY <4>3
        <5>2. j \in 1..n /\ Newest(E) \in 1..n /\ j <= Newest(E)
          BY <1>2, <1>4, <4>1
        <5>3. Newest(E) # 1
          <6> HIDE DEF E, n
          <6> QED BY <5>1, <5>2, <1>1
        <5> QED BY <1>4, <4>1, <4>3, <5>3
      <4> QED BY <4>1, <4>2, <4>3
    <3>2. Newest(E2) = Newest(E)
      <4>1. E2 \subseteq E
        BY <2>3
      <4>2. \A j \in E2 : j <= Newest(E)
        BY <1>4, <3>1, <4>1
      <4>3. E2 \in SUBSET (1..n)
        BY <1>2, <2>2
      <4> HIDE DEF E, E2, n
      <4> QED BY <1>1, <3>1, <4>2, <4>3, NewestUnique
    <3>3. q2[Newest(E2)].snap = q[Newest(E)].snap
      BY <2>4, <3>1, <3>2
    <3> QED BY <2>5, <3>1, <3>2, <3>3 DEF HasShown, LastShown
  <2>6. CASE E2 = {} /\ l = m
    <3>1. E = {1}
      BY <1>3, <2>3, <2>6
    <3>2. Newest(E) = 1
      BY <1>4, <3>1
    <3>3. LastShown(q, s, l) = At(Head(q).snap, l.at)
      BY <1>1, <3>1, <3>2 DEF LastShown
    <3> QED BY <2>6, <3>3 DEF HasShown, LastShown
  <2>7. CASE E2 = {} /\ l # m
    <3>1. E = {}
      BY <2>3, <2>7
    <3> QED BY <2>7, <3>1 DEF HasShown, LastShown
  <2> QED BY <2>5, <2>6, <2>7
<1>6. CASE Head(q).to \ {m} = {}
  <2>1. q2 = Tail(q) /\ Head(q).to = {m}
    BY <1>6 DEF Popped
  <2>2. Len(q2) = n - 1 /\ \A i \in 1..(n - 1) : q2[i] = q[i + 1]
    BY <1>1, <2>1
  <2>3. \A i \in 1..(n - 1) : i \in E2 <=> i + 1 \in E
    BY <1>1, <2>2 DEF EventsFor
  <2>4. CASE E2 # {}
    <3> DEFINE k == Newest(E)
    <3>1. PICK i \in E2 : TRUE
      BY <2>4
    <3>2. i \in 1..(n - 1) /\ i + 1 \in E /\ k \in E /\ \A j \in E : j <= k
      BY <1>2, <1>4, <2>2, <2>3
    <3>3. k \in 1..n /\ k - 1 \in 1..(n - 1) /\ (k - 1) + 1 = k
      <4>1. k \in 1..n /\ i + 1 <= k
        BY <1>2, <3>2
      <4> HIDE DEF k, n
      <4> QED BY <1>1, <3>2, <4>1
    <3>4. k - 1 \in E2
      BY <2>3, <3>2, <3>3
    <3>5. \A j \in E2 : j <= k - 1
      <4>1. ASSUME NEW j \in E2 PROVE j <= k - 1
        <5>1. j \in 1..(n - 1) /\ j + 1 <= k
          BY <1>2, <2>2, <2>3, <3>2
        <5> HIDE DEF k, n
        <5> QED BY <1>1, <3>3, <5>1
      <4> QED BY <4>1
    <3>6. Newest(E2) = k - 1
      <4>1. E2 \in SUBSET (1..n)
        BY <1>1, <1>2, <2>2
      <4> HIDE DEF E2, k, n
      <4> QED BY <1>1, <3>4, <3>5, <4>1, NewestUnique
    <3>7. q2[Newest(E2)] = q[k]
      BY <2>2, <3>3, <3>6
    <3> QED BY <2>4, <3>2, <3>7 DEF HasShown, LastShown
  <2>5. CASE E2 = {} /\ l = m
    <3>1. E = {1}
      <4>1. \A j \in E : j = 1
        <5>1. ASSUME NEW j \in E, j # 1 PROVE FALSE
          <6>1. j - 1 \in 1..(n - 1) /\ (j - 1) + 1 = j
            BY <1>1, <1>2, <5>1
          <6> QED BY <2>3, <2>5, <5>1, <6>1
        <5> QED BY <5>1
      <4> QED BY <1>3, <2>5, <4>1
    <3>2. Newest(E) = 1
      BY <1>4, <3>1
    <3>3. LastShown(q, s, l) = At(Head(q).snap, l.at)
      BY <1>1, <3>1, <3>2 DEF LastShown
    <3> QED BY <2>5, <3>3 DEF HasShown, LastShown
  <2>6. CASE E2 = {} /\ l # m
    <3>1. E = {}
      <4>1. ASSUME NEW j \in E PROVE FALSE
        <5>1. j # 1
          BY <1>3, <2>1, <2>6, <4>1
        <5>2. j - 1 \in 1..(n - 1) /\ (j - 1) + 1 = j
          BY <1>1, <1>2, <4>1, <5>1
        <5> QED BY <2>3, <2>6, <4>1, <5>2
      <4> QED BY <4>1
    <3> QED BY <2>6, <3>1 DEF HasShown, LastShown
  <2> QED BY <2>4, <2>5, <2>6
<1> QED BY <1>5, <1>6

-----------------------------------------------------------------------------
(* What the newest value on its way to a device is, as messages come and go. *)
LEMMA AppendData ==
    ASSUME NEW box \in Seq(Message), NEW m \in Message, NEW c
    PROVE  LastData(Append(box, m), c) = IF m.t = "data" THEN m.val ELSE LastData(box, c)
<1> DEFINE b2 == Append(box, m)
           n == Len(box) + 1
<1>1. n \in Nat /\ b2[n] = m /\ Len(b2) = n /\ \A i \in 1..Len(box) : b2[i] = box[i]
  OBVIOUS
<1> HIDE DEF b2
<1>2. CASE m.t = "data"
  <2>1. n \in DataIn(b2) /\ DataIn(b2) \in SUBSET (1..n) /\ \A j \in DataIn(b2) : j <= n
    BY <1>1, <1>2 DEF DataIn
  <2>2. Newest(DataIn(b2)) = n
    <3> HIDE DEF n
    <3> QED BY <1>1, <2>1, NewestUnique
  <2> QED BY <1>1, <1>2, <2>1, <2>2 DEF LastData, b2
<1>3. CASE m.t # "data"
  <2>1. DataIn(b2) = DataIn(box)
    BY <1>1, <1>3 DEF DataIn
  <2>2. DataIn(box) \in SUBSET (1..Len(box)) /\ Len(box) \in Nat
    BY DEF DataIn
  <2>3. DataIn(box) # {} => Newest(DataIn(box)) \in 1..Len(box)
    BY <2>2, NewestIsMax
  <2> QED BY <1>1, <1>3, <2>1, <2>3 DEF LastData, b2
<1> QED BY <1>2, <1>3

LEMMA TailData ==
    ASSUME NEW box \in Seq(Message), box # << >>, NEW c
    PROVE  LastData(box, c) =
               LastData(Tail(box), IF Head(box).t = "data" THEN Head(box).val ELSE c)
<1> DEFINE D == DataIn(box)
           T == DataIn(Tail(box))
           n == Len(box)
<1>1. n \in Nat /\ n > 0 /\ D \in SUBSET (1..n) /\ T \in SUBSET (1..(n - 1)) /\ T \in SUBSET (1..n)
  BY DEF DataIn
<1>2. \A i \in 1..(n - 1) : (i \in T <=> i + 1 \in D) /\ Tail(box)[i] = box[i + 1]
  BY DEF DataIn
<1>3. 1 \in D <=> Head(box).t = "data"
  BY <1>1 DEF DataIn
<1>4. D # {} => Newest(D) \in D /\ \A j \in D : j <= Newest(D)
  BY <1>1, NewestIsMax
<1>5. T # {} => Newest(T) \in T /\ \A j \in T : j <= Newest(T)
  BY <1>1, NewestIsMax
<1>6. CASE T # {}
  <2> DEFINE k == Newest(T) + 1
  <2>1. Newest(T) \in 1..(n - 1)
    BY <1>1, <1>5, <1>6
  <2>2. k \in D /\ k \in Nat
    BY <1>2, <1>5, <1>6, <2>1
  <2>3. \A j \in D : j <= k
    <3>1. ASSUME NEW j \in D PROVE j <= k
      <4>1. j = 1 \/ (j - 1 \in 1..(n - 1) /\ (j - 1) + 1 = j)
        BY <1>1
      <4>2. j = 1 \/ j - 1 \in T
        BY <1>2, <4>1
      <4>3. j = 1 \/ j - 1 <= Newest(T)
        BY <1>5, <1>6, <4>2
      <4> HIDE DEF T, D
      <4> QED BY <2>1, <4>1, <4>3
    <3> QED BY <3>1
  <2>4. Newest(D) = k
    <3> HIDE DEF D, k, n
    <3> QED BY <1>1, <2>2, <2>3, NewestUnique
  <2>5. box[k] = Tail(box)[Newest(T)]
    BY <1>2, <2>1
  <2> QED BY <1>6, <2>2, <2>4, <2>5 DEF LastData
<1>7. CASE T = {} /\ D # {}
  <2>1. \A j \in D : j = 1
    <3>1. ASSUME NEW j \in D, j # 1 PROVE FALSE
      <4>1. j - 1 \in 1..(n - 1) /\ (j - 1) + 1 = j
        BY <1>1, <3>1
      <4> QED BY <1>2, <1>7, <3>1, <4>1
    <3> QED BY <3>1
  <2>2. Newest(D) = 1 /\ Head(box).t = "data"
    BY <1>3, <1>4, <1>7, <2>1
  <2> QED BY <1>7, <2>2 DEF LastData
<1>8. CASE T = {} /\ D = {}
  BY <1>3, <1>8 DEF LastData
<1> QED BY <1>6, <1>7, <1>8

LEMMA IntroducedLater ==
    ASSUME NEW box \in Seq(Message), NEW m \in Message, NEW kn \in BOOLEAN,
           Introduced(box, kn)
    PROVE  Introduced(Append(box, m), kn)
<1>1. CASE kn
  BY <1>1 DEF Introduced
<1>2. CASE ~kn
  <2>1. box # << >> /\ Head(box).t = "data"
    BY <1>2 DEF Introduced
  <2>2. Append(box, m) # << >> /\ Head(Append(box, m)) = Head(box)
    BY <2>1
  <2> QED BY <2>1, <2>2 DEF Introduced
<1> QED BY <1>1, <1>2

LEMMA OnlyListenersAreServed ==
    ASSUME DBTypeOK, ListensFirst, NEW d \in Devices, PutWaits(d)
    PROVE  sub[d] = "on"
<1>1. Answered(d) \in Nat /\ Answered(d) + 1 <= Len(pend[d])
  BY NextPutType
<1>2. pend[d] # << >>
  BY <1>1
<1>3. sub[d] \in {"off", "asked", "on"} /\ sub[d] # "off" /\ sub[d] # "asked"
  BY <1>2 DEF DBTypeOK, ListensFirst, PutWaits
<1> QED BY <1>3

-----------------------------------------------------------------------------
\* raising events for registered callbacks keeps the main queue's events to them
LEMMA RaisedToRegistered ==
    ASSUME NEW q \in Seq(Event), NEW to \in SUBSET Listener, NEW snap \in Tree, NEW ls,
           to \subseteq ls, \A i \in 1..Len(q) : q[i].to \subseteq ls
    PROVE  LET q2 == q \o Raised(to, snap)
           IN  \A i \in 1..Len(q2) : q2[i].to \subseteq ls
<1> DEFINE e == [to |-> to, snap |-> snap]
           q2 == q \o Raised(to, snap)
<1>1. e \in Event /\ e.to \subseteq ls
  BY DEF Event
<1> HIDE DEF e
<1>2. CASE to = {}
  <2>1. q2 = q
    BY <1>2 DEF Raised
  <2> QED BY <2>1
<1>3. CASE to # {}
  <2>1. q2 = Append(q, e)
    <3>1. q2 = q \o <<e>>
      BY <1>3 DEF Raised, e
    <3> QED BY <1>1, <3>1, ConcatOne
  <2> HIDE DEF q2
  <2>2. \A i \in 1..Len(q2) : q2[i].to \subseteq ls
    BY <1>1, <2>1
  <2> QED BY <2>2 DEF q2
<1> QED BY <1>2, <1>3

LEMMA PoppedToRegistered ==
    ASSUME DBTypeOK, NEW d \in Devices, mainQ[d] # << >>, NEW l \in Head(mainQ[d]).to, NEW ls,
           \A i \in 1..Len(mainQ[d]) : mainQ[d][i].to \subseteq ls
    PROVE  \A i \in 1..Len(Popped(d, l)) : Popped(d, l)[i].to \subseteq ls
<1> DEFINE q == mainQ[d]
           e == [to |-> Head(q).to \ {l}, snap |-> Head(q).snap]
<1>1. q \in Seq(Event) /\ Head(q).to \subseteq ls
  <2>1. q \in Seq(Event) /\ q # << >>
    BY DEF DBTypeOK
  <2>2. 1 \in 1..Len(q) /\ Head(q) = q[1]
    BY <2>1
  <2>3. q[1].to \subseteq ls
    BY <2>2
  <2> QED BY <2>1, <2>2, <2>3
<1>2. Popped(d, l) = Tail(q) \/ Popped(d, l) = <<e>> \o Tail(q)
  BY DEF Popped
<1>3. e.to \subseteq ls
  BY <1>1
<1> HIDE DEF e
<1>4. \A i \in 1..Len(Tail(q)) : Tail(q)[i].to \subseteq ls
  BY <1>1
<1>5. \A i \in 1..Len(<<e>> \o Tail(q)) : (<<e>> \o Tail(q))[i].to \subseteq ls
  BY <1>1, <1>3, <1>4
<1> QED BY <1>2, <1>4, <1>5
-----------------------------------------------------------------------------
(* One step of an app with the library, whatever the app is: callbacks M   *)
(* of the first event on d's main queue (one, or none) are done, and the   *)
(* step registers a callback, writes, or does neither; or the library or   *)
(* the server does something.                                              *)
Taken(d, M, q) ==
    \/ M = {} /\ q = mainQ[d]
    \/ mainQ[d] # << >> /\ \E m \in Head(mainQ[d]).to : M = {m} /\ q = Popped(d, m)

AppStep(d, q) ==
    \/ \E kind \in Kinds, a \in Places : Observe(d, kind, a, q)
    \/ sub[d] # "off" /\ \E w \in Write : Put(d, w, q)
    \/ /\ mainQ' = [mainQ EXCEPT ![d] = q]
       /\ UNCHANGED <<server, cache, known, pend, inbox, sub, listeners>>

NetStep(d) ==
    \/ OnDataUpdate(d) \/ AckWrite(d) \/ ServerListen(d) \/ ServerAccept(d)
    \/ ServerRefuse(d) \/ RestoreState(d) \/ Terminate(d)

DBStep(d, M) == (\E q : Taken(d, M, q) /\ AppStep(d, q)) \/ (M = {} /\ NetStep(d))

(* What a step is to one device: a callback was registered, the copy was   *)
(* altered (or was not) and the concerned callbacks were told, or its      *)
(* process ended.                                                          *)
Opened(d, q) ==
    /\ \E l \in Listener :
           /\ l.n = Cardinality(listeners[d]) + 1
           /\ listeners'[d] = listeners[d] \cup {l}
           /\ mainQ'[d] = q \o Raised(IF Complete(known[d], pend[d], l) THEN {l} ELSE {}, View(d))
    /\ sub'[d] # "off"
    /\ known'[d] = known[d] /\ cache'[d] = cache[d] /\ pend'[d] = pend[d]

Altered(d, q) ==
    /\ listeners'[d] = listeners[d]
    /\ sub[d] # "off" => sub'[d] # "off"
    /\ known[d] => known'[d]
    /\ mainQ'[d] = q \o Raised(Concerned(listeners[d], known[d], cache[d], pend[d],
                                         known'[d], cache'[d], pend'[d]), View(d)')

Ended(d) ==
    /\ listeners'[d] = {} /\ mainQ'[d] = << >> /\ sub'[d] = "off"
    /\ pend'[d] = << >> /\ known'[d] = FALSE

LEMMA TakenType ==
    ASSUME DBTypeOK, NEW d \in Devices, NEW M, NEW q, Taken(d, M, q)
    PROVE  q \in Seq(Event)
<1>1. CASE q = mainQ[d]
  BY <1>1 DEF DBTypeOK
<1>2. CASE mainQ[d] # << >> /\ \E m \in Head(mainQ[d]).to : q = Popped(d, m)
  BY <1>2, PoppedType
<1> QED BY <1>1, <1>2 DEF Taken

\* nothing changed, so nobody is concerned
LEMMA NobodyConcerned ==
    ASSUME NEW ls, NEW kn, NEW c, NEW p, NEW q \in Seq(Event), NEW snap
    PROVE  q \o Raised(Concerned(ls, kn, c, p, kn, c, p), snap) = q
<1>1. Concerned(ls, kn, c, p, kn, c, p) = {}
  BY DEF Concerned
<1> QED BY <1>1 DEF Raised

LEMMA AppStepType ==
    ASSUME DBTypeOK, NEW d \in Devices, NEW q \in Seq(Event), AppStep(d, q)
    PROVE  DBTypeOK'
<1>1. ASSUME NEW kind \in Kinds, NEW a \in Places, Observe(d, kind, a, q) PROVE DBTypeOK'
  BY <1>1, ObserveType
<1>2. ASSUME NEW w \in Write, Put(d, w, q) PROVE DBTypeOK'
  BY <1>2, PutType
<1>3. CASE /\ mainQ' = [mainQ EXCEPT ![d] = q]
           /\ UNCHANGED <<server, cache, known, pend, inbox, sub, listeners>>
  BY <1>3 DEF DBTypeOK, Answered
<1> QED BY <1>1, <1>2, <1>3 DEF AppStep

(* Whatever an app does with the library, types are kept.                  *)
LEMMA StepType ==
    ASSUME DBTypeOK, NEW d \in Devices, NEW M, DBStep(d, M)
    PROVE  DBTypeOK'
<1>1. ASSUME NEW q, Taken(d, M, q), AppStep(d, q) PROVE DBTypeOK'
  BY <1>1, TakenType, AppStepType
<1>2. CASE NetStep(d)
  BY <1>2, OnDataUpdateType, AckWriteType, ServerListenType, ServerAcceptType, ServerRefuseType,
     RestoreStateType, TerminateType DEF NetStep
<1> QED BY <1>1, <1>2 DEF DBStep

\* a device no step concerns
LEMMA LeftAlone ==
    ASSUME DBTypeOK, NEW e \in Devices,
           mainQ'[e] = mainQ[e], known'[e] = known[e], cache'[e] = cache[e],
           pend'[e] = pend[e], listeners'[e] = listeners[e], sub[e] # "off" => sub'[e] # "off"
    PROVE  Altered(e, mainQ[e])
<1>1. mainQ[e] \in Seq(Event) /\ known[e] \in BOOLEAN
  BY DEF DBTypeOK
<1>2. known[e] => known'[e]
  BY <1>1
<1>3. Concerned(listeners[e], known[e], cache[e], pend[e], known'[e], cache'[e], pend'[e]) = {}
  BY DEF Concerned
<1>4. mainQ[e] = mainQ[e] \o Raised({}, View(e)')
  BY <1>1 DEF Raised
<1> QED BY <1>2, <1>3, <1>4 DEF Altered

LEMMA AppStepIsLocal ==
    ASSUME DBTypeOK, NEW d \in Devices, NEW q \in Seq(Event), AppStep(d, q)
    PROVE  /\ Opened(d, q) \/ Altered(d, q)
           /\ \A e \in Devices : e # d => Altered(e, mainQ[e])
<1>1. ASSUME NEW kind \in Kinds, NEW a \in Places, Observe(d, kind, a, q)
      PROVE  Opened(d, q)
  <2> DEFINE l == [kind |-> kind, at |-> a, n |-> Cardinality(listeners[d]) + 1]
  <2>1. l \in Listener /\ l.n = Cardinality(listeners[d]) + 1
    BY FS_CardinalityType DEF DBTypeOK, Listener
  <2>2. /\ listeners'[d] = listeners[d] \cup {l}
        /\ mainQ'[d] = q \o Raised(IF Complete(known[d], pend[d], l) THEN {l} ELSE {}, View(d))
        /\ sub'[d] # "off"
        /\ known'[d] = known[d] /\ cache'[d] = cache[d] /\ pend'[d] = pend[d]
    BY <1>1 DEF Observe, DBTypeOK
  <2> HIDE DEF l
  <2> QED BY <2>1, <2>2 DEF Opened
<1>2. ASSUME NEW w \in Write, Put(d, w, q)
      PROVE  Altered(d, q)
  <2>1. /\ listeners' = listeners /\ sub' = sub /\ known' = known /\ cache' = cache
        /\ pend'[d] = Append(pend[d], w)
        /\ mainQ'[d] = q \o Raised(Concerned(listeners[d], known[d], cache[d], pend[d],
                           known[d], cache[d], Append(pend[d], w)),
                                   Overlay(cache[d], Append(pend[d], w)))
    BY <1>2 DEF Put, DBTypeOK
  <2> QED BY <2>1 DEF Altered, View
<1>3. ASSUME mainQ' = [mainQ EXCEPT ![d] = q],
             UNCHANGED <<server, cache, known, pend, inbox, sub, listeners>>
      PROVE  Altered(d, q)
  <2>1. mainQ'[d] = q
    BY <1>3 DEF DBTypeOK
  <2> QED BY <1>3, <2>1, NobodyConcerned DEF Altered
<1>4. ASSUME NEW e \in Devices, e # d PROVE Altered(e, mainQ[e])
  <2>1. /\ mainQ'[e] = mainQ[e] /\ known'[e] = known[e] /\ cache'[e] = cache[e]
        /\ pend'[e] = pend[e] /\ listeners'[e] = listeners[e] /\ sub'[e] = sub[e]
    BY <1>4 DEF AppStep, Observe, Put, DBTypeOK
  <2> QED BY <2>1, LeftAlone
<1> QED BY <1>1, <1>2, <1>3, <1>4 DEF AppStep

LEMMA NetStepIsLocal ==
    ASSUME DBTypeOK, NEW d \in Devices, NetStep(d), NEW e \in Devices
    PROVE  Altered(e, mainQ[e]) \/ (e = d /\ Ended(e))
<1>2. CASE e # d
  <2>1. /\ mainQ'[e] = mainQ[e] /\ known'[e] = known[e] /\ cache'[e] = cache[e]
        /\ pend'[e] = pend[e] /\ listeners'[e] = listeners[e] /\ sub'[e] = sub[e]
    BY <1>2 DEF NetStep, OnDataUpdate, AckWrite, ServerListen, ServerAccept, ServerRefuse,
                RestoreState, Terminate, DBTypeOK
  <2> QED BY <2>1, LeftAlone
<1>3. CASE e = d /\ OnDataUpdate(d)
  <2>1. /\ listeners' = listeners /\ sub' = sub /\ known'[d] = TRUE /\ pend' = pend
        /\ cache'[d] = Head(inbox[d]).val
        /\ mainQ'[d] = mainQ[d] \o Raised(Concerned(listeners[d], known[d], cache[d], pend[d],
                           TRUE, Head(inbox[d]).val, pend[d]), Overlay(Head(inbox[d]).val, pend[d]))
    BY <1>3 DEF OnDataUpdate, DBTypeOK
  <2> QED BY <1>3, <2>1 DEF Altered, View
<1>4. CASE e = d /\ AckWrite(d)
  <2>1. /\ listeners' = listeners /\ sub' = sub /\ known' = known /\ cache' = cache
        /\ pend'[d] = Tail(pend[d])
        /\ mainQ'[d] = mainQ[d] \o Raised(Concerned(listeners[d], known[d], cache[d], pend[d],
                           known[d], cache[d], Tail(pend[d])), Overlay(cache[d], Tail(pend[d])))
    BY <1>4 DEF AckWrite, WithoutOldest, DBTypeOK
  <2> QED BY <1>4, <2>1 DEF Altered, View
<1>5. CASE e = d /\ (ServerListen(d) \/ ServerAccept(d) \/ ServerRefuse(d) \/ RestoreState(d))
  <2>1. /\ mainQ' = mainQ /\ known' = known /\ cache' = cache
        /\ pend' = pend /\ listeners' = listeners /\ (sub[e] # "off" => sub'[e] # "off")
    BY <1>5 DEF ServerListen, ServerAccept, ServerRefuse, RestoreState, DBTypeOK
  <2> QED BY <2>1, LeftAlone
<1>6. CASE e = d /\ Terminate(d)
  BY <1>6 DEF Terminate, Ended, DBTypeOK
<1> QED BY <1>2, <1>3, <1>4, <1>5, <1>6 DEF NetStep

(* The three kinds of steps, on every device.                              *)
LEMMA StepIsLocal ==
    ASSUME DBTypeOK, NEW d \in Devices, NEW M, DBStep(d, M), NEW e \in Devices
    PROVE  \/ \E q \in Seq(Event) : /\ Taken(e, IF e = d THEN M ELSE {}, q)
                                    /\ Opened(e, q) \/ Altered(e, q)
           \/ e = d /\ M = {} /\ Ended(e)
<1>0. mainQ[e] \in Seq(Event) /\ Taken(e, {}, mainQ[e])
  BY DEF DBTypeOK, Taken
<1>1. ASSUME NEW q, Taken(d, M, q), AppStep(d, q)
      PROVE  \E q2 \in Seq(Event) : /\ Taken(e, IF e = d THEN M ELSE {}, q2)
                                    /\ Opened(e, q2) \/ Altered(e, q2)
  <2>1. q \in Seq(Event)
    BY <1>1, TakenType
  <2>2. CASE e = d
    BY <1>1, <2>1, <2>2, AppStepIsLocal
  <2>3. CASE e # d
    BY <1>0, <1>1, <2>1, <2>3, AppStepIsLocal
  <2> QED BY <2>2, <2>3
<1>2. CASE M = {} /\ NetStep(d)
  BY <1>0, <1>2, NetStepIsLocal
<1> QED BY <1>1, <1>2 DEF DBStep

LEMMA StepWired ==
    ASSUME DBTypeOK, NEW d \in Devices, NEW M, DBStep(d, M), NEW e \in Devices, Wired(e)
    PROVE  Wired(e)'
<1>0. /\ listeners[e] \in SUBSET Listener /\ IsFiniteSet(listeners[e])
      /\ Cardinality(listeners[e]) \in Nat /\ View(e) \in Tree /\ View(e)' \in Tree
  BY StepType, OverlayType, FS_CardinalityType DEF DBTypeOK, View
<1>1. ASSUME NEW M2, NEW q, Taken(e, M2, q)
      PROVE  \A i \in 1..Len(q) : q[i].to \subseteq listeners[e]
  <2>1. CASE q = mainQ[e]
    BY <2>1 DEF Wired
  <2>2. ASSUME mainQ[e] # << >>, NEW m \in Head(mainQ[e]).to, q = Popped(e, m)
        PROVE  \A i \in 1..Len(q) : q[i].to \subseteq listeners[e]
    BY <2>2, PoppedToRegistered DEF Wired
  <2> QED BY <1>1, <2>1, <2>2 DEF Taken
<1>2. ASSUME NEW q \in Seq(Event), Opened(e, q),
             \A i \in 1..Len(q) : q[i].to \subseteq listeners[e]
      PROVE  Wired(e)'
  <2> DEFINE n == Cardinality(listeners[e])
  <2>1. PICK l \in Listener :
            /\ l.n = n + 1 /\ listeners'[e] = listeners[e] \cup {l}
            /\ mainQ'[e] = q \o Raised(IF Complete(known[e], pend[e], l) THEN {l} ELSE {}, View(e))
    BY <1>2 DEF Opened
  <2>2. l \notin listeners[e]
    BY <1>0, <2>1 DEF Wired
  <2>3. Cardinality(listeners'[e]) = n + 1
    BY <1>0, <2>1, <2>2, FS_AddElement
  <2> DEFINE to == IF Complete(known[e], pend[e], l) THEN {l} ELSE {}
  <2>4. to \in SUBSET Listener /\ to \subseteq listeners'[e]
    BY <2>1
  <2>5. \A i \in 1..Len(q) : q[i].to \subseteq listeners'[e]
    BY <1>2, <2>1
  <2>6. \A i \in 1..Len(mainQ'[e]) : mainQ'[e][i].to \subseteq listeners'[e]
    <3>1. mainQ'[e] = q \o Raised(to, View(e))
      BY <2>1
    <3> HIDE DEF to
    <3> QED BY <1>0, <2>4, <2>5, <3>1, RaisedToRegistered
  <2>7. \A m \in listeners'[e] : m.n \in 1..(n + 1)
    BY <1>0, <2>1 DEF Wired
  <2>8. \A m, k \in listeners'[e] : m.n = k.n => m = k
    <3>1. \A m \in listeners[e] : m.n # n + 1
      BY <1>0 DEF Wired
    <3> HIDE DEF n
    <3> QED BY <2>1, <3>1 DEF Wired
  <2>9. sub'[e] # "off"
    BY <1>2 DEF Opened
  <2> HIDE DEF n, to
  <2> QED BY <2>3, <2>6, <2>7, <2>8, <2>9 DEF Wired
<1>3. ASSUME NEW q \in Seq(Event), Altered(e, q),
             \A i \in 1..Len(q) : q[i].to \subseteq listeners[e]
      PROVE  Wired(e)'
  <2> DEFINE to == Concerned(listeners[e], known[e], cache[e], pend[e],
                             known'[e], cache'[e], pend'[e])
  <2>1. to \in SUBSET Listener /\ to \subseteq listeners[e]
    BY <1>0 DEF Concerned
  <2>2. /\ listeners'[e] = listeners[e] /\ mainQ'[e] = q \o Raised(to, View(e)')
        /\ sub[e] # "off" => sub'[e] # "off"
    BY <1>3 DEF Altered
  <2> HIDE DEF to
  <2>3. \A i \in 1..Len(mainQ'[e]) : mainQ'[e][i].to \subseteq listeners'[e]
    BY <1>0, <1>3, <2>1, <2>2, RaisedToRegistered
  <2> QED BY <2>2, <2>3 DEF Wired
<1>4. CASE Ended(e)
  BY <1>4 DEF Ended, Wired
<1> QED BY <1>1, <1>2, <1>3, <1>4, StepIsLocal

(* No lost update: a listener that was, or was going to be, shown the view *)
(* of its place as it is before a step is so after it.                     *)
LEMMA StepUpToDate ==
    ASSUME DBTypeOK, NEW d \in Devices, NEW M, DBStep(d, M), NEW e \in Devices,
           NEW s, UpToDate(listeners[e], known[e], cache[e], pend[e], mainQ[e], s),
           NEW s2, (e # d \/ M = {}) => s2 = s,
           e = d => \A m \in M : s2 = Remember(s, m, At(Head(mainQ[d]).snap, m.at))
    PROVE  UpToDate(listeners[e], known[e], cache[e], pend[e], mainQ[e], s2)'
<1>0. listeners[e] \in SUBSET Listener /\ View(e) \in Tree /\ View(e)' \in Tree
  BY StepType, OverlayType DEF DBTypeOK, View
<1> DEFINE M2 == IF e = d THEN M ELSE {}
<1>1. ASSUME NEW q, Taken(e, M2, q)
      PROVE  UpToDate(listeners[e], known[e], cache[e], pend[e], q, s2)
  <2>1. CASE M2 = {} /\ q = mainQ[e]
    BY <2>1
  <2>2. ASSUME mainQ[e] # << >>, NEW m \in Head(mainQ[e]).to, M2 = {m}, q = Popped(e, m)
        PROVE  UpToDate(listeners[e], known[e], cache[e], pend[e], q, s2)
    <3>1. e = d /\ s2 = Remember(s, m, At(Head(mainQ[e]).snap, m.at))
      BY <2>2
    <3>2. \A l : HasShown(mainQ[e], s, l) =>
                 HasShown(q, s2, l) /\ LastShown(q, s2, l) = LastShown(mainQ[e], s, l)
      BY <2>2, <3>1, PoppedShown
    <3> QED BY <3>2 DEF UpToDate
  <2> QED BY <1>1, <2>1, <2>2 DEF Taken
<1>2. ASSUME NEW q \in Seq(Event), Opened(e, q),
             UpToDate(listeners[e], known[e], cache[e], pend[e], q, s2)
      PROVE  UpToDate(listeners[e], known[e], cache[e], pend[e], mainQ[e], s2)'
  <2>1. PICK x \in Listener :
            /\ listeners'[e] = listeners[e] \cup {x}
            /\ mainQ'[e] = q \o Raised(IF Complete(known[e], pend[e], x) THEN {x} ELSE {}, View(e))
            /\ known'[e] = known[e] /\ cache'[e] = cache[e] /\ pend'[e] = pend[e]
    BY <1>2 DEF Opened
  <2> DEFINE to == IF Complete(known[e], pend[e], x) THEN {x} ELSE {}
             q2 == q \o Raised(to, View(e))
  <2>2. to \in SUBSET Listener
    OBVIOUS
  <2>3. ASSUME NEW l \in listeners[e] \cup {x}, Complete(known[e], pend[e], l)
        PROVE  HasShown(q2, s2, l) /\ LastShown(q2, s2, l) = At(View(e), l.at)
    <3>1. CASE l \in to
      <4> HIDE DEF to
      <4> QED BY <1>0, <2>2, <3>1, RaisedShown
    <3>2. CASE l \notin to
      <4>1. l \in listeners[e]
        BY <2>3, <3>2
      <4>2. HasShown(q, s2, l) /\ LastShown(q, s2, l) = At(View(e), l.at)
        BY <1>2, <2>3, <4>1 DEF UpToDate, View
      <4> HIDE DEF to
      <4> QED BY <1>0, <2>2, <3>2, <4>2, RaisedShown
    <3> QED BY <3>1, <3>2
  <2>4. mainQ'[e] = q2
    BY <2>1
  <2> HIDE DEF to, q2
  <2> QED BY <2>1, <2>3, <2>4 DEF UpToDate, View
<1>3. ASSUME NEW q \in Seq(Event), Altered(e, q),
             UpToDate(listeners[e], known[e], cache[e], pend[e], q, s2)
      PROVE  UpToDate(listeners[e], known[e], cache[e], pend[e], mainQ[e], s2)'
  <2>1. Overlay(cache'[e], pend'[e]) \in Tree /\ View(e)' = Overlay(cache'[e], pend'[e])
    BY <1>0 DEF View
  <2>2. UpToDate(listeners[e], known'[e], cache'[e], pend'[e],
            q \o Raised(Concerned(listeners[e], known[e], cache[e], pend[e],
                                  known'[e], cache'[e], pend'[e]),
                        Overlay(cache'[e], pend'[e])), s2)
    BY <1>0, <1>3, <2>1, ChangeKeepsUpToDate
  <2> QED BY <1>3, <2>1, <2>2 DEF Altered
<1>4. CASE Ended(e)
  BY <1>4 DEF Ended, UpToDate
<1> HIDE DEF M2
<1>5. \/ \E q \in Seq(Event) : Taken(e, M2, q) /\ (Opened(e, q) \/ Altered(e, q))
      \/ e = d /\ M = {} /\ Ended(e)
  BY StepIsLocal DEF M2
<1> QED BY <1>1, <1>2, <1>3, <1>4, <1>5

(* A device that listens is in step with the server up to what is on its   *)
(* way, because the connection delivers in order.                          *)
LEMMA StepInSync ==
    ASSUME DBTypeOK, InSync, NEW d \in Devices, NEW M, DBStep(d, M)
    PROVE  InSync'
<1> SUFFICES ASSUME NEW e \in Devices, sub'[e] = "on"
             PROVE  LastData(inbox'[e], cache'[e]) = server'
  BY DEF InSync
<1>0. inbox[e] \in Seq(Message) /\ server \in Tree
  BY DEF DBTypeOK
<1>1. ASSUME NEW q, AppStep(d, q)
      PROVE  LastData(inbox'[e], cache'[e]) = server'
  <2>1. UNCHANGED <<inbox, cache, server>>
    BY <1>1 DEF AppStep, Observe, Put
  <2>2. sub[e] = "on"
    BY <1>1 DEF AppStep, Observe, Put, DBTypeOK
  <2> QED BY <2>1, <2>2 DEF InSync
<1>2. ASSUME OnDataUpdate(d) \/ AckWrite(d)
      PROVE  LastData(inbox'[e], cache'[e]) = server'
  <2>1. /\ inbox[d] # << >> /\ Head(inbox[d]).t \in {"data", "ack"}
        /\ inbox' = [inbox EXCEPT ![d] = Tail(@)]
        /\ cache' = [cache EXCEPT ![d] =
               IF Head(inbox[d]).t = "data" THEN Head(inbox[d]).val ELSE @]
        /\ UNCHANGED <<sub, server>>
    BY <1>2 DEF OnDataUpdate, AckWrite, DBTypeOK
  <2>2. LastData(inbox[e], cache[e]) = server
    BY <2>1 DEF InSync
  <2>3. CASE e = d
    <3> DEFINE c2 == IF Head(inbox[d]).t = "data" THEN Head(inbox[d]).val ELSE cache[d]
    <3>1. inbox'[e] = Tail(inbox[e]) /\ cache'[e] = c2
      BY <2>1, <2>3 DEF DBTypeOK
    <3>2. LastData(inbox[e], cache[e]) = LastData(Tail(inbox[e]), c2)
      BY <1>0, <2>1, <2>3, TailData
    <3> QED BY <2>1, <2>2, <3>1, <3>2
  <2>4. CASE e # d
    BY <2>1, <2>2, <2>4
  <2> QED BY <2>3, <2>4
<1>3. ASSUME ServerListen(d)
      PROVE  LastData(inbox'[e], cache'[e]) = server'
  <2>1. /\ inbox' = [inbox EXCEPT ![d] = Append(@, Data(server))]
        /\ sub' = [sub EXCEPT ![d] = "on"] /\ UNCHANGED <<cache, server>>
    BY <1>3 DEF ServerListen
  <2>2. Data(server) \in Message /\ Data(server).t = "data" /\ Data(server).val = server
    BY <1>0 DEF Data, Message
  <2>3. CASE e = d
    <3>1. inbox'[e] = Append(inbox[e], Data(server))
      BY <2>1, <2>3 DEF DBTypeOK
    <3> QED BY <1>0, <2>1, <2>2, <3>1, AppendData
  <2>4. CASE e # d
    BY <2>1, <2>4 DEF InSync
  <2> QED BY <2>3, <2>4
<1>4. ASSUME ServerAccept(d)
      PROVE  LastData(inbox'[e], cache'[e]) = server'
  <2> DEFINE ack == Ack(TRUE)
             b1 == IF server' # server THEN Append(inbox[e], Data(server')) ELSE inbox[e]
  <2>1. /\ PutWaits(d) /\ server' = Merge(server, NextPut(d)) /\ UNCHANGED <<sub, cache>>
        /\ inbox'[e] = inbox[e]
                 \o (IF sub[e] = "on" /\ server' # server THEN <<Data(server')>> ELSE << >>)
                 \o (IF e = d THEN <<ack>> ELSE << >>)
    BY <1>4 DEF ServerAccept
  <2>2. server' \in Tree
    BY <2>1, <1>0, NextPutType, MergeType
  <2>3. /\ Data(server') \in Message /\ Data(server').t = "data" /\ Data(server').val = server'
        /\ ack \in Message /\ ack.t = "ack"
    BY <2>2 DEF Data, Ack, Message
  <2> HIDE DEF ack
  <2>4. sub[e] = "on" /\ LastData(inbox[e], cache[e]) = server
    BY <2>1 DEF InSync
  <2>5. b1 \in Seq(Message) /\ LastData(b1, cache[e]) = server'
    <3>1. Append(inbox[e], Data(server')) \in Seq(Message)
      BY <1>0, <2>3, ConcatOne
    <3>2. LastData(Append(inbox[e], Data(server')), cache[e]) = server'
      BY <1>0, <2>3, AppendData
    <3> QED BY <1>0, <2>4, <3>1, <3>2
  <2>6. inbox'[e] = b1 \o (IF e = d THEN <<ack>> ELSE << >>)
    <3>1. inbox[e] \o (IF sub[e] = "on" /\ server' # server THEN <<Data(server')>> ELSE << >>) = b1
      BY <1>0, <2>3, <2>4, ConcatOne
    <3> QED BY <2>1, <3>1
  <2> HIDE DEF b1
  <2>7. CASE e = d
    <3>1. inbox'[e] = Append(b1, ack)
      BY <2>3, <2>5, <2>6, <2>7, ConcatOne
    <3>2. LastData(Append(b1, ack), cache[e]) = LastData(b1, cache[e])
      BY <2>3, <2>5, AppendData
    <3> QED BY <2>1, <2>5, <3>1, <3>2
  <2>8. CASE e # d
    <3>1. inbox'[e] = b1
      BY <2>5, <2>6, <2>8
    <3> QED BY <2>1, <2>5, <3>1
  <2> QED BY <2>7, <2>8
<1>5. ASSUME ServerRefuse(d)
      PROVE  LastData(inbox'[e], cache'[e]) = server'
  <2> DEFINE ack == Ack(FALSE)
  <2>1. /\ inbox' = [inbox EXCEPT ![d] = Append(@, ack)] /\ UNCHANGED <<sub, cache, server>>
    BY <1>5 DEF ServerRefuse
  <2>2. ack \in Message /\ ack.t = "ack"
    BY DEF Ack, Message
  <2> HIDE DEF ack
  <2>3. LastData(Append(inbox[e], ack), cache[e]) = LastData(inbox[e], cache[e])
    BY <1>0, <2>2, AppendData
  <2>4. inbox'[e] = inbox[e] \/ inbox'[e] = Append(inbox[e], ack)
    BY <2>1 DEF DBTypeOK
  <2> QED BY <2>1, <2>3, <2>4 DEF InSync
<1>6. ASSUME RestoreState(d) \/ Terminate(d)
      PROVE  LastData(inbox'[e], cache'[e]) = server'
  <2>1. e # d
    BY <1>6 DEF RestoreState, Terminate, DBTypeOK
  <2>2. inbox'[e] = inbox[e] /\ cache'[e] = cache[e] /\ sub'[e] = sub[e] /\ server' = server
    BY <1>6, <2>1 DEF RestoreState, Terminate, DBTypeOK
  <2> QED BY <2>2 DEF InSync
<1> QED BY <1>1, <1>2, <1>3, <1>4, <1>5, <1>6 DEF DBStep, NetStep

(* No answer is processed before a value was: a device listens before it   *)
(* writes, and the server answers both in the order it received them.      *)
LEMMA StepListensFirst ==
    ASSUME DBTypeOK, ListensFirst, NEW d \in Devices, NEW M, DBStep(d, M)
    PROVE  ListensFirst'
<1> SUFFICES ASSUME NEW e \in Devices
             PROVE  /\ sub'[e] = "on" => Introduced(inbox'[e], known'[e])
                    /\ sub'[e] # "on" => inbox'[e] = << >>
                    /\ sub'[e] = "off" => pend'[e] = << >>
  BY DEF ListensFirst
<1> DEFINE Goal == /\ sub'[e] = "on" => Introduced(inbox'[e], known'[e])
                   /\ sub'[e] # "on" => inbox'[e] = << >>
                   /\ sub'[e] = "off" => pend'[e] = << >>
<1>0. /\ inbox[e] \in Seq(Message) /\ server \in Tree /\ known[e] \in BOOLEAN
      /\ sub[e] = "on" => Introduced(inbox[e], known[e])
      /\ sub[e] # "on" => inbox[e] = << >>
      /\ sub[e] = "off" => pend[e] = << >>
      /\ sub \in [Devices -> {"off", "asked", "on"}]
      /\ pend \in [Devices -> Seq(Write)]
      /\ inbox \in [Devices -> Seq(Message)] /\ known \in [Devices -> BOOLEAN]
  BY DEF ListensFirst, DBTypeOK
<1>1. ASSUME NEW q, NEW kind \in Kinds, NEW a \in Places, Observe(d, kind, a, q) PROVE Goal
  <2>1. UNCHANGED <<inbox, known, pend>>
    BY <1>1 DEF Observe
  <2>2. sub'[e] = sub[e] \/ (sub[e] = "off" /\ sub'[e] = "asked")
    BY <1>0, <1>1 DEF Observe
  <2> QED BY <1>0, <2>1, <2>2
<1>2. ASSUME NEW q, NEW w \in Write, Put(d, w, q), sub[d] # "off" PROVE Goal
  <2>1. UNCHANGED <<inbox, known, sub>>
    BY <1>2 DEF Put
  <2>2. e # d => pend'[e] = pend[e]
    BY <1>0, <1>2 DEF Put
  <2> QED BY <1>0, <1>2, <2>1, <2>2
<1>3. ASSUME UNCHANGED <<server, cache, known, pend, inbox, sub, listeners>> PROVE Goal
  BY <1>0, <1>3
<1>4. ASSUME OnDataUpdate(d) \/ AckWrite(d) PROVE Goal
  <2>1. /\ inbox[d] # << >> /\ Head(inbox[d]).t \in {"data", "ack"}
        /\ inbox' = [inbox EXCEPT ![d] = Tail(@)] /\ sub' = sub
    BY <1>4 DEF OnDataUpdate, AckWrite
  <2>2. CASE e = d
    <3>1. sub[d] = "on"
      BY <1>0, <2>1, <2>2
    <3>2. known'[d] = TRUE
      <4>1. CASE Head(inbox[d]).t = "data"
        BY <1>0, <1>4, <4>1 DEF OnDataUpdate, AckWrite
      <4>2. CASE Head(inbox[d]).t = "ack"
        <5>1. known' = known
          BY <1>4, <4>2 DEF OnDataUpdate, AckWrite
        <5>2. known[d]
          BY <1>0, <2>2, <3>1, <4>2 DEF Introduced
        <5> QED BY <1>0, <2>2, <5>1, <5>2
      <4> QED BY <2>1, <4>1, <4>2
    <3> QED BY <2>1, <2>2, <3>1, <3>2 DEF Introduced
  <2>3. CASE e # d
    <3>1. inbox'[e] = inbox[e] /\ known'[e] = known[e] /\ pend'[e] = pend[e]
      BY <1>0, <1>4, <2>3 DEF OnDataUpdate, AckWrite
    <3> QED BY <1>0, <2>1, <3>1
  <2> QED BY <2>2, <2>3
<1>5. ASSUME ServerListen(d) PROVE Goal
  <2>1. /\ inbox' = [inbox EXCEPT ![d] = Append(@, Data(server))] /\ sub[d] = "asked"
        /\ sub' = [sub EXCEPT ![d] = "on"] /\ UNCHANGED <<known, pend>>
    BY <1>5 DEF ServerListen
  <2>2. CASE e = d
    <3>1. inbox[e] = << >> /\ inbox'[e] = Append(inbox[e], Data(server))
      BY <1>0, <2>1, <2>2
    <3>2. inbox'[e] # << >> /\ Head(inbox'[e]) = Data(server) /\ Data(server).t = "data"
      BY <3>1 DEF Data
    <3> QED BY <1>0, <2>1, <2>2, <3>2 DEF Introduced
  <2>3. CASE e # d
    BY <1>0, <2>1, <2>3
  <2> QED BY <2>2, <2>3
<1>6. ASSUME ServerAccept(d) PROVE Goal
  <2> DEFINE ack == Ack(TRUE)
             b1 == IF sub[e] = "on" /\ server' # server
                   THEN Append(inbox[e], Data(server')) ELSE inbox[e]
  <2>1. /\ PutWaits(d) /\ server' = Merge(server, NextPut(d))
        /\ UNCHANGED <<sub, known, pend>>
        /\ inbox'[e] = inbox[e]
                 \o (IF sub[e] = "on" /\ server' # server THEN <<Data(server')>> ELSE << >>)
                 \o (IF e = d THEN <<ack>> ELSE << >>)
    BY <1>6 DEF ServerAccept
  <2>2. server' \in Tree
    BY <2>1, <1>0, NextPutType, MergeType
  <2>3. Data(server') \in Message /\ ack \in Message
    BY <2>2 DEF Data, Ack, Message
  <2> HIDE DEF ack
  <2>4. /\ b1 \in Seq(Message)
        /\ sub[e] = "on" => Introduced(b1, known[e])
        /\ sub[e] # "on" => b1 = << >>
    <3>1. Append(inbox[e], Data(server')) \in Seq(Message)
      BY <1>0, <2>3, ConcatOne
    <3>2. sub[e] = "on" => Introduced(Append(inbox[e], Data(server')), known[e])
      BY <1>0, <2>3, IntroducedLater
    <3> QED BY <1>0, <3>1, <3>2
  <2>5. inbox'[e] = b1 \o (IF e = d THEN <<ack>> ELSE << >>)
    <3>1. inbox[e] \o (IF sub[e] = "on" /\ server' # server
                       THEN <<Data(server')>> ELSE << >>) = b1
      BY <1>0, <2>3, ConcatOne
    <3> QED BY <2>1, <3>1
  <2> HIDE DEF b1
  <2>6. CASE e = d
    <3>1. sub[e] = "on"
      BY <2>1, <2>6, OnlyListenersAreServed
    <3>2. inbox'[e] = Append(b1, ack)
      BY <2>3, <2>4, <2>5, <2>6, ConcatOne
    <3>3. Introduced(Append(b1, ack), known[e])
      BY <1>0, <2>3, <2>4, <3>1, IntroducedLater
    <3> QED BY <2>1, <3>1, <3>2, <3>3
  <2>7. CASE e # d
    <3>1. inbox'[e] = b1
      BY <2>4, <2>5, <2>7
    <3> QED BY <1>0, <2>1, <2>4, <3>1
  <2> QED BY <2>6, <2>7
<1>7. ASSUME ServerRefuse(d) PROVE Goal
  <2> DEFINE ack == Ack(FALSE)
  <2>1. /\ inbox' = [inbox EXCEPT ![d] = Append(@, ack)] /\ PutWaits(d)
        /\ UNCHANGED <<sub, known, pend>>
    BY <1>7 DEF ServerRefuse
  <2>2. ack \in Message
    BY DEF Ack, Message
  <2> HIDE DEF ack
  <2>3. sub[e] = "on" => Introduced(Append(inbox[e], ack), known[e])
    BY <1>0, <2>2, IntroducedLater
  <2>4. CASE e = d
    <3>1. sub[e] = "on" /\ inbox'[e] = Append(inbox[e], ack)
      BY <1>0, <2>1, <2>4, OnlyListenersAreServed
    <3> QED BY <2>1, <2>3, <3>1
  <2>5. CASE e # d
    BY <1>0, <2>1, <2>5
  <2> QED BY <2>4, <2>5
<1>8. ASSUME RestoreState(d) PROVE Goal
  <2>1. /\ inbox' = [inbox EXCEPT ![d] = << >>] /\ UNCHANGED <<known, pend>>
        /\ sub' = [sub EXCEPT ![d] = IF @ = "on" THEN "asked" ELSE @]
    BY <1>8 DEF RestoreState
  <2> QED BY <1>0, <2>1
<1>9. ASSUME Terminate(d) PROVE Goal
  <2>1. /\ inbox' = [inbox EXCEPT ![d] = << >>] /\ pend' = [pend EXCEPT ![d] = << >>]
        /\ sub' = [sub EXCEPT ![d] = "off"] /\ known' = [known EXCEPT ![d] = FALSE]
    BY <1>9 DEF Terminate
  <2> QED BY <1>0, <2>1
<1> QED BY <1>1, <1>2, <1>3, <1>4, <1>5, <1>6, <1>7, <1>8, <1>9 DEF DBStep, AppStep, NetStep

(* A device that listens, with nothing on its way to it and no write of    *)
(* its own unacknowledged, sees exactly what the server holds.             *)
LEMMA IdleViewIsServer ==
    ASSUME DBTypeOK, InSync, NEW d \in Devices,
           sub[d] = "on", inbox[d] = << >>, pend[d] = << >>
    PROVE  View(d) = server
<1>1. cache[d] = server
  <2>1. DataIn(inbox[d]) = {}
    BY DEF DataIn
  <2> QED BY <2>1 DEF InSync, LastData
<1>2. \A k \in Keys : Covering(pend[d], k) = {}
  BY DEF Covering
<1>3. View(d) = [k \in Keys |-> cache[d][k]]
  BY <1>2 DEF View, Overlay
<1> QED BY <1>1, <1>3 DEF DBTypeOK, Tree

(* What a callback that has nothing coming was shown last.  s: what it was *)
(* given, or the view if it is the newest event that shows the view.       *)
Told(d) == [l \in {l \in listeners[d] : Complete(known[d], pend[d], l)
                                        /\ EventsFor(mainQ[d], l) = {}} |-> At(View(d), l.at)]

LEMMA CurrentIsUpToDate ==
    ASSUME NEW d \in Devices, Current(d)
    PROVE  UpToDate(listeners[d], known[d], cache[d], pend[d], mainQ[d], Told(d))
  BY DEF Current, UpToDate, Told, HasShown, LastShown, View

LEMMA UpToDateIsCurrent ==
    ASSUME NEW d \in Devices, NEW s,
           UpToDate(listeners[d], known[d], cache[d], pend[d], mainQ[d], s)
    PROVE  /\ Current(d)
           /\ \A l \in listeners[d] :
                  Complete(known[d], pend[d], l) /\ EventsFor(mainQ[d], l) = {} =>
                      l \in DOMAIN s /\ s[l] = At(View(d), l.at)
  BY DEF Current, UpToDate, HasShown, LastShown, View
-----------------------------------------------------------------------------
(* A location that no write empties: children are added, never removed, so *)
(* the values on their way to a device grow, from what it has to what the  *)
(* server holds, and an answer comes after a value with what it accepts.   *)
(* U: children that one write alone ever fills; if the server has one, the *)
(* answer to its write comes after it, though the write was sent again and *)
(* is refused now.                                                         *)
Filled(v) == {k \in Keys : v[k] # Nil}

Filling(w) == \A k \in DOMAIN w : w[k] # Nil

\* the write that the message i answers is the one with this number
AnswerNo(box, i) == Cardinality(Answers(SubSeq(box, 1, i)))

Reached(box, c, i, k) ==
    k \in Filled(c) \/ \E j \in DataIn(box) : j < i /\ k \in Filled(box[j].val)

Growing(box, c, p, sv, U) ==
    /\ Filled(c) \subseteq Filled(sv)
    /\ \A j \in DataIn(box) : /\ Filled(c) \subseteq Filled(box[j].val)
                              /\ Filled(box[j].val) \subseteq Filled(sv)
    /\ \A i, j \in DataIn(box) : i < j => Filled(box[i].val) \subseteq Filled(box[j].val)
    /\ \A i \in Answers(box) : \A k \in DOMAIN p[AnswerNo(box, i)] :
           box[i].ok \/ k \in U \cap Filled(sv) => Reached(box, c, i, k)

Grows(d, U) == Growing(inbox[d], cache[d], pend[d], server, U)

Once(U) == \A d, e \in Devices : \A i \in 1..Len(pend[d]), j \in 1..Len(pend[e]) :
    DOMAIN pend[d][i] \cap DOMAIN pend[e][j] \cap U # {} => d = e /\ i = j

LEMMA AnswerNoType ==
    ASSUME NEW box \in Seq(Message), NEW i \in Answers(box)
    PROVE  AnswerNo(box, i) \in 1..Cardinality(Answers(box))
<1> DEFINE s == SubSeq(box, 1, i)
<1>1. i \in 1..Len(box) /\ box[i].t = "ack"
  BY DEF Answers
<1>2. s \in Seq(Message) /\ Len(s) = i /\ \A j \in 1..i : s[j] = box[j]
  BY <1>1
<1>3. Answers(s) \subseteq Answers(box) /\ i \in Answers(s)
  BY <1>1, <1>2 DEF Answers
<1>4. IsFiniteSet(Answers(s)) /\ Cardinality(Answers(s)) \in Nat
  BY <1>2, AnswersFinite
<1>5. IsFiniteSet(Answers(box)) /\ Cardinality(Answers(box)) \in Nat
  BY AnswersFinite
<1>6. Cardinality(Answers(s)) <= Cardinality(Answers(box))
  BY <1>3, <1>5, FS_Subset
<1>7. Cardinality(Answers(s)) # 0
  BY <1>3, <1>4, FS_EmptySet
<1> HIDE DEF s
<1> QED BY <1>4, <1>5, <1>6, <1>7 DEF AnswerNo, s

LEMMA AnswerNoAppend ==
    ASSUME NEW box \in Seq(Message), NEW m \in Message
    PROVE  /\ \A i \in Answers(box) : AnswerNo(Append(box, m), i) = AnswerNo(box, i)
           /\ m.t = "ack" => AnswerNo(Append(box, m), Len(box) + 1) = Cardinality(Answers(box)) + 1
<1> DEFINE b2 == Append(box, m)
<1>1. ASSUME NEW i \in Answers(box) PROVE SubSeq(b2, 1, i) = SubSeq(box, 1, i)
  <2>1. i \in 1..Len(box)
    BY DEF Answers
  <2> QED BY <2>1
<1>2. SubSeq(b2, 1, Len(box) + 1) = b2
  OBVIOUS
<1>3. m.t = "ack" => Cardinality(Answers(b2)) = Cardinality(Answers(box)) + 1
  BY AnswersAppend
<1> HIDE DEF b2
<1> QED BY <1>1, <1>2, <1>3 DEF AnswerNo, b2

LEMMA AnswerNoTail ==
    ASSUME NEW box \in Seq(Message), box # << >>, NEW i \in Answers(Tail(box))
    PROVE  /\ i + 1 \in Answers(box)
           /\ AnswerNo(box, i + 1) =
                  AnswerNo(Tail(box), i) + (IF Head(box).t = "ack" THEN 1 ELSE 0)
<1> DEFINE s == SubSeq(box, 1, i + 1)
<1>1. i \in 1..(Len(box) - 1) /\ Len(Tail(box)) = Len(box) - 1 /\ Tail(box)[i] = box[i + 1]
  BY DEF Answers
<1>2. i + 1 \in Answers(box)
  BY <1>1 DEF Answers
<1>3. s \in Seq(Message) /\ s # << >> /\ Head(s) = Head(box) /\ Len(s) = i + 1
  BY <1>1
<1>4. Tail(s) = SubSeq(Tail(box), 1, i)
  BY <1>1
<1>5. Cardinality(Answers(s)) = Cardinality(Answers(Tail(s))) + (IF Head(s).t = "ack" THEN 1 ELSE 0)
  BY <1>3, AnswersTail
<1> HIDE DEF s
<1> QED BY <1>2, <1>3, <1>4, <1>5 DEF AnswerNo, s

\* the messages of a longer queue
LEMMA AppendedMessages ==
    ASSUME NEW box \in Seq(Message), NEW m \in Message
    PROVE  LET b2 == Append(box, m)
               n == Len(box) + 1
           IN  /\ m.t = "data" => DataIn(b2) = DataIn(box) \cup {n} /\ Answers(b2) = Answers(box)
               /\ m.t = "ack" => DataIn(b2) = DataIn(box) /\ Answers(b2) = Answers(box) \cup {n}
               /\ b2[n] = m
               /\ \A i \in DataIn(box) \cup Answers(box) : i \in Nat /\ i < n /\ b2[i] = box[i]
  BY DEF DataIn, Answers

\* a new value that has everything the last one had
LEMMA GrowingData ==
    ASSUME NEW box \in Seq(Message), NEW c \in Tree, NEW p \in Seq(Write), NEW v \in Tree, NEW v2 \in Tree,
           NEW U, Growing(box, c, p, v, U), Filled(v) \subseteq Filled(v2),
           \A i \in Answers(box) :
               DOMAIN p[AnswerNo(box, i)] \cap U \cap Filled(v2) \subseteq Filled(v)
    PROVE  Growing(Append(box, Data(v2)), c, p, v2, U)
<1> DEFINE m == Data(v2)
           b2 == Append(box, m)
           n == Len(box) + 1
<1>1. m \in Message /\ m.t = "data" /\ m.val = v2
  BY DEF Data, Message
<1> HIDE DEF m
<1>2. /\ DataIn(b2) = DataIn(box) \cup {n} /\ Answers(b2) = Answers(box) /\ b2[n] = m
      /\ \A i \in DataIn(box) \cup Answers(box) : i \in Nat /\ i < n /\ b2[i] = box[i]
  BY <1>1, AppendedMessages
<1>3. \A i \in Answers(box) : AnswerNo(b2, i) = AnswerNo(box, i)
  BY <1>1, AnswerNoAppend
<1>4. n \in Nat /\ n \notin DataIn(box)
  BY DEF DataIn
<1> HIDE DEF b2, n
<1>5. Filled(c) \subseteq Filled(v2)
  BY DEF Growing
<1>6. \A j \in DataIn(b2) : /\ Filled(c) \subseteq Filled(b2[j].val)
                            /\ Filled(b2[j].val) \subseteq Filled(v2)
  BY <1>1, <1>2, <1>5 DEF Growing
<1>7. ASSUME NEW i \in DataIn(b2), NEW j \in DataIn(b2), i < j
      PROVE  Filled(b2[i].val) \subseteq Filled(b2[j].val)
  <2>1. CASE j = n
    BY <1>1, <1>2, <1>6, <2>1
  <2>2. CASE j \in DataIn(box)
    <3>1. i \in DataIn(box)
      BY <1>2, <1>4, <1>7, <2>2
    <3> QED BY <1>2, <1>7, <2>2, <3>1 DEF Growing
  <2> QED BY <1>2, <2>1, <2>2
<1>8. ASSUME NEW i \in Answers(b2), NEW k \in DOMAIN p[AnswerNo(b2, i)],
             b2[i].ok \/ k \in U \cap Filled(v2)
      PROVE  Reached(b2, c, i, k)
  <2>1. Reached(box, c, i, k)
    BY <1>2, <1>3, <1>8 DEF Growing
  <2> QED BY <1>2, <2>1 DEF Reached
<1>9. Growing(b2, c, p, v2, U)
  BY <1>5, <1>6, <1>7, <1>8 DEF Growing
<1> QED BY <1>9 DEF b2, m

\* an answer, after a value with everything it accepts
LEMMA GrowingAnswer ==
    ASSUME NEW box \in Seq(Message), NEW c \in Tree, NEW p \in Seq(Write), NEW v \in Tree,
           NEW ok \in BOOLEAN, NEW U, Growing(box, c, p, v, U), LastData(box, c) = v,
           ok => DOMAIN p[Cardinality(Answers(box)) + 1] \subseteq Filled(v)
    PROVE  Growing(Append(box, Ack(ok)), c, p, v, U)
<1> DEFINE m == Ack(ok)
           b2 == Append(box, m)
           n == Len(box) + 1
<1>1. m \in Message /\ m.t = "ack" /\ m.ok = ok
  BY DEF Ack, Message
<1> HIDE DEF m
<1>2. /\ DataIn(b2) = DataIn(box) /\ Answers(b2) = Answers(box) \cup {n} /\ b2[n] = m
      /\ \A i \in DataIn(box) \cup Answers(box) : i \in Nat /\ i < n /\ b2[i] = box[i]
  BY <1>1, AppendedMessages
<1>3. /\ \A i \in Answers(box) : AnswerNo(b2, i) = AnswerNo(box, i)
      /\ AnswerNo(b2, n) = Cardinality(Answers(box)) + 1
  BY <1>1, AnswerNoAppend
<1>4. DataIn(box) \in SUBSET (1..Len(box)) /\ Len(box) \in Nat
  BY DEF DataIn
<1>5. DataIn(box) # {} => Newest(DataIn(box)) \in DataIn(box)
  BY <1>4, NewestIsMax
<1> HIDE DEF b2, n
<1>6. \A j \in DataIn(b2) : /\ Filled(c) \subseteq Filled(b2[j].val)
                            /\ Filled(b2[j].val) \subseteq Filled(v)
  BY <1>2 DEF Growing
<1>7. \A i, j \in DataIn(b2) : i < j => Filled(b2[i].val) \subseteq Filled(b2[j].val)
  BY <1>2 DEF Growing
<1>8. ASSUME NEW i \in Answers(b2), NEW k \in DOMAIN p[AnswerNo(b2, i)],
             b2[i].ok \/ k \in U \cap Filled(v)
      PROVE  Reached(b2, c, i, k)
  <2>1. CASE i \in Answers(box)
    <3>1. Reached(box, c, i, k)
      BY <1>2, <1>3, <1>8, <2>1 DEF Growing
    <3> QED BY <1>2, <3>1 DEF Reached
  <2>2. CASE i = n
    <3>1. k \in Filled(v) /\ LastData(box, c) = v
      BY <1>1, <1>2, <1>3, <1>8, <2>2
    <3>2. CASE DataIn(box) = {}
      BY <3>1, <3>2 DEF LastData, Reached
    <3>3. CASE DataIn(box) # {}
      <4> DEFINE j == Newest(DataIn(box))
      <4>1. j \in DataIn(b2) /\ j < i /\ b2[j].val = v
        BY <1>2, <1>5, <2>2, <3>1, <3>3 DEF LastData
      <4> QED BY <3>1, <4>1 DEF Reached
    <3> QED BY <3>2, <3>3
  <2> QED BY <1>2, <2>1, <2>2
<1>9. Growing(b2, c, p, v, U)
  BY <1>6, <1>7, <1>8 DEF Growing
<1> QED BY <1>9 DEF b2, m

\* a write waits behind those that are answered
LEMMA GrowingPut ==
    ASSUME NEW box \in Seq(Message), NEW c \in Tree, NEW p \in Seq(Write), NEW w \in Write,
           NEW v, NEW U, Growing(box, c, p, v, U), Cardinality(Answers(box)) <= Len(p)
    PROVE  Growing(box, c, Append(p, w), v, U)
<1>1. ASSUME NEW i \in Answers(box)
      PROVE  Append(p, w)[AnswerNo(box, i)] = p[AnswerNo(box, i)]
  <2>1. AnswerNo(box, i) \in 1..Cardinality(Answers(box)) /\ Cardinality(Answers(box)) \in Nat
    BY AnswerNoType, AnswersFinite
  <2>2. AnswerNo(box, i) \in 1..Len(p)
    BY <2>1
  <2> QED BY <2>2
<1> QED BY <1>1 DEF Growing

\* the library takes the first message
LEMMA GrowingTail ==
    ASSUME NEW box \in Seq(Message), NEW c \in Tree, NEW p \in Seq(Write), NEW v, NEW U,
           box # << >>, Growing(box, c, p, v, U), Cardinality(Answers(box)) <= Len(p)
    PROVE  /\ Head(box).t = "data" =>
                  /\ Filled(c) \subseteq Filled(Head(box).val)
                  /\ Growing(Tail(box), Head(box).val, p, v, U)
           /\ Head(box).t = "ack" =>
                  /\ Head(box).ok => DOMAIN Head(p) \subseteq Filled(c)
                  /\ DOMAIN Head(p) \cap U \cap Filled(v) \subseteq Filled(c)
                  /\ Growing(Tail(box), c, Tail(p), v, U)
<1> DEFINE b2 == Tail(box)
<1>1. /\ b2 \in Seq(Message) /\ Head(box) = box[1] /\ Len(box) \in Nat /\ Len(box) > 0
      /\ \A i \in DataIn(b2) : i \in Nat /\ i > 0 /\ i + 1 \in DataIn(box) /\ b2[i] = box[i + 1]
      /\ \A i \in Answers(b2) : i \in Nat /\ i > 0 /\ i + 1 \in Answers(box) /\ b2[i] = box[i + 1]
      /\ \A j \in DataIn(box) : j \in Nat /\ j > 0 /\ (j = 1 \/ j - 1 \in DataIn(b2))
  BY DEF DataIn, Answers
<1>2. \A i \in Answers(b2) : AnswerNo(box, i + 1) =
            AnswerNo(b2, i) + (IF Head(box).t = "ack" THEN 1 ELSE 0)
  BY AnswerNoTail
<1>3. \A i \in Answers(b2) : AnswerNo(b2, i) \in Nat \ {0}
  <2>1. Cardinality(Answers(b2)) \in Nat
    BY <1>1, AnswersFinite
  <2>2. \A i \in Answers(b2) : AnswerNo(b2, i) \in 1..Cardinality(Answers(b2))
    BY <1>1, AnswerNoType
  <2> HIDE DEF b2
  <2> QED BY <2>1, <2>2
<1> HIDE DEF b2
<1>4. ASSUME NEW i \in DataIn(b2), NEW j \in DataIn(b2), i < j
      PROVE  Filled(b2[i].val) \subseteq Filled(b2[j].val)
  <2>1. i + 1 \in DataIn(box) /\ j + 1 \in DataIn(box) /\ i + 1 < j + 1
    BY <1>1, <1>4
  <2>2. Filled(box[i + 1].val) \subseteq Filled(box[j + 1].val)
    BY <2>1 DEF Growing
  <2> QED BY <1>1, <2>2
<1>5. CASE Head(box).t = "data"
  <2> DEFINE c2 == Head(box).val
  <2>1. 1 \in DataIn(box) /\ box[1].val = c2
    BY <1>1, <1>5 DEF DataIn
  <2> HIDE DEF c2
  <2>2. Filled(c) \subseteq Filled(c2) /\ Filled(c2) \subseteq Filled(v)
    BY <2>1 DEF Growing
  <2>3. ASSUME NEW j \in DataIn(b2)
        PROVE  Filled(c2) \subseteq Filled(b2[j].val) /\ Filled(b2[j].val) \subseteq Filled(v)
    <3>1. j + 1 \in DataIn(box) /\ 1 < j + 1 /\ b2[j] = box[j + 1]
      BY <1>1
    <3>2. Filled(box[1].val) \subseteq Filled(box[j + 1].val) /\ Filled(box[j + 1].val) \subseteq Filled(v)
      BY <2>1, <3>1 DEF Growing
    <3> QED BY <2>1, <3>1, <3>2
  <2>4. ASSUME NEW i \in Answers(b2), NEW k \in DOMAIN p[AnswerNo(b2, i)],
               b2[i].ok \/ k \in U \cap Filled(v)
        PROVE  Reached(b2, c2, i, k)
    <3>1. AnswerNo(box, i + 1) = AnswerNo(b2, i)
      BY <1>2, <1>3, <1>5, <2>4
    <3>2. Reached(box, c, i + 1, k)
      BY <1>1, <2>4, <3>1 DEF Growing
    <3>3. CASE k \in Filled(c)
      BY <2>2, <3>3 DEF Reached
    <3>4. ASSUME NEW j \in DataIn(box), j < i + 1, k \in Filled(box[j].val)
          PROVE  Reached(b2, c2, i, k)
      <4>1. CASE j = 1
        BY <2>1, <3>4, <4>1 DEF Reached
      <4>2. CASE j - 1 \in DataIn(b2)
        <5>1. j - 1 < i /\ b2[j - 1] = box[j]
          BY <1>1, <2>4, <3>4, <4>2
        <5> QED BY <3>4, <4>2, <5>1 DEF Reached
      <4> QED BY <1>1, <4>1, <4>2
    <3> QED BY <3>2, <3>3, <3>4 DEF Reached
  <2>5. Growing(b2, c2, p, v, U)
    BY <1>4, <2>2, <2>3, <2>4 DEF Growing
  <2> QED BY <1>5, <2>2, <2>5 DEF c2, b2
<1>6. CASE Head(box).t = "ack"
  <2>1. 1 \in Answers(box) /\ 1 \notin DataIn(box)
    BY <1>1, <1>6 DEF DataIn, Answers
  <2>2. AnswerNo(box, 1) = 1
    <3> DEFINE s == SubSeq(box, 1, 1)
    <3>1. Answers(s) = {1}
      BY <1>1, <1>6 DEF Answers
    <3> QED BY <3>1, FS_Singleton DEF AnswerNo
  <2>3. Cardinality(Answers(box)) \in Nat /\ Cardinality(Answers(box)) >= 1
    BY <2>1, <2>2, AnswersFinite, AnswerNoType
  <2>4. Len(p) > 0 /\ Head(p) = p[1] /\ \A i \in Nat \ {0} : i + 1 \in 1..Len(p) => Tail(p)[i] = p[i + 1]
    BY <2>3
  <2>5. \A k \in DOMAIN Head(p) : Head(box).ok \/ k \in U \cap Filled(v) => k \in Filled(c)
    <3>1. ASSUME NEW k \in DOMAIN p[1], box[1].ok \/ k \in U \cap Filled(v) PROVE k \in Filled(c)
      <4>1. Reached(box, c, 1, k)
        BY <2>1, <2>2, <3>1 DEF Growing
      <4>2. ~ \E j \in DataIn(box) : j < 1
        BY <1>1
      <4> QED BY <4>1, <4>2 DEF Reached
    <3> QED BY <1>1, <2>4, <3>1
  <2>6. \A j \in DataIn(b2) : /\ Filled(c) \subseteq Filled(b2[j].val)
                              /\ Filled(b2[j].val) \subseteq Filled(v)
    BY <1>1 DEF Growing
  <2>7. ASSUME NEW i \in Answers(b2), NEW k \in DOMAIN Tail(p)[AnswerNo(b2, i)],
               b2[i].ok \/ k \in U \cap Filled(v)
        PROVE  Reached(b2, c, i, k)
    <3>1. AnswerNo(box, i + 1) = AnswerNo(b2, i) + 1
      BY <1>2, <1>6
    <3>2. AnswerNo(box, i + 1) \in 1..Len(p)
      BY <1>1, <2>3, AnswerNoType
    <3>3. Tail(p)[AnswerNo(b2, i)] = p[AnswerNo(box, i + 1)]
      BY <1>3, <2>4, <3>1, <3>2
    <3>4. Reached(box, c, i + 1, k)
      BY <1>1, <2>7, <3>3 DEF Growing
    <3>5. ASSUME NEW j \in DataIn(box), j < i + 1, k \in Filled(box[j].val)
          PROVE  Reached(b2, c, i, k)
      <4>1. j # 1 /\ j - 1 \in DataIn(b2)
        BY <1>1, <2>1
      <4>2. j - 1 < i /\ b2[j - 1] = box[j]
        BY <1>1, <3>5, <4>1
      <4> QED BY <3>5, <4>1, <4>2 DEF Reached
    <3> QED BY <3>4, <3>5 DEF Reached
  <2>8. Filled(c) \subseteq Filled(v)
    BY DEF Growing
  <2>9. Growing(b2, c, Tail(p), v, U)
    BY <1>4, <2>6, <2>7, <2>8 DEF Growing
  <2> QED BY <1>6, <2>5, <2>9 DEF b2
<1>7. Head(box).t \in {"data", "ack"}
  BY <1>1 DEF Message
<1> QED BY <1>5, <1>6, <1>7

AllFill(d) == \A i \in 1..Len(pend[d]) : Filling(pend[d][i])

LEMMA StepGrows ==
    ASSUME DBTypeOK, InSync, ListensFirst, NEW U, Once(U),
           \A e \in Devices : Grows(e, U) /\ AllFill(e), NEW d \in Devices, NEW M, DBStep(d, M)
    PROVE  /\ Filled(server) \subseteq Filled(server')
           /\ \A e \in Devices : Grows(e, U)'
<1>0. /\ server \in Tree
      /\ \A e \in Devices : /\ inbox[e] \in Seq(Message) /\ cache[e] \in Tree /\ pend[e] \in Seq(Write)
                            /\ Cardinality(Answers(inbox[e])) <= Len(pend[e])
                            /\ Growing(inbox[e], cache[e], pend[e], server, U)
  BY DEF DBTypeOK, Grows, Answered
<1> DEFINE Goal == /\ Filled(server) \subseteq Filled(server')
                   /\ \A e \in Devices : Growing(inbox'[e], cache'[e], pend'[e], server', U)
           Kept(e) == inbox'[e] = inbox[e] /\ cache'[e] = cache[e] /\ pend'[e] = pend[e]
<1>a. ASSUME server' = server, Growing(inbox'[d], cache'[d], pend'[d], server, U),
             \A e \in Devices : e # d => Kept(e)
      PROVE  Goal
  <2>1. ASSUME NEW e \in Devices PROVE Growing(inbox'[e], cache'[e], pend'[e], server, U)
    <3>1. CASE e = d
      BY <1>a, <3>1
    <3>2. CASE e # d
      <4>1. inbox'[e] = inbox[e] /\ cache'[e] = cache[e] /\ pend'[e] = pend[e]
        BY <1>a, <3>2
      <4> QED BY <1>0, <4>1
    <3> QED BY <3>1, <3>2
  <2> QED BY <1>a, <2>1
<1> HIDE DEF Goal
<1>1. ASSUME server' = server, UNCHANGED <<cache, inbox, pend>> PROVE Goal
  BY <1>0, <1>1, <1>a
<1>2. ASSUME NEW q, NEW w \in Write, Put(d, w, q) PROVE Goal
  <2>1. /\ server' = server /\ inbox' = inbox /\ cache' = cache
        /\ pend'[d] = Append(pend[d], w) /\ \A e \in Devices : e # d => Kept(e)
    BY <1>2 DEF Put, DBTypeOK
  <2>2. Growing(inbox[d], cache[d], Append(pend[d], w), server, U)
    BY <1>0, GrowingPut
  <2>3. Growing(inbox'[d], cache'[d], pend'[d], server, U)
    BY <2>1, <2>2
  <2> QED BY <1>a, <2>1, <2>3
<1>3. ASSUME OnDataUpdate(d) \/ AckWrite(d) PROVE Goal
  <2>1. /\ server' = server /\ \A e \in Devices : e # d => Kept(e)
        /\ inbox[d] # << >> /\ inbox'[d] = Tail(inbox[d])
        /\ Head(inbox[d]).t \in {"data", "ack"}
        /\ Head(inbox[d]).t = "data" => cache'[d] = Head(inbox[d]).val /\ pend'[d] = pend[d]
        /\ Head(inbox[d]).t = "ack" => cache'[d] = cache[d] /\ pend'[d] = Tail(pend[d])
    BY <1>3 DEF OnDataUpdate, AckWrite, WithoutOldest, DBTypeOK
  <2>2. /\ Head(inbox[d]).t = "data" => Growing(Tail(inbox[d]), Head(inbox[d]).val, pend[d], server, U)
        /\ Head(inbox[d]).t = "ack" => Growing(Tail(inbox[d]), cache[d], Tail(pend[d]), server, U)
    BY <1>0, <2>1, GrowingTail
  <2>3. Growing(inbox'[d], cache'[d], pend'[d], server, U)
    BY <2>1, <2>2
  <2> QED BY <1>a, <2>1, <2>3
<1>4. ASSUME ServerListen(d) PROVE Goal
  <2>1. /\ server' = server /\ inbox'[d] = Append(inbox[d], Data(server))
        /\ cache' = cache /\ pend' = pend /\ \A e \in Devices : e # d => Kept(e)
    BY <1>4 DEF ServerListen, DBTypeOK
  <2>2. Growing(Append(inbox[d], Data(server)), cache[d], pend[d], server, U)
    BY <1>0, GrowingData
  <2>3. Growing(inbox'[d], cache'[d], pend'[d], server, U)
    BY <2>1, <2>2
  <2> QED BY <1>a, <2>1, <2>3
<1>5. ASSUME ServerAccept(d) PROVE Goal
  <2> DEFINE w == NextPut(d)
             n == Answered(d) + 1
             b1(e) == IF sub[e] = "on" /\ server' # server
                      THEN Append(inbox[e], Data(server')) ELSE inbox[e]
  <2>1. /\ PutWaits(d) /\ server' = Merge(server, w) /\ cache' = cache /\ pend' = pend
        /\ \A e \in Devices : sub'[e] = sub[e]
    BY <1>5 DEF ServerAccept
  <2>2. w \in Write /\ n \in 1..Len(pend[d]) /\ w = pend[d][n] /\ sub[d] = "on"
    BY <2>1, NextPutType, OnlyListenersAreServed DEF NextPut
  <2>3. server' \in Tree
    BY <2>1, <2>2, <1>0, MergeType
  <2>4. /\ Filled(server) \subseteq Filled(server') /\ DOMAIN w \subseteq Filled(server')
        /\ Filled(server') \subseteq Filled(server) \cup DOMAIN w
    <3>1. Filling(w) /\ DOMAIN w \subseteq Keys
      BY <2>2 DEF AllFill, Write
    <3> QED BY <2>1, <3>1 DEF Filled, Filling, Merge
  <2>a. ASSUME NEW e \in Devices, NEW i \in Answers(inbox[e])
        PROVE  DOMAIN pend[e][AnswerNo(inbox[e], i)] \cap U \cap Filled(server') \subseteq Filled(server)
    <3>1. /\ Answered(e) \in Nat /\ Answered(e) <= Len(pend[e])
          /\ AnswerNo(inbox[e], i) \in 1..Answered(e)
      BY <1>0, AnswerNoType, AnswersFinite DEF Answered
    <3>2. AnswerNo(inbox[e], i) \in 1..Len(pend[e]) /\ (e = d => AnswerNo(inbox[e], i) # n)
      BY <3>1
    <3>3. DOMAIN pend[e][AnswerNo(inbox[e], i)] \cap DOMAIN w \cap U = {}
      BY <2>2, <3>2 DEF Once
    <3> QED BY <2>4, <3>3
  <2> HIDE DEF w, n
  <2>5. ASSUME NEW e \in Devices
        PROVE  b1(e) \in Seq(Message) /\ Growing(b1(e), cache[e], pend[e], server', U)
    <3>1. Growing(Append(inbox[e], Data(server')), cache[e], pend[e], server', U)
      BY <1>0, <2>3, <2>4, <2>a, GrowingData
    <3>2. server' = server => Growing(inbox[e], cache[e], pend[e], server', U)
      BY <1>0
    <3>3. server' # server /\ sub[e] # "on" => Growing(inbox[e], cache[e], pend[e], server', U)
      <4>1. sub[e] # "on" => inbox[e] = << >>
        BY DEF ListensFirst
      <4>2. DataIn(<< >>) = {} /\ Answers(<< >>) = {}
        BY DEF DataIn, Answers
      <4> QED BY <1>0, <2>4, <4>1, <4>2 DEF Growing
    <3>4. Data(server') \in Message
      BY <2>3 DEF Data, Message
    <3> QED BY <1>0, <3>1, <3>2, <3>3, <3>4
  <2>6. ASSUME NEW e \in Devices
        PROVE  inbox'[e] = IF e = d THEN Append(b1(e), Ack(TRUE)) ELSE b1(e)
    BY <1>5, ServerAcceptInbox
  <2>7. LastData(b1(d), cache[d]) = server'
    <3>1. LastData(inbox[d], cache[d]) = server
      BY <2>2 DEF InSync
    <3>2. Data(server') \in Message /\ Data(server').t = "data" /\ Data(server').val = server'
      BY <2>3 DEF Data, Message
    <3>3. LastData(Append(inbox[d], Data(server')), cache[d]) = server'
      BY <1>0, <3>2, AppendData
    <3> QED BY <2>2, <3>1, <3>3
  <2>8. Cardinality(Answers(b1(d))) = Cardinality(Answers(inbox[d]))
    <3>1. Data(server') \in Message /\ Data(server').t = "data"
      BY <2>3 DEF Data, Message
    <3>2. Answers(Append(inbox[d], Data(server'))) = Answers(inbox[d])
      BY <1>0, <3>1, AppendedMessages
    <3> QED BY <3>2
  <2>9. Growing(Append(b1(d), Ack(TRUE)), cache[d], pend[d], server', U)
    <3>1. pend[d][Cardinality(Answers(b1(d))) + 1] = w
      BY <2>2, <2>8 DEF Answered, n
    <3> HIDE DEF b1
    <3> QED BY <1>0, <2>3, <2>4, <2>5, <2>7, <3>1, GrowingAnswer
  <2> HIDE DEF b1
  <2>10. \A e \in Devices : Growing(inbox'[e], cache'[e], pend'[e], server', U)
    BY <2>1, <2>5, <2>6, <2>9
  <2> QED BY <2>4, <2>10 DEF Goal
<1>6. ASSUME ServerRefuse(d) PROVE Goal
  <2>1. /\ server' = server /\ inbox'[d] = Append(inbox[d], Ack(FALSE))
        /\ cache' = cache /\ pend' = pend /\ \A e \in Devices : e # d => Kept(e)
    BY <1>6 DEF ServerRefuse, DBTypeOK
  <2>2. Growing(Append(inbox[d], Ack(FALSE)), cache[d], pend[d], server, U)
    <3>1. sub[d] = "on"
      BY <1>6, OnlyListenersAreServed DEF ServerRefuse
    <3>2. LastData(inbox[d], cache[d]) = server
      BY <3>1 DEF InSync
    <3> QED BY <1>0, <3>2, GrowingAnswer
  <2>3. Growing(inbox'[d], cache'[d], pend'[d], server, U)
    BY <2>1, <2>2
  <2> QED BY <1>a, <2>1, <2>3
<1>7. ASSUME RestoreState(d) \/ Terminate(d) PROVE Goal
  <2>1. /\ server' = server /\ \A e \in Devices : e # d => Kept(e)
        /\ inbox'[d] = << >> /\ cache'[d] \in {cache[d], NoTree}
    BY <1>7 DEF RestoreState, Terminate, DBTypeOK
  <2>2. DataIn(<< >>) = {} /\ Answers(<< >>) = {}
    BY DEF DataIn, Answers
  <2>3. Filled(NoTree) = {} /\ Filled(cache[d]) \subseteq Filled(server)
    BY <1>0 DEF Filled, NoTree, Growing
  <2>4. Growing(inbox'[d], cache'[d], pend'[d], server, U)
    BY <2>1, <2>2, <2>3 DEF Growing
  <2> QED BY <1>a, <2>1, <2>4
<1>8. Goal
  <2>1. ASSUME NEW q, AppStep(d, q) PROVE Goal
    <3>1. ASSUME NEW kind \in Kinds, NEW a \in Places, Observe(d, kind, a, q) PROVE Goal
      BY <3>1, <1>1 DEF Observe
    <3> QED BY <1>1, <1>2, <2>1, <3>1 DEF AppStep
  <2> QED BY <2>1, <1>3, <1>4, <1>5, <1>6, <1>7 DEF DBStep, NetStep
<1> QED BY <1>8 DEF Grows, Goal

\* what is to be seen: the server's children and those of the writes
LEMMA FilledOverlay ==
    ASSUME NEW c \in Tree, NEW p \in Seq(Write), \A i \in 1..Len(p) : Filling(p[i])
    PROVE  Filled(Overlay(c, p)) = Filled(c) \cup UNION {DOMAIN p[i] : i \in 1..Len(p)}
<1>1. \A i \in 1..Len(p) : DOMAIN p[i] \subseteq Keys
  BY DEF Write
<1>2. ASSUME NEW k \in Keys
      PROVE  Overlay(c, p)[k] # Nil <=> c[k] # Nil \/ \E i \in 1..Len(p) : k \in DOMAIN p[i]
  <2>1. CASE Covering(p, k) = {}
    BY <2>1 DEF Overlay, Covering
  <2>2. CASE Covering(p, k) # {}
    <3>1. Newest(Covering(p, k)) \in Covering(p, k)
      BY <2>2, NewestIsMax, Len(p) \in Nat, Covering(p, k) \in SUBSET (1..Len(p)) DEF Covering
    <3> QED BY <2>2, <3>1 DEF Overlay, Covering, Filling
  <2> QED BY <2>1, <2>2
<1> QED BY <1>1, <1>2 DEF Filled

(* Only a refusal and the end of the process take anything from sight: an  *)
(* accepted write is in the server data by the time it is forgotten.  And  *)
(* a refusal takes no child that the server has and one write alone fills. *)
Refused(d) == AckWrite(d) /\ ~Head(inbox[d]).ok

LEMMA SightGrows ==
    ASSUME DBTypeOK, NEW U, \A e \in Devices : Grows(e, U) /\ AllFill(e),
           NEW d \in Devices, NEW M, DBStep(d, M), ~Terminate(d), AllFill(d)',
           NEW e \in Devices
    PROVE  /\ ~Refused(d) => Filled(View(e)) \subseteq Filled(View(e)')
           /\ Filled(View(e)) \cap U \cap Filled(server) \subseteq Filled(View(e)')
<1> DEFINE Ws(p) == UNION {DOMAIN p[i] : i \in 1..Len(p)}
           Goal == \A k \in Filled(cache[e]) \cup Ws(pend[e]) :
                       ~Refused(d) \/ k \in U \cap Filled(server)
                           => k \in Filled(cache'[e]) \cup Ws(pend'[e])
<1>0. /\ cache[e] \in Tree /\ pend[e] \in Seq(Write) /\ inbox[e] \in Seq(Message)
      /\ Cardinality(Answers(inbox[e])) <= Len(pend[e])
      /\ Growing(inbox[e], cache[e], pend[e], server, U)
      /\ Filled(View(e)) = Filled(cache[e]) \cup Ws(pend[e])
  <2>1. cache[e] \in Tree /\ pend[e] \in Seq(Write) /\ inbox[e] \in Seq(Message)
    BY DEF DBTypeOK
  <2>2. /\ Cardinality(Answers(inbox[e])) <= Len(pend[e])
        /\ Growing(inbox[e], cache[e], pend[e], server, U)
    BY DEF DBTypeOK, Grows, Answered
  <2>3. Filled(View(e)) = Filled(cache[e]) \cup Ws(pend[e])
    BY <2>1, FilledOverlay DEF AllFill, View
  <2> QED BY <2>1, <2>2, <2>3
<1>1. ASSUME cache'[e] = cache[e], pend'[e] = pend[e] PROVE Goal
  BY <1>1
<1>2. ASSUME NEW q, NEW w \in Write, Put(d, w, q), e = d PROVE Goal
  <2>1. cache'[e] = cache[e] /\ pend'[e] = Append(pend[e], w)
    BY <1>2 DEF Put, DBTypeOK
  <2>2. Ws(pend[e]) \subseteq Ws(Append(pend[e], w))
    BY <1>0
  <2> QED BY <2>1, <2>2
<1>3. ASSUME OnDataUpdate(d), e = d PROVE Goal
  <2>1. /\ inbox[e] # << >> /\ Head(inbox[e]).t = "data"
        /\ cache'[e] = Head(inbox[e]).val /\ pend'[e] = pend[e]
    BY <1>3 DEF OnDataUpdate, DBTypeOK
  <2>2. Filled(cache[e]) \subseteq Filled(Head(inbox[e]).val)
    BY <1>0, <2>1, GrowingTail
  <2> QED BY <2>1, <2>2
<1>4. ASSUME AckWrite(d), e = d PROVE Goal
  <2>1. /\ inbox[e] # << >> /\ Head(inbox[e]).t = "ack" /\ (~Refused(d) => Head(inbox[e]).ok)
        /\ cache'[e] = cache[e] /\ pend'[e] = Tail(pend[e]) /\ pend[e] # << >>
    BY <1>4, AckWriteType DEF AckWrite, WithoutOldest, Refused, DBTypeOK
  <2>2. \A k \in DOMAIN Head(pend[e]) :
            ~Refused(d) \/ k \in U \cap Filled(server) => k \in Filled(cache[e])
    BY <1>0, <2>1, GrowingTail
  <2>3. Ws(pend[e]) \subseteq DOMAIN Head(pend[e]) \cup Ws(Tail(pend[e]))
    <3>1. ASSUME NEW i \in 1..Len(pend[e])
          PROVE  pend[e][i] = Head(pend[e]) \/ \E j \in 1..Len(Tail(pend[e])) : pend[e][i] = Tail(pend[e])[j]
      <4>1. i = 1 \/ (i - 1 \in 1..Len(Tail(pend[e])) /\ pend[e][i] = Tail(pend[e])[i - 1])
        BY <1>0, <2>1
      <4> QED BY <1>0, <2>1, <4>1
    <3> QED BY <3>1
  <2> HIDE DEF Ws
  <2> QED BY <2>1, <2>2, <2>3
<1> HIDE DEF Goal
<1>5. Goal
  <2>1. CASE e # d
    <3>1. cache'[e] = cache[e] /\ pend'[e] = pend[e]
      BY <2>1 DEF DBStep, AppStep, NetStep, Observe, Put, OnDataUpdate, AckWrite, ServerListen,
                  ServerAccept, ServerRefuse, RestoreState, Terminate, DBTypeOK
    <3> QED BY <1>1, <3>1
  <2>2. ASSUME e = d, NEW q, AppStep(d, q) PROVE Goal
    <3>1. CASE \E w \in Write : Put(d, w, q)
      BY <1>2, <2>2, <3>1
    <3>2. CASE ~ \E w \in Write : Put(d, w, q)
      <4>1. cache' = cache /\ pend' = pend
        BY <2>2, <3>2 DEF AppStep, Observe
      <4> QED BY <1>1, <4>1
    <3> QED BY <3>1, <3>2
  <2>3. ASSUME e = d, ServerListen(d) \/ ServerAccept(d) \/ ServerRefuse(d) \/ RestoreState(d)
        PROVE  Goal
    <3>1. cache' = cache /\ pend' = pend
      BY <2>3 DEF ServerListen, ServerAccept, ServerRefuse, RestoreState
    <3> QED BY <1>1, <3>1
  <2> QED BY <1>3, <1>4, <2>1, <2>2, <2>3 DEF DBStep, NetStep
<1>6. Filled(View(e)') = Filled(cache'[e]) \cup Ws(pend'[e])
  <2>1. /\ cache' \in [Devices -> Tree] /\ pend' \in [Devices -> Seq(Write)]
        /\ \A i \in 1..Len(pend'[e]) : Filling(pend'[e][i])
    <3>1. DBTypeOK'
      BY StepType
    <3>2. \A x \in Devices : AllFill(x)'
      <4>1. ASSUME NEW x \in Devices, x # d PROVE AllFill(x)'
        <5>1. pend'[x] = pend[x]
          BY <4>1 DEF DBStep, AppStep, NetStep, Observe, Put, OnDataUpdate, AckWrite, ServerListen,
                  ServerAccept, ServerRefuse, RestoreState, Terminate, DBTypeOK
        <5> QED BY <5>1 DEF AllFill
      <4> QED BY <4>1
    <3> QED BY <3>1, <3>2 DEF DBTypeOK, AllFill
  <2>2. View(e)' = Overlay(cache'[e], pend'[e])
    BY DEF View
  <2> HIDE DEF Ws
  <2>3. Filled(Overlay(cache'[e], pend'[e])) = Filled(cache'[e]) \cup Ws(pend'[e])
    BY <2>1, FilledOverlay DEF Ws
  <2> QED BY <2>2, <2>3
<1> HIDE DEF Ws
<1> QED BY <1>0, <1>5, <1>6 DEF Goal
-----------------------------------------------------------------------------
(* What a callback with nothing coming knows is the current view: it was   *)
(* given it just now, or it knew it before and the view is the same.       *)
LEMMA StepTells ==
    ASSUME DBTypeOK, NEW d \in Devices, NEW M, DBStep(d, M), NEW e \in Devices, Current(e)
    PROVE  /\ Current(e)'
           /\ \A l \in listeners'[e] :
                  Complete(known'[e], pend'[e], l) /\ EventsFor(mainQ'[e], l) = {} =>
                      \/ /\ e = d /\ l \in M
                         /\ At(Head(mainQ[e]).snap, l.at) = At(View(e)', l.at)
                      \/ /\ e # d \/ l \notin M
                         /\ l \in listeners[e] /\ Complete(known[e], pend[e], l)
                         /\ EventsFor(mainQ[e], l) = {}
                         /\ At(View(e), l.at) = At(View(e)', l.at)
<1> DEFINE M2 == IF e = d THEN M ELSE {}
           given(m) == At(Head(mainQ[e]).snap, m.at)
<1>1. PICK s : s = Told(e)
  OBVIOUS
<1>2. PICK s2 : /\ M2 = {} => s2 = s
                /\ \A m \in M2 : s2 = Remember(s, m, given(m))
  <2>1. M2 = {} \/ \E m : M2 = {m}
    BY StepIsLocal DEF Taken
  <2>2. CASE M2 = {}
    BY <2>2
  <2>3. ASSUME NEW m, M2 = {m}
        PROVE  \E s2 : /\ M2 = {} => s2 = s
                       /\ \A k \in M2 : s2 = Remember(s, k, given(k))
    <3>1. \A k \in M2 : Remember(s, m, given(m)) = Remember(s, k, given(k))
      BY <2>3
    <3> QED BY <2>3, <3>1
  <2> QED BY <2>1, <2>2, <2>3
<1>3. UpToDate(listeners[e], known[e], cache[e], pend[e], mainQ[e], s)
  BY <1>1, CurrentIsUpToDate
<1>4. UpToDate(listeners[e], known[e], cache[e], pend[e], mainQ[e], s2)'
  <2>1. /\ (e # d \/ M = {}) => s2 = s
        /\ e = d => \A m \in M : s2 = Remember(s, m, At(Head(mainQ[d]).snap, m.at))
    BY <1>2
  <2> QED BY <1>3, <2>1, StepUpToDate
<1>5. /\ Current(e)'
      /\ \A l \in listeners'[e] :
             Complete(known'[e], pend'[e], l) /\ EventsFor(mainQ'[e], l) = {} =>
                 l \in DOMAIN s2 /\ s2[l] = At(View(e)', l.at)
  BY <1>4 DEF Current, UpToDate, HasShown, LastShown, View
<1>6. ASSUME NEW l \in DOMAIN s2
      PROVE  \/ l \in M2 /\ s2[l] = given(l)
             \/ l \notin M2 /\ l \in DOMAIN s /\ s2[l] = s[l]
  <2>1. CASE M2 = {}
    BY <1>2, <1>6, <2>1
  <2>2. ASSUME NEW m \in M2
        PROVE  \/ l \in M2 /\ s2[l] = given(l)
               \/ l \notin M2 /\ l \in DOMAIN s /\ s2[l] = s[l]
    <3>1. s2 = Remember(s, m, given(m)) /\ (l \in M2 => s2 = Remember(s, l, given(l)))
      BY <1>2, <2>2
    <3> QED BY <1>6, <2>2, <3>1 DEF Remember
  <2> QED BY <2>1, <2>2
<1>7. \A l \in DOMAIN s : /\ l \in listeners[e] /\ Complete(known[e], pend[e], l)
                          /\ EventsFor(mainQ[e], l) = {} /\ s[l] = At(View(e), l.at)
  BY <1>1 DEF Told
<1> QED BY <1>5, <1>6, <1>7

\* the events of q2 are those of q and at most one more, with the value snap
Extends(q2, q, snap) ==
    \A i \in 1..Len(q2) : \/ i \in 1..Len(q) /\ q2[i] = q[i]
                          \/ i = Len(q) + 1 /\ q2[i].snap = snap

LEMMA RaisedIs ==
    ASSUME NEW q \in Seq(Event), NEW to \in SUBSET Listener, NEW snap \in Tree
    PROVE  Extends(q \o Raised(to, snap), q, snap)
<1> DEFINE e == [to |-> to, snap |-> snap]
<1>1. e \in Event
  BY DEF Event
<1>2. CASE to = {}
  <2>1. q \o Raised(to, snap) = q
    BY <1>2 DEF Raised
  <2> QED BY <2>1 DEF Extends
<1>3. CASE to # {}
  <2>1. q \o Raised(to, snap) = Append(q, e)
    <3>1. q \o Raised(to, snap) = q \o <<e>>
      BY <1>3 DEF Raised
    <3> HIDE DEF e
    <3> QED BY <1>1, <3>1, ConcatOne
  <2>2. e.snap = snap
    OBVIOUS
  <2> HIDE DEF e
  <2> QED BY <1>1, <2>1, <2>2 DEF Extends
<1> QED BY <1>2, <1>3

\* what is left of the main queue: the same events, or all but the first
LEMMA PoppedIs ==
    ASSUME DBTypeOK, NEW d \in Devices, mainQ[d] # << >>, NEW l \in Head(mainQ[d]).to
    PROVE  \/ /\ Len(Popped(d, l)) = Len(mainQ[d])
              /\ \A i \in 1..Len(mainQ[d]) : Popped(d, l)[i].snap = mainQ[d][i].snap
           \/ /\ Len(Popped(d, l)) = Len(mainQ[d]) - 1
              /\ \A i \in 1..(Len(mainQ[d]) - 1) : Popped(d, l)[i] = mainQ[d][i + 1]
<1> DEFINE q == mainQ[d]
           e == [to |-> Head(q).to \ {l}, snap |-> Head(q).snap]
<1>1. q \in Seq(Event) /\ q # << >> /\ Head(q) = q[1] /\ Len(q) \in Nat /\ Len(q) > 0
  BY DEF DBTypeOK
<1>2. CASE Popped(d, l) = Tail(q)
  BY <1>1, <1>2
<1>3. CASE Popped(d, l) = <<e>> \o Tail(q)
  <2>1. e.snap = q[1].snap
    BY <1>1
  <2> HIDE DEF e
  <2>2. Len(<<e>> \o Tail(q)) = Len(q) /\ (<<e>> \o Tail(q))[1] = e
        /\ \A i \in 2..Len(q) : (<<e>> \o Tail(q))[i] = q[i]
    BY <1>1
  <2>3. \A i \in 1..Len(q) : i = 1 \/ i \in 2..Len(q)
    BY <1>1
  <2> QED BY <1>3, <2>1, <2>2, <2>3
<1> QED BY <1>2, <1>3 DEF Popped

\* events that show what some of these show
Shows(q, old) == \A i \in 1..Len(q) : \E j \in 1..Len(old) : q[i].snap = old[j].snap

(* Events show more and more, as long as nothing is refused.               *)
Rising(q, v) ==
    \A i \in 1..Len(q) : /\ Filled(q[i].snap) \subseteq Filled(v)
                         /\ \A j \in 1..Len(q) : i < j => Filled(q[i].snap) \subseteq Filled(q[j].snap)

LEMMA TakenRises ==
    ASSUME DBTypeOK, NEW d \in Devices, NEW M, NEW q, Taken(d, M, q)
    PROVE  Shows(q, mainQ[d]) /\ \A v : Rising(mainQ[d], v) => Rising(q, v)
<1> SUFFICES ASSUME NEW v PROVE Shows(q, mainQ[d]) /\ (Rising(mainQ[d], v) => Rising(q, v))
  OBVIOUS
<1>1. CASE q = mainQ[d]
  BY <1>1 DEF Shows
<1>2. ASSUME mainQ[d] # << >>, NEW l \in Head(mainQ[d]).to, q = Popped(d, l)
      PROVE  Shows(q, mainQ[d]) /\ (Rising(mainQ[d], v) => Rising(q, v))
  <2> DEFINE n == Len(mainQ[d])
  <2>1. n \in Nat /\ n > 0
    BY <1>2 DEF DBTypeOK
  <2>2. CASE Len(q) = n /\ \A i \in 1..n : q[i].snap = mainQ[d][i].snap
    BY <2>2 DEF Rising, Shows
  <2>3. CASE Len(q) = n - 1 /\ \A i \in 1..(n - 1) : q[i] = mainQ[d][i + 1]
    <3>1. \A i \in 1..(n - 1) : i + 1 \in 1..n
      BY <2>1
    <3>2. \A i, j \in 1..(n - 1) : i < j => i + 1 < j + 1
      BY <2>1
    <3> HIDE DEF n
    <3>3. ASSUME Rising(mainQ[d], v), NEW i \in 1..Len(q)
          PROVE  /\ Filled(q[i].snap) \subseteq Filled(v)
                 /\ \A j \in 1..Len(q) : i < j => Filled(q[i].snap) \subseteq Filled(q[j].snap)
      BY <2>3, <3>1, <3>2, <3>3 DEF Rising, n
    <3> QED BY <2>3, <3>1, <3>3 DEF Rising, Shows, n
  <2> QED BY <1>2, <2>2, <2>3, PoppedIs
<1> QED BY <1>1, <1>2 DEF Taken

LEMMA RaisedRises ==
    ASSUME NEW q, NEW v, NEW v2, Len(q) \in Nat, Rising(q, v), Filled(v) \subseteq Filled(v2),
           NEW q2, Extends(q2, q, v2), Len(q2) \in Nat
    PROVE  Rising(q2, v2)
<1> DEFINE n == Len(q) + 1
<1>1. \A i \in 1..Len(q2) : \/ i \in 1..Len(q) /\ i < n /\ q2[i] = q[i]
                            \/ i = n /\ q2[i].snap = v2
  BY DEF Extends
<1>2. \A i, j \in 1..Len(q2) : i < j => i # n
  <2>1. \A j \in 1..Len(q2) : j <= n
    BY <1>1
  <2> QED BY <2>1
<1>3. \A i \in 1..Len(q2) : Filled(q2[i].snap) \subseteq Filled(v2)
  BY <1>1 DEF Rising
<1>4. ASSUME NEW i \in 1..Len(q2), NEW j \in 1..Len(q2), i < j
      PROVE  Filled(q2[i].snap) \subseteq Filled(q2[j].snap)
  <2>1. i \in 1..Len(q) /\ q2[i] = q[i]
    BY <1>1, <1>2, <1>4
  <2>2. CASE j \in 1..Len(q) /\ q2[j] = q[j]
    BY <1>4, <2>1, <2>2 DEF Rising
  <2>3. CASE q2[j].snap = v2
    BY <1>3, <2>3
  <2> QED BY <1>1, <2>2, <2>3
<1> QED BY <1>3, <1>4 DEF Rising

(* An app's events after a step: those that were left waiting and at most  *)
(* one more, which shows the view as it is then; or none, at its end.      *)
LEMMA StepExtends ==
    ASSUME DBTypeOK, NEW d \in Devices, NEW M, DBStep(d, M), NEW e \in Devices
    PROVE  \/ e = d /\ Ended(e)
           \/ \E q \in Seq(Event) : /\ Taken(e, IF e = d THEN M ELSE {}, q)
                                   /\ Extends(mainQ'[e], q, View(e)')
<1>0. View(e)' \in Tree /\ listeners[e] \in SUBSET Listener
  BY StepType, OverlayType DEF DBTypeOK, View
<1>1. ASSUME NEW q \in Seq(Event), Opened(e, q) PROVE Extends(mainQ'[e], q, View(e)')
  <2>1. View(e)' = View(e)
    BY <1>1 DEF Opened, View
  <2>2. PICK l \in Listener :
            mainQ'[e] = q \o Raised(IF Complete(known[e], pend[e], l) THEN {l} ELSE {}, View(e))
    BY <1>1 DEF Opened
  <2> DEFINE to == IF Complete(known[e], pend[e], l) THEN {l} ELSE {}
  <2>3. to \in SUBSET Listener /\ mainQ'[e] = q \o Raised(to, View(e)')
    BY <2>1, <2>2
  <2> HIDE DEF to
  <2> QED BY <1>0, <2>3, RaisedIs
<1>2. ASSUME NEW q \in Seq(Event), Altered(e, q) PROVE Extends(mainQ'[e], q, View(e)')
  <2> DEFINE to == Concerned(listeners[e], known[e], cache[e], pend[e],
                             known'[e], cache'[e], pend'[e])
  <2>1. to \in SUBSET Listener /\ mainQ'[e] = q \o Raised(to, View(e)')
    BY <1>0, <1>2 DEF Altered, Concerned
  <2> HIDE DEF to
  <2> QED BY <1>0, <2>1, RaisedIs
<1> QED BY <1>1, <1>2, StepIsLocal

LEMMA StepShows ==
    ASSUME DBTypeOK, NEW d \in Devices, NEW M, DBStep(d, M), NEW e \in Devices,
           NEW i \in 1..Len(mainQ'[e])
    PROVE  \/ mainQ'[e][i].snap = View(e)'
           \/ \E j \in 1..Len(mainQ[e]) : mainQ'[e][i].snap = mainQ[e][j].snap
<1>1. CASE Ended(e)
  BY <1>1 DEF Ended
<1>2. ASSUME NEW q, NEW M2, Taken(e, M2, q), Extends(mainQ'[e], q, View(e)')
      PROVE  \/ mainQ'[e][i].snap = View(e)'
             \/ \E j \in 1..Len(mainQ[e]) : mainQ'[e][i].snap = mainQ[e][j].snap
  <2>1. Shows(q, mainQ[e])
    BY <1>2, TakenRises
  <2> QED BY <1>2, <2>1 DEF Shows, Extends
<1> QED BY <1>1, <1>2, StepExtends

LEMMA StepRises ==
    ASSUME DBTypeOK, NEW d \in Devices, NEW M, DBStep(d, M), NEW e \in Devices,
           Rising(mainQ[e], View(e)), Filled(View(e)) \subseteq Filled(View(e)') \/ Ended(e)
    PROVE  Rising(mainQ'[e], View(e)')
<1>1. CASE Ended(e)
  BY <1>1 DEF Ended, Rising
<1>2. ASSUME NEW q \in Seq(Event), NEW M2, Taken(e, M2, q), Extends(mainQ'[e], q, View(e)'),
             Filled(View(e)) \subseteq Filled(View(e)')
      PROVE  Rising(mainQ'[e], View(e)')
  <2>1. PICK v, v2, q2 : v = View(e) /\ v2 = View(e)' /\ q2 = mainQ'[e]
    OBVIOUS
  <2>2. Rising(q, v)
    BY <1>2, <2>1, TakenRises
  <2>3. q2 \in Seq(Event)
    BY <2>1, StepType DEF DBTypeOK
  <2>4. Len(q) \in Nat /\ Len(q2) \in Nat /\ Extends(q2, q, v2) /\ Filled(v) \subseteq Filled(v2)
    BY <1>2, <2>1, <2>3
  <2>5. Rising(q2, v2)
    BY <2>2, <2>4, RaisedRises
  <2> QED BY <2>1, <2>5
<1> QED BY <1>1, <1>2, StepExtends

(* What the server comes to hold is in it or in a recorded write.          *)
LEMMA ServerWithin ==
    ASSUME DBTypeOK, NEW d \in Devices, NEW M, DBStep(d, M), NEW S, Filled(server) \subseteq S,
           \A i \in 1..Len(pend[d]) : DOMAIN pend[d][i] \subseteq S
    PROVE  Filled(server') \subseteq S
<1>1. CASE ServerAccept(d)
  <2>1. NextPut(d) \in Write /\ Answered(d) + 1 \in 1..Len(pend[d])
    BY <1>1, NextPutType DEF ServerAccept
  <2>2. server' = Merge(server, NextPut(d)) /\ DOMAIN NextPut(d) \subseteq S
    BY <1>1, <2>1 DEF ServerAccept, NextPut
  <2> QED BY <2>2 DEF Merge, Filled
<1>2. CASE server' = server
  BY <1>2
<1> QED BY <1>1, <1>2 DEF DBStep, AppStep, NetStep, Observe, Put, OnDataUpdate, AckWrite,
           ServerListen, ServerRefuse, RestoreState, Terminate
-----------------------------------------------------------------------------
(* A child that goes out of sight and never comes back (g): once the app   *)
(* has seen it (s) or is going to, what it is shown has it up to some      *)
(* event and no longer after that.                                         *)
Has(q, i, k) == k \in Filled(q[i].snap)

Seen(q, s, k, i) == (i = 0 /\ s) \/ (i \in 1..Len(q) /\ Has(q, i, k))

\* after the n-th event it is there up to some event only
Fading(q, v, k, n) == \A j \in 1..Len(q) : j > n =>
    /\ k \in Filled(v) => Has(q, j, k)
    /\ \A m \in 1..Len(q) : m > j /\ Has(q, m, k) => Has(q, j, k)

Lasting(q, v, k, g, s) == \A i \in 0..Len(q) : Seen(q, s, k, i) =>
    Fading(q, v, k, i) /\ (k \notin Filled(v) => g)

Lost(q, v, k) == k \notin Filled(v) /\ \A i \in 1..Len(q) : ~Has(q, i, k)

\* the first event that shows it may have been shown
LEMMA TakenLasts ==
    ASSUME DBTypeOK, NEW d \in Devices, NEW M, NEW q, Taken(d, M, q), NEW v, NEW k, NEW g, NEW s, NEW s2,
           Lasting(mainQ[d], v, k, g, s), s2 => s \/ (mainQ[d] # << >> /\ Has(mainQ[d], 1, k))
    PROVE  Lasting(q, v, k, g, s2)
<1> DEFINE n == Len(mainQ[d])
<1>0. n \in Nat /\ (mainQ[d] # << >> => n > 0)
  BY DEF DBTypeOK
<1>1. ASSUME Len(q) = n, \A i \in 1..n : q[i].snap = mainQ[d][i].snap
      PROVE  Lasting(q, v, k, g, s2)
  <2>1. \A i \in 1..n : Has(q, i, k) <=> Has(mainQ[d], i, k)
    BY <1>1 DEF Has
  <2>2. ASSUME NEW i \in 0..n, Seen(mainQ[d], s, k, i)
        PROVE  Fading(q, v, k, i) /\ (k \notin Filled(v) => g)
    BY <1>1, <2>1, <2>2 DEF Lasting, Fading
  <2>3. ASSUME n > 0, Seen(mainQ[d], s, k, 1), Fading(q, v, k, 1) PROVE Fading(q, v, k, 0)
    BY <1>0, <1>1, <2>1, <2>3 DEF Fading, Seen
  <2>4. ASSUME NEW i \in 0..n, Seen(q, s2, k, i)
        PROVE  Fading(q, v, k, i) /\ (k \notin Filled(v) => g)
    <3>1. CASE Seen(mainQ[d], s, k, i)
      BY <2>2, <3>1
    <3>2. CASE ~Seen(mainQ[d], s, k, i)
      <4>1. i = 0 /\ n > 0 /\ Seen(mainQ[d], s, k, 1) /\ 1 \in 0..n
        BY <1>0, <1>1, <2>1, <2>4, <3>2 DEF Seen
      <4> QED BY <2>2, <2>3, <4>1
    <3> QED BY <3>1, <3>2
  <2> QED BY <1>1, <2>4 DEF Lasting
<1>2. ASSUME n > 0, Len(q) = n - 1, \A i \in 1..(n - 1) : q[i] = mainQ[d][i + 1]
      PROVE  Lasting(q, v, k, g, s2)
  <2>1. \A i \in 1..(n - 1) : i + 1 \in 1..n /\ (Has(q, i, k) <=> Has(mainQ[d], i + 1, k))
    BY <1>0, <1>2 DEF Has
  <2>2. ASSUME NEW i \in 0..(n - 1), Fading(mainQ[d], v, k, i + 1) PROVE Fading(q, v, k, i)
    <3>1. \A j \in 1..(n - 1) : j > i => j + 1 > i + 1
      BY <1>0
    <3>2. \A j, m \in 1..(n - 1) : m > j => m + 1 > j + 1
      BY <1>0
    <3> HIDE DEF n
    <3> QED BY <1>2, <2>1, <2>2, <3>1, <3>2 DEF Fading, n
  <2>3. ASSUME Fading(mainQ[d], v, k, 0) PROVE Fading(mainQ[d], v, k, 1)
    BY <2>3 DEF Fading
  <2>4. ASSUME NEW i \in 0..(n - 1), Seen(q, s2, k, i)
        PROVE  Fading(q, v, k, i) /\ (k \notin Filled(v) => g)
    <3>1. CASE i = 0 /\ s
      <4>1. Fading(mainQ[d], v, k, 0) /\ (k \notin Filled(v) => g)
        BY <1>0, <3>1 DEF Lasting, Seen
      <4> QED BY <2>2, <2>3, <3>1, <4>1, <1>0
    <3>2. CASE ~(i = 0 /\ s)
      <4>1. i + 1 \in 1..n /\ i + 1 \in 0..n /\ Has(mainQ[d], i + 1, k)
        BY <1>0, <1>2, <2>1, <2>4, <3>2 DEF Seen
      <4>2. Fading(mainQ[d], v, k, i + 1) /\ (k \notin Filled(v) => g)
        BY <4>1 DEF Lasting, Seen
      <4> QED BY <2>2, <4>2
    <3> QED BY <3>1, <3>2
  <2> QED BY <1>2, <2>4 DEF Lasting
<1>3. CASE q = mainQ[d]
  BY <1>1, <1>3
<1>4. CASE mainQ[d] # << >> /\ \E m \in Head(mainQ[d]).to : q = Popped(d, m)
  BY <1>0, <1>1, <1>2, <1>4, PoppedIs
<1> HIDE DEF n
<1> QED BY <1>3, <1>4 DEF Taken

\* and it goes for good
LEMMA RaisedLasts ==
    ASSUME NEW q, NEW v, NEW k, NEW g, NEW s, Len(q) \in Nat, Lasting(q, v, k, g, s),
           NEW q2, NEW v2, NEW g2, Extends(q2, q, v2), Len(q2) \in Nat,
           g => g2, g2 => k \notin Filled(v2), k \in Filled(v) /\ k \notin Filled(v2) => g2
    PROVE  Lasting(q2, v2, k, g2, s)
<1> DEFINE n == Len(q) + 1
<1>1. \A i \in 1..Len(q2) : \/ i \in 1..Len(q) /\ i < n /\ (Has(q2, i, k) <=> Has(q, i, k))
                            \/ i = n /\ (Has(q2, i, k) <=> k \in Filled(v2))
  BY DEF Extends, Has
<1>2. ASSUME NEW i \in 0..Len(q2), Seen(q2, s, k, i)
      PROVE  Fading(q2, v2, k, i) /\ (k \notin Filled(v2) => g2)
  <2>1. CASE i = n
    <3>1. \A j \in 1..Len(q2) : ~(j > n)
      BY <1>1
    <3>2. i \in 1..Len(q2)
      BY <1>2, <2>1
    <3>3. k \in Filled(v2)
      BY <1>1, <1>2, <2>1, <3>2 DEF Seen
    <3> HIDE DEF n
    <3> QED BY <2>1, <3>1, <3>3 DEF Fading
  <2>2. CASE i # n
    <3>1. i \in 0..Len(q) /\ Seen(q, s, k, i)
      BY <1>1, <1>2, <2>2 DEF Seen
    <3>2. Fading(q, v, k, i) /\ (k \notin Filled(v) => g)
      BY <3>1 DEF Lasting
    <3>3. k \in Filled(v2) => k \in Filled(v)
      BY <3>2
    <3>4. ASSUME NEW j \in 1..Len(q2), j > i
          PROVE  /\ k \in Filled(v2) => Has(q2, j, k)
                 /\ \A m \in 1..Len(q2) : m > j /\ Has(q2, m, k) => Has(q2, j, k)
      <4>1. CASE j = n
        <5>1. \A m \in 1..Len(q2) : ~(m > n)
          BY <1>1
        <5> QED BY <1>1, <4>1, <5>1
      <4>2. CASE j \in 1..Len(q) /\ (Has(q2, j, k) <=> Has(q, j, k))
        <5>1. /\ k \in Filled(v) => Has(q, j, k)
              /\ \A m \in 1..Len(q) : m > j /\ Has(q, m, k) => Has(q, j, k)
          BY <3>2, <3>4, <4>2 DEF Fading
        <5> HIDE DEF n
        <5> QED BY <1>1, <3>3, <4>2, <5>1
      <4> QED BY <1>1, <4>1, <4>2
    <3> QED BY <3>2, <3>4 DEF Fading
  <2> QED BY <2>1, <2>2
<1> QED BY <1>2 DEF Lasting

LEMMA StepLasts ==
    ASSUME DBTypeOK, NEW d \in Devices, NEW M, DBStep(d, M), NEW e \in Devices,
           NEW k, NEW g, NEW s, Lasting(mainQ[e], View(e), k, g, s),
           NEW s2, s2 => s \/ (mainQ[e] # << >> /\ Has(mainQ[e], 1, k)),
           NEW g2, g => g2, g2 => k \notin Filled(View(e)'),
           k \in Filled(View(e)) /\ k \notin Filled(View(e)') => g2, Ended(e) => ~s2
    PROVE  Lasting(mainQ'[e], View(e)', k, g2, s2)
<1>1. CASE Ended(e)
  BY <1>1 DEF Ended, Lasting, Seen
<1>2. ASSUME NEW q \in Seq(Event), NEW M2, Taken(e, M2, q), Extends(mainQ'[e], q, View(e)')
      PROVE  Lasting(mainQ'[e], View(e)', k, g2, s2)
  <2>1. PICK v, v2, q2 : v = View(e) /\ v2 = View(e)' /\ q2 = mainQ'[e]
    OBVIOUS
  <2>2. Lasting(q, v, k, g, s2)
    BY <1>2, <2>1, TakenLasts
  <2>3. q2 \in Seq(Event)
    BY <2>1, StepType DEF DBTypeOK
  <2>4. Len(q) \in Nat /\ Len(q2) \in Nat /\ Extends(q2, q, v2)
    BY <1>2, <2>1, <2>3
  <2>5. Lasting(q2, v2, k, g2, s2)
    BY <2>1, <2>2, <2>4, RaisedLasts
  <2> QED BY <2>1, <2>5
<1> QED BY <1>1, <1>2, StepExtends
=============================================================================
