----------------------- MODULE DatabaseHistoryProofs ------------------------
(***************************************************************************)
(* The database library implements the promise of SharedLocation.          *)
(***************************************************************************)
EXTENDS DatabaseHistory, DatabaseClientProofs

-----------------------------------------------------------------------------
(* The history variables only watch.                                       *)
LEMMA HistoryWatches == [HNext]_hvars => [Next]_vars
<1> SUFFICES ASSUME [HNext]_hvars PROVE [Next]_vars
  OBVIOUS
<1>1. ASSUME NEW d \in Devices,
             \/ HLocal(d) \/ HData(d) \/ HAck(d) \/ HListening(d)
             \/ HAccept(d) \/ HRefuse(d) \/ HReconnect(d) \/ HKill(d)
      PROVE  \/ Register(d) \/ Change(d) \/ Callback(d) \/ Receive(d)
             \/ Listening(d) \/ Accept(d) \/ Refuse(d) \/ Reconnect(d) \/ Kill(d)
  BY <1>1, Zenon DEF HLocal, HData, HAck, HListening, HAccept, HRefuse, HReconnect, HKill, Receive
<1>2. CASE HNext
  BY <1>1, <1>2, Zenon DEF HNext, Next
<1>3. CASE UNCHANGED hvars
  BY <1>3 DEF hvars
<1> QED BY <1>2, <1>3

-----------------------------------------------------------------------------
(* Chains of messages: what their links are made of.                       *)
LEMMA FunctionIsSeq ==
    ASSUME NEW S, NEW n \in Nat, NEW f \in [1..n -> S]
    PROVE  f \in Seq(S) /\ Len(f) = n
  OBVIOUS

LEMMA Difference == ASSUME NEW x \in Nat, NEW y \in Nat, y <= x PROVE x - y \in Nat
  OBVIOUS

LEMMA BeforeType ==
    ASSUME NEW b \in Nat, NEW tr \in Seq(Stamp)
    PROVE  /\ \A i \in 1..Len(tr) :
                  tr[i] \in Stamp /\ tr[i].at \in Nat /\ tr[i].nth \in Nat
           /\ \A i \in 1..(Len(tr) + 1) :
                  /\ Before(b, tr, i).at \in Nat /\ Before(b, tr, i).nth \in Nat
                  /\ i # 1 => i - 1 \in 1..Len(tr) /\ Before(b, tr, i) = tr[i - 1]
           /\ End(b, tr).at \in Nat /\ End(b, tr).nth \in Nat
<1>1. ASSUME NEW i \in 1..Len(tr)
      PROVE  tr[i] \in Stamp /\ tr[i].at \in Nat /\ tr[i].nth \in Nat
  <2>1. tr[i] \in Stamp
    OBVIOUS
  <2> QED BY <2>1 DEF Stamp
<1>2. ASSUME NEW i \in 1..(Len(tr) + 1)
      PROVE  /\ Before(b, tr, i).at \in Nat /\ Before(b, tr, i).nth \in Nat
             /\ i # 1 => i - 1 \in 1..Len(tr) /\ Before(b, tr, i) = tr[i - 1]
  <2>1. i # 1 => i - 1 \in 1..Len(tr)
    OBVIOUS
  <2> QED BY <1>1, <2>1 DEF Before
<1>3. Len(tr) + 1 \in 1..(Len(tr) + 1)
  <2>1. Len(tr) \in Nat
    OBVIOUS
  <2> QED BY <2>1
<1> QED BY <1>1, <1>2, <1>3 DEF End

(* A message sent last: the chain before it is as it was.                  *)
LEMMA AppendedLinks ==
    ASSUME NEW b \in Nat, NEW tr \in Seq(Stamp), NEW s \in Stamp
    PROVE  LET tr2 == Append(tr, s)
           IN  /\ tr2 \in Seq(Stamp) /\ Len(tr2) = Len(tr) + 1
               /\ \A i \in 1..Len(tr) : tr2[i] = tr[i]
               /\ tr2[Len(tr) + 1] = s
               /\ \A i \in 1..(Len(tr) + 1) : Before(b, tr2, i) = Before(b, tr, i)
               /\ End(b, tr2) = s
<1> DEFINE tr2 == Append(tr, s)
<1>1. /\ tr2 \in Seq(Stamp) /\ Len(tr2) = Len(tr) + 1 /\ Len(tr) \in Nat
      /\ \A i \in 1..Len(tr) : tr2[i] = tr[i]
      /\ tr2[Len(tr) + 1] = s
  OBVIOUS
<1> HIDE DEF tr2
<1>2. ASSUME NEW i \in 1..(Len(tr) + 1) PROVE Before(b, tr2, i) = Before(b, tr, i)
  <2>1. i # 1 => i - 1 \in 1..Len(tr)
    BY <1>1
  <2> QED BY <1>1, <2>1 DEF Before
<1>3. End(b, tr2) = s
  <2>1. (Len(tr) + 1) + 1 # 1 /\ ((Len(tr) + 1) + 1) - 1 = Len(tr) + 1
    BY <1>1
  <2> QED BY <1>1, <2>1 DEF End, Before
<1> QED BY <1>1, <1>2, <1>3 DEF tr2

(* ... so it only has to continue where the chain ended.                   *)
LEMMA ChainAppend ==
    ASSUME NEW lg \in Seq(Tree), NEW ft \in Seq(Nat), NEW ft2 \in Seq(Nat),
           NEW box \in Seq(Message), NEW b \in Nat, NEW tr \in Seq(Stamp),
           NEW m \in Message, NEW s \in Stamp,
           Chain(lg, ft, box, b, tr),
           ft2 = ft \/ \E x \in Nat : ft2 = Append(ft, x),
           s.nth = Len(ft2),
           m.t = "data" => /\ ft2 = ft /\ s.at \in 1..Len(lg) /\ s.at >= End(b, tr).at
                           /\ m.val = lg[s.at],
           m.t = "ack" => s.at = End(b, tr).at /\ ft2 = Append(ft, s.at)
    PROVE  Chain(lg, ft2, Append(box, m), b, Append(tr, s))
<1> DEFINE tr2 == Append(tr, s)
           box2 == Append(box, m)
           n == Len(box)
<1>1. /\ box2 \in Seq(Message) /\ Len(box2) = n + 1 /\ n \in Nat
      /\ \A i \in 1..n : box2[i] = box[i]
      /\ box2[n + 1] = m
  OBVIOUS
<1>2. /\ Len(tr) = n /\ End(b, tr).nth = Len(ft)
      /\ \A i \in 1..n : Continues(lg, ft, box, b, tr, i)
      /\ \A i, j \in 1..n : i <= j => tr[i].nth <= tr[j].nth
  BY DEF Chain
<1>3. /\ tr2 \in Seq(Stamp) /\ Len(tr2) = n + 1
      /\ \A i \in 1..n : tr2[i] = tr[i]
      /\ tr2[n + 1] = s
      /\ \A i \in 1..(n + 1) : Before(b, tr2, i) = Before(b, tr, i)
      /\ End(b, tr2) = s /\ End(b, tr) = Before(b, tr, n + 1)
  BY <1>2, AppendedLinks DEF End
<1>4. /\ Len(ft) \in Nat /\ Len(ft2) \in Nat /\ Len(ft) <= Len(ft2)
      /\ \A k \in 1..Len(ft) : ft2[k] = ft[k]
  <2>1. CASE ft2 = ft
    BY <2>1
  <2>2. CASE \E x \in Nat : ft2 = Append(ft, x)
    <3>1. PICK x \in Nat : ft2 = Append(ft, x)
      BY <2>2
    <3>2. Len(ft2) = Len(ft) + 1 /\ Len(ft) \in Nat /\ \A k \in 1..Len(ft) : ft2[k] = ft[k]
      BY <3>1
    <3> QED BY <3>2
  <2> QED BY <2>1, <2>2
<1>0. n \in Nat
  BY <1>1
<1> HIDE DEF tr2, box2, n
<1>5. ASSUME NEW i \in 1..n PROVE Continues(lg, ft2, box2, b, tr2, i)
  <2>0. Continues(lg, ft, box, b, tr, i)
    BY <1>2
  <2>1. Continues(lg, ft, box, b, tr, i) /\ i \in 1..(n + 1)
    BY <1>0, <2>0
  <2>2. tr2[i] = tr[i] /\ box2[i] = box[i] /\ Before(b, tr2, i) = Before(b, tr, i)
    BY <1>1, <1>3, <2>1
  <2>3. tr[i].nth \in Nat /\ Before(b, tr, i).nth \in Nat
    BY <1>2, <2>1, BeforeType
  <2>4. ASSUME box[i].t = "ack" PROVE tr[i].nth \in 1..Len(ft)
    <3>1. tr[i].nth = Before(b, tr, i).nth + 1 /\ tr[i].nth <= Len(ft)
      BY <2>1, <2>4 DEF Continues
    <3> QED BY <2>3, <3>1, <1>4
  <2>5. ASSUME box[i].t = "ack"
        PROVE  ft2[tr[i].nth] = ft[tr[i].nth] /\ tr[i].nth <= Len(ft2)
    <3>1. tr[i].nth \in 1..Len(ft)
      BY <2>4, <2>5
    <3>2. ft2[tr[i].nth] = ft[tr[i].nth]
      BY <1>4, <3>1, Zenon
    <3>3. \A k \in 1..Len(ft) : k <= Len(ft2)
      BY <1>4
    <3>4. tr[i].nth <= Len(ft2)
      BY <3>1, <3>3, Zenon
    <3> QED BY <3>2, <3>4
  <2> QED BY <2>1, <2>2, <2>5 DEF Continues
<1>6. Continues(lg, ft2, box2, b, tr2, n + 1)
  <2>1. Before(b, tr2, n + 1) = End(b, tr) /\ tr2[n + 1] = s /\ box2[n + 1] = m
    BY <1>1, <1>3
  <2>2. CASE m.t = "data"
    BY <1>2, <2>1, <2>2 DEF Continues
  <2>3. CASE m.t = "ack"
    <3>1. ft2 = Append(ft, s.at) /\ s.at \in Nat
      BY <2>3 DEF Stamp
    <3>2. Len(ft2) = Len(ft) + 1 /\ ft2[Len(ft2)] = s.at
      BY <3>1
    <3> QED BY <1>2, <1>4, <2>1, <2>3, <3>1, <3>2 DEF Continues
  <2> QED BY <2>1, <2>2, <2>3 DEF Continues
<1>7. ASSUME NEW i \in 1..(n + 1), NEW j \in 1..(n + 1), i <= j
      PROVE  tr2[i].nth <= tr2[j].nth
  <2>1. ASSUME NEW k \in 1..n PROVE tr[k].nth <= Len(ft) /\ tr[k].nth \in Nat
    <3>1. n \in 1..n /\ k <= n /\ n + 1 # 1 /\ (n + 1) - 1 = n
      BY <1>0, SMTT(30)
    <3>2. End(b, tr) = tr[n]
      BY <1>3, <3>1 DEF Before
    <3>3. tr[k].nth <= tr[n].nth
      BY <1>2, <3>1
    <3>4. tr[k].nth \in Nat
      BY <1>2, BeforeType
    <3> QED BY <1>2, <3>2, <3>3, <3>4
  <2>2. CASE j = n + 1
    <3>1. CASE i = n + 1
      BY <1>3, <1>4, <2>2, <3>1
    <3>2. CASE i # n + 1
      <4>1. i \in 1..n
        BY <1>1, <3>2
      <4>2. tr2[i] = tr[i] /\ tr2[j] = s
        BY <1>3, <2>2, <4>1
      <4>3. tr[i].nth <= Len(ft) /\ tr[i].nth \in Nat
        BY <2>1, <4>1
      <4>4. Len(ft) <= s.nth /\ s.nth \in Nat
        BY <1>4
      <4> QED BY <4>2, <4>3, <4>4, SMTT(30)
    <3> QED BY <3>1, <3>2
  <2>3. CASE j # n + 1
    <3>1. j \in 1..n /\ i \in 1..n
      BY <1>1, <1>7, <2>3
    <3> QED BY <1>2, <1>3, <1>7, <3>1
  <2> QED BY <2>2, <2>3
<1>8. \A i \in 1..(n + 1) : Continues(lg, ft2, box2, b, tr2, i)
  <2>1. \A i \in 1..(n + 1) : i = n + 1 \/ i \in 1..n
    BY <1>1
  <2> QED BY <1>5, <1>6, <2>1
<1>9. Chain(lg, ft2, box2, b, tr2)
  BY <1>1, <1>3, <1>7, <1>8 DEF Chain
<1> QED BY <1>9 DEF tr2, box2

(* The log only grows.                                                     *)
LEMMA ChainGrows ==
    ASSUME NEW lg \in Seq(Tree), NEW v \in Tree, NEW ft, NEW box, NEW b, NEW tr,
           Chain(lg, ft, box, b, tr)
    PROVE  Chain(Append(lg, v), ft, box, b, tr)
<1>1. /\ Len(Append(lg, v)) = Len(lg) + 1 /\ Len(lg) \in Nat
      /\ \A n \in 1..Len(lg) : Append(lg, v)[n] = lg[n] /\ n \in 1..(Len(lg) + 1)
  OBVIOUS
<1>2. ASSUME NEW i \in 1..Len(box) PROVE Continues(Append(lg, v), ft, box, b, tr, i)
  <2>1. Continues(lg, ft, box, b, tr, i)
    BY DEF Chain
  <2> QED BY <1>1, <2>1 DEF Continues
<1> QED BY <1>2 DEF Chain

LEMMA ShiftedIn ==
    ASSUME NEW x \in Nat, NEW y \in Nat, NEW c \in Nat, NEW k, k = x + 1, c <= x, k <= y
    PROVE  k - c \in 1..(y - c) /\ (k - c) + c = k /\ k - c = (x - c) + 1
  OBVIOUS

LEMMA ShiftedOrder ==
    ASSUME NEW x \in Nat, NEW y \in Nat, NEW c \in Nat, x <= y
    PROVE  x - c <= y - c
  OBVIOUS

(* The first message processed: the chain starts where it ended.           *)
Linked(lg, ft, box, b, tr) ==
    /\ lg \in Seq(Tree) /\ ft \in Seq(Nat) /\ box \in Seq(Message)
    /\ b \in Nat /\ tr \in Seq(Stamp)
    /\ Chain(lg, ft, box, b, tr)

Processed(lg, ft, ft2, box, b, tr) ==
    /\ Rest(tr) \in Seq(Stamp)
    /\ Chain(lg, ft2, Tail(box), tr[1].at, Rest(tr))
    /\ End(tr[1].at, Rest(tr)).at = End(b, tr).at
    /\ box[1].t = "data" => tr[1].at \in 1..Len(lg) /\ tr[1].at >= b
                            /\ box[1].val = lg[tr[1].at]
    /\ box[1].t = "ack" => tr[1].at = b /\ ft # << >> /\ Head(ft) <= b

LEMMA ChainRest ==
    ASSUME NEW lg, NEW ft, NEW ft2, NEW box, NEW b, NEW tr,
           Linked(lg, ft, box, b, tr), box # << >>, ft2 \in Seq(Nat),
           ft2 = IF box[1].t = "ack" THEN Tail(ft) ELSE ft
    PROVE  Processed(lg, ft, ft2, box, b, tr)
<1> SUFFICES ASSUME lg \in Seq(Tree), ft \in Seq(Nat), ft2 \in Seq(Nat),
                    box \in Seq(Message), b \in Nat, tr \in Seq(Stamp),
                    Chain(lg, ft, box, b, tr),
                    box[1].t = "data" => ft2 = ft,
                    box[1].t = "ack" => ft2 = Tail(ft)
             PROVE  Processed(lg, ft, ft2, box, b, tr)
  BY DEF Linked
<1> DEFINE n == Len(box)
           box2 == Tail(box)
           c == tr[1].nth
           b2 == tr[1].at
           tr2 == Rest(tr)
<1>0. n \in Nat /\ n >= 1 /\ Len(tr) = n /\ 1 \in 1..n
  BY DEF Chain
<1>1. Len(box2) = n - 1 /\ box2 \in Seq(Message) /\ \A i \in 1..(n - 1) : box2[i] = box[i + 1]
  OBVIOUS
<1>2. \A i \in 1..n : box[i].t \in {"data", "ack"}
  <2>1. \A i \in 1..n : box[i] \in Message
    OBVIOUS
  <2> QED BY <2>1 DEF Message
<1>3. /\ \A i \in 1..n : tr[i].at \in Nat /\ tr[i].nth \in Nat
      /\ \A i \in 1..n : Continues(lg, ft, box, b, tr, i)
      /\ \A i, j \in 1..n : i <= j => tr[i].nth <= tr[j].nth
      /\ End(b, tr).nth = Len(ft)
  BY <1>0, BeforeType DEF Chain
<1>4. /\ b2 \in Nat /\ c \in Nat
      /\ box[1].t = "data" => c = 0 /\ b2 \in 1..Len(lg) /\ b2 >= b /\ box[1].val = lg[b2]
      /\ box[1].t = "ack" => c = 1 /\ b2 = b /\ Len(ft) >= 1 /\ ft[1] <= b
  <2>1. Before(b, tr, 1) = [at |-> b, nth |-> 0] /\ Continues(lg, ft, box, b, tr, 1)
    BY <1>0, <1>3 DEF Before
  <2>2. b2 \in Nat /\ c \in Nat
    BY <1>0, <1>3
  <2> HIDE DEF b2, c
  <2>3. tr[1].at = b2 /\ tr[1].nth = c
    BY DEF b2, c
  <2>4. CASE box[1].t = "data"
    BY <2>1, <2>2, <2>3, <2>4 DEF Continues
  <2>5. CASE box[1].t = "ack"
    <3>1. c = 1 /\ b2 = b /\ c <= Len(ft) /\ ft[c] <= b2
      BY <2>1, <2>2, <2>3, <2>5 DEF Continues
    <3> QED BY <2>5, <3>1
  <2> QED BY <2>2, <2>4, <2>5
<1>5. /\ Len(ft2) = Len(ft) - c /\ Len(ft) \in Nat
      /\ \A k \in 1..(Len(ft) - c) : ft2[k] = ft[k + c]
  <2>1. CASE box[1].t = "data"
    <3>1. c = 0 /\ ft2 = ft
      BY <1>4, <2>1
    <3> HIDE DEF c
    <3> QED BY <3>1
  <2>2. CASE box[1].t = "ack"
    <3>1. c = 1 /\ ft2 = Tail(ft) /\ Len(ft) >= 1
      BY <1>4, <2>2
    <3> HIDE DEF c
    <3> QED BY <3>1
  <2> QED BY <1>0, <1>2, <2>1, <2>2
<1>6. \A i \in 1..(n - 1) : i + 1 \in 1..n /\ i \in 1..n /\ i + 1 # 1 /\ (i + 1) - 1 = i
  BY <1>0
<1>7. c \in Nat /\ \A i \in 1..n : c <= tr[i].nth
  BY <1>0, <1>3
<1> HIDE DEF n, c, b2, box2
<1>8. /\ Len(tr2) = n - 1 /\ tr2 \in Seq(Stamp)
      /\ \A i \in 1..(n - 1) : tr2[i] = [at |-> tr[i + 1].at, nth |-> tr[i + 1].nth - c]
  <2>1. tr2 = [i \in 1..(n - 1) |-> [at |-> tr[i + 1].at, nth |-> tr[i + 1].nth - c]]
    BY <1>0 DEF Rest, c
  <2>2. ASSUME NEW i \in 1..(n - 1)
        PROVE  [at |-> tr[i + 1].at, nth |-> tr[i + 1].nth - c] \in Stamp
    <3>0. PICK j \in 1..n : j = i + 1
      BY <1>6
    <3>1. tr[j].at \in Nat /\ tr[j].nth \in Nat /\ c <= tr[j].nth /\ c \in Nat
      BY <1>3, <1>7
    <3>2. tr[j].nth - c \in Nat
      BY <3>1, Difference, Zenon
    <3> QED BY <3>0, <3>1, <3>2 DEF Stamp
  <2>3. n - 1 \in Nat
    BY <1>0
  <2> HIDE DEF tr2
  <2>4. tr2 \in [1..(n - 1) -> Stamp]
    <3>1. \A i \in 1..(n - 1) : tr2[i] \in Stamp
      BY <2>1, <2>2, Zenon
    <3>2. tr2 = [i \in 1..(n - 1) |-> tr2[i]]
      BY <2>1, Zenon
    <3> QED BY <3>1, <3>2
  <2>5. Len(tr2) = n - 1 /\ tr2 \in Seq(Stamp)
    BY <2>3, <2>4, FunctionIsSeq, Zenon
  <2>6. \A i \in 1..(n - 1) : tr2[i] = [at |-> tr[i + 1].at, nth |-> tr[i + 1].nth - c]
    BY <2>1, Zenon
  <2> QED BY <2>5, <2>6, Zenon
<1> HIDE DEF tr2
<1>9. ASSUME NEW i \in 1..n
      PROVE  /\ Before(b2, tr2, i).at = Before(b, tr, i + 1).at
             /\ Before(b2, tr2, i).nth = Before(b, tr, i + 1).nth - c
             /\ Before(b, tr, i + 1) = tr[i]
  <2>1. i + 1 # 1 /\ (i + 1) - 1 = i
    BY <1>0
  <2>2. Before(b, tr, i + 1) = tr[i]
    BY <2>1 DEF Before
  <2>3. CASE i = 1
    BY <1>4, <2>2, <2>3 DEF Before, c, b2
  <2>4. CASE i # 1
    <3>1. i - 1 \in 1..(n - 1) /\ (i - 1) + 1 = i
      BY <1>0, <2>4
    <3>2. tr2[i - 1] = [at |-> tr[i].at, nth |-> tr[i].nth - c]
      BY <1>8, <3>1
    <3> QED BY <2>2, <2>4, <3>2 DEF Before
  <2> QED BY <2>3, <2>4
<1>10. ASSUME NEW i \in 1..(n - 1) PROVE Continues(lg, ft2, box2, b2, tr2, i)
  <2>1. /\ Continues(lg, ft, box, b, tr, i + 1)
        /\ box2[i] = box[i + 1] /\ tr2[i].at = tr[i + 1].at /\ tr2[i].nth = tr[i + 1].nth - c
        /\ Before(b2, tr2, i).at = Before(b, tr, i + 1).at
        /\ Before(b2, tr2, i).nth = Before(b, tr, i + 1).nth - c
        /\ Before(b, tr, i + 1) = tr[i]
    <3>1. i \in 1..n /\ i + 1 \in 1..n
      BY <1>6, Zenon
    <3>2. Continues(lg, ft, box, b, tr, i + 1)
      BY <1>3, <3>1, Zenon
    <3>3. tr2[i].at = tr[i + 1].at /\ tr2[i].nth = tr[i + 1].nth - c
      BY <1>8, SMTT(30)
    <3> QED BY <1>1, <1>9, <3>1, <3>2, <3>3, Zenon
  <2>2. tr[i].nth \in Nat /\ c <= tr[i].nth /\ tr[i + 1].nth \in Nat /\ tr[i + 1].at \in Nat
    BY <1>3, <1>6, <1>7, Zenon
  <2>3. CASE box[i + 1].t = "data"
    BY <2>1, <2>3 DEF Continues
  <2>4. CASE box[i + 1].t = "ack"
    <3> DEFINE k == tr[i + 1].nth
    <3>1. k = tr[i].nth + 1 /\ k <= Len(ft) /\ ft[k] <= tr[i + 1].at /\ tr[i + 1].at = tr[i].at
      BY <2>1, <2>4 DEF Continues
    <3> HIDE DEF k
    <3>2. k - c \in 1..(Len(ft) - c) /\ (k - c) + c = k /\ k - c = (tr[i].nth - c) + 1
      <4>1. Len(ft) \in Nat /\ c \in Nat /\ k = tr[i].nth + 1 /\ k <= Len(ft)
            /\ tr[i].nth \in Nat /\ c <= tr[i].nth
        BY <1>5, <1>7, <2>2, <3>1, Zenon
      <4> DEFINE x == tr[i].nth
                 y == Len(ft)
      <4>2. x \in Nat /\ y \in Nat /\ c \in Nat /\ k = x + 1 /\ c <= x /\ k <= y
        BY <4>1
      <4> HIDE DEF x, y
      <4>3. k - c \in 1..(y - c) /\ (k - c) + c = k /\ k - c = (x - c) + 1
        BY <4>2, ShiftedIn
      <4> QED BY <4>3 DEF x, y
    <3>3. ft2[k - c] = ft[k]
      BY <1>5, <3>2
    <3>4. tr2[i].nth = k - c
      BY <2>1 DEF k
    <3>5. k - c <= Len(ft2)
      BY <1>5, <3>2
    <3>6. /\ tr2[i].at = Before(b2, tr2, i).at /\ tr2[i].nth = Before(b2, tr2, i).nth + 1
          /\ tr2[i].nth <= Len(ft2) /\ ft2[tr2[i].nth] <= tr2[i].at
      BY <2>1, <3>1, <3>2, <3>3, <3>4, <3>5
    <3> QED BY <2>1, <2>4, <3>6 DEF Continues
  <2> QED BY <1>2, <1>6, <2>3, <2>4
<1>11. ASSUME NEW i \in 1..(n - 1), NEW j \in 1..(n - 1), i <= j
       PROVE  tr2[i].nth <= tr2[j].nth
  <2>1. i + 1 \in 1..n /\ j + 1 \in 1..n /\ i + 1 <= j + 1
    BY <1>0, <1>11
  <2>2. tr[i + 1].nth <= tr[j + 1].nth /\ tr[i + 1].nth \in Nat /\ tr[j + 1].nth \in Nat
    BY <1>3, <2>1
  <2>3. tr2[i].nth = tr[i + 1].nth - c /\ tr2[j].nth = tr[j + 1].nth - c
    <3>1. tr2[i] = [at |-> tr[i + 1].at, nth |-> tr[i + 1].nth - c]
      BY <1>8, <1>11
    <3>2. tr2[j] = [at |-> tr[j + 1].at, nth |-> tr[j + 1].nth - c]
      BY <1>8, <1>11
    <3> QED BY <3>1, <3>2
  <2>4. tr[i + 1].nth - c <= tr[j + 1].nth - c
    BY <1>7, <2>2, ShiftedOrder
  <2> QED BY <2>3, <2>4
<1>12. End(b2, tr2).at = End(b, tr).at /\ End(b2, tr2).nth = Len(ft2)
  <2>1. n \in 1..n /\ (n - 1) + 1 = n
    BY <1>0
  <2>2. End(b2, tr2) = Before(b2, tr2, n) /\ End(b, tr) = Before(b, tr, n + 1)
    BY <1>0, <1>8, <2>1 DEF End
  <2> QED BY <1>3, <1>5, <1>9, <2>1, <2>2
<1>13. Chain(lg, ft2, box2, b2, tr2)
  BY <1>1, <1>8, <1>10, <1>11, <1>12 DEF Chain
<1>14. box[1].t = "ack" => ft # << >> /\ Head(ft) = ft[1]
  BY <1>4
<1> QED BY <1>4, <1>8, <1>12, <1>13, <1>14 DEF box2, b2, tr2, Processed

(* Nothing on its way.                                                     *)
LEMMA EmptyChain ==
    ASSUME NEW lg, NEW b
    PROVE  Chain(lg, << >>, << >>, b, << >>) /\ End(b, << >>).at = b
  BY DEF Chain, End, Before

(* A message is sent; the log grows.                                       *)
Extended(lg, ft, box, m, b, tr, s) ==
    /\ Linked(lg, ft, Append(box, m), b, Append(tr, s))
    /\ End(b, Append(tr, s)) = s

LEMMA DataSent ==
    ASSUME NEW lg, NEW ft, NEW box, NEW m, NEW b, NEW tr, NEW s,
           Linked(lg, ft, box, b, tr), m \in Message, m.t = "data", s \in Stamp,
           s.nth = Len(ft), s.at \in 1..Len(lg), s.at >= End(b, tr).at, m.val = lg[s.at]
    PROVE  Extended(lg, ft, box, m, b, tr, s)
<1>1. /\ lg \in Seq(Tree) /\ ft \in Seq(Nat) /\ box \in Seq(Message)
      /\ b \in Nat /\ tr \in Seq(Stamp) /\ Chain(lg, ft, box, b, tr)
  BY DEF Linked
<1>2. m.t # "ack"
  OBVIOUS
<1>3. Chain(lg, ft, Append(box, m), b, Append(tr, s))
  BY <1>1, <1>2, ChainAppend
<1>4. Append(tr, s) \in Seq(Stamp) /\ End(b, Append(tr, s)) = s
  BY <1>1, AppendedLinks
<1> QED BY <1>1, <1>3, <1>4 DEF Extended, Linked

LEMMA AckSent ==
    ASSUME NEW lg, NEW ft, NEW ft2, NEW box, NEW m, NEW b, NEW tr, NEW s,
           Linked(lg, ft, box, b, tr), m \in Message, m.t = "ack", s \in Stamp,
           s.nth = Len(ft) + 1, s.at = End(b, tr).at, ft2 = Append(ft, s.at)
    PROVE  Extended(lg, ft2, box, m, b, tr, s)
<1>1. /\ lg \in Seq(Tree) /\ ft \in Seq(Nat) /\ box \in Seq(Message)
      /\ b \in Nat /\ tr \in Seq(Stamp) /\ Chain(lg, ft, box, b, tr)
  BY DEF Linked
<1>2. m.t # "data" /\ s.at \in Nat
  BY DEF Stamp
<1>3. ft2 \in Seq(Nat) /\ Len(ft2) = Len(ft) + 1
  BY <1>1, <1>2
<1>4. Chain(lg, ft2, Append(box, m), b, Append(tr, s))
  BY <1>1, <1>2, <1>3, ChainAppend
<1>5. Append(tr, s) \in Seq(Stamp) /\ End(b, Append(tr, s)) = s
  BY <1>1, AppendedLinks
<1> QED BY <1>1, <1>3, <1>4, <1>5 DEF Extended, Linked

LEMMA LinkedGrows ==
    ASSUME NEW lg, NEW lg2, NEW v, NEW ft, NEW box, NEW b, NEW tr,
           Linked(lg, ft, box, b, tr), v \in Tree, lg2 = lg \/ lg2 = Append(lg, v)
    PROVE  Linked(lg2, ft, box, b, tr)
<1>1. CASE lg2 = lg
  BY <1>1
<1>2. CASE lg2 = Append(lg, v)
  <2>1. lg \in Seq(Tree) /\ Chain(lg, ft, box, b, tr)
    BY DEF Linked
  <2>2. Chain(lg2, ft, box, b, tr)
    BY <1>2, <2>1, ChainGrows
  <2> QED BY <1>2, <2>1, <2>2 DEF Linked
<1> QED BY <1>1, <1>2

-----------------------------------------------------------------------------
(* The bookkeeping holds at every moment.                                  *)
HInv == TypeOK /\ ListensFirst /\ HTypeOK /\ HistoryOK

LEMMA InitHistory == HInit => HInv
<1> SUFFICES ASSUME HInit PROVE HInv
  OBVIOUS
<1>1. server = NoTree /\ NoTree \in Tree
  BY DEF HInit, Init, DBInit, NoTree, Tree
<1>2. HTypeOK
  BY <1>1 DEF HInit, HTypeOK
<1>3. log # << >> /\ server = log[Len(log)] /\ Len(log) = 1
  BY DEF HInit
<1>4. ASSUME NEW d \in Devices PROVE Tracked(d)
  <2>1. /\ inbox[d] = << >> /\ trail[d] = << >> /\ fate[d] = << >> /\ base[d] = 0
        /\ known[d] = FALSE /\ sub[d] = "off"
    BY DEF HInit, Init, DBInit
  <2>2. Answered(d) = 0
    BY <2>1, NoAnswers DEF Answered
  <2> QED BY <1>3, <2>1, <2>2, EmptyChain DEF Tracked, Placed
<1>5. TypeOK /\ ListensFirst
  BY InitTypeOK, InitListensFirst DEF HInit
<1> QED BY <1>2, <1>3, <1>4, <1>5 DEF HInv, HistoryOK

(* A device that a step does not touch, the log staying as it is.          *)
LEMMA Untouched ==
    ASSUME HInv, NEW e \in Devices,
           log' = log, base'[e] = base[e], fate'[e] = fate[e], trail'[e] = trail[e],
           inbox'[e] = inbox[e], known'[e] = known[e], cache'[e] = cache[e],
           sub'[e] = "on" => sub[e] = "on"
    PROVE  Tracked(e)'
  BY DEF HInv, HistoryOK, Tracked, Placed, Answered

LEMMA DataHistory ==
    ASSUME HInv, NEW d \in Devices, HData(d)
    PROVE  HTypeOK' /\ HistoryOK'
<1>1. /\ inbox[d] # << >> /\ Head(inbox[d]).t = "data"
      /\ inbox' = [inbox EXCEPT ![d] = Tail(@)]
      /\ cache' = [cache EXCEPT ![d] = Head(inbox[d]).val]
      /\ known' = [known EXCEPT ![d] = TRUE]
      /\ base' = [base EXCEPT ![d] = trail[d][1].at]
      /\ trail' = [trail EXCEPT ![d] = Rest(@)]
      /\ UNCHANGED <<server, sub, log, fate>>
  BY DEF HData, OnDataUpdate
<1>2. /\ log \in Seq(Tree) /\ fate[d] \in Seq(Nat) /\ inbox[d] \in Seq(Message)
      /\ base[d] \in Nat /\ trail[d] \in Seq(Stamp) /\ Tracked(d)
      /\ Head(inbox[d]) = inbox[d][1] /\ "data" # "ack"
  BY <1>1 DEF HInv, HTypeOK, HistoryOK, TypeOK, DBTypeOK
<1> DEFINE b2 == trail[d][1].at
<1>3. /\ Rest(trail[d]) \in Seq(Stamp)
      /\ Chain(log, fate[d], Tail(inbox[d]), b2, Rest(trail[d]))
      /\ End(b2, Rest(trail[d])).at = End(base[d], trail[d]).at
      /\ b2 \in 1..Len(log) /\ inbox[d][1].val = log[b2]
  <2> DEFINE ft2 == fate[d]
  <2>1. Linked(log, fate[d], inbox[d], base[d], trail[d])
    BY <1>2 DEF Linked, Tracked
  <2>2. inbox[d][1].t = "data" /\ inbox[d][1].t # "ack" /\ ft2 \in Seq(Nat)
    BY <1>1, <1>2
  <2>3. Processed(log, fate[d], ft2, inbox[d], base[d], trail[d])
    BY <1>1, <2>1, <2>2, ChainRest
  <2> QED BY <2>2, <2>3 DEF Processed
<1> HIDE DEF b2
<1>4. /\ inbox'[d] = Tail(inbox[d]) /\ base'[d] = b2 /\ trail'[d] = Rest(trail[d])
      /\ known'[d] = TRUE /\ cache'[d] = log[b2] /\ fate'[d] = fate[d]
  BY <1>1, <1>2, <1>3 DEF b2, HInv, HTypeOK, TypeOK, DBTypeOK
<1>5. Answered(d)' = Answered(d)
  <2>1. Cardinality(Answers(inbox[d])) = Cardinality(Answers(Tail(inbox[d]))) + 0
    BY <1>1, <1>2, AnswersTail
  <2>2. Tail(inbox[d]) \in Seq(Message)
    BY <1>1, <1>2
  <2>3. Cardinality(Answers(Tail(inbox[d]))) \in Nat
    BY <2>2, AnswersFinite
  <2> QED BY <1>4, <2>1, <2>3 DEF Answered
<1>6. Tracked(d)'
  <2>1. Placed(d)'
    <3>1. b2 >= 1 /\ b2 <= Len(log)
      BY <1>2, <1>3
    <3> QED BY <1>1, <1>4, <3>1 DEF Placed
  <2> QED BY <1>1, <1>2, <1>3, <1>4, <1>5, <2>1 DEF Tracked
<1>7. \A e \in Devices : e # d => Tracked(e)'
  <2>1. ASSUME NEW e \in Devices, e # d PROVE Tracked(e)'
    <3>1. /\ base'[e] = base[e] /\ trail'[e] = trail[e] /\ inbox'[e] = inbox[e]
          /\ known'[e] = known[e] /\ cache'[e] = cache[e]
      BY <1>1, <2>1
    <3> QED BY <1>1, <3>1, Untouched
  <2> QED BY <2>1
<1>8. HTypeOK'
  <2>1. b2 \in Nat
    BY <1>2, <1>3
  <2> QED BY <1>1, <1>3, <2>1 DEF b2, HInv, HTypeOK
<1> QED BY <1>1, <1>6, <1>7, <1>8 DEF HInv, HistoryOK

LEMMA AckHistory ==
    ASSUME HInv, NEW d \in Devices, HAck(d)
    PROVE  HTypeOK' /\ HistoryOK'
<1>1. /\ inbox[d] # << >> /\ Head(inbox[d]).t = "ack"
      /\ inbox' = [inbox EXCEPT ![d] = Tail(@)]
      /\ fate' = [fate EXCEPT ![d] = Tail(@)]
      /\ trail' = [trail EXCEPT ![d] = Rest(@)]
      /\ UNCHANGED <<server, sub, cache, known, log, base>>
  BY DEF HAck, AckWrite
<1>2. /\ log \in Seq(Tree) /\ fate[d] \in Seq(Nat) /\ inbox[d] \in Seq(Message)
      /\ base[d] \in Nat /\ trail[d] \in Seq(Stamp) /\ Tracked(d)
      /\ Head(inbox[d]) = inbox[d][1] /\ "data" # "ack"
  BY <1>1 DEF HInv, HTypeOK, HistoryOK, TypeOK, DBTypeOK
<1>3. fate[d] # << >>
  <2>1. Cardinality(Answers(inbox[d])) = Cardinality(Answers(Tail(inbox[d]))) + 1
    BY <1>1, <1>2, AnswersTail
  <2>2. Tail(inbox[d]) \in Seq(Message)
    BY <1>1, <1>2
  <2>3. Cardinality(Answers(Tail(inbox[d]))) \in Nat
    BY <2>2, AnswersFinite
  <2>4. Len(fate[d]) # 0
    BY <1>2, <2>1, <2>3 DEF Tracked, Answered
  <2> QED BY <2>4
<1>4. Tail(fate[d]) \in Seq(Nat) /\ Len(Tail(fate[d])) = Len(fate[d]) - 1
  BY <1>2, <1>3
<1>5. /\ Rest(trail[d]) \in Seq(Stamp)
      /\ Chain(log, Tail(fate[d]), Tail(inbox[d]), base[d], Rest(trail[d]))
      /\ End(base[d], Rest(trail[d])).at = End(base[d], trail[d]).at
  <2> DEFINE ft2 == Tail(fate[d])
  <2>1. Linked(log, fate[d], inbox[d], base[d], trail[d])
    BY <1>2 DEF Linked, Tracked
  <2>2. inbox[d][1].t = "ack" /\ inbox[d][1].t # "data" /\ ft2 \in Seq(Nat)
    BY <1>1, <1>2, <1>4
  <2> HIDE DEF ft2
  <2>3. ft2 = IF inbox[d][1].t = "ack" THEN Tail(fate[d]) ELSE fate[d]
    BY <2>2 DEF ft2
  <2>4. Processed(log, fate[d], ft2, inbox[d], base[d], trail[d])
    BY <1>1, <2>1, <2>2, <2>3, ChainRest
  <2> QED BY <2>2, <2>4 DEF Processed, ft2
<1>6. inbox'[d] = Tail(inbox[d]) /\ fate'[d] = Tail(fate[d]) /\ trail'[d] = Rest(trail[d])
  BY <1>1 DEF HInv, HTypeOK, TypeOK, DBTypeOK
<1>7. Len(fate'[d]) = Answered(d)'
  <2>1. Cardinality(Answers(inbox[d])) = Cardinality(Answers(Tail(inbox[d]))) + 1
    BY <1>1, <1>2, AnswersTail
  <2>2. Tail(inbox[d]) \in Seq(Message)
    BY <1>1, <1>2
  <2>3. Cardinality(Answers(Tail(inbox[d]))) \in Nat
    BY <2>2, AnswersFinite
  <2> QED BY <1>2, <1>4, <1>6, <2>1, <2>3 DEF Answered, Tracked
<1>8. Tracked(d)'
  BY <1>1, <1>2, <1>5, <1>6, <1>7 DEF Tracked, Placed
<1>9. \A e \in Devices : e # d => Tracked(e)'
  <2>1. ASSUME NEW e \in Devices, e # d PROVE Tracked(e)'
    <3>1. fate'[e] = fate[e] /\ trail'[e] = trail[e] /\ inbox'[e] = inbox[e]
      BY <1>1, <2>1
    <3> QED BY <1>1, <3>1, Untouched
  <2> QED BY <2>1
<1>10. HTypeOK'
  BY <1>1, <1>4, <1>5 DEF HInv, HTypeOK
<1> QED BY <1>1, <1>8, <1>9, <1>10 DEF HInv, HistoryOK

LEMMA DeviceFacts ==
    ASSUME HInv, NEW d \in Devices
    PROVE  /\ Linked(log, fate[d], inbox[d], base[d], trail[d])
           /\ Placed(d) /\ Len(fate[d]) = Answered(d)
           /\ sub[d] = "on" => End(base[d], trail[d]).at = Len(log)
           /\ log \in Seq(Tree) /\ log # << >> /\ Len(log) \in Nat /\ Len(log) >= 1
           /\ server \in Tree /\ server = log[Len(log)]
           /\ base[d] \in Nat /\ Len(fate[d]) \in Nat /\ fate[d] \in Seq(Nat)
           /\ inbox[d] \in Seq(Message) /\ trail[d] \in Seq(Stamp)
           /\ End(base[d], trail[d]).at \in Nat
<1>1. /\ log \in Seq(Tree) /\ log # << >> /\ server = log[Len(log)] /\ server \in Tree
      /\ base[d] \in Nat /\ fate[d] \in Seq(Nat) /\ trail[d] \in Seq(Stamp)
      /\ inbox[d] \in Seq(Message) /\ Tracked(d)
  BY DEF HInv, HTypeOK, HistoryOK, TypeOK, DBTypeOK
<1>2. Len(log) \in Nat /\ Len(log) >= 1 /\ Len(fate[d]) \in Nat
  BY <1>1
<1>3. Linked(log, fate[d], inbox[d], base[d], trail[d])
  BY <1>1 DEF Linked, Tracked
<1> QED BY <1>1, <1>2, <1>3, BeforeType DEF Tracked

LEMMA ListeningHistory ==
    ASSUME HInv, NEW d \in Devices, HListening(d)
    PROVE  HTypeOK' /\ HistoryOK'
<1> DEFINE m == Data(server)
           s == Stamped(Len(fate[d]))
<1>1. /\ sub[d] = "asked" /\ sub' = [sub EXCEPT ![d] = "on"]
      /\ inbox' = [inbox EXCEPT ![d] = Append(@, m)]
      /\ trail' = [trail EXCEPT ![d] = Append(@, s)]
      /\ UNCHANGED <<server, cache, known, log, base, fate>>
  BY DEF HListening, Listening, ServerListen
<1>2. s = [at |-> Len(log), nth |-> Len(fate[d])] /\ s \in Stamp
  BY <1>1, DeviceFacts DEF Stamped, Stamp
<1>3. m \in Message /\ m.t = "data" /\ m.val = server
  BY DeviceFacts DEF Data, Message
<1> HIDE DEF m, s
<1>4. inbox[d] = << >>
  BY <1>1 DEF HInv, ListensFirst
<1>5. End(base[d], trail[d]).at = base[d] /\ base[d] <= Len(log)
  <2>1. Chain(log, fate[d], inbox[d], base[d], trail[d])
    BY DeviceFacts DEF Linked
  <2>2. Len(trail[d]) = 0
    BY <1>4, <2>1 DEF Chain
  <2> QED BY <2>2, DeviceFacts DEF End, Before, Placed
<1>6. Extended(log, fate[d], inbox[d], m, base[d], trail[d], s)
  <2>1. s.nth = Len(fate[d]) /\ s.at = Len(log) /\ s.at \in 1..Len(log)
    BY <1>2, DeviceFacts
  <2>2. s.at >= End(base[d], trail[d]).at /\ m.val = log[s.at]
    BY <1>3, <1>5, <2>1, DeviceFacts
  <2>3. Linked(log, fate[d], inbox[d], base[d], trail[d])
    BY DeviceFacts
  <2> QED BY <1>2, <1>3, <2>1, <2>2, <2>3, DataSent
<1>7. inbox'[d] = Append(inbox[d], m) /\ trail'[d] = Append(trail[d], s)
  BY <1>1 DEF HInv, HTypeOK, TypeOK, DBTypeOK
<1>8. Answered(d)' = Answered(d)
  <2>1. Cardinality(Answers(Append(inbox[d], m))) = Cardinality(Answers(inbox[d])) + 0
    BY <1>3, DeviceFacts, AnswersAppend
  <2>2. Cardinality(Answers(inbox[d])) \in Nat
    BY DeviceFacts, AnswersFinite
  <2> QED BY <1>7, <2>1, <2>2 DEF Answered
<1>9. Tracked(d)'
  <2>1. Placed(d)'
    BY <1>1, DeviceFacts DEF Placed
  <2>2. Chain(log, fate[d], inbox'[d], base[d], trail'[d]) /\ End(base[d], trail'[d]) = s
    BY <1>6, <1>7 DEF Extended, Linked
  <2>3. Len(fate[d]) = Answered(d)'
    BY <1>8, DeviceFacts
  <2> QED BY <1>1, <1>2, <2>1, <2>2, <2>3 DEF Tracked
<1>10. ASSUME NEW e \in Devices, e # d PROVE Tracked(e)'
  <2>1. trail'[e] = trail[e] /\ inbox'[e] = inbox[e] /\ sub'[e] = sub[e]
    BY <1>1, <1>10
  <2> QED BY <1>1, <2>1, Untouched
<1>11. HTypeOK'
  <2>1. Append(trail[d], s) \in Seq(Stamp)
    BY <1>2, DeviceFacts
  <2> QED BY <1>1, <2>1 DEF HInv, HTypeOK
<1> QED BY <1>1, <1>9, <1>10, <1>11, DeviceFacts DEF HistoryOK

LEMMA RefuseHistory ==
    ASSUME HInv, NEW d \in Devices, HRefuse(d)
    PROVE  HTypeOK' /\ HistoryOK'
<1> DEFINE m == Ack(FALSE)
           s == Stamped(Len(fate[d]) + 1)
           ft2 == Append(fate[d], Len(log))
<1>1. /\ PutWaits(d)
      /\ inbox' = [inbox EXCEPT ![d] = Append(@, m)]
      /\ trail' = [trail EXCEPT ![d] = Append(@, s)]
      /\ fate' = [fate EXCEPT ![d] = Append(@, Len(log))]
      /\ UNCHANGED <<server, cache, known, sub, log, base>>
  BY DEF HRefuse, Refuse, ServerRefuse
<1>2. s = [at |-> Len(log), nth |-> Len(fate[d]) + 1] /\ s \in Stamp
  BY <1>1, DeviceFacts DEF Stamped, Stamp
<1>3. m \in Message /\ m.t = "ack"
  BY DEF Ack, Message
<1>4. sub[d] = "on"
  BY <1>1, OnlyListenersAreServed DEF HInv, TypeOK
<1>5. ft2 \in Seq(Nat) /\ Len(ft2) = Len(fate[d]) + 1
  BY DeviceFacts
<1>6. /\ inbox'[d] = Append(inbox[d], m) /\ trail'[d] = Append(trail[d], s)
      /\ fate'[d] = ft2
  BY <1>1 DEF HInv, HTypeOK, TypeOK, DBTypeOK
<1> HIDE DEF m, s
<1>7. Extended(log, ft2, inbox[d], m, base[d], trail[d], s)
  <2>1. s.nth = Len(fate[d]) + 1 /\ s.at = End(base[d], trail[d]).at
    BY <1>2, <1>4, DeviceFacts
  <2>2. ft2 = Append(fate[d], s.at)
    BY <1>2
  <2>3. Linked(log, fate[d], inbox[d], base[d], trail[d])
    BY DeviceFacts
  <2> HIDE DEF ft2
  <2> QED BY <1>2, <1>3, <2>1, <2>2, <2>3, AckSent
<1> HIDE DEF ft2
<1>8. Answered(d)' = Answered(d) + 1
  <2>1. Cardinality(Answers(Append(inbox[d], m))) = Cardinality(Answers(inbox[d])) + 1
    BY <1>3, DeviceFacts, AnswersAppend
  <2> QED BY <1>6, <2>1 DEF Answered
<1>9. Tracked(d)'
  <2>1. Placed(d)'
    BY <1>1, DeviceFacts DEF Placed
  <2>2. Chain(log, fate'[d], inbox'[d], base[d], trail'[d]) /\ End(base[d], trail'[d]) = s
    BY <1>6, <1>7 DEF Extended, Linked
  <2>3. Len(fate'[d]) = Answered(d)'
    BY <1>5, <1>6, <1>8, DeviceFacts
  <2> QED BY <1>1, <1>2, <2>1, <2>2, <2>3 DEF Tracked
<1>10. ASSUME NEW e \in Devices, e # d PROVE Tracked(e)'
  <2>1. trail'[e] = trail[e] /\ inbox'[e] = inbox[e] /\ fate'[e] = fate[e]
    BY <1>1, <1>10
  <2> QED BY <1>1, <2>1, Untouched
<1>11. HTypeOK'
  <2>1. Append(trail[d], s) \in Seq(Stamp) /\ Append(fate[d], Len(log)) \in Seq(Nat)
    BY <1>2, DeviceFacts
  <2> QED BY <1>1, <2>1 DEF HInv, HTypeOK
<1> QED BY <1>1, <1>9, <1>10, <1>11, DeviceFacts DEF HistoryOK

(* Everything on its way is lost, with the process or with the connection. *)
LEMMA BreakHistory ==
    ASSUME HInv, NEW d \in Devices, HReconnect(d) \/ HKill(d)
    PROVE  HTypeOK' /\ HistoryOK'
<1>1. /\ inbox' = [inbox EXCEPT ![d] = << >>]
      /\ trail' = [trail EXCEPT ![d] = << >>]
      /\ fate' = [fate EXCEPT ![d] = << >>]
      /\ UNCHANGED <<server, log>>
      /\ sub'[d] # "on"
      /\ \A e \in Devices : e # d =>
             sub'[e] = sub[e] /\ base'[e] = base[e] /\ known'[e] = known[e] /\ cache'[e] = cache[e]
  <2>0. sub \in [Devices -> {"off", "asked", "on"}]
    BY DEF HInv, TypeOK, DBTypeOK
  <2>1. CASE HReconnect(d)
    <3>1. /\ sub' = [sub EXCEPT ![d] = IF @ = "on" THEN "asked" ELSE @]
          /\ UNCHANGED <<known, cache, base>>
      BY <2>1 DEF HReconnect, Reconnect, RestoreState
    <3> QED BY <2>0, <2>1, <3>1 DEF HReconnect, Reconnect, RestoreState
  <2>2. CASE HKill(d)
    <3>1. /\ sub' = [sub EXCEPT ![d] = "off"] /\ known' = [known EXCEPT ![d] = FALSE]
          /\ cache' = [cache EXCEPT ![d] = NoTree] /\ base' = [base EXCEPT ![d] = 0]
      BY <2>2 DEF HKill, Kill, Terminate
    <3>2. \A e \in Devices : e # d =>
             sub'[e] = sub[e] /\ base'[e] = base[e] /\ known'[e] = known[e] /\ cache'[e] = cache[e]
      BY <3>1 DEF HInv, HTypeOK, TypeOK, DBTypeOK
    <3> QED BY <2>0, <2>2, <3>1, <3>2 DEF HKill, Kill, Terminate
  <2> QED BY <2>1, <2>2
<1>2. Placed(d)' /\ base' \in [Devices -> Nat]
  <2>1. CASE HReconnect(d)
    BY <2>1, DeviceFacts DEF HReconnect, Reconnect, RestoreState, Placed, HInv, HTypeOK
  <2>2. CASE HKill(d)
    <3>1. base' = [base EXCEPT ![d] = 0] /\ known' = [known EXCEPT ![d] = FALSE] /\ log' = log
      BY <2>2 DEF HKill, Kill, Terminate
    <3>2. base'[d] = 0 /\ known'[d] = FALSE /\ base' \in [Devices -> Nat]
      BY <3>1 DEF HInv, HTypeOK, TypeOK, DBTypeOK
    <3> QED BY <3>1, <3>2, DeviceFacts DEF Placed
  <2> QED BY <2>1, <2>2
<1>3. inbox'[d] = << >> /\ trail'[d] = << >> /\ fate'[d] = << >>
  BY <1>1 DEF HInv, HTypeOK, TypeOK, DBTypeOK
<1>4. Tracked(d)'
  <2>1. Answered(d)' = 0
    BY <1>3, NoAnswers DEF Answered
  <2> QED BY <1>1, <1>2, <1>3, <2>1, EmptyChain DEF Tracked
<1>5. ASSUME NEW e \in Devices, e # d PROVE Tracked(e)'
  <2>1. trail'[e] = trail[e] /\ inbox'[e] = inbox[e] /\ fate'[e] = fate[e]
    BY <1>1, <1>5
  <2> QED BY <1>1, <1>5, <2>1, Untouched
<1>6. HTypeOK'
  <2>1. << >> \in Seq(Nat) /\ << >> \in Seq(Stamp)
    OBVIOUS
  <2>2. trail' \in [Devices -> Seq(Stamp)] /\ fate' \in [Devices -> Seq(Nat)]
    BY <1>1, <2>1 DEF HInv, HTypeOK
  <2> QED BY <1>1, <1>2, <2>2 DEF HInv, HTypeOK
<1> QED BY <1>1, <1>4, <1>5, <1>6, DeviceFacts DEF HistoryOK

LEMMA LocalHistory ==
    ASSUME HInv, UNCHANGED <<server, cache, known, inbox, history>>,
           \A e \in Devices : sub'[e] = "on" => sub[e] = "on"
    PROVE  HTypeOK' /\ HistoryOK'
<1>1. \A e \in Devices : Tracked(e)'
  BY Untouched DEF history
<1> QED BY <1>1 DEF HInv, HTypeOK, HistoryOK, history

(* An accepted write: the log after it, the messages sent to one device.   *)
LEMMA AcceptLog ==
    ASSUME HInv, NEW d \in Devices, HAccept(d)
    PROVE  /\ server' \in Tree /\ log' \in Seq(Tree) /\ log' # << >>
           /\ Len(log') \in Nat /\ Len(log') \in 1..Len(log') /\ Len(log') >= Len(log)
           /\ server' = log'[Len(log')]
           /\ log' = log \/ log' = Append(log, server')
           /\ server' = server => Len(log') = Len(log)
           /\ \A n \in 1..Len(log) : log'[n] = log[n]
<1>1. log' = IF server' = server THEN log ELSE Append(log, server')
  BY DEF HAccept
<1>2. server' \in Tree
  BY ServerAcceptInbox DEF HAccept, Accept, HInv, TypeOK
<1>3. log \in Seq(Tree) /\ Len(log) \in Nat /\ Len(log) >= 1 /\ log # << >> /\ server = log[Len(log)]
  BY DeviceFacts
<1>4. CASE server' = server
  BY <1>1, <1>2, <1>3, <1>4
<1>5. CASE server' # server
  <2>1. log' = Append(log, server') /\ Len(log') = Len(log) + 1 /\ log' \in Seq(Tree)
    BY <1>1, <1>2, <1>3, <1>5
  <2> QED BY <1>2, <1>3, <1>5, <2>1
<1> QED BY <1>4, <1>5

LEMMA AcceptHistory ==
    ASSUME HInv, NEW d \in Devices, HAccept(d)
    PROVE  HTypeOK' /\ HistoryOK'
<1>1. /\ PutWaits(d) /\ ServerAccept(d)
      /\ fate' = [fate EXCEPT ![d] = Append(@, Len(log'))]
      /\ UNCHANGED <<base, cache, known, sub>>
  BY DEF HAccept, Accept, ServerAccept
<1>2. sub[d] = "on"
  BY <1>1, OnlyListenersAreServed DEF HInv, TypeOK
<1>3. ASSUME NEW e \in Devices
      PROVE  Tracked(e)' /\ trail'[e] \in Seq(Stamp)
  <2> DEFINE told == sub[e] = "on" /\ server' # server
             m1 == Data(server')
             s1 == Stamped(Len(fate[e]))
             box1 == IF told THEN Append(inbox[e], m1) ELSE inbox[e]
             tr1 == IF told THEN Append(trail[e], s1) ELSE trail[e]
             m2 == Ack(TRUE)
             s2 == Stamped(Len(fate[e]) + 1)
  <2>1. s1 = [at |-> Len(log'), nth |-> Len(fate[e])] /\ s1 \in Stamp
    BY AcceptLog, DeviceFacts DEF Stamped, Stamp
  <2>2. s2 = [at |-> Len(log'), nth |-> Len(fate[e]) + 1] /\ s2 \in Stamp
    BY AcceptLog, DeviceFacts DEF Stamped, Stamp
  <2>3. m1 \in Message /\ m1.t = "data" /\ m1.val = server'
    BY AcceptLog DEF Data, Message
  <2>4. m2 \in Message /\ m2.t = "ack"
    BY DEF Ack, Message
  <2>5. /\ inbox'[e] = IF e = d THEN Append(box1, m2) ELSE box1
        /\ Answered(e)' = Answered(e) + (IF e = d THEN 1 ELSE 0)
    BY <1>1, ServerAcceptInbox DEF HInv, TypeOK
  <2>6. trail'[e] = trail[e] \o (IF told THEN <<s1>> ELSE << >>)
                             \o (IF e = d THEN <<s2>> ELSE << >>)
    BY DEF HAccept
  <2> HIDE DEF m1, s1, m2, s2
  <2>7. trail[e] \o (IF told THEN <<s1>> ELSE << >>) = tr1
    <3>1. trail[e] \in Seq(Stamp)
      BY DeviceFacts
    <3>2. trail[e] \o <<s1>> = Append(trail[e], s1) /\ trail[e] \o << >> = trail[e]
      BY <2>1, <3>1, ConcatOne
    <3> QED BY <3>2
  <2>8. Linked(log', fate[e], inbox[e], base[e], trail[e])
    BY LinkedGrows, DeviceFacts, AcceptLog
  <2>9. /\ Linked(log', fate[e], box1, base[e], tr1)
        /\ sub[e] = "on" => End(base[e], tr1).at = Len(log')
    <3>1. CASE told
      <4>1. s1.nth = Len(fate[e]) /\ s1.at \in 1..Len(log') /\ m1.val = log'[s1.at]
        BY <2>1, <2>3, AcceptLog
      <4>2. s1.at >= End(base[e], trail[e]).at
        BY <2>1, <3>1, AcceptLog, DeviceFacts
      <4>3. Extended(log', fate[e], inbox[e], m1, base[e], trail[e], s1)
        BY <2>1, <2>3, <2>8, <4>1, <4>2, DataSent
      <4> QED BY <2>1, <3>1, <4>3 DEF Extended
    <3>2. CASE ~told
      BY <2>8, <3>2, AcceptLog, DeviceFacts
    <3> QED BY <3>1, <3>2
  <2> HIDE DEF told, box1, tr1
  <2>10. tr1 \in Seq(Stamp)
    BY <2>9 DEF Linked
  <2>11. Placed(e)'
    BY <1>1, AcceptLog, DeviceFacts DEF Placed
  <2>12. CASE e = d
    <3> DEFINE ft2 == Append(fate[e], Len(log'))
    <3>1. trail'[e] = Append(tr1, s2) /\ inbox'[e] = Append(box1, m2)
      <4>1. trail'[e] = tr1 \o <<s2>>
        BY <2>6, <2>7, <2>12
      <4> QED BY <2>2, <2>5, <2>10, <2>12, <4>1, ConcatOne
    <3>2. fate'[e] = ft2
      BY <1>1, <2>12 DEF HInv, HTypeOK
    <3>3. s2.nth = Len(fate[e]) + 1 /\ s2.at = End(base[e], tr1).at /\ ft2 = Append(fate[e], s2.at)
      BY <1>2, <2>2, <2>9, <2>12
    <3>4. Len(ft2) = Len(fate[e]) + 1
      BY DeviceFacts, AcceptLog
    <3> HIDE DEF ft2
    <3>5. Extended(log', ft2, box1, m2, base[e], tr1, s2)
      BY <2>2, <2>4, <2>9, <3>3, AckSent
    <3>6. /\ Chain(log', fate'[e], inbox'[e], base[e], trail'[e])
          /\ End(base[e], trail'[e]) = s2 /\ trail'[e] \in Seq(Stamp)
      BY <3>1, <3>2, <3>5 DEF Extended, Linked
    <3>7. Len(fate'[e]) = Answered(e)'
      BY <2>5, <2>12, <3>2, <3>4, DeviceFacts
    <3> QED BY <1>1, <2>2, <2>11, <3>6, <3>7 DEF Tracked
  <2>13. CASE e # d
    <3>1. trail'[e] = tr1 /\ inbox'[e] = box1 /\ fate'[e] = fate[e]
      <4>1. trail'[e] = tr1 \o << >>
        BY <2>6, <2>7, <2>13
      <4>2. tr1 \o << >> = tr1
        BY <2>1, <2>10, ConcatOne
      <4> QED BY <1>1, <2>5, <2>13, <4>1, <4>2
    <3>2. /\ Chain(log', fate'[e], inbox'[e], base[e], trail'[e])
          /\ sub[e] = "on" => End(base[e], trail'[e]).at = Len(log')
      BY <2>9, <3>1 DEF Linked
    <3>3. Len(fate'[e]) = Answered(e)'
      BY <2>5, <2>13, <3>1, DeviceFacts
    <3> QED BY <1>1, <2>10, <2>11, <3>1, <3>2, <3>3 DEF Tracked
  <2> QED BY <2>12, <2>13
<1>4. trail' \in [Devices -> Seq(Stamp)]
  <2>1. trail' = [e \in Devices |-> trail'[e]]
    BY DEF HAccept
  <2> QED BY <1>3, <2>1
<1>5. HTypeOK'
  <2>1. Append(fate[d], Len(log')) \in Seq(Nat)
    BY AcceptLog, DeviceFacts
  <2> QED BY <1>1, <1>4, <2>1, AcceptLog DEF HInv, HTypeOK
<1> QED BY <1>3, <1>5, AcceptLog DEF HistoryOK

LEMMA NextHistory == HInv /\ [HNext]_hvars => HInv'
<1> SUFFICES ASSUME HInv, [HNext]_hvars PROVE HInv'
  OBVIOUS
<1>1. TypeOK' /\ ListensFirst'
  BY HistoryWatches, NextTypeOK, NextListensFirst DEF HInv
<1>2. HTypeOK' /\ HistoryOK'
  <2>1. ASSUME NEW d \in Devices, HLocal(d) PROVE HTypeOK' /\ HistoryOK'
    <3>1. UNCHANGED <<server, cache, known, inbox, history>>
      BY <2>1 DEF HLocal, Register, Observe, Change, Put, Callback
    <3>2. \A e \in Devices : sub'[e] = "on" => sub[e] = "on"
      <4>1. sub' = sub \/ sub' = [sub EXCEPT ![d] = IF @ = "off" THEN "asked" ELSE @]
        BY <2>1 DEF HLocal, Register, Observe, Change, Put, Callback
      <4> QED BY <4>1 DEF HInv, TypeOK, DBTypeOK
    <3> QED BY <3>1, <3>2, LocalHistory
  <2>2. CASE HNext
    <3>1. PICK d \in Devices :
              \/ HLocal(d) \/ HData(d) \/ HAck(d) \/ HListening(d)
              \/ HAccept(d) \/ HRefuse(d) \/ HReconnect(d) \/ HKill(d)
      BY <2>2, Zenon DEF HNext
    <3> QED BY <2>1, <3>1, DataHistory, AckHistory, ListeningHistory, AcceptHistory,
               RefuseHistory, BreakHistory, Zenon
  <2>3. CASE UNCHANGED hvars
    <3>1. UNCHANGED <<server, cache, known, inbox, history>> /\ sub' = sub
      BY <2>3 DEF hvars, vars, dbVars
    <3> QED BY <3>1, LocalHistory
  <2> QED BY <2>2, <2>3
<1> QED BY <1>1, <1>2 DEF HInv

-----------------------------------------------------------------------------
(* Every step of the library is one the promise allows.                    *)
LEMMA InitPromise == HInit => Promise!Init
  BY DEF HInit, Init, DBInit, NoTree, Promise!Init

LEMMA LocalPromise ==
    ASSUME NEW d \in Devices, HLocal(d)
    PROVE  [Promise!Next]_Promise!vars
<1>1. CASE Register(d) \/ Callback(d)
  BY <1>1 DEF HLocal, Register, Observe, Callback, history, Promise!vars
<1>2. CASE Change(d)
  <2>1. Promise!Make(d)
    BY <1>2 DEF HLocal, Change, Put, Write, history, Promise!Make, Promise!Write
  <2> QED BY <2>1 DEF Promise!Next
<1> QED BY <1>1, <1>2 DEF HLocal

LEMMA DataPromise ==
    ASSUME HInv, NEW d \in Devices, HData(d)
    PROVE  Promise!Learn(d)
<1> DEFINE ft2 == fate[d]
           n == trail[d][1].at
<1>1. /\ inbox[d] # << >> /\ Head(inbox[d]).t = "data"
      /\ base' = [base EXCEPT ![d] = n] /\ UNCHANGED <<log, pend, fate>>
  BY DEF HData, OnDataUpdate
<1>2. inbox[d][1].t = "data" /\ inbox[d][1].t # "ack" /\ ft2 \in Seq(Nat)
  BY <1>1, DeviceFacts
<1>3. Linked(log, fate[d], inbox[d], base[d], trail[d])
  BY DeviceFacts
<1>4. Processed(log, fate[d], ft2, inbox[d], base[d], trail[d])
  BY <1>1, <1>2, <1>3, ChainRest
<1>5. n \in 1..Len(log) /\ n >= base[d]
  BY <1>2, <1>4 DEF Processed
<1> QED BY <1>1, <1>5 DEF Promise!Learn

LEMMA AckPromise ==
    ASSUME HInv, NEW d \in Devices, HAck(d)
    PROVE  Promise!Settle(d)
<1> DEFINE ft2 == Tail(fate[d])
<1>1. /\ inbox[d] # << >> /\ Head(inbox[d]).t = "ack"
      /\ pend' = [pend EXCEPT ![d] = Tail(pend[d])]
      /\ fate' = [fate EXCEPT ![d] = Tail(@)]
      /\ UNCHANGED <<log, base>>
  BY DEF HAck, AckWrite, WithoutOldest
<1>2. inbox[d][1].t = "ack" /\ inbox[d][1].t # "data"
  BY <1>1, DeviceFacts
<1>3. fate[d] # << >>
  <2>1. Cardinality(Answers(inbox[d])) = Cardinality(Answers(Tail(inbox[d]))) + 1
    BY <1>1, AnswersTail, DeviceFacts
  <2>2. Tail(inbox[d]) \in Seq(Message)
    BY <1>1, DeviceFacts
  <2>3. Cardinality(Answers(Tail(inbox[d]))) \in Nat
    BY <2>2, AnswersFinite
  <2>4. Len(fate[d]) # 0
    BY <2>1, <2>3, DeviceFacts DEF Answered
  <2> QED BY <2>4
<1>4. ft2 \in Seq(Nat)
  BY <1>3, DeviceFacts
<1> HIDE DEF ft2
<1>5. Linked(log, fate[d], inbox[d], base[d], trail[d])
  BY DeviceFacts
<1>6. ft2 = IF inbox[d][1].t = "ack" THEN Tail(fate[d]) ELSE fate[d]
  BY <1>2 DEF ft2
<1>7. Processed(log, fate[d], ft2, inbox[d], base[d], trail[d])
  BY <1>1, <1>4, <1>5, <1>6, ChainRest
<1>8. Head(fate[d]) <= base[d]
  BY <1>2, <1>7 DEF Processed
<1> QED BY <1>1, <1>3, <1>8 DEF Promise!Settle

LEMMA AcceptPromise ==
    ASSUME HInv, NEW d \in Devices, HAccept(d)
    PROVE  Promise!Accept(d)
<1>1. /\ PutWaits(d) /\ server' = Merge(server, NextPut(d))
      /\ log' = IF server' = server THEN log ELSE Append(log, server')
      /\ fate' = [fate EXCEPT ![d] = Append(@, Len(log'))]
      /\ UNCHANGED <<base, pend>>
  BY DEF HAccept, Accept, ServerAccept
<1>2. Len(fate[d]) = Answered(d) /\ server = Promise!Current
  BY DeviceFacts DEF Promise!Current
<1>3. Promise!Undecided(d)
  BY <1>1, <1>2 DEF PutWaits, Promise!Undecided
<1>4. server' = Promise!After(Promise!Current, pend[d][Len(fate[d]) + 1])
  BY <1>1, <1>2 DEF Merge, NextPut, Promise!After
<1> QED BY <1>1, <1>2, <1>3, <1>4 DEF Promise!Accept

LEMMA RefusePromise ==
    ASSUME HInv, NEW d \in Devices, HRefuse(d)
    PROVE  Promise!Refuse(d)
<1>1. /\ PutWaits(d)
      /\ fate' = [fate EXCEPT ![d] = Append(@, Len(log))]
      /\ UNCHANGED <<log, base, pend>>
  BY DEF HRefuse, Refuse, ServerRefuse
<1>2. Promise!Undecided(d)
  BY <1>1, DeviceFacts DEF PutWaits, Promise!Undecided
<1> QED BY <1>1, <1>2 DEF Promise!Refuse

LEMMA StepPromise == HInv /\ [HNext]_hvars => [Promise!Next]_Promise!vars
<1> SUFFICES ASSUME HInv, [HNext]_hvars PROVE [Promise!Next]_Promise!vars
  OBVIOUS
<1>1. ASSUME NEW d \in Devices, HListening(d) PROVE UNCHANGED Promise!vars
  BY <1>1 DEF HListening, Listening, ServerListen, Promise!vars
<1>2. ASSUME NEW d \in Devices, HReconnect(d) PROVE Promise!Lose(d)
  BY <1>2 DEF HReconnect, Reconnect, RestoreState, Promise!Lose
<1>3. ASSUME NEW d \in Devices, HKill(d) PROVE Promise!Forget(d)
  BY <1>3 DEF HKill, Kill, Terminate, Promise!Forget
<1>4. CASE HNext
  <2>1. PICK d \in Devices :
            \/ HLocal(d) \/ HData(d) \/ HAck(d) \/ HListening(d)
            \/ HAccept(d) \/ HRefuse(d) \/ HReconnect(d) \/ HKill(d)
    BY <1>4, Zenon DEF HNext
  <2>2. CASE HLocal(d)
    BY <2>2, LocalPromise
  <2>3. CASE HListening(d)
    BY <1>1, <2>3
  <2>4. ASSUME \/ Promise!Make(d) \/ Promise!Learn(d) \/ Promise!Accept(d) \/ Promise!Refuse(d)
               \/ Promise!Settle(d) \/ Promise!Lose(d) \/ Promise!Forget(d)
        PROVE  Promise!Next
    BY <2>4, Zenon DEF Promise!Next
  <2> QED BY <1>2, <1>3, <2>1, <2>2, <2>3, <2>4, DataPromise, AckPromise, AcceptPromise,
             RefusePromise, Zenon
<1>5. CASE UNCHANGED hvars
  BY <1>5 DEF hvars, vars, dbVars, history, Promise!vars
<1> QED BY <1>4, <1>5

(* The library implements the promise, for any number of devices, children *)
(* and values, and however often writes are refused, connections lost and  *)
(* processes ended (FSyncTree, FWriteTree, FPersistentConnection).         *)
THEOREM PromiseKept == HSpec => KeepsPromise
<1>1. HSpec => []HInv
  BY InitHistory, NextHistory, PTL DEF HSpec
<1> QED BY <1>1, InitPromise, StepPromise, PTL DEF HSpec, KeepsPromise, Promise!Spec
=============================================================================
