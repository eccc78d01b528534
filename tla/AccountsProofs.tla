--------------------------- MODULE AccountsProofs ---------------------------
(***************************************************************************)
(* Proofs about registration, login and the users' records.                *)
(***************************************************************************)
EXTENDS Accounts, TLAPS, SequenceTheorems

-----------------------------------------------------------------------------
(* Type correctness.                                                       *)

\* what TypeOK says of the screens and of the requests they made
StacksOK ==
    /\ stack \in [Devices -> Seq(Screen)] /\ \A d \in Devices : stack[d] # << >>
    /\ \A d \in Devices : \A c \in calls[d] : c.at \in 1..Len(stack[d])

LEMMA ShowsType ==
    ASSUME NEW kind \in ScreenKinds, NEW u \in Users \cup {Nil}
    PROVE  Shows(kind, u) \in Screen
  BY DEF Shows, Screen

\* a screen shown on the others leaves every request's screen where it was
LEMMA Presented ==
    ASSUME StacksOK, NEW d \in Devices, NEW s \in Screen,
           stack' = [stack EXCEPT ![d] = Append(@, s)],
           \A e \in Devices : calls'[e] \subseteq calls[e]
    PROVE  StacksOK'
<1>1. Append(stack[d], s) \in Seq(Screen) /\ Len(Append(stack[d], s)) = Len(stack[d]) + 1
  BY DEF StacksOK
<1>2. \A e \in Devices : stack[e] \in Seq(Screen) /\ Len(stack[e]) \in Nat
  BY DEF StacksOK
<1>3. stack' \in [Devices -> Seq(Screen)]
  BY <1>1 DEF StacksOK
<1>4. \A e \in Devices : Len(stack'[e]) >= Len(stack[e]) /\ Len(stack'[e]) \in Nat
  BY <1>1, <1>2, <1>3 DEF StacksOK
<1>5. \A e \in Devices : stack'[e] # << >>
  <2> SUFFICES ASSUME NEW e \in Devices PROVE stack'[e] # << >>
    OBVIOUS
  <2>1. Len(stack[e]) > 0
    BY <1>2 DEF StacksOK
  <2>2. Len(stack'[e]) > 0
    BY <1>2, <1>4, <2>1
  <2> QED BY <1>3, <2>2
<1>6. \A e \in Devices : \A c \in calls'[e] : c.at \in 1..Len(stack'[e])
  BY <1>2, <1>4 DEF StacksOK
<1> QED BY <1>3, <1>5, <1>6 DEF StacksOK

\* requests are answered and forgotten
LEMMA Kept ==
    ASSUME StacksOK, stack' = stack, \A e \in Devices : calls'[e] \subseteq calls[e]
    PROVE  StacksOK'
  BY DEF StacksOK

LEMMA TransitionType ==
    ASSUME StacksOK, NEW d \in Devices, NEW c, user'[d] \in Users \cup {Nil},
           transitionToHome(d, c),
           \A e \in Devices : calls'[e] \subseteq calls[e]
    PROVE  StacksOK'
<1>1. Shows("tabs", user'[d]) \in Screen
  BY ShowsType DEF ScreenKinds
<1>2. CASE c.at = Len(stack[d])
  BY <1>1, <1>2, Presented DEF transitionToHome
<1>3. CASE c.at # Len(stack[d])
  <2>1. stack' = stack
    BY <1>3 DEF transitionToHome, StacksOK
  <2> QED BY <2>1, Kept
<1> QED BY <1>2, <1>3

LEMMA AnsweredFewer ==
    ASSUME TypeOK, NEW d \in Devices, NEW c, Answered(d, c)
    PROVE  /\ calls' \in [Devices -> SUBSET Call]
           /\ \A e \in Devices : calls'[e] \subseteq calls[e]
  BY DEF TypeOK, Answered

LEMMA RequestType ==
    ASSUME TypeOK, NEW d \in Devices, NEW op \in {"signIn", "create", "reset"},
           NEW who \in Users, NEW photo \in BOOLEAN, Request(d, op, who, photo), stack' = stack
    PROVE  StacksOK' /\ calls' \in [Devices -> SUBSET Call]
<1> DEFINE c0 == [n |-> budget.calls, op |-> op, who |-> who, photo |-> photo, at |-> Len(stack[d])]
<1>1. stack[d] \in Seq(Screen) /\ stack[d] # << >> /\ budget.calls \in Nat
  BY DEF TypeOK, Budgets
<1>2. Len(stack[d]) \in Nat /\ Len(stack[d]) > 0
  BY <1>1
<1>3. c0 \in Call /\ c0.at \in 1..Len(stack[d])
  BY <1>1, <1>2 DEF Call
<1>4. calls' = [calls EXCEPT ![d] = @ \cup {c0}]
  BY DEF Request
<1> HIDE DEF c0
<1>5. calls' \in [Devices -> SUBSET Call]
  BY <1>3, <1>4 DEF TypeOK
<1>6. \A e \in Devices : \A c \in calls'[e] : c \in calls[e] \/ (e = d /\ c = c0)
  BY <1>4 DEF TypeOK
<1> QED BY <1>3, <1>5, <1>6 DEF TypeOK, StacksOK

LEMMA SpendType ==
    ASSUME budget \in Budgets, NEW b \in {"links", "calls", "failures", "refusals", "kills"}, Spend(b)
    PROVE  budget' \in Budgets
  BY DEF Spend, Budgets

LEMMA FailsType ==
    ASSUME budget \in Budgets, NEW must, Fails(must)
    PROVE  budget' \in Budgets
<1>1. CASE must
  BY <1>1 DEF Fails
<1>2. CASE ~must
  BY <1>2, SpendType DEF Fails
<1> QED BY <1>1, <1>2 DEF Fails

LEMMA InitTypeOK == Init => TypeOK
<1> SUFFICES ASSUME Init PROVE TypeOK
  OBVIOUS
<1>1. Shows("start", Nil) \in Screen
  BY ShowsType DEF ScreenKinds
<1>2. <<Shows("start", Nil)>> \in Seq(Screen) /\ <<Shows("start", Nil)>> # << >>
  BY <1>1
<1>3. budget \in Budgets
  BY AccountsBudget DEF Init, Budgets
<1> QED BY <1>2, <1>3, AccountsEarlier DEF Init, TypeOK

LEMMA RestartTypeOK ==
    ASSUME TypeOK, NEW d \in Devices, Restart(d), budget' \in Budgets
    PROVE  TypeOK'
<1>1. Shows("start", Nil) \in Screen
  BY ShowsType DEF ScreenKinds
<1>2. <<Shows("start", Nil)>> \in Seq(Screen) /\ <<Shows("start", Nil)>> # << >>
  BY <1>1
<1>3. stack' \in [Devices -> Seq(Screen)] /\ \A e \in Devices : stack'[e] # << >>
  BY <1>2 DEF TypeOK, Restart
<1>4. \A e \in Devices : \A c \in calls'[e] : c.at \in 1..Len(stack'[e])
  <2> SUFFICES ASSUME NEW e \in Devices, NEW c \in calls'[e]
               PROVE  c.at \in 1..Len(stack'[e])
    OBVIOUS
  <2>1. e # d /\ c \in calls[e]
    BY DEF TypeOK, Restart
  <2> QED BY <2>1 DEF TypeOK, Restart
<1>5. accounts' \in SUBSET Users
  <2>1. Unheard(d) \in SUBSET Users
    BY DEF TypeOK, Unheard, Call
  <2> QED BY <2>1 DEF TypeOK, Restart
<1>6. calls' \in [Devices -> SUBSET Call] /\ saving' \in [Devices -> SUBSET Saving]
  BY DEF TypeOK, Restart
<1>7. asked' \in [Devices -> SUBSET Users] /\ watched' \in [Devices -> SUBSET Users]
  BY DEF TypeOK, Restart
<1> QED BY <1>3, <1>4, <1>5, <1>6, <1>7 DEF TypeOK, Restart

LEMMA NextTypeOK == TypeOK /\ [Next]_vars => TypeOK'
<1> SUFFICES ASSUME TypeOK, [Next]_vars PROVE TypeOK'
  OBVIOUS
<1>0. StacksOK /\ budget \in Budgets
  BY DEF TypeOK, StacksOK
<1>1. ASSUME NEW d \in Devices, FollowLink(d) PROVE TypeOK'
  <2>1. PICK kind \in Links[Top(d).kind] :
            stack' = [stack EXCEPT ![d] = Append(@, Shows(kind, Nil))]
    BY <1>1 DEF FollowLink
  <2>2. stack[d] \in Seq(Screen) /\ Len(stack[d]) \in 1..Len(stack[d])
    <3>1. stack[d] \in Seq(Screen) /\ stack[d] # << >>
      BY DEF TypeOK
    <3> QED BY <3>1
  <2>3. Top(d).kind \in ScreenKinds
    <3>1. stack[d][Len(stack[d])] \in Screen
      BY <2>2
    <3> QED BY <3>1 DEF Top, Screen
  <2>4. kind \in ScreenKinds
    BY <2>1, <2>3 DEF Links, ScreenKinds
  <2>5. StacksOK'
    BY <1>0, <1>1, <2>1, <2>4, ShowsType, Presented DEF FollowLink
  <2>6. budget' \in Budgets
    BY <1>0, <1>1, SpendType DEF FollowLink
  <2> QED BY <1>1, <2>5, <2>6 DEF FollowLink, TypeOK, StacksOK, serverVars, readVars
<1>2. ASSUME NEW d \in Devices, LOgin(d) \/ Register(d) \/ resetPassword(d) PROVE TypeOK'
  <2>1. PICK op \in {"signIn", "create", "reset"}, u \in Users, photo \in BOOLEAN :
            Request(d, op, u, photo)
    BY <1>2 DEF LOgin, Register, resetPassword
  <2>2. Spend("calls") /\ UNCHANGED <<serverVars, readVars, user, stack, saving>>
    BY <1>2 DEF LOgin, Register, resetPassword
  <2>3. StacksOK' /\ calls' \in [Devices -> SUBSET Call]
    BY <2>1, <2>2, RequestType
  <2>4. budget' \in Budgets
    BY <1>0, <2>2, SpendType
  <2> QED BY <2>2, <2>3, <2>4 DEF TypeOK, StacksOK, serverVars, readVars
<1>3. ASSUME NEW d \in Devices, OpenProfile(d) PROVE TypeOK'
  <2>1. stack[d] \in Seq(Screen) /\ Len(stack[d]) \in 1..Len(stack[d])
    <3>1. stack[d] \in Seq(Screen) /\ stack[d] # << >>
      BY DEF TypeOK
    <3> QED BY <3>1
  <2> DEFINE n == Len(stack[d])
             opened == [stack[d] EXCEPT ![n].opened = TRUE]
  <2>2. stack[d][n] \in Screen
    BY <2>1
  <2>3. [stack[d][n] EXCEPT !.opened = TRUE] \in Screen
    BY <2>2 DEF Screen
  <2>4. opened \in Seq(Screen) /\ Len(opened) = n
    BY <2>1, <2>3
  <2>5. stack' = [stack EXCEPT ![d] = opened]
    BY <1>3 DEF OpenProfile, TypeOK
  <2> HIDE DEF opened
  <2>6. stack' \in [Devices -> Seq(Screen)] /\ \A e \in Devices : Len(stack'[e]) = Len(stack[e])
    BY <2>4, <2>5 DEF TypeOK
  <2>7. \A e \in Devices : stack'[e] # << >>
    <3> SUFFICES ASSUME NEW e \in Devices, stack'[e] = << >> PROVE FALSE
      OBVIOUS
    <3>1. stack[e] \in Seq(Screen) /\ Len(stack[e]) = 0
      BY <2>6 DEF TypeOK
    <3> QED BY <3>1 DEF TypeOK
  <2>8. \A e \in Devices : \A c \in calls'[e] : c.at \in 1..Len(stack'[e])
    BY <1>3, <2>6 DEF OpenProfile, TypeOK
  <2>9. asked' \in [Devices -> SUBSET Users]
    <3>1. Top(d).id \in Users
      BY <1>3, <2>2 DEF OpenProfile, Top, Screen
    <3> QED BY <1>3, <3>1 DEF OpenProfile, TypeOK
  <2> QED BY <1>3, <2>6, <2>7, <2>8, <2>9 DEF OpenProfile, TypeOK, serverVars
<1>4. ASSUME NEW d \in Devices, Logout(d) PROVE TypeOK'
  <2>1. Shows("login", Nil) \in Screen
    BY ShowsType DEF ScreenKinds
  <2>2. StacksOK'
    BY <1>0, <1>4, <2>1, Presented DEF Logout
  <2> QED BY <1>4, <2>2 DEF Logout, TypeOK, StacksOK, serverVars, readVars
<1>5. ASSUME NEW d \in Devices, SignedIn(d) PROVE TypeOK'
  <2>1. PICK c \in calls[d] :
            Answered(d, c) /\ user' = [user EXCEPT ![d] = c.who] /\ transitionToHome(d, c)
    BY <1>5 DEF SignedIn
  <2>2. c.who \in Users
    BY <2>1 DEF TypeOK, Call
  <2>3. user' \in [Devices -> Users \cup {Nil}]
    BY <2>1, <2>2 DEF TypeOK
  <2>4. StacksOK' /\ calls' \in [Devices -> SUBSET Call]
    BY <1>0, <2>1, <2>3, AnsweredFewer, TransitionType
  <2> QED BY <1>5, <2>3, <2>4 DEF SignedIn, TypeOK, StacksOK, serverVars, readVars
<1>6. ASSUME NEW d \in Devices, Rejected(d) PROVE TypeOK'
  <2>1. PICK c \in calls[d] : Fails(c.who \notin accounts) /\ Answered(d, c)
    BY <1>6 DEF Rejected
  <2>2. budget' \in Budgets
    BY <1>0, <2>1, FailsType
  <2>3. stack' = stack
    BY <1>6 DEF Rejected
  <2>4. StacksOK' /\ calls' \in [Devices -> SUBSET Call]
    BY <1>0, <2>1, <2>3, AnsweredFewer, Kept
  <2> QED BY <1>6, <2>2, <2>4 DEF Rejected, TypeOK, StacksOK, serverVars, readVars
<1>7. ASSUME NEW d \in Devices, Created(d) PROVE TypeOK'
  <2>1. PICK c \in calls[d] :
            /\ Answered(d, c)
            /\ accounts' = accounts \cup {c.who}
            /\ user' = [user EXCEPT ![d] = c.who]
            /\ saving' = [saving EXCEPT ![d] = @ \cup
                   (IF c.photo THEN {[who |-> c.who, stage |-> "upload"]} ELSE {})]
            /\ transitionToHome(d, c)
    BY <1>7 DEF Created
  <2>2. c.who \in Users
    BY <2>1 DEF TypeOK, Call
  <2>3. user' \in [Devices -> Users \cup {Nil}]
    BY <2>1, <2>2 DEF TypeOK
  <2>4. StacksOK' /\ calls' \in [Devices -> SUBSET Call]
    BY <1>0, <2>1, <2>3, AnsweredFewer, TransitionType
  <2>5. [who |-> c.who, stage |-> "upload"] \in Saving
    BY <2>2 DEF Saving
  <2>6. saving' \in [Devices -> SUBSET Saving]
    BY <2>1, <2>5 DEF TypeOK
  <2>7. accounts' \in SUBSET Users
    BY <2>1, <2>2 DEF TypeOK
  <2> QED BY <1>7, <2>3, <2>4, <2>6, <2>7 DEF Created, TypeOK, StacksOK, readVars
<1>8. ASSUME NEW d \in Devices, NotCreated(d) PROVE TypeOK'
  <2>1. PICK c \in calls[d] :
            /\ Fails(c.who \in accounts)
            /\ Answered(d, c)
            /\ accounts' \in {accounts, accounts \cup {c.who}}
            /\ user' = user
            /\ transitionToHome(d, c)
    BY <1>8 DEF NotCreated
  <2>2. accounts' \in SUBSET Users
    BY <2>1 DEF TypeOK, Call
  <2>3. StacksOK' /\ calls' \in [Devices -> SUBSET Call]
    <3>1. user'[d] \in Users \cup {Nil}
      BY <2>1 DEF TypeOK
    <3> QED BY <1>0, <2>1, <3>1, AnsweredFewer, TransitionType
  <2>4. budget' \in Budgets
    BY <1>0, <2>1, FailsType
  <2> QED BY <1>8, <2>1, <2>2, <2>3, <2>4 DEF NotCreated, TypeOK, StacksOK, readVars
<1>9. ASSUME NEW d \in Devices, NEW s \in saving[d], NEW stage \in {"upload", "url", "write"},
             Advance(d, s, stage)
      PROVE  saving' \in [Devices -> SUBSET Saving]
  <2>1. [who |-> s.who, stage |-> stage] \in Saving
    BY DEF TypeOK, Saving
  <2> QED BY <1>9, <2>1 DEF Advance, TypeOK
<1>10. ASSUME NEW d \in Devices, Uploaded(d) PROVE TypeOK'
  <2>1. PICK s \in saving[d] :
            /\ Advance(d, s, "url")
            /\ \/ photos' = photos \cup {s.who} /\ UNCHANGED budget
               \/ Spend("failures") /\ UNCHANGED photos
    BY <1>10 DEF Uploaded
  <2>2. saving' \in [Devices -> SUBSET Saving]
    BY <1>9, <2>1
  <2>3. photos' \in SUBSET Users /\ budget' \in Budgets
    BY <1>0, <2>1, SpendType DEF TypeOK, Saving
  <2> QED BY <1>10, <2>2, <2>3 DEF Uploaded, TypeOK, readVars
<1>11. ASSUME NEW d \in Devices, UrlFound(d) PROVE TypeOK'
  <2>1. saving' \in [Devices -> SUBSET Saving]
    BY <1>9, <1>11 DEF UrlFound
  <2> QED BY <1>11, <2>1 DEF UrlFound, TypeOK, serverVars, readVars
<1>12. ASSUME NEW d \in Devices, UrlMissing(d) \/ RecordRefused(d) PROVE TypeOK'
  <2>1. saving' \in [Devices -> SUBSET Saving]
    <3>1. PICK s \in saving[d] : saving' = [saving EXCEPT ![d] = @ \ {s}]
      BY <1>12 DEF UrlMissing, RecordRefused
    <3> QED BY <3>1 DEF TypeOK
  <2>2. budget' \in Budgets
    BY <1>0, <1>12, FailsType, SpendType DEF UrlMissing, RecordRefused
  <2>3. UNCHANGED <<serverVars, readVars, user, stack, calls>>
    BY <1>12 DEF UrlMissing, RecordRefused
  <2> QED BY <2>1, <2>2, <2>3 DEF TypeOK, serverVars, readVars
<1>13. ASSUME NEW d \in Devices, RecordStored(d) PROVE TypeOK'
  <2>1. saving' \in [Devices -> SUBSET Saving] /\ records' \in SUBSET Users
    BY <1>13 DEF RecordStored, TypeOK, Saving
  <2> QED BY <1>13, <2>1 DEF RecordStored, TypeOK, readVars
<1>14. ASSUME NEW d \in Devices, ProfileShown(d) PROVE TypeOK'
  <2>1. asked' \in [Devices -> SUBSET Users] /\ watched' \in [Devices -> SUBSET Users]
    BY <1>14 DEF ProfileShown, TypeOK
  <2> QED BY <1>14, <2>1 DEF ProfileShown, TypeOK, serverVars
<1>15. ASSUME NEW d \in Devices, Ends(d) PROVE TypeOK'
  <2>1. Restart(d)
    BY <1>15 DEF Ends, ProfileWithoutUser, ProfileWithoutRecord, RecordTakenBack, ResetDone, Kill
  <2>2. UNCHANGED budget \/ Spend("refusals") \/ Spend("kills")
    BY <1>15 DEF Ends, ProfileWithoutUser, ProfileWithoutRecord, RecordTakenBack, ResetDone, Kill
  <2> QED BY <1>0, <2>1, <2>2, SpendType, RestartTypeOK
<1>16. CASE UNCHANGED vars
  BY <1>16 DEF vars, serverVars, readVars, TypeOK
<1> QED
  BY <1>1, <1>2, <1>3, <1>4, <1>5, <1>6, <1>7, <1>8, <1>10, <1>11, <1>12, <1>13, <1>14,
     <1>15, <1>16
  DEF Next, Touch, AuthAnswers, SavesRecord

(* Accounts, records, screens and requests are well formed at every        *)
(* moment, and the screen every request came from is there to answer to.   *)
THEOREM TypeCorrect == Spec => []TypeOK
  BY InitTypeOK, NextTypeOK, PTL DEF Spec

-----------------------------------------------------------------------------
(* Records.  What is under way for a record is as the record will be: that *)
(* is what makes RecordsComplete and OneWriter inductive.                  *)
RecordInv == RecordsComplete /\ OnTheWay /\ OneWriter

LEMMA InitRecords == Init => RecordInv
  BY DEF Init, RecordInv, RecordsComplete, OnTheWay, OneWriter

\* fewer registrations under way, more accounts and photos: nothing to lose
LEMMA FewerRecords ==
    ASSUME RecordInv,
           accounts \subseteq accounts', photos \subseteq photos', records' = records,
           \A e \in Devices : saving'[e] \subseteq saving[e]
    PROVE  RecordInv'
<1>1. RecordsComplete'
  BY DEF RecordInv, RecordsComplete
<1>2. OnTheWay'
  BY DEF RecordInv, OnTheWay
<1>3. OneWriter'
  BY DEF RecordInv, OneWriter
<1> QED BY <1>1, <1>2, <1>3 DEF RecordInv

\* one registration goes on to its next stage
LEMMA AdvanceRecords ==
    ASSUME TypeOK, RecordInv, NEW d \in Devices, NEW s \in saving[d], NEW stage,
           Advance(d, s, stage), stage = "write" => s.who \in photos',
           accounts' = accounts, photos \subseteq photos', records' = records
    PROVE  RecordInv'
<1> DEFINE t0 == [who |-> s.who, stage |-> stage]
<1>1. \A e \in Devices : saving'[e] = IF e = d THEN (saving[e] \ {s}) \cup {t0} ELSE saving[e]
  BY DEF Advance, TypeOK
<1>2. t0.who = s.who /\ t0.stage = stage
  OBVIOUS
<1> HIDE DEF t0
<1>3. \A e \in Devices : \A t \in saving'[e] :
          (e = d /\ t = t0) \/ (t \in saving[e] /\ (e = d => t # s))
  BY <1>1
<1>4. RecordsComplete'
  BY DEF RecordInv, RecordsComplete
<1>5. OnTheWay'
  BY <1>2, <1>3 DEF RecordInv, OnTheWay
<1>6. \A e \in Devices : \A t \in saving'[e] : t.who = s.who => e = d /\ t = t0
  BY <1>3 DEF RecordInv, OneWriter
<1>7. OneWriter'
  BY <1>2, <1>3, <1>6 DEF RecordInv, OneWriter
<1> QED BY <1>4, <1>5, <1>7 DEF RecordInv

LEMMA NextRecords == TypeOK /\ RecordInv /\ [Next]_vars => RecordInv'
<1> SUFFICES ASSUME TypeOK, RecordInv, [Next]_vars PROVE RecordInv'
  OBVIOUS
<1>1. ASSUME NEW d \in Devices, Touch(d) \/ SignedIn(d) \/ Rejected(d) \/ ProfileShown(d)
      PROVE  RecordInv'
  <2>1. UNCHANGED <<accounts, photos, records, saving>>
    BY <1>1 DEF Touch, FollowLink, LOgin, Register, resetPassword, OpenProfile, Logout,
                SignedIn, Rejected, ProfileShown, serverVars
  <2> QED BY <2>1, FewerRecords
<1>2. ASSUME NEW d \in Devices, Created(d) PROVE RecordInv'
  <2>1. PICK c \in calls[d] :
            /\ c.who \notin accounts
            /\ accounts' = accounts \cup {c.who}
            /\ saving' = [saving EXCEPT ![d] = @ \cup
                   (IF c.photo THEN {[who |-> c.who, stage |-> "upload"]} ELSE {})]
    BY <1>2 DEF Created
  <2> DEFINE t0 == [who |-> c.who, stage |-> "upload"]
  <2>2. \A e \in Devices : \A t \in saving'[e] : t \in saving[e] \/ (e = d /\ t = t0)
    BY <2>1 DEF TypeOK
  <2>3. t0.who = c.who /\ t0.stage = "upload"
    OBVIOUS
  <2> HIDE DEF t0
  <2>4. UNCHANGED <<photos, records>> /\ c.who \notin records
    BY <1>2, <2>1 DEF Created, RecordInv, RecordsComplete
  <2>5. \A e \in Devices : \A t \in saving[e] : t.who # c.who
    BY <2>1 DEF RecordInv, OnTheWay
  <2>6. RecordsComplete'
    BY <2>1, <2>4 DEF RecordInv, RecordsComplete
  <2>7. OnTheWay'
    BY <2>1, <2>2, <2>3, <2>4 DEF RecordInv, OnTheWay
  <2>8. OneWriter'
    BY <2>2, <2>3, <2>4, <2>5 DEF RecordInv, OneWriter
  <2> QED BY <2>6, <2>7, <2>8 DEF RecordInv
<1>3. ASSUME NEW d \in Devices, NotCreated(d) PROVE RecordInv'
  <2>1. accounts \subseteq accounts' /\ UNCHANGED <<photos, records, saving>>
    BY <1>3 DEF NotCreated
  <2> QED BY <2>1, FewerRecords
<1>4. ASSUME NEW d \in Devices, Uploaded(d) PROVE RecordInv'
  <2>1. PICK s \in saving[d] : Advance(d, s, "url") /\ photos \subseteq photos'
    BY <1>4 DEF Uploaded
  <2>2. UNCHANGED <<accounts, records>>
    BY <1>4 DEF Uploaded
  <2> QED BY <2>1, <2>2, AdvanceRecords
<1>5. ASSUME NEW d \in Devices, UrlFound(d) PROVE RecordInv'
  <2>1. PICK s \in saving[d] : HasUrl(s) /\ Advance(d, s, "write")
    BY <1>5 DEF UrlFound
  <2>2. UNCHANGED <<accounts, photos, records>>
    BY <1>5 DEF UrlFound, serverVars
  <2> QED BY <2>1, <2>2, AdvanceRecords DEF HasUrl
<1>6. ASSUME NEW d \in Devices, UrlMissing(d) \/ RecordRefused(d) PROVE RecordInv'
  <2>1. UNCHANGED <<accounts, photos, records>> /\ \A e \in Devices : saving'[e] \subseteq saving[e]
    BY <1>6 DEF UrlMissing, RecordRefused, serverVars, TypeOK
  <2> QED BY <2>1, FewerRecords
<1>7. ASSUME NEW d \in Devices, RecordStored(d) PROVE RecordInv'
  <2>1. PICK s \in saving[d] :
            /\ s.stage = "write"
            /\ saving' = [saving EXCEPT ![d] = @ \ {s}]
            /\ records' = records \cup {s.who}
    BY <1>7 DEF RecordStored
  <2>2. UNCHANGED <<accounts, photos>>
    BY <1>7 DEF RecordStored
  <2>3. s.who \in photos /\ s.who \in accounts
    BY <2>1 DEF RecordInv, OnTheWay
  <2>4. RecordsComplete'
    BY <2>1, <2>2, <2>3 DEF RecordInv, RecordsComplete
  <2>5. \A e \in Devices : \A t \in saving'[e] : t \in saving[e] /\ (e = d => t # s)
    BY <2>1 DEF TypeOK
  <2>6. OnTheWay'
    BY <2>2, <2>5 DEF RecordInv, OnTheWay
  <2>7. \A e \in Devices : \A t \in saving'[e] : t.who # s.who
    BY <2>5 DEF RecordInv, OneWriter
  <2>8. OneWriter'
    BY <2>1, <2>5, <2>7 DEF RecordInv, OneWriter
  <2> QED BY <2>4, <2>6, <2>8 DEF RecordInv
<1>8. ASSUME NEW d \in Devices, Ends(d) PROVE RecordInv'
  <2>1. Restart(d)
    BY <1>8 DEF Ends, ProfileWithoutUser, ProfileWithoutRecord, RecordTakenBack, ResetDone, Kill
  <2>2. accounts \subseteq accounts' /\ UNCHANGED <<photos, records>>
    BY <2>1 DEF Restart
  <2>3. \A e \in Devices : saving'[e] \subseteq saving[e]
    BY <2>1 DEF Restart, TypeOK
  <2> QED BY <2>2, <2>3, FewerRecords
<1>9. CASE UNCHANGED vars
  BY <1>9, FewerRecords DEF vars, serverVars
<1> QED
  BY <1>1, <1>2, <1>3, <1>4, <1>5, <1>6, <1>7, <1>8, <1>9
  DEF Next, AuthAnswers, SavesRecord

(* Every record names a stored photo and a user with an account, whatever  *)
(* fails in Register's chain of callbacks and wherever the process ends.   *)
THEOREM RecordsAreComplete == Spec => []RecordsComplete
<1>1. RecordInv => RecordsComplete
  BY DEF RecordInv
<1> QED BY <1>1, InitRecords, NextRecords, TypeCorrect, PTL DEF Spec

(* No two registrations write records for the same user, and none for a    *)
(* user who has a record.                                                  *)
THEOREM WrittenOnce == Spec => []OneWriter
<1>1. RecordInv => OneWriter
  BY DEF RecordInv
<1> QED BY <1>1, InitRecords, NextRecords, TypeCorrect, PTL DEF Spec
=============================================================================
