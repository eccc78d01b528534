--------------------------- MODULE SharingProofs ---------------------------
(***************************************************************************)
(* Proofs about shares: they stay well formed beside a session that goes   *)
(* on, a post's author has a record and a photo, and no text and no tap    *)
(* makes two posts.                                                        *)
(***************************************************************************)
EXTENDS Sharing, AccountsProofs

-----------------------------------------------------------------------------
(* Type correctness.                                                       *)

\* what SharingTypeOK says of the forms and of a share
FormsOK ==
    /\ forms = [d \in Devices |-> forms[d]]
    /\ \A d \in Devices : forms[d] \in [DOMAIN forms[d] -> Form] /\ DOMAIN forms[d] \subseteq 1..Here(d)

ShareOK(d, s) ==
    /\ s \in Share /\ s.at \in DOMAIN forms[d]
    /\ stack[d][s.at].kind = "tabs"
    /\ s.stage # "upload" => s.who # Nil
    /\ s.stage \in {"url", "write"} => s.who \in watched[d]

SharesOK ==
    /\ shares = [d \in Devices |-> shares[d]]
    /\ \A d \in Devices : \A s \in shares[d] : ShareOK(d, s)

RoomOK == room \in [texts : Nat, shares : Nat]

(* A post names its author: only then is opening the author's details a    *)
(* read of somebody's record.                                              *)
AuthorsKnown == \A p \in posts : p.is.uid \in Users

SharingInv == SharingTypeOK /\ AuthorsKnown

LEMMA SharingParts ==
    SharingTypeOK <=> TypeOK /\ posts \subseteq Post /\ FormsOK /\ SharesOK /\ RoomOK
  BY DEF SharingTypeOK, FormsOK, SharesOK, ShareOK, RoomOK

LEMMA SharingTogether ==
    ASSUME TypeOK', posts' \subseteq Post, FormsOK', SharesOK', RoomOK', AuthorsKnown'
    PROVE  SharingInv'
  BY DEF SharingInv, SharingTypeOK, FormsOK, SharesOK, ShareOK, RoomOK

LEMMA Screens ==
    ASSUME TypeOK, NEW d \in Devices
    PROVE  Here(d) \in 1..Here(d) /\ Here(d) \in Nat /\ Here(d) = Len(stack[d]) /\ stack[d] \in Seq(Screen)
<1>1. stack[d] \in Seq(Screen) /\ stack[d] # << >>
  BY DEF TypeOK
<1> QED BY <1>1 DEF Here

\* a session that goes on leaves its screens where they were and what they are
Grown == \A e \in Devices :
    /\ watched[e] \subseteq watched'[e]
    /\ Len(stack[e]) <= Len(stack'[e])
    /\ \A i \in 1..Len(stack[e]) : stack'[e][i].kind = stack[e][i].kind

LEMMA Appended ==
    ASSUME TypeOK, NEW d \in Devices, NEW s, stack' = [stack EXCEPT ![d] = Append(@, s)],
           UNCHANGED watched
    PROVE  Grown
<1> SUFFICES ASSUME NEW e \in Devices
             PROVE  /\ Len(stack[e]) <= Len(stack'[e])
                    /\ \A i \in 1..Len(stack[e]) : stack'[e][i].kind = stack[e][i].kind
  BY DEF Grown
<1>1. stack[e] \in Seq(Screen) /\ stack'[e] = IF e = d THEN Append(stack[d], s) ELSE stack[e]
  BY DEF TypeOK
<1>2. CASE e = d
  <2>1. Len(Append(stack[e], s)) = Len(stack[e]) + 1 /\ Len(stack[e]) \in Nat
    BY <1>1
  <2>2. \A i \in 1..Len(stack[e]) : Append(stack[e], s)[i] = stack[e][i]
    BY <1>1
  <2> QED BY <1>1, <1>2, <2>1, <2>2
<1>3. CASE e # d
  BY <1>1, <1>3
<1> QED BY <1>2, <1>3

LEMMA Standing ==
    ASSUME TypeOK, stack' = stack, \A e \in Devices : watched[e] \subseteq watched'[e]
    PROVE  Grown
<1> SUFFICES ASSUME NEW e \in Devices PROVE Len(stack[e]) <= Len(stack[e])
  BY DEF Grown
<1> QED BY Screens

GoesOn(d) == Touch(d) \/ AuthAnswers(d) \/ SavesRecord(d) \/ ProfileShown(d)

LEMMA SessionGrows ==
    ASSUME TypeOK, NEW d \in Devices, GoesOn(d)
    PROVE  Grown
<1>1. ASSUME NEW c, transitionToHome(d, c), UNCHANGED watched PROVE Grown
  <2>1. CASE c.at = Len(stack[d])
    BY <1>1, <2>1, Appended DEF transitionToHome
  <2>2. CASE c.at # Len(stack[d])
    <3>1. stack' = stack
      BY <1>1, <2>2 DEF transitionToHome, TypeOK
    <3> QED BY <1>1, <3>1, Standing
  <2> QED BY <2>1, <2>2
<1>2. CASE FollowLink(d) \/ Logout(d)
  BY <1>2, Appended DEF FollowLink, Logout, readVars
<1>3. CASE LOgin(d) \/ Register(d) \/ resetPassword(d) \/ Rejected(d) \/ SavesRecord(d)
  <2>1. UNCHANGED <<stack, watched>>
    BY <1>3 DEF LOgin, Register, resetPassword, Rejected, SavesRecord, Uploaded, UrlFound,
                UrlMissing, RecordStored, RecordRefused, readVars
  <2> QED BY <2>1, Standing
<1>4. CASE OpenProfile(d)
  <2> SUFFICES ASSUME NEW e \in Devices
               PROVE  /\ Len(stack[e]) <= Len(stack'[e])
                      /\ \A i \in 1..Len(stack[e]) : stack'[e][i].kind = stack[e][i].kind
    BY <1>4 DEF Grown, OpenProfile
  <2>1. stack[e] \in Seq(Screen) /\ Len(stack[e]) \in Nat /\ Len(stack[e]) \in 1..Len(stack[e])
    BY Screens DEF Here
  <2> DEFINE n == Len(stack[d])
             opened == [stack[d] EXCEPT ![n].opened = TRUE]
  <2>2. stack'[e] = IF e = d THEN opened ELSE stack[e]
    BY <1>4 DEF OpenProfile, TypeOK
  <2>3. CASE e = d
    <3>1. stack[d][n] \in Screen
      BY <2>1, <2>3
    <3>2. [stack[d][n] EXCEPT !.opened = TRUE] \in Screen /\ [stack[d][n] EXCEPT !.opened = TRUE].kind = stack[d][n].kind
      BY <3>1 DEF Screen
    <3>3. Len(opened) = n /\ \A i \in 1..n : opened[i].kind = stack[d][i].kind
      BY <2>1, <2>3, <3>2
    <3> QED BY <2>1, <2>2, <2>3, <3>3
  <2>4. CASE e # d
    BY <2>1, <2>2, <2>4
  <2> QED BY <2>3, <2>4
<1>5. CASE SignedIn(d) \/ Created(d) \/ NotCreated(d)
  BY <1>1, <1>5 DEF SignedIn, Created, NotCreated, readVars
<1>6. CASE ProfileShown(d)
  BY <1>6, Standing DEF ProfileShown, TypeOK
<1> QED BY <1>2, <1>3, <1>4, <1>5, <1>6 DEF GoesOn, Touch, AuthAnswers

\* what a session that goes on leaves right
LEMMA FormsStay ==
    ASSUME TypeOK, FormsOK, Grown, forms' = forms, TypeOK'
    PROVE  FormsOK'
<1> SUFFICES ASSUME NEW d \in Devices PROVE DOMAIN forms[d] \subseteq 1..Here(d)'
  BY DEF FormsOK
<1>1. Here(d) \in Nat /\ Here(d)' \in Nat /\ Here(d) <= Here(d)'
  <2>1. Len(stack'[d]) \in Nat
    BY DEF TypeOK
  <2> QED BY <2>1, Screens DEF Grown, Here
<1> QED BY <1>1 DEF FormsOK

LEMMA ShareStays ==
    ASSUME TypeOK, FormsOK, Grown, NEW d \in Devices, NEW s, ShareOK(d, s),
           DOMAIN forms[d] \subseteq DOMAIN forms'[d]
    PROVE  ShareOK(d, s)'
<1>1. s.at \in 1..Len(stack[d])
  BY DEF ShareOK, FormsOK, Here
<1> QED BY <1>1 DEF ShareOK, Grown

\* a form is filled in
LEMMA FormSet ==
    ASSUME TypeOK, FormsOK, NEW d \in Devices, NEW i \in 1..Here(d), NEW f \in Form,
           SetForm(d, i, f), stack' = stack
    PROVE  /\ FormsOK'
           /\ \A e \in Devices : DOMAIN forms[e] \subseteq DOMAIN forms'[e]
           /\ i \in DOMAIN forms'[d]
           /\ \A e \in Devices : \A j :
                  FormAt(e, j)' = IF e = d /\ j = i THEN f ELSE FormAt(e, j)
<1> DEFINE g == [j \in DOMAIN forms[d] \cup {i} |-> IF j = i THEN f ELSE forms[d][j]]
<1>1. forms' = [forms EXCEPT ![d] = g]
  BY DEF SetForm
<1>2. \A e \in Devices : forms'[e] = IF e = d THEN g ELSE forms[e]
  BY <1>1 DEF FormsOK
<1>3. forms' = [e \in Devices |-> forms'[e]]
  BY <1>1 DEF FormsOK
<1>4. DOMAIN g = DOMAIN forms[d] \cup {i} /\ \A j \in DOMAIN g : g[j] = IF j = i THEN f ELSE forms[d][j]
  OBVIOUS
<1>5. g \in [DOMAIN g -> Form]
  BY DEF FormsOK
<1>6. DOMAIN g \subseteq 1..Here(d)
  BY <1>4 DEF FormsOK
<1> HIDE DEF g
<1>7. FormsOK'
  BY <1>2, <1>3, <1>5, <1>6 DEF FormsOK, Here
<1>8. \A e \in Devices : DOMAIN forms[e] \subseteq DOMAIN forms'[e]
  BY <1>2, <1>4
<1>9. i \in DOMAIN forms'[d]
  BY <1>2, <1>4
<1>10. ASSUME NEW e \in Devices, NEW j
       PROVE  FormAt(e, j)' = IF e = d /\ j = i THEN f ELSE FormAt(e, j)
  <2>1. CASE e = d
    BY <1>2, <1>4, <2>1 DEF FormAt
  <2>2. CASE e # d
    BY <1>2, <2>2 DEF FormAt
  <2> QED BY <2>1, <2>2
<1> QED BY <1>7, <1>8, <1>9, <1>10

LEMMA FormType == ASSUME FormsOK, NEW d \in Devices, NEW i PROVE FormAt(d, i) \in Form
<1>1. Blank \in Form
  BY DEF Blank, Form, Image
<1> QED BY <1>1 DEF FormAt, FormsOK

\* the shares of the other devices, and those of d that stay
LEMMA SharesStay ==
    ASSUME TypeOK, FormsOK, SharesOK, Grown, NEW d \in Devices, NEW S,
           shares' = [shares EXCEPT ![d] = S],
           \A e \in Devices : DOMAIN forms[e] \subseteq DOMAIN forms'[e],
           \A s \in S : s \in shares[d] \/ ShareOK(d, s)'
    PROVE  SharesOK'
<1>1. shares' = [e \in Devices |-> shares'[e]]
  BY DEF SharesOK
<1>2. \A e \in Devices : shares'[e] = IF e = d THEN S ELSE shares[e]
  BY DEF SharesOK
<1>3. ASSUME NEW e \in Devices, NEW s \in shares'[e] PROVE ShareOK(e, s)'
  <2>1. CASE s \in shares[e]
    BY <2>1, ShareStays DEF SharesOK
  <2>2. CASE s \notin shares[e]
    BY <1>2, <1>3, <2>2
  <2> QED BY <2>1, <2>2
<1> QED BY <1>1, <1>3 DEF SharesOK

\* a process ends: its forms and shares are gone
LEMMA Forgotten ==
    ASSUME TypeOK, FormsOK, SharesOK, NEW d \in Devices, Forget(d), Restart(d)
    PROVE  FormsOK' /\ SharesOK'
<1>1. \A e \in Devices : forms'[e] = IF e = d THEN << >> ELSE forms[e]
  BY DEF FormsOK, Forget
<1>2. \A e \in Devices : shares'[e] = IF e = d THEN {} ELSE shares[e]
  BY DEF SharesOK, Forget
<1>3. \A e \in Devices : e # d => stack'[e] = stack[e] /\ watched'[e] = watched[e]
  BY DEF Restart, TypeOK
<1>4. forms' = [e \in Devices |-> forms'[e]] /\ shares' = [e \in Devices |-> shares'[e]]
  BY DEF FormsOK, SharesOK, Forget
<1>5. ASSUME NEW e \in Devices
      PROVE  forms'[e] \in [DOMAIN forms'[e] -> Form] /\ DOMAIN forms'[e] \subseteq 1..Here(e)'
  <2>1. CASE e = d
    <3>1. DOMAIN << >> = {} /\ << >> \in [{} -> Form]
      OBVIOUS
    <3> QED BY <1>1, <2>1, <3>1
  <2>2. CASE e # d
    BY <1>1, <1>3, <2>2 DEF FormsOK, Here
  <2> QED BY <2>1, <2>2
<1>6. ASSUME NEW e \in Devices, NEW s \in shares'[e] PROVE ShareOK(e, s)'
  <2>1. e # d /\ s \in shares[e]
    BY <1>2, <1>6
  <2> QED BY <1>1, <1>3, <2>1 DEF SharesOK, ShareOK
<1> QED BY <1>4, <1>5, <1>6 DEF FormsOK, SharesOK

\* an account's step of the session
LEMMA RestartOK == ASSUME TypeOK, NEW d \in Devices, Restart(d), UNCHANGED budget PROVE TypeOK'
<1>1. budget' \in Budgets
  BY DEF TypeOK
<1> QED BY <1>1, RestartTypeOK

LEMMA SpendOnly ==
    ASSUME TypeOK, NEW b \in {"links", "calls", "failures", "refusals", "kills"}, Spend(b),
           UNCHANGED <<serverVars, readVars, user, stack, calls, saving>>
    PROVE  TypeOK'
<1>1. budget' \in Budgets
  BY SpendType DEF TypeOK
<1> QED BY <1>1 DEF TypeOK, serverVars, readVars

LEMMA SameTypeOK == ASSUME TypeOK, UNCHANGED vars PROVE TypeOK' /\ Grown
<1>1. TypeOK'
  BY NextTypeOK
<1>2. Grown
  BY Standing DEF vars, readVars
<1> QED BY <1>1, <1>2

LEMMA UseType ==
    ASSUME RoomOK, NEW r \in {"texts", "shares"}, Use(r)
    PROVE  RoomOK'
  BY DEF RoomOK, Use

LEMMA InitSharing == SInit => SharingInv
<1> SUFFICES ASSUME SInit PROVE SharingInv
  OBVIOUS
<1>1. TypeOK
  BY InitTypeOK DEF SInit
<1>2. DOMAIN << >> = {} /\ << >> \in [{} -> Form]
  OBVIOUS
<1>3. FormsOK /\ SharesOK
  BY <1>2 DEF SInit, FormsOK, SharesOK
<1>4. RoomOK
  BY SharingRoom DEF SInit, RoomOK
<1> QED BY <1>1, <1>3, <1>4, SharingParts DEF SInit, SharingInv, AuthorsKnown

\* touches of the form
LEMMA EditsSharing == ASSUME SharingInv, NEW d \in Devices, Edits(d) PROVE SharingInv'
<1>0. TypeOK /\ posts \subseteq Post /\ FormsOK /\ SharesOK /\ RoomOK /\ AuthorsKnown
  BY SharingParts DEF SharingInv
<1> SUFFICES TypeOK' /\ posts' = posts /\ FormsOK' /\ SharesOK' /\ RoomOK'
  BY <1>0, SharingTogether DEF AuthorsKnown
<1>1. ASSUME NEW f \in Form, SetForm(d, Here(d), f), UNCHANGED <<vars, shares>>
      PROVE  TypeOK' /\ FormsOK' /\ SharesOK'
  <2>1. TypeOK' /\ Grown
    BY <1>0, <1>1, SameTypeOK
  <2>2. FormsOK' /\ \A e \in Devices : DOMAIN forms[e] \subseteq DOMAIN forms'[e]
    BY <1>0, <1>1, FormSet, Screens DEF vars
  <2>3. shares' = [shares EXCEPT ![d] = shares[d]]
    BY <1>0, <1>1 DEF SharesOK
  <2> QED BY <1>0, <2>1, <2>2, <2>3, SharesStay
<1>2. FormAt(d, Here(d)) \in Form
  BY <1>0, FormType
<1>3. CASE imagePickerController(d)
  <2>1. PICK p \in Pictures :
            SetForm(d, Here(d), [FormAt(d, Here(d)) EXCEPT !.selected = p, !.shown = p])
    BY <1>3 DEF imagePickerController
  <2>2. [FormAt(d, Here(d)) EXCEPT !.selected = p, !.shown = p] \in Form
    BY <1>2 DEF Form, Image
  <2> QED BY <1>0, <1>1, <1>3, <2>1, <2>2 DEF imagePickerController, RoomOK
<1>4. CASE TypeText(d)
  <2>1. [FormAt(d, Here(d)) EXCEPT !.text = room.texts] \in Form
    BY <1>0, <1>2 DEF Form, RoomOK
  <2>2. RoomOK'
    BY <1>0, <1>4, UseType DEF TypeText
  <2> QED BY <1>1, <1>4, <2>1, <2>2 DEF TypeText
<1>5. CASE Remove_post(d)
  <2>1. Cleared(FormAt(d, Here(d))) \in Form
    BY <1>2 DEF Form, Cleared, Image
  <2> QED BY <1>0, <1>1, <1>5, <2>1 DEF Remove_post, RoomOK
<1>6. CASE StartShare(d)
  <2> DEFINE f == FormAt(d, Here(d))
  <2>0. PICK s : s = [n |-> room.shares, at |-> Here(d), stage |-> "upload", image |-> f.selected,
                   who |-> Nil, text |-> 0,
                   told |-> [uid |-> user[d], image |-> f.shown, text |-> f.text]]
    OBVIOUS
  <2>1. TypeOK' /\ Grown
    BY <1>0, <1>6, SameTypeOK DEF StartShare
  <2>2. Here(d) \in DOMAIN forms[d]
    BY <1>6 DEF StartShare, FormAt, Blank
  <2>3. user[d] \in Users \cup {Nil} /\ Here(d) \in Nat
    BY <1>0, Screens DEF TypeOK
  <2>4. [uid |-> user[d], image |-> f.shown, text |-> f.text] \in Content
    BY <1>2, <2>3 DEF Content, Form
  <2>5. s \in Share
    BY <1>0, <1>2, <2>0, <2>3, <2>4 DEF Share, Form, RoomOK
  <2>6. stack[d][Here(d)].kind = "tabs"
    BY <1>6 DEF StartShare, Top, Here
  <2>7. ShareOK(d, s)'
    <3>1. UNCHANGED <<forms, stack, watched>>
      BY <1>6 DEF StartShare, vars, readVars
    <3>2. ShareOK(d, s)
      BY <2>0, <2>2, <2>5, <2>6 DEF ShareOK
    <3> QED BY <3>1, <3>2 DEF ShareOK
  <2>8. shares' = [shares EXCEPT ![d] = shares[d] \cup {s}] /\ UNCHANGED <<vars, posts, forms>>
    BY <1>6, <2>0 DEF StartShare
  <2>9. SharesOK'
    <3>1. \A e \in Devices : DOMAIN forms[e] \subseteq DOMAIN forms'[e]
      BY <2>8
    <3> QED BY <3>1, <1>0, <2>1, <2>7, <2>8, SharesStay
  <2>10. FormsOK'
    BY <1>0, <2>1, <2>8, FormsStay
  <2>11. RoomOK'
    BY <1>0, <1>6, UseType DEF StartShare
  <2> QED BY <2>1, <2>8, <2>9, <2>10, <2>11
<1>7. CASE OpenAuthor(d)
  <2>1. asked' \in [Devices -> SUBSET Users]
    BY <1>0, <1>7 DEF OpenAuthor, TypeOK, AuthorsKnown
  <2>2. TypeOK'
    BY <1>0, <1>7, <2>1 DEF OpenAuthor, TypeOK, serverVars
  <2>3. UNCHANGED <<stack, watched, posts, forms, shares, room>>
    BY <1>7 DEF OpenAuthor, shareVars
  <2> QED BY <1>0, <2>2, <2>3 DEF FormsOK, SharesOK, ShareOK, RoomOK, Here
<1> QED BY <1>3, <1>4, <1>5, <1>6, <1>7 DEF Edits

\* a share's next stage, and what is left of d's shares
LEMMA Replaced ==
    ASSUME SharesOK, NEW d \in Devices, NEW s, NEW t, Replace(d, s, t)
    PROVE  /\ shares' = [shares EXCEPT ![d] = (shares[d] \ {s}) \cup {t}]
           /\ \A e \in Devices : shares'[e] = IF e = d THEN (shares[d] \ {s}) \cup {t} ELSE shares[e]
  BY DEF SharesOK, Replace

LEMMA Dropped ==
    ASSUME SharesOK, NEW d \in Devices, NEW s, Drop(d, s)
    PROVE  /\ shares' = [shares EXCEPT ![d] = shares[d] \ {s}]
           /\ \A e \in Devices : shares'[e] = IF e = d THEN shares[d] \ {s} ELSE shares[e]
  BY DEF SharesOK, Drop

\* a share written is a post with an author
LEMMA PostType ==
    ASSUME NEW d \in Devices, NEW s, ShareOK(d, s), s.stage = "write"
    PROVE  PostOf(s) \in Post /\ PostOf(s).is.uid \in Users
  BY DEF ShareOK, Share, Content, Post, PostOf

LEMMA SharesSharing == ASSUME SharingInv, NEW d \in Devices, Shares(d) PROVE SharingInv'
<1>0. TypeOK /\ posts \subseteq Post /\ FormsOK /\ SharesOK /\ RoomOK /\ AuthorsKnown
  BY SharingParts DEF SharingInv
<1> SUFFICES TypeOK' /\ posts' \subseteq Post /\ FormsOK' /\ SharesOK' /\ RoomOK' /\ AuthorsKnown'
  BY SharingTogether
<1>1. ASSUME UNCHANGED forms, UNCHANGED stack PROVE FormsOK'
  BY <1>0, <1>1 DEF FormsOK, Here
<1>2. ASSUME UNCHANGED room PROVE RoomOK'
  BY <1>0, <1>2 DEF RoomOK
<1>3. ASSUME UNCHANGED posts PROVE posts' \subseteq Post /\ AuthorsKnown'
  BY <1>0, <1>3 DEF AuthorsKnown
<1>4. ASSUME NEW s \in shares[d], Drop(d, s), Grown, UNCHANGED forms PROVE SharesOK'
  <2>1. shares' = [shares EXCEPT ![d] = shares[d] \ {s}]
    BY <1>0, <1>4, Dropped
  <2>2. \A e \in Devices : DOMAIN forms[e] \subseteq DOMAIN forms'[e]
    BY <1>4
  <2> QED BY <1>0, <1>4, <2>1, <2>2, SharesStay
<1>5. ASSUME NEW s \in shares[d], NEW t, Replace(d, s, t), Grown,
             \A e \in Devices : DOMAIN forms[e] \subseteq DOMAIN forms'[e],
             ShareOK(d, t)'
      PROVE  SharesOK'
  <2>1. shares' = [shares EXCEPT ![d] = (shares[d] \ {s}) \cup {t}]
    BY <1>0, <1>5, Replaced
  <2> QED BY <1>0, <1>5, <2>1, SharesStay
<1>6. CASE PhotoStored(d)
  <2>1. PICK s \in shares[d] :
            s.stage = "upload" /\ Replace(d, s, [s EXCEPT !.stage = "record", !.who = user[d]])
    BY <1>6 DEF PhotoStored
  <2>2. user[d] \in Users /\ user[d] # Nil
    BY <1>0, <1>6 DEF PhotoStored, TypeOK
  <2>3. PICK t : t = [s EXCEPT !.stage = "record", !.who = user[d]]
    OBVIOUS
  <2>4. ShareOK(d, s)
    BY <1>0 DEF SharesOK
  <2>5. t \in Share /\ t.at = s.at /\ t.stage = "record" /\ t.who # Nil
    BY <2>2, <2>3, <2>4 DEF ShareOK, Share
  <2>6. UNCHANGED <<forms, stack, watched, posts, room>>
    BY <1>6 DEF PhotoStored, vars, readVars
  <2>7. ShareOK(d, t)'
    BY <2>4, <2>5, <2>6 DEF ShareOK
  <2>8. TypeOK' /\ Grown
    BY <1>0, <1>6, SameTypeOK DEF PhotoStored
  <2>9. SharesOK'
    BY <1>5, <2>1, <2>3, <2>6, <2>7, <2>8
  <2> QED BY <1>1, <1>2, <1>3, <2>6, <2>8, <2>9
<1>7. CASE PhotoFailed(d) \/ PhotoUrlMissing(d) \/ PostRefused(d)
  <2>1. PICK s \in shares[d] : Drop(d, s)
    BY <1>7 DEF PhotoFailed, PhotoUrlMissing, PostRefused
  <2>2. /\ UNCHANGED <<serverVars, readVars, user, stack, calls, saving, posts, forms, room>>
        /\ Spend("failures") \/ Spend("refusals")
    BY <1>7 DEF PhotoFailed, PhotoUrlMissing, PostRefused
  <2>3. TypeOK'
    BY <1>0, <2>2, SpendOnly
  <2>4. Grown
    BY <1>0, <2>2, Standing DEF readVars
  <2>5. SharesOK'
    BY <1>4, <2>1, <2>2, <2>4
  <2> QED BY <1>1, <1>2, <1>3, <2>2, <2>3, <2>5
<1>8. CASE RecordRead(d)
  <2>1. PICK s \in shares[d] :
            /\ s.stage = "record"
            /\ Replace(d, s, [s EXCEPT !.stage = "url"])
            /\ watched' = [watched EXCEPT ![d] = @ \cup {s.who}]
    BY <1>8 DEF RecordRead
  <2>2. UNCHANGED <<serverVars, asked, user, stack, calls, saving, budget, posts, forms, room>>
    BY <1>8 DEF RecordRead
  <2>3. PICK t : t = [s EXCEPT !.stage = "url"]
    OBVIOUS
  <2>4. ShareOK(d, s)
    BY <1>0 DEF SharesOK
  <2>5. s.who \in Users
    BY <2>1, <2>4 DEF ShareOK, Share
  <2>6. watched' \in [Devices -> SUBSET Users]
    BY <1>0, <2>1, <2>5 DEF TypeOK
  <2>7. TypeOK'
    BY <1>0, <2>2, <2>6 DEF TypeOK, serverVars
  <2>8. Grown
    <3>1. \A e \in Devices : watched[e] \subseteq watched'[e]
      BY <1>0, <2>1 DEF TypeOK
    <3> QED BY <1>0, <2>2, <3>1, Standing
  <2>9. t \in Share /\ t.at = s.at /\ t.stage = "url" /\ t.who = s.who
    BY <2>3, <2>4 DEF ShareOK, Share
  <2>10. s.who \in watched'[d]
    BY <1>0, <2>1 DEF TypeOK
  <2>11. s.who # Nil
    BY <2>1, <2>4 DEF ShareOK
  <2>12. ShareOK(d, t)'
    BY <2>2, <2>4, <2>9, <2>10, <2>11 DEF ShareOK
  <2>13. \A e \in Devices : DOMAIN forms[e] \subseteq DOMAIN forms'[e]
    BY <2>2
  <2>14. SharesOK'
    BY <1>5, <2>1, <2>3, <2>8, <2>12, <2>13
  <2> QED BY <1>1, <1>2, <1>3, <2>2, <2>7, <2>14
<1>9. CASE PostWritten(d)
  <2>1. PICK s \in shares[d] :
            /\ s.stage = "url"
            /\ Replace(d, s, [s EXCEPT !.stage = "write", !.text = FormAt(d, s.at).text])
            /\ SetForm(d, s.at, Emptied(FormAt(d, s.at)))
    BY <1>9 DEF PostWritten
  <2>2. PICK t : t = [s EXCEPT !.stage = "write", !.text = FormAt(d, s.at).text]
    OBVIOUS
  <2>3. PICK f : f = Emptied(FormAt(d, s.at))
    OBVIOUS
  <2>4. ShareOK(d, s)
    BY <1>0 DEF SharesOK
  <2>5. FormAt(d, s.at) \in Form
    BY <1>0, FormType
  <2>6. f \in Form
    BY <2>3, <2>5 DEF Emptied, Cleared, Form, Image
  <2>7. s.at \in 1..Here(d)
    BY <1>0, <2>4 DEF ShareOK, FormsOK
  <2>8. UNCHANGED <<vars, posts, room>>
    BY <1>9 DEF PostWritten
  <2>9. TypeOK' /\ Grown /\ UNCHANGED <<stack, watched>>
    BY <1>0, <2>8, SameTypeOK DEF vars, readVars
  <2>10. /\ FormsOK' /\ s.at \in DOMAIN forms'[d]
         /\ \A e \in Devices : DOMAIN forms[e] \subseteq DOMAIN forms'[e]
    BY <1>0, <2>1, <2>3, <2>6, <2>7, <2>9, FormSet
  <2>11. t \in Share /\ t.at = s.at /\ t.stage = "write" /\ t.who = s.who
    BY <2>2, <2>4, <2>5 DEF ShareOK, Share, Form
  <2>12. s.who \in watched[d] /\ s.who # Nil /\ stack[d][s.at].kind = "tabs"
    BY <2>1, <2>4 DEF ShareOK
  <2>13. ShareOK(d, t)'
    BY <2>9, <2>10, <2>11, <2>12 DEF ShareOK
  <2>14. SharesOK'
    BY <1>5, <2>1, <2>2, <2>9, <2>10, <2>13
  <2> QED BY <1>2, <1>3, <2>8, <2>9, <2>10, <2>14
<1>10. CASE PostStored(d)
  <2>1. PICK s \in shares[d] : s.stage = "write" /\ Drop(d, s) /\ posts' = posts \cup {PostOf(s)}
    BY <1>10 DEF PostStored
  <2>2. UNCHANGED <<vars, forms, room>>
    BY <1>10 DEF PostStored
  <2>3. TypeOK' /\ Grown /\ UNCHANGED stack
    BY <1>0, <2>2, SameTypeOK DEF vars
  <2>4. PostOf(s) \in Post /\ PostOf(s).is.uid \in Users
    BY <1>0, <2>1, PostType DEF SharesOK
  <2>5. posts' \subseteq Post /\ AuthorsKnown'
    BY <1>0, <2>1, <2>4 DEF AuthorsKnown
  <2>6. SharesOK'
    BY <1>4, <2>1, <2>2, <2>3
  <2> QED BY <1>1, <1>2, <2>2, <2>3, <2>5, <2>6
<1> QED BY <1>6, <1>7, <1>8, <1>9, <1>10 DEF Shares

LEMMA EndsSharing ==
    ASSUME SharingInv, NEW d \in Devices,
           ShareWithoutUser(d) \/ ShareWithoutRecord(d) \/ TakenBackLate(d)
           \/ (Ends(d) /\ Forget(d) /\ UNCHANGED posts)
    PROVE  SharingInv'
<1>0. TypeOK /\ posts \subseteq Post /\ FormsOK /\ SharesOK /\ RoomOK /\ AuthorsKnown
  BY SharingParts DEF SharingInv
<1>1. Restart(d) /\ Forget(d)
  BY DEF ShareWithoutUser, ShareWithoutRecord, TakenBackLate, RecordTakenBack, Ends,
         ProfileWithoutUser, ProfileWithoutRecord, ResetDone, Kill
<1>2. FormsOK' /\ SharesOK' /\ RoomOK'
  BY <1>0, <1>1, Forgotten DEF Forget, RoomOK
<1>3. TypeOK'
  <2>1. CASE ShareWithoutUser(d) \/ ShareWithoutRecord(d)
    BY <1>0, <1>1, <2>1, RestartOK DEF ShareWithoutUser, ShareWithoutRecord
  <2>2. CASE TakenBackLate(d) \/ Ends(d)
    <3>1. Next
      BY <2>2 DEF TakenBackLate, Ends, Next
    <3> QED BY <1>0, <3>1, NextTypeOK
  <2> QED BY <2>1, <2>2
<1>4. posts' \subseteq Post /\ AuthorsKnown'
  <2>1. CASE UNCHANGED posts
    BY <1>0, <2>1 DEF AuthorsKnown
  <2>2. CASE TakenBackLate(d)
    <3>1. PICK made \in SUBSET {PostOf(s) : s \in {t \in shares[d] : t.stage = "write"}} :
              posts' = posts \cup made
      BY <2>2 DEF TakenBackLate
    <3>2. \A p \in made : p \in Post /\ p.is.uid \in Users
      BY <1>0, PostType DEF SharesOK
    <3> QED BY <1>0, <3>1, <3>2 DEF AuthorsKnown
  <2> QED BY <2>1, <2>2 DEF ShareWithoutUser, ShareWithoutRecord
<1> QED BY <1>2, <1>3, <1>4, SharingTogether

LEMMA NextSharing == SharingInv /\ [SNext]_allVars => SharingInv'
<1> SUFFICES ASSUME SharingInv, [SNext]_allVars PROVE SharingInv'
  OBVIOUS
<1>1. ASSUME NEW d \in Devices, GoesOn(d), UNCHANGED shareVars PROVE SharingInv'
  <2>0. TypeOK /\ posts \subseteq Post /\ FormsOK /\ SharesOK /\ RoomOK /\ AuthorsKnown
    BY SharingParts DEF SharingInv
  <2>1. TypeOK'
    <3>1. Next
      BY <1>1 DEF GoesOn, Next
    <3> QED BY <2>0, <3>1, NextTypeOK
  <2>2. Grown
    BY <1>1, <2>0, SessionGrows
  <2>3. UNCHANGED <<posts, forms, shares, room>>
    BY <1>1 DEF shareVars
  <2>4. FormsOK'
    BY <2>0, <2>1, <2>2, <2>3, FormsStay
  <2>5. SharesOK'
    <3>1. ASSUME NEW e \in Devices, NEW s \in shares'[e] PROVE ShareOK(e, s)'
      BY <2>0, <2>2, <2>3, <3>1, ShareStays DEF SharesOK
    <3> QED BY <2>0, <2>3, <3>1 DEF SharesOK
  <2>6. posts' \subseteq Post /\ RoomOK' /\ AuthorsKnown'
    BY <2>0, <2>3 DEF RoomOK, AuthorsKnown
  <2> QED BY <2>1, <2>4, <2>5, <2>6, SharingTogether
<1>2. CASE UNCHANGED allVars
  BY <1>2 DEF allVars, vars, serverVars, readVars, shareVars, SharingInv, SharingTypeOK, TypeOK,
              AuthorsKnown, Here
<1> QED BY <1>1, <1>2, EditsSharing, SharesSharing, EndsSharing DEF SNext, Session, GoesOn

(* Posts, forms and shares are well formed at every moment: the form a     *)
(* share is to empty is still there, on its tab bar, and a share whose     *)
(* picture is stored has an author whose record is watched, whatever the   *)
(* user and the session have done meanwhile.                               *)
THEOREM SharesWellFormed == SSpec => []SharingTypeOK
<1>1. SharingInv => SharingTypeOK
  BY DEF SharingInv
<1> QED BY <1>1, InitSharing, NextSharing, PTL DEF SSpec

-----------------------------------------------------------------------------
(* Whom a post is credited to.  RecordInv, proved about the session alone, *)
(* holds beside shares too.                                                *)

\* how a step of a share is for the session: it is one, or it ends a process,
\* or it has nothing to do with records
LEMMA SessionStep ==
    ASSUME [SNext]_allVars
    PROVE  \/ Next
           \/ \E d \in Devices : Restart(d)
           \/ UNCHANGED <<accounts, photos, records, saving>>
<1>1. ASSUME NEW d \in Devices, Session(d) PROVE Next
  BY <1>1 DEF Session, Next
<1>2. ASSUME NEW d \in Devices, Edits(d) PROVE UNCHANGED <<accounts, photos, records, saving>>
  BY <1>2 DEF Edits, imagePickerController, TypeText, Remove_post, StartShare, OpenAuthor,
              vars, serverVars
<1>3. ASSUME NEW d \in Devices, Shares(d) PROVE UNCHANGED <<accounts, photos, records, saving>>
  BY <1>3 DEF Shares, PhotoStored, PhotoFailed, RecordRead, PostWritten, PhotoUrlMissing,
              PostStored, PostRefused, vars, serverVars
<1>4. ASSUME NEW d \in Devices, ShareWithoutUser(d) \/ ShareWithoutRecord(d) \/ TakenBackLate(d)
      PROVE  Restart(d)
  BY <1>4 DEF ShareWithoutUser, ShareWithoutRecord, TakenBackLate, RecordTakenBack
<1>5. CASE UNCHANGED allVars
  BY <1>5 DEF allVars, vars, serverVars
<1> QED BY <1>1, <1>2, <1>3, <1>4, <1>5 DEF SNext

LEMMA SharingRecords == SharingInv /\ RecordInv /\ [SNext]_allVars => RecordInv'
<1> SUFFICES ASSUME SharingInv, RecordInv, [SNext]_allVars PROVE RecordInv'
  OBVIOUS
<1>0. TypeOK
  BY SharingParts DEF SharingInv
<1>1. CASE Next
  BY <1>0, <1>1, NextRecords
<1>2. ASSUME NEW d \in Devices, Restart(d) PROVE RecordInv'
  <2>1. accounts \subseteq accounts' /\ UNCHANGED <<photos, records>>
    BY <1>2 DEF Restart
  <2>2. \A e \in Devices : saving'[e] \subseteq saving[e]
    BY <1>0, <1>2 DEF Restart, TypeOK
  <2> QED BY <2>1, <2>2, FewerRecords
<1>3. CASE UNCHANGED <<accounts, photos, records, saving>>
  BY <1>3, FewerRecords
<1> QED BY <1>1, <1>2, <1>3, SessionStep

(* Until the server refuses something: a share that read its author's      *)
(* record, and later the post made of it, has an author whose record the   *)
(* device sees - it is on the server, or being written by the device ahead *)
(* of the post.                                                            *)
Credited ==
    /\ \A p \in posts : p.is.uid \in records
    /\ \A d \in Devices : \A s \in shares[d] :
           s.stage \in {"url", "write"} => s.who \in Visible(d)

CreditInv ==
    budget.refusals <= MaxRefusals /\ (budget.refusals = MaxRefusals => Credited)

\* without a refusal or an end, what a device sees it goes on seeing
LEMMA VisibleStays ==
    ASSUME TypeOK, NEW d \in Devices, GoesOn(d), ~RecordRefused(d)
    PROVE  records \subseteq records' /\ \A e \in Devices : Visible(e) \subseteq Visible(e)'
<1>1. ASSUME records \subseteq records',
             \A e \in Devices : \A s \in saving[e] :
                 s.stage = "write" => s \in saving'[e] \/ s.who \in records'
      PROVE  \A e \in Devices : Visible(e) \subseteq Visible(e)'
  BY <1>1 DEF Visible
<1> SUFFICES records \subseteq records' /\
             \A e \in Devices : \A s \in saving[e] :
                 s.stage = "write" => s \in saving'[e] \/ s.who \in records'
  BY <1>1
<1>2. CASE Touch(d) \/ SignedIn(d) \/ Rejected(d) \/ NotCreated(d) \/ ProfileShown(d)
  <2>1. UNCHANGED <<records, saving>>
    BY <1>2 DEF Touch, FollowLink, LOgin, Register, resetPassword, OpenProfile, Logout,
                SignedIn, Rejected, NotCreated, ProfileShown, serverVars
  <2> QED BY <2>1
<1>3. CASE Created(d)
  BY <1>3 DEF Created, TypeOK
<1>4. CASE Uploaded(d) \/ UrlFound(d) \/ UrlMissing(d)
  BY <1>4 DEF Uploaded, UrlFound, UrlMissing, Advance, TypeOK, serverVars
<1>5. CASE RecordStored(d)
  BY <1>5 DEF RecordStored, TypeOK
<1> QED BY <1>2, <1>3, <1>4, <1>5 DEF GoesOn, AuthAnswers, SavesRecord

\* refusals are only spent
LEMMA Spent ==
    ASSUME TypeOK, NEW b \in {"links", "calls", "failures", "refusals", "kills"}, Spend(b)
    PROVE  /\ b = "refusals" => budget'.refusals < budget.refusals
           /\ b # "refusals" => budget'.refusals = budget.refusals
           /\ budget.refusals \in Nat /\ budget'.refusals \in Nat
  BY DEF TypeOK, Spend, Budgets

LEMMA RefusalSpent ==
    ASSUME TypeOK, CreditInv, Spend("refusals")
    PROVE  CreditInv'
<1>1. budget'.refusals < budget.refusals /\ budget.refusals \in Nat /\ budget'.refusals \in Nat
  BY Spent
<1>2. MaxRefusals \in Nat /\ budget.refusals <= MaxRefusals
  BY AccountsBudget DEF CreditInv
<1>3. budget'.refusals <= MaxRefusals /\ budget'.refusals # MaxRefusals
  BY <1>1, <1>2
<1> QED BY <1>3 DEF CreditInv

\* a step keeps the credits when records and shares stay credited
LEMMA CreditStays ==
    ASSUME CreditInv, budget'.refusals = budget.refusals, Credited => Credited'
    PROVE  CreditInv'
  BY DEF CreditInv

LEMMA SessionBudget ==
    ASSUME TypeOK, NEW d \in Devices, GoesOn(d), ~RecordRefused(d)
    PROVE  budget'.refusals = budget.refusals
<1>1. ASSUME NEW must, Fails(must) PROVE budget'.refusals = budget.refusals
  BY <1>1, Spent DEF Fails
<1> QED
  BY <1>1, Spent
  DEF GoesOn, Touch, FollowLink, LOgin, Register, resetPassword, OpenProfile, Logout,
      AuthAnswers, SignedIn, Rejected, Created, NotCreated,
      SavesRecord, Uploaded, UrlFound, UrlMissing, RecordStored, ProfileShown

\* a process ends while others go on
LEMMA RestartCredit ==
    ASSUME SharingInv, CreditInv, NEW d \in Devices, Restart(d), Forget(d), UNCHANGED posts,
           budget'.refusals = budget.refusals
    PROVE  CreditInv'
<1>0. TypeOK /\ SharesOK
  BY SharingParts DEF SharingInv
<1>1. \A e \in Devices : shares'[e] = IF e = d THEN {} ELSE shares[e]
  BY <1>0 DEF SharesOK, Forget
<1>2. \A e \in Devices : e # d => Visible(e)' = Visible(e)
  BY <1>0 DEF Restart, TypeOK, Visible
<1>3. records' = records
  BY DEF Restart
<1> QED BY <1>1, <1>2, <1>3, CreditStays DEF Credited

LEMMA NextCredit == SharingInv /\ CreditInv /\ [SNext]_allVars => CreditInv'
<1> SUFFICES ASSUME SharingInv, CreditInv, [SNext]_allVars PROVE CreditInv'
  OBVIOUS
<1>0. TypeOK /\ SharesOK
  BY SharingParts DEF SharingInv
<1>1. ASSUME NEW d \in Devices, GoesOn(d), UNCHANGED shareVars PROVE CreditInv'
  <2>1. CASE RecordRefused(d)
    BY <1>0, <2>1, RefusalSpent DEF RecordRefused
  <2>2. CASE ~RecordRefused(d)
    <3>1. records \subseteq records' /\ \A e \in Devices : Visible(e) \subseteq Visible(e)'
      BY <1>0, <1>1, <2>2, VisibleStays
    <3>2. budget'.refusals = budget.refusals
      BY <1>0, <1>1, <2>2, SessionBudget
    <3>3. UNCHANGED <<posts, shares>>
      BY <1>1 DEF shareVars
    <3> QED BY <3>1, <3>2, <3>3, CreditStays DEF Credited
  <2> QED BY <2>1, <2>2
<1>2. ASSUME UNCHANGED <<records, saving, budget>>,
             \A p \in posts' : p \in posts \/ p.is.uid \in records,
             \A e \in Devices : \A s \in shares'[e] :
                 s \in shares[e] \/ s.stage \notin {"url", "write"}
                 \/ s.who \in Visible(e)
                 \/ \E t \in shares[e] : t.who = s.who /\ t.stage \in {"url", "write"}
      PROVE  CreditInv'
  <2>1. \A e \in Devices : Visible(e)' = Visible(e)
    BY <1>2 DEF Visible
  <2>2. Credited => Credited'
    BY <1>2, <2>1 DEF Credited
  <2> QED BY <1>2, <2>2, CreditStays
<1>3. ASSUME NEW d \in Devices, Edits(d) PROVE CreditInv'
  <2>1. UNCHANGED <<records, saving, budget, posts>>
    BY <1>3 DEF Edits, imagePickerController, TypeText, Remove_post, StartShare, OpenAuthor,
                vars, serverVars, shareVars
  <2>2. \A e \in Devices : \A s \in shares'[e] : s \in shares[e] \/ s.stage = "upload"
    <3>1. CASE StartShare(d)
      <4>1. PICK s : s.stage = "upload" /\ shares' = [shares EXCEPT ![d] = @ \cup {s}]
        BY <3>1 DEF StartShare
      <4> QED BY <1>0, <4>1 DEF SharesOK
    <3>2. CASE ~StartShare(d)
      <4>1. shares' = shares
        BY <1>3, <3>2 DEF Edits, imagePickerController, TypeText, Remove_post, OpenAuthor, shareVars
      <4> QED BY <4>1
    <3> QED BY <3>1, <3>2
  <2> QED BY <1>2, <2>1, <2>2
<1>4. ASSUME NEW d \in Devices, PhotoStored(d) PROVE CreditInv'
  <2>0. PICK s \in shares[d] : \E t :
            t = [s EXCEPT !.stage = "record", !.who = user[d]] /\ Replace(d, s, t)
    BY <1>4 DEF PhotoStored
  <2>1. PICK t :
            t = [s EXCEPT !.stage = "record", !.who = user[d]] /\ Replace(d, s, t)
    BY <2>0
  <2>2. t.stage = "record"
    BY <1>0, <2>1 DEF SharesOK, ShareOK, Share
  <2>3. UNCHANGED <<records, saving, budget, posts>>
    BY <1>4 DEF PhotoStored, vars, serverVars
  <2>4. \A e \in Devices : \A x \in shares'[e] : x \in shares[e] \/ (e = d /\ x = t)
    <3>1. Replace(d, s, t)
      BY <2>1
    <3>2. \A e \in Devices : shares'[e] = IF e = d THEN (shares[d] \ {s}) \cup {t} ELSE shares[e]
      BY <1>0, <3>1, Replaced
    <3> QED BY <3>2
  <2>5. \A e \in Devices : \A x \in shares'[e] : x \in shares[e] \/ x.stage \notin {"url", "write"}
    BY <2>2, <2>4
  <2> QED BY <1>2, <2>3, <2>5
<1>5. ASSUME NEW d \in Devices, PhotoFailed(d) \/ PhotoUrlMissing(d) PROVE CreditInv'
  <2>1. PICK s \in shares[d] : Drop(d, s)
    BY <1>5 DEF PhotoFailed, PhotoUrlMissing
  <2>2. UNCHANGED <<records, saving, posts>> /\ budget'.refusals = budget.refusals
    BY <1>0, <1>5, Spent DEF PhotoFailed, PhotoUrlMissing, serverVars
  <2>3. \A e \in Devices : Visible(e)' = Visible(e) /\ shares'[e] \subseteq shares[e]
    BY <1>0, <2>1, <2>2, Dropped DEF Visible
  <2> QED BY <2>2, <2>3, CreditStays DEF Credited
<1>6. ASSUME NEW d \in Devices, PostRefused(d) PROVE CreditInv'
  BY <1>0, <1>6, RefusalSpent DEF PostRefused
<1>7. ASSUME NEW d \in Devices, RecordRead(d) PROVE CreditInv'
  <2>0. PICK s \in shares[d] : \E t :
            HasRecord(d, s.who) /\ t = [s EXCEPT !.stage = "url"] /\ Replace(d, s, t)
    BY <1>7 DEF RecordRead
  <2>1. PICK t :
            HasRecord(d, s.who) /\ t = [s EXCEPT !.stage = "url"] /\ Replace(d, s, t)
    BY <2>0
  <2>2. t.who \in Visible(d)
    BY <1>0, <2>1 DEF SharesOK, ShareOK, Share, HasRecord
  <2>3. UNCHANGED <<records, saving, budget, posts>>
    BY <1>7 DEF RecordRead, serverVars
  <2>4. \A e \in Devices : \A x \in shares'[e] : x \in shares[e] \/ (e = d /\ x = t)
    <3>1. Replace(d, s, t)
      BY <2>1
    <3>2. \A e \in Devices : shares'[e] = IF e = d THEN (shares[d] \ {s}) \cup {t} ELSE shares[e]
      BY <1>0, <3>1, Replaced
    <3> QED BY <3>2
  <2>5. \A e \in Devices : \A x \in shares'[e] : x \in shares[e] \/ x.who \in Visible(e)
    BY <2>2, <2>4
  <2> QED BY <1>2, <2>3, <2>5
<1>8. ASSUME NEW d \in Devices, PostWritten(d) PROVE CreditInv'
  <2>0. PICK s \in shares[d] : \E t :
            /\ s.stage = "url" /\ t = [s EXCEPT !.stage = "write", !.text = FormAt(d, s.at).text]
            /\ Replace(d, s, t)
    BY <1>8 DEF PostWritten
  <2>1. PICK t :
            /\ s.stage = "url" /\ t = [s EXCEPT !.stage = "write", !.text = FormAt(d, s.at).text]
            /\ Replace(d, s, t)
    BY <2>0
  <2>2. t.who = s.who
    BY <1>0, <2>1 DEF SharesOK, ShareOK, Share
  <2>3. UNCHANGED <<records, saving, budget, posts>>
    BY <1>8 DEF PostWritten, vars, serverVars
  <2>4. \A e \in Devices : \A x \in shares'[e] : x \in shares[e] \/ (e = d /\ x = t)
    <3>1. Replace(d, s, t)
      BY <2>1
    <3>2. \A e \in Devices : shares'[e] = IF e = d THEN (shares[d] \ {s}) \cup {t} ELSE shares[e]
      BY <1>0, <3>1, Replaced
    <3> QED BY <3>2
  <2>5. \A e \in Devices : \A x \in shares'[e] :
            x \in shares[e] \/ \E y \in shares[e] : y.who = x.who /\ y.stage \in {"url", "write"}
    BY <2>1, <2>2, <2>4
  <2> QED BY <1>2, <2>3, <2>5
<1>9. ASSUME NEW d \in Devices, PostStored(d) PROVE CreditInv'
  <2>1. PICK s \in shares[d] :
            /\ s.stage = "write" /\ Sent(d, s.who)
            /\ Drop(d, s)
            /\ posts' = posts \cup {PostOf(s)}
    BY <1>9 DEF PostStored
  <2>2. UNCHANGED <<records, saving, budget>>
    BY <1>9 DEF PostStored, vars, serverVars
  <2>3. Visible(d) \ records \subseteq {u \in Users : ~Sent(d, u)}
    BY <1>0 DEF Visible, Sent, TypeOK, Saving
  <2>4. Credited => s.who \in records
    BY <2>1, <2>3 DEF Credited
  <2>5. PostOf(s).is.uid = s.who
    BY DEF PostOf
  <2>6. \A e \in Devices : Visible(e)' = Visible(e) /\ shares'[e] \subseteq shares[e]
    BY <1>0, <2>1, <2>2, Dropped DEF Visible
  <2> QED BY <2>1, <2>2, <2>4, <2>5, <2>6, CreditStays DEF Credited
<1>10. ASSUME NEW d \in Devices, ShareWithoutUser(d) \/ ShareWithoutRecord(d) PROVE CreditInv'
  BY <1>10, RestartCredit DEF ShareWithoutUser, ShareWithoutRecord
<1>11. ASSUME NEW d \in Devices, TakenBackLate(d) PROVE CreditInv'
  BY <1>0, <1>11, RefusalSpent DEF TakenBackLate, RecordTakenBack
<1>12. ASSUME NEW d \in Devices, Ends(d), Forget(d), UNCHANGED posts PROVE CreditInv'
  <2>1. CASE RecordTakenBack(d)
    BY <1>0, <2>1, RefusalSpent DEF RecordTakenBack
  <2>2. CASE ~RecordTakenBack(d)
    <3>1. Restart(d) /\ (UNCHANGED budget \/ Spend("kills"))
      BY <1>12, <2>2 DEF Ends, ProfileWithoutUser, ProfileWithoutRecord, ResetDone, Kill
    <3>2. budget'.refusals = budget.refusals
      BY <1>0, <3>1, Spent
    <3> QED BY <1>12, <3>1, <3>2, RestartCredit
  <2> QED BY <2>1, <2>2
<1>13. CASE UNCHANGED allVars
  <2>1. UNCHANGED <<records, saving, budget, posts, shares>>
    BY <1>13 DEF allVars, vars, serverVars, shareVars
  <2> QED BY <1>2, <2>1
<1> QED
  BY <1>1, <1>3, <1>4, <1>5, <1>6, <1>7, <1>8, <1>9, <1>10, <1>11, <1>12, <1>13
  DEF SNext, Session, Shares, GoesOn

(* As long as the server refused nothing, every post has an author whose   *)
(* record and photo the server has: the screens that unwrap them find them.*)
THEOREM PostsAreComplete == SSpec => []PostsComplete
<1>1. SInit => RecordInv /\ CreditInv
  <2> SUFFICES ASSUME SInit PROVE RecordInv /\ CreditInv
    OBVIOUS
  <2>1. RecordInv
    BY InitRecords DEF SInit
  <2>2. budget.refusals = MaxRefusals /\ MaxRefusals \in Nat
    BY AccountsBudget DEF SInit, Init
  <2>3. Credited
    BY DEF SInit, Credited
  <2> QED BY <2>1, <2>2, <2>3 DEF CreditInv
<1>2. RecordInv /\ CreditInv => PostsComplete
  BY DEF RecordInv, RecordsComplete, CreditInv, Credited, PostsComplete
<1> QED BY <1>1, <1>2, InitSharing, NextSharing, SharingRecords, NextCredit, PTL DEF SSpec

-----------------------------------------------------------------------------
(* One post.  A text is in one place at a time: in a form, in a share that *)
(* has read it, or in a post; a tap's number is in one share or one post.  *)
Typed(d, i) == FormAt(d, i).text

\* a tap's number n is spent and the text t, if any, in no form
Taken(n, t) ==
    /\ n > room.shares
    /\ t # 0 => t > room.texts /\ \A d \in Devices : \A i : Typed(d, i) # t

Clash(n, t, m, u) == n = m \/ (t = u /\ t # 0)

FormsOnce ==
    /\ \A d \in Devices : \A i : Typed(d, i) = 0 \/ Typed(d, i) > room.texts
    /\ \A d, e \in Devices : \A i, j :
           Typed(d, i) = Typed(e, j) /\ Typed(d, i) # 0 => d = e /\ i = j

SharesOnce ==
    /\ \A d \in Devices : \A s \in shares[d] : Taken(s.n, s.text)
    /\ \A d, e \in Devices : \A s \in shares[d], t \in shares[e] :
           Clash(s.n, s.text, t.n, t.text) => d = e /\ s = t

PostsOnce ==
    /\ \A p \in posts : Taken(p.n, p.is.text)
    /\ \A d \in Devices : \A s \in shares[d], p \in posts : ~Clash(s.n, s.text, p.n, p.is.text)
    /\ \A p, q \in posts : Clash(p.n, p.is.text, q.n, q.is.text) => p = q

Once == FormsOnce /\ SharesOnce /\ PostsOnce

\* a form emptied or forgotten, and nothing typed
Lessened == \A d \in Devices : \A i : Typed(d, i)' = Typed(d, i) \/ Typed(d, i)' = 0

LEMMA TakenStays ==
    ASSUME Lessened, UNCHANGED room, NEW n, NEW t, Taken(n, t)
    PROVE  Taken(n, t)'
  BY DEF Lessened, Taken

LEMMA FormsLess == ASSUME FormsOnce, Lessened, UNCHANGED room PROVE FormsOnce'
<1>1. ASSUME NEW d \in Devices, NEW i PROVE Typed(d, i)' = 0 \/ Typed(d, i)' > room'.texts
  BY DEF FormsOnce, Lessened
<1>2. ASSUME NEW d \in Devices, NEW e \in Devices, NEW i, NEW j,
             Typed(d, i)' = Typed(e, j)', Typed(d, i)' # 0
      PROVE  d = e /\ i = j
  <2>1. Typed(d, i)' = Typed(d, i)
    BY <1>2 DEF Lessened
  <2>2. Typed(e, j)' = Typed(e, j)
    BY <1>2 DEF Lessened
  <2>3. Typed(d, i) = Typed(e, j) /\ Typed(d, i) # 0
    BY <1>2, <2>1, <2>2
  <2> QED BY <2>3 DEF FormsOnce
<1> QED BY <1>1, <1>2 DEF FormsOnce

\* shares that stay as they are for number and text, each once, or are posted
LEMMA OnceStays ==
    ASSUME Once, Lessened, UNCHANGED room,
           \A d \in Devices : \A s \in shares'[d] :
               \E t \in shares[d] : s.n = t.n /\ s.text = t.text,
           \A d \in Devices : \A s, t \in shares'[d] : s.n = t.n => s = t,
           \A p \in posts' : p \in posts \/ \E d \in Devices : \E s \in shares[d] :
               p = PostOf(s) /\ \A t \in shares'[d] : t.n # s.n
    PROVE  Once'
<1> USE DEF Once
<1>1. FormsOnce'
  BY FormsLess
<1>2. SharesOnce'
  <2>1. ASSUME NEW d \in Devices, NEW s \in shares'[d] PROVE Taken(s.n, s.text)'
    <3>1. PICK t \in shares[d] : s.n = t.n /\ s.text = t.text
      OBVIOUS
    <3>2. Taken(s.n, s.text)
      BY <3>1 DEF SharesOnce
    <3> QED BY <3>2, TakenStays
  <2>2. ASSUME NEW d \in Devices, NEW e \in Devices, NEW s \in shares'[d], NEW t \in shares'[e],
               Clash(s.n, s.text, t.n, t.text)
        PROVE  d = e /\ s = t
    <3>1. PICK s1 \in shares[d] : s.n = s1.n /\ s.text = s1.text
      OBVIOUS
    <3>2. PICK t1 \in shares[e] : t.n = t1.n /\ t.text = t1.text
      OBVIOUS
    <3>3. d = e /\ s1 = t1
      BY <2>2, <3>1, <3>2 DEF SharesOnce
    <3> QED BY <3>1, <3>2, <3>3
  <2> QED BY <2>1, <2>2 DEF SharesOnce
<1>3. ASSUME NEW p \in posts', p \notin posts
      PROVE  \E d \in Devices : \E s \in shares[d] :
                 /\ p.n = s.n /\ p.is.text = s.text /\ p = PostOf(s)
                 /\ \A t \in shares'[d] : t.n # s.n
  <2>1. PICK d \in Devices :
            \E s \in shares[d] : p = PostOf(s) /\ \A t \in shares'[d] : t.n # s.n
    BY <1>3
  <2>0. PICK s \in shares[d] : p = PostOf(s) /\ \A t \in shares'[d] : t.n # s.n
    BY <2>1
  <2>2. PostOf(s).n = s.n /\ PostOf(s).is.text = s.text
    BY DEF PostOf
  <2> QED BY <2>0, <2>2
<1>4. ASSUME NEW p \in posts' PROVE Taken(p.n, p.is.text)'
  <2>1. Taken(p.n, p.is.text)
    BY <1>3 DEF PostsOnce, SharesOnce
  <2> QED BY <2>1, TakenStays
<1>5. ASSUME NEW d \in Devices, NEW s \in shares'[d], NEW p \in posts',
             Clash(s.n, s.text, p.n, p.is.text)
      PROVE  FALSE
  <2>1. PICK t \in shares[d] : s.n = t.n /\ s.text = t.text
    OBVIOUS
  <2>2. CASE p \in posts
    BY <1>5, <2>1, <2>2 DEF PostsOnce
  <2>3. CASE p \notin posts
    <3>0. PICK e \in Devices : \E u \in shares[e] :
              p.n = u.n /\ p.is.text = u.text /\ \A x \in shares'[e] : x.n # u.n
      BY <1>3, <2>3
    <3>1. PICK u \in shares[e] :
              p.n = u.n /\ p.is.text = u.text /\ \A x \in shares'[e] : x.n # u.n
      BY <3>0
    <3>2. d = e /\ t = u
      BY <1>5, <2>1, <3>1 DEF SharesOnce
    <3> QED BY <2>1, <3>1, <3>2
  <2> QED BY <2>2, <2>3
<1>6. ASSUME NEW p \in posts', NEW q \in posts', Clash(p.n, p.is.text, q.n, q.is.text) PROVE p = q
  <2>1. CASE p \in posts /\ q \in posts
    BY <1>6, <2>1 DEF PostsOnce
  <2>2. ASSUME p \notin posts, q \in posts PROVE FALSE
    BY <1>3, <1>6, <2>2 DEF PostsOnce
  <2>3. ASSUME p \in posts, q \notin posts PROVE FALSE
    <3>0. PICK e \in Devices : \E u \in shares[e] : q.n = u.n /\ q.is.text = u.text
      BY <1>3, <2>3
    <3>1. PICK u \in shares[e] : q.n = u.n /\ q.is.text = u.text
      BY <3>0
    <3>2. Clash(u.n, u.text, p.n, p.is.text)
      BY <1>6, <3>1 DEF Clash
    <3> QED BY <2>3, <3>2 DEF PostsOnce
  <2>4. CASE p \notin posts /\ q \notin posts
    <3>1a. PICK d \in Devices :
               \E s \in shares[d] : p.n = s.n /\ p.is.text = s.text /\ p = PostOf(s)
      BY <1>3, <2>4
    <3>1. PICK s \in shares[d] : p.n = s.n /\ p.is.text = s.text /\ p = PostOf(s)
      BY <3>1a
    <3>2a. PICK e \in Devices :
               \E u \in shares[e] : q.n = u.n /\ q.is.text = u.text /\ q = PostOf(u)
      BY <1>3, <2>4
    <3>2. PICK u \in shares[e] : q.n = u.n /\ q.is.text = u.text /\ q = PostOf(u)
      BY <3>2a
    <3>3. s = u
      BY <1>6, <3>1, <3>2 DEF SharesOnce
    <3> QED BY <3>1, <3>2, <3>3
  <2> QED BY <2>1, <2>2, <2>3, <2>4
<1>7. PostsOnce'
  BY <1>4, <1>5, <1>6 DEF PostsOnce
<1> QED BY <1>1, <1>2, <1>7

\* the form that is filled in is the only one to change
LEMMA TypedAfter ==
    ASSUME SharingInv, NEW d \in Devices, NEW i \in 1..Here(d), NEW f \in Form,
           SetForm(d, i, f), stack' = stack
    PROVE  \A e \in Devices : \A j : Typed(e, j)' = IF e = d /\ j = i THEN f.text ELSE Typed(e, j)
<1>1. TypeOK /\ FormsOK
  BY SharingParts DEF SharingInv
<1>2. \A e \in Devices : \A j : FormAt(e, j)' = IF e = d /\ j = i THEN f ELSE FormAt(e, j)
  BY <1>1, FormSet
<1> QED BY <1>2 DEF Typed

LEMMA EditsOnce == ASSUME SharingInv, Once, NEW d \in Devices, Edits(d) PROVE Once'
<1>0. TypeOK /\ FormsOK /\ SharesOK /\ RoomOK
  BY SharingParts DEF SharingInv
<1>1. Here(d) \in 1..Here(d) /\ FormAt(d, Here(d)) \in Form
  BY <1>0, Screens, FormType
<1>2. ASSUME Lessened, UNCHANGED <<room, posts, shares>> PROVE Once'
  <2>1. \A e \in Devices : \A s, t \in shares[e] : s.n = t.n => s = t
    BY DEF Once, SharesOnce, Clash
  <2> QED BY <1>2, <2>1, OnceStays
<1>3. CASE imagePickerController(d)
  <2>1. PICK f : \E p \in Pictures :
            /\ f = [FormAt(d, Here(d)) EXCEPT !.selected = p, !.shown = p]
            /\ SetForm(d, Here(d), f)
    BY <1>3 DEF imagePickerController
  <2>2. f \in Form /\ f.text = Typed(d, Here(d))
    BY <1>1, <2>1 DEF Form, Image, Typed
  <2>3. UNCHANGED <<stack, room, posts, shares>>
    BY <1>3 DEF imagePickerController, vars
  <2>4. Lessened
    <3>1. \A e \in Devices : \A j : Typed(e, j)' = IF e = d /\ j = Here(d) THEN f.text ELSE Typed(e, j)
      <4>1. Here(d) \in 1..Here(d) /\ f \in Form /\ SetForm(d, Here(d), f) /\ stack' = stack
        BY <1>1, <2>1, <2>2, <2>3
      <4> QED BY <4>1, TypedAfter
    <3> QED BY <2>2, <3>1 DEF Lessened
  <2> QED BY <1>2, <2>3, <2>4
<1>4. CASE Remove_post(d)
  <2>1. PICK f : f = Cleared(FormAt(d, Here(d))) /\ SetForm(d, Here(d), f)
    BY <1>4 DEF Remove_post
  <2>2. f \in Form /\ f.text = 0
    BY <1>1, <2>1 DEF Form, Image, Cleared
  <2>3. UNCHANGED <<stack, room, posts, shares>>
    BY <1>4 DEF Remove_post, vars
  <2>4. Lessened
    <3>1. \A e \in Devices : \A j : Typed(e, j)' = IF e = d /\ j = Here(d) THEN f.text ELSE Typed(e, j)
      <4>1. Here(d) \in 1..Here(d) /\ f \in Form /\ SetForm(d, Here(d), f) /\ stack' = stack
        BY <1>1, <2>1, <2>2, <2>3
      <4> QED BY <4>1, TypedAfter
    <3> QED BY <2>2, <3>1 DEF Lessened
  <2> QED BY <1>2, <2>3, <2>4
<1>5. CASE OpenAuthor(d)
  <2>1. UNCHANGED <<forms, room, posts, shares>>
    BY <1>5 DEF OpenAuthor, shareVars
  <2>2. Lessened
    BY <2>1 DEF Lessened, Typed, FormAt
  <2> QED BY <1>2, <2>1, <2>2
<1>6. CASE TypeText(d)
  <2>1. PICK f : f = [FormAt(d, Here(d)) EXCEPT !.text = room.texts] /\ SetForm(d, Here(d), f)
    BY <1>6 DEF TypeText
  <2>2. f \in Form /\ f.text = room.texts
    BY <1>0, <1>1, <2>1 DEF Form, RoomOK
  <2>3. UNCHANGED <<stack, posts, shares>> /\ Use("texts")
    BY <1>6 DEF TypeText, vars
  <2>4. /\ room.texts \in Nat /\ room.shares \in Nat /\ room.texts > 0
        /\ room'.texts = room.texts - 1 /\ room'.shares = room.shares
    BY <1>0, <2>3 DEF RoomOK, Use
  <2>5. \A e \in Devices : \A j :
            Typed(e, j)' = IF e = d /\ j = Here(d) THEN room.texts ELSE Typed(e, j)
    <3>1. \A e \in Devices : \A j : Typed(e, j)' = IF e = d /\ j = Here(d) THEN f.text ELSE Typed(e, j)
      <4>1. Here(d) \in 1..Here(d) /\ f \in Form /\ SetForm(d, Here(d), f) /\ stack' = stack
        BY <1>1, <2>1, <2>2, <2>3
      <4> QED BY <4>1, TypedAfter
    <3> QED BY <2>2, <3>1
  <2>6. \A e \in Devices : \A j : Typed(e, j) \in Nat
    BY <1>0, FormType DEF Typed, Form
  <2>7. room.texts # 0 /\ room.texts > room'.texts /\ \A t \in Nat : t > room.texts => t > room'.texts /\ t # room.texts
    BY <2>4
  <2>8. FormsOnce'
    <3>1. ASSUME NEW e \in Devices, NEW j PROVE Typed(e, j)' = 0 \/ Typed(e, j)' > room'.texts
      BY <2>5, <2>6, <2>7 DEF Once, FormsOnce
    <3>2. \A e \in Devices : \A j : Typed(e, j) # room.texts
      BY <2>6, <2>7 DEF Once, FormsOnce
    <3>3. ASSUME NEW e \in Devices, NEW x \in Devices, NEW j, NEW k,
                 Typed(e, j)' = Typed(x, k)', Typed(e, j)' # 0
          PROVE  e = x /\ j = k
      <4>1. CASE e = d /\ j = Here(d)
        BY <2>5, <3>2, <3>3, <4>1
      <4>2. CASE x = d /\ k = Here(d)
        BY <2>5, <3>2, <3>3, <4>2
      <4>3. CASE ~(e = d /\ j = Here(d)) /\ ~(x = d /\ k = Here(d))
        <5>1. Typed(e, j)' = Typed(e, j)
          BY <2>5, <4>3
        <5>2. Typed(x, k)' = Typed(x, k)
          BY <2>5, <4>3
        <5>3. Typed(e, j) = Typed(x, k) /\ Typed(e, j) # 0
          BY <3>3, <5>1, <5>2
        <5> QED BY <5>3 DEF Once, FormsOnce
      <4> QED BY <4>1, <4>2, <4>3
    <3> QED BY <3>1, <3>3 DEF FormsOnce
  <2>9. ASSUME NEW n, NEW t \in Nat, Taken(n, t) PROVE Taken(n, t)'
    <3>1. n > room'.shares
      BY <2>4, <2>9 DEF Taken
    <3>2. ASSUME t # 0
          PROVE  t > room'.texts /\ \A e \in Devices : \A j : Typed(e, j)' # t
      <4>1. t > room.texts /\ \A e \in Devices : \A j : Typed(e, j) # t
        BY <2>9, <3>2 DEF Taken
      <4> QED BY <2>5, <2>7, <4>1
    <3> QED BY <3>1, <3>2 DEF Taken
  <2>10. \A e \in Devices : \A s \in shares[e] : s.text \in Nat
    BY <1>0 DEF SharesOK, ShareOK, Share
  <2>11. SharesOnce'
    BY <2>3, <2>9, <2>10 DEF Once, SharesOnce
  <2>12. \A p \in posts : p.is.text \in Nat
    BY DEF SharingInv, SharingTypeOK, Post, Content
  <2>13. PostsOnce'
    BY <2>3, <2>9, <2>12 DEF Once, PostsOnce
  <2> QED BY <2>8, <2>11, <2>13 DEF Once
<1>7. CASE StartShare(d)
  <2>1. PICK s : /\ s.n = room.shares /\ s.text = 0
                 /\ shares' = [shares EXCEPT ![d] = @ \cup {s}]
    BY <1>7 DEF StartShare
  <2>2. UNCHANGED <<posts, forms>> /\ Use("shares")
    BY <1>7 DEF StartShare
  <2>3. /\ room.shares \in Nat /\ room.shares > 0
        /\ room'.texts = room.texts /\ room'.shares = room.shares - 1
    BY <1>0, <2>2 DEF RoomOK, Use
  <2>4. \A e \in Devices : \A x \in shares'[e] : x \in shares[e] \/ (e = d /\ x = s)
    BY <1>0, <2>1 DEF SharesOK
  <2>5. /\ \A e \in Devices : \A x \in shares[e] : x.n \in Nat
        /\ \A p \in posts : p.n \in Nat
    BY <1>0 DEF SharesOK, ShareOK, Share, SharingInv, SharingTypeOK, Post
  <2>6. \A n \in Nat : n > room.shares => n > room'.shares /\ n # room.shares
    BY <2>3
  <2>7. room.shares > room'.shares
    BY <2>3
  <2>8. \A e \in Devices : \A j : Typed(e, j)' = Typed(e, j)
    BY <2>2 DEF Typed, FormAt
  <2>9. FormsOnce'
    BY <2>3, <2>8 DEF Once, FormsOnce
  <2>10. \A n \in Nat : \A t : Taken(n, t) => Taken(n, t)' /\ n # s.n
    BY <2>1, <2>3, <2>6, <2>8 DEF Taken
  <2>11. Taken(s.n, s.text)'
    BY <2>1, <2>2, <2>7 DEF Taken
  <2>12. \A e \in Devices : \A x \in shares[e] : Taken(x.n, x.text)' /\ x.n # s.n
    BY <2>5, <2>10 DEF Once, SharesOnce
  <2>13. \A p \in posts : Taken(p.n, p.is.text)' /\ p.n # s.n
    BY <2>5, <2>10 DEF Once, PostsOnce
  <2>14. SharesOnce'
    <3>1. \A e \in Devices : \A x \in shares'[e] : Taken(x.n, x.text)'
      BY <2>4, <2>11, <2>12
    <3>2. ASSUME NEW e \in Devices, NEW g \in Devices, NEW x \in shares'[e], NEW y \in shares'[g],
                 Clash(x.n, x.text, y.n, y.text)
          PROVE  e = g /\ x = y
      BY <2>1, <2>4, <2>12, <3>2 DEF Once, SharesOnce, Clash
    <3> QED BY <3>1, <3>2 DEF SharesOnce
  <2>15. PostsOnce'
    <3>1. ASSUME NEW e \in Devices, NEW x \in shares'[e], NEW p \in posts
          PROVE  ~Clash(x.n, x.text, p.n, p.is.text)
      BY <2>1, <2>4, <2>13 DEF Once, PostsOnce, Clash
    <3> QED BY <2>2, <2>13, <3>1 DEF Once, PostsOnce
  <2> QED BY <2>9, <2>14, <2>15 DEF Once
<1> QED BY <1>3, <1>4, <1>5, <1>6, <1>7 DEF Edits

\* each of the shares is told from the others by its tap
LEMMA Numbered == ASSUME Once PROVE \A d \in Devices : \A s, t \in shares[d] : s.n = t.n => s = t
  BY DEF Once, SharesOnce, Clash

LEMMA SameForms == ASSUME UNCHANGED forms PROVE Lessened
  BY DEF Lessened, Typed, FormAt

\* a share whose text is not read anew, or of which nothing is left
LEMMA ReplacedOnce ==
    ASSUME SharingInv, Once, NEW d \in Devices, NEW s \in shares[d], NEW t, Replace(d, s, t),
           t.n = s.n, t.text = s.text, UNCHANGED <<forms, room, posts>>
    PROVE  Once'
<1>0. SharesOK
  BY SharingParts DEF SharingInv
<1>1. \A e \in Devices : \A x \in shares'[e] :
          (x \in shares[e] /\ (e = d => x # s)) \/ (e = d /\ x = t)
  <2>1. \A e \in Devices : shares'[e] = IF e = d THEN (shares[d] \ {s}) \cup {t} ELSE shares[e]
    BY <1>0, Replaced
  <2> QED BY <2>1
<1>2. \A e \in Devices : \A x \in shares'[e] : \E y \in shares[e] : x.n = y.n /\ x.text = y.text
  BY <1>1
<1>3. \A e \in Devices : \A x, y \in shares'[e] : x.n = y.n => x = y
  <2>1. \A e \in Devices : \A x, y \in shares[e] : x.n = y.n => x = y
    BY Numbered
  <2> QED BY <1>1, <2>1
<1> QED BY <1>2, <1>3, SameForms, OnceStays

LEMMA DroppedOnce ==
    ASSUME SharingInv, Once, NEW d \in Devices, NEW s \in shares[d], Drop(d, s),
           UNCHANGED <<forms, room>>, posts' = posts \/ posts' = posts \cup {PostOf(s)}
    PROVE  Once'
<1>0. SharesOK
  BY SharingParts DEF SharingInv
<1>1. \A e \in Devices : \A x \in shares'[e] : x \in shares[e] /\ (e = d => x # s)
  BY <1>0, Dropped
<1>2. \A e \in Devices : \A x \in shares'[e] : \E y \in shares[e] : x.n = y.n /\ x.text = y.text
  BY <1>1
<1>3. \A e \in Devices : \A x, y \in shares'[e] : x.n = y.n => x = y
  <2>1. \A e \in Devices : \A x, y \in shares[e] : x.n = y.n => x = y
    BY Numbered
  <2> QED BY <1>1, <2>1
<1>4. \A x \in shares'[d] : x.n # s.n
  BY <1>1, Numbered
<1>5. \A p \in posts' : p \in posts \/ \E e \in Devices : \E x \in shares[e] :
          p = PostOf(x) /\ \A y \in shares'[e] : y.n # x.n
  BY <1>4
<1> QED BY <1>2, <1>3, <1>5, SameForms, OnceStays

\* the text goes from the form into the share
LEMMA PostWrittenOnce == ASSUME SharingInv, Once, NEW d \in Devices, PostWritten(d) PROVE Once'
<1>0. TypeOK /\ FormsOK /\ SharesOK
  BY SharingParts DEF SharingInv
<1>1. PICK s \in shares[d] :
          /\ s.stage = "url"
          /\ Replace(d, s, [s EXCEPT !.stage = "write", !.text = FormAt(d, s.at).text])
          /\ SetForm(d, s.at, Emptied(FormAt(d, s.at)))
  BY DEF PostWritten
<1>2. PICK t : t = [s EXCEPT !.stage = "write", !.text = FormAt(d, s.at).text]
  OBVIOUS
<1>3. PICK f : f = Emptied(FormAt(d, s.at))
  OBVIOUS
<1>4. ShareOK(d, s) /\ FormAt(d, s.at) \in Form
  BY <1>0, FormType DEF SharesOK
<1>5. f \in Form /\ f.text = 0 /\ s.at \in 1..Here(d)
  BY <1>0, <1>3, <1>4 DEF Emptied, Cleared, Form, Image, ShareOK, FormsOK
<1>6. t.n = s.n /\ t.text = Typed(d, s.at)
  BY <1>2, <1>4 DEF ShareOK, Share, Typed
<1>7. UNCHANGED <<posts, room>> /\ stack' = stack
  BY DEF PostWritten, vars
<1>8. \A e \in Devices : \A j : Typed(e, j)' = IF e = d /\ j = s.at THEN 0 ELSE Typed(e, j)
  <2>1. SetForm(d, s.at, f)
    BY <1>1, <1>3
  <2>2. \A e \in Devices : \A j : Typed(e, j)' = IF e = d /\ j = s.at THEN f.text ELSE Typed(e, j)
    BY <1>5, <1>7, <2>1, TypedAfter
  <2> QED BY <1>5, <2>2
<1>9. Lessened
  BY <1>8 DEF Lessened
<1>10. \A e \in Devices : \A x \in shares'[e] : (x \in shares[e] /\ x.n # s.n) \/ (e = d /\ x = t)
  <2>1. Replace(d, s, t)
    BY <1>1, <1>2
  <2>2. \A e \in Devices : shares'[e] = IF e = d THEN (shares[d] \ {s}) \cup {t} ELSE shares[e]
    BY <1>0, <2>1, Replaced
  <2>3. \A e \in Devices : \A x \in shares[e] : x.n = s.n => e = d /\ x = s
    BY DEF Once, SharesOnce, Clash
  <2> QED BY <2>2, <2>3
<1>11. Taken(s.n, s.text) /\ s.n > room.shares
  BY DEF Once, SharesOnce, Taken
<1>12. t.text # 0 =>
           /\ t.text > room.texts
           /\ \A e \in Devices : \A x \in shares[e] : x.text # t.text
           /\ \A p \in posts : p.is.text # t.text
  <2> SUFFICES ASSUME t.text # 0 PROVE /\ t.text > room.texts
                                      /\ \A e \in Devices : \A x \in shares[e] : x.text # t.text
                                      /\ \A p \in posts : p.is.text # t.text
    OBVIOUS
  <2>1. Typed(d, s.at) > room.texts
    BY <1>6 DEF Once, FormsOnce
  <2>2. \A n, u : Taken(n, u) /\ u # 0 => u # t.text
    BY <1>6 DEF Taken
  <2> QED BY <1>6, <2>1, <2>2 DEF Once, SharesOnce, PostsOnce
<1>13. Taken(t.n, t.text)'
  <2>1. t.text # 0 => \A e \in Devices : \A j : Typed(e, j)' # t.text
    <3> SUFFICES ASSUME t.text # 0, NEW e \in Devices, NEW j, Typed(e, j)' = t.text PROVE FALSE
      OBVIOUS
    <3>1. Typed(e, j) = Typed(d, s.at) /\ ~(e = d /\ j = s.at)
      BY <1>6, <1>8
    <3> QED BY <1>6, <3>1 DEF Once, FormsOnce
  <2> QED BY <1>6, <1>7, <1>11, <1>12, <2>1 DEF Taken
<1>14. FormsOnce'
  BY <1>7, <1>9, FormsLess DEF Once
<1>15. SharesOnce'
  <2>1. \A e \in Devices : \A x \in shares'[e] : Taken(x.n, x.text)'
    <3>1. \A e \in Devices : \A x \in shares[e] : Taken(x.n, x.text)'
      BY <1>7, <1>9, TakenStays DEF Once, SharesOnce
    <3> QED BY <1>10, <1>13, <3>1
  <2>2. ASSUME NEW e \in Devices, NEW g \in Devices, NEW x \in shares'[e], NEW y \in shares'[g],
               Clash(x.n, x.text, y.n, y.text)
        PROVE  e = g /\ x = y
    <3>1. CASE x \in shares[e] /\ y \in shares[g]
      BY <2>2, <3>1 DEF Once, SharesOnce
    <3>2. \A h \in Devices : \A z \in shares[h] : z.n # s.n => ~Clash(z.n, z.text, t.n, t.text)
      BY <1>6, <1>12 DEF Clash
    <3>3. CASE x \in shares[e] /\ x.n # s.n /\ y = t
      BY <2>2, <3>2, <3>3
    <3>4. CASE x = t /\ y \in shares[g] /\ y.n # s.n
      BY <2>2, <3>2, <3>4 DEF Clash
    <3> QED BY <1>10, <3>1, <3>3, <3>4
  <2> QED BY <2>1, <2>2 DEF SharesOnce
<1>16. PostsOnce'
  <2>1. \A p \in posts : Taken(p.n, p.is.text)'
    BY <1>7, <1>9, TakenStays DEF Once, PostsOnce
  <2>2. ASSUME NEW e \in Devices, NEW x \in shares'[e], NEW p \in posts
        PROVE  ~Clash(x.n, x.text, p.n, p.is.text)
    <3>1. CASE x \in shares[e]
      BY <3>1 DEF Once, PostsOnce
    <3>2. p.n # s.n
      BY DEF Once, PostsOnce, Clash
    <3>3. CASE x = t
      BY <1>6, <1>12, <3>2, <3>3 DEF Clash
    <3> QED BY <1>10, <3>1, <3>3
  <2> QED BY <1>7, <2>1, <2>2 DEF Once, PostsOnce
<1> QED BY <1>14, <1>15, <1>16 DEF Once

LEMMA SharesStepOnce == ASSUME SharingInv, Once, NEW d \in Devices, Shares(d) PROVE Once'
<1>0. SharesOK
  BY SharingParts DEF SharingInv
<1>1. CASE PhotoStored(d)
  <2>1. PICK s \in shares[d] : Replace(d, s, [s EXCEPT !.stage = "record", !.who = user[d]])
    BY <1>1 DEF PhotoStored
  <2>2. PICK t : t = [s EXCEPT !.stage = "record", !.who = user[d]]
    OBVIOUS
  <2>3. t.n = s.n /\ t.text = s.text
    BY <1>0, <2>2 DEF SharesOK, ShareOK, Share
  <2>4. Replace(d, s, t) /\ UNCHANGED <<forms, room, posts>>
    BY <1>1, <2>1, <2>2 DEF PhotoStored
  <2> QED BY <2>3, <2>4, ReplacedOnce
<1>2. CASE RecordRead(d)
  <2>1. PICK s \in shares[d] : Replace(d, s, [s EXCEPT !.stage = "url"])
    BY <1>2 DEF RecordRead
  <2>2. PICK t : t = [s EXCEPT !.stage = "url"]
    OBVIOUS
  <2>3. t.n = s.n /\ t.text = s.text
    BY <1>0, <2>2 DEF SharesOK, ShareOK, Share
  <2>4. Replace(d, s, t) /\ UNCHANGED <<forms, room, posts>>
    BY <1>2, <2>1, <2>2 DEF RecordRead
  <2> QED BY <2>3, <2>4, ReplacedOnce
<1>3. CASE PhotoFailed(d) \/ PhotoUrlMissing(d) \/ PostRefused(d) \/ PostStored(d)
  <2>1. PICK s \in shares[d] : Drop(d, s) /\ (posts' = posts \/ posts' = posts \cup {PostOf(s)})
    BY <1>3 DEF PhotoFailed, PhotoUrlMissing, PostRefused, PostStored
  <2>2. UNCHANGED <<forms, room>>
    BY <1>3 DEF PhotoFailed, PhotoUrlMissing, PostRefused, PostStored
  <2> QED BY <2>1, <2>2, DroppedOnce
<1> QED BY <1>1, <1>2, <1>3, PostWrittenOnce DEF Shares

\* a process ends; some of what it wrote may get to the server
LEMMA EndsOnce ==
    ASSUME SharingInv, Once, NEW d \in Devices, Forget(d),
           \A p \in posts' : p \in posts \/ \E s \in shares[d] : p = PostOf(s)
    PROVE  Once'
<1>0. FormsOK /\ SharesOK
  BY SharingParts DEF SharingInv
<1>1. \A e \in Devices : shares'[e] = IF e = d THEN {} ELSE shares[e]
  BY <1>0 DEF SharesOK, Forget
<1>2. \A e \in Devices : forms'[e] = IF e = d THEN << >> ELSE forms[e]
  BY <1>0 DEF FormsOK, Forget
<1>3. Lessened
  <2> SUFFICES ASSUME NEW e \in Devices, NEW i PROVE Typed(e, i)' = Typed(e, i) \/ Typed(e, i)' = 0
    BY DEF Lessened
  <2>1. CASE e = d
    <3>1. forms'[e] = << >> /\ DOMAIN << >> = {}
      BY <1>2, <2>1
    <3>2. FormAt(e, i)' = Blank
      BY <3>1 DEF FormAt
    <3> QED BY <3>2 DEF Typed, Blank
  <2>2. CASE e # d
    BY <1>2, <2>2 DEF Typed, FormAt
  <2> QED BY <2>1, <2>2
<1>4. \A e \in Devices : shares'[e] \subseteq shares[e]
  BY <1>1
<1>5. \A e \in Devices : \A x \in shares'[e] : \E y \in shares[e] : x.n = y.n /\ x.text = y.text
  BY <1>4
<1>6. \A e \in Devices : \A x, y \in shares'[e] : x.n = y.n => x = y
  BY <1>4, Numbered
<1>7. \A p \in posts' : p \in posts \/ \E e \in Devices : \E x \in shares[e] :
          p = PostOf(x) /\ \A y \in shares'[e] : y.n # x.n
  BY <1>1
<1>8. UNCHANGED room
  BY DEF Forget
<1> QED BY <1>3, <1>5, <1>6, <1>7, <1>8, OnceStays

LEMMA NextOnce == SharingInv /\ Once /\ [SNext]_allVars => Once'
<1> SUFFICES ASSUME SharingInv, Once, [SNext]_allVars PROVE Once'
  OBVIOUS
<1>1. CASE UNCHANGED shareVars
  <2>1. UNCHANGED <<posts, forms, shares, room>>
    BY <1>1 DEF shareVars
  <2>2. \A e \in Devices : \A x \in shares'[e] : \E y \in shares[e] : x.n = y.n /\ x.text = y.text
    BY <2>1
  <2>3. \A e \in Devices : \A x, y \in shares'[e] : x.n = y.n => x = y
    BY <2>1, Numbered
  <2> QED BY <2>1, <2>2, <2>3, SameForms, OnceStays
<1>2. ASSUME NEW d \in Devices, Ends(d) /\ Forget(d) /\ UNCHANGED posts PROVE Once'
  BY <1>2, EndsOnce
<1>3. ASSUME NEW d \in Devices, ShareWithoutUser(d) \/ ShareWithoutRecord(d) PROVE Once'
  BY <1>3, EndsOnce DEF ShareWithoutUser, ShareWithoutRecord
<1>4. ASSUME NEW d \in Devices, TakenBackLate(d) PROVE Once'
  BY <1>4, EndsOnce DEF TakenBackLate
<1> QED BY <1>1, <1>2, <1>3, <1>4, EditsOnce, SharesStepOnce DEF SNext, Session, allVars

(* However often Share is tapped, on however many forms and devices, and   *)
(* in whatever order pictures, records and posts are answered: a text ends *)
(* up in one post at most, and so does a tap.                              *)
THEOREM PostedOnlyOnce == SSpec => []PostedOnce
<1>1. SInit => Once
  <2> SUFFICES ASSUME SInit PROVE Once
    OBVIOUS
  <2>1. \A d \in Devices : \A i : Typed(d, i) = 0
    <3>1. DOMAIN << >> = {}
      OBVIOUS
    <3>2. \A d \in Devices : forms[d] = << >>
      BY DEF SInit
    <3>3. \A d \in Devices : \A i : FormAt(d, i) = Blank
      BY <3>1, <3>2 DEF FormAt
    <3> QED BY <3>3 DEF Typed, Blank
  <2>2. posts = {} /\ \A d \in Devices : shares[d] = {}
    BY DEF SInit
  <2> QED BY <2>1, <2>2 DEF Once, FormsOnce, SharesOnce, PostsOnce
<1>2. Once => PostedOnce
  BY DEF Once, PostsOnce, PostedOnce, Clash
<1> QED BY <1>1, <1>2, InitSharing, NextSharing, NextOnce, PTL DEF SSpec
=============================================================================
