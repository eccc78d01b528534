------------------------------ MODULE Sharing ------------------------------
(***************************************************************************)
(* The upload form and the popup with a user's details, composed with the  *)
(* session of Accounts: a share goes from the tap through the upload of    *)
(* the picture, the sharer's record and the picture's URL to a post, while *)
(* the form is edited, the user logs out and others log in.  Each of its   *)
(* callbacks uses what it finds when it runs.                              *)
(*                                                                         *)
(* The form belongs to a tab bar, and is named by the tab bar's place on   *)
(* the stack.  Alerts and the picture picker are not screens here.         *)
(***************************************************************************)
EXTENDS Accounts

CONSTANTS
    Pictures,
    MaxTexts,       \* texts typed
    MaxShares       \* taps on Share

ASSUME SharingNil == Nil \notin Pictures
ASSUME SharingRoom == {MaxTexts, MaxShares} \subseteq Nat

VARIABLES
    posts,      \* the posts on the server
    forms,      \* forms[d]: the forms that were filled in
    shares,     \* shares[d]: shares whose post is not stored yet
    room        \* texts and taps on Share left

shareVars == <<posts, forms, shares, room>>
allVars == <<vars, shareVars>>

Image == Pictures \cup {Nil}

\* Share uses the image selected last, the form shows one or none; texts are
\* told apart by a number, 0 is no text
Form == [selected : Image, shown : Image, text : Nat]

Blank == [selected |-> Nil, shown |-> Nil, text |-> 0]

FormAt(d, i) == IF i \in DOMAIN forms[d] THEN forms[d][i] ELSE Blank

Here(d) == Len(stack[d])

SetForm(d, i, f) ==
    forms' = [forms EXCEPT ![d] =
        [j \in DOMAIN @ \cup {i} |-> IF j = i THEN f ELSE @[j]]]

Content == [uid : Users \cup {Nil}, image : Image, text : Nat]

\* told is what screen and session said at the tap; who is whom the share is
\* credited to, known when the picture is stored
Share == [n : Nat, at : Nat, stage : {"upload", "record", "url", "write"},
          image : Image, who : Users \cup {Nil}, text : Nat, told : Content]

Post == [n : Nat, is : Content, told : Content]

PostOf(s) == [n |-> s.n, is |-> [uid |-> s.who, image |-> s.image, text |-> s.text],
              told |-> s.told]

SInit ==
    /\ Init
    /\ posts = {}
    /\ forms = [d \in Devices |-> << >>]
    /\ shares = [d \in Devices |-> {}]
    /\ room = [texts |-> MaxTexts, shares |-> MaxShares]

Use(r) == room[r] > 0 /\ room' = [room EXCEPT ![r] = @ - 1]

-----------------------------------------------------------------------------
(* Touches. *)

\* the picture picker returned one
imagePickerController(d) ==
    /\ Top(d).kind = "tabs"
    /\ \E p \in Pictures :
           SetForm(d, Here(d), [FormAt(d, Here(d)) EXCEPT !.selected = p, !.shown = p])
    /\ UNCHANGED <<vars, posts, shares, room>>

\* caption and date
TypeText(d) ==
    /\ Top(d).kind = "tabs"
    /\ Use("texts")
    /\ SetForm(d, Here(d), [FormAt(d, Here(d)) EXCEPT !.text = room.texts])
    /\ UNCHANGED <<vars, posts, shares>>

\* the fields are emptied, the selected image stays
Cleared(f) == [f EXCEPT !.shown = Nil, !.text = 0]

Remove_post(d) ==
    /\ Top(d).kind = "tabs"
    /\ Here(d) \in DOMAIN forms[d]
    /\ SetForm(d, Here(d), Cleared(FormAt(d, Here(d))))
    /\ UNCHANGED <<vars, posts, shares, room>>

StartShare(d) ==
    LET f == FormAt(d, Here(d)) IN
    /\ Top(d).kind = "tabs"
    /\ f.selected # Nil
    /\ Use("shares")
    /\ shares' = [shares EXCEPT ![d] = @ \cup
           {[n |-> room.shares, at |-> Here(d), stage |-> "upload", image |-> f.selected,
             who |-> Nil, text |-> 0,
             told |-> [uid |-> user[d], image |-> f.shown, text |-> f.text]]}]
    /\ UNCHANGED <<vars, posts, forms>>

\* a post's author, from the post's screen
OpenAuthor(d) ==
    /\ Top(d).kind = "tabs"
    /\ \E p \in posts :
           asked' = [asked EXCEPT ![d] = @ \cup ({p.is.uid} \ watched[d])]
    /\ UNCHANGED <<serverVars, watched, user, stack, calls, saving, budget, shareVars>>

-----------------------------------------------------------------------------
(* A share on its way. *)

Replace(d, s, t) == shares' = [shares EXCEPT ![d] = (@ \ {s}) \cup {t}]
Drop(d, s) == shares' = [shares EXCEPT ![d] = @ \ {s}]

\* putData's callback
PhotoStored(d) ==
    /\ user[d] # Nil
    /\ \E s \in shares[d] :
           /\ s.stage = "upload"
           /\ Replace(d, s, [s EXCEPT !.stage = "record", !.who = user[d]])
    /\ UNCHANGED <<vars, posts, forms, room>>

PhotoFailed(d) ==
    /\ Spend("failures")
    /\ \E s \in shares[d] : s.stage = "upload" /\ Drop(d, s)
    /\ UNCHANGED <<serverVars, readVars, user, stack, calls, saving, posts, forms, room>>

\* fault: dict? instead of dict!
AnyRecord(d, u) == TRUE

HasRecord(d, u) == u \in Visible(d)

\* the callback on User/<uid>; the record never changes again (OneWriter)
RecordRead(d) ==
    /\ \E s \in shares[d] :
           /\ s.stage = "record" /\ HasRecord(d, s.who)
           /\ Replace(d, s, [s EXCEPT !.stage = "url"])
           /\ watched' = [watched EXCEPT ![d] = @ \cup {s.who}]
    /\ UNCHANGED <<serverVars, asked, user, stack, calls, saving, budget, posts, forms, room>>

\* fault: the form is left as it is
KeepForm(f) == f

\* the form after its content was put into a post
Emptied(f) == Cleared(f)

\* downloadURL's callback: the text is read, the post written, the form emptied
PostWritten(d) ==
    /\ \E s \in shares[d] :
           /\ s.stage = "url"
           /\ Replace(d, s, [s EXCEPT !.stage = "write", !.text = FormAt(d, s.at).text])
           /\ SetForm(d, s.at, Emptied(FormAt(d, s.at)))
    /\ UNCHANGED <<vars, posts, room>>

PhotoUrlMissing(d) ==
    /\ Spend("failures")
    /\ \E s \in shares[d] : s.stage = "url" /\ Drop(d, s)
    /\ UNCHANGED <<serverVars, readVars, user, stack, calls, saving, posts, forms, room>>

\* the server takes a device's writes in order
Sent(d, u) == [who |-> u, stage |-> "write"] \notin saving[d]

PostStored(d) ==
    /\ \E s \in shares[d] :
           /\ s.stage = "write" /\ Sent(d, s.who)
           /\ Drop(d, s)
           /\ posts' = posts \cup {PostOf(s)}
    /\ UNCHANGED <<vars, forms, room>>

PostRefused(d) ==
    /\ Spend("refusals")
    /\ \E s \in shares[d] : s.stage = "write" /\ Sent(d, s.who) /\ Drop(d, s)
    /\ UNCHANGED <<serverVars, readVars, user, stack, calls, saving, posts, forms, room>>

-----------------------------------------------------------------------------
(* The ends of a process. *)

\* fault: shares are kept over a restart
SharesKept(d) == UNCHANGED <<forms, shares, room>>

Forget(d) ==
    /\ forms' = [forms EXCEPT ![d] = << >>]
    /\ shares' = [shares EXCEPT ![d] = {}]
    /\ UNCHANGED room

\* user! when the picture is stored
ShareWithoutUser(d) ==
    /\ user[d] = Nil
    /\ \E s \in shares[d] : s.stage = "upload"
    /\ Restart(d) /\ Forget(d)
    /\ UNCHANGED <<budget, posts>>

\* dict! in the callback on User/<uid>
ShareWithoutRecord(d) ==
    /\ \E s \in shares[d] : s.stage = "record" /\ s.who \notin Visible(d)
    /\ Restart(d) /\ Forget(d)
    /\ UNCHANGED <<budget, posts>>

\* the record is refused, posts written after it may be accepted all the same
TakenBackLate(d) ==
    /\ RecordTakenBack(d) /\ Forget(d)
    /\ \E made \in SUBSET {PostOf(s) : s \in {t \in shares[d] : t.stage = "write"}} :
           posts' = posts \cup made

Edits(d) == imagePickerController(d) \/ TypeText(d) \/ Remove_post(d) \/ StartShare(d) \/ OpenAuthor(d)

Shares(d) ==
    \/ PhotoStored(d) \/ PhotoFailed(d) \/ RecordRead(d) \/ PostWritten(d)
    \/ PhotoUrlMissing(d) \/ PostStored(d) \/ PostRefused(d)

\* the steps of Accounts
Session(d) ==
    \/ (Touch(d) \/ AuthAnswers(d) \/ SavesRecord(d) \/ ProfileShown(d)) /\ UNCHANGED shareVars
    \/ Ends(d) /\ Forget(d) /\ UNCHANGED posts

SNext == \E d \in Devices :
    Session(d) \/ Edits(d) \/ Shares(d) \/ ShareWithoutUser(d) \/ ShareWithoutRecord(d) \/ TakenBackLate(d)

SSpec == SInit /\ [][SNext]_allVars

-----------------------------------------------------------------------------
\* with what the callbacks rely on: the form of a share is still there, a
\* share whose picture is stored has an author and its record is watched
SharingTypeOK ==
    /\ TypeOK
    /\ posts \subseteq Post
    /\ forms = [d \in Devices |-> forms[d]] /\ shares = [d \in Devices |-> shares[d]]
    /\ \A d \in Devices : forms[d] \in [DOMAIN forms[d] -> Form] /\ DOMAIN forms[d] \subseteq 1..Here(d)
    /\ \A d \in Devices : \A s \in shares[d] :
           /\ s \in Share /\ s.at \in DOMAIN forms[d]
           /\ stack[d][s.at].kind = "tabs"
           /\ s.stage # "upload" => s.who # Nil
           /\ s.stage \in {"url", "write"} => s.who \in watched[d]
    /\ room \in [texts : Nat, shares : Nat]

(* Every post has an author whose record and photo the server has, unless  *)
(* it refused a record: the feed, the post's screen and the user's details *)
(* unwrap both (loadPosts, loadData, btnParticipate).  A post may be       *)
(* written while its author's record is still on its way, on the same      *)
(* device or on another, and restarts lose either.                         *)
PostsComplete ==
    budget.refusals = MaxRefusals => {p.is.uid : p \in posts} \subseteq records \cap photos

(* A text goes into one post at most, however often Share is tapped and in *)
(* whatever order the answers arrive (Share: read, then emptied), and a    *)
(* tap makes one post at most.                                             *)
PostedOnce ==
    \A p, q \in posts : p.n = q.n \/ (p.is.text = q.is.text /\ p.is.text # 0) => p = q

(* What is posted is what form and session showed when the button "Share"  *)
(* was tapped.                                                             *)
SharesWhatIsShown == \A p \in posts : p.is = p.told
=============================================================================
