------------------------------ MODULE Accounts ------------------------------
(***************************************************************************)
(* Who is signed in, which screens that leads to, and the User record that *)
(* every other screen takes for granted: the screens ViewController,       *)
(* Login, Register and ForgotPassword, the tabs they lead to and, of the   *)
(* tabs, the profile with its Logout.                                      *)
(*                                                                         *)
(* Screens are presented on one another, full screen as the iOS 12 SDK     *)
(* does it, and never dismissed; a screen can be touched, and can present  *)
(* another one, only when it is on top.  The answers of Firebase Auth and  *)
(* Storage arrive in any order, wherever the user has gone meanwhile.      *)
(***************************************************************************)
EXTENDS Naturals, Sequences, FiniteSets

CONSTANTS
    Devices, Users, Nil,
    Earlier,        \* users who registered before, on other devices
    MaxLinks,       \* links to other screens followed
    MaxCalls,       \* taps on Login, Register and "Reset my password"
    MaxFailures,    \* requests that fail though they could have succeeded
    MaxRefusals,    \* writes that the database server refuses
    MaxKills

ASSUME AccountsNil == Nil \notin Users
ASSUME AccountsEarlier == Earlier \subseteq Users
ASSUME AccountsBudget ==
    {MaxLinks, MaxCalls, MaxFailures, MaxRefusals, MaxKills} \subseteq Nat

VARIABLES
    accounts,   \* users with an account (Auth's server)
    photos,     \* users whose profile photo is stored (Storage's server)
    records,    \* users whose record User/<uid> is on the server
    user,       \* user[d]: Auth.auth().currentUser, kept over restarts
    stack,      \* stack[d]: the screens presented on one another
    calls,      \* calls[d]: requests to Auth that were not answered yet
    saving,     \* saving[d]: registrations whose record is not stored yet
    asked,      \* asked[d]: users whose record's callback has not run yet
    watched,    \* watched[d]: users whose record's callback has run
    budget

serverVars == <<accounts, photos, records>>
readVars == <<asked, watched>>
vars == <<serverVars, readVars, user, stack, calls, saving, budget>>

Budgets == [links : Nat, calls : Nat, failures : Nat, refusals : Nat, kills : Nat]

Spend(b) == budget[b] > 0 /\ budget' = [budget EXCEPT ![b] = @ - 1]

ScreenKinds == {"start", "login", "register", "forgot", "tabs"}

\* a tab bar keeps the user its profile screen was created for
Screen == [kind : ScreenKinds, id : Users \cup {Nil}, opened : BOOLEAN]

Shows(kind, u) == [kind |-> kind, id |-> u, opened |-> FALSE]

Links == [start |-> {"login", "register"}, login |-> {"register", "forgot"},
          register |-> {"login"}, forgot |-> {"login"}, tabs |-> {}]

Top(d) == stack[d][Len(stack[d])]

\* a request remembers the screen that made it
Call == [n : Nat, op : {"signIn", "create", "reset"}, who : Users, photo : BOOLEAN, at : Nat]

\* the photo is being uploaded, its URL asked for, the record written
Saving == [who : Users, stage : {"upload", "url", "write"}]

Init ==
    /\ accounts = Earlier /\ photos = Earlier /\ records = Earlier
    /\ user = [d \in Devices |-> Nil]
    /\ stack = [d \in Devices |-> <<Shows("start", Nil)>>]
    /\ calls = [d \in Devices |-> {}]
    /\ saving = [d \in Devices |-> {}]
    /\ asked = [d \in Devices |-> {}]
    /\ watched = [d \in Devices |-> {}]
    /\ budget = [links |-> MaxLinks, calls |-> MaxCalls, failures |-> MaxFailures,
                 refusals |-> MaxRefusals, kills |-> MaxKills]

-----------------------------------------------------------------------------
(* Touches. *)

FollowLink(d) ==
    /\ Spend("links")
    /\ \E kind \in Links[Top(d).kind] :
           stack' = [stack EXCEPT ![d] = Append(@, Shows(kind, Nil))]
    /\ UNCHANGED <<serverVars, readVars, user, calls, saving>>

Request(d, op, who, photo) ==
    calls' = [calls EXCEPT ![d] = @ \cup
        {[n |-> budget.calls, op |-> op, who |-> who, photo |-> photo, at |-> Len(stack[d])]}]

LOgin(d) ==
    /\ Top(d).kind = "login"
    /\ Spend("calls")
    /\ \E u \in Users : Request(d, "signIn", u, FALSE)
    /\ UNCHANGED <<serverVars, readVars, user, stack, saving>>

\* with fields that validateFields accepts, with or without a photo
Register(d) ==
    /\ Top(d).kind = "register"
    /\ Spend("calls")
    /\ \E u \in Users, photo \in BOOLEAN : Request(d, "create", u, photo)
    /\ UNCHANGED <<serverVars, readVars, user, stack, saving>>

resetPassword(d) ==
    /\ Top(d).kind = "forgot"
    /\ Spend("calls")
    /\ \E u \in Users : Request(d, "reset", u, FALSE)
    /\ UNCHANGED <<serverVars, readVars, user, stack, saving>>

\* the tab "My Profile" for the first time: viewDidLoad and its loadImg
OpenProfile(d) ==
    /\ Top(d).kind = "tabs" /\ ~Top(d).opened
    /\ Top(d).id # Nil
    /\ stack' = [stack EXCEPT ![d][Len(stack[d])].opened = TRUE]
    /\ asked' = [asked EXCEPT ![d] = @ \cup ({Top(d).id} \ watched[d])]
    /\ UNCHANGED <<serverVars, watched, user, calls, saving, budget>>

\* fault: Logout goes back to the first screen instead
LogoutToStart(d) ==
    /\ Top(d).kind = "tabs" /\ Top(d).opened
    /\ user' = [user EXCEPT ![d] = Nil]
    /\ stack' = [stack EXCEPT ![d] = <<Shows("start", Nil)>>]
    /\ UNCHANGED <<serverVars, readVars, calls, saving, budget>>

Logout(d) ==
    /\ Top(d).kind = "tabs" /\ Top(d).opened
    /\ user' = [user EXCEPT ![d] = Nil]
    /\ stack' = [stack EXCEPT ![d] = Append(@, Shows("login", Nil))]
    /\ UNCHANGED <<serverVars, readVars, calls, saving, budget>>

-----------------------------------------------------------------------------
(* Answers. *)

Answered(d, c) == calls' = [calls EXCEPT ![d] = @ \ {c}]

\* a request fails because it must, or because of the network
Fails(must) == IF must THEN UNCHANGED budget ELSE Spend("failures")

\* the segue HomeVC, from the screen that made the request
transitionToHome(d, c) ==
    stack' = [stack EXCEPT ![d] =
        IF c.at = Len(@) THEN Append(@, Shows("tabs", user'[d])) ELSE @]

SignedIn(d) ==
    /\ \E c \in calls[d] :
           /\ c.op = "signIn" /\ c.who \in accounts
           /\ Answered(d, c)
           /\ user' = [user EXCEPT ![d] = c.who]
           /\ transitionToHome(d, c)
    /\ UNCHANGED <<serverVars, readVars, saving, budget>>

\* the label says why
Rejected(d) ==
    /\ \E c \in calls[d] :
           /\ c.op \in {"signIn", "reset"}
           /\ Fails(c.who \notin accounts)
           /\ Answered(d, c)
    /\ UNCHANGED <<serverVars, readVars, user, stack, saving>>

\* without a photo nothing more is done for the record
Created(d) ==
    /\ \E c \in calls[d] :
           /\ c.op = "create" /\ c.who \notin accounts
           /\ Answered(d, c)
           /\ accounts' = accounts \cup {c.who}
           /\ user' = [user EXCEPT ![d] = c.who]
           /\ saving' = [saving EXCEPT ![d] = @ \cup
                  (IF c.photo THEN {[who |-> c.who, stage |-> "upload"]} ELSE {})]
           /\ transitionToHome(d, c)
    /\ UNCHANGED <<photos, records, readVars, budget>>

\* "Error creating user.", and on to the tabs all the same; when it was the
\* answer that was lost, the account is there
NotCreated(d) ==
    /\ \E c \in calls[d] :
           /\ c.op = "create"
           /\ Fails(c.who \in accounts)
           /\ Answered(d, c)
           /\ accounts' \in {accounts, accounts \cup {c.who}}
           /\ user' = user
           /\ transitionToHome(d, c)
    /\ UNCHANGED <<photos, records, readVars, saving>>

\* fault: the step that was done is kept and done again
AdvanceAgain(d, s, stage) ==
    saving' = [saving EXCEPT ![d] = @ \cup {[who |-> s.who, stage |-> stage]}]

Advance(d, s, stage) ==
    saving' = [saving EXCEPT ![d] = (@ \ {s}) \cup {[who |-> s.who, stage |-> stage]}]

\* putData's callback asks for the URL also when the upload failed
Uploaded(d) ==
    /\ \E s \in saving[d] :
           /\ s.stage = "upload"
           /\ Advance(d, s, "url")
           /\ \/ photos' = photos \cup {s.who} /\ UNCHANGED budget
              \/ Spend("failures") /\ UNCHANGED photos
    /\ UNCHANGED <<accounts, records, readVars, user, stack, calls>>

\* fault: the URL's error is not looked at
AnyUrl(s) == TRUE

\* downloadURL finds what is stored
HasUrl(s) == s.who \in photos

UrlFound(d) ==
    /\ \E s \in saving[d] :
           /\ s.stage = "url" /\ HasUrl(s)
           /\ Advance(d, s, "write")
    /\ UNCHANGED <<serverVars, readVars, user, stack, calls, budget>>

UrlMissing(d) ==
    /\ \E s \in saving[d] :
           /\ s.stage = "url"
           /\ Fails(~HasUrl(s))
           /\ saving' = [saving EXCEPT ![d] = @ \ {s}]
    /\ UNCHANGED <<serverVars, readVars, user, stack, calls>>

RecordStored(d) ==
    /\ \E s \in saving[d] :
           /\ s.stage = "write"
           /\ saving' = [saving EXCEPT ![d] = @ \ {s}]
           /\ records' = records \cup {s.who}
    /\ UNCHANGED <<accounts, photos, readVars, user, stack, calls, budget>>

\* an own write is visible before the server has it
Visible(d) == records \cup {s.who : s \in {t \in saving[d] : t.stage = "write"}}

ProfileShown(d) ==
    /\ \E u \in asked[d] \cap Visible(d) :
           /\ asked' = [asked EXCEPT ![d] = @ \ {u}]
           /\ watched' = [watched EXCEPT ![d] = @ \cup {u}]
    /\ UNCHANGED <<serverVars, user, stack, calls, saving, budget>>

\* the record is refused: the callbacks that saw it are not told yet
RecordRefused(d) ==
    /\ Spend("refusals")
    /\ \E s \in saving[d] :
           /\ s.stage = "write"
           /\ s.who \notin watched[d]
           /\ saving' = [saving EXCEPT ![d] = @ \ {s}]
    /\ UNCHANGED <<serverVars, readVars, user, stack, calls>>

-----------------------------------------------------------------------------
(* The ends of a process.  The user stays signed in, the app starts anew.  *)

\* accounts asked for, whose answer nobody will hear
Unheard(d) == {c.who : c \in {x \in calls[d] : x.op = "create"}}

Restart(d) ==
    /\ \E made \in SUBSET Unheard(d) : accounts' = accounts \cup made
    /\ stack' = [stack EXCEPT ![d] = <<Shows("start", Nil)>>]
    /\ calls' = [calls EXCEPT ![d] = {}]
    /\ saving' = [saving EXCEPT ![d] = {}]
    /\ asked' = [asked EXCEPT ![d] = {}]
    /\ watched' = [watched EXCEPT ![d] = {}]
    /\ UNCHANGED <<photos, records, user>>

\* id! of a profile created without a user
ProfileWithoutUser(d) ==
    /\ Top(d).kind = "tabs" /\ ~Top(d).opened /\ Top(d).id = Nil
    /\ Restart(d)
    /\ UNCHANGED budget

\* dict! of a record that is not there
ProfileWithoutRecord(d) ==
    /\ asked[d] \ Visible(d) # {}
    /\ Restart(d)
    /\ UNCHANGED budget

\* ... or of one that is taken back
RecordTakenBack(d) ==
    /\ Spend("refusals")
    /\ \E s \in saving[d] : s.stage = "write" /\ s.who \in watched[d]
    /\ Restart(d)

\* the mail is sent, and the segue "LoginVC" asked for, which the scene lacks
ResetDone(d) ==
    /\ \E c \in calls[d] : c.op = "reset" /\ c.who \in accounts
    /\ Restart(d)
    /\ UNCHANGED budget

Kill(d) == Spend("kills") /\ Restart(d)

Touch(d) ==
    \/ FollowLink(d) \/ LOgin(d) \/ Register(d) \/ resetPassword(d)
    \/ OpenProfile(d) \/ Logout(d)

AuthAnswers(d) == SignedIn(d) \/ Rejected(d) \/ Created(d) \/ NotCreated(d)

SavesRecord(d) == Uploaded(d) \/ UrlFound(d) \/ UrlMissing(d) \/ RecordStored(d) \/ RecordRefused(d)

Ends(d) ==
    \/ ProfileWithoutUser(d) \/ ProfileWithoutRecord(d) \/ RecordTakenBack(d)
    \/ ResetDone(d) \/ Kill(d)

Next == \E d \in Devices :
    Touch(d) \/ AuthAnswers(d) \/ SavesRecord(d) \/ ProfileShown(d) \/ Ends(d)

Spec == Init /\ [][Next]_vars

-----------------------------------------------------------------------------
\* with what transitionToHome relies on: the screen a request came from is there
TypeOK ==
    /\ accounts \in SUBSET Users /\ photos \in SUBSET Users /\ records \in SUBSET Users
    /\ user \in [Devices -> Users \cup {Nil}]
    /\ stack \in [Devices -> Seq(Screen)] /\ \A d \in Devices : stack[d] # << >>
    /\ \A d \in Devices : \A c \in calls[d] : c.at \in 1..Len(stack[d])
    /\ calls \in [Devices -> SUBSET Call]
    /\ saving \in [Devices -> SUBSET Saving]
    /\ asked \in [Devices -> SUBSET Users] /\ watched \in [Devices -> SUBSET Users]
    /\ budget \in Budgets

(* A record names a photo that is stored and a user who has an account,    *)
(* though Register goes on after a failed upload: the profile and every    *)
(* post of the user load that photo with try! (Register, loadImg).         *)
RecordsComplete == records \subseteq photos \cap accounts

(* Why it holds, for a record on its way.                                  *)
OnTheWay == \A d \in Devices : \A s \in saving[d] :
    s.who \in accounts /\ (s.stage = "write" => s.who \in photos)

(* An account is made on one device and its record written there, once: no *)
(* two registrations, tapped twice or on two devices and answered in any   *)
(* order, write records for the same user (Register).  A callback that     *)
(* reads the record therefore runs for one value of it.                    *)
OneWriter ==
    \A d, e \in Devices : \A s \in saving[d], t \in saving[e] :
        s.who = t.who => d = e /\ s = t /\ s.who \notin records

(* What id! in loadImg says: the tabs are shown to a user.                 *)
TabsNeedUser ==
    \A d \in Devices : Top(d).kind = "tabs" => Top(d).id # Nil
=============================================================================
