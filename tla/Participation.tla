---------------------------- MODULE Participation ----------------------------
(***************************************************************************)
(* The screen of one post (postDetailsViewController): its participant     *)
(* count and the buttons "I will participate", "I won't participate" and   *)
(* "Cancel".  The location is EventsParticipants/<post>/participants, its  *)
(* children are the ids of the users who take part.  A tap registers       *)
(* callbacks that are never removed: a callback on the user's own record   *)
(* registers a callback on the user's entry, which writes the entry        *)
(* whenever it is shown that the entry is missing.                         *)
(*                                                                         *)
(* The record is written by the user's registration, which may still be    *)
(* under way on the same device: its pending write is shown like any other *)
(* own write, and taken back when the server refuses it.                   *)
(***************************************************************************)
EXTENDS RealtimeDB

CONSTANTS
    Owner,          \* the user who shared the post (post.userID)
    uid,            \* uid[d]: the user signed in on device d (self.id)
    Registered,     \* users who have a record from the start
    Earlier,        \* those of them who joined before, on other devices
    MaxOpens, MaxTaps, MaxRefusals, MaxDrops, MaxKills

Users == Keys

ASSUME UsersAssumption ==
    IsFiniteSet(Users) /\ Owner \in Users /\ uid \in [Devices -> Users]
ASSUME RegisteredAssumption == Registered \subseteq Users
ASSUME EarlierAssumption == Earlier \subseteq Registered \ {Owner}
ASSUME EntryAssumption == Vals = {"entry"}
ASSUME KindsAssumption == Kinds = {"count", "join", "leave"} /\ Lists = {}
ASSUME BudgetAssumption ==
    {MaxOpens, MaxTaps, MaxRefusals, MaxDrops, MaxKills} \subseteq Nat

VARIABLES
    records,    \* the users whose User/<uid> record is on the server
    denied,     \* the users whose record the server refused
    registered, \* the users whose registration got as far as its write
    saving,     \* saving[d]: the write of the own user's record, if on its way
    record,     \* record[d]: what the server told d of its own user's record
    waiting,    \* waiting[d]: callbacks on the user's record that have not run
    watched,    \* watched[d]: whether one of them has run
    shown,      \* shown[d]: whether the screen is presented
    screen,     \* screen[d]: number of the count callback of the latest screen
    label,      \* label[d]: the count the latest screen displays, Nil before the first
    tapped,     \* users who ever tapped "I will participate"
    told,       \* users who were told "Successfull"
    budget      \* how often each of the bounded steps may still happen

recordVars == <<records, denied, registered, saving, record>>
readVars == <<waiting, watched>>
screenVars == <<shown, screen, label>>
uiVars == <<recordVars, readVars, screenVars, tapped, told>>
vars == <<dbVars, uiVars, budget>>

Budgets == [opens : Nat, taps : Nat, refusals : Nat, drops : Nat, kills : Nat]

Spend(b) == budget[b] > 0 /\ budget' = [budget EXCEPT ![b] = @ - 1]

Listed(v) == {u \in Users : v[u] # Nil}

\* fault: the list is set, not the user's child of it
EntryAlone(u) == [k \in Users |-> IF k = u THEN "entry" ELSE Nil]

Entry(u) == [k \in {u} |-> "entry"]

Init ==
    /\ DBInit([u \in Users |-> IF u \in Earlier THEN "entry" ELSE Nil])
    /\ records = Registered /\ registered = Registered /\ denied = {}
    /\ saving = [d \in Devices |-> "none"]
    /\ record = [d \in Devices |-> "unknown"]
    /\ waiting = [d \in Devices |-> 0]
    /\ watched = [d \in Devices |-> FALSE]
    /\ shown = [d \in Devices |-> FALSE]
    /\ screen = [d \in Devices |-> 0]
    /\ label = [d \in Devices |-> Nil]
    /\ tapped = Earlier
    /\ told = {}
    /\ budget = [opens |-> MaxOpens, taps |-> MaxTaps, refusals |-> MaxRefusals,
                 drops |-> MaxDrops, kills |-> MaxKills]

-----------------------------------------------------------------------------
(* Touches. *)

\* a row of the feed is selected: viewDidLoad and its getCount
Open(d) ==
    /\ ~shown[d]
    /\ Spend("opens")
    /\ shown' = [shown EXCEPT ![d] = TRUE]
    /\ screen' = [screen EXCEPT ![d] = Cardinality(listeners[d]) + 1]
    /\ label' = [label EXCEPT ![d] = Nil]
    /\ Observe(d, "count", Root, mainQ[d])
    /\ UNCHANGED <<recordVars, readVars, tapped, told>>

\* observe(.value) on User/<id>; its callback is UserCallback
btnParticipate(d) ==
    /\ shown[d]
    /\ Spend("taps")
    /\ waiting' = [waiting EXCEPT ![d] = @ + 1]
    /\ tapped' = tapped \cup {uid[d]}
    /\ UNCHANGED <<dbVars, recordVars, watched, screenVars, told>>

btnNotParticipate(d) ==
    /\ shown[d]
    /\ Spend("taps")
    /\ Observe(d, "leave", Root, mainQ[d])
    /\ shown' = [shown EXCEPT ![d] = FALSE]
    /\ UNCHANGED <<recordVars, readVars, screen, label, tapped, told>>

btnCancel(d) ==
    /\ shown[d]
    /\ shown' = [shown EXCEPT ![d] = FALSE]
    /\ UNCHANGED <<dbVars, recordVars, readVars, screen, label, tapped, told, budget>>

-----------------------------------------------------------------------------
(* Callbacks on the main queue. *)

\* the process is gone: nothing it had not got acknowledged survives
Restart(d) ==
    /\ Terminate(d)
    /\ saving' = [saving EXCEPT ![d] = "none"]
    /\ record' = [record EXCEPT ![d] = "unknown"]
    /\ waiting' = [waiting EXCEPT ![d] = 0]
    /\ watched' = [watched EXCEPT ![d] = FALSE]
    /\ shown' = [shown EXCEPT ![d] = FALSE]
    /\ screen' = [screen EXCEPT ![d] = 0]
    /\ label' = [label EXCEPT ![d] = Nil]
    /\ UNCHANGED <<records, denied, registered, tapped, told>>

\* there is a callback on the user's record, which the app never removes
Asked(d) == waiting[d] > 0 \/ watched[d]

\* an own write is seen before the server has it
RecordVisible(d) == saving[d] # "none" \/ record[d] = "present"

Missing(d) == Asked(d) /\ saving[d] = "none" /\ record[d] = "absent"

\* dict! on a user without a record, or on a record that was taken back
UserMissing(d) ==
    /\ Missing(d)
    /\ Restart(d)
    /\ UNCHANGED budget

\* fault: dict? instead of dict!
AnyRecord(d) == TRUE

HasRecord(d) == RecordVisible(d)

\* everyone but the owner of the post goes on to observe the own entry
MayJoin(d) == uid[d] # Owner

UserCallback(d) ==
    /\ waiting[d] > 0
    /\ HasRecord(d)
    /\ waiting' = [waiting EXCEPT ![d] = @ - 1]
    /\ watched' = [watched EXCEPT ![d] = TRUE]
    /\ IF MayJoin(d) THEN Observe(d, "join", {uid[d]}, mainQ[d]) ELSE UNCHANGED dbVars
    /\ UNCHANGED <<recordVars, screenVars, tapped, told, budget>>

\* faults: the uid is looked for in the wrong place; a join is taken for done
\* once it was announced
NoUid(d, snap) == Nil
UidOnceTold(d, snap) == IF uid[d] \in told \/ snap[uid[d]] # Nil THEN uid[d] ELSE Nil

\* participantId of btnParticipate: the uid in the user's own entry
EntryUid(d, snap) == IF snap[uid[d]] = Nil THEN Nil ELSE uid[d]

\* participantId of btnNotParticipate: a child "uid" of the list itself, as a
\* String; the list has entries for children, so there is none
ListUid(d, snap) == Nil

CountCallback(d) ==
    /\ mainQ[d] # << >>
    /\ \E l \in Head(mainQ[d]).to :
           /\ l.kind = "count"
           /\ mainQ' = [mainQ EXCEPT ![d] = Popped(d, l)]
           /\ label' = [label EXCEPT ![d] =
                  IF l.n = screen[d] THEN Cardinality(Listed(Head(mainQ[d]).snap)) ELSE @]
    /\ UNCHANGED <<server, cache, known, pend, inbox, sub, listeners>>
    /\ UNCHANGED <<recordVars, readVars, shown, screen, tapped, told, budget>>

JoinCallback(d) ==
    /\ mainQ[d] # << >>
    /\ \E l \in Head(mainQ[d]).to :
           /\ l.kind = "join"
           /\ IF EntryUid(d, Head(mainQ[d]).snap) # uid[d]
              THEN /\ Put(d, Entry(uid[d]), Popped(d, l))
                   /\ told' = told \cup {uid[d]}
              ELSE /\ mainQ' = [mainQ EXCEPT ![d] = Popped(d, l)]
                   /\ UNCHANGED <<server, cache, known, pend, inbox, sub, listeners, told>>
    /\ UNCHANGED <<recordVars, readVars, screenVars, tapped, budget>>

LeaveCallback(d) ==
    /\ mainQ[d] # << >>
    /\ \E l \in Head(mainQ[d]).to :
           /\ l.kind = "leave"
           /\ IF ListUid(d, Head(mainQ[d]).snap) = uid[d]
              THEN Put(d, [k \in {uid[d]} |-> Nil], Popped(d, l))
              ELSE /\ mainQ' = [mainQ EXCEPT ![d] = Popped(d, l)]
                   /\ UNCHANGED <<server, cache, known, pend, inbox, sub, listeners>>
    /\ UNCHANGED <<uiVars, budget>>

-----------------------------------------------------------------------------
(* The library, the server, the rest of the app. *)

\* a device's writes are sent in order, its record before its entry ...
RecordFirst(d) == saving[d] # "sent"

\* ... and so do the answers come: what arrived before a refusal of the record
\* can as well be processed before the server refuses
Receive(d) ==
    /\ saving[d] # "refused"
    /\ OnDataUpdate(d) \/ AckWrite(d)
    /\ UNCHANGED <<uiVars, budget>>

Listening(d) == ServerListen(d) /\ UNCHANGED <<uiVars, budget>>

Accept(d) == RecordFirst(d) /\ ServerAccept(d) /\ UNCHANGED <<uiVars, budget>>

Refuse(d) == Spend("refusals") /\ RecordFirst(d) /\ ServerRefuse(d) /\ UNCHANGED uiVars

\* a refusal on its way is lost, and the record sent again
Reconnect(d) ==
    /\ Spend("drops")
    /\ RestoreState(d)
    /\ saving' = [saving EXCEPT ![d] = IF @ = "refused" THEN "sent" ELSE @]
    /\ UNCHANGED <<records, denied, registered, record, readVars, screenVars, tapped, told>>

Kill(d) == Spend("kills") /\ Restart(d)

\* the server's answer to the listen on User/<id>
ServerRecord(d) ==
    /\ Asked(d)
    /\ record[d] = "unknown"
    /\ record' = [record EXCEPT ![d] = IF uid[d] \in records THEN "present" ELSE "absent"]
    /\ UNCHANGED <<dbVars, records, denied, registered, saving, readVars, screenVars, tapped, told, budget>>

(* Registrations.  A user registers once (Accounts, OneWriter): on this    *)
(* device, or on one that is not in Devices.                               *)

\* a screen that was shown that there is no record stops first
SaveRecord(d) ==
    /\ uid[d] \notin registered /\ ~Missing(d)
    /\ registered' = registered \cup {uid[d]}
    /\ saving' = [saving EXCEPT ![d] = "sent"]
    /\ UNCHANGED <<dbVars, records, denied, record, readVars, screenVars, tapped, told, budget>>

\* the record is accepted and the device told so
RecordStored(d) ==
    /\ saving[d] = "sent"
    /\ saving' = [saving EXCEPT ![d] = "none"]
    /\ records' = records \cup {uid[d]}
    /\ record' = [record EXCEPT ![d] = IF @ = "absent" THEN "present" ELSE @]
    /\ UNCHANGED <<dbVars, denied, registered, readVars, screenVars, tapped, told, budget>>

RecordRefused(d) ==
    /\ saving[d] = "sent"
    /\ Spend("refusals")
    /\ saving' = [saving EXCEPT ![d] = "refused"]
    /\ denied' = denied \cup {uid[d]}
    /\ UNCHANGED <<dbVars, records, registered, record, readVars, screenVars, tapped, told>>

\* the device hears of the refusal, once its listens are answered: the record
\* disappears from its view
RecordTakenBack(d) ==
    /\ saving[d] = "refused"
    /\ Asked(d) => record[d] # "unknown"
    /\ saving' = [saving EXCEPT ![d] = "none"]
    /\ UNCHANGED <<dbVars, records, denied, registered, record, readVars, screenVars, tapped, told, budget>>

\* the record is written on another device
StoreRecord(u) ==
    /\ u \notin registered
    /\ registered' = registered \cup {u}
    /\ records' = records \cup {u}
    /\ UNCHANGED <<dbVars, denied, saving, record, readVars, screenVars, tapped, told, budget>>

Touch(d) == Open(d) \/ btnParticipate(d) \/ btnNotParticipate(d) \/ btnCancel(d)

MainQueue(d) == CountCallback(d) \/ JoinCallback(d) \/ LeaveCallback(d)

UserQueue(d) == UserMissing(d) \/ UserCallback(d)

RecordAnswers(d) == ServerRecord(d) \/ RecordStored(d) \/ RecordTakenBack(d)

Next ==
    \/ \E d \in Devices :
           \/ Touch(d) \/ MainQueue(d) \/ UserQueue(d)
           \/ Receive(d) \/ Listening(d) \/ Accept(d) \/ RecordAnswers(d)
           \/ Refuse(d) \/ Reconnect(d) \/ Kill(d) \/ SaveRecord(d) \/ RecordRefused(d)
    \/ \E u \in Users : StoreRecord(u)

Spec == Init /\ [][Next]_vars

(* Queues run what is put on them and a connection that is up carries      *)
(* requests and answers; nobody has to touch anything, no registration has *)
(* to finish, and the server may refuse, as long as it does not for ever.  *)
Fairness == \A d \in Devices :
    /\ WF_vars(MainQueue(d)) /\ WF_vars(UserQueue(d)) /\ WF_vars(Receive(d))
    /\ WF_vars(Listening(d)) /\ WF_vars(RecordAnswers(d)) /\ WF_vars(Accept(d))

FairSpec == Spec /\ Fairness

-----------------------------------------------------------------------------
TypeOK ==
    /\ DBTypeOK
    /\ records \in SUBSET Users /\ denied \in SUBSET Users /\ registered \in SUBSET Users
    /\ saving \in [Devices -> {"none", "sent", "refused"}]
    /\ record \in [Devices -> {"unknown", "absent", "present"}]
    /\ waiting \in [Devices -> Nat] /\ watched \in [Devices -> BOOLEAN]
    /\ shown \in [Devices -> BOOLEAN]
    /\ screen \in [Devices -> Nat]
    /\ label \in [Devices -> Nat \cup {Nil}]
    /\ tapped \in SUBSET Users
    /\ told \in SUBSET Users
    /\ budget \in Budgets

(* Who is on the list belongs there: a participant once tapped the button, *)
(* is not the owner of the post and has a record on the server, unless it  *)
(* was the server that refused that very record (the guards of             *)
(* btnParticipate's two nested callbacks).  The entry may be made from a   *)
(* record that is itself still on its way, and may be lost or refused, by  *)
(* callbacks that run after the screen is closed.                          *)
MayBeListed == (tapped \cap (records \cup denied)) \ {Owner}

OnlyGuestsListed == Listed(server) \subseteq MayBeListed

(* Why it holds, on each device at every stage between tap and list: the   *)
(* record of a user whose entry is under way is stored, refused or sent    *)
(* ahead of the entry.                                                     *)
Guest(d) ==
    \/ uid[d] \in MayBeListed
    \/ saving[d] = "sent" /\ uid[d] \in tapped \ {Owner}

GuestsUnderWay(d) ==
    /\ waiting[d] > 0 => uid[d] \in tapped
    /\ record[d] = "present" => uid[d] \in records
    /\ saving[d] = "refused" => uid[d] \in denied
    /\ \A l \in listeners[d] : l.kind = "join" => Guest(d)
    /\ \A i \in 1..Len(mainQ[d]) : mainQ[d][i].to \subseteq listeners[d]
    /\ \A i \in 1..Len(pend[d]) : \A k \in DOMAIN pend[d][i] :
           pend[d][i][k] # Nil /\ k = uid[d] /\ Guest(d)

GuestInv == OnlyGuestsListed /\ \A d \in Devices : GuestsUnderWay(d)

(* The callbacks that write whenever the entry is missing do not flood the *)
(* server: on a device, each makes at most one write for its first event   *)
(* and one for every refusal (a refusal that comes back before the other   *)
(* callbacks have run makes them all write once more).                     *)
Joiners(d) == {l \in listeners[d] : l.kind = "join"}

BoundedWrites ==
    \A d \in Devices :
        Len(pend[d]) <= Cardinality(Joiners(d)) * (1 + MaxRefusals - budget.refusals)

(* The count on the screen is right whenever nothing is under way for it:  *)
(* no event for the latest screen, no unacknowledged write, idle link.     *)
Settled(d) ==
    /\ sub[d] = "on" /\ inbox[d] = << >> /\ pend[d] = << >>
    /\ \A i \in 1..Len(mainQ[d]) : \A l \in mainQ[d][i].to : l.n # screen[d]

CountRight ==
    \A d \in Devices : shown[d] /\ Settled(d) => label[d] = Cardinality(Listed(server))

(* Why it holds: the latest screen has its callback, and either that has   *)
(* an event with the current view before it or the label shows the view.   *)
ScreenListens(d) ==
    /\ screen[d] <= Cardinality(listeners[d])
    /\ \A l \in listeners[d] : l.n = screen[d] => l.kind = "count" /\ l.at = Root
    /\ shown[d] => \E l \in listeners[d] : l.n = screen[d]

LabelShowsView(d) ==
    \A l \in listeners[d] : l.n = screen[d] /\ known[d] /\ EventsFor(mainQ[d], l) = {} =>
        label[d] = Cardinality(Listed(View(d)))

CountInv ==
    /\ InSync /\ ListensFirst
    /\ \A d \in Devices : Wired(d) /\ ScreenListens(d) /\ Current(d) /\ LabelShowsView(d)

(* Nobody drops off the list but by leaving: no refused duplicate, re-sent *)
(* write, restart or other user's device takes back an entry the server    *)
(* has accepted.  Only a device of the very user, on which the button "I   *)
(* won't participate" was tapped, may.                                     *)
Leaving(d) == \E l \in listeners[d] : l.kind = "leave"

MembershipKept ==
    [][\A u \in Listed(server) \ Listed(server)' : \E d \in Devices : uid[d] = u /\ Leaving(d)]_vars

(* A participation that got as far as observing the own entry is on the    *)
(* list eventually, though writes are refused or lost on the way: the      *)
(* callback is shown the missing entry and writes it again (no kills).     *)
(* Only a refusal of the record it was made from may end it.               *)
JoinSucceeds ==
    \A d \in Devices : (Joiners(d) # {}) ~> (uid[d] \in Listed(server) \cup denied)

(* The count on a screen that stays up ends up right.                      *)
CountSettles ==
    \A d \in Devices : <>[](shown[d] => label[d] = Cardinality(Listed(server)))

(* What the alert of btnParticipate says: a user who was told "Successfull"*)
(* is on the list of participants sooner or later.                         *)
SuccessIsLasting ==
    \A u \in Users : (u \in told) ~> (u \in Listed(server))

(* What the button "I won't participate" says: a user whose last choice it *)
(* was is not on the list of participants, sooner or later.                *)
LastChoiceLeave(d) ==
    /\ waiting[d] = 0
    /\ \E l \in listeners[d] : l.kind = "leave" /\ \A j \in Joiners(d) : j.n < l.n

LeavingWorks == \A d \in Devices : LastChoiceLeave(d) ~> (uid[d] \notin Listed(server))
=============================================================================
