------------------------------- MODULE Posts --------------------------------
(***************************************************************************)
(* The posts and the screens that list and change them: the feed (Home-    *)
(* ViewController), the user's own posts (ProfileViewController) and the   *)
(* screen of one of these (MyPostDetailViewController) with its buttons    *)
(* Update, Delete and Cancel.  The location is Posts; of a post's fields   *)
(* the model keeps two parts, the body, which only the upload writes       *)
(* (picture, author, ...), and the text, which the buttons write as well   *)
(* (caption, date, time).  The lists observe .childAdded only and keep the *)
(* rows they once inserted.                                                *)
(***************************************************************************)
EXTENDS RealtimeDB

CONSTANTS
    Ids,            \* the posts' ids
    Texts,          \* what the editable fields can hold
    Blank,          \* what they hold before the post was loaded
    Users,
    uid,            \* uid[d]: the user signed in on device d
    MaxTaps, MaxEdits, MaxRefusals, MaxDrops, MaxKills

Body(p) == <<p, "body">>
Text(p) == <<p, "text">>
Place(p) == {Body(p), Text(p)}

ASSUME PartsAssumption ==
    /\ Ids # {} /\ Keys = UNION {Place(p) : p \in Ids}
    /\ Vals = Texts \cup {"made"} /\ "made" \notin Texts /\ Blank \in Texts
ASSUME UsersAssumption == Nil \notin Users \cup Ids /\ uid \in [Devices -> Users]
ASSUME KindsAssumption ==
    Kinds = {"home", "mine", "detail"} /\ Lists = {"home", "mine"}
ASSUME BudgetAssumption ==
    {MaxTaps, MaxEdits, MaxRefusals, MaxDrops, MaxKills} \subseteq Nat

VARIABLES
    author,     \* author[p]: who shared p, Nil before
    listed,     \* listed[d][k]: the children the list k was told of so far
    rows,       \* rows[d][k][p]: how many rows the list k has for p
    post,       \* post[d]: the post whose screen is open, or Nil
    loader,     \* loader[d]: number of the callback of the latest such screen
    form,       \* form[d]: what its fields hold
    budget      \* how often each of the bounded steps may still happen

screenVars == <<listed, rows, post, loader, form>>
vars == <<dbVars, screenVars, author, budget>>

Budgets == [taps : Nat, edits : Nat, refusals : Nat, drops : Nat, kills : Nat]

Spend(b) == budget[b] > 0 /\ budget' = [budget EXCEPT ![b] = @ - 1]

Present(v, p) == \E k \in Place(p) : v[k] # Nil
Whole(v, p) == \A k \in Place(p) : v[k] # Nil

Posted(v) == {p \in Ids : Present(v, p)}

NoRows == [k \in Lists |-> [p \in Ids |-> 0]]

Init ==
    /\ DBInit(NoTree)
    /\ author = [p \in Ids |-> Nil]
    /\ listed = [d \in Devices |-> [k \in Lists |-> {}]]
    /\ rows = [d \in Devices |-> NoRows]
    /\ post = [d \in Devices |-> Nil]
    /\ loader = [d \in Devices |-> 0]
    /\ form = [d \in Devices |-> Blank]
    /\ budget = [taps |-> MaxTaps, edits |-> MaxEdits, refusals |-> MaxRefusals,
                 drops |-> MaxDrops, kills |-> MaxKills]

-----------------------------------------------------------------------------
(* What the user does. *)

Registered(d, kind) == \E l \in listeners[d] : l.kind = kind

\* the upload of a new post is done: Share's setValue; the feed is the tab the
\* app starts with
SharePost(d) ==
    /\ Registered(d, "home")
    /\ \E p \in Ids, t \in Texts :
           /\ author[p] = Nil
           /\ author' = [author EXCEPT ![p] = uid[d]]
           /\ Put(d, [k \in Place(p) |-> IF k = Body(p) THEN "made" ELSE t], mainQ[d])
    /\ UNCHANGED <<screenVars, budget>>

\* the tabs are loaded when they are first shown, the feed first
OpenHome(d) ==
    /\ ~Registered(d, "home")
    /\ Observe(d, "home", Root, mainQ[d])
    /\ UNCHANGED <<screenVars, author, budget>>

OpenProfile(d) ==
    /\ Registered(d, "home") /\ ~Registered(d, "mine")
    /\ Observe(d, "mine", Root, mainQ[d])
    /\ UNCHANGED <<screenVars, author, budget>>

\* a row of the own posts is selected: viewDidLoad and its loadPostData
OpenDetail(d) ==
    /\ post[d] = Nil
    /\ Spend("taps")
    /\ \E p \in Ids :
           /\ rows[d]["mine"][p] > 0
           /\ post' = [post EXCEPT ![d] = p]
           /\ Observe(d, "detail", Place(p), mainQ[d])
    /\ loader' = [loader EXCEPT ![d] = Cardinality(listeners[d]) + 1]
    /\ form' = [form EXCEPT ![d] = Blank]
    /\ UNCHANGED <<listed, rows, author>>

Type(d) ==
    /\ post[d] # Nil
    /\ Spend("edits")
    /\ \E t \in Texts : t # form[d] /\ form' = [form EXCEPT ![d] = t]
    /\ UNCHANGED <<dbVars, listed, rows, post, loader, author>>

\* fault: setValue for updateChildValues
Replaces(d) == Put(d, [k \in Place(post[d]) |-> IF k = Text(post[d]) THEN form[d] ELSE Nil],
                   mainQ[d])

Saves(d) == Put(d, [k \in {Text(post[d])} |-> form[d]], mainQ[d])

\* its dismiss closes the alert it has just presented, or the screen
buttonUpdate(d) ==
    /\ post[d] # Nil
    /\ Spend("taps")
    /\ Saves(d)
    /\ \E p \in {post[d], Nil} : post' = [post EXCEPT ![d] = p]
    /\ UNCHANGED <<listed, rows, loader, form, author>>

\* the storyboard connects the buttons Cancel and Delete to buttonUpdate as
\* well, and Delete's own removeValue is commented out
Cancel(d) ==
    /\ post[d] # Nil
    /\ Saves(d)
    /\ post' = [post EXCEPT ![d] = Nil]
    /\ UNCHANGED <<listed, rows, loader, form, author, budget>>

-----------------------------------------------------------------------------
(* Callbacks on the main queue. *)

\* the children an event adds to the list k
AllChildren(d, k, snap) == Posted(snap)     \* fault: the whole list each time

Added(d, k, snap) == Posted(snap) \ listed[d][k]

\* the own posts are those with the user's id
AnyPost(d, k, p) == TRUE                    \* fault: no id is compared

Belongs(d, k, p) == k = "home" \/ author[p] = uid[d]

ListCallback(d) ==
    /\ mainQ[d] # << >>
    /\ \E l \in Head(mainQ[d]).to :
           LET snap == Head(mainQ[d]).snap
               new == Added(d, l.kind, snap)
           IN  /\ l.kind \in Lists
               /\ \A p \in new : Whole(snap, p)
               /\ mainQ' = [mainQ EXCEPT ![d] = Popped(d, l)]
               /\ listed' = [listed EXCEPT ![d][l.kind] = Posted(snap)]
               /\ rows' = [rows EXCEPT ![d][l.kind] = [p \in Ids |->
                      @[p] + (IF p \in new /\ Belongs(d, l.kind, p) THEN 1 ELSE 0)]]
    /\ UNCHANGED <<server, cache, known, pend, inbox, sub, listeners>>
    /\ UNCHANGED <<post, loader, form, author, budget>>

DetailCallback(d) ==
    /\ mainQ[d] # << >>
    /\ \E l \in Head(mainQ[d]).to, p \in Ids :
           /\ l.kind = "detail" /\ l.at = Place(p)
           /\ Whole(Head(mainQ[d]).snap, p)
           /\ mainQ' = [mainQ EXCEPT ![d] = Popped(d, l)]
           /\ form' = [form EXCEPT ![d] =
                  IF l.n = loader[d] THEN Head(mainQ[d]).snap[Text(p)] ELSE @]
    /\ UNCHANGED <<server, cache, known, pend, inbox, sub, listeners>>
    /\ UNCHANGED <<listed, rows, post, loader, author, budget>>

Restart(d) ==
    /\ Terminate(d)
    /\ listed' = [listed EXCEPT ![d] = [k \in Lists |-> {}]]
    /\ rows' = [rows EXCEPT ![d] = NoRows]
    /\ post' = [post EXCEPT ![d] = Nil]
    /\ loader' = [loader EXCEPT ![d] = 0]
    /\ form' = [form EXCEPT ![d] = Blank]
    /\ UNCHANGED author

\* as! on a field the post does not have: a list is told of a post without a
\* body, or the screen of a post, closed or not, that the post is gone
FieldMissing(d) ==
    /\ mainQ[d] # << >>
    /\ \E l \in Head(mainQ[d]).to :
           LET snap == Head(mainQ[d]).snap
           IN  \/ l.kind \in Lists /\ \E p \in Added(d, l.kind, snap) : ~Whole(snap, p)
               \/ l.kind = "detail" /\ \E k \in l.at : snap[k] = Nil
    /\ Restart(d)
    /\ UNCHANGED budget

-----------------------------------------------------------------------------
(* The library, the server, the system. *)

Receive(d) == (OnDataUpdate(d) \/ AckWrite(d)) /\ UNCHANGED <<screenVars, author, budget>>

Listening(d) == ServerListen(d) /\ UNCHANGED <<screenVars, author, budget>>

Accept(d) == ServerAccept(d) /\ UNCHANGED <<screenVars, author, budget>>

Refuse(d) == Spend("refusals") /\ ServerRefuse(d) /\ UNCHANGED <<screenVars, author>>

Reconnect(d) == Spend("drops") /\ RestoreState(d) /\ UNCHANGED <<screenVars, author>>

Kill(d) == Spend("kills") /\ Restart(d)

Touch(d) ==
    \/ SharePost(d) \/ OpenHome(d) \/ OpenProfile(d) \/ OpenDetail(d)
    \/ Type(d) \/ buttonUpdate(d) \/ Cancel(d)

MainQueue(d) == ListCallback(d) \/ DetailCallback(d) \/ FieldMissing(d)

Next == \E d \in Devices :
    \/ Touch(d) \/ MainQueue(d) \/ Receive(d) \/ Listening(d) \/ Accept(d)
    \/ Refuse(d) \/ Reconnect(d) \/ Kill(d)

Spec == Init /\ [][Next]_vars

(* Queues run what is put on them and a connection that is up carries      *)
(* requests and answers; nobody has to touch anything.                     *)
Fairness == \A d \in Devices :
    WF_vars(MainQueue(d)) /\ WF_vars(Receive(d)) /\ WF_vars(Listening(d)) /\ WF_vars(Accept(d))

FairSpec == Spec /\ Fairness

-----------------------------------------------------------------------------
TypeOK ==
    /\ DBTypeOK
    /\ author \in [Ids -> Users \cup {Nil}]
    /\ listed \in [Devices -> [Lists -> SUBSET Ids]]
    /\ rows \in [Devices -> [Lists -> [Ids -> Nat]]]
    /\ post \in [Devices -> Ids \cup {Nil}]
    /\ loader \in [Devices -> Nat]
    /\ form \in [Devices -> Texts \cup {"made"}]
    /\ budget \in Budgets

(* The lists and the screen of a post force-cast every field: a post on    *)
(* the server has all of them, or every feed in the world stops (as! in    *)
(* loadPosts, loadMyPost and loadPostData); unless it refused a write, the *)
(* share of a post being refused and an update of it accepted.             *)
WholePosts ==
    budget.refusals = MaxRefusals => \A p \in Posted(server) : Whole(server, p)

(* No list has two rows for a post, though its own writes, the server's    *)
(* echo of them, refusals and reconnections all change its view.           *)
NoDuplicateRows == \A d \in Devices, k \in Lists, p \in Ids : rows[d][k][p] <= 1

(* A device writes to a post only if its user shared it: what the screen   *)
(* of a post may change is decided by the filter of another screen's list. *)
OnlyAuthorWrites ==
    \A d \in Devices, p \in Ids : \A i \in 1..Len(pend[d]) :
        DOMAIN pend[d][i] \cap Place(p) # {} => author[p] = uid[d]

(* Whenever nothing is under way for it, a list shows every post it should *)
(* of those the server has; and no others, unless a post was refused, whose *)
(* row stays (the callbacks add rows, and none takes one away).            *)
Settled(d, k) ==
    /\ Registered(d, k)
    /\ sub[d] = "on" /\ inbox[d] = << >> /\ pend[d] = << >>
    /\ \A i \in 1..Len(mainQ[d]) : \A l \in mainQ[d][i].to : l.kind # k

InRows(d, k) == {p \in Ids : rows[d][k][p] > 0}

Due(d, k) == {p \in Posted(server) : Belongs(d, k, p)}

ListsRight == \A d \in Devices, k \in Lists : Settled(d, k) =>
    /\ Due(d, k) \subseteq InRows(d, k)
    /\ budget.refusals = MaxRefusals => InRows(d, k) \subseteq Due(d, k)

(* A list that was opened ends up showing the posts the server has.        *)
ListsSettle == \A d \in Devices, k \in Lists : <>[](Registered(d, k) => InRows(d, k) = Due(d, k))
=============================================================================
