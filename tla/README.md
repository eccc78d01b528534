# Verification of CourseworkIOS

CourseworkIOS is an iOS app in which students share events ("posts"), see the
feed of everybody's events, say whether they will take part in one, and edit
the events they shared themselves. It has no server code of its own: accounts
live in Firebase Auth, photos in Firebase Storage, everything else in the
Firebase Realtime Database, whose client library is vendored under
`CourseworkIOS/Pods`. The app's logic is what its view controllers do between
these services and the touches of the user, and nearly all of it happens in
callbacks.

This directory holds TLA+ models of that logic, TLC configurations that check
them on small instances, and proofs that TLAPS checks for all instances.
`PROJECT.json` maps every definition to the lines it models. In this text
`Pods/FirebaseDatabase/Firebase/Database` is shortened to `FDB`, and the app's
files are named without their directory.

## 1. Inventory

### The parts, their state and their operations

| Part | State | Operations | Model |
|---|---|---|---|
| Database client library (`FDB/Core`: FRepo, FSyncTree, FSyncPoint, FWriteTree, FView, FViewProcessor, FEventRaiser, FPersistentConnection) | server cache per location, pending writes, registered callbacks, listen and put requests in flight | `observe`, `setValue`, `removeValue`, `updateChildValues`; server data, acknowledgements and refusals; loss and restoration of the connection | `RealtimeDB`, `DatabaseClient`, `DatabaseHistory`; what it promises: `SharedLocation` |
| Participation screen (`postDetailsViewController`) | callbacks registered by earlier taps, the count's label | open, "I will participate", "I won't participate", Cancel | `Participation` |
| Feed, own posts, post editing (`HomeViewController`, `ProfileViewController`, `MyPostDetailViewController`, the buttons' connections in `Main.storyboard`) | rows of the two lists, the form of the opened post | load a list, open a post, type, Update, Delete, Cancel | `Posts` |
| Registration and session (`ViewController`, `LoginViewController`, `RegisterViewController`, `ForgotPasswordViewController`, `ProfileViewController`'s header and Logout) | Auth's current user, the stack of screens, requests in flight, the steps from photo to record | Register, Login, Reset, Logout, opening the profile; the answers to each | `Accounts` |
| Upload form (`UploadViewController`) | picture selected and picture shown, texts of the form, shares on their way | pick a picture, type, Remove, Share; the answers of Storage and of the database | `Sharing` |
| User details popup (`userDetailsViewController`) | one callback | reads its user's record | `Sharing` |
| Password rule (`Utilities.isPasswordValid`) | none | one regular expression | not modelled |
| Face ID check, styling, map, camera, preview, events screens, Core Data stack | none that anything depends on | | not modelled, see section 8 |

### How they interact

- Every screen calls the library on the main queue. The library works on a
  queue of its own and hands events back to the main queue, each with the
  snapshot taken when it was raised (`FEventRaiser.m:52-60`), so that a callback
  runs after an arbitrary delay, among other callbacks and touches.
- Writes are laid over the server data at once: callbacks see them long before
  the server does, and see them disappear again when it refuses them.
- No screen ever removes an observer: the callbacks of a screen that was closed
  go on running, and writing.
- `Auth.auth().currentUser` is global and outlives the process; the screens of
  the tabs remember the user they were created for (`var id = ...`).
- All parts rely on the record `User/<uid>`, which Register writes last of all,
  after the photo and its URL, and unwrap it with `!`.

### What is hard

Own writes, acknowledgements, refusals and server data in any interleaving;
connections that break with answers in them, so that requests are made again;
processes killed with writes in memory only; callbacks that react to changes
and cause them; a post made of fields that different requests write; force
unwraps whose condition another screen established, or not; a share whose steps
read form and session as they find them; screens that stay
on the stack while answers to their requests arrive. `PROJECT.json` lists the
hazards line by line, with the properties that cover them.

### What makes each part correct

- *Library*: it behaves as a shared value that every device learns in order,
  with its own writes on top until they have taken effect or were refused; no
  callback keeps an outdated value; an idle device sees what the server has; the
  bookkeeping of answers fits that of writes.
- *Participation*: on the list are guests who asked to be, with a record that the
  server has, unless it refused that very record; whoever is on it stays on it
  until asking to leave; the count is right when things are quiet; a join gets through
  refusals and reconnections; the retry does not run wild; what the alert and
  the buttons say is true.
- *Posts*: posts on the server have all their fields, lists have each post
  once, all of them and no others; only authors change posts.
- *Accounts*: a record is complete and written once; the tabs have a user.
- *Sharing*: a post's author has a record and a photo; neither a text nor a tap
  makes two posts; what is posted is what was shown.

## 2. The modules

```
SharedLocation          the abstract specification: what the library promises
RealtimeDB              state and steps of the library, the server, the network
  |-- DatabaseClient     any app on top of it              MCDatabaseClient
  |     `-- DatabaseHistory  ... implements SharedLocation MCDatabaseHistory
  |-- Participation      the participation screen          MCParticipation
  `-- Posts              feed, own posts, editing          MCPosts
Accounts                 registration, login, screens      MCAccounts
  `-- Sharing            the upload form, user details     MCSharing

RealtimeDBProofs <- DatabaseClientProofs <- DatabaseHistoryProofs
                 <- ParticipationProofs
                 <- PostsProofs <- ListsProofs
AccountsProofs   <- SharingProofs
```

A screen's module EXTENDS `RealtimeDB`: the screen and the library it calls are
one state machine, and each of the screen's actions contains the library call it
makes. The actions of the server and the network are the same in all three
modules. `Accounts` and `Sharing` keep of the database what they need, single
writes that are answered in order and records that are read; the two halves meet
in the `User` record, of which `Participation` keeps the write on its way
(`saving`) and the server's answer (`records`, `denied`), and in the post, whose way to the server is
in `Sharing` and whose life after it in `Posts`.

### RealtimeDB and DatabaseClient

The model is of one location with its children (`Posts` with the posts,
`EventsParticipants/<post>/participants` with its users). `server` is its value
on the server. Per device, `cache` and `known` are the server cache of the
location's FView, `pend` FWriteTree's records together with
FPersistentConnection's `outstandingPuts` (the two lists are kept in step by
the library, one entry per write, in the order of the writes), `listeners` the
registrations of FSyncPoint, `sub` the listen request and `inbox` the messages
on the WebSocket, `mainQ` the blocks that FEventRaiser put on the main queue.

| Action | Code |
|---|---|
| `Observe` | `FRepo addEventRegistration`, `FSyncTree addEventRegistration`: the callback is registered, told at once if its place is complete, a listen request goes out for the first one |
| `Put` | `FRepo setInternal` / `updateInternal`: the write gets a number, is laid over the view, events are raised, the put is queued |
| `OnDataUpdate` | `FRepo onDataUpdate`, `FView applyOperation` |
| `AckWrite` | `FRepo ackWrite`, `FSyncTree ackUserWriteWithWriteId`, `FWriteTree removeWriteId`; a refused write is reverted |
| `RestoreState` | `FPersistentConnection onDisconnect`, `restoreState`: listens are sent again, then all unacknowledged puts |
| `ServerListen`, `ServerAccept`, `ServerRefuse` | external: the server answers requests in order and tells every listener of a new value before it answers the writer |
| `Terminate` | external: the process ends; the app never turns persistence on |

`Overlay` is what `calculateCompleteEventCacheAtPath` computes, `Concerned` which
registrations an operation raises an event for, `Complete` when a registration's
value can be shown: the server's data is there, or the app has just written all
of the place (`FWriteTree.m:219-279`); a `.childAdded` registration is shown each
child as it comes.

`Popped` takes one callback off the event at the head of the queue. An event for
several registrations stays until all of them ran, in any order: the
registrations are kept in a set whose enumeration order is unspecified.

`DatabaseClient` puts an arbitrary app on top: callbacks of any kind anywhere,
writes of any value to any children. The one thing it assumes of the app is that
a device writes to a location only after it began to listen to it, as every
screen here does: the participation screen's `getCount`, the feed that the app
starts with. `seen` remembers what each callback was last given.

### SharedLocation and DatabaseHistory

`SharedLocation` is what a screen's author relies on, without messages, listens
or caches. A location has one history of values, `log`; every device has learned
a part of it, `base`, and never learns an older value than before; its own writes,
`todo`, lie on top. Writes are decided in the order they were made, and one is
taken off (`Settle`) only when the device has learned as much of the log as there
was when the write was decided. So no screen sees an accepted write vanish and
come back: the library may drop a write on its acknowledgement only because the
data it was decided on went ahead. A lost connection makes the decisions the
device was not told of void (`Lose`), a restart makes it begin anew (`Forget`).

`DatabaseHistory` adds to `DatabaseClient` the history this speaks of: `log`,
`base`, `fate` (where in the log each answered write of a device was decided) and
`trail` (the same for each message on its way). They record and decide nothing:
each action of `HNext` is an action of `DatabaseClient` (lemma `HistoryWatches`)
with an equation for each of the four variables. That every behaviour of
`DatabaseClient` can be extended so is evident from these equations and is not
proved. The refinement mapping is `todo <- pend`, with the other variables under
their own names, and `KeepsPromise` is `SharedLocation`'s specification under it.

### Participation

`Open` is `viewDidLoad` with `getCount`; `btnParticipate` registers a callback
on `User/<id>`; that one, `UserCallback` (124-170), tells the owner no, or
registers the callback on the own entry; that one, `JoinCallback` (139-163),
writes the entry whenever it is shown that the entry is missing, and then
announces success. `btnNotParticipate` registers `LeaveCallback`, which looks
for the key `uid` among the participants (`ListUid`) and so never removes
anything. `CountCallback` sets the label to the number of children in its
snapshot. `tapped` and `told` remember who ever tapped "I will participate" and
who was told "Successfull"; a later tap on the other button takes nobody out of
`tapped`, as it takes nobody off the list.

`User/<id>` is another location of the database, of which the module keeps what
the screen sees of it. The record is written by the user's registration
(`RegisterViewController.swift:120`), which may be under way on the same device
when the screen is used (`SaveRecord`) or on another one (`StoreRecord`):
`registered` are the users for whom it was, once in their lives (theorem
`WrittenOnce` of `AccountsProofs`). Per device, `saving` is the write, `record`
what the server answered the screen's listen request (`ServerRecord`), `waiting`
the taps whose callback has not run, `watched` whether any has.

- As any own write, the record is seen at once (`RecordVisible`), so that
  `UserCallback` runs, and an entry is made, from a record the server has not
  got yet, and may refuse (`RecordRefused`, which puts the user in `denied`).
- When the device hears of the refusal, the record is taken back
  (`RecordTakenBack`) and all callbacks on it are shown nothing, also those that
  ran before: `dict!` stops the app (`UserMissing`), and with it goes all that
  is in its memory. Entries written before are on their way to the server by
  then, and the server may take them.
- A device's writes are sent in order (`putInternal`, and `restoreState` after a
  lost connection), so the server decides on the record before it decides on the
  entry (`RecordFirst`), and the device hears of the two decisions in this order
  (`Receive` waits for a refusal on its way). The acceptance of a record and its
  answer are one step, since neither is seen: the record stays as it was shown.
  A refusal on its way is lost with the connection, and the record sent again
  (`Reconnect`).

`Registered` are users who have a record from the start, among them `Earlier`,
who are on the list from the start, having joined on other devices.

### Posts

A post has nine fields. The model keeps two parts: the *body*, which only
`Share` writes, and the *text* (caption, date, time, time stamp), which
`buttonUpdate` writes as well; each part is a child, so that a write of some of a
post's fields and one of all of them can be told apart. `SharePost` is Share's
`setValue`. The two lists observe `.childAdded`: `listed` is what a list was told
of, `rows` the rows it inserted; the profile's list keeps those with the user's
id (`Belongs`). `OpenDetail` is the selection of an own post, `DetailCallback`
loads the form, also when the user has begun to type. `buttonUpdate` saves, shows
an alert and dismisses whatever is on top, the alert or the screen. The buttons
Cancel and Delete save too, which is the one action `Cancel`: the storyboard
connects both to `buttonUpdate:` as well (`Main.storyboard:707-708`, `719-720`),
and DeletePost's `removeValue` is commented out
(`MyPostDetailViewController.swift:112`). `FieldMissing` is the
crash of `as!` on a post without some field.

### Accounts

`stack[d]` are the screens that were presented on one another. With the iOS 12
SDK the project is written for they cover the whole screen and nothing in the
code dismisses them, so the stack only grows, until the process ends. A tab bar
keeps the user it was created for. `calls` are requests to Auth in flight, each
with the screen that made it, since a screen that is not on top cannot perform
the segue `HomeVC`. `saving` are the registrations on their way from photo to
record:

| Action | Code (`RegisterViewController.swift`) |
|---|---|
| `Register` | 74-89, with fields that `validateFields` accepts |
| `Created` | 94-129: the account is there, the upload starts if there is a photo, on to the tabs |
| `NotCreated` | 91-93 and 129: the error is shown, on to the tabs all the same |
| `Uploaded` | 97-106: the URL is asked for, whether or not the upload failed |
| `UrlFound`, `UrlMissing` | 106-120: write the record, or return |
| `RecordStored`, `RecordRefused` | 120: the `setValue` meets the server |

`LOgin`, `resetPassword`, `Logout` and `OpenProfile` with their answers are the
remaining handlers. Crashes are actions that end the process: `id!` without a
user (`ProfileWithoutUser`), `dict!` without a record (`ProfileWithoutRecord`,
`RecordTakenBack`), the segue `LoginVC` that the scene of ForgotPassword lacks
(`ResetDone`). A request whose answer is lost, because the network failed or the
process ended, may have made the account (`NotCreated`, `Unheard`). `Earlier` are
users who registered long ago and have a record and a photo.

### Sharing

The upload form, on top of `Accounts`: `Session` are the steps of `Accounts`,
which leave the forms alone or end the process and with it forms and shares. A
form belongs to a tab bar and is named by the tab bar's place on the stack. A
share is a record in `shares` with the stage it has reached:

| Action | Code (`UploadViewController.swift`) |
|---|---|
| `imagePickerController`, `TypeText`, `Remove_post` | the form is edited; Remove (87-92) empties it, the image that Share uses stays |
| `StartShare` | 94-98: the upload of `selectedImage` starts |
| `PhotoStored`, `PhotoFailed` | 98-107: who shares is read now, `user!` |
| `RecordRead` | 107-118: the sharer's record, `dict!` |
| `PostWritten`, `PhotoUrlMissing` | 120-152: the texts are read now, the post is written, the form emptied |
| `PostStored`, `PostRefused` | 138: the `setValue` meets the server, after the writes the device made before |

`ShareWithoutUser`, `ShareWithoutRecord` and `TakenBackLate` are the two unwraps
that may stop the app; the last is the case of a record that was only pending when the share
read it and is refused afterwards. `OpenAuthor` is the popup of user details with
its own `dict!`. Texts are told apart by a number each; the text of the time
field, which nothing empties, is not among them. `told` remembers, for
`SharesWhatIsShown` alone, what form and session showed at the tap.

## 3. Runs

| Run | Instance | Checks | Shows |
|---|---|---|---|
| `DatabaseHistory` | 2 devices, 1 child with 2 values, 1 callback of either kind per device, 2 writes, 1 refusal, 1 lost connection, 1 kill | `TypeOK`, `Delivered`, `IdleAgrees`, `AckFindsData`, `KeepsPromise` | the library implements `SharedLocation`; no callback is left with an older value than the library's view; idle devices agree with the server; an answer never comes before data |
| `Children` | 1 device, 2 children, 3 callbacks on the location or on either child, 1 write to one or both, 1 refusal, 1 lost connection, 1 kill, fairness | `Delivered`, `Convergence` | writes reach exactly the callbacks they concern; when writes stop, every callback has the server's value |
| `Participation` | a guest's and the owner's device, a third user on the list, the guest not registered yet, 2 openings, 2 taps, 1 refusal (of an entry or of the record), 1 lost connection, 1 kill | `TypeOK`, `OnlyGuestsListed`, `MembershipKept`, `BoundedWrites`, `CountRight` | see section 1 |
| `JoinSucceeds` | the same two devices, 1 opening, 2 taps, 2 refusals, 1 lost connection, no kill, fairness | `JoinSucceeds`, `CountSettles` | the retry gets a join through, unless the record it was made from is refused; every open screen ends with the right count |
| `Posts` | author and reader, 1 post, 1 tap, 1 lost connection, 1 kill, no refusals, fairness | `TypeOK`, `WholePosts`, `OnlyAuthorWrites`, `ListsRight`, `ListsSettle` | posts are whole, written to by their author only, and both lists end up with exactly the posts they should show |
| `Editing` | 1 device, 2 taps, 1 edit, 1 refusal, 1 lost connection, 1 kill | `NoDuplicateRows`, `ListsRight` | no list shows a post twice; a settled one lacks none, refusal or not |
| `Accounts` | 2 devices, 2 users, 3 requests, 2 links, 1 failure, 1 refusal, 1 kill | `TypeOK`, `RecordsComplete`, `OneWriter` | records name stored photos and existing accounts and are written once |
| `Sharing` | 1 device, a new user and one with an account, 2 requests, 1 link, 1 picture, 1 text, 2 shares, 1 failure, 1 refusal | `SharingTypeOK`, `PostsComplete`, `PostedOnce` | whoever shares, and whatever happens to session and form meanwhile, a post's author has a record and a photo, and no text or tap makes two posts |

Four runs end in a counterexample. Each checks what a button, an alert or an
unwrap says against what the code does (`findings` in `PROJECT.json`):

- `SuccessIsLasting`: "Successfull" is announced while the write is pending in
  memory; a kill before the server accepts it loses it for good
  (`postDetailsViewController.swift:150-152`).
- `LeavingWorks`: "I won't participate" never removes the user from the list
  (`postDetailsViewController.swift:179-180`).
- `TabsNeedUser`: a failed registration leads to the tabs without a user
  (`RegisterViewController.swift:129`).
- `SharesWhatIsShown`: Share takes the picture selected last at the tap, the user when
  that picture is stored and the texts when its URL arrives; a picture that was
  removed from the form is posted
  (`UploadViewController.swift:131`).

`OnlyGuestsListed` allows for one thing the code does: a guest's record is refused
and the entry that was made from it, while it was pending, is accepted. Such a
guest is in `denied`; the run reaches the case, and without the exemption TLC
shows it in ten steps. `MembershipKept` exempts the user's own leaving, which is
what the button "I won't participate" is for: a device of that user on which it
was tapped may take the entry away. In the code as it is nothing ever does
(`LeavingWorks`); with the lookup corrected the exemption becomes real.

`WholePosts` and `PostsComplete` speak of behaviours without refusals (of writes,
and of records): when the server refuses a share and accepts an update of the
same post made in the meantime, a post of four fields is left; when it refuses a
record and accepts a post of the same user, the post's author has none. Whether
the two answers can differ depends on the project's database rules, which are not
in the repository. `ListsRight` has two halves: that no post is missing from a
settled list is said of all behaviours, that there is no row too many of those
without refusals, since no callback takes the row of a refused post away. The
theorems cover any number of refusals, with the properties' condition; `Posts.cfg` has none, `Sharing.cfg` has one, which may strike a post as
well as a record.

### Why the bounds are enough

Every counter that bounds a run is named (`MaxWrites`, `MaxRefusals`, `MaxDrops`,
`MaxKills`, `MaxTaps`, `MaxOpens`, `MaxEdits`, `MaxLinks`, `MaxCalls`,
`MaxFailures`, `MaxListeners`, `MaxTexts`, `MaxShares`); retries, which the code does not bound, are not
bounded by the models either. Two devices are enough for a write of one to meet
the cache, the pending write or the lost connection of another; two writes of a
device for one to be answered while the other is pending; two children for a
write that concerns one callback and not another. Two taps on one screen give two
callbacks that watch, and write, the same entry; two openings, a screen whose
callbacks outlive it. One failure of each kind lets every failure fall between any
two steps; in `Participation` it may be the record's, the
first entry's or the retry's; two refusals in `JoinSucceeds` refuse the first retry
too, or an entry and the record. The guest of these runs begins without a record, so
that its registration falls before, between or after taps; the owner has one, as
someone who shared a post. Two devices
and three requests let a user be registered twice in all orders of the answers.
Two shares overlap in every way one share can with another, one text is enough to
be posted twice, and two users, one new, let a share begin in one session and end
in another; kills add nothing to `Sharing` that its own ends of a process do not
do as well (`Forget`).
The theorems of section 5 hold for all bounds.

Deadlock is not checked: all these systems may come to rest, with the user doing
nothing, nothing under way and the budgets spent. That they come to rest in the
right state is what the liveness properties and the properties of settled states
say.

### Symmetry and views

`DatabaseHistory` permutes devices and values, `Accounts` devices and users, where no
constant tells them apart. Permuting is sound for the refinement too, whose two
specifications are symmetric themselves, have no fairness and so are a matter of
single states and steps. The run `Sharing` has a view, `WithoutTold`: what form
and session showed at a tap (`told`) is recorded for one property and read by no
guard and by no other property, so the run of the others does not tell states
apart by it.

### Mutants

Each property of a passing run has a mutant in `PROJECT.json`: a definition of the
model with a plausible mistake in it (`ConcernedByChange`, `RestoreWrites`,
`EntryAlone`, `UidOnceTold`, `AnyUrl`, `KeepForm`, `AnyRecord`, ...), kept in the module next to the
right one and marked as a fault, for which TLC finds the property violated.

## 4. Fairness

Weak fairness is assumed of callbacks on the main queue, of the library's own
queue, of listen requests being served and of writes being accepted on a
connection that is up: queues run their blocks, and the library sends everything
again after a reconnection. Nothing is assumed of users, of kills, of lost
connections, of registrations being finished, or of refusals; the last are
bounded, so that a write that goes on being made is accepted in the end. A record
that was written is answered, as any write; if the answer is no, `JoinSucceeds` lets
the join end there, since the app stops at `dict!`.
`JoinSucceeds`, `CountSettles`, `Convergence` and `ListsSettle` hold under these
assumptions only.

## 5. Proofs

All theorems are about the specifications themselves, for any finite or infinite
sets of devices and any bounds, under the named assumptions on the constants.

| Theorem | Statement | Argument |
|---|---|---|
| `DatabaseClientProofs!TypeCorrect` | `Spec => []TypeOK` | one lemma per operation of the library (`RealtimeDBProofs`), which the screens' proofs use too; the part that needs an argument is that answers on their way never outnumber pending writes |
| `DatabaseClientProofs!NoLostUpdate` | `Spec => []Delivered` | `Delivered` is inductive; `ChangeKeepsUpToDate` says once, for any change of the library's copy, that raising events for `Concerned` callbacks keeps it |
| `DatabaseClientProofs!IdleDeviceAgrees` | `Spec => []IdleAgrees` | the inductive invariant is `InSync`: the newest value on its way to a listening device, or the one it has, is the server's |
| `DatabaseClientProofs!AnswersFindData` | `Spec => []AckFindsData` | the inductive invariant is `ListensFirst`: a device that listens was sent a value before any answer |
| `DatabaseHistoryProofs!PromiseKept` | `HSpec => KeepsPromise` | initial states map to initial states, each step to a step or a stutter; the inductive invariant `HInv` says that the messages to a device form a chain from what it has to the end of the log (`HistoryOK`): data never goes back, an answer ends where the data before it ended |
| `ParticipationProofs!TypeCorrect` | `Spec => []TypeOK` | the library's lemmas |
| `ParticipationProofs!ListedAreGuests` | `Spec => []OnlyGuestsListed` | the inductive invariant `GuestInv` follows a join from tap to list: waiting callbacks, registered callbacks, queued events and pending writes are all of a guest (`Guest`) who tapped and whose record is on the server, was refused by it, or is sent ahead of the entry |
| `ParticipationProofs!ListIsKept` | `Spec => MembershipKept` | pending writes of `GuestInv` only ever add an entry |
| `ParticipationProofs!CountIsRight` | `Spec => []CountRight` | the inductive invariant `CountInv` says of every device that its label shows the list it was shown last, as remembered by `LabelShowsView` whatever is still on its way, and `UpToDate`, `InSync` and `ListensFirst` of the library that this is the server's list once nothing is |
| `ParticipationProofs!WritesAreBounded` | `Spec => []BoundedWrites` | the inductive invariant `WritesInv` counts what is still to come: the recorded writes, the events on the main queue that show a callback its entry missing (`Dues`), one write for every callback before the first value from the server, and one for every callback and refusal on its way; the sum (`Fits`) grows only with a new callback or a new refusal, because by `SightGrows` nothing but a refusal makes the entry disappear from view again |
| `AccountsProofs!TypeCorrect` | `Spec => []TypeOK` | the stack only grows while requests are open, so the screen a request came from is there |
| `AccountsProofs!RecordsAreComplete`, `WrittenOnce` | `Spec => []RecordsComplete`, `Spec => []OneWriter` | the inductive invariant is `RecordInv`: what is under way for a record is as the record will be, in one place |
| `SharingProofs!SharesWellFormed` | `SSpec => []SharingTypeOK` | inductive together with `AuthorsKnown`: what a callback unwraps was there when the share reached its stage, and stays |
| `SharingProofs!PostsAreComplete` | `SSpec => []PostsComplete` | `CreditInv`: the author of a post, made or on its way, has a record on the server or one that this device writes ahead of it; `RecordInv` of `AccountsProofs` says what that record names |
| `SharingProofs!PostedOnlyOnce` | `SSpec => []PostedOnce` | the inductive invariant `Once`: a text is in one form, one share or one post, numbers of shares are used once |
| `PostsProofs!TypeCorrect` | `Spec => []TypeOK` | the library's lemmas |
| `PostsProofs!OnlyAuthorsWrite` | `Spec => []OnlyAuthorWrites` | the inductive invariant `AuthorInv`: rows of the own list, the open screen and pending writes all belong to the device's user |
| `PostsProofs!PostsAreWhole` | `Spec => []WholePosts` | the inductive invariant `WholeInv`: what is seen of a post, in a message, a cache, a row or an open screen, is whole on the server or will be by writes recorded ahead of it |
| `ListsProofs!ListsAreRight` | `Spec => []ListsRight` | `ListsInv`: a list with no event on its way was told of exactly the posts in view (`Follows`), and `InSync` makes the view of a settled device the server's; for the rows that must not be there, `UnrefusedInv`: while nothing was refused, events and views only grow (`Rising`), so whatever has a row is still in view |
| `ListsProofs!NoDuplicates` | `Spec => []NoDuplicateRows` | `RowsInv`: a body that was seen once, in a row or an event, is in all later events and in view, or is `Gone`: refused, neither on the server nor in a pending write. So a list that forgot a post it has a row for is never told of its body again |

What an app may rely on whatever it does with the library (`UpToDate`, `InSync`,
`ListensFirst`, `Wired`) is defined once, in `RealtimeDB`, and proved once, in
`RealtimeDBProofs`, as lemmas about any step of an app with the library
(`DBStep`: a callback ends, or none; a callback is registered, something is
written, or neither; or the library or the server does something). A screen's
proof shows that its steps are such steps and adds what the screen makes of them.

The steps of `HSpec` are steps of `DatabaseClient`, whose step lemmas the proof of
`PromiseKept` uses. `Delivered` and `OneWriter` need nothing but `TypeOK` and the parts named; the
other invariants are not inductive by themselves, since what they say of the
server depends on what is still on its way to it.

The proofs about the lists rest on two more groups of lemmas of `RealtimeDBProofs`.
`StepGrows` and `SightGrows` say of a location that nothing is ever removed from
(`AllFill`: no pending write empties a child) that the children the server holds only
become more, that each message to a device shows as many as the one before it, and
that an accepted write is dropped only when the server's copy has its children
(`Growing`): so a view loses a child by a refusal alone, and never one that the server
has and a single write makes (`Once`). `StepShows`, `StepRises` and `StepLasts` carry
this over to the events on the main queue. Whether a step of the app is a step of the
library, and what it does to lists and rows, is said once for all actions (`ListStep`,
lemma `NextIsStep`); the lemmas about it do not look at the actions any more.

The bound on the writes is an argument about numbers, so its proof keeps them apart:
lemmas on `Fits` do the arithmetic (`FitsLess`, `FitsJoin`, `FitsData`, `FitsRefused`,
`FitsRefuse`), lemmas on `Dues` and `Refusals` say what an event raised, a callback
done or a message more or less does to a count, and one lemma per kind of step
(`HeldObserve`, `HeldJoin`, `HeldPut`, `HeldData`, `HeldAck`, ...) puts them together.
TLC agreed with `WritesInv`, `GuestInv` and `CountInv` on an instance with 3 taps,
2 refusals and a lost connection (348 000 states) before they were proved.

Every safety invariant and action property of the passing runs is proved. Only
model-checked is liveness, outside TLAPS's reach as ENABLED is. No module of the project declares a RECURSIVE operator.

## 6. Abstractions to know about

- *Server.* It answers a device's requests in order and tells listeners of every
  new value. Its rules are not in the repository: any write may be refused.
- *One location.* The library works per location; callbacks on other locations are
  modelled by what they deliver (`record`, `asked`).
- *One user per device* in `Participation` and `Posts` (`uid` is a constant);
  changes of user are the subject of `Accounts` and `Sharing`.
- *Order and time stamps.* The feed is ordered by `postDate`, a server time stamp.
  The order of rows is not modelled, nor is the second event that replaces the
  local estimate by the server's value: it changes a field of a child that the
  lists were told of already.
- *Acknowledgement before data.* `ackUserWriteOn` has a branch for it
  (`FViewProcessor.m:690`, a "goofy edge case"); `AckFindsData` shows that it is
  not taken by devices that listen before they write, so `AckWrite` omits it.
- *Data of the fields* is abstracted to model values; `try! Data(contentsOf:)`
  is taken to find what is stored.
- *Alerts and the photo picker* are not screens of `Accounts`; while one is up the
  segue to the tabs fails, as it does for a screen that is covered.
- *Removal of observers, transactions, onDisconnect, limits, persistence*: the app
  uses none of them.

- *The record in `Sharing`* is read from what the device sees, pending writes
  included (`Visible`); it never changes afterwards (`OneWriter`), so that the
  callback on it, which stays registered, runs once per share.

## 7. Plan

Done, in order of importance: the library and what it promises (1), the
participation screen (2), the posts and their screens (3), registration and
session (4), the upload form and the user's details (5), with proofs about all of
them. What is left:

6. The texts of rows and forms, when there is a statement about them to check:
   that a form's callback overwrites what is being typed, and that lists keep
   the texts they were first told, follow from the code directly (see the hazards).
7. `removeObserver`, queries and persistence in `RealtimeDB`, when the app begins
   to use them.

## 8. Not modelled, and why

- Face ID (`CheckFaceID`): its outcome is only shown. Map, camera, preview,
  comments and events screens: not connected to the tabs or without effect on
  data. Styling, cells, model records, Core Data stack: no behaviour of the app's
  own.
- The password rule (`Utilities.isPasswordValid`): one regular expression without
  state; nothing depends on which passwords it accepts, since a rejected form only
  sets a label.
- Auth and Storage: external, as their callers see them.
- By far the most lines of the repository are libraries under `Pods` that the
  app's logic never calls or reaches only through Firebase: gRPC, BoringSSL,
  Abseil, leveldb and Firestore's core, in C and C++. Firestore is linked and not
  used, leveldb belongs to the persistence that is never turned on. Of the pods
  the models take in the Objective-C of the Realtime Database client, on whose
  behaviour everything the app does depends.
