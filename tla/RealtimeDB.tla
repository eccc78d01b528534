----------------------------- MODULE RealtimeDB -----------------------------
(***************************************************************************)
(* The Firebase Realtime Database as the app's screens use it: one         *)
(* location with its children, the server that owns it and, on every       *)
(* device, the client library's copy of it.  The module holds the state    *)
(* and the steps of the library; the screens' modules extend it, decide    *)
(* when a step is taken and what a callback does.                          *)
(*                                                                         *)
(* The library runs on a queue of its own and hands every event to the     *)
(* main queue, where the app's callbacks run later, in order, each with    *)
(* the snapshot taken when the event was raised.                           *)
(***************************************************************************)
EXTENDS Naturals, Sequences, FiniteSets

CONSTANTS
    Devices,    \* running installations of the app
    Keys,       \* the children of the location
    Vals,       \* the values a child can have
    Nil,        \* "no value": the child does not exist
    Kinds,      \* the callbacks the screens register
    Lists       \* those that observe .childAdded, the others observe .value

ASSUME NilAssumption == Nil \notin Vals \cup Keys
ASSUME ListsAssumption == Lists \subseteq Kinds

VARIABLES
    server,     \* the value the server holds
    cache,      \* cache[d]: the last value d received from the server
    known,      \* known[d]: whether d received one at all
    pend,       \* pend[d]: d's writes the server has not acknowledged to it
    inbox,      \* inbox[d]: what the server sent to d and d has not processed
    sub,        \* sub[d]: d's listen request: not sent, sent, or served
    listeners,  \* listeners[d]: registered callbacks; the app removes none
    mainQ       \* mainQ[d]: events waiting on d's main queue

dbVars == <<server, cache, known, pend, inbox, sub, listeners, mainQ>>

Tree == [Keys -> Vals \cup {Nil}]
NoTree == [k \in Keys |-> Nil]

(* A write gives values to some children: setValue and removeValue to one, *)
(* updateChildValues to several.                                           *)
Write == UNION {[K -> Vals \cup {Nil}] : K \in SUBSET Keys}

\* A callback is registered for some of the children or for the location itself.
Root == Keys

Places == (SUBSET Keys) \ {{}}

Listener == [kind : Kinds, at : Places, n : Nat]
Event == [to : SUBSET Listener, snap : Tree]
Message == [t : {"data"}, val : Tree] \cup [t : {"ack"}, ok : BOOLEAN]

(***************************************************************************)
(* What the app sees: the unacknowledged writes laid over the server data. *)
(***************************************************************************)
Covering(p, k) == {i \in 1..Len(p) : k \in DOMAIN p[i]}

Newest(S) == CHOOSE i \in S : \A j \in S : j <= i

Overlay(c, p) ==
    [k \in Keys |-> IF Covering(p, k) = {} THEN c[k] ELSE p[Newest(Covering(p, k))][k]]

View(d) == Overlay(cache[d], pend[d])

At(v, a) == [k \in a |-> v[k]]

(* A place is complete when the server's value arrived, or when the app    *)
(* itself has just written all of it; the children of a list are shown     *)
(* each as soon as it is there.                                            *)
Complete(kn, p, l) ==
    \/ kn \/ l.kind \in Lists
    \/ l.at # Root /\ \A k \in l.at : Covering(p, k) # {}

\* fault: a first value equal to the empty copy goes unnoticed
ConcernedByChange(ls, kn, c, p, kn2, c2, p2) ==
    {l \in ls : /\ Complete(kn2, p2, l)
                /\ At(Overlay(c2, p2), l.at) # At(Overlay(c, p), l.at)}

(* The listeners that a change of the library's copy concerns: their place *)
(* is complete now and it was not before, or its value is another one.     *)
Concerned(ls, kn, c, p, kn2, c2, p2) ==
    {l \in ls : /\ Complete(kn2, p2, l)
                /\ \/ ~Complete(kn, p, l)
                   \/ At(Overlay(c2, p2), l.at) # At(Overlay(c, p), l.at)}

Raised(to, snap) == IF to = {} THEN << >> ELSE <<[to |-> to, snap |-> snap]>>

(***************************************************************************)
(* The library's operations.  q is d's main queue as the calling callback  *)
(* leaves it (mainQ[d] itself when a touch or the network makes the call). *)
(***************************************************************************)
\* observe: an initial event when the place is complete already; the first
\* callback, for the location itself, makes the library send a listen request
Observe(d, kind, a, q) ==
    LET l == [kind |-> kind, at |-> a, n |-> Cardinality(listeners[d]) + 1]
        to == IF Complete(known[d], pend[d], l) THEN {l} ELSE {}
    IN  /\ listeners' = [listeners EXCEPT ![d] = @ \cup {l}]
        /\ mainQ' = [mainQ EXCEPT ![d] = q \o Raised(to, View(d))]
        /\ sub' = [sub EXCEPT ![d] = IF @ = "off" THEN "asked" ELSE @]
        /\ UNCHANGED <<server, cache, known, pend, inbox>>

\* setValue, removeValue, updateChildValues: visible here at once, sent later
Put(d, w, q) ==
    LET p2 == Append(pend[d], w)
        to == Concerned(listeners[d], known[d], cache[d], pend[d], known[d], cache[d], p2)
    IN  /\ pend' = [pend EXCEPT ![d] = p2]
        /\ mainQ' = [mainQ EXCEPT ![d] = q \o Raised(to, Overlay(cache[d], p2))]
        /\ UNCHANGED <<server, cache, known, inbox, sub, listeners>>

\* the library processes a new value of the location
OnDataUpdate(d) ==
    /\ inbox[d] # << >>
    /\ Head(inbox[d]).t = "data"
    /\ LET c2 == Head(inbox[d]).val
           to == Concerned(listeners[d], known[d], cache[d], pend[d], TRUE, c2, pend[d])
       IN  /\ cache' = [cache EXCEPT ![d] = c2]
           /\ known' = [known EXCEPT ![d] = TRUE]
           /\ mainQ' = [mainQ EXCEPT ![d] = @ \o Raised(to, Overlay(c2, pend[d]))]
    /\ inbox' = [inbox EXCEPT ![d] = Tail(@)]
    /\ UNCHANGED <<server, pend, sub, listeners>>

\* the library processes the answer to its oldest write; a refused write
\* disappears from the view, an accepted one is in the server data by now,
\* which the library has (AckFindsData)
WithoutAnyWrite(p) == << >>     \* fault: all writes are forgotten

WithoutOldest(p) == Tail(p)

AckWrite(d) ==
    /\ inbox[d] # << >>
    /\ Head(inbox[d]).t = "ack"
    /\ LET p2 == WithoutOldest(pend[d])
           to == Concerned(listeners[d], known[d], cache[d], pend[d], known[d], cache[d], p2)
       IN  /\ pend' = [pend EXCEPT ![d] = p2]
           /\ mainQ' = [mainQ EXCEPT ![d] = @ \o Raised(to, Overlay(cache[d], p2))]
    /\ inbox' = [inbox EXCEPT ![d] = Tail(@)]
    /\ UNCHANGED <<server, cache, known, sub, listeners>>

\* fault: an event is over when one of its callbacks is
PoppedForAll(d, l) == Tail(mainQ[d])

\* the callback l of the event at the head of the main queue is done
Popped(d, l) ==
    LET rest == Head(mainQ[d]).to \ {l}
    IN  IF rest = {} THEN Tail(mainQ[d])
        ELSE <<[to |-> rest, snap |-> Head(mainQ[d]).snap]>> \o Tail(mainQ[d])

(***************************************************************************)
(* The server and the connection (external).                               *)
(***************************************************************************)
Data(v) == [t |-> "data", val |-> v]
Ack(b) == [t |-> "ack", ok |-> b]

Merge(v, w) == [k \in Keys |-> IF k \in DOMAIN w THEN w[k] ELSE v[k]]

ServerListen(d) ==
    /\ sub[d] = "asked"
    /\ sub' = [sub EXCEPT ![d] = "on"]
    /\ inbox' = [inbox EXCEPT ![d] = Append(@, Data(server))]
    /\ UNCHANGED <<server, cache, known, pend, listeners, mainQ>>

\* the answers on their way belong to d's oldest writes
Answers(box) == {i \in 1..Len(box) : box[i].t = "ack"}

Answered(d) == Cardinality(Answers(inbox[d]))

\* a listen request is served before a write, as restoreState sends them; the
\* library would hold the write's answer back until the listen is answered
PutWaits(d) == sub[d] # "asked" /\ Answered(d) < Len(pend[d])

NextPut(d) == pend[d][Answered(d) + 1]

\* every device that listens is told of the new value before the writer is answered
ServerAccept(d) ==
    /\ PutWaits(d)
    /\ server' = Merge(server, NextPut(d))
    /\ inbox' = [e \in Devices |->
           inbox[e] \o (IF sub[e] = "on" /\ server' # server THEN <<Data(server')>> ELSE << >>)
                    \o (IF e = d THEN <<Ack(TRUE)>> ELSE << >>)]
    /\ UNCHANGED <<cache, known, pend, sub, listeners, mainQ>>

ServerRefuse(d) ==
    /\ PutWaits(d)
    /\ inbox' = [inbox EXCEPT ![d] = Append(@, Ack(FALSE))]
    /\ UNCHANGED <<server, cache, known, pend, sub, listeners, mainQ>>

\* fault: the writes are sent again, the listens are not
RestoreWrites(d) ==
    /\ inbox' = [inbox EXCEPT ![d] = << >>]
    /\ UNCHANGED <<server, cache, known, pend, sub, listeners, mainQ>>

\* the connection is lost with everything in it and comes back: listens are
\* sent again, then every unacknowledged write, also one the server has applied
RestoreState(d) ==
    /\ inbox' = [inbox EXCEPT ![d] = << >>]
    /\ sub' = [sub EXCEPT ![d] = IF @ = "on" THEN "asked" ELSE @]
    /\ UNCHANGED <<server, cache, known, pend, listeners, mainQ>>

\* the process ends; persistence is off, so nothing of the library survives
Terminate(d) ==
    /\ cache' = [cache EXCEPT ![d] = NoTree]
    /\ known' = [known EXCEPT ![d] = FALSE]
    /\ pend' = [pend EXCEPT ![d] = << >>]
    /\ inbox' = [inbox EXCEPT ![d] = << >>]
    /\ sub' = [sub EXCEPT ![d] = "off"]
    /\ listeners' = [listeners EXCEPT ![d] = {}]
    /\ mainQ' = [mainQ EXCEPT ![d] = << >>]
    /\ UNCHANGED server

DBInit(s0) ==
    /\ server = s0
    /\ cache = [d \in Devices |-> NoTree]
    /\ known = [d \in Devices |-> FALSE]
    /\ pend = [d \in Devices |-> << >>]
    /\ inbox = [d \in Devices |-> << >>]
    /\ sub = [d \in Devices |-> "off"]
    /\ listeners = [d \in Devices |-> {}]
    /\ mainQ = [d \in Devices |-> << >>]

\* with the two facts the library's bookkeeping rests on: callbacks can be
\* numbered, and an answer on its way is to a write that is still recorded
DBTypeOK ==
    /\ server \in Tree
    /\ cache \in [Devices -> Tree]
    /\ known \in [Devices -> BOOLEAN]
    /\ pend \in [Devices -> Seq(Write)]
    /\ inbox \in [Devices -> Seq(Message)]
    /\ sub \in [Devices -> {"off", "asked", "on"}]
    /\ listeners \in [Devices -> SUBSET Listener]
    /\ mainQ \in [Devices -> Seq(Event)]
    /\ \A d \in Devices : IsFiniteSet(listeners[d]) /\ Answered(d) <= Len(pend[d])

-----------------------------------------------------------------------------
(* What the app may rely on, whatever it does with the library.            *)

(* The value callback l will have been given last once the main queue q is *)
(* worked off: the newest event for it, or what it saw (s) before.         *)
EventsFor(q, l) == {i \in 1..Len(q) : l \in q[i].to}

HasShown(q, s, l) == EventsFor(q, l) # {} \/ l \in DOMAIN s

LastShown(q, s, l) ==
    IF EventsFor(q, l) # {} THEN At(q[Newest(EventsFor(q, l))].snap, l.at) ELSE s[l]

UpToDate(ls, kn, c, p, q, s) ==
    \A l \in ls : Complete(kn, p, l) =>
        HasShown(q, s, l) /\ LastShown(q, s, l) = At(Overlay(c, p), l.at)

Remember(s, l, v) == [m \in DOMAIN s \cup {l} |-> IF m = l THEN v ELSE s[m]]

(* The newest value on its way to a listening device, or the one it has if *)
(* none is, is the server's.                                               *)
DataIn(box) == {i \in 1..Len(box) : box[i].t = "data"}

LastData(box, c) == IF DataIn(box) = {} THEN c ELSE box[Newest(DataIn(box))].val

InSync == \A d \in Devices : sub[d] = "on" => LastData(inbox[d], cache[d]) = server

(* A device that listens was sent a value before any answer.               *)
Introduced(box, kn) ==
    kn \/ (box # << >> /\ Head(box).t = "data")

ListensFirst == \A d \in Devices :
    /\ sub[d] = "on" => Introduced(inbox[d], known[d])
    /\ sub[d] # "on" => inbox[d] = << >>
    /\ sub[d] = "off" => pend[d] = << >>

(* Events are for registered callbacks, the number of a callback is its    *)
(* own, and an app that registered one has asked the server to listen.     *)
Wired(d) ==
    /\ \A i \in 1..Len(mainQ[d]) : mainQ[d][i].to \subseteq listeners[d]
    /\ \A l \in listeners[d] : l.n \in 1..Cardinality(listeners[d])
    /\ \A l, m \in listeners[d] : l.n = m.n => l = m
    /\ listeners[d] # {} => sub[d] # "off"

(* The newest event on its way to a callback shows the current view.       *)
Current(d) == \A l \in listeners[d] :
    Complete(known[d], pend[d], l) /\ EventsFor(mainQ[d], l) # {} =>
        At(mainQ[d][Newest(EventsFor(mainQ[d], l))].snap, l.at) = At(View(d), l.at)
=============================================================================
