-------------------------- MODULE DatabaseHistory ---------------------------
(***************************************************************************)
(* DatabaseClient with history variables, which only record what happens,  *)
(* and the proof obligation they are for: the library implements the       *)
(* promise of SharedLocation.                                              *)
(***************************************************************************)
EXTENDS DatabaseClient

VARIABLES
    log,        \* the values the server has held
    base,       \* base[d]: where in the log the value of cache[d] is
    fate,       \* fate[d]: the log's length when d's answered writes were decided
    trail       \* trail[d][i]: about the message inbox[d][i], the log's length
                \* when it was sent, and to how many writes answers were sent

Stamp == [at : Nat, nth : Nat]

history == <<log, base, fate, trail>>
hvars == <<vars, history>>

HInit ==
    /\ Init
    /\ log = <<server>>
    /\ base = [d \in Devices |-> 0]
    /\ fate = [d \in Devices |-> << >>]
    /\ trail = [d \in Devices |-> << >>]

\* the first message is processed
Rest(tr) ==
    [i \in 1..(Len(tr) - 1) |-> [at |-> tr[i + 1].at, nth |-> tr[i + 1].nth - tr[1].nth]]

HLocal(d) == (Register(d) \/ Change(d) \/ Callback(d)) /\ UNCHANGED history

HData(d) ==
    /\ OnDataUpdate(d) /\ UNCHANGED <<seen, budget>>
    /\ base' = [base EXCEPT ![d] = trail[d][1].at]
    /\ trail' = [trail EXCEPT ![d] = Rest(@)]
    /\ UNCHANGED <<log, fate>>

HAck(d) ==
    /\ AckWrite(d) /\ UNCHANGED <<seen, budget>>
    /\ fate' = [fate EXCEPT ![d] = Tail(@)]
    /\ trail' = [trail EXCEPT ![d] = Rest(@)]
    /\ UNCHANGED <<log, base>>

\* a message is sent after n answers
Stamped(n) == [at |-> Len(log'), nth |-> n]

HListening(d) ==
    /\ Listening(d)
    /\ UNCHANGED <<log, base, fate>>
    /\ trail' = [trail EXCEPT ![d] = Append(@, Stamped(Len(fate[d])))]

HAccept(d) ==
    /\ Accept(d)
    /\ log' = IF server' = server THEN log ELSE Append(log, server')
    /\ fate' = [fate EXCEPT ![d] = Append(@, Len(log'))]
    /\ trail' = [e \in Devices |->
           trail[e] \o (IF sub[e] = "on" /\ server' # server
                           THEN <<Stamped(Len(fate[e]))>> ELSE << >>)
                    \o (IF e = d THEN <<Stamped(Len(fate[e]) + 1)>> ELSE << >>)]
    /\ UNCHANGED base

HRefuse(d) ==
    /\ Refuse(d)
    /\ fate' = [fate EXCEPT ![d] = Append(@, Len(log))]
    /\ UNCHANGED <<log, base>>
    /\ trail' = [trail EXCEPT ![d] = Append(@, Stamped(Len(fate[d]) + 1))]

HReconnect(d) ==
    /\ Reconnect(d)
    /\ fate' = [fate EXCEPT ![d] = << >>]
    /\ trail' = [trail EXCEPT ![d] = << >>]
    /\ UNCHANGED <<log, base>>

HKill(d) ==
    /\ Kill(d)
    /\ base' = [base EXCEPT ![d] = 0]
    /\ fate' = [fate EXCEPT ![d] = << >>]
    /\ trail' = [trail EXCEPT ![d] = << >>]
    /\ UNCHANGED log

HNext == \E d \in Devices :
    \/ HLocal(d) \/ HData(d) \/ HAck(d) \/ HListening(d)
    \/ HAccept(d) \/ HRefuse(d) \/ HReconnect(d) \/ HKill(d)

HSpec == HInit /\ [][HNext]_hvars

-----------------------------------------------------------------------------
Promise == INSTANCE SharedLocation WITH todo <- pend

(* The library keeps its promise: the server data a device shows only      *)
(* moves forward through the values the server held, also over a           *)
(* reconnection; its own writes stay on top, in order, and one disappears  *)
(* only after the data it was decided on has arrived, so that no screen    *)
(* sees an accepted write vanish and come back (FSyncTree, FWriteTree,     *)
(* FPersistentConnection).                                                 *)
KeepsPromise == Promise!Spec

(* The bookkeeping behind it, device by device.  What the device has is in *)
(* the log ...                                                             *)
Placed(d) ==
    /\ known[d] => base[d] >= 1 /\ cache[d] = log[base[d]]
    /\ ~known[d] => base[d] = 0
    /\ base[d] <= Len(log)

Before(b, tr, i) == IF i = 1 THEN [at |-> b, nth |-> 0] ELSE tr[i - 1]

End(b, tr) == Before(b, tr, Len(tr) + 1)

(* ... every message on its way continues where the one before it ends:    *)
(* data with a value that is no older, an answer with nothing new, since   *)
(* its data went ahead of it ...                                           *)
Continues(lg, ft, box, b, tr, i) ==
    /\ box[i].t = "data" =>
           /\ tr[i].at \in 1..Len(lg) /\ tr[i].at >= Before(b, tr, i).at
           /\ box[i].val = lg[tr[i].at]
           /\ tr[i].nth = Before(b, tr, i).nth
    /\ box[i].t = "ack" =>
           /\ tr[i].at = Before(b, tr, i).at
           /\ tr[i].nth = Before(b, tr, i).nth + 1
           /\ tr[i].nth <= Len(ft) /\ ft[tr[i].nth] <= tr[i].at

Chain(lg, ft, box, b, tr) ==
    /\ Len(tr) = Len(box)
    /\ \A i \in 1..Len(box) : Continues(lg, ft, box, b, tr, i)
    /\ \A i, j \in 1..Len(box) : i <= j => tr[i].nth <= tr[j].nth
    /\ End(b, tr).nth = Len(ft)

(* ... and for a device that listens, the last one ends with all there is. *)
Tracked(d) ==
    /\ Placed(d)
    /\ Chain(log, fate[d], inbox[d], base[d], trail[d])
    /\ sub[d] = "on" => End(base[d], trail[d]).at = Len(log)
    /\ Len(fate[d]) = Answered(d)

HistoryOK ==
    /\ log # << >> /\ server = log[Len(log)]
    /\ \A d \in Devices : Tracked(d)

HTypeOK ==
    /\ log \in Seq(Tree)
    /\ base \in [Devices -> Nat]
    /\ fate \in [Devices -> Seq(Nat)]
    /\ trail \in [Devices -> Seq(Stamp)]
=============================================================================
