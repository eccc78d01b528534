--------------------------- MODULE DatabaseClient ---------------------------
(***************************************************************************)
(* The database library under any app: callbacks are registered and writes *)
(* made at any moment, the server accepts or refuses them, connections and *)
(* processes break.  Callbacks only remember what they were shown, so that *)
(* the properties can say what a screen built on the library may rely on.  *)
(***************************************************************************)
EXTENDS RealtimeDB

CONSTANTS MaxListeners, MaxWrites, MaxRefusals, MaxDrops, MaxKills

ASSUME BudgetAssumption ==
    {MaxListeners, MaxWrites, MaxRefusals, MaxDrops, MaxKills} \subseteq Nat

VARIABLES
    seen,       \* seen[d][l]: the value the callback l was last given
    budget      \* how often each of the bounded steps may still happen

vars == <<dbVars, seen, budget>>

Budgets == [writes : Nat, refusals : Nat, drops : Nat, kills : Nat]

Spend(b) == budget[b] > 0 /\ budget' = [budget EXCEPT ![b] = @ - 1]

Init ==
    /\ DBInit(NoTree)
    /\ seen = [d \in Devices |-> [l \in {} |-> NoTree]]
    /\ budget = [writes |-> MaxWrites, refusals |-> MaxRefusals,
                 drops |-> MaxDrops, kills |-> MaxKills]

Register(d) ==
    /\ Cardinality(listeners[d]) < MaxListeners
    /\ \E kind \in Kinds, a \in Places :
           /\ listeners[d] = {} => a = Root
           /\ Observe(d, kind, a, mainQ[d])
    /\ UNCHANGED <<seen, budget>>

\* every screen that writes to a location listens to it first
Change(d) ==
    /\ sub[d] # "off"
    /\ Spend("writes")
    /\ \E w \in Write : DOMAIN w # {} /\ Put(d, w, mainQ[d])
    /\ UNCHANGED seen

Callback(d) ==
    /\ mainQ[d] # << >>
    /\ \E l \in Head(mainQ[d]).to :
           /\ mainQ' = [mainQ EXCEPT ![d] = Popped(d, l)]
           /\ seen' = [seen EXCEPT ![d] =
                  Remember(@, l, At(Head(mainQ[d]).snap, l.at))]
    /\ UNCHANGED <<server, cache, known, pend, inbox, sub, listeners, budget>>

Receive(d) == (OnDataUpdate(d) \/ AckWrite(d)) /\ UNCHANGED <<seen, budget>>

Listening(d) == ServerListen(d) /\ UNCHANGED <<seen, budget>>

Accept(d) == ServerAccept(d) /\ UNCHANGED <<seen, budget>>

Refuse(d) == Spend("refusals") /\ ServerRefuse(d) /\ UNCHANGED seen

Reconnect(d) == Spend("drops") /\ RestoreState(d) /\ UNCHANGED seen

Kill(d) ==
    /\ Spend("kills")
    /\ Terminate(d)
    /\ seen' = [seen EXCEPT ![d] = [l \in {} |-> NoTree]]

Next == \E d \in Devices :
    \/ Register(d) \/ Change(d) \/ Callback(d) \/ Receive(d)
    \/ Listening(d) \/ Accept(d) \/ Refuse(d) \/ Reconnect(d) \/ Kill(d)

(* The main queue and the library's queue run their blocks; a connection   *)
(* that is up carries requests and answers.                                *)
Fairness == \A d \in Devices :
    WF_vars(Callback(d)) /\ WF_vars(Receive(d)) /\ WF_vars(Listening(d)) /\ WF_vars(Accept(d))

Spec == Init /\ [][Next]_vars

FairSpec == Spec /\ Fairness

-----------------------------------------------------------------------------
TypeOK ==
    /\ DBTypeOK
    /\ budget \in Budgets
    /\ seen = [d \in Devices |-> seen[d]]

(* No lost update: whatever order writes, refusals, server data, lost      *)
(* connections and callbacks come in, a callback whose place is complete   *)
(* is or will be shown the current view of it, never an older one last     *)
(* (raiseEvents after every applyUserOverwrite, applyServerOverwrite and   *)
(* ackUserWrite; addEventRegistration's initial event).                    *)
Delivered ==
    \A d \in Devices :
        UpToDate(listeners[d], known[d], cache[d], pend[d], mainQ[d], seen[d])

(* A device whose link is idle and whose writes are all acknowledged sees  *)
(* exactly the server's value: refused writes leave no trace, accepted     *)
(* ones are not lost, also over a reconnection (ackUserWrite, restoreState).*)
IdleAgrees ==
    \A d \in Devices :
        sub[d] = "on" /\ inbox[d] = << >> /\ pend[d] = << >> => View(d) = server

(* An answer is processed only after a value of the location was: the      *)
(* branch of ackUserWriteOn that calls itself a "goofy edge case where we  *)
(* are acking data at this location but don't have full data" is not taken *)
(* (FViewProcessor), also when the connection broke in between.  AckWrite  *)
(* relies on it.                                                           *)
AckFindsData ==
    \A d \in Devices : inbox[d] # << >> /\ Head(inbox[d]).t = "ack" => known[d]

(* Writes, refusals and failures being finite, every callback ends up      *)
(* having been shown the server's final value.                             *)
Convergence ==
    <>[](\A d \in Devices : \A l \in listeners[d] :
            l \in DOMAIN seen[d] /\ seen[d][l] = At(server, l.at))
=============================================================================
