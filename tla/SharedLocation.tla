--------------------------- MODULE SharedLocation ---------------------------
(***************************************************************************)
(* What the database library promises the screens built on it: one         *)
(* history of values, which every device learns in order, and own writes   *)
(* that are laid over what was learned until their effect has been         *)
(* learned, or their refusal.  There are no messages, listens or caches    *)
(* here.                                                                   *)
(***************************************************************************)
EXTENDS Naturals, Sequences

CONSTANTS Devices, Keys, Vals, Nil

VARIABLES
    log,        \* the values the location has had, the current one last
    base,       \* base[d]: how much of the log d has learned, 0 if nothing
    todo,       \* todo[d]: the writes d has made that are not settled
    fate        \* fate[d]: for the oldest of them, decided already though d
                \* does not know, how long the log was then

vars == <<log, base, todo, fate>>

Value == [Keys -> Vals \cup {Nil}]

Write == UNION {[K -> Vals \cup {Nil}] : K \in SUBSET Keys}

Current == log[Len(log)]

After(v, w) == [k \in Keys |-> IF k \in DOMAIN w THEN w[k] ELSE v[k]]

Init ==
    /\ log = <<[k \in Keys |-> Nil]>>
    /\ base = [d \in Devices |-> 0]
    /\ todo = [d \in Devices |-> << >>]
    /\ fate = [d \in Devices |-> << >>]

\* a device writes
Make(d) ==
    /\ \E w \in Write : todo' = [todo EXCEPT ![d] = Append(@, w)]
    /\ UNCHANGED <<log, base, fate>>

\* a device learns a value, never an older one than before
Learn(d) ==
    /\ \E n \in 1..Len(log) : n >= base[d] /\ base' = [base EXCEPT ![d] = n]
    /\ UNCHANGED <<log, todo, fate>>

Undecided(d) == Len(fate[d]) < Len(todo[d])

\* a device's writes are decided in the order it made them
Accept(d) ==
    /\ Undecided(d)
    /\ LET v == After(Current, todo[d][Len(fate[d]) + 1])
       IN  log' = IF v = Current THEN log ELSE Append(log, v)
    /\ fate' = [fate EXCEPT ![d] = Append(@, Len(log'))]
    /\ UNCHANGED <<base, todo>>

Refuse(d) ==
    /\ Undecided(d)
    /\ fate' = [fate EXCEPT ![d] = Append(@, Len(log))]
    /\ UNCHANGED <<log, base, todo>>

\* a write stops covering the log only when the device has learned as much of
\* the log as there was when the write was decided
Settle(d) ==
    /\ fate[d] # << >>
    /\ Head(fate[d]) <= base[d]
    /\ todo' = [todo EXCEPT ![d] = Tail(@)]
    /\ fate' = [fate EXCEPT ![d] = Tail(@)]
    /\ UNCHANGED <<log, base>>

\* decisions the device does not know of are lost: all is decided anew
Lose(d) ==
    /\ fate' = [fate EXCEPT ![d] = << >>]
    /\ UNCHANGED <<log, base, todo>>

\* a device starts anew
Forget(d) ==
    /\ base' = [base EXCEPT ![d] = 0]
    /\ todo' = [todo EXCEPT ![d] = << >>]
    /\ fate' = [fate EXCEPT ![d] = << >>]
    /\ UNCHANGED log

Next == \E d \in Devices :
    Make(d) \/ Learn(d) \/ Accept(d) \/ Refuse(d) \/ Settle(d) \/ Lose(d) \/ Forget(d)

Spec == Init /\ [][Next]_vars
=============================================================================
