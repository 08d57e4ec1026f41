------------------------------ MODULE Custody ------------------------------
(* What the collection pipeline promises of the money it moves, without     *)
(* workers, nonces, transactions and leases: a collection is opened, its     *)
(* transfer arrives once at most, and it is confirmed only when the arrival   *)
(* can no longer be undone. Collector implements it while the leases hold;    *)
(* see CollectorRefinement.                                                 *)
CONSTANTS
    Collections,    \* the collections
    Transfers,      \* the transactions that may carry one out
    Child           \* Child[c]: the account collection c empties

VARIABLES
    state,      \* what the service says of a collection
    moved,      \* the transfers of a collection that are on the chain
    final       \* the collections whose transfer is there for good

custodyVars == <<state, moved, final>>

Init ==
    /\ state = [c \in Collections |-> "none"]
    /\ moved = [c \in Collections |-> {}]
    /\ final = {}

Alone(c) == \A d \in Collections \ {c} : Child[d] = Child[c] => state[d] # "open"

\* A collection is asked for, or a failed one is taken up again; at most one
\* of a child account is open.
Open(c) ==
    /\ state[c] \in {"none", "failed"} /\ Alone(c)
    /\ state' = [state EXCEPT ![c] = "open"]
    /\ UNCHANGED <<moved, final>>

\* The transfer arrives: the first one, and no other.
Arrive(c, t) ==
    /\ state[c] # "none" /\ moved[c] = {}
    /\ moved' = [moved EXCEPT ![c] = {t}]
    /\ UNCHANGED <<state, final>>

\* A reorganisation takes it back, or it is there for good.
TakenBack(c) ==
    /\ moved[c] # {} /\ c \notin final
    /\ moved' = [moved EXCEPT ![c] = {}]
    /\ UNCHANGED <<state, final>>

Finalize(c) ==
    /\ moved[c] # {} /\ c \notin final
    /\ final' = final \cup {c}
    /\ UNCHANGED <<state, moved>>

Confirm(c) ==
    /\ state[c] = "open" /\ c \in final
    /\ state' = [state EXCEPT ![c] = "confirmed"]
    /\ UNCHANGED <<moved, final>>

\* The transfer is given up, by what was last seen of it.
Fail(c) ==
    /\ state[c] = "open"
    /\ state' = [state EXCEPT ![c] = "failed"]
    /\ UNCHANGED <<moved, final>>

Next ==
    \E c \in Collections :
        \/ Open(c) \/ TakenBack(c) \/ Finalize(c) \/ Confirm(c) \/ Fail(c)
        \/ \E t \in Transfers : Arrive(c, t)

Spec == Init /\ [][Next]_custodyVars
=============================================================================
