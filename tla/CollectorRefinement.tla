------------------------ MODULE CollectorRefinement ------------------------
(* Collector implements Custody.                                           *)
EXTENDS Collector

\* Between the first reservation and the last receipt a collection is open.
StateOf(c) == IF cStatus[c] \in ActiveCollection THEN "open" ELSE cStatus[c]

\* The transactions that moved its tokens, and whether they did so for good.
MovedBy(c) == {t \in TxIds : oFor[t] = c /\ chain[t] \in {"ok", "ok_final"}}
IsFinal(c) == \E t \in TxIds : oFor[t] = c /\ chain[t] = "ok_final"

Promise == INSTANCE Custody WITH
    Transfers <- TxIds,
    state <- [c \in Collections |-> StateOf(c)],
    moved <- [c \in Collections |-> MovedBy(c)],
    final <- {c \in Collections : IsFinal(c)}

\* Whatever workers, nodes and chain do, what becomes of the collections and of
\* their tokens is a behaviour of Custody: no second transfer, no confirmation
\* without one that is final, no second open collection of a child account, and
\* no way from confirmed to anything else. The leases have to hold: a worker
\* does not outlive its own.
ImplementsCustody == Promise!Spec
=============================================================================
