----------------------------- MODULE MC_Scanner -----------------------------
(* Instances of Scanner for TLC.                                           *)
EXTENDS Scanner, TLC

CONSTANTS s1, s2, id1, id2, v1, v2, o1, o2, t1, t2

\* Two processes with ids of their own, and two containers with one id.
OwnIds    == s1 :> id1 @@ s2 :> id2
SharedIds == s1 :> id1 @@ s2 :> id1
OnlyId    == s1 :> id1
NoIds     == [s \in {} |-> id1]

\* Two transfers to one order, one transfer.
OneOrder  == t1 :> o1 @@ t2 :> o1
OnePays   == t1 :> o1

\* The order needs both transfers; one of them is enough.
Ones      == [t \in Transfers |-> 1]
NeedsAll  == [o \in Orders |-> 2]
NeedsOne  == [o \in Orders |-> 1]

SymmetricTransfers == Permutations(Transfers)

\* Scanners that share a worker id are interchangeable.
SymmetricScannersAndTransfers == Permutations(Scanners) \cup Permutations(Transfers)
=============================================================================
