------------------------- MODULE RpcManagerProofs -------------------------
(* Theorems about RpcManager, for any number of providers, any quorum, any  *)
(* chain and any set of unreliable or misconfigured providers.              *)
EXTENDS RpcManager, SequenceTheorems, FiniteSetTheorems, WellFoundedInduction, TLAPS

-----------------------------------------------------------------------------
(* Least numbers and ranks.                                                 *)

LEMMA ProvidersFinite == IsFiniteSet(Providers) /\ Cardinality(Providers) = N
  <1>1. N \in Nat /\ N \in Int /\ 1 \in Int
    BY NAssumption
  <1>2. IsFiniteSet(1..N) /\ Cardinality(1..N) = IF 1 > N THEN 0 ELSE N - 1 + 1
    BY <1>1, FS_Interval
  <1> QED
    BY <1>1, <1>2 DEF Providers

LEMMA LeastNumber ==
  ASSUME NEW T, T \subseteq Nat, T # {}
  PROVE  \E x \in T : \A y \in T : x <= y
  <1>1. PICK x \in T : \A y \in T : ~ (<<y, x>> \in OpToRel(<, Nat))
    BY NatLessThanWellFounded, WFMin
  <1>2. \A y \in T : ~ (y < x)
    BY <1>1 DEF OpToRel
  <1> QED
    BY <1>2

\* The elements of S up to p.
UpTo(S, p) == {q \in S : q <= p}

\* The rank of p in S grows by one at the elements of S and nowhere else.
LEMMA RankGrows ==
  ASSUME NEW S \in SUBSET Providers, NEW p \in Nat
  PROVE  /\ IsFiniteSet(UpTo(S, p)) /\ Cardinality(UpTo(S, p)) \in Nat
         /\ p # 0 => Cardinality(UpTo(S, p)) =
                        Cardinality(UpTo(S, p - 1)) + (IF p \in S THEN 1 ELSE 0)
  <1>1. S \subseteq Nat
    BY NAssumption DEF Providers
  <1>2. ASSUME NEW n \in Int PROVE IsFiniteSet(UpTo(S, n)) /\ Cardinality(UpTo(S, n)) \in Nat
    <2>1. UpTo(S, n) \in SUBSET (1..N)
      BY DEF UpTo, Providers
    <2>2. IsFiniteSet(1..N)
      BY NAssumption, FS_Interval
    <2> QED
      BY <2>1, <2>2, FS_Subset, FS_CardinalityType
  <1>3. ASSUME p # 0, p \in S
        PROVE  Cardinality(UpTo(S, p)) = Cardinality(UpTo(S, p - 1)) + 1
    <2>0. \A q \in S : (q <= p <=> q <= p - 1 \/ q = p) /\ ~ (p <= p - 1)
      BY <1>1
    <2>1. UpTo(S, p) = UpTo(S, p - 1) \cup {p} /\ p \notin UpTo(S, p - 1)
      BY <1>3, <2>0, Zenon DEF UpTo
    <2>2. IsFiniteSet(UpTo(S, p - 1))
      BY <1>2
    <2> QED
      BY <2>1, <2>2, FS_AddElement
  <1>4. ASSUME p # 0, p \notin S
        PROVE  Cardinality(UpTo(S, p)) = Cardinality(UpTo(S, p - 1))
    <2>0. \A q \in S : q <= p <=> q <= p - 1
      BY <1>1, <1>4
    <2>1. UpTo(S, p) = UpTo(S, p - 1)
      BY <2>0, Zenon DEF UpTo
    <2> QED
      BY <2>1
  <1>5. Cardinality(UpTo(S, p)) \in Nat /\ Cardinality(UpTo(S, p - 1)) \in Nat
    BY <1>2
  <1> QED
    BY <1>2, <1>3, <1>4, <1>5

\* Every rank up to the size of S is the rank of an element, which Nth finds.
LEMMA NthRank ==
  ASSUME NEW S \in SUBSET Providers, NEW i \in 1..Cardinality(S)
  PROVE  Nth(S, i) \in S /\ Cardinality(UpTo(S, Nth(S, i))) = i
  <1> DEFINE T == {p \in Nat : Cardinality(UpTo(S, p)) >= i}
  <1>0. S \subseteq Nat /\ N \in Nat
    BY NAssumption DEF Providers
  <1>1. UpTo(S, N) = S
    <2>1. \A q \in S : q <= N
      BY NAssumption DEF Providers
    <2> QED
      BY <2>1, Zenon DEF UpTo
  <1>2. Cardinality(S) \in Nat /\ i \in Nat \ {0} /\ i <= Cardinality(S)
    BY <1>0, <1>1, RankGrows
  <1>3. N \in T
    BY <1>0, <1>1, <1>2
  <1>4. PICK p \in T : \A y \in T : p <= y
    BY <1>3, LeastNumber
  <1>5. p # 0
    <2>0. \A q \in S : ~ (q <= 0)
      BY NAssumption DEF Providers
    <2>1. UpTo(S, 0) = {}
      BY <2>0, Zenon DEF UpTo
    <2>2. Cardinality(UpTo(S, 0)) = 0
      BY <2>1, FS_EmptySet
    <2> QED
      BY <1>2, <1>4, <2>2
  <1>6. p - 1 \in Nat /\ p - 1 \notin T
    BY <1>4, <1>5
  <1>7. Cardinality(UpTo(S, p - 1)) \in Nat /\ Cardinality(UpTo(S, p)) \in Nat
    BY <1>6, RankGrows
  <1>8. Cardinality(UpTo(S, p - 1)) < i /\ Cardinality(UpTo(S, p)) >= i
    BY <1>2, <1>4, <1>6, <1>7
  <1>9. Cardinality(UpTo(S, p)) = Cardinality(UpTo(S, p - 1)) + (IF p \in S THEN 1 ELSE 0)
    BY <1>5, RankGrows
  <1>10. p \in S /\ Cardinality(UpTo(S, p)) = i
    BY <1>2, <1>7, <1>8, <1>9
  <1>11. \E q \in S : Cardinality({r \in S : r <= q}) = i
    BY <1>10 DEF UpTo
  <1> QED
    BY <1>11 DEF Nth, UpTo

\* The candidates of a request are providers, at least one, each of them once.
LEMMA CandidatesOnce ==
  ASSUME counter \in Nat, NEW cool
  PROVE  /\ provider_candidates(cool) \in Seq(Providers)
         /\ Len(provider_candidates(cool)) > 0
         /\ \A i, j \in 1..Len(provider_candidates(cool)) :
              provider_candidates(cool)[i] = provider_candidates(cool)[j] => i = j
  <1> DEFINE pool == Pool(cool)
             size == Cardinality(pool)
             start == counter % size
             at(i) == ((start + i - 1) % size) + 1
  <1>1. pool \in SUBSET Providers /\ pool # {}
    BY NAssumption DEF Pool, Providers
  <1>2. IsFiniteSet(pool)
    BY <1>1, ProvidersFinite, FS_Subset
  <1>3. size \in Nat \ {0}
    BY <1>1, <1>2, FS_CardinalityType, FS_EmptySet
  <1>4. provider_candidates(cool) = [i \in 1..size |-> Nth(pool, at(i))]
    BY DEF provider_candidates
  <1>5. \A i \in 1..size : at(i) \in 1..size => /\ Nth(pool, at(i)) \in pool
                                               /\ Cardinality(UpTo(pool, Nth(pool, at(i)))) = at(i)
    BY <1>1, NthRank
  <1> HIDE DEF pool, size
  <1>6. start \in 0..(size - 1)
    BY <1>3
  <1>7. \A i \in 1..size : at(i) = IF start + i - 1 < size THEN start + i
                                   ELSE start + i - size
    <2> HIDE DEF start
    <2> TAKE i \in 1..size
    <2>1. CASE start + i - 1 < size
      BY <1>3, <1>6, <2>1
    <2>2. CASE start + i - 1 >= size
      <3>1. start + i - 1 = size + (start + i - 1 - size) /\ start + i - 1 - size \in 0..(size - 1)
        BY <1>3, <1>6, <2>2
      <3>2. (start + i - 1) % size = start + i - 1 - size
        BY <1>3, <1>6, <2>2, <3>1
      <3> QED
        BY <1>3, <1>6, <2>2, <3>2
    <2> QED
      BY <1>3, <1>6, <2>1, <2>2
  <1> HIDE DEF start, at
  <1>8. \A i \in 1..size : at(i) \in 1..size
    BY <1>3, <1>6, <1>7
  <1>9. \A i, j \in 1..size : at(i) = at(j) => i = j
    BY <1>3, <1>6, <1>7
  <1>10. \A i \in 1..size : Nth(pool, at(i)) \in Providers
    BY <1>1, <1>5, <1>8
  <1>11. \A i, j \in 1..size : Nth(pool, at(i)) = Nth(pool, at(j)) => i = j
    BY <1>5, <1>8, <1>9
  <1>12. [i \in 1..size |-> Nth(pool, at(i))] \in Seq(Providers)
    BY <1>3, <1>10, IsASeq
  <1>13. Len([i \in 1..size |-> Nth(pool, at(i))]) = size
    BY <1>3, <1>12
  <1> QED
    BY <1>3, <1>4, <1>11, <1>12, <1>13

-----------------------------------------------------------------------------
(* Blocks reported by different providers.                                  *)

Reports == [from : Providers, number : Nat, hash : {"main", "other"}]

\* No provider has reported two of the blocks.
Different(blocks) ==
    \A i, j \in 1..Len(blocks) : blocks[i].from = blocks[j].from => i = j

\* select_conservative_head returns one of the blocks, and none is lower.
LEMMA ConservativeHead ==
  ASSUME NEW blocks \in Seq(Reports), blocks # <<>>
  PROVE  \E i \in 1..Len(blocks) :
            /\ select_conservative_head(blocks) = blocks[i]
            /\ \A j \in 1..Len(blocks) : blocks[i].number <= blocks[j].number
  <1> DEFINE D == 1..Len(blocks)
             numbers == {blocks[i].number : i \in D}
             Least(i) == /\ \A j \in D : blocks[i].number <= blocks[j].number
                         /\ \A j \in 1..(i - 1) : blocks[i].number < blocks[j].number
  <1>0. /\ Len(blocks) \in Nat \ {0}
        /\ \A i \in D : blocks[i] \in Reports
    BY EmptySeq
  <1>1. Len(blocks) \in Nat \ {0} /\ \A i \in D : blocks[i].number \in Nat
    BY <1>0 DEF Reports
  <1>2. PICK n \in numbers : \A m \in numbers : n <= m
    <2>1. numbers \subseteq Nat /\ numbers # {}
      BY <1>1
    <2> QED
      BY <2>1, LeastNumber
  <1> DEFINE lowest == {i \in D : blocks[i].number = n}
  <1>3. PICK k \in lowest : \A i \in lowest : k <= i
    <2>1. lowest \subseteq Nat /\ lowest # {}
      BY <1>1, <1>2
    <2> QED
      BY <2>1, LeastNumber
  <1>4. k \in D /\ \A j \in D : blocks[k].number <= blocks[j].number
    BY <1>2, <1>3
  <1>5. \A j \in 1..(k - 1) : blocks[k].number < blocks[j].number
    <2> TAKE j \in 1..(k - 1)
    <2>1. j \in D /\ j \notin lowest
      BY <1>1, <1>3, <1>4
    <2>2. blocks[k].number <= blocks[j].number /\ blocks[k].number # blocks[j].number
      BY <1>3, <1>4, <2>1
    <2> QED
      BY <1>1, <1>4, <2>1, <2>2
  <1>6. \E i \in D : Least(i)
    BY <1>4, <1>5
  <1> DEFINE c == CHOOSE i \in D : Least(i)
  <1>7. c \in D /\ Least(c)
    BY <1>6
  <1>8. select_conservative_head(blocks) = blocks[c]
    BY DEF select_conservative_head
  <1> QED
    BY <1>7, <1>8

\* Blocks of different providers of S are no more than S; when they are as
\* many, every provider of S reported one.
LEMMA DifferentAreFew ==
  ASSUME NEW blocks \in Seq(Reports), Different(blocks),
         NEW S \in SUBSET Providers, \A i \in 1..Len(blocks) : blocks[i].from \in S
  PROVE  /\ Len(blocks) \in Nat /\ Cardinality(S) \in Nat
         /\ Len(blocks) <= Cardinality(S)
         /\ Len(blocks) = Cardinality(S) => \A p \in S : \E i \in 1..Len(blocks) : blocks[i].from = p
  <1> DEFINE D == 1..Len(blocks)
             f == [i \in D |-> blocks[i].from]
  <1>0. IsFiniteSet(Providers)
    BY ProvidersFinite
  <1>1. IsFiniteSet(S) /\ Cardinality(S) \in Nat
    BY <1>0, FS_Subset, FS_CardinalityType
  <1>2. Len(blocks) \in Nat
    OBVIOUS
  <1>3. Cardinality(D) = Len(blocks)
    BY <1>2, FS_Interval
  <1>4. f \in [D -> S] /\ \A i, j \in D : f[i] = f[j] => i = j
    BY DEF Different
  <1>5. f \in Injection(D, S)
    BY <1>4 DEF Injection, IsInjective
  <1>6. /\ Cardinality(D) <= Cardinality(S)
        /\ Cardinality(D) = Cardinality(S) => f \in Surjection(D, S)
    BY <1>1, <1>5, FS_Injection
  <1>7. f \in Surjection(D, S) => \A p \in S : \E i \in D : blocks[i].from = p
    BY DEF Surjection
  <1> QED
    BY <1>1, <1>2, <1>3, <1>6, <1>7

-----------------------------------------------------------------------------
(* The inductive invariant.  Both properties count providers, so what has   *)
(* to be known is that a request never asks the same provider twice, and    *)
(* what its answers say while the providers move on.                        *)

CallFields == {"op", "todo", "blocks", "nosafe", "valid", "vouched", "log"}

\* What the two tasks share, and the caller's part of it.
Shapes ==
    /\ view \in [Providers -> Nat]
    /\ other \subseteq Misconfigured
    /\ counter \in Nat
    /\ cursor \in Nat
    /\ DOMAIN call = Clients
    /\ \A c \in Clients : DOMAIN call[c] = CallFields
    /\ call[Caller].op \in {"idle", "chain_id", "latest", "finalized", "safe", "send"}
    /\ call[Scanner].op \in {"idle", "head", "logs", "header"}

\* The candidates left are different providers.
TodoOnce(todo) ==
    /\ todo \in Seq(Providers) /\ Len(todo) > 0
    /\ \A i, j \in 1..Len(todo) : todo[i] = todo[j] => i = j

\* The blocks collected come from different providers, none of them left.
BlocksOnce(todo, blocks) ==
    /\ blocks \in Seq(Reports)
    /\ Different(blocks)
    /\ \A i \in 1..Len(blocks), j \in 1..Len(todo) : blocks[i].from # todo[j]

\* A head is no further than its provider, which never goes back.
HeadsReached(blocks) == \A i \in 1..Len(blocks) : blocks[i].number <= view[blocks[i].from]

\* A header is the one asked for, with the hash its provider's chain has.
HeadersTrue(blocks) ==
    \A i \in 1..Len(blocks) :
        blocks[i].number = cursor + 1 /\ blocks[i].hash = HashOf(blocks[i].from)

\* With every provider asked, a head of the quorum has all of them behind it.
Reached(vouched) ==
    (N = MinProviderCount /\ ~ (vouched < MinProviderCount)) =>
        \A p \in Providers : view[p] >= cursor + 1

\* The request of the scanner.
Request(r) ==
    /\ r.op # "idle" => TodoOnce(r.todo)
    /\ r.op \in {"head", "header"} => BlocksOnce(r.todo, r.blocks)
    /\ r.op = "head" => HeadsReached(r.blocks)
    /\ r.op = "header" => HeadersTrue(r.blocks)
    /\ r.op = "logs" => Reached(r.vouched)

Taken(outcome, h) ==
    /\ outcome.log = "other" => outcome.short
    /\ (N = MinProviderCount /\ other = {} /\ h \in LogBlocks /\ outcome.log = "none") =>
          outcome.short

RpcInv ==
    /\ Shapes
    /\ Request(call[Scanner])
    /\ accepted \in Seq(Outcomes) /\ Len(accepted) = cursor
    /\ \A h \in 1..cursor : Taken(accepted[h], h)

-----------------------------------------------------------------------------
LEMMA InitRpc == Init => RpcInv
  <1> SUFFICES ASSUME Init PROVE RpcInv
    OBVIOUS
  <1>1. Shapes
    <2>1. view \in [Providers -> Nat] /\ other \subseteq Misconfigured
      BY DEF Init
    <2> QED
      BY <2>1 DEF Init, Shapes, Idle, CallFields, Clients, Scanner, Caller
  <1>2. call[Scanner].op = "idle"
    BY DEF Init, Idle, Clients
  <1>3. Request(call[Scanner])
    BY <1>2 DEF Request
  <1>4. accepted \in Seq(Outcomes) /\ Len(accepted) = cursor
    BY EmptySeq DEF Init
  <1>5. \A h \in 1..cursor : Taken(accepted[h], h)
    BY DEF Init
  <1> QED
    BY <1>1, <1>3, <1>4, <1>5 DEF RpcInv

-----------------------------------------------------------------------------
(* Steps that leave the scanner's request alone: the caller's, and those of *)
(* the providers and the clock.                                             *)

\* No provider goes back, and the chains stay what they are.
OnWards == /\ view' \in [Providers -> Nat]
           /\ \A p \in Providers : view[p] <= view'[p]
           /\ other' = other

LEMMA RequestKeeps ==
  ASSUME Shapes, OnWards, cursor' = cursor, NEW r, Request(r),
         r.op \in {"head", "header"} => r.blocks \in Seq(Reports)
  PROVE  Request(r)'
  <1>1. \A p \in Providers : view[p] \in Nat /\ view'[p] \in Nat /\ view[p] <= view'[p]
    BY DEF Shapes, OnWards
  <1>2. cursor \in Nat /\ cursor' = cursor /\ other' = other
    BY DEF Shapes, OnWards
  <1>3. r.op \in {"head", "header"} =>
          \A i \in 1..Len(r.blocks) : r.blocks[i].from \in Providers /\ r.blocks[i].number \in Nat
    <2>1. r.op \in {"head", "header"} => \A i \in 1..Len(r.blocks) : r.blocks[i] \in Reports
      OBVIOUS
    <2> QED
      BY <2>1 DEF Reports
  <1>4. r.op = "head" => HeadsReached(r.blocks)'
    BY <1>1, <1>3 DEF Request, HeadsReached
  <1>5. r.op = "header" => HeadersTrue(r.blocks)'
    BY <1>2 DEF Request, HeadersTrue, HashOf
  <1>6. r.op = "logs" => Reached(r.vouched)'
    BY <1>1, <1>2 DEF Request, Reached
  <1>7. r.op # "idle" => TodoOnce(r.todo)'
    BY DEF Request, TodoOnce
  <1>8. r.op \in {"head", "header"} => BlocksOnce(r.todo, r.blocks)'
    BY DEF Request, BlocksOnce, Different
  <1> QED
    BY <1>4, <1>5, <1>6, <1>7, <1>8 DEF Request

LEMMA AsideKeeps ==
  ASSUME RpcInv, Shapes', OnWards, call'[Scanner] = call[Scanner],
         UNCHANGED <<cursor, accepted>>
  PROVE  RpcInv'
  <1>1. Shapes /\ Request(call[Scanner]) /\ other' = other
    BY DEF RpcInv, OnWards
  <1>2. PICK r : r = call[Scanner]
    OBVIOUS
  <1>3. Request(r) /\ (r.op \in {"head", "header"} => r.blocks \in Seq(Reports))
    BY <1>1, <1>2 DEF Request, BlocksOnce
  <1>4. Request(r)'
    BY <1>1, <1>3, RequestKeeps
  <1>5. Request(call[Scanner])'
    BY <1>2, <1>4
  <1> QED
    BY <1>1, <1>5 DEF RpcInv, Taken

-----------------------------------------------------------------------------
(* What the parts of a client's step do to its request.                     *)

\* Only c's request changes; it asks for op now.
Moved(c, op) ==
    /\ DOMAIN call' = Clients
    /\ DOMAIN call'[c] = CallFields
    /\ \A d \in Clients \ {c} : call'[d] = call[d]
    /\ call'[c].op = op
    /\ counter' \in Nat

LEMMA IdleFields == DOMAIN Idle = CallFields /\ Idle.op = "idle"
  BY DEF Idle, CallFields

LEMMA AskMoves ==
  ASSUME Shapes, NEW c \in Clients, NEW request, DOMAIN request = CallFields, Ask(c, request)
  PROVE  /\ Moved(c, request.op)
         /\ call'[c].todo = provider_candidates(cooldown')
         /\ \A f \in CallFields \ {"todo"} : call'[c][f] = request[f]
  <1>1. DOMAIN call = Clients /\ counter \in Nat
    BY DEF Shapes
  <1>2. counter' \in Nat
    BY <1>1, WheelAssumption DEF Ask
  <1> DEFINE todo == provider_candidates(cooldown')
  <1>3. call' = [call EXCEPT ![c] = [request EXCEPT !.todo = todo]]
    BY DEF Ask
  <1> HIDE DEF todo
  <1>4. call'[c] = [request EXCEPT !.todo = todo]
        /\ DOMAIN call' = Clients /\ \A d \in Clients \ {c} : call'[d] = call[d]
    BY <1>1, <1>3
  <1>5. /\ DOMAIN call'[c] = CallFields /\ call'[c].todo = todo
        /\ \A f \in CallFields \ {"todo"} : call'[c][f] = request[f]
    BY <1>4 DEF CallFields
  <1>6. call'[c].op = request.op
    BY <1>5 DEF CallFields
  <1> QED
    BY <1>2, <1>4, <1>5, <1>6 DEF Moved, todo

LEMMA StopMoves ==
  ASSUME Shapes, NEW c \in Clients, Stop(c)
  PROVE  Moved(c, "idle")
  BY IdleFields DEF Shapes, Stop, Moved

LEMMA NextMoves ==
  ASSUME Shapes, NEW c \in Clients, NEW blocks, NEW nosafe, TryNext(c, blocks, nosafe)
  PROVE  /\ Moved(c, call[c].op)
         /\ call'[c].todo = Tail(call[c].todo)
         /\ call'[c].blocks = blocks
         /\ call'[c].vouched = call[c].vouched
         /\ UNCHANGED <<cursor, accepted>>
  BY DEF Shapes, TryNext, Moved, CallFields

\* A request for op with nothing but a few fields set.
LEMMA Requests ==
  /\ \A op : /\ DOMAIN [Idle EXCEPT !.op = op] = CallFields
             /\ [Idle EXCEPT !.op = op].op = op
             /\ [Idle EXCEPT !.op = op].blocks = <<>>
  /\ \A op, n : /\ DOMAIN [Idle EXCEPT !.op = op, !.vouched = n] = CallFields
                /\ [Idle EXCEPT !.op = op, !.vouched = n].op = op
                /\ [Idle EXCEPT !.op = op, !.vouched = n].vouched = n
  /\ \A op, h : /\ DOMAIN [Idle EXCEPT !.op = op, !.log = h] = CallFields
                /\ [Idle EXCEPT !.op = op, !.log = h].op = op
                /\ [Idle EXCEPT !.op = op, !.log = h].blocks = <<>>
  BY DEF Idle, CallFields

-----------------------------------------------------------------------------
(* The caller's steps.                                                      *)

CallerOps == {"idle", "chain_id", "latest", "finalized", "safe", "send"}

LEMMA CallerKeeps ==
  ASSUME RpcInv, NEW op \in CallerOps, Moved(Caller, op),
         UNCHANGED <<providerVars, cursor, accepted>>
  PROVE  RpcInv'
  <1>1. Shapes /\ Scanner # Caller /\ Clients = {Scanner, Caller}
    BY DEF RpcInv, Scanner, Caller, Clients
  <1>2. call'[Scanner] = call[Scanner]
    BY <1>1 DEF Moved
  <1>3. Shapes'
    BY <1>1, <1>2 DEF Shapes, Moved, providerVars, CallerOps
  <1>4. OnWards
    <2>1. \A p \in Providers : view[p] \in Nat
      BY <1>1 DEF Shapes
    <2> QED
      BY <1>1, <2>1 DEF OnWards, Shapes, providerVars
  <1> QED
    BY <1>2, <1>3, <1>4, AsideKeeps

LEMMA ProbeMoves ==
  ASSUME Shapes
  PROVE  /\ \A outcome : ProbeEnds(outcome) => Moved(Caller, "idle") /\ UNCHANGED <<cursor, accepted>>
         /\ \A op : ProbeAsks(op) => Moved(Caller, op) /\ UNCHANGED <<cursor, accepted>>
  <1>1. Caller \in Clients
    BY DEF Clients
  <1>2. ASSUME NEW op, ProbeAsks(op) PROVE Moved(Caller, op) /\ UNCHANGED <<cursor, accepted>>
    <2> DEFINE request == [Idle EXCEPT !.op = op]
    <2>1. Ask(Caller, request) /\ DOMAIN request = CallFields /\ request.op = op
      BY <1>2, Requests DEF ProbeAsks
    <2> HIDE DEF request
    <2>2. Moved(Caller, op)
      BY <1>1, <2>1, AskMoves
    <2> QED
      BY <1>2, <2>2 DEF ProbeAsks
  <1> QED
    BY <1>1, <1>2, StopMoves DEF ProbeEnds

LEMMA CallerLoop ==
  ASSUME Shapes, NEW op \in {"latest", "finalized", "safe"}, NEW blocks, NEW nosafe,
         LoopEnds(Caller, op, blocks, nosafe)
  PROVE  \E next \in CallerOps : Moved(Caller, next) /\ UNCHANGED <<cursor, accepted>>
  <1>1. Caller # Scanner
    BY DEF Caller, Scanner
  <1>2. \/ ProbeAsks("finalized") \/ ProbeAsks("safe")
        \/ \E outcome : ProbeEnds(outcome)
    BY <1>1 DEF LoopEnds, BlocksRead, BlocksFailed
  <1> QED
    BY <1>2, ProbeMoves DEF CallerOps

LEMMA CallerBlocks ==
  ASSUME RpcInv, request_blocks(Caller)
  PROVE  RpcInv'
  <1>0. Shapes /\ Caller \in Clients
    BY DEF RpcInv, Clients
  <1>1. call[Caller].op \in {"latest", "finalized", "safe"} /\ UNCHANGED providerVars
    BY <1>0 DEF request_blocks, Shapes, BlockOps
  <1>2. \E blocks, nosafe : \/ LoopEnds(Caller, call[Caller].op, blocks, nosafe)
                            \/ TryNext(Caller, blocks, nosafe)
    BY DEF request_blocks
  <1>3. \E next \in CallerOps : Moved(Caller, next) /\ UNCHANGED <<cursor, accepted>>
    BY <1>0, <1>1, <1>2, CallerLoop, NextMoves DEF CallerOps
  <1> QED
    BY <1>1, <1>3, CallerKeeps

LEMMA CallerFirst ==
  ASSUME RpcInv, request_first_success(Caller)
  PROVE  RpcInv'
  <1>0. Shapes /\ Caller \in Clients
    BY DEF RpcInv, Clients
  <1>1. call[Caller].op = "send" /\ UNCHANGED providerVars
    BY <1>0 DEF request_first_success, Shapes, FirstOps
  <1>2. Returns(Caller) \/ TryNext(Caller, <<>>, FALSE)
    BY <1>1 DEF request_first_success
  <1>3. \E next \in CallerOps : Moved(Caller, next) /\ UNCHANGED <<cursor, accepted>>
    BY <1>0, <1>1, <1>2, StopMoves, NextMoves DEF CallerOps, Returns
  <1> QED
    BY <1>1, <1>3, CallerKeeps

LEMMA CallerChains ==
  ASSUME RpcInv, validate_chain_ids
  PROVE  RpcInv'
  <1>0. Shapes /\ Caller \in Clients
    BY DEF RpcInv, Clients
  <1>1. call[Caller].op = "chain_id" /\ UNCHANGED providerVars
    BY DEF validate_chain_ids
  <1>2. \/ \E outcome : ProbeEnds(outcome)
        \/ ProbeAsks("latest")
        \/ \E rest, valid :
             /\ call' = [call EXCEPT ![Caller].todo = rest, ![Caller].valid = valid]
             /\ UNCHANGED <<counter, cursor, accepted, probe>>
    BY DEF validate_chain_ids
  <1>3. ASSUME NEW rest, NEW valid,
               call' = [call EXCEPT ![Caller].todo = rest, ![Caller].valid = valid],
               UNCHANGED <<counter, cursor, accepted, probe>>
        PROVE  Moved(Caller, "chain_id") /\ UNCHANGED <<cursor, accepted>>
    BY <1>0, <1>1, <1>3 DEF Shapes, Moved, CallFields
  <1>4. \E next \in CallerOps : Moved(Caller, next) /\ UNCHANGED <<cursor, accepted>>
    BY <1>0, <1>2, <1>3, ProbeMoves DEF CallerOps
  <1> QED
    BY <1>1, <1>4, CallerKeeps

LEMMA CallerBegins ==
  ASSUME RpcInv, readiness_probe \/ broadcast_signed_tx
  PROVE  RpcInv'
  <1>0. Shapes /\ Caller \in Clients
    BY DEF RpcInv, Clients
  <1>1. ASSUME readiness_probe
        PROVE  Moved(Caller, "chain_id") /\ UNCHANGED <<providerVars, cursor, accepted>>
    <2> DEFINE request == [Idle EXCEPT !.op = "chain_id", !.todo = [i \in 1..N |-> i]]
    <2>1. DOMAIN request = CallFields /\ request.op = "chain_id"
      BY DEF Idle, CallFields
    <2>2. call' = [call EXCEPT ![Caller] = request]
          /\ UNCHANGED <<providerVars, counter, cursor, accepted>>
      BY <1>1 DEF readiness_probe
    <2> HIDE DEF request
    <2> QED
      BY <1>0, <2>1, <2>2 DEF Shapes, Moved
  <1>2. ASSUME broadcast_signed_tx
        PROVE  Moved(Caller, "send") /\ UNCHANGED <<providerVars, cursor, accepted>>
    <2> DEFINE request == [Idle EXCEPT !.op = "send"]
    <2>1. Ask(Caller, request) /\ DOMAIN request = CallFields /\ request.op = "send"
      BY <1>2, Requests DEF broadcast_signed_tx, Begin
    <2> HIDE DEF request
    <2>2. Moved(Caller, "send")
      BY <1>0, <2>1, AskMoves
    <2> QED
      BY <1>2, <2>2 DEF broadcast_signed_tx, Begin
  <1> QED
    BY <1>1, <1>2, CallerKeeps DEF CallerOps

-----------------------------------------------------------------------------
(* The providers and the clock.                                             *)

LEMMA WorldKeeps ==
  ASSUME RpcInv, \/ \E p \in Providers : Import(p) \/ GoDown(p) \/ ComeBack(p)
                 \/ TimePasses \/ UNCHANGED vars
  PROVE  RpcInv'
  <1>0. Shapes
    BY DEF RpcInv
  <1>1. UNCHANGED <<other, counter, call, cursor, accepted>>
    BY DEF Import, GoDown, ComeBack, TimePasses, vars, providerVars
  <1>2. view' = view \/ \E p \in Providers : view' = [view EXCEPT ![p] = @ + 1]
    BY DEF Import, GoDown, ComeBack, TimePasses, vars, providerVars
  <1>3. OnWards
    <2>1. view \in [Providers -> Nat]
      BY <1>0 DEF Shapes
    <2>2. view' \in [Providers -> Nat] /\ \A p \in Providers : view[p] <= view'[p]
      BY <1>2, <2>1
    <2> QED
      BY <1>1, <2>2 DEF OnWards
  <1>4. Shapes'
    BY <1>0, <1>1, <1>3 DEF Shapes, OnWards
  <1> QED
    BY <1>1, <1>3, <1>4, AsideKeeps

-----------------------------------------------------------------------------
(* The scanner's steps.                                                     *)

ScannerOps == {"idle", "head", "logs", "header"}

LEMMA ScannerShapes ==
  ASSUME Shapes, NEW op \in ScannerOps, Moved(Scanner, op), UNCHANGED providerVars,
         cursor' \in Nat
  PROVE  Shapes'
  <1>1. Scanner # Caller /\ Clients = {Scanner, Caller}
    BY DEF Scanner, Caller, Clients
  <1>2. call'[Caller] = call[Caller]
    BY <1>1 DEF Moved
  <1> QED
    BY <1>1, <1>2 DEF Shapes, Moved, providerVars, ScannerOps

\* The scanner has a new request.
LEMMA ScannerKeeps ==
  ASSUME RpcInv, NEW op \in ScannerOps, Moved(Scanner, op),
         UNCHANGED <<providerVars, cursor, accepted>>, Request(call'[Scanner])
  PROVE  RpcInv'
  <1>1. Shapes /\ cursor \in Nat
    BY DEF RpcInv, Shapes
  <1>2. Shapes'
    BY <1>1, ScannerShapes
  <1>3. OnWards
    <2>1. view \in [Providers -> Nat] /\ \A p \in Providers : view[p] \in Nat
      BY <1>1 DEF Shapes
    <2> QED
      BY <2>1 DEF OnWards, providerVars
  <1>4. PICK r : r = call'[Scanner]
    OBVIOUS
  <1>5. Request(r) /\ (r.op \in {"head", "header"} => r.blocks \in Seq(Reports))
    BY <1>4 DEF Request, BlocksOnce
  <1>6. Request(r)'
    BY <1>1, <1>3, <1>5, RequestKeeps
  <1>7. Request(call[Scanner])'
    BY <1>4, <1>6
  <1>8. other' = other
    BY DEF providerVars
  <1> QED
    BY <1>2, <1>7, <1>8 DEF RpcInv, Taken

\* The scanner gives up.
LEMMA ScannerStops ==
  ASSUME RpcInv, Stop(Scanner), UNCHANGED <<providerVars, cursor, accepted>>
  PROVE  RpcInv'
  <1>1. Scanner \in Clients /\ Shapes
    BY DEF RpcInv, Clients
  <1>2. Moved(Scanner, "idle")
    BY <1>1, StopMoves
  <1>3. Request(call'[Scanner])
    BY <1>2 DEF Moved, Request
  <1> QED
    BY <1>2, <1>3, ScannerKeeps DEF ScannerOps

\* The scanner is done with the next block.
LEMMA ScannerAdvances ==
  ASSUME RpcInv, NEW log \in Hashes, NEW answers, Advance(log, answers), UNCHANGED providerVars,
         Taken([log |-> log, short |-> answers < MinProviderCount], cursor + 1)
  PROVE  RpcInv'
  <1> DEFINE outcome == [log |-> log, short |-> answers < MinProviderCount]
  <1>1. Scanner \in Clients /\ Shapes /\ cursor \in Nat
    BY DEF RpcInv, Clients, Shapes
  <1>2. outcome \in Outcomes
    <2>1. (answers < MinProviderCount) \in BOOLEAN
      OBVIOUS
    <2> QED
      BY <2>1, Zenon DEF Outcomes
  <1>3. /\ accepted' = Append(accepted, outcome) /\ cursor' = cursor + 1
        /\ Stop(Scanner) /\ Taken(outcome, cursor + 1)
    BY DEF Advance
  <1> HIDE DEF outcome
  <1>4. Moved(Scanner, "idle") /\ cursor' \in Nat
    BY <1>1, <1>3, StopMoves
  <1>5. Shapes'
    BY <1>1, <1>4, ScannerShapes DEF ScannerOps
  <1>6. Request(call[Scanner])'
    BY <1>4 DEF Moved, Request
  <1>7. accepted \in Seq(Outcomes) /\ Len(accepted) = cursor
        /\ \A h \in 1..cursor : Taken(accepted[h], h)
    BY DEF RpcInv
  <1>8. /\ accepted' \in Seq(Outcomes) /\ Len(accepted') = cursor'
        /\ \A h \in 1..cursor : accepted'[h] = accepted[h]
        /\ accepted'[cursor + 1] = outcome
    BY <1>1, <1>2, <1>3, <1>7, AppendProperties
  <1>9. \A h \in 1..cursor' : Taken(accepted'[h], h)
    BY <1>1, <1>3, <1>7, <1>8
  <1>10. other' = other
    BY DEF providerVars
  <1>11. (\A h \in 1..cursor : Taken(accepted[h], h))'
    BY <1>9, <1>10 DEF Taken
  <1> QED
    BY <1>5, <1>6, <1>8, <1>11 DEF RpcInv

\* A new request of the scanner, before any provider was asked.
LEMMA ScannerAsks ==
  ASSUME RpcInv, NEW request, DOMAIN request = CallFields, Ask(Scanner, request),
         request.op \in ScannerOps \ {"idle"},
         request.op \in {"head", "header"} => request.blocks = <<>>,
         request.op = "logs" => Reached(request.vouched),
         UNCHANGED <<providerVars, cursor, accepted>>
  PROVE  RpcInv'
  <1>1. Scanner \in Clients /\ Shapes /\ counter \in Nat
    BY DEF RpcInv, Clients, Shapes
  <1>2. /\ Moved(Scanner, request.op)
        /\ call'[Scanner].todo = provider_candidates(cooldown')
        /\ \A f \in CallFields \ {"todo"} : call'[Scanner][f] = request[f]
    BY <1>1, AskMoves
  <1>3. TodoOnce(call'[Scanner].todo)
    BY <1>1, <1>2, CandidatesOnce DEF TodoOnce
  <1>4. /\ call'[Scanner].op = request.op
        /\ call'[Scanner].blocks = request.blocks
        /\ call'[Scanner].vouched = request.vouched
    BY <1>2 DEF CallFields
  <1>5. \A todo : BlocksOnce(todo, <<>>) /\ HeadsReached(<<>>) /\ HeadersTrue(<<>>)
    BY EmptySeq DEF BlocksOnce, HeadsReached, HeadersTrue, Different
  <1>6. Request(call'[Scanner])
    BY <1>3, <1>4, <1>5 DEF Request
  <1> QED
    BY <1>2, <1>6, ScannerKeeps

\* Taking the next candidate, with the block of this one or without.
LEMMA Gathering ==
  ASSUME NEW todo, TodoOnce(todo), NEW blocks, BlocksOnce(todo, blocks)
  PROVE  /\ Head(todo) \in Providers
         /\ Len(todo) # 1 => TodoOnce(Tail(todo)) /\ BlocksOnce(Tail(todo), blocks)
         /\ \A b \in Reports : b.from = Head(todo) =>
              /\ Append(blocks, b) \in Seq(Reports) /\ Different(Append(blocks, b))
              /\ Len(todo) # 1 => BlocksOnce(Tail(todo), Append(blocks, b))
  <1>1. /\ todo \in Seq(Providers) /\ Len(todo) \in Nat /\ Len(todo) > 0 /\ todo # <<>>
        /\ \A i, j \in 1..Len(todo) : todo[i] = todo[j] => i = j
    BY EmptySeq DEF TodoOnce
  <1>2. /\ blocks \in Seq(Reports) /\ Len(blocks) \in Nat /\ Different(blocks)
        /\ \A i \in 1..Len(blocks), j \in 1..Len(todo) : blocks[i].from # todo[j]
    BY DEF BlocksOnce
  <1>3. /\ Head(todo) = todo[1] /\ Head(todo) \in Providers
        /\ Tail(todo) \in Seq(Providers) /\ Len(Tail(todo)) = Len(todo) - 1
        /\ \A i \in 1..Len(Tail(todo)) : Tail(todo)[i] = todo[i + 1] /\ i + 1 \in 1..Len(todo)
    BY <1>1, HeadTailProperties
  <1>4. Len(todo) # 1 => TodoOnce(Tail(todo))
    BY <1>1, <1>3 DEF TodoOnce
  <1>5. BlocksOnce(Tail(todo), blocks)
    BY <1>1, <1>2, <1>3 DEF BlocksOnce
  <1>6. ASSUME NEW b \in Reports, b.from = Head(todo)
        PROVE  /\ Append(blocks, b) \in Seq(Reports) /\ Different(Append(blocks, b))
               /\ BlocksOnce(Tail(todo), Append(blocks, b))
    <2> DEFINE more == Append(blocks, b)
    <2>1. /\ more \in Seq(Reports) /\ Len(more) = Len(blocks) + 1
          /\ \A i \in 1..Len(blocks) : more[i] = blocks[i]
          /\ more[Len(blocks) + 1] = b
      BY <1>2, AppendProperties
    <2> HIDE DEF more
    <2>2. \A i \in 1..Len(more) : i \in 1..Len(blocks) \/ i = Len(blocks) + 1
      BY <1>2, <2>1
    <2>3. Different(more)
      BY <1>1, <1>2, <1>3, <1>6, <2>1, <2>2 DEF Different
    <2>4. \A i \in 1..Len(more), j \in 1..Len(Tail(todo)) : more[i].from # Tail(todo)[j]
      BY <1>1, <1>2, <1>3, <1>6, <2>1, <2>2
    <2> QED
      BY <2>1, <2>3, <2>4 DEF BlocksOnce, more
  <1> QED
    BY <1>3, <1>4, <1>5, <1>6

\* latest_head: with every provider among the answers, all of them have
\* reached the block after the cursor.
LEMMA HeadOfAll ==
  ASSUME Shapes, NEW blocks \in Seq(Reports), blocks # <<>>, Different(blocks),
         HeadsReached(blocks), select_conservative_head(blocks).number > cursor
  PROVE  Reached(Len(blocks))
  <1> SUFFICES ASSUME N = MinProviderCount, ~ (Len(blocks) < MinProviderCount),
                      NEW p \in Providers
               PROVE  view[p] >= cursor + 1
    BY DEF Reached
  <1>1. PICK k \in 1..Len(blocks) :
          /\ select_conservative_head(blocks) = blocks[k]
          /\ \A j \in 1..Len(blocks) : blocks[k].number <= blocks[j].number
    BY ConservativeHead
  <1>2. \A i \in 1..Len(blocks) : blocks[i].from \in Providers /\ blocks[i].number \in Nat
    <2>1. \A i \in 1..Len(blocks) : blocks[i] \in Reports
      OBVIOUS
    <2> QED
      BY <2>1 DEF Reports
  <1>3. Cardinality(Providers) = N
    BY ProvidersFinite
  <1>4. /\ Len(blocks) \in Nat /\ Len(blocks) <= N
        /\ Len(blocks) = N => \E i \in 1..Len(blocks) : blocks[i].from = p
    BY <1>2, <1>3, DifferentAreFew
  <1>5. PICK i \in 1..Len(blocks) : blocks[i].from = p
    BY <1>4, NAssumption
  <1>6. blocks[i].number <= view[p] /\ blocks[k].number <= blocks[i].number
        /\ blocks[k].number > cursor
    BY <1>1, <1>5 DEF HeadsReached
  <1>7. view[p] \in Nat /\ cursor \in Nat /\ blocks[i].number \in Nat /\ blocks[k].number \in Nat
    BY <1>2 DEF Shapes
  <1> QED
    BY <1>6, <1>7

\* transfer_logs: headers of a quorum that agree on another chain's hash would
\* take as many misconfigured providers.
LEMMA QuorumIsCanonical ==
  ASSUME Shapes, NEW blocks \in Seq(Reports), blocks # <<>>, Different(blocks),
         HeadersTrue(blocks), ensure_consistent_block_hashes(blocks),
         select_conservative_head(blocks).hash = "other"
  PROVE  Len(blocks) < MinProviderCount
  <1>1. PICK k \in 1..Len(blocks) : blocks[k].hash = "other"
    BY ConservativeHead
  <1>2. \A i \in 1..Len(blocks) : blocks[i].hash = "other"
    BY <1>1 DEF HeadersTrue, ensure_consistent_block_hashes
  <1>3. \A i \in 1..Len(blocks) : blocks[i].from \in other
    BY <1>2 DEF HeadersTrue, HashOf
  <1>4. other \subseteq Misconfigured /\ other \in SUBSET Providers
    BY MisconfiguredAssumption DEF Shapes
  <1>5. Len(blocks) \in Nat /\ Cardinality(other) \in Nat /\ Len(blocks) <= Cardinality(other)
    BY <1>3, <1>4, DifferentAreFew
  <1>6. IsFiniteSet(Misconfigured)
    <2>1. IsFiniteSet(Providers)
      BY ProvidersFinite
    <2> QED
      BY <2>1, MisconfiguredAssumption, FS_Subset
  <1>7. Cardinality(other) <= Cardinality(Misconfigured) /\ Cardinality(Misconfigured) \in Nat
    BY <1>4, <1>6, FS_Subset, FS_CardinalityType
  <1>8. Cardinality(Misconfigured) < MinProviderCount /\ MinProviderCount \in Nat
    BY MisconfiguredAssumption, MinAssumption, NAssumption
  <1> QED
    BY <1>5, <1>7, <1>8

\* The loop of request_blocks ends for the scanner.
LEMMA ScannerLoop ==
  ASSUME RpcInv, NEW op \in {"head", "header"}, NEW blocks \in Seq(Reports), NEW nosafe,
         Different(blocks),
         op = "head" => HeadsReached(blocks),
         op = "header" => HeadersTrue(blocks),
         LoopEnds(Scanner, op, blocks, nosafe), UNCHANGED providerVars
  PROVE  RpcInv'
  <1>0. Shapes
    BY DEF RpcInv
  <1>1. ASSUME BlocksFailed(Scanner, op, blocks, nosafe) PROVE RpcInv'
    BY <1>1, ScannerStops DEF BlocksFailed
  <1>2. ASSUME blocks # <<>>, op = "head", HeadRead(blocks) PROVE RpcInv'
    <2>1. CASE select_conservative_head(blocks).number > cursor
      <3> DEFINE request == [Idle EXCEPT !.op = "logs", !.vouched = Len(blocks)]
      <3>1. Ask(Scanner, request) /\ UNCHANGED <<cursor, accepted>>
        BY <1>2, <2>1 DEF HeadRead
      <3>2. DOMAIN request = CallFields /\ request.op = "logs" /\ request.vouched = Len(blocks)
        BY Requests
      <3>3. Reached(Len(blocks))
        BY <1>0, <1>2, <2>1, HeadOfAll
      <3> HIDE DEF request
      <3> QED
        BY <3>1, <3>2, <3>3, ScannerAsks DEF ScannerOps
    <2>2. CASE ~ (select_conservative_head(blocks).number > cursor)
      BY <1>2, <2>2, ScannerStops DEF HeadRead
    <2> QED
      BY <2>1, <2>2
  <1>3. ASSUME blocks # <<>>, op = "header", HeaderRead(blocks),
               ensure_consistent_block_hashes(blocks)
        PROVE  RpcInv'
    <2> DEFINE log == select_conservative_head(blocks).hash
    <2>1. log \in {"main", "other"}
      <3>1. PICK k \in 1..Len(blocks) : select_conservative_head(blocks) = blocks[k]
        BY <1>3, ConservativeHead
      <3>2. blocks[k] \in Reports
        OBVIOUS
      <3> QED
        BY <3>1, <3>2 DEF Reports
    <2>2. log = "other" => Len(blocks) < MinProviderCount
      BY <1>0, <1>3, QuorumIsCanonical
    <2>3. CASE log = call[Scanner].log
      <3>1. Advance(log, Len(blocks))
        BY <1>3, <2>3 DEF HeaderRead
      <3> HIDE DEF log
      <3>2. Taken([log |-> log, short |-> Len(blocks) < MinProviderCount], cursor + 1)
        BY <2>1, <2>2 DEF Taken
      <3>3. log \in Hashes
        BY <2>1 DEF Hashes
      <3> QED
        BY <3>1, <3>2, <3>3, ScannerAdvances
    <2>4. CASE log # call[Scanner].log
      BY <1>3, <2>4, ScannerStops DEF HeaderRead
    <2> QED
      BY <2>3, <2>4
  <1> QED
    BY <1>1, <1>2, <1>3 DEF LoopEnds, BlocksRead

LEMMA ScannerBlocks ==
  ASSUME RpcInv, request_blocks(Scanner)
  PROVE  RpcInv'
  <1> DEFINE op == call[Scanner].op
             todo == call[Scanner].todo
             blocks == call[Scanner].blocks
             p == Head(todo)
             b == ReportedBlock(p, op)
  <1>0. Shapes /\ Scanner \in Clients /\ Request(call[Scanner])
    BY DEF RpcInv, Clients
  <1>1. op \in {"head", "header"} /\ UNCHANGED providerVars
    BY <1>0 DEF request_blocks, Shapes, BlockOps
  <1>2. /\ TodoOnce(todo) /\ BlocksOnce(todo, blocks)
        /\ op = "head" => HeadsReached(blocks)
        /\ op = "header" => HeadersTrue(blocks)
    BY <1>0, <1>1 DEF Request
  <1>3. p \in Providers /\ view[p] \in Nat /\ cursor \in Nat
    BY <1>0, <1>2, Gathering DEF Shapes
  <1>4. /\ b \in Reports /\ b.from = p
        /\ op = "head" => b.number = view[b.from]
        /\ op = "header" => b.number = cursor + 1 /\ b.hash = HashOf(b.from)
    BY <1>1, <1>3 DEF ReportedBlock, Reports, HashOf, Asked
  <1>5. \/ LoopEnds(Scanner, op, Append(blocks, b), call[Scanner].nosafe)
        \/ \E nosafe : LoopEnds(Scanner, op, blocks, nosafe)
        \/ Len(todo) # 1 /\ TryNext(Scanner, Append(blocks, b), call[Scanner].nosafe)
        \/ Len(todo) # 1 /\ \E nosafe : TryNext(Scanner, blocks, nosafe)
    BY DEF request_blocks
  <1>6. /\ Append(blocks, b) \in Seq(Reports) /\ Different(Append(blocks, b))
        /\ Len(todo) # 1 => /\ TodoOnce(Tail(todo)) /\ BlocksOnce(Tail(todo), blocks)
                            /\ BlocksOnce(Tail(todo), Append(blocks, b))
    BY <1>2, <1>4, Gathering
  <1>7. blocks \in Seq(Reports) /\ Different(blocks)
    BY <1>2 DEF BlocksOnce
  <1>8. /\ op = "head" => HeadsReached(Append(blocks, b))
        /\ op = "header" => HeadersTrue(Append(blocks, b))
    <2> DEFINE more == Append(blocks, b)
    <2>1. /\ Len(more) = Len(blocks) + 1 /\ Len(blocks) \in Nat
          /\ \A i \in 1..Len(blocks) : more[i] = blocks[i]
          /\ more[Len(blocks) + 1] = b
      BY <1>4, <1>7, AppendProperties
    <2>2. \A i \in 1..Len(more) : i \in 1..Len(blocks) \/ i = Len(blocks) + 1
      BY <2>1
    <2> HIDE DEF more, b, blocks
    <2>3. op = "head" => HeadsReached(more)
      BY <1>2, <1>3, <1>4, <2>1, <2>2 DEF HeadsReached
    <2>4. op = "header" => HeadersTrue(more)
      BY <1>2, <1>4, <2>1, <2>2 DEF HeadersTrue
    <2> QED
      BY <2>3, <2>4 DEF more
  <1> HIDE DEF b
  <1>9. CASE \/ LoopEnds(Scanner, op, Append(blocks, b), call[Scanner].nosafe)
             \/ \E nosafe : LoopEnds(Scanner, op, blocks, nosafe)
    BY <1>1, <1>2, <1>6, <1>7, <1>8, <1>9, ScannerLoop
  <1>10. ASSUME NEW more, NEW nosafe, TryNext(Scanner, more, nosafe), TodoOnce(Tail(todo)),
                BlocksOnce(Tail(todo), more),
                op = "head" => HeadsReached(more),
                op = "header" => HeadersTrue(more)
         PROVE  RpcInv'
    <2>1. /\ Moved(Scanner, op) /\ call'[Scanner].todo = Tail(todo)
          /\ call'[Scanner].blocks = more /\ UNCHANGED <<cursor, accepted>>
      BY <1>0, <1>10, NextMoves
    <2>2. call'[Scanner].op = op
      BY <2>1 DEF Moved
    <2>3. Request(call'[Scanner])
      BY <1>1, <1>10, <2>1, <2>2 DEF Request
    <2> QED
      BY <1>1, <2>1, <2>3, ScannerKeeps DEF ScannerOps
  <1> QED
    BY <1>2, <1>5, <1>6, <1>8, <1>9, <1>10

LEMMA ScannerLogs ==
  ASSUME RpcInv, request_first_success(Scanner)
  PROVE  RpcInv'
  <1> DEFINE todo == call[Scanner].todo
             p == Head(todo)
             vouched == call[Scanner].vouched
  <1>0. Shapes /\ Scanner \in Clients /\ Request(call[Scanner])
    BY DEF RpcInv, Clients
  <1>1. call[Scanner].op = "logs" /\ UNCHANGED providerVars
    BY <1>0 DEF request_first_success, Shapes, FirstOps
  <1>2. TodoOnce(todo) /\ Reached(vouched)
    BY <1>0, <1>1 DEF Request
  <1>3. \A t : BlocksOnce(t, <<>>)
    BY EmptySeq DEF BlocksOnce, Different
  <1>4. p \in Providers /\ (Len(todo) # 1 => TodoOnce(Tail(todo)))
    BY <1>2, <1>3, Gathering
  <1>5. \/ \E log \in LogsOf(p) : LogsRead(log)
        \/ Returns(Scanner)
        \/ Len(todo) # 1 /\ TryNext(Scanner, <<>>, FALSE)
    BY <1>1 DEF request_first_success
  <1>6. ASSUME NEW log \in LogsOf(p), LogsRead(log) PROVE RpcInv'
    <2>1. log \in Hashes
      BY <1>6 DEF LogsOf, Hashes
    <2>2. CASE log = "none"
      <3>1. Advance("none", vouched)
        BY <1>6, <2>2 DEF LogsRead
      <3>2. (N = MinProviderCount /\ other = {} /\ cursor + 1 \in LogBlocks) =>
               vouched < MinProviderCount
        <4> SUFFICES ASSUME N = MinProviderCount, other = {}, cursor + 1 \in LogBlocks,
                            ~ (vouched < MinProviderCount)
                     PROVE  FALSE
          OBVIOUS
        <4>1. view[p] >= cursor + 1 /\ view[p] \in Nat /\ cursor \in Nat
          BY <1>0, <1>2, <1>4 DEF Reached, Shapes
        <4> QED
          BY <1>6, <2>2, <4>1 DEF LogsOf
      <3> HIDE DEF vouched
      <3>3. Taken([log |-> "none", short |-> vouched < MinProviderCount], cursor + 1)
        BY <3>2 DEF Taken
      <3> QED
        BY <1>1, <2>1, <2>2, <3>1, <3>3, ScannerAdvances
    <2>3. CASE log # "none"
      <3> DEFINE request == [Idle EXCEPT !.op = "header", !.log = log]
      <3>1. Ask(Scanner, request) /\ UNCHANGED <<cursor, accepted>>
        BY <1>6, <2>3 DEF LogsRead
      <3>2. DOMAIN request = CallFields /\ request.op = "header" /\ request.blocks = <<>>
        BY Requests
      <3> HIDE DEF request
      <3> QED
        BY <1>1, <3>1, <3>2, ScannerAsks DEF ScannerOps
    <2> QED
      BY <2>2, <2>3
  <1>7. ASSUME Returns(Scanner) PROVE RpcInv'
    BY <1>1, <1>7, ScannerStops DEF Returns
  <1>8. ASSUME Len(todo) # 1, TryNext(Scanner, <<>>, FALSE) PROVE RpcInv'
    <2>1. /\ Moved(Scanner, "logs") /\ call'[Scanner].todo = Tail(todo)
          /\ call'[Scanner].vouched = vouched /\ UNCHANGED <<cursor, accepted>>
      BY <1>0, <1>1, <1>8, NextMoves
    <2>2. call'[Scanner].op = "logs"
      BY <2>1 DEF Moved
    <2>3. Request(call'[Scanner])
      BY <1>2, <1>4, <1>8, <2>1, <2>2 DEF Request
    <2> QED
      BY <1>1, <2>1, <2>3, ScannerKeeps DEF ScannerOps
  <1> QED
    BY <1>5, <1>6, <1>7, <1>8

LEMMA ScannerBegins ==
  ASSUME RpcInv, latest_head
  PROVE  RpcInv'
  <1> DEFINE request == [Idle EXCEPT !.op = "head"]
  <1>1. Ask(Scanner, request) /\ UNCHANGED <<providerVars, cursor, accepted>>
    BY DEF latest_head, Begin
  <1>2. DOMAIN request = CallFields /\ request.op = "head" /\ request.blocks = <<>>
    BY Requests
  <1> HIDE DEF request
  <1> QED
    BY <1>1, <1>2, ScannerAsks DEF ScannerOps

-----------------------------------------------------------------------------
LEMMA NextRpc == RpcInv /\ [Next]_vars => RpcInv'
  BY CallerBlocks, CallerFirst, CallerChains, CallerBegins, ScannerBlocks, ScannerLogs,
     ScannerBegins, WorldKeeps DEF Next, ClientStep, Clients

LEMMA RpcInvariant == Spec => []RpcInv
  BY InitRpc, NextRpc, PTL DEF Spec

\* A log of another chain is taken only on the word of fewer than
\* min_provider_count providers, for any pool in which fewer than that many
\* are misconfigured, whatever goes down, lags behind or is in cooldown.
THEOREM LogsAreVouchedFor == Spec => []VouchedLogsAreCanonical
  <1>1. RpcInv => VouchedLogsAreCanonical
    BY DEF RpcInv, Taken, VouchedLogsAreCanonical
  <1> QED
    BY <1>1, RpcInvariant, PTL

\* A Transfer is passed over only when the head came from fewer than
\* min_provider_count providers, for a pool of exactly that many on one chain.
THEOREM NothingMissedWithQuorum == Spec => []MissedOnlyBelowQuorum
  <1>1. RpcInv => MissedOnlyBelowQuorum
    <2> SUFFICES ASSUME RpcInv, N = MinProviderCount, other = {},
                        NEW h \in LogBlocks \cap 1..cursor, accepted[h].log = "none"
                 PROVE  accepted[h].short
      BY DEF MissedOnlyBelowQuorum
    <2>1. Taken(accepted[h], h)
      BY DEF RpcInv
    <2> QED
      BY <2>1 DEF Taken
  <1> QED
    BY <1>1, RpcInvariant, PTL
=============================================================================
