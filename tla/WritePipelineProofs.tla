------------------------- MODULE WritePipelineProofs -------------------------
(***************************************************************************)
(* Proofs about WritePipeline: the pipeline is the front of the queue, the *)
(* connection is in step with it, what happens to the writes is what       *)
(* WriteQueue promises of them, nobody waits too short for them, they are  *)
(* sent with the credentials of their account, and none of them is lost:   *)
(* what an ended call makes the client give up is what the server has      *)
(* turned down (DeniedInv).                                                *)
(***************************************************************************)
EXTENDS WritePipeline, QueueTheorems, FiniteSetTheorems

USE WritePipelineAssumption

-----------------------------------------------------------------------------
(* Queues whose ids increase *)

Increasing(q) ==
  \A i, j \in DOMAIN q : i < j => q[i].id < q[j].id /\ q[i].write < q[j].write

Cut(q) == SubSeq(q, 1, IF Len(q) < MaxPending THEN Len(q) ELSE MaxPending)

LEMMA BatchFields ==
  ASSUME NEW b \in Batch
  PROVE  b.id \in Nat /\ b.id > 0 /\ b.write \in Writes /\ b.write \in Nat
BY DEF Batch, Writes

LEMMA BatchesAfterNone ==
  ASSUME NEW q \in Seq(Batch)
  PROVE  BatchesAfter(q, 0) = q
<1>1. {i \in DOMAIN q : q[i].id <= 0} = {}
  <2>1. \A i \in DOMAIN q : q[i].id \in Nat /\ q[i].id > 0
    <3>1. \A i \in DOMAIN q : q[i] \in Batch
      OBVIOUS
    <3> QED
      BY <3>1, BatchFields
  <2> QED
    BY <2>1
<1>2. Cardinality({i \in DOMAIN q : q[i].id <= 0}) = 0
  BY <1>1, FS_EmptySet
<1>3. SubSeq(q, 1, Len(q)) = q
  BY SubSeqFull
<1>4. 1 + 0 = 1
  OBVIOUS
<1> QED
  BY <1>2, <1>3, <1>4, Zenon DEF BatchesAfter

LEMMA BatchesAfterFront ==
  ASSUME NEW q \in Seq(Batch), Increasing(q), NEW k \in 1..Len(q)
  PROVE  BatchesAfter(q, q[k].id) = SubSeq(q, k + 1, Len(q))
<1>1. {i \in DOMAIN q : q[i].id <= q[k].id} = 1..k
  <2>1. Len(q) \in Nat /\ DOMAIN q = 1..Len(q)
    OBVIOUS
  <2>2. \A i \in DOMAIN q : q[i].id \in Nat
    <3>1. \A i \in DOMAIN q : q[i] \in Batch
      OBVIOUS
    <3> QED
      BY <3>1, BatchFields
  <2>3. \A i \in DOMAIN q : i < k => q[i].id < q[k].id
    BY <2>1 DEF Increasing
  <2>4. \A i \in DOMAIN q : k < i => q[k].id < q[i].id
    BY <2>1 DEF Increasing
  <2> QED
    BY <2>1, <2>2, <2>3, <2>4
<1>2. Cardinality(1..k) = k /\ 1 + k = k + 1
  BY FS_Interval
<1> QED
  BY <1>1, <1>2, Zenon DEF BatchesAfter

LEMMA RefillCut ==
  ASSUME NEW q \in Seq(Batch), Increasing(q), NEW k \in 0..Len(q), k <= MaxPending
  PROVE  Refill(SubSeq(q, 1, k), q) = Cut(q)
<1> DEFINE n == IF Len(q) < MaxPending THEN Len(q) ELSE MaxPending
<1>0. Len(q) \in Nat /\ MaxPending \in Nat /\ n \in k..Len(q) /\ n <= MaxPending
  OBVIOUS
<1>1. SubSeq(q, 1, k) \in Seq(Batch) /\ Len(SubSeq(q, 1, k)) = k
  BY <1>0, SubSeqProperties
<1>2. BatchesAfter(q, IF SubSeq(q, 1, k) = <<>> THEN 0 ELSE Last(SubSeq(q, 1, k)).id)
        = SubSeq(q, k + 1, Len(q))
  <2>1. CASE k = 0
    <3>1. SubSeq(q, 1, k) = <<>>
      BY <1>1, <2>1
    <3>2. SubSeq(q, k + 1, Len(q)) = q
      BY <2>1, SubSeqFull
    <3> QED
      BY <3>1, <3>2, BatchesAfterNone
  <2>2. CASE k # 0
    <3>1. k \in 1..Len(q) /\ SubSeq(q, 1, k) # <<>>
      BY <1>1, <2>2
    <3>2. Last(SubSeq(q, 1, k)) = q[k]
      BY <1>1, <3>1, SubSeqProperties DEF Last
    <3> QED
      BY <3>1, <3>2, BatchesAfterFront
  <2> QED
    BY <2>1, <2>2
<1>3. Len(SubSeq(q, k + 1, Len(q))) = Len(q) - k
  BY <1>0, SubSeqProperties
<1>4. SubSeq(SubSeq(q, k + 1, Len(q)), 1, n - k) = SubSeq(q, k + 1, n)
  BY <1>0, SubSeqOfSubSeq
<1>5. SubSeq(q, 1, k) \o SubSeq(q, k + 1, n) = SubSeq(q, 1, n)
  <2>1. 1 \in 1..Len(q) + 1 /\ k \in (1 - 1)..Len(q) /\ n \in k..Len(q)
    BY <1>0
  <2> QED
    BY <2>1, ConcatAdjacentSubSeq
<1>6. Refill(SubSeq(q, 1, k), q) = SubSeq(q, 1, k) \o SubSeq(SubSeq(q, k + 1, Len(q)), 1, n - k)
  <2>1. (IF MaxPending > k THEN MaxPending - k ELSE 0) = MaxPending - k
    BY <1>0
  <2>2. (IF Len(q) - k < MaxPending - k THEN Len(q) - k ELSE MaxPending - k) = n - k
    BY <1>0
  <2> QED
    BY <1>1, <1>2, <1>3, <2>1, <2>2 DEF Refill
<1> QED
  BY <1>4, <1>5, <1>6 DEF Cut

LEMMA RemoveFirstBatch ==
  ASSUME NEW q \in Seq(Batch), Increasing(q), q # <<>>
  PROVE  RemoveBatch(q, Head(q).id) = Tail(q)
<1>1. 1 \in DOMAIN q /\ Head(q) = q[1] /\ DOMAIN q = 1..Len(q) /\ Len(q) \in Nat
  OBVIOUS
<1>2. ASSUME NEW i \in DOMAIN q, q[i].id = Head(q).id PROVE i = 1
  <2>1. CASE 1 < i
    <3>1. q[1].id < q[i].id
      BY <1>1, <2>1 DEF Increasing
    <3>2. q[1].id \in Nat
      <4>1. q[1] \in Batch
        BY <1>1
      <4> QED
        BY <4>1, BatchFields
    <3> QED
      BY <1>1, <1>2, <3>1, <3>2
  <2> QED
    BY <1>1, <2>1
<1>3. (CHOOSE i \in DOMAIN q : q[i].id = Head(q).id) = 1
  BY <1>1, <1>2
<1> QED
  BY <1>3, RemoveAtHead DEF RemoveBatch

-----------------------------------------------------------------------------
(* The inductive invariant *)

TaskSet == [kind : {"credential", "token"}, user : SUBSET Users, closes : Nat]

TokenSet == [closes : Nat, users : SUBSET Users]

ConnSet == [user : SUBSET Users, requests : Seq(Batch), replies : Seq(Batch),
            ended : BOOLEAN]

TypeStream ==
  /\ handshake \in BOOLEAN /\ idle \in BOOLEAN
  /\ pipeline \in Seq(Batch)
  /\ stream \in StreamStates
  /\ closes \in Nat
  /\ conn \in ConnSet

TypeAuth ==
  /\ auth \in Users /\ user \in Users
  /\ notices \in Seq(Users)
  /\ tokens \subseteq TokenSet
  /\ tasks \in Seq(TaskSet)

TypeStore ==
  /\ enabled \in BOOLEAN
  /\ callbacks \in [Users -> SUBSET Batch]
  /\ pending \subseteq [id : Nat, awaits : SUBSET Writes]
  /\ queue \in [Users -> Seq(Batch)]
  /\ nextId \in Nat \ {0}

TypeServer ==
  /\ document \in [Users -> 0..MaxWrites]
  /\ applied \subseteq Writes /\ denied \subseteq Writes
  /\ answers \subseteq [user : Users, write : Writes, outcome : Outcomes, again : BOOLEAN]
  /\ made \in 0..MaxWrites /\ waits \in 0..MaxWaits /\ faults \in 0..MaxFaults

\* The writes of a queue are ordered, and every one has been made.
QueuesInv ==
  /\ IdsName
  /\ \A u \in Users : \A b \in Batches(u) : b.write <= made
  /\ \A u, v \in Users : \A b \in Batches(u), c \in Batches(v) :
       b.write = c.write => u = v

\* Only a stream that has sent something has an empty pipeline, and the write
\* that was turned down is there, after those that were not.
BusyBefore ==
  /\ IsStarted(stream) /\ ~handshake => pipeline # <<>>
  /\ conn.ended => Len(conn.replies) < Len(pipeline)

StreamInv == PipelineIsFront /\ ResultsInStep /\ NeededIsStarted /\ BusyBefore

\* A stream that waits for a token waits for one, and there is no second one.
Coming(t) == t.closes = closes

ComingTask(i) == tasks[i].kind = "token" /\ tasks[i].closes = closes

TokenInv ==
  /\ TokenIsComing
  /\ \A t \in tokens : t.closes <= closes
  /\ \A i \in DOMAIN tasks : tasks[i].kind = "token" => tasks[i].closes <= closes
  /\ \A t1, t2 \in tokens : Coming(t1) /\ Coming(t2) => t1 = t2
  /\ \A t \in tokens, i \in DOMAIN tasks : ~(Coming(t) /\ ComingTask(i))
  /\ \A i, j \in DOMAIN tasks : ComingTask(i) /\ ComingTask(j) => i = j

Inv == TypeStream /\ TypeAuth /\ TypeStore /\ TypeServer /\ QueuesInv /\ StreamInv /\ TokenInv

-----------------------------------------------------------------------------
(* What the operations on the stream come to *)

LEMMA CutOf ==
  ASSUME NEW q \in Seq(Batch)
  PROVE  /\ Cut(q) \in Seq(Batch)
         /\ Len(Cut(q)) = IF Len(q) < MaxPending THEN Len(q) ELSE MaxPending
         /\ Cut(q) = <<>> <=> q = <<>>
         /\ Len(Cut(q)) \in 0..Len(q) /\ Len(Cut(q)) <= MaxPending
         /\ Cut(q) = SubSeq(q, 1, Len(Cut(q)))
         /\ \A i \in 1..Len(Cut(q)) : Cut(q)[i] = q[i]
         /\ q # <<>> => Head(Cut(q)) = Head(q)
<1> DEFINE n == IF Len(q) < MaxPending THEN Len(q) ELSE MaxPending
<1>1. n \in 0..Len(q) /\ n <= MaxPending /\ Len(q) \in Nat /\ (n = 0 <=> q = <<>>)
  OBVIOUS
<1>2. /\ Cut(q) \in Seq(Batch) /\ Len(Cut(q)) = n
      /\ \A i \in 1..n : Cut(q)[i] = q[i]
  <2>1. \A i \in 1..n : q[i] \in Batch
    BY <1>1
  <2> QED
    BY <1>1, <2>1, SubSeqProperties DEF Cut
<1>3. Cut(q) = <<>> <=> q = <<>>
  BY <1>1, <1>2
<1>4. q # <<>> => Head(Cut(q)) = Head(q)
  BY <1>1, <1>2, <1>3
<1>5. Cut(q) = SubSeq(q, 1, Len(Cut(q)))
  BY <1>2 DEF Cut
<1> QED
  BY <1>1, <1>2, <1>3, <1>4, <1>5

LEMMA RefillNothing ==
  ASSUME NEW q \in Seq(Batch), Increasing(q)
  PROVE  Refill(<<>>, q) = Cut(q)
<1>1. SubSeq(q, 1, 0) = <<>>
  BY SubSeqEmpty
<1>2. 0 \in 0..Len(q) /\ 0 <= MaxPending
  OBVIOUS
<1> QED
  BY <1>1, <1>2, RefillCut

\* A closed stream is closed, and started again if it is needed.
LEMMA CloseEffect ==
  ASSUME NEW s \in {"Initial", "Error"}, NEW p \in Seq(Batch), NEW on \in BOOLEAN,
         p # <<>> => on, closes \in Nat, auth \in Users, tokens \subseteq TokenSet,
         CloseStream(s, p, on)
  PROVE  /\ pipeline' = p /\ handshake' = FALSE /\ idle' = FALSE
         /\ stream' \in StreamStates /\ closes' = closes + 1 /\ closes' \in Nat
         /\ conn' = NoConn /\ conn' \in ConnSet
         /\ ResultsInStep' /\ NeededIsStarted' /\ BusyBefore'
         /\ \/ stream' = "Starting" /\ tokens' = tokens \cup {[closes |-> closes', users |-> {auth}]}
            \/ stream' # "Starting" /\ tokens' = tokens
<1>1. /\ pipeline' = p /\ handshake' = FALSE /\ idle' = FALSE
      /\ closes' = closes + 1 /\ closes' \in Nat /\ conn' = NoConn
  BY DEF CloseStream
<1>2. conn' \in ConnSet /\ conn'.requests = <<>> /\ conn'.replies = <<>> /\ ~conn'.ended
  BY <1>1 DEF NoConn, ConnSet
<1>3. CASE p = <<>>
  BY <1>3, <1>1, <1>2 DEF CloseStream, StartIfNeeded, StreamStates, ResultsInStep,
     NeededIsStarted, BusyBefore, IsStarted, IsOpen
<1>4. CASE p # <<>>
  BY <1>4, <1>1, <1>2 DEF CloseStream, StartIfNeeded, StreamStates, ResultsInStep,
     NeededIsStarted, BusyBefore, IsStarted, IsOpen
<1> QED
  BY <1>3, <1>4

\* A prefix agrees with the sequence as far as it goes.
LEMMA PrefixIs ==
  ASSUME NEW S, NEW r \in Seq(S), NEW p \in Seq(S)
  PROVE  IsPrefix(r, p) <=> Len(r) <= Len(p) /\ \A i \in 1..Len(r) : r[i] = p[i]
<1>1. Len(r) \in Nat /\ Len(p) \in Nat /\ SubSeq(r, 1, Len(r)) = r
  BY SubSeqFull
<1>2. ASSUME Len(r) <= Len(p)
      PROVE  r = SubSeq(p, 1, Len(r)) <=> \A i \in 1..Len(r) : r[i] = p[i]
  <2>1. /\ SubSeq(p, 1, Len(r)) \in Seq(S) /\ Len(SubSeq(p, 1, Len(r))) = Len(r)
        /\ \A i \in 1..Len(r) : SubSeq(p, 1, Len(r))[i] = p[i]
    <3>1. \A i \in 1..Len(r) : p[i] \in S
      BY <1>1, <1>2
    <3> QED
      BY <1>1, <1>2, <3>1, SubSeqProperties
  <2> QED
    BY <2>1, SeqEqual
<1> QED
  BY <1>1, <1>2 DEF IsPrefix

\* It is a prefix of what the sequence is a prefix of.
LEMMA PrefixGrows ==
  \A S : \A r, p, f \in Seq(S) :
    IsPrefix(r, p) /\ Len(p) <= Len(f) /\ (\A i \in 1..Len(p) : p[i] = f[i])
      => IsPrefix(r, f)
<1> SUFFICES ASSUME NEW S, NEW r \in Seq(S), NEW p \in Seq(S), NEW f \in Seq(S),
                    IsPrefix(r, p), Len(p) <= Len(f), \A i \in 1..Len(p) : p[i] = f[i]
             PROVE  IsPrefix(r, f)
  OBVIOUS
<1>1. Len(r) \in Nat /\ Len(p) \in Nat /\ Len(f) \in Nat
  OBVIOUS
<1>2. Len(r) <= Len(p) /\ \A i \in 1..Len(r) : r[i] = p[i]
  BY PrefixIs
<1>3. Len(r) <= Len(f) /\ \A i \in 1..Len(r) : r[i] = f[i]
  BY <1>1, <1>2
<1> QED
  BY <1>3, PrefixIs

Joins(p, new, f) == f = p \o new

LEMMA Regroup ==
  ASSUME NEW S, NEW r \in Seq(S), NEW s \in Seq(S), NEW new \in Seq(S), NEW p, NEW f,
         Joins(r, s, p), Joins(p, new, f)
  PROVE  Joins(r, s \o new, f)
<1>1. (r \o s) \o new = r \o (s \o new)
  BY ONLY r \in Seq(S), s \in Seq(S), new \in Seq(S), ConcatAssociative
<1>2. f = (r \o s) \o new
  BY Zenon DEF Joins
<1> QED
  BY <1>1, <1>2, Zenon DEF Joins

IsFront(p, q) == Len(p) <= Len(q) /\ \A i \in 1..Len(p) : p[i] = q[i]

\* A front is the subsequence of its length.
LEMMA FrontIs ==
  ASSUME NEW f \in Seq(Batch), NEW p \in Seq(Batch), IsFront(p, f)
  PROVE  Len(p) \in 0..Len(f) /\ SubSeq(f, 1, Len(p)) = p
<1>1. Len(p) \in 0..Len(f) /\ \A i \in 1..Len(p) : p[i] = f[i] /\ f[i] \in Batch
  BY DEF IsFront
<1>2. /\ SubSeq(f, 1, Len(p)) \in Seq(Batch) /\ Len(SubSeq(f, 1, Len(p))) = Len(p)
      /\ \A i \in 1..Len(p) : SubSeq(f, 1, Len(p))[i] = f[i]
  BY <1>1, SubSeqProperties
<1>3. SubSeq(f, 1, Len(p)) = p
  BY <1>1, <1>2, SeqEqual
<1> QED
  BY <1>1, <1>3

LEMMA FrontAndRest ==
  ASSUME NEW f \in Seq(Batch), NEW p \in Seq(Batch), IsFront(p, f)
  PROVE  /\ SubSeq(f, Len(p) + 1, Len(f)) \in Seq(Batch)
         /\ p \o SubSeq(f, Len(p) + 1, Len(f)) = f
<1>1. Len(p) \in 0..Len(f) /\ SubSeq(f, 1, Len(p)) = p
  BY FrontIs
<1>2. SubSeq(f, Len(p) + 1, Len(f)) \in Seq(Batch)
  <2>1. \A i \in Len(p) + 1..Len(f) : f[i] \in Batch
    BY <1>1
  <2> QED
    BY <1>1, <2>1, SubSeqProperties
<1>3. SubSeq(f, 1, Len(p)) \o SubSeq(f, Len(p) + 1, Len(f)) = SubSeq(f, 1, Len(f))
  <2>1. 1 \in 1..Len(f) + 1 /\ Len(p) \in (1 - 1)..Len(f) /\ Len(f) \in Len(p)..Len(f)
    BY <1>1
  <2> QED
    BY <2>1, ConcatAdjacentSubSeq
<1>4. SubSeq(f, 1, Len(f)) = f
  BY SubSeqFull
<1> QED
  BY <1>1, <1>2, <1>3, <1>4, Zenon

LEMMA RefillFront ==
  ASSUME NEW q \in Seq(Batch), Increasing(q), NEW p \in Seq(Batch), IsFront(p, q),
         Len(p) <= MaxPending
  PROVE  Refill(p, q) = Cut(q) /\ IsFront(p, Cut(q))
<1>1. Len(p) \in 0..Len(q) /\ SubSeq(q, 1, Len(p)) = p
  BY FrontIs
<1>2. Refill(SubSeq(q, 1, Len(p)), q) = Cut(q)
  BY <1>1, RefillCut
<1>3. IsFront(p, Cut(q))
  <2>1. \A i \in 1..Len(p) : p[i] = q[i]
    BY DEF IsFront
  <2>2. Len(p) <= Len(Cut(q)) /\ Len(Cut(q)) \in Nat /\ Len(p) \in Nat
    BY <1>1, CutOf
  <2>3. \A i \in 1..Len(Cut(q)) : Cut(q)[i] = q[i]
    BY CutOf
  <2> QED
    BY <2>1, <2>2, <2>3 DEF IsFront
<1> QED
  BY <1>1, <1>2, <1>3, Zenon

\* What was sent and what is sent now is the pipeline as it is now.
LEMMA SendMore ==
  ASSUME NEW r \in Seq(Batch), NEW s \in Seq(Batch), NEW p \in Seq(Batch),
         NEW f \in Seq(Batch), NEW new \in Seq(Batch), Joins(p, new, f), IsFront(p, f)
  PROVE  /\ s \o new \in Seq(Batch)
         /\ Joins(r, s, p) => Joins(r, s \o new, f)
         /\ IsPrefix(r, p) => IsPrefix(r, f)
         /\ new = <<>> => f = p
         /\ f = <<>> => p = <<>> /\ new = <<>>
<1>1. s \o new \in Seq(Batch)
  BY ConcatProperties
<1>2. Joins(r, s, p) => Joins(r, s \o new, f)
  BY Regroup, Zenon
<1>3. IsPrefix(r, p) => IsPrefix(r, f)
  BY PrefixGrows, Zenon DEF IsFront
<1>4. new = <<>> => f = p
  <2>1. p \o <<>> = p
    BY ConcatEmptySeq
  <2> QED
    BY <2>1 DEF Joins
<1>5. f = <<>> => p = <<>> /\ new = <<>>
  <2>1. Len(p \o new) = Len(p) + Len(new) /\ Len(p) \in Nat /\ Len(new) \in Nat
    BY ConcatProperties
  <2> QED
    BY <2>1 DEF Joins
<1> QED
  BY <1>1, <1>2, <1>3, <1>4, <1>5

\* FillWritePipeline makes the pipeline the front of the queue again.
LEMMA FillEffect ==
  ASSUME NEW on \in BOOLEAN, NEW q \in Seq(Batch), Increasing(q),
         NEW p \in Seq(Batch), IsFront(p, q), Len(p) <= MaxPending,
         NEW c \in ConnSet, ~on => p = <<>>, TypeStream, TypeAuth, BusyBefore,
         IF handshake
           THEN IsOpen(stream) /\ (~c.ended => p = c.replies \o c.requests)
                /\ IsPrefix(c.replies, p)
           ELSE c.requests = <<>> /\ c.replies = <<>> /\ ~c.ended /\ p = pipeline,
         on \/ p = pipeline, idle => p = <<>>, NeededIsStarted,
         c.ended => Len(c.replies) < Len(p),
         FillWritePipeline(on, p, q, c)
  PROVE  /\ pipeline' = (IF on THEN Cut(q) ELSE <<>>) /\ pipeline' \in Seq(Batch)
         /\ handshake' = handshake /\ closes' = closes /\ idle' \in BOOLEAN
         /\ stream' \in StreamStates /\ conn' \in ConnSet
         /\ conn'.user = c.user /\ conn'.replies = c.replies /\ conn'.ended = c.ended
         /\ ResultsInStep' /\ NeededIsStarted' /\ BusyBefore'
         /\ \/ /\ stream = "Initial" /\ stream' = "Starting"
               /\ tokens' = tokens \cup {[closes |-> closes', users |-> {auth}]}
            \/ (stream' = "Starting" <=> stream = "Starting") /\ tokens' = tokens
<1> DEFINE filled == IF on THEN Refill(p, q) ELSE p
           new == SubSeq(filled, Len(p) + 1, Len(filled))
           sends == IsOpen(stream) /\ handshake /\ new # <<>>
<1>1. filled = (IF on THEN Cut(q) ELSE <<>>) /\ filled \in Seq(Batch) /\ IsFront(p, filled)
  <2>1. CASE on
    BY <2>1, RefillFront, CutOf
  <2>2. CASE ~on
    BY <2>2 DEF IsFront
  <2> QED
    BY <2>1, <2>2
<1>3. /\ pipeline' = filled /\ handshake' = handshake /\ closes' = closes
      /\ conn' = IF sends THEN [c EXCEPT !.requests = @ \o new] ELSE c
      /\ idle' = (~sends /\ (idle \/ (on /\ IsOpen(stream) /\ filled = <<>>)))
      /\ StartIfNeeded(stream, filled, on, closes, tokens)
  BY DEF FillWritePipeline
<1> HIDE DEF filled
<1>4. /\ c.requests \in Seq(Batch) /\ c.replies \in Seq(Batch) /\ c.ended \in BOOLEAN
  BY DEF ConnSet
<1>14. new \in Seq(Batch) /\ Joins(p, new, filled) /\ IsFront(p, filled)
  BY <1>1, FrontAndRest DEF Joins
<1> HIDE DEF new
<1>15. /\ c.requests \o new \in Seq(Batch)
       /\ Joins(c.replies, c.requests, p) => Joins(c.replies, c.requests \o new, filled)
       /\ IsPrefix(c.replies, p) => IsPrefix(c.replies, filled)
       /\ new = <<>> => filled = p
       /\ filled = <<>> => p = <<>> /\ new = <<>>
  BY <1>1, <1>4, <1>14, SendMore
<1>5. handshake => /\ ~c.ended => Joins(c.replies, c.requests \o new, filled)
                   /\ IsPrefix(c.replies, filled)
  <2>1. handshake => (~c.ended => Joins(c.replies, c.requests, p)) /\ IsPrefix(c.replies, p)
    BY DEF Joins
  <2> QED
    BY <1>15, <2>1
<1>6. /\ conn' \in ConnSet /\ conn'.user = c.user /\ conn'.replies = c.replies
      /\ conn'.ended = c.ended
      /\ conn'.requests = IF sends THEN c.requests \o new ELSE c.requests
  <2>1. CASE sends
    BY <1>3, <1>4, <1>15, <2>1 DEF ConnSet
  <2>2. CASE ~sends
    BY <1>3, <1>4, <2>2 DEF ConnSet
  <2> QED
    BY <2>1, <2>2
<1>7. /\ stream' \in StreamStates
      /\ IsOpen(stream') <=> IsOpen(stream)
      /\ filled # <<>> => IsStarted(stream')
      /\ IsStarted(stream') => IsStarted(stream) \/ filled # <<>>
      /\ \/ /\ stream = "Initial" /\ stream' = "Starting"
            /\ tokens' = tokens \cup {[closes |-> closes, users |-> {auth}]}
         \/ (stream' = "Starting" <=> stream = "Starting") /\ tokens' = tokens
  <2>1. CASE on /\ filled # <<>>
    BY <1>3, <2>1 DEF StartIfNeeded, TypeStream, StreamStates, IsOpen, IsStarted
  <2>2. CASE ~(on /\ filled # <<>>)
    <3>1. stream' = stream /\ tokens' = tokens
      BY <1>3, <2>2 DEF StartIfNeeded
    <3>2. filled # <<>> => FALSE
      BY <1>1, <2>2
    <3> QED
      BY <3>1, <3>2 DEF TypeStream
  <2> QED
    BY <2>1, <2>2
<1>8. ResultsInStep'
  <2>1. CASE handshake
    <3>1. CASE sends
      BY <1>3, <1>5, <1>6, <1>7, <2>1, <3>1 DEF ResultsInStep, Joins
    <3>2. CASE ~sends
      <4>1. filled = p
        BY <1>3, <1>15, <2>1, <3>2
      <4> QED
        BY <1>3, <1>6, <1>7, <2>1, <3>2, <4>1 DEF ResultsInStep
    <3> QED
      BY <3>1, <3>2
  <2>2. CASE ~handshake
    BY <1>3, <1>6, <2>2 DEF ResultsInStep
  <2> QED
    BY <2>1, <2>2
<1>9. BusyBefore'
  <2>1. p # <<>> => filled # <<>>
    BY <1>15
  <2>2. c.ended => Len(c.replies) < Len(filled)
    BY <1>1, <1>4 DEF IsFront
  <2>3. IsStarted(stream') /\ ~handshake' => pipeline' # <<>>
    BY <1>3, <1>7, <2>1 DEF BusyBefore
  <2>4. conn'.ended => Len(conn'.replies) < Len(pipeline')
    BY <1>3, <1>6, <2>2
  <2> QED
    BY <2>3, <2>4 DEF BusyBefore
<1>10. NeededIsStarted'
  <2>1. pipeline' # <<>> => IsStarted(stream')
    BY <1>3, <1>7
  <2>2. idle' <=> IsOpen(stream') /\ pipeline' = <<>>
    <3>1. CASE sends
      <4>1. filled # <<>>
        <5>2. filled = <<>> => new = <<>>
          BY <1>15
        <5> QED
          BY <3>1, <5>2
      <4> QED
        BY <1>3, <3>1, <4>1
    <3>2. CASE ~sends
      <4>1. CASE idle
        <5>1. IsOpen(stream) /\ pipeline = <<>> /\ p = <<>>
          BY <4>1 DEF NeededIsStarted
        <5>2. handshake
          BY <5>1 DEF BusyBefore, IsOpen, IsStarted
        <5>3. filled = <<>>
          BY <1>15, <3>2, <5>1, <5>2
        <5> QED
          BY <1>3, <1>7, <3>2, <4>1, <5>1, <5>3
      <4>2. CASE ~idle
        <5>1. IsOpen(stream) /\ filled = <<>> => on
          <6>1. filled = <<>> => p = <<>>
            BY <1>15
          <6> QED
            BY <4>2, <6>1 DEF NeededIsStarted
        <5> QED
          BY <1>3, <1>7, <3>2, <4>2, <5>1
      <4> QED
        BY <4>1, <4>2
    <3> QED
      BY <3>1, <3>2
  <2> QED
    BY <2>1, <2>2 DEF NeededIsStarted
<1>11. idle' \in BOOLEAN
  BY <1>3
<1> QED
  BY <1>1, <1>3, <1>6, <1>7, <1>8, <1>9, <1>10, <1>11

\* The stream and its tokens after a step: the stream asks for a token, or is
\* closed first, or goes on as it was.
Asks == tokens' = tokens \cup {[closes |-> closes', users |-> {auth}]}

StreamMoves ==
  \/ closes' = closes /\ stream # "Starting" /\ stream' = "Starting" /\ Asks
  \/ closes' = closes /\ (stream' = "Starting" <=> stream = "Starting") /\ tokens' = tokens
  \/ closes' = closes + 1 /\ stream' = "Starting" /\ Asks
  \/ closes' = closes + 1 /\ stream' # "Starting" /\ tokens' = tokens

\* RestartNetwork fills the pipeline anew, on a stream that is started anew.
LEMMA RestartEffect ==
  ASSUME NEW q \in Seq(Batch), Increasing(q), TypeStream, TypeAuth, NeededIsStarted,
         ResultsInStep, RestartNetwork(q)
  PROVE  /\ pipeline' = Cut(q) /\ TypeStream' /\ StreamMoves /\ handshake' = FALSE
         /\ ResultsInStep' /\ NeededIsStarted' /\ BusyBefore'
<1>1. Refill(<<>>, q) = Cut(q) /\ Cut(q) \in Seq(Batch)
  BY RefillNothing, CutOf
<1>2. CASE IsStarted(stream)
  <2>1. CloseStream("Initial", Cut(q), TRUE)
    BY <1>1, <1>2 DEF RestartNetwork
  <2> QED
    BY <1>1, <2>1, CloseEffect DEF TypeStream, TypeAuth, StreamMoves, Asks
<1>3. CASE ~IsStarted(stream)
  <2>1. /\ pipeline' = Cut(q) /\ StartIfNeeded("Initial", Cut(q), TRUE, closes, tokens)
        /\ handshake' = handshake /\ idle' = idle /\ closes' = closes /\ conn' = conn
    BY <1>1, <1>3 DEF RestartNetwork
  <2>2. /\ ~IsOpen(stream) /\ stream # "Starting" /\ ~idle /\ ~handshake
    BY <1>3 DEF IsStarted, IsOpen, NeededIsStarted, ResultsInStep
  <2>3. /\ stream' \in {"Initial", "Starting"} /\ (stream' = "Starting" <=> Cut(q) # <<>>)
        /\ IF stream' = "Starting" THEN Asks ELSE tokens' = tokens
    BY <2>1 DEF StartIfNeeded, Asks
  <2>4. ResultsInStep' /\ NeededIsStarted' /\ BusyBefore'
    BY <2>1, <2>2, <2>3 DEF ResultsInStep, NeededIsStarted, BusyBefore, IsStarted, IsOpen
  <2>5. TypeStream'
    BY <1>1, <2>1, <2>3 DEF TypeStream, StreamStates
  <2>6. StreamMoves
    BY <2>1, <2>2, <2>3 DEF StreamMoves
  <2>7. handshake' = FALSE
    BY <2>1, <2>2 DEF TypeStream
  <2> QED
    BY <2>1, <2>4, <2>5, <2>6, <2>7
<1> QED
  BY <1>2, <1>3

LEMMA TaskTail ==
  ASSUME tasks \in Seq(TaskSet), tasks # <<>>
  PROVE  /\ Head(tasks) = tasks[1] /\ tasks[1] \in TaskSet /\ 1 \in DOMAIN tasks
         /\ Tail(tasks) \in Seq(TaskSet)
         /\ \A i \in DOMAIN Tail(tasks) :
              i + 1 \in DOMAIN tasks /\ i + 1 # 1 /\ Tail(tasks)[i] = tasks[i + 1]
         /\ \A i \in DOMAIN tasks :
              i = 1 \/ \E j \in DOMAIN Tail(tasks) : Tail(tasks)[j] = tasks[i]
         /\ \A i, j \in DOMAIN Tail(tasks) : i + 1 = j + 1 => i = j
<1>1. /\ Head(tasks) = tasks[1] /\ tasks[1] \in TaskSet /\ 1 \in DOMAIN tasks
      /\ Tail(tasks) \in Seq(TaskSet) /\ Len(tasks) \in Nat /\ Len(tasks) > 0
      /\ DOMAIN tasks = 1..Len(tasks)
  OBVIOUS
<1>2. /\ Len(Tail(tasks)) = Len(tasks) - 1 /\ DOMAIN Tail(tasks) = 1..(Len(tasks) - 1)
      /\ \A i \in 1..(Len(tasks) - 1) : Tail(tasks)[i] = tasks[i + 1]
  BY <1>1, HeadTailProperties
<1>3. ASSUME NEW i \in DOMAIN tasks, i # 1
      PROVE  \E j \in DOMAIN Tail(tasks) : Tail(tasks)[j] = tasks[i]
  <2>1. i - 1 \in 1..(Len(tasks) - 1) /\ (i - 1) + 1 = i
    BY <1>1, <1>3
  <2> QED
    BY <1>2, <2>1
<1>4. \A i \in DOMAIN Tail(tasks) :
        i + 1 \in DOMAIN tasks /\ i + 1 # 1 /\ Tail(tasks)[i] = tasks[i + 1]
  BY <1>1, <1>2
<1>5. \A i, j \in DOMAIN Tail(tasks) : i + 1 = j + 1 => i = j
  BY <1>2
<1> QED
  BY <1>1, <1>3, <1>4, <1>5

-----------------------------------------------------------------------------
(* Tokens and what becomes of them *)

LEMMA TokenFields ==
  ASSUME NEW t \in TokenSet
  PROVE  /\ t.closes \in Nat /\ t.users \in SUBSET Users
         /\ t = [closes |-> t.closes, users |-> t.users]
BY DEF TokenSet

\* The worker queue goes on by a task, or none, that is not the awaited token
\* unless the stream is closed; the stream moves as above.
LEMMA TokenStep ==
  ASSUME TypeStream, TypeAuth, TokenInv, StreamMoves,
         \/ tasks' = tasks
         \/ tasks # <<>> /\ tasks' = Tail(tasks) /\ (closes' = closes + 1 \/ ~ComingTask(1))
  PROVE  TokenInv' /\ tokens' \subseteq TokenSet
<1> DEFINE asked == [closes |-> closes', users |-> {auth}]
<1>0. /\ closes \in Nat /\ closes' \in Nat /\ closes <= closes' /\ asked \in TokenSet
      /\ asked.closes = closes' /\ asked.users = {auth}
      /\ closes' = closes \/ closes < closes'
  BY DEF TypeStream, TypeAuth, StreamMoves, TokenSet
<1>1. /\ \A t \in tokens : t \in tokens' /\ t \in TokenSet
      /\ \A t \in tokens' : t \in tokens \/ t = asked
      /\ asked \in tokens' => asked \in tokens \/ (stream' = "Starting" /\ Asks)
  BY DEF StreamMoves, Asks, TypeAuth
<1>2. tokens' \subseteq TokenSet
  BY <1>0, <1>1
<1>3. /\ \A i \in DOMAIN tasks' : \E j \in DOMAIN tasks : tasks'[i] = tasks[j]
      /\ closes' = closes => \A i \in DOMAIN tasks :
           ComingTask(i) => \E j \in DOMAIN tasks' : tasks'[j] = tasks[i]
  <2>1. CASE tasks' = tasks
    BY <2>1
  <2>2. CASE tasks # <<>> /\ tasks' = Tail(tasks) /\ (closes' = closes + 1 \/ ~ComingTask(1))
    <3>1. closes' = closes => ~ComingTask(1)
      BY <1>0, <2>2
    <3> QED
      BY <2>2, <3>1, TaskTail DEF TypeAuth
  <2> QED
    BY <2>1, <2>2
<1>4. \A i, j \in DOMAIN tasks' : ComingTask(i)' /\ ComingTask(j)' /\ closes' = closes => i = j
  <2>1. CASE tasks' = tasks
    BY <2>1 DEF TokenInv, ComingTask
  <2>2. CASE tasks # <<>> /\ tasks' = Tail(tasks)
    <3>1. ASSUME NEW i \in DOMAIN tasks', NEW j \in DOMAIN tasks',
                 ComingTask(i)', ComingTask(j)', closes' = closes
          PROVE  i = j
      <4>1. /\ i + 1 \in DOMAIN tasks /\ tasks'[i] = tasks[i + 1]
            /\ j + 1 \in DOMAIN tasks /\ tasks'[j] = tasks[j + 1]
            /\ i + 1 = j + 1 => i = j
        BY <2>2, TaskTail DEF TypeAuth
      <4>2. ComingTask(i + 1) /\ ComingTask(j + 1)
        BY <3>1, <4>1 DEF ComingTask
      <4>3. i + 1 = j + 1
        BY <4>1, <4>2 DEF TokenInv
      <4> QED
        BY <4>1, <4>3
    <3> QED
      BY <3>1
  <2> QED
    BY <2>1, <2>2
<1>5. \A t \in tokens' : t.closes <= closes'
  <2>1. \A t \in tokens : t.closes \in Nat /\ t.closes <= closes
    BY <1>1, TokenFields DEF TokenInv
  <2> QED
    BY <1>0, <1>1, <2>1
<1>6. \A i \in DOMAIN tasks' : tasks'[i].kind = "token" => tasks'[i].closes <= closes'
  <2>1. \A i \in DOMAIN tasks : tasks[i].closes \in Nat
    <3>1. \A i \in DOMAIN tasks : tasks[i] \in TaskSet
      BY DEF TypeAuth
    <3> QED
      BY <3>1 DEF TaskSet
  <2> QED
    BY <1>0, <1>3, <2>1 DEF TokenInv
<1>7. CASE closes' = closes
  <2>1. stream' # "Starting" => tokens' = tokens /\ stream # "Starting"
    BY <1>0, <1>7 DEF StreamMoves
  <2>2. stream' = "Starting" /\ stream = "Starting" => tokens' = tokens
    BY <1>0, <1>7 DEF StreamMoves
  <2>3. stream' = "Starting" /\ stream # "Starting" => tokens' = tokens \cup {asked}
    BY <1>0, <1>7 DEF StreamMoves, Asks
  <2>4. stream # "Starting" =>
          /\ \A t \in tokens : ~Coming(t)
          /\ \A i \in DOMAIN tasks : ~ComingTask(i)
    BY DEF TokenInv, TokenIsComing, Coming, ComingTask
  <2>5. TokenIsComing'
    <3>1. CASE stream' = "Starting" /\ stream # "Starting"
      <4>1. asked \in tokens' /\ asked.closes = closes'
        BY <1>0, <2>3, <3>1
      <4> QED
        BY <3>1, <4>1 DEF TokenIsComing
    <3>2. CASE stream' = "Starting" /\ stream = "Starting"
      BY <1>3, <1>7, <2>2, <3>2 DEF TokenInv, TokenIsComing, ComingTask
    <3>3. CASE stream' # "Starting"
      BY <1>3, <1>7, <2>1, <2>4, <3>3 DEF TokenIsComing, Coming, ComingTask
    <3> QED
      BY <3>1, <3>2, <3>3
  <2>6. \A t1, t2 \in tokens' : Coming(t1)' /\ Coming(t2)' => t1 = t2
    <3>1. CASE stream' = "Starting" /\ stream # "Starting"
      BY <1>1, <1>7, <2>4, <3>1 DEF Coming
    <3>2. CASE tokens' = tokens
      BY <1>7, <3>2 DEF TokenInv, Coming
    <3> QED
      BY <2>1, <2>2, <3>1, <3>2
  <2>7. \A t \in tokens', i \in DOMAIN tasks' : ~(Coming(t)' /\ ComingTask(i)')
    <3>1. CASE stream' = "Starting" /\ stream # "Starting"
      BY <1>3, <1>7, <2>4, <3>1 DEF ComingTask
    <3>2. CASE tokens' = tokens
      BY <1>3, <1>7, <3>2 DEF TokenInv, Coming, ComingTask
    <3> QED
      BY <2>1, <2>2, <3>1, <3>2
  <2> QED
    BY <1>4, <1>5, <1>6, <1>7, <1>2, <2>5, <2>6, <2>7 DEF TokenInv
<1>8. CASE closes' = closes + 1
  <2>1. \A t \in tokens : t.closes # closes'
    <3>1. \A t \in tokens : t.closes \in Nat /\ t.closes <= closes
      BY <1>1, TokenFields DEF TokenInv
    <3> QED
      BY <1>0, <1>8, <3>1
  <2>2. \A i \in DOMAIN tasks' : ~ComingTask(i)'
    <3>1. \A i \in DOMAIN tasks : tasks[i].closes \in Nat /\ (tasks[i].kind = "token" => tasks[i].closes <= closes)
      <4>1. \A i \in DOMAIN tasks : tasks[i] \in TaskSet
        BY DEF TypeAuth
      <4> QED
        BY <4>1 DEF TaskSet, TokenInv
    <3>2. \A i \in DOMAIN tasks : ~(tasks[i].kind = "token" /\ tasks[i].closes = closes')
      BY <1>0, <1>8, <3>1
    <3> QED
      BY <1>3, <3>2 DEF ComingTask
  <2>3. \A t \in tokens' : Coming(t)' => t = asked /\ stream' = "Starting"
    BY <1>0, <1>1, <1>8, <2>1 DEF Coming
  <2>4. TokenIsComing'
    <3>1. stream' = "Starting" => asked \in tokens' /\ asked.closes = closes'
      BY <1>0, <1>8 DEF StreamMoves, Asks
    <3> QED
      BY <2>2, <2>3, <3>1 DEF TokenIsComing, Coming, ComingTask
  <2> QED
    BY <1>5, <1>6, <1>2, <2>2, <2>3, <2>4 DEF TokenInv
<1> QED
  BY <1>7, <1>8 DEF StreamMoves

\* A call of GetToken is answered: the token is on its way as a task.
LEMMA TokenAnswered ==
  ASSUME TypeStream, TypeAuth, TokenInv, NEW t \in tokens, NEW u \in SUBSET Users,
         GetToken(t, u)
  PROVE  TokenInv' /\ tokens' \subseteq TokenSet /\ tasks' \in Seq(TaskSet)
<1> DEFINE task == TokenTask(u, t.closes)
<1>1. /\ t \in TokenSet /\ t.closes \in Nat /\ task \in TaskSet /\ task.kind = "token"
      /\ task.closes = t.closes /\ t.closes <= closes /\ closes \in Nat
  <2>1. t \in TokenSet
    BY DEF TypeAuth
  <2> QED
    BY <2>1, TokenFields DEF TokenTask, TaskSet, TokenInv, TypeStream
<1>2. /\ tokens' = tokens \ {t} /\ tasks' = Append(tasks, task) /\ closes' = closes
      /\ stream' = stream
  BY DEF GetToken
<1> HIDE DEF task
<1>20. PICK n \in Nat : n = Len(tasks) + 1
  BY DEF TypeAuth
<1>3. /\ tasks' \in Seq(TaskSet) /\ n \in DOMAIN tasks' /\ tasks'[n] = task
      /\ \A i \in DOMAIN tasks : i \in DOMAIN tasks' /\ tasks'[i] = tasks[i]
  BY <1>1, <1>2, <1>20 DEF TypeAuth
<1>4. \A i \in DOMAIN tasks' : i \in DOMAIN tasks \/ i = n
  BY <1>1, <1>2, <1>20 DEF TypeAuth
<1>5. /\ \A i \in DOMAIN tasks : ComingTask(i)' <=> ComingTask(i)
      /\ \A r \in tokens : Coming(r)' <=> Coming(r)
      /\ ComingTask(n)' <=> Coming(t)
  BY <1>1, <1>2, <1>3 DEF ComingTask, Coming
<1>6. TokenIsComing'
  BY <1>2, <1>3, <1>4, <1>5 DEF TokenInv, TokenIsComing, Coming, ComingTask
<1>7. \A r \in tokens' : r.closes <= closes'
  BY <1>2 DEF TokenInv
<1>8. \A i \in DOMAIN tasks' : tasks'[i].kind = "token" => tasks'[i].closes <= closes'
  BY <1>1, <1>2, <1>3, <1>4 DEF TokenInv
<1>9. \A r1, r2 \in tokens' : Coming(r1)' /\ Coming(r2)' => r1 = r2
  BY <1>2, <1>5 DEF TokenInv
<1>10. \A r \in tokens', i \in DOMAIN tasks' : ~(Coming(r)' /\ ComingTask(i)')
  BY <1>2, <1>4, <1>5 DEF TokenInv
<1>11. \A i, j \in DOMAIN tasks' : ComingTask(i)' /\ ComingTask(j)' => i = j
  BY <1>2, <1>4, <1>5 DEF TokenInv
<1>12. tokens' \subseteq TokenSet
  BY <1>2 DEF TypeAuth
<1> QED
  BY <1>3, <1>6, <1>7, <1>8, <1>9, <1>10, <1>11, <1>12 DEF TokenInv

\* Calls whose answer will be for other users are the same calls.
LEMMA TokensRenamed ==
  ASSUME TypeAuth, TokenInv, closes' = closes, stream' = stream,
         \A r \in tokens' : r \in TokenSet /\ \E t \in tokens : t.closes = r.closes,
         \A t \in tokens : \E r \in tokens' : t.closes = r.closes,
         \A r1, r2 \in tokens' : Coming(r1)' /\ Coming(r2)' => r1 = r2,
         \/ tasks' = tasks
         \/ \E u \in Users : tasks' = Append(tasks, CredentialTask(u))
  PROVE  TokenInv' /\ tokens' \subseteq TokenSet /\ tasks' \in Seq(TaskSet)
<1>1. /\ tasks' \in Seq(TaskSet)
      /\ \A i \in DOMAIN tasks : i \in DOMAIN tasks' /\ tasks'[i] = tasks[i]
      /\ \A i \in DOMAIN tasks' : i \in DOMAIN tasks \/ tasks'[i].kind = "credential"
  <2>1. CASE tasks' = tasks
    BY <2>1 DEF TypeAuth
  <2>2. CASE \E u \in Users : tasks' = Append(tasks, CredentialTask(u))
    <3>1. PICK u \in Users : tasks' = Append(tasks, CredentialTask(u))
      BY <2>2
    <3>5. CredentialTask(u) \in TaskSet /\ CredentialTask(u).kind = "credential"
      BY DEF CredentialTask, TaskSet
    <3>2. PICK task \in TaskSet : task = CredentialTask(u) /\ task.kind = "credential"
      BY <3>5
    <3>3. tasks' = Append(tasks, task)
      BY <3>1, <3>2
    <3>4. /\ tasks' \in Seq(TaskSet)
          /\ \A i \in DOMAIN tasks : i \in DOMAIN tasks' /\ tasks'[i] = tasks[i]
          /\ \A i \in DOMAIN tasks' : i \in DOMAIN tasks \/ tasks'[i] = task
      BY <3>3 DEF TypeAuth
    <3> QED
      BY <3>2, <3>4
  <2> QED
    BY <2>1, <2>2
<1>2. /\ \A i \in DOMAIN tasks : ComingTask(i)' <=> ComingTask(i)
      /\ \A i \in DOMAIN tasks' : ComingTask(i)' => i \in DOMAIN tasks
  BY <1>1 DEF ComingTask
<1>3. TokenIsComing'
  BY <1>1, <1>2 DEF TokenInv, TokenIsComing, ComingTask
<1>4. \A r \in tokens' : r.closes <= closes'
  BY DEF TokenInv
<1>5. \A i \in DOMAIN tasks' : tasks'[i].kind = "token" => tasks'[i].closes <= closes'
  BY <1>1 DEF TokenInv
<1>6. \A r \in tokens', i \in DOMAIN tasks' : ~(Coming(r)' /\ ComingTask(i)')
  BY <1>2 DEF TokenInv, Coming
<1>7. \A i, j \in DOMAIN tasks' : ComingTask(i)' /\ ComingTask(j)' => i = j
  BY <1>2 DEF TokenInv
<1> QED
  BY <1>1, <1>3, <1>4, <1>5, <1>6, <1>7 DEF TokenInv

-----------------------------------------------------------------------------
(* The queues *)

LEMMA QueueFacts ==
  ASSUME TypeAuth, TypeStore, QueuesInv, NEW u \in Users
  PROVE  /\ queue[u] \in Seq(Batch) /\ Increasing(queue[u])
         /\ Batches(u) = ToSet(queue[u]) /\ Batches(u) \subseteq Batch
         /\ \A i \in DOMAIN queue[u] : queue[u][i] \in Batches(u)
<1>1. queue[u] \in Seq(Batch)
  BY DEF TypeStore
<1>2. Increasing(queue[u])
  BY DEF QueuesInv, IdsName, Increasing
<1> QED
  BY <1>1, <1>2 DEF Batches, ToSet

\* A batch that is newer than all goes to the end.
LEMMA IncreasingAppend ==
  ASSUME NEW q \in Seq(Batch), Increasing(q), NEW b \in Batch,
         \A c \in ToSet(q) : c.id < b.id /\ c.write < b.write
  PROVE  Increasing(Append(q, b)) /\ IsFront(q, Append(q, b))
<1>1. /\ Len(q) \in Nat /\ DOMAIN q = 1..Len(q) /\ DOMAIN Append(q, b) = 1..Len(q) + 1
      /\ Append(q, b)[Len(q) + 1] = b /\ \A i \in DOMAIN q : Append(q, b)[i] = q[i]
      /\ Len(Append(q, b)) = Len(q) + 1
  OBVIOUS
<1>2. \A i \in DOMAIN q : q[i].id < b.id /\ q[i].write < b.write
  BY DEF ToSet
<1> DEFINE r == Append(q, b)
<1>3. ASSUME NEW i \in DOMAIN r, NEW j \in DOMAIN r, i < j
      PROVE  r[i].id < r[j].id /\ r[i].write < r[j].write
  <2>1. i \in DOMAIN q /\ r[i] = q[i]
    BY <1>1, <1>3
  <2>2. CASE j = Len(q) + 1
    BY <1>1, <1>2, <2>1, <2>2
  <2>3. CASE j # Len(q) + 1
    <3>1. j \in DOMAIN q /\ r[j] = q[j]
      BY <1>1, <2>3
    <3> QED
      BY <1>3, <2>1, <3>1 DEF Increasing
  <2> QED
    BY <2>2, <2>3
<1>4. IsFront(q, r)
  BY <1>1 DEF IsFront
<1> QED
  BY <1>3, <1>4 DEF Increasing

LEMMA IncreasingTail ==
  ASSUME NEW q \in Seq(Batch), Increasing(q), q # <<>>
  PROVE  /\ Increasing(Tail(q)) /\ Tail(q) \in Seq(Batch)
         /\ ToSet(Tail(q)) = {b \in ToSet(q) : b.id # Head(q).id}
         /\ Head(q) \in ToSet(q) /\ Head(q) \in Batch
         /\ \A b \in ToSet(Tail(q)) : Head(q).id < b.id /\ Head(q).write < b.write
<1>1. /\ Len(q) \in Nat /\ Len(q) > 0 /\ DOMAIN q = 1..Len(q) /\ Head(q) = q[1]
      /\ Tail(q) \in Seq(Batch) /\ q[1] \in Batch
  OBVIOUS
<1>2. /\ DOMAIN Tail(q) = 1..(Len(q) - 1)
      /\ \A i \in 1..(Len(q) - 1) : Tail(q)[i] = q[i + 1]
  BY <1>1, HeadTailProperties
<1>3. Increasing(Tail(q))
  <2>1. ASSUME NEW i \in DOMAIN Tail(q), NEW j \in DOMAIN Tail(q), i < j
        PROVE  Tail(q)[i].id < Tail(q)[j].id /\ Tail(q)[i].write < Tail(q)[j].write
    <3>1. i + 1 \in DOMAIN q /\ j + 1 \in DOMAIN q /\ i + 1 < j + 1
      BY <1>1, <1>2, <2>1
    <3> QED
      BY <1>2, <3>1 DEF Increasing
  <2> QED
    BY <2>1 DEF Increasing
<1>4. \A b \in ToSet(Tail(q)) : Head(q).id < b.id /\ Head(q).write < b.write
  <2>1. ASSUME NEW i \in DOMAIN Tail(q)
        PROVE  q[1].id < Tail(q)[i].id /\ q[1].write < Tail(q)[i].write
    <3>1. 1 \in DOMAIN q /\ i + 1 \in DOMAIN q /\ 1 < i + 1
      BY <1>1, <1>2
    <3> QED
      BY <1>2, <3>1 DEF Increasing
  <2> QED
    BY <1>1, <2>1 DEF ToSet
<1>5. /\ \A x \in ToSet(Tail(q)) : x \in ToSet(q)
      /\ \A x \in ToSet(q) : x = Head(q) \/ x \in ToSet(Tail(q))
      /\ Head(q) \in ToSet(q)
  <2>1. Head(q) \in ToSet(q)
    BY <1>1 DEF ToSet
  <2> QED
    BY <2>1, HeadTail
<1>6. \A b \in ToSet(Tail(q)) : b.id # Head(q).id
  <2>1. Head(q).id \in Nat
    BY <1>1, BatchFields
  <2>2. \A b \in ToSet(Tail(q)) : b.id \in Nat
    <3>1. \A b \in ToSet(Tail(q)) : b \in Batch
      BY <1>1 DEF ToSet
    <3> QED
      BY <3>1, BatchFields
  <2> QED
    BY <1>4, <2>1, <2>2
<1>7. ToSet(Tail(q)) = {b \in ToSet(q) : b.id # Head(q).id}
  BY <1>5, <1>6
<1> QED
  BY <1>1, <1>3, <1>4, <1>5, <1>7

\* The front of the front is the front, less its first batch.
LEMMA CutTail ==
  ASSUME NEW q \in Seq(Batch), q # <<>>
  PROVE  /\ Tail(Cut(q)) \in Seq(Batch) /\ IsFront(Tail(Cut(q)), Tail(q))
         /\ Len(Tail(Cut(q))) <= MaxPending /\ Len(Tail(Cut(q))) \in Nat
<1>1. /\ Cut(q) \in Seq(Batch) /\ Cut(q) # <<>> /\ Len(Cut(q)) \in 0..Len(q)
      /\ Len(Cut(q)) <= MaxPending /\ \A i \in 1..Len(Cut(q)) : Cut(q)[i] = q[i]
  BY CutOf
<1> DEFINE p == Cut(q)
<1> HIDE DEF p
<1>2. /\ p \in Seq(Batch) /\ p # <<>> /\ Len(p) \in 0..Len(q) /\ Len(p) <= MaxPending
      /\ \A i \in 1..Len(p) : p[i] = q[i]
  BY <1>1 DEF p
<1>3. /\ Tail(p) \in Seq(Batch) /\ Len(Tail(p)) = Len(p) - 1
      /\ \A i \in 1..(Len(p) - 1) : Tail(p)[i] = p[i + 1]
  BY <1>2, HeadTailProperties
<1>4. /\ Len(Tail(q)) = Len(q) - 1 /\ \A i \in 1..(Len(q) - 1) : Tail(q)[i] = q[i + 1]
  BY HeadTailProperties
<1>5. Len(p) \in Nat /\ Len(q) \in Nat /\ Len(p) > 0 /\ Len(p) <= Len(q)
  BY <1>2
<1>6. \A i \in 1..(Len(p) - 1) : Tail(p)[i] = Tail(q)[i]
  <2>1. ASSUME NEW i \in 1..(Len(p) - 1) PROVE Tail(p)[i] = Tail(q)[i]
    <3>1. i \in 1..(Len(q) - 1) /\ i + 1 \in 1..Len(p)
      BY <1>5
    <3> QED
      BY <1>2, <1>3, <1>4, <3>1
  <2> QED
    BY <2>1
<1>7. Len(Tail(p)) <= Len(Tail(q)) /\ Len(Tail(p)) <= MaxPending /\ Len(Tail(p)) \in Nat
  BY <1>2, <1>3, <1>4, <1>5
<1>8. IsFront(Tail(p), Tail(q))
  BY <1>3, <1>6, <1>7 DEF IsFront
<1> QED
  BY <1>3, <1>7, <1>8 DEF p

-----------------------------------------------------------------------------
(* The invariant is inductive *)

LEMMA NoConnType ==
  /\ NoConn \in ConnSet /\ NoConn.requests = <<>> /\ NoConn.replies = <<>>
  /\ ~NoConn.ended /\ NoConn.user = {}
BY DEF NoConn, ConnSet

LEMMA InitInv == Init => Inv
<1> SUFFICES ASSUME Init PROVE Inv
  OBVIOUS
<1>1. TypeStream
  <2>1. /\ handshake = FALSE /\ idle = FALSE /\ pipeline = <<>> /\ stream = "Initial"
        /\ closes = 0 /\ conn = NoConn
    BY DEF Init
  <2>2. conn \in ConnSet
    BY <2>1, NoConnType, Zenon
  <2>3. pipeline \in Seq(Batch) /\ stream \in StreamStates /\ closes \in Nat
    BY <2>1 DEF StreamStates
  <2>4. handshake \in BOOLEAN /\ idle \in BOOLEAN
    BY <2>1, Zenon
  <2> QED
    BY <2>2, <2>3, <2>4, Zenon DEF TypeStream
<1>2. TypeAuth
  BY DEF Init, TypeAuth
<1>3. TypeStore
  BY DEF Init, TypeStore
<1>4. QueuesInv
  <2>1. \A u \in Users : queue[u] = <<>> /\ Batches(u) = {} /\ callbacks[u] = {}
    BY DEF Init, Batches
  <2> QED
    BY <2>1 DEF QueuesInv, IdsName
<1>5. StreamInv
  <2>1. PipelineIsFront
    <3>1. queue[user] = <<>> /\ pipeline = <<>> /\ enabled
      BY DEF Init
    <3>2. SubSeq(<<>>, 1, 0) = <<>>
      BY SubSeqEmpty
    <3>3. Len(<<>>) = 0 /\ 0 < MaxPending
      OBVIOUS
    <3> QED
      BY <3>1, <3>2, <3>3 DEF PipelineIsFront
  <2>2. ResultsInStep /\ NeededIsStarted /\ BusyBefore
    BY DEF Init, ResultsInStep, NeededIsStarted, BusyBefore, NoConn, IsStarted, IsOpen
  <2> QED
    BY <2>1, <2>2 DEF StreamInv
<1>6. TokenInv
  BY DEF Init, TokenInv, TokenIsComing, Coming, ComingTask
<1>7. TypeServer
  BY DEF Init, TypeServer
<1> QED
  BY <1>1, <1>2, <1>3, <1>4, <1>5, <1>6, <1>7 DEF Inv

\* The front of the pipeline is the front of the queue.
LEMMA FrontOfPipeline ==
  ASSUME Inv
  PROVE  /\ queue[user] \in Seq(Batch) /\ Increasing(queue[user])
         /\ pipeline = IF enabled THEN Cut(queue[user]) ELSE <<>>
         /\ IsFront(pipeline, queue[user]) /\ Len(pipeline) <= MaxPending
         /\ pipeline # <<>> =>
              enabled /\ queue[user] # <<>> /\ Head(pipeline) = Head(queue[user])
         /\ handshake /\ conn.replies # <<>> => pipeline # <<>> /\ ~idle
         /\ conn.ended => pipeline # <<>> /\ handshake
<1>1. user \in Users /\ pipeline \in Seq(Batch) /\ conn \in ConnSet
  BY DEF Inv, TypeAuth, TypeStream
<1>2. queue[user] \in Seq(Batch) /\ Increasing(queue[user])
  BY <1>1, QueueFacts DEF Inv
<1>3. pipeline = IF enabled THEN Cut(queue[user]) ELSE <<>>
  BY DEF Inv, StreamInv, PipelineIsFront, Cut
<1>4. IsFront(pipeline, queue[user]) /\ Len(pipeline) <= MaxPending
  <2>1. CASE enabled
    <3>1. pipeline = Cut(queue[user])
      BY <1>3, <2>1
    <3>2. /\ Len(pipeline) \in 0..Len(queue[user]) /\ Len(pipeline) <= MaxPending
          /\ \A i \in 1..Len(pipeline) : pipeline[i] = queue[user][i]
      BY <1>2, <3>1, CutOf, Zenon
    <3>3. Len(queue[user]) \in Nat
      BY <1>2
    <3> QED
      BY <3>2, <3>3 DEF IsFront
  <2>2. CASE ~enabled
    BY <1>2, <1>3, <2>2 DEF IsFront
  <2> QED
    BY <2>1, <2>2
<1>5. pipeline # <<>> => enabled /\ queue[user] # <<>> /\ Head(pipeline) = Head(queue[user])
  BY <1>2, <1>3, CutOf
<1>6. handshake /\ conn.replies # <<>> => pipeline # <<>> /\ ~idle
  <2>1. handshake => Len(conn.replies) <= Len(pipeline)
    BY DEF Inv, StreamInv, ResultsInStep, IsPrefix
  <2>2. conn.replies \in Seq(Batch) /\ (conn.replies # <<>> => Len(conn.replies) > 0)
    BY <1>1 DEF ConnSet
  <2> QED
    BY <1>1, <2>1, <2>2 DEF Inv, StreamInv, NeededIsStarted
<1>7. conn.ended => pipeline # <<>> /\ handshake
  <2>1. conn.replies \in Seq(Batch)
    BY <1>1 DEF ConnSet
  <2> QED
    BY <1>1, <2>1 DEF Inv, StreamInv, BusyBefore, ResultsInStep
<1> QED
  BY <1>2, <1>3, <1>4, <1>5, <1>6, <1>7

\* What a step makes of the store, if it leaves the queues alone.
LEMMA QueuesKept ==
  ASSUME TypeAuth, TypeStore, QueuesInv, queue' = queue, made' = made,
         callbacks' = callbacks \/ callbacks' = [u \in Users |-> {}],
         nextId' = nextId \/ nextId' \in NextIds(queue)
  PROVE  QueuesInv' /\ nextId' \in Nat \ {0} /\ callbacks' \in [Users -> SUBSET Batch]
<1>1. \A u \in Users : Batches(u)' = Batches(u)
  BY DEF Batches
<1>2. \A u \in Users : \A b \in Batches(u) : b.id < nextId'
  <2>1. CASE nextId' = nextId
    BY <2>1 DEF QueuesInv, IdsName
  <2>2. CASE nextId' \in NextIds(queue)
    <3>1. \A i \in UNION {IdsOf(queue[u]) : u \in Users} : i < nextId'
      BY <2>2 DEF NextIds
    <3> QED
      BY <3>1 DEF Batches, IdsOf
  <2> QED
    BY <2>1, <2>2
<1>3. callbacks' \in [Users -> SUBSET Batch] /\ \A u \in Users : callbacks'[u] \subseteq Batches(u)
  BY DEF QueuesInv, IdsName, TypeStore
<1>4. nextId' \in Nat \ {0}
  BY DEF NextIds, TypeStore
<1> QED
  BY <1>1, <1>2, <1>3, <1>4 DEF QueuesInv, IdsName

\* The first write of the queue leaves it, and its callback is called.
LEMMA HeadLeaves ==
  ASSUME Inv, pipeline # <<>>, NEW o \in Outcomes,
         queue' = [queue EXCEPT ![user] = RemoveBatch(queue[user], Head(pipeline).id)],
         NotifyUser(Head(pipeline).id, o), TriggerPendingWriteCallbacks(Head(pipeline).id),
         user' = user, nextId' = nextId, made' = made
  PROVE  /\ RemoveBatch(queue[user], Head(pipeline).id) = Tail(queue[user])
         /\ queue' = [queue EXCEPT ![user] = Tail(queue[user])]
         /\ Tail(queue[user]) \in Seq(Batch) /\ Increasing(Tail(queue[user]))
         /\ queue' \in [Users -> Seq(Batch)]
         /\ callbacks' \in [Users -> SUBSET Batch]
         /\ pending' \subseteq [id : Nat, awaits : SUBSET Writes]
         /\ answers' \subseteq [user : Users, write : Writes, outcome : Outcomes, again : BOOLEAN]
         /\ QueuesInv'
<1> DEFINE id == Head(pipeline).id
           q == queue[user]
<1>1. /\ user \in Users /\ q \in Seq(Batch) /\ Increasing(q) /\ q # <<>>
      /\ id = Head(q).id
  BY FrontOfPipeline DEF Inv, TypeAuth
<1>2. RemoveBatch(q, id) = Tail(q)
  BY <1>1, RemoveFirstBatch
<1>3. /\ Increasing(Tail(q)) /\ Tail(q) \in Seq(Batch)
      /\ ToSet(Tail(q)) = {b \in ToSet(q) : b.id # id}
  BY <1>1, IncreasingTail
<1>4. queue' = [queue EXCEPT ![user] = Tail(q)] /\ queue' \in [Users -> Seq(Batch)]
  BY <1>2, <1>3 DEF Inv, TypeStore
<1>5. /\ queue'[user] = Tail(q)
      /\ \A u \in Users : u # user => queue'[u] = queue[u]
  BY <1>1, <1>4 DEF Inv, TypeStore
<1>6. \A u \in Users :
        Batches(u)' = IF u = user THEN {b \in Batches(u) : b.id # id} ELSE Batches(u)
  <2>1. \A u \in Users : Batches(u)' = ToSet(queue'[u]) /\ Batches(u) = ToSet(queue[u])
    BY DEF Batches, ToSet
  <2> QED
    BY <1>3, <1>5, <2>1
<1>7. \A u \in Users : \A b \in Batches(u)' : b \in Batches(u)
  BY <1>6
<1>8. /\ callbacks' \in [Users -> SUBSET Batch]
      /\ callbacks'[user] = {c \in callbacks[user] : c.id # id}
      /\ \A u \in Users : u # user => callbacks'[u] = callbacks[u]
  BY <1>1 DEF Inv, TypeStore, NotifyUser
<1>9. answers' \subseteq [user : Users, write : Writes, outcome : Outcomes, again : BOOLEAN]
  <2>1. \A c \in callbacks[user] : c.write \in Writes
    BY <1>1, BatchFields DEF Inv, TypeStore
  <2>2. \A c \in callbacks[user] :
          Told(user, c.write, o) \in [user : Users, write : Writes, outcome : Outcomes, again : BOOLEAN]
    BY <1>1, <2>1 DEF Told
  <2> QED
    BY <2>2 DEF Inv, TypeServer, NotifyUser
<1>10. pending' \subseteq [id : Nat, awaits : SUBSET Writes]
  BY DEF Inv, TypeStore, TriggerPendingWriteCallbacks
<1>11. QueuesInv'
  <2>1. \A u \in Users : Increasing(queue[u])
    BY DEF Inv, QueuesInv, IdsName, Increasing
  <2>2. \A u \in Users : Increasing(queue'[u])
    BY <1>3, <1>5, <2>1
  <2>3. \A u \in Users : \A i, j \in DOMAIN queue'[u] :
          i < j => queue'[u][i].id < queue'[u][j].id /\ queue'[u][i].write < queue'[u][j].write
    BY <2>2 DEF Increasing
  <2>4. \A u \in Users : callbacks'[u] \subseteq Batches(u)'
    BY <1>6, <1>8 DEF Inv, QueuesInv, IdsName
  <2>5. /\ \A u \in Users : \A b \in Batches(u)' : b.id < nextId'
        /\ \A u \in Users : \A b \in Batches(u)' : b.write <= made'
    BY <1>7 DEF Inv, QueuesInv, IdsName
  <2>6. \A u, v \in Users : \A b \in Batches(u)', c \in Batches(v)' :
          (b.id = c.id => u = v) /\ (b.write = c.write => u = v)
    BY <1>7 DEF Inv, QueuesInv, IdsName
  <2> QED
    BY <2>3, <2>4, <2>5, <2>6 DEF QueuesInv, IdsName
<1> QED
  BY <1>2, <1>3, <1>4, <1>8, <1>9, <1>10, <1>11

\* The queue goes through its end.
LEMMA HeadEnters ==
  ASSUME Inv, WriteMutations
  PROVE  LET batch == [id |-> nextId, write |-> made + 1]
             q == Append(queue[user], batch)
         IN /\ q \in Seq(Batch) /\ Increasing(q) /\ IsFront(queue[user], q)
            /\ queue' = [queue EXCEPT ![user] = q]
            /\ QueuesInv' /\ TypeStore'
<1> DEFINE batch == [id |-> nextId, write |-> made + 1]
           q == Append(queue[user], batch)
<1>1. /\ user \in Users /\ queue[user] \in Seq(Batch) /\ Increasing(queue[user])
      /\ Batches(user) = ToSet(queue[user]) /\ nextId \in Nat \ {0} /\ made \in Nat
      /\ made < MaxWrites /\ made' = made + 1 /\ nextId' = nextId + 1
  BY QueueFacts DEF Inv, TypeAuth, TypeStore, TypeServer, WriteMutations
<1>2. /\ batch \in Batch /\ batch.id = nextId /\ batch.write = made + 1
  BY <1>1 DEF Batch, Writes
<1>3. \A u \in Users : \A b \in Batches(u) :
        b \in Batch /\ b.id \in Nat /\ b.id < nextId /\ b.write \in Nat /\ b.write <= made
  BY QueueFacts, BatchFields DEF Inv, QueuesInv, IdsName
<1>4. queue' = [queue EXCEPT ![user] = q] /\ pending' = pending /\ enabled' = enabled
      /\ callbacks' = IF \E c \in callbacks[user] : c.id = nextId THEN callbacks
                      ELSE [callbacks EXCEPT ![user] = @ \cup {batch}]
  BY DEF WriteMutations
<1> HIDE DEF batch
<1>5. /\ q \in Seq(Batch) /\ ToSet(q) = Batches(user) \cup {batch}
      /\ Increasing(q) /\ IsFront(queue[user], q)
  <2>1. \A c \in ToSet(queue[user]) : c.id < batch.id /\ c.write < batch.write
    BY <1>1, <1>2, <1>3
  <2> QED
    BY <1>1, <1>2, <2>1, IncreasingAppend, AppendSet
<1> HIDE DEF q
<1>6. /\ queue' \in [Users -> Seq(Batch)] /\ queue'[user] = q
      /\ \A u \in Users : u # user => queue'[u] = queue[u]
  BY <1>1, <1>4, <1>5 DEF Inv, TypeStore
<1>7. \A u \in Users :
        Batches(u)' = IF u = user THEN Batches(u) \cup {batch} ELSE Batches(u)
  <2>1. \A u \in Users : Batches(u)' = ToSet(queue'[u])
    BY DEF Batches, ToSet
  <2>2. \A u \in Users : Batches(u) = ToSet(queue[u])
    BY DEF Batches, ToSet
  <2> QED
    BY <1>5, <1>6, <2>1, <2>2
<1>8. callbacks' \in [Users -> SUBSET Batch]
      /\ \A u \in Users : callbacks'[u] \subseteq Batches(u)'
  <2>1. callbacks \in [Users -> SUBSET Batch] /\ \A u \in Users : callbacks[u] \subseteq Batches(u)
    BY DEF Inv, TypeStore, QueuesInv, IdsName
  <2>2. /\ callbacks'[user] \subseteq callbacks[user] \cup {batch}
        /\ \A u \in Users : u # user => callbacks'[u] = callbacks[u]
        /\ callbacks' \in [Users -> SUBSET Batch]
    BY <1>1, <1>2, <1>4, <2>1
  <2> QED
    BY <1>7, <2>1, <2>2
<1>9. TypeStore'
  BY <1>1, <1>4, <1>6, <1>8 DEF Inv, TypeStore
<1>10. QueuesInv'
  <2>1. \A u \in Users : Increasing(queue[u])
    BY DEF Inv, QueuesInv, IdsName, Increasing
  <2>2. \A u \in Users : Increasing(queue'[u])
    BY <1>5, <1>6, <2>1
  <2>3. \A u \in Users : \A i, j \in DOMAIN queue'[u] :
          i < j => queue'[u][i].id < queue'[u][j].id /\ queue'[u][i].write < queue'[u][j].write
    BY <2>2 DEF Increasing
  <2>4. \A u \in Users : \A b \in Batches(u)' :
          \/ b \in Batches(u) /\ b.id < nextId /\ b.write <= made /\ b.id \in Nat /\ b.write \in Nat
          \/ u = user /\ b = batch
    BY <1>3, <1>7
  <2>5. /\ \A u \in Users : \A b \in Batches(u)' : b.id < nextId'
        /\ \A u \in Users : \A b \in Batches(u)' : b.write <= made'
    BY <1>1, <1>2, <2>4
  <2>6. \A u, v \in Users : \A b \in Batches(u)', c \in Batches(v)' :
          (b.id = c.id => u = v) /\ (b.write = c.write => u = v)
    <3>1. ASSUME NEW u \in Users, NEW v \in Users, NEW b \in Batches(u)', NEW c \in Batches(v)',
                 b.id = c.id \/ b.write = c.write
          PROVE  u = v
      <4>1. CASE b \in Batches(u) /\ c \in Batches(v)
        BY <3>1, <4>1 DEF Inv, QueuesInv, IdsName
      <4>2. CASE (b \in Batches(u) /\ c = batch) \/ (b = batch /\ c \in Batches(v))
        BY <1>1, <1>2, <1>3, <3>1, <4>2
      <4>3. CASE u = user /\ v = user
        BY <4>3
      <4> QED
        BY <2>4, <4>1, <4>2, <4>3
    <3> QED
      BY <3>1
  <2> QED
    BY <1>8, <2>3, <2>5, <2>6 DEF QueuesInv, IdsName
<1> QED
  BY <1>4, <1>5, <1>9, <1>10 DEF q, batch

LEMMA StepWriteMutations ==
  ASSUME Inv, WriteMutations PROVE Inv'
<1> DEFINE batch == [id |-> nextId, write |-> made + 1]
           q == Append(queue[user], batch)
<1>1. /\ q \in Seq(Batch) /\ Increasing(q) /\ IsFront(queue[user], q)
      /\ queue' = [queue EXCEPT ![user] = q] /\ QueuesInv' /\ TypeStore'
  BY HeadEnters
<1>2. /\ FillWritePipeline(enabled, pipeline, q, conn)
      /\ user' = user /\ enabled' = enabled /\ tasks' = tasks /\ auth' = auth
      /\ notices' = notices /\ UNCHANGED <<serverVars, answers, waits, faults>>
      /\ made < MaxWrites /\ made' = made + 1
  BY DEF WriteMutations, authVars
<1> HIDE DEF q
<1>3. /\ pipeline \in Seq(Batch) /\ IsFront(pipeline, q) /\ Len(pipeline) <= MaxPending
      /\ ~enabled => pipeline = <<>>
  <2>1. /\ IsFront(pipeline, queue[user]) /\ Len(pipeline) <= MaxPending
        /\ ~enabled => pipeline = <<>>
    BY FrontOfPipeline
  <2>2. pipeline \in Seq(Batch) /\ queue[user] \in Seq(Batch)
    BY FrontOfPipeline DEF Inv, TypeStream
  <2> QED
    BY <1>1, <2>1, <2>2 DEF IsFront
<1>4. /\ pipeline' = (IF enabled THEN Cut(q) ELSE <<>>) /\ TypeStream' /\ StreamMoves
      /\ ResultsInStep' /\ NeededIsStarted' /\ BusyBefore'
  <2>1. /\ IF handshake
             THEN IsOpen(stream) /\ (~conn.ended => pipeline = conn.replies \o conn.requests)
                  /\ IsPrefix(conn.replies, pipeline)
             ELSE conn.requests = <<>> /\ conn.replies = <<>> /\ ~conn.ended /\ pipeline = pipeline
        /\ idle => pipeline = <<>>
        /\ conn.ended => Len(conn.replies) < Len(pipeline)
        /\ conn \in ConnSet /\ enabled \in BOOLEAN
    BY DEF Inv, StreamInv, ResultsInStep, NeededIsStarted, BusyBefore, TypeStream, TypeStore
  <2>2. /\ pipeline' = (IF enabled THEN Cut(q) ELSE <<>>) /\ pipeline' \in Seq(Batch)
        /\ handshake' = handshake /\ closes' = closes /\ idle' \in BOOLEAN
        /\ stream' \in StreamStates /\ conn' \in ConnSet
        /\ ResultsInStep' /\ NeededIsStarted' /\ BusyBefore'
        /\ \/ /\ stream = "Initial" /\ stream' = "Starting"
              /\ tokens' = tokens \cup {[closes |-> closes', users |-> {auth}]}
           \/ (stream' = "Starting" <=> stream = "Starting") /\ tokens' = tokens
    BY <1>1, <1>2, <1>3, <2>1, FillEffect DEF Inv, StreamInv
  <2> QED
    BY <2>2 DEF Inv, TypeStream, StreamMoves, Asks
<1>5. PipelineIsFront'
  <2>1. queue'[user'] = q
    BY <1>1, <1>2 DEF Inv, TypeAuth, TypeStore
  <2> QED
    BY <1>2, <1>4, <2>1 DEF PipelineIsFront, Cut
<1>6. TokenInv' /\ tokens' \subseteq TokenSet
  BY <1>2, <1>4, TokenStep DEF Inv
<1>7. TypeAuth'
  BY <1>2, <1>6 DEF Inv, TypeAuth
<1>8. TypeServer'
  BY <1>2 DEF Inv, TypeServer, serverVars
<1> QED
  BY <1>1, <1>4, <1>5, <1>6, <1>7, <1>8 DEF Inv, StreamInv

LEMMA StepRegister ==
  ASSUME Inv, RegisterPendingWritesCallback PROVE Inv'
<1>1. /\ UNCHANGED <<auth, notices, tasks, user, callbacks, queue, nextId, enabled, pipeline,
                     stream, handshake, idle, closes, conn, tokens, document, applied,
                     denied, answers, made, faults>>
      /\ waits < MaxWaits /\ waits' = waits + 1
  BY DEF RegisterPendingWritesCallback, authVars, storeVars, streamVars, serverVars
<1>2. pending' \subseteq [id : Nat, awaits : SUBSET Writes]
  <2>1. CASE queue[user] = <<>>
    BY <2>1 DEF RegisterPendingWritesCallback, Inv, TypeStore
  <2>2. CASE queue[user] # <<>>
    <3>1. queue[user] \in Seq(Batch) /\ Len(queue[user]) \in DOMAIN queue[user]
      BY <2>2, FrontOfPipeline
    <3>2. \A i \in DOMAIN queue[user] : queue[user][i] \in Batch
      BY <3>1
    <3>3. HighestUnacknowledgedBatchId(queue[user]) \in Nat
      BY <3>1, <3>2, BatchFields DEF HighestUnacknowledgedBatchId, Last
    <3>4. WritesOf(queue[user]) \in SUBSET Writes
      BY <3>2, BatchFields DEF WritesOf
    <3> QED
      BY <2>2, <3>3, <3>4 DEF RegisterPendingWritesCallback, Inv, TypeStore
  <2> QED
    BY <2>1, <2>2
<1>3. QueuesInv'
  BY <1>1, QueuesKept DEF Inv
<1>4. StreamInv'
  BY <1>1 DEF Inv, StreamInv, PipelineIsFront, ResultsInStep, NeededIsStarted, BusyBefore
<1>5. TokenInv'
  BY <1>1 DEF Inv, TokenInv, TokenIsComing, Coming, ComingTask
<1>6. TypeStream' /\ TypeAuth'
  BY <1>1 DEF Inv, TypeStream, TypeAuth
<1>7. TypeStore'
  BY <1>1, <1>2 DEF Inv, TypeStore
<1>8. TypeServer'
  BY <1>1 DEF Inv, TypeServer
<1> QED
  BY <1>3, <1>4, <1>5, <1>6, <1>7, <1>8 DEF Inv

\* Steps that leave the queues alone.
StoreKept == UNCHANGED <<user, callbacks, queue, nextId, enabled, pending, made>>

\* Steps of Auth, and tokens that are on their way.
LEMMA StepElsewhere ==
  ASSUME Inv, StoreKept, UNCHANGED <<pipeline, stream, handshake, idle, closes, conn>>,
         TokenInv', TypeAuth', TypeServer'
  PROVE  Inv'
<1>1. QueuesInv'
  BY QueuesKept DEF Inv, StoreKept
<1>2. StreamInv'
  BY DEF Inv, StoreKept, StreamInv, PipelineIsFront, ResultsInStep, NeededIsStarted, BusyBefore
<1>3. TypeStream' /\ TypeStore'
  BY DEF Inv, StoreKept, TypeStream, TypeStore
<1> QED
  BY <1>1, <1>2, <1>3 DEF Inv

\* The stream is closed, for a reason that is not about a write.
LEMMA StepClose ==
  ASSUME Inv, StoreKept, TypeServer', UNCHANGED <<auth, notices>>,
         \/ tasks' = tasks
         \/ tasks # <<>> /\ tasks' = Tail(tasks),
         NEW s \in {"Initial", "Error"}, CloseStream(s, pipeline, enabled)
  PROVE  Inv'
<1>1. /\ pipeline' = pipeline /\ TypeStream' /\ StreamMoves /\ closes' = closes + 1
      /\ ResultsInStep' /\ NeededIsStarted' /\ BusyBefore'
  <2>1. /\ pipeline \in Seq(Batch) /\ enabled \in BOOLEAN /\ (pipeline # <<>> => enabled)
        /\ closes \in Nat /\ auth \in Users /\ tokens \subseteq TokenSet
    BY FrontOfPipeline DEF Inv, TypeStream, TypeStore, TypeAuth
  <2> QED
    BY <2>1, CloseEffect DEF TypeStream, StreamMoves, Asks
<1>2. TokenInv' /\ tokens' \subseteq TokenSet
  BY <1>1, TokenStep DEF Inv
<1>3. tasks' \in Seq(TaskSet)
  BY TaskTail DEF Inv, TypeAuth
<1>4. TypeAuth'
  BY <1>2, <1>3 DEF Inv, TypeAuth, StoreKept
<1>5. QueuesInv'
  BY QueuesKept DEF Inv, StoreKept
<1>6. PipelineIsFront'
  BY <1>1 DEF Inv, StoreKept, StreamInv, PipelineIsFront
<1>7. TypeStore'
  BY DEF Inv, StoreKept, TypeStore
<1> QED
  BY <1>1, <1>2, <1>4, <1>5, <1>6, <1>7 DEF Inv, StreamInv

LEMMA StepTokenArrives ==
  ASSUME Inv, TokenArrives PROVE Inv'
<1>1. PICK t \in tokens, u \in SUBSET Users : GetToken(t, u) /\ faults' = faults
  <2>1. PICK t \in tokens : \E u \in t.users : GetToken(t, {u}) /\ faults' = faults
    BY DEF TokenArrives
  <2>2. t.users \in SUBSET Users
    BY TokenFields DEF Inv, TypeAuth
  <2> QED
    BY <2>1, <2>2
<1>2. TokenInv' /\ tokens' \subseteq TokenSet /\ tasks' \in Seq(TaskSet)
  BY <1>1, TokenAnswered DEF Inv
<1> QED
  BY <1>1, <1>2, StepElsewhere DEF GetToken, StoreKept, Inv, TypeAuth, TypeServer, authVars,
     engineVars, storeVars, serverVars

LEMMA StepTokenFails ==
  ASSUME Inv, TokenFails PROVE Inv'
<1>1. PICK t \in tokens : GetToken(t, {}) /\ faults < MaxFaults /\ faults' = faults + 1
  BY DEF TokenFails, Fault
<1>2. {} \in SUBSET Users
  OBVIOUS
<1>3. TokenInv' /\ tokens' \subseteq TokenSet /\ tasks' \in Seq(TaskSet)
  BY <1>1, <1>2, TokenAnswered DEF Inv
<1>4. /\ UNCHANGED <<pipeline, stream, handshake, idle, closes, conn, document, applied, denied>>
      /\ UNCHANGED <<auth, notices, answers, waits>> /\ StoreKept
  BY <1>1 DEF GetToken, StoreKept, authVars, engineVars, storeVars, serverVars
<1>5. TypeAuth'
  BY <1>3, <1>4 DEF Inv, TypeAuth, StoreKept
<1>6. TypeServer'
  BY <1>1, <1>4 DEF Inv, TypeServer, StoreKept
<1> QED
  BY <1>3, <1>4, <1>5, <1>6, StepElsewhere

LEMMA StepAuthStateDidChange ==
  ASSUME Inv, AuthStateDidChange PROVE Inv'
<1>1. /\ notices # <<>> /\ notices' = Tail(notices) /\ Head(notices) \in Users
      /\ tasks' = Append(tasks, CredentialTask(Head(notices)))
      /\ tokens' = {[t EXCEPT !.users = {auth}] : t \in tokens}
      /\ UNCHANGED <<auth, user, callbacks, pending, queue, nextId, enabled, pipeline, stream,
                     handshake, idle, closes, conn, document, applied, denied, answers, made,
                     waits, faults>>
      /\ auth \in Users
  BY DEF AuthStateDidChange, Inv, TypeAuth, engineVars, storeVars, serverVars, boundVars
<1>2. \A t \in tokens : /\ [t EXCEPT !.users = {auth}] \in TokenSet
                        /\ [t EXCEPT !.users = {auth}].closes = t.closes
  <2>1. \A t \in tokens : t \in TokenSet
    BY DEF Inv, TypeAuth
  <2> QED
    BY <1>1, <2>1 DEF TokenSet
<1>3. /\ \A r \in tokens' : r \in TokenSet /\ \E t \in tokens : t.closes = r.closes
      /\ \A t \in tokens : \E r \in tokens' : t.closes = r.closes
  BY <1>1, <1>2
<1>4. \A r1, r2 \in tokens' : Coming(r1)' /\ Coming(r2)' => r1 = r2
  <2>1. ASSUME NEW r1 \in tokens', NEW r2 \in tokens', Coming(r1)', Coming(r2)'
        PROVE  r1 = r2
    <3>1. PICK t1 \in tokens : r1 = [t1 EXCEPT !.users = {auth}]
      BY <1>1
    <3>2. PICK t2 \in tokens : r2 = [t2 EXCEPT !.users = {auth}]
      BY <1>1
    <3>3. Coming(t1) /\ Coming(t2)
      BY <1>1, <1>2, <2>1, <3>1, <3>2 DEF Coming
    <3>4. t1 = t2
      BY <3>3 DEF Inv, TokenInv
    <3> QED
      BY <3>1, <3>2, <3>4
  <2> QED
    BY <2>1
<1>5. TokenInv' /\ tokens' \subseteq TokenSet /\ tasks' \in Seq(TaskSet)
  BY <1>1, <1>3, <1>4, TokensRenamed DEF Inv
<1>6. TypeAuth'
  BY <1>1, <1>5 DEF Inv, TypeAuth
<1>7. TypeServer'
  BY <1>1 DEF Inv, TypeServer
<1> QED
  BY <1>1, <1>5, <1>6, <1>7, StepElsewhere DEF StoreKept

LEMMA StepUserChanges ==
  ASSUME Inv, NEW u \in Users, UserChanges(u) PROVE Inv'
<1>1. /\ notices' = Append(notices, u) /\ auth' = u
      /\ tokens' = {[t EXCEPT !.users = t.users \cup {u}] : t \in tokens}
      /\ UNCHANGED <<tasks, user, callbacks, pending, queue, nextId, enabled, pipeline, stream,
                     handshake, idle, closes, conn, document, applied, denied, answers, made,
                     waits>>
      /\ faults < MaxFaults /\ faults' = faults + 1
  BY DEF UserChanges, Fault, engineVars, storeVars, serverVars
<1>2. \A t \in tokens : /\ [t EXCEPT !.users = t.users \cup {u}] \in TokenSet
                        /\ [t EXCEPT !.users = t.users \cup {u}].closes = t.closes
  <2>1. \A t \in tokens : t \in TokenSet
    BY DEF Inv, TypeAuth
  <2> QED
    BY <2>1 DEF TokenSet
<1>3. /\ \A r \in tokens' : r \in TokenSet /\ \E t \in tokens : t.closes = r.closes
      /\ \A t \in tokens : \E r \in tokens' : t.closes = r.closes
  BY <1>1, <1>2
<1>4. \A r1, r2 \in tokens' : Coming(r1)' /\ Coming(r2)' => r1 = r2
  <2>1. ASSUME NEW r1 \in tokens', NEW r2 \in tokens', Coming(r1)', Coming(r2)'
        PROVE  r1 = r2
    <3>1. PICK t1 \in tokens : r1 = [t1 EXCEPT !.users = t1.users \cup {u}]
      BY <1>1
    <3>2. PICK t2 \in tokens : r2 = [t2 EXCEPT !.users = t2.users \cup {u}]
      BY <1>1
    <3>3. Coming(t1) /\ Coming(t2)
      BY <1>1, <1>2, <2>1, <3>1, <3>2 DEF Coming
    <3>4. t1 = t2
      BY <3>3 DEF Inv, TokenInv
    <3> QED
      BY <3>1, <3>2, <3>4
  <2> QED
    BY <2>1
<1>5. TokenInv' /\ tokens' \subseteq TokenSet /\ tasks' \in Seq(TaskSet)
  BY <1>1, <1>3, <1>4, TokensRenamed DEF Inv
<1>6. TypeAuth'
  BY <1>1, <1>5 DEF Inv, TypeAuth
<1>7. TypeServer'
  BY <1>1 DEF Inv, TypeServer
<1> QED
  BY <1>1, <1>5, <1>6, <1>7, StepElsewhere DEF StoreKept

LEMMA StepIdleTimeout ==
  ASSUME Inv, IdleTimeout PROVE Inv'
<1>1. TypeServer'
  BY DEF IdleTimeout, Inv, TypeServer, serverVars, boundVars
<1> QED
  BY <1>1, StepClose DEF IdleTimeout, StoreKept, authVars, engineVars, storeVars, boundVars

LEMMA StepConnectionBreaks ==
  ASSUME Inv, ConnectionBreaks PROVE Inv'
<1>1. TypeServer'
  BY DEF ConnectionBreaks, Fault, Inv, TypeServer, serverVars
<1> QED
  BY <1>1, StepClose DEF ConnectionBreaks, StoreKept, authVars, engineVars, storeVars

LEMMA StepBackoffElapsed ==
  ASSUME Inv, BackoffElapsed PROVE Inv'
<1>1. /\ stream = "Backoff" /\ StartIfNeeded("Initial", pipeline, TRUE, closes, tokens)
      /\ UNCHANGED <<auth, notices, tasks, user, callbacks, pending, queue, nextId, enabled,
                     pipeline, handshake, idle, closes, conn, document, applied, denied,
                     answers, made, waits, faults>>
  BY DEF BackoffElapsed, authVars, engineVars, storeVars, serverVars, boundVars
<1>2. /\ ~IsOpen(stream) /\ ~handshake /\ ~idle /\ pipeline # <<>>
  BY <1>1 DEF Inv, StreamInv, ResultsInStep, NeededIsStarted, BusyBefore, IsOpen, IsStarted
<1>3. stream' = "Starting" /\ Asks
  BY <1>1, <1>2 DEF StartIfNeeded, Asks
<1>4. StreamMoves
  BY <1>1, <1>3 DEF StreamMoves
<1>5. TokenInv' /\ tokens' \subseteq TokenSet
  BY <1>1, <1>4, TokenStep DEF Inv
<1>6. StreamInv'
  BY <1>1, <1>2, <1>3 DEF Inv, StreamInv, PipelineIsFront, ResultsInStep, NeededIsStarted,
     BusyBefore, IsOpen, IsStarted
<1>7. QueuesInv'
  BY <1>1, QueuesKept DEF Inv
<1>8. TypeStream' /\ TypeStore' /\ TypeAuth' /\ TypeServer'
  BY <1>1, <1>3, <1>5 DEF Inv, TypeStream, TypeStore, TypeAuth, TypeServer, StreamStates
<1> QED
  BY <1>5, <1>6, <1>7, <1>8 DEF Inv

LEMMA StepEnableNetwork ==
  ASSUME Inv, EnableNetwork PROVE Inv'
<1>1. /\ ~enabled /\ enabled' = TRUE /\ FillWritePipeline(TRUE, pipeline, queue[user], conn)
      /\ UNCHANGED <<auth, notices, tasks, user, callbacks, pending, queue, nextId, document,
                     applied, denied, answers, made, waits, faults>>
  BY DEF EnableNetwork, authVars, engineVars, storeVars, serverVars, boundVars
<1>2. /\ queue[user] \in Seq(Batch) /\ Increasing(queue[user]) /\ pipeline = <<>>
      /\ IsFront(pipeline, queue[user]) /\ Len(pipeline) <= MaxPending
      /\ pipeline \in Seq(Batch)
  BY <1>1, FrontOfPipeline DEF Inv, TypeStream
<1>3. /\ pipeline' = Cut(queue[user]) /\ TypeStream' /\ StreamMoves
      /\ ResultsInStep' /\ NeededIsStarted' /\ BusyBefore'
  <2>1. /\ IF handshake
             THEN IsOpen(stream) /\ (~conn.ended => pipeline = conn.replies \o conn.requests)
                  /\ IsPrefix(conn.replies, pipeline)
             ELSE conn.requests = <<>> /\ conn.replies = <<>> /\ ~conn.ended /\ pipeline = pipeline
        /\ idle => pipeline = <<>>
        /\ conn.ended => Len(conn.replies) < Len(pipeline)
        /\ conn \in ConnSet
    BY DEF Inv, StreamInv, ResultsInStep, NeededIsStarted, BusyBefore, TypeStream
  <2>2. /\ pipeline' = Cut(queue[user]) /\ pipeline' \in Seq(Batch)
        /\ handshake' = handshake /\ closes' = closes /\ idle' \in BOOLEAN
        /\ stream' \in StreamStates /\ conn' \in ConnSet
        /\ ResultsInStep' /\ NeededIsStarted' /\ BusyBefore'
        /\ \/ /\ stream = "Initial" /\ stream' = "Starting"
              /\ tokens' = tokens \cup {[closes |-> closes', users |-> {auth}]}
           \/ (stream' = "Starting" <=> stream = "Starting") /\ tokens' = tokens
    BY <1>1, <1>2, <2>1, FillEffect DEF Inv, StreamInv
  <2> QED
    BY <2>2 DEF Inv, TypeStream, StreamMoves, Asks
<1>4. PipelineIsFront'
  BY <1>1, <1>3 DEF PipelineIsFront, Cut
<1>5. TokenInv' /\ tokens' \subseteq TokenSet
  BY <1>1, <1>3, TokenStep DEF Inv
<1>6. QueuesInv'
  BY <1>1, QueuesKept DEF Inv
<1>7. TypeAuth' /\ TypeStore' /\ TypeServer'
  <2>1. TypeAuth'
    BY <1>1, <1>5 DEF Inv, TypeAuth
  <2>2. TypeStore'
    BY <1>1 DEF Inv, TypeStore
  <2>3. TypeServer'
    BY <1>1 DEF Inv, TypeServer
  <2> QED
    BY <2>1, <2>2, <2>3
<1> QED
  BY <1>3, <1>4, <1>5, <1>6, <1>7 DEF Inv, StreamInv

LEMMA StepConnectivityChanges ==
  ASSUME Inv, ConnectivityChanges PROVE Inv'
<1>1. /\ enabled /\ RestartNetwork(queue[user]) /\ faults < MaxFaults /\ faults' = faults + 1
      /\ UNCHANGED <<auth, notices, tasks, user, callbacks, pending, queue, nextId, enabled,
                     document, applied, denied, answers, made, waits>>
  BY DEF ConnectivityChanges, Fault, authVars, engineVars, storeVars, serverVars
<1>2. queue[user] \in Seq(Batch) /\ Increasing(queue[user])
  BY FrontOfPipeline
<1>3. /\ pipeline' = Cut(queue[user]) /\ TypeStream' /\ StreamMoves
      /\ ResultsInStep' /\ NeededIsStarted' /\ BusyBefore'
  BY <1>1, <1>2, RestartEffect DEF Inv, StreamInv
<1>4. PipelineIsFront'
  BY <1>1, <1>3 DEF PipelineIsFront, Cut
<1>5. TokenInv' /\ tokens' \subseteq TokenSet
  BY <1>1, <1>3, TokenStep DEF Inv
<1>6. QueuesInv'
  BY <1>1, QueuesKept DEF Inv
<1>7. TypeAuth' /\ TypeStore' /\ TypeServer'
  <2>1. TypeAuth'
    BY <1>1, <1>5 DEF Inv, TypeAuth
  <2>2. TypeStore'
    BY <1>1 DEF Inv, TypeStore
  <2>3. TypeServer'
    BY <1>1 DEF Inv, TypeServer
  <2> QED
    BY <2>1, <2>2, <2>3
<1> QED
  BY <1>3, <1>4, <1>5, <1>6, <1>7 DEF Inv, StreamInv

LEMMA StepHandleCredentialChange ==
  ASSUME Inv, HandleCredentialChange PROVE Inv'
<1>1. /\ tasks # <<>> /\ Head(tasks).kind = "credential" /\ tasks' = Tail(tasks)
      /\ user' \in Head(tasks).user
      /\ pending' = pending \/ pending' = {}
      /\ nextId' = nextId \/ nextId' \in NextIds(queue)
      /\ IF enabled THEN RestartNetwork(queue[user'])
                    ELSE UNCHANGED <<pipeline, stream, handshake, idle, closes, conn, tokens>>
      /\ UNCHANGED <<auth, notices, callbacks, queue, enabled, document, applied, denied,
                     answers, made, waits, faults>>
  BY DEF HandleCredentialChange, authVars, streamVars, serverVars, boundVars
<1>2. /\ user' \in Users /\ Tail(tasks) \in Seq(TaskSet) /\ ~ComingTask(1)
  <2>1. /\ Head(tasks) = tasks[1] /\ tasks[1] \in TaskSet /\ Tail(tasks) \in Seq(TaskSet)
    BY <1>1, TaskTail DEF Inv, TypeAuth
  <2> QED
    BY <1>1, <2>1 DEF TaskSet, ComingTask
<1>3. queue[user'] \in Seq(Batch) /\ Increasing(queue[user'])
  BY <1>2, QueueFacts DEF Inv
<1>4. /\ pipeline' = (IF enabled THEN Cut(queue[user']) ELSE <<>>) /\ TypeStream' /\ StreamMoves
      /\ ResultsInStep' /\ NeededIsStarted' /\ BusyBefore'
  <2>1. CASE enabled
    BY <1>1, <1>3, <2>1, RestartEffect DEF Inv, StreamInv
  <2>2. CASE ~enabled
    <3>1. pipeline = <<>>
      BY <2>2, FrontOfPipeline
    <3> QED
      BY <1>1, <2>2, <3>1 DEF Inv, TypeStream, StreamInv, StreamMoves, ResultsInStep,
         NeededIsStarted, BusyBefore
  <2> QED
    BY <2>1, <2>2
<1>5. PipelineIsFront'
  BY <1>1, <1>4 DEF PipelineIsFront, Cut
<1>6. TokenInv' /\ tokens' \subseteq TokenSet
  BY <1>1, <1>2, <1>4, TokenStep DEF Inv
<1>7. QueuesInv' /\ nextId' \in Nat \ {0}
  BY <1>1, QueuesKept DEF Inv
<1>8. TypeAuth'
  BY <1>1, <1>2, <1>6 DEF Inv, TypeAuth
<1>9. TypeStore' /\ TypeServer'
  BY <1>1, <1>7 DEF Inv, TypeStore, TypeServer
<1> QED
  BY <1>4, <1>5, <1>6, <1>7, <1>8, <1>9 DEF Inv, StreamInv

LEMMA StepResume ==
  ASSUME Inv, ResumeStartWithCredentials PROVE Inv'
<1> DEFINE task == Head(tasks)
<1>1. /\ tasks # <<>> /\ task.kind = "token" /\ tasks' = Tail(tasks) /\ StoreKept
      /\ UNCHANGED <<auth, notices, enabled, document, applied, denied, answers, waits, faults>>
  BY DEF ResumeStartWithCredentials, StoreKept, authVars, engineVars, storeVars, serverVars,
     boundVars
<1>2. /\ task = tasks[1] /\ 1 \in DOMAIN tasks /\ task \in TaskSet
      /\ Tail(tasks) \in Seq(TaskSet)
  BY <1>1, TaskTail DEF Inv, TypeAuth
<1>3. TypeServer'
  BY <1>1 DEF Inv, TypeServer, StoreKept
<1>4. CASE task.closes = closes /\ task.user = {} /\ CloseStream("Error", pipeline, enabled)
  BY <1>1, <1>3, <1>4, StepClose
<1>5. CASE task.closes # closes /\ UNCHANGED <<pipeline, streamVars>>
  <2>1. UNCHANGED <<pipeline, stream, handshake, idle, closes, conn, tokens>>
    BY <1>5 DEF streamVars
  <2>2. StreamMoves /\ ~ComingTask(1)
    BY <1>2, <1>5, <2>1 DEF StreamMoves, ComingTask
  <2>3. TokenInv' /\ tokens' \subseteq TokenSet
    BY <1>1, <2>2, TokenStep DEF Inv
  <2>4. TypeAuth'
    BY <1>1, <1>2, <2>3 DEF Inv, TypeAuth, StoreKept
  <2> QED
    BY <1>1, <1>3, <2>1, <2>3, <2>4, StepElsewhere
<1>6. CASE /\ task.closes = closes /\ task.user # {} /\ stream' = "Open"
           /\ conn' = [NoConn EXCEPT !.user = task.user]
           /\ UNCHANGED <<pipeline, handshake, idle, closes, tokens>>
  <2>1. ComingTask(1)
    BY <1>1, <1>2, <1>6 DEF ComingTask
  <2>2. stream = "Starting"
    BY <1>2, <2>1 DEF Inv, TokenInv, TokenIsComing, ComingTask
  <2>3. /\ ~handshake /\ ~idle /\ pipeline # <<>>
    BY <2>2 DEF Inv, StreamInv, ResultsInStep, NeededIsStarted, BusyBefore, IsOpen, IsStarted
  <2>4. /\ conn' \in ConnSet /\ conn'.requests = <<>> /\ conn'.replies = <<>> /\ ~conn'.ended
    BY <1>2, <1>6, NoConnType DEF ConnSet, TaskSet
  <2>5. StreamInv'
    BY <1>1, <1>6, <2>3, <2>4 DEF Inv, StreamInv, StoreKept, PipelineIsFront, ResultsInStep,
       NeededIsStarted, BusyBefore, IsOpen, IsStarted
  <2>6. /\ \A t \in tokens : ~Coming(t)
        /\ \A i \in DOMAIN tasks : ComingTask(i) => i = 1
    BY <1>2, <2>1 DEF Inv, TokenInv
  <2>7. /\ \A t \in tokens' : ~Coming(t)' /\ t.closes <= closes'
        /\ \A i \in DOMAIN tasks' : ~ComingTask(i)'
        /\ \A i \in DOMAIN tasks' : tasks'[i].kind = "token" => tasks'[i].closes <= closes'
    <3>1. \A i \in DOMAIN tasks' : i + 1 \in DOMAIN tasks /\ i + 1 # 1 /\ tasks'[i] = tasks[i + 1]
      BY <1>1, TaskTail DEF Inv, TypeAuth
    <3>2. \A t \in tokens' : ~Coming(t)' /\ t.closes <= closes'
      BY <1>6, <2>6 DEF Inv, TokenInv, Coming
    <3>3. \A i \in DOMAIN tasks' : ~ComingTask(i)'
      BY <1>6, <2>6, <3>1 DEF ComingTask
    <3>4. \A i \in DOMAIN tasks' : tasks'[i].kind = "token" => tasks'[i].closes <= closes'
      BY <1>6, <3>1 DEF Inv, TokenInv
    <3> QED
      BY <3>2, <3>3, <3>4
  <2>8. TokenInv'
    BY <1>6, <2>7 DEF TokenInv, TokenIsComing, Coming, ComingTask
  <2>9. QueuesInv'
    BY <1>1, QueuesKept DEF Inv, StoreKept
  <2>10. TypeAuth' /\ TypeStream' /\ TypeStore'
    BY <1>1, <1>2, <1>6, <2>4 DEF Inv, TypeAuth, TypeStream, TypeStore, StoreKept, StreamStates
  <2> QED
    BY <1>3, <2>5, <2>8, <2>9, <2>10 DEF Inv
<1> QED
  BY <1>4, <1>5, <1>6 DEF ResumeStartWithCredentials

\* A step of the connection that leaves alone all else.
LEMMA StepConnection ==
  ASSUME Inv, StoreKept, TypeServer', ResultsInStep', BusyBefore', NeededIsStarted', TypeStream',
         UNCHANGED <<auth, notices, tasks, tokens, enabled, pipeline, stream, closes>>
  PROVE  Inv'
<1>1. PipelineIsFront'
  BY DEF Inv, StreamInv, PipelineIsFront, StoreKept
<1>2. TokenInv'
  BY DEF Inv, TokenInv, TokenIsComing, Coming, ComingTask
<1>3. QueuesInv'
  BY QueuesKept DEF Inv, StoreKept
<1>4. TypeAuth' /\ TypeStore'
  BY DEF Inv, TypeAuth, TypeStore, StoreKept
<1> QED
  BY <1>1, <1>2, <1>3, <1>4 DEF Inv, StreamInv

LEMMA StepHandshake ==
  ASSUME Inv, OnWriteStreamHandshakeComplete PROVE Inv'
<1>1. /\ IsOpen(stream) /\ ~handshake /\ handshake' = TRUE
      /\ conn' = [conn EXCEPT !.requests = pipeline] /\ idle' = (idle /\ pipeline = <<>>)
      /\ StoreKept
      /\ UNCHANGED <<auth, notices, tasks, enabled, pipeline, stream, closes, tokens, document,
                     applied, denied, answers, waits, faults>>
  BY DEF OnWriteStreamHandshakeComplete, StoreKept, authVars, engineVars, storeVars,
     serverVars, boundVars
<1>2. /\ conn.replies = <<>> /\ ~conn.ended /\ conn \in ConnSet /\ pipeline \in Seq(Batch)
      /\ pipeline # <<>> /\ ~idle
  BY <1>1 DEF Inv, StreamInv, ResultsInStep, BusyBefore, NeededIsStarted, TypeStream, IsOpen,
     IsStarted
<1>3. /\ conn' \in ConnSet /\ conn'.requests = pipeline /\ conn'.replies = <<>>
      /\ ~conn'.ended
  BY <1>1, <1>2 DEF ConnSet
<1>4. ResultsInStep'
  <2>1. <<>> \o pipeline = pipeline
    BY <1>2, ConcatEmptySeq
  <2>2. IsPrefix(<<>>, pipeline)
    <3>1. Len(<<>>) = 0 /\ 0 <= Len(pipeline)
      BY <1>2
    <3>2. SubSeq(<<>>, 1, 0) = <<>> /\ SubSeq(pipeline, 1, 0) = <<>>
      BY SubSeqEmpty
    <3> QED
      BY <3>1, <3>2, Zenon DEF IsPrefix
  <2> QED
    BY <1>1, <1>3, <2>1, <2>2 DEF ResultsInStep
<1>5. BusyBefore' /\ NeededIsStarted' /\ TypeStream' /\ TypeServer'
  BY <1>1, <1>2, <1>3 DEF Inv, StreamInv, BusyBefore, NeededIsStarted, TypeStream, TypeServer,
     StoreKept, IsOpen, IsStarted
<1> QED
  BY <1>1, <1>4, <1>5, StepConnection

\* The first request: what it is and where it is in the pipeline.
LEMMA FirstRequest ==
  ASSUME Inv, conn.requests # <<>>, ~conn.ended
  PROVE  /\ handshake /\ conn \in ConnSet /\ Head(conn.requests) \in Batch
         /\ Tail(conn.requests) \in Seq(Batch)
         /\ Append(conn.replies, Head(conn.requests)) \in Seq(Batch)
         /\ pipeline = Append(conn.replies, Head(conn.requests)) \o Tail(conn.requests)
         /\ Len(conn.replies) < Len(pipeline)
         /\ pipeline[Len(conn.replies) + 1] = Head(conn.requests)
         /\ IsPrefix(Append(conn.replies, Head(conn.requests)), pipeline)
         /\ IsPrefix(conn.replies, pipeline)
<1> DEFINE r == conn.replies
           s == conn.requests
<1>1. /\ handshake /\ conn \in ConnSet /\ r \in Seq(Batch) /\ s \in Seq(Batch) /\ s # <<>>
      /\ pipeline = r \o s /\ IsPrefix(r, pipeline) /\ pipeline \in Seq(Batch)
  BY DEF Inv, StreamInv, ResultsInStep, TypeStream, ConnSet
<1> HIDE DEF r, s
<1>2. /\ Head(s) \in Batch /\ Tail(s) \in Seq(Batch) /\ Len(s) \in Nat /\ Len(s) > 0
      /\ Len(Tail(s)) = Len(s) - 1 /\ Head(s) = s[1]
      /\ \A i \in 1..(Len(s) - 1) : Tail(s)[i] = s[i + 1]
  BY <1>1, HeadTailProperties
<1> DEFINE a == Append(r, Head(s))
<1>3. /\ a \in Seq(Batch) /\ Len(a) = Len(r) + 1 /\ Len(r) \in Nat
      /\ a[Len(r) + 1] = Head(s) /\ \A i \in 1..Len(r) : a[i] = r[i]
  BY <1>1, <1>2
<1> HIDE DEF a
<1>4. /\ Len(pipeline) = Len(r) + Len(s)
      /\ \A i \in 1..Len(r) + Len(s) : pipeline[i] = IF i <= Len(r) THEN r[i] ELSE s[i - Len(r)]
  BY <1>1, ConcatProperties
<1> DEFINE t == a \o Tail(s)
<1>5. /\ t \in Seq(Batch) /\ Len(t) = Len(a) + Len(Tail(s))
      /\ \A i \in 1..Len(a) + Len(Tail(s)) :
           t[i] = IF i <= Len(a) THEN a[i] ELSE Tail(s)[i - Len(a)]
  BY <1>2, <1>3, ConcatProperties
<1> HIDE DEF t
<1>6. pipeline = t
  <2>1. ASSUME NEW i \in 1..Len(pipeline) PROVE pipeline[i] = t[i]
    <3>1. CASE i <= Len(r)
      <4>1. i \in 1..Len(r) /\ i <= Len(a) /\ i \in 1..Len(a) + Len(Tail(s))
        BY <1>2, <1>3, <1>4, <3>1
      <4>2. pipeline[i] = r[i] /\ a[i] = r[i]
        BY <1>3, <1>4, <3>1, <4>1
      <4>3. t[i] = a[i]
        BY <1>5, <4>1
      <4> QED
        BY <4>2, <4>3
    <3>2. CASE i = Len(r) + 1
      <4>1. i - Len(r) = 1
        BY <1>3, <3>2
      <4> QED
        BY <1>2, <1>3, <1>4, <1>5, <3>2, <4>1
    <3>3. CASE i > Len(r) + 1
      <4>1. i - Len(a) \in 1..(Len(s) - 1) /\ (i - Len(a)) + 1 = i - Len(r)
        BY <1>2, <1>3, <1>4, <3>3
      <4> QED
        <5>1. pipeline[i] = s[i - Len(r)]
          BY <1>3, <1>4, <3>3
        <5>2. t[i] = Tail(s)[i - Len(a)]
          <6>1. i \in 1..Len(a) + Len(Tail(s)) /\ ~(i <= Len(a))
            BY <1>2, <1>3, <1>4, <3>3
          <6> QED
            BY <1>5, <6>1
        <5>3. Tail(s)[i - Len(a)] = s[(i - Len(a)) + 1]
          BY <1>2, <4>1
        <5> QED
          BY <4>1, <5>1, <5>2, <5>3, Zenon
    <3> QED
      BY <1>3, <3>1, <3>2, <3>3
  <2>2. Len(pipeline) = Len(t)
    BY <1>2, <1>3, <1>4, <1>5
  <2> QED
    BY <1>1, <1>5, <2>1, <2>2, SeqEqual
<1>7. Len(r) < Len(pipeline) /\ pipeline[Len(r) + 1] = Head(s)
  <2>1. (Len(r) + 1) - Len(r) = 1
    BY <1>3
  <2> QED
    BY <1>2, <1>3, <1>4, <2>1
<1>8. IsPrefix(a, pipeline)
  <2>1. Len(a) <= Len(pipeline) /\ \A i \in 1..Len(a) : a[i] = pipeline[i]
    <3>1. \A i \in 1..Len(a) : i \in 1..Len(r) \/ i = Len(r) + 1
      BY <1>3
    <3>2. \A i \in 1..Len(r) : r[i] = pipeline[i]
      BY <1>2, <1>3, <1>4
    <3> QED
      BY <1>2, <1>3, <1>4, <1>7, <3>1, <3>2
  <2> QED
    BY <1>1, <1>3, <2>1, PrefixIs
<1> QED
  BY <1>1, <1>2, <1>3, <1>6, <1>7, <1>8 DEF t, a, r, s

LEMMA StepApply ==
  ASSUME Inv, Apply PROVE Inv'
<1> DEFINE batch == Head(conn.requests)
<1>1. /\ conn.requests # <<>> /\ ~conn.ended
      /\ document' = [document EXCEPT ![user] = batch.write]
      /\ applied' = applied \cup {batch.write}
      /\ conn' = [conn EXCEPT !.requests = Tail(conn.requests),
                             !.replies = Append(conn.replies, batch)]
      /\ StoreKept
      /\ UNCHANGED <<auth, notices, tasks, enabled, pipeline, stream, handshake, idle, closes,
                     tokens, denied, answers, waits, faults>>
  BY DEF Apply, StoreKept, authVars, engineVars, storeVars, boundVars
<1>2. /\ handshake /\ conn \in ConnSet /\ batch \in Batch
      /\ Tail(conn.requests) \in Seq(Batch) /\ Append(conn.replies, batch) \in Seq(Batch)
      /\ pipeline = Append(conn.replies, batch) \o Tail(conn.requests)
      /\ IsPrefix(Append(conn.replies, batch), pipeline)
  BY <1>1, FirstRequest
<1>3. /\ conn' \in ConnSet /\ conn'.requests = Tail(conn.requests)
      /\ conn'.replies = Append(conn.replies, batch) /\ ~conn'.ended
  BY <1>1, <1>2 DEF ConnSet
<1>4. ResultsInStep'
  <2>1. IsOpen(stream)
    BY <1>2 DEF Inv, StreamInv, ResultsInStep
  <2> QED
    BY <1>1, <1>2, <1>3, <2>1 DEF ResultsInStep
<1>5. BusyBefore' /\ NeededIsStarted' /\ TypeStream'
  BY <1>1, <1>2, <1>3 DEF Inv, StreamInv, BusyBefore, NeededIsStarted, TypeStream
<1>6. TypeServer'
  <2>1. batch.write \in Writes /\ batch.write \in 0..MaxWrites
    BY <1>2, BatchFields DEF Writes
  <2> QED
    BY <1>1, <2>1 DEF Inv, TypeServer, StoreKept
<1> QED
  BY <1>1, <1>4, <1>5, <1>6, StepConnection

LEMMA StepDeny ==
  ASSUME Inv, Deny PROVE Inv'
<1> DEFINE batch == Head(conn.requests)
<1>1. /\ conn.requests # <<>> /\ ~conn.ended
      /\ denied' = denied \cup {batch.write}
      /\ conn' = [conn EXCEPT !.requests = Tail(conn.requests), !.ended = TRUE]
      /\ StoreKept
      /\ UNCHANGED <<auth, notices, tasks, enabled, pipeline, stream, handshake, idle, closes,
                     tokens, document, applied, answers, waits, faults>>
  BY DEF Deny, StoreKept, authVars, engineVars, storeVars, boundVars
<1>2. /\ handshake /\ conn \in ConnSet /\ batch \in Batch
      /\ Tail(conn.requests) \in Seq(Batch) /\ Len(conn.replies) < Len(pipeline)
      /\ IsPrefix(conn.replies, pipeline)
  BY <1>1, FirstRequest
<1>3. /\ conn' \in ConnSet /\ conn'.requests = Tail(conn.requests)
      /\ conn'.replies = conn.replies /\ conn'.ended
  BY <1>1, <1>2 DEF ConnSet
<1>4. ResultsInStep'
  <2>1. IsOpen(stream)
    BY <1>2 DEF Inv, StreamInv, ResultsInStep
  <2> QED
    BY <1>1, <1>2, <1>3, <2>1 DEF ResultsInStep
<1>5. BusyBefore' /\ NeededIsStarted' /\ TypeStream'
  BY <1>1, <1>2, <1>3 DEF Inv, StreamInv, BusyBefore, NeededIsStarted, TypeStream
<1>6. TypeServer'
  <2>1. batch.write \in Writes
    BY <1>2, BatchFields
  <2> QED
    BY <1>1, <2>1 DEF Inv, TypeServer, StoreKept
<1> QED
  BY <1>1, <1>4, <1>5, <1>6, StepConnection

LEMMA StepDisableNetwork ==
  ASSUME Inv, DisableNetwork PROVE Inv'
<1>1. /\ enabled' = FALSE /\ StopNetwork /\ faults < MaxFaults /\ faults' = faults + 1
      /\ UNCHANGED <<auth, notices, tasks, user, callbacks, pending, queue, nextId, document,
                     applied, denied, answers, made, waits>>
  BY DEF DisableNetwork, StopNetwork, Fault, authVars, engineVars, storeVars, serverVars
<1>2. /\ pipeline' = <<>> /\ TypeStream' /\ StreamMoves
      /\ ResultsInStep' /\ NeededIsStarted' /\ BusyBefore'
  <2>1. CASE IsStarted(stream)
    <3>1. CloseStream("Initial", <<>>, FALSE)
      BY <1>1, <2>1 DEF StopNetwork
    <3>2. /\ closes \in Nat /\ auth \in Users /\ tokens \subseteq TokenSet
          /\ <<>> \in Seq(Batch)
      BY DEF Inv, TypeStream, TypeAuth
    <3> QED
      BY <3>1, <3>2, CloseEffect DEF TypeStream, StreamMoves, Asks
  <2>2. CASE ~IsStarted(stream)
    <3>1. pipeline' = <<>> /\ UNCHANGED <<stream, handshake, idle, closes, conn, tokens>>
      BY <1>1, <2>2 DEF StopNetwork, streamVars
    <3> QED
      BY <2>2, <3>1 DEF Inv, TypeStream, StreamMoves, StreamInv, ResultsInStep, NeededIsStarted,
         BusyBefore, IsStarted, IsOpen
  <2> QED
    BY <2>1, <2>2
<1>3. PipelineIsFront'
  BY <1>1, <1>2 DEF PipelineIsFront
<1>4. TokenInv' /\ tokens' \subseteq TokenSet
  BY <1>1, <1>2, TokenStep DEF Inv
<1>5. QueuesInv'
  BY <1>1, QueuesKept DEF Inv
<1>6. TypeAuth' /\ TypeServer'
  BY <1>1, <1>4 DEF Inv, TypeAuth, TypeServer
<1>7. TypeStore'
  <2>1. enabled' \in BOOLEAN
    BY <1>1, Zenon
  <2> QED
    BY <1>1, <2>1 DEF Inv, TypeStore
<1> QED
  BY <1>2, <1>3, <1>4, <1>5, <1>6, <1>7 DEF Inv, StreamInv

\* A launch finds what LevelDB and Auth hold.
LEMMA StepRestart ==
  ASSUME Inv, Restart, TypeServer' PROVE Inv'
<1> DEFINE p == Refill(<<>>, queue[auth])
<1>1. /\ notices' = <<>> /\ tasks' = <<>> /\ user' = auth /\ callbacks' = [u \in Users |-> {}]
      /\ pending' = {} /\ nextId' \in NextIds(queue) /\ enabled' = TRUE /\ pipeline' = p
      /\ StartIfNeeded("Initial", p, TRUE, 0, {}) /\ handshake' = FALSE /\ idle' = FALSE
      /\ closes' = 0 /\ conn' = NoConn /\ auth' = auth /\ queue' = queue /\ made' = made
  BY DEF Restart
<1>2. auth \in Users /\ queue[auth] \in Seq(Batch) /\ Increasing(queue[auth])
  BY QueueFacts DEF Inv, TypeAuth
<1>3. p = Cut(queue[auth]) /\ p \in Seq(Batch)
  BY <1>2, RefillNothing, CutOf
<1> HIDE DEF p
<1>4. \/ p = <<>> /\ stream' = "Initial" /\ tokens' = {}
      \/ p # <<>> /\ stream' = "Starting" /\ tokens' = {[closes |-> 0, users |-> {auth}]}
  BY <1>1 DEF StartIfNeeded
<1>5. tokens' \subseteq TokenSet
  BY <1>2, <1>4 DEF TokenSet
<1>6. TokenInv'
  <2>1. \A t \in tokens' : t = [closes |-> 0, users |-> {auth}] /\ stream' = "Starting"
    BY <1>4
  <2>2. stream' = "Starting" => \E t \in tokens' : t.closes = 0
    <3>1. [closes |-> 0, users |-> {auth}].closes = 0
      OBVIOUS
    <3>2. stream' = "Starting" => [closes |-> 0, users |-> {auth}] \in tokens'
      BY <1>4
    <3> QED
      BY <3>1, <3>2, Zenon
  <2>3. DOMAIN tasks' = {}
    BY <1>1
  <2>4. TokenIsComing'
    BY <1>1, <2>1, <2>2, <2>3 DEF TokenIsComing
  <2>5. \A t \in tokens' : t.closes <= closes'
    <3>1. [closes |-> 0, users |-> {auth}].closes = 0
      OBVIOUS
    <3>2. \A t \in tokens' : t.closes = 0
      BY <2>1, <3>1, Zenon
    <3> QED
      BY <1>1, <3>2
  <2> QED
    BY <2>1, <2>3, <2>4, <2>5 DEF TokenInv
<1>7. ResultsInStep' /\ NeededIsStarted' /\ BusyBefore'
  BY <1>1, <1>4, NoConnType DEF ResultsInStep, NeededIsStarted, BusyBefore, IsStarted, IsOpen
<1>8. PipelineIsFront'
  BY <1>1, <1>3 DEF PipelineIsFront, Cut
<1>9. QueuesInv' /\ nextId' \in Nat \ {0} /\ callbacks' \in [Users -> SUBSET Batch]
  BY <1>1, QueuesKept DEF Inv
<1>10. TypeStream'
  <2>1. conn' \in ConnSet
    BY <1>1, NoConnType, Zenon
  <2>2. pipeline' \in Seq(Batch) /\ stream' \in StreamStates /\ closes' \in Nat
    BY <1>1, <1>3, <1>4 DEF StreamStates
  <2>3. handshake' \in BOOLEAN /\ idle' \in BOOLEAN
    BY <1>1, Zenon
  <2> QED
    BY <2>1, <2>2, <2>3, Zenon DEF TypeStream
<1>11. TypeAuth' /\ TypeStore'
  BY <1>1, <1>2, <1>5, <1>9 DEF Inv, TypeAuth, TypeStore
<1> QED
  BY <1>6, <1>7, <1>8, <1>9, <1>10, <1>11 DEF Inv, StreamInv

LEMMA StepCrash ==
  ASSUME Inv, Crash PROVE Inv'
<1>1. TypeServer'
  BY DEF Crash, Fault, Restart, serverVars, Inv, TypeServer
<1> QED
  BY <1>1, StepRestart DEF Crash

LEMMA StepCrashBeforeAcknowledging ==
  ASSUME Inv, CrashBeforeAcknowledging PROVE Inv'
<1>1. /\ answers' = answers \cup
           {Told(user, c.write, "done") : c \in {d \in callbacks[user] : d.id = Head(pipeline).id}}
      /\ Restart /\ faults < MaxFaults /\ faults' = faults + 1
      /\ UNCHANGED <<document, applied, denied>>
  BY DEF CrashBeforeAcknowledging, Fault, serverVars
<1>2. \A c \in callbacks[user] :
        Told(user, c.write, "done") \in [user : Users, write : Writes, outcome : Outcomes, again : BOOLEAN]
  BY BatchFields DEF Inv, TypeAuth, TypeStore, Told, Outcomes
<1>3. TypeServer'
  BY <1>1, <1>2 DEF Restart, Inv, TypeServer
<1> QED
  BY <1>1, <1>3, StepRestart

\* A result is read: what is left is in step with what is left.
LEMMA TailInStep ==
  ASSUME NEW S, NEW p \in Seq(S), NEW r \in Seq(S), NEW s \in Seq(S), p # <<>>, r # <<>>,
         IsPrefix(r, p)
  PROVE  /\ Tail(r) \in Seq(S) /\ Tail(p) \in Seq(S)
         /\ IsPrefix(Tail(r), Tail(p))
         /\ Joins(r, s, p) => Joins(Tail(r), s, Tail(p))
         /\ Len(r) < Len(p) => Len(Tail(r)) < Len(Tail(p))
<1>1. /\ Len(p) \in Nat /\ Len(r) \in Nat /\ Len(s) \in Nat /\ Len(p) > 0 /\ Len(r) > 0
      /\ Tail(r) \in Seq(S) /\ Tail(p) \in Seq(S)
  OBVIOUS
<1>2. /\ Len(Tail(r)) = Len(r) - 1 /\ \A i \in 1..(Len(r) - 1) : Tail(r)[i] = r[i + 1]
      /\ Len(Tail(p)) = Len(p) - 1 /\ \A i \in 1..(Len(p) - 1) : Tail(p)[i] = p[i + 1]
  BY <1>1, HeadTailProperties
<1>3. Len(r) <= Len(p) /\ \A i \in 1..Len(r) : r[i] = p[i]
  BY PrefixIs
<1>4. IsPrefix(Tail(r), Tail(p))
  <2>1. Len(Tail(r)) <= Len(Tail(p))
    BY <1>1, <1>2, <1>3
  <2>2. ASSUME NEW i \in 1..Len(Tail(r)) PROVE Tail(r)[i] = Tail(p)[i]
    <3>1. i \in 1..(Len(r) - 1) /\ i \in 1..(Len(p) - 1) /\ i + 1 \in 1..Len(r)
      BY <1>1, <1>2, <1>3
    <3> QED
      BY <1>2, <1>3, <3>1
  <2> QED
    BY <1>1, <2>1, <2>2, PrefixIs
<1>5. ASSUME Joins(r, s, p) PROVE Joins(Tail(r), s, Tail(p))
  <2>1. /\ Len(p) = Len(r) + Len(s)
        /\ \A i \in 1..Len(r) + Len(s) : p[i] = IF i <= Len(r) THEN r[i] ELSE s[i - Len(r)]
    BY <1>5, ConcatProperties DEF Joins
  <2> DEFINE t == Tail(r) \o s
  <2>2. /\ t \in Seq(S) /\ Len(t) = (Len(r) - 1) + Len(s)
        /\ \A i \in 1..(Len(r) - 1) + Len(s) :
             t[i] = IF i <= Len(r) - 1 THEN Tail(r)[i] ELSE s[i - (Len(r) - 1)]
    BY <1>1, <1>2, ConcatProperties
  <2> HIDE DEF t
  <2>3. ASSUME NEW i \in 1..Len(Tail(p)) PROVE Tail(p)[i] = t[i]
    <3>1. /\ Tail(p)[i] = p[i + 1] /\ i + 1 \in 1..Len(r) + Len(s)
          /\ i \in 1..(Len(r) - 1) + Len(s)
      BY <1>1, <1>2, <2>1
    <3>2. CASE i <= Len(r) - 1
      <4>1. i \in 1..(Len(r) - 1) /\ i + 1 <= Len(r)
        BY <1>1, <3>2
      <4>2. t[i] = Tail(r)[i] /\ Tail(r)[i] = r[i + 1]
        BY <1>2, <2>2, <3>1, <3>2, <4>1
      <4>3. p[i + 1] = r[i + 1]
        BY <2>1, <3>1, <4>1
      <4> QED
        BY <3>1, <4>2, <4>3, Zenon
    <3>3. CASE ~(i <= Len(r) - 1)
      <4>1. (i + 1) - Len(r) = i - (Len(r) - 1) /\ ~(i + 1 <= Len(r))
        BY <1>1, <3>1, <3>3
      <4>2. t[i] = s[i - (Len(r) - 1)]
        BY <2>2, <3>1, <3>3
      <4>3. p[i + 1] = s[(i + 1) - Len(r)]
        BY <2>1, <3>1, <4>1
      <4> QED
        BY <3>1, <4>1, <4>2, <4>3, Zenon
    <3> QED
      BY <3>2, <3>3
  <2>4. Len(Tail(p)) = Len(t)
    BY <1>1, <1>2, <2>1, <2>2
  <2>5. Tail(p) = t
    BY <1>1, <2>2, <2>3, <2>4, SeqEqual
  <2> QED
    BY <2>5, Zenon DEF t, Joins
<1>6. Len(r) < Len(p) => Len(Tail(r)) < Len(Tail(p))
  BY <1>1, <1>2
<1> QED
  BY <1>1, <1>4, <1>5, <1>6

\* The pipeline after its first batch has left it, and the one that sends.
LEMMA StepMutationResult ==
  ASSUME Inv, OnWriteStreamMutationResult PROVE Inv'
<1> DEFINE batch == Head(pipeline)
           q == Tail(queue[user])
           c == [conn EXCEPT !.replies = Tail(conn.replies)]
<1>1. /\ handshake /\ conn.replies # <<>> /\ NotifyUser(batch.id, "done")
      /\ TriggerPendingWriteCallbacks(batch.id)
      /\ queue' = [queue EXCEPT ![user] = RemoveBatch(queue[user], batch.id)]
      /\ FillWritePipeline(enabled, Tail(pipeline), RemoveBatch(queue[user], batch.id), c)
      /\ UNCHANGED <<auth, notices, tasks, user, nextId, enabled, document, applied, denied,
                     made, waits, faults>>
  BY DEF OnWriteStreamMutationResult, Acknowledged, authVars, serverVars, boundVars
<1>2. /\ pipeline # <<>> /\ ~idle /\ enabled /\ queue[user] # <<>>
      /\ queue[user] \in Seq(Batch) /\ pipeline = Cut(queue[user])
  BY <1>1, FrontOfPipeline
<1>3. /\ RemoveBatch(queue[user], batch.id) = q
      /\ queue' = [queue EXCEPT ![user] = q] /\ q \in Seq(Batch) /\ Increasing(q)
      /\ queue' \in [Users -> Seq(Batch)]
      /\ callbacks' \in [Users -> SUBSET Batch]
      /\ pending' \subseteq [id : Nat, awaits : SUBSET Writes]
      /\ answers' \subseteq [user : Users, write : Writes, outcome : Outcomes, again : BOOLEAN]
      /\ QueuesInv'
  <2>1. "done" \in Outcomes
    BY DEF Outcomes
  <2> QED
    BY <1>1, <1>2, <2>1, HeadLeaves
<1>4. FillWritePipeline(enabled, Tail(pipeline), q, c)
  BY <1>1, <1>3
<1> HIDE DEF q
<1>5. /\ Tail(pipeline) \in Seq(Batch) /\ IsFront(Tail(pipeline), q)
      /\ Len(Tail(pipeline)) <= MaxPending
  BY <1>2, CutTail DEF q
<1>6. /\ conn \in ConnSet /\ conn.replies \in Seq(Batch) /\ Tail(conn.replies) \in Seq(Batch)
      /\ c \in ConnSet /\ c.replies = Tail(conn.replies) /\ c.requests = conn.requests
      /\ c.ended = conn.ended
  <2>1. conn \in ConnSet /\ conn.replies \in Seq(Batch)
    BY DEF Inv, TypeStream, ConnSet
  <2>2. Tail(conn.replies) \in Seq(Batch)
    BY <1>1, <2>1
  <2> QED
    BY <2>1, <2>2 DEF ConnSet
<1> HIDE DEF c
<1>7. /\ IsOpen(stream) /\ IsPrefix(c.replies, Tail(pipeline))
      /\ ~c.ended => Tail(pipeline) = c.replies \o c.requests
      /\ c.ended => Len(c.replies) < Len(Tail(pipeline))
  <2>1. /\ IsOpen(stream) /\ IsPrefix(conn.replies, pipeline)
        /\ ~conn.ended => Joins(conn.replies, conn.requests, pipeline)
        /\ conn.ended => Len(conn.replies) < Len(pipeline)
    BY <1>1 DEF Inv, StreamInv, ResultsInStep, BusyBefore, Joins
  <2>2. pipeline \in Seq(Batch) /\ conn.requests \in Seq(Batch)
    BY <1>6 DEF Inv, TypeStream, ConnSet
  <2>3. /\ IsPrefix(Tail(conn.replies), Tail(pipeline))
        /\ Joins(conn.replies, conn.requests, pipeline) =>
             Joins(Tail(conn.replies), conn.requests, Tail(pipeline))
        /\ Len(conn.replies) < Len(pipeline) => Len(Tail(conn.replies)) < Len(Tail(pipeline))
    BY <1>1, <1>2, <1>6, <2>1, <2>2, TailInStep
  <2> QED
    BY <1>6, <2>1, <2>3 DEF Joins
<1>8. /\ pipeline' = Cut(q) /\ TypeStream' /\ StreamMoves
      /\ ResultsInStep' /\ NeededIsStarted' /\ BusyBefore'
  <2>1. /\ pipeline' = Cut(q) /\ pipeline' \in Seq(Batch)
        /\ handshake' = handshake /\ closes' = closes /\ idle' \in BOOLEAN
        /\ stream' \in StreamStates /\ conn' \in ConnSet
        /\ ResultsInStep' /\ NeededIsStarted' /\ BusyBefore'
        /\ \/ /\ stream = "Initial" /\ stream' = "Starting"
              /\ tokens' = tokens \cup {[closes |-> closes', users |-> {auth}]}
           \/ (stream' = "Starting" <=> stream = "Starting") /\ tokens' = tokens
    BY <1>1, <1>2, <1>3, <1>4, <1>5, <1>6, <1>7, FillEffect DEF Inv, StreamInv
  <2> QED
    BY <2>1 DEF Inv, TypeStream, StreamMoves, Asks
<1>9. PipelineIsFront'
  <2>1. queue'[user'] = q
    BY <1>1, <1>3 DEF Inv, TypeAuth, TypeStore
  <2>2. enabled' /\ pipeline' = Cut(q)
    BY <1>1, <1>2, <1>8
  <2> HIDE DEF q
  <2> QED
    BY <2>1, <2>2 DEF PipelineIsFront, Cut
<1>10. TokenInv' /\ tokens' \subseteq TokenSet
  BY <1>1, <1>8, TokenStep DEF Inv
<1>11. TypeAuth' /\ TypeStore' /\ TypeServer'
  BY <1>1, <1>3, <1>10 DEF Inv, TypeAuth, TypeStore, TypeServer
<1> QED
  BY <1>3, <1>8, <1>9, <1>10, <1>11 DEF Inv, StreamInv

LEMMA StepHandleWriteError ==
  ASSUME Inv, HandleWriteError PROVE Inv'
<1> DEFINE batch == Head(pipeline)
           q == Tail(queue[user])
<1>1. /\ conn.ended /\ NotifyUser(batch.id, "refused")
      /\ TriggerPendingWriteCallbacks(batch.id)
      /\ queue' = [queue EXCEPT ![user] = RemoveBatch(queue[user], batch.id)]
      /\ CloseStream("Initial", Refill(Tail(pipeline), RemoveBatch(queue[user], batch.id)), enabled)
      /\ UNCHANGED <<auth, notices, tasks, user, nextId, enabled, document, applied, denied,
                     made, waits, faults>>
  BY DEF HandleWriteError, Rejected, authVars, serverVars, boundVars
<1>2. /\ pipeline # <<>> /\ enabled /\ queue[user] # <<>>
      /\ queue[user] \in Seq(Batch) /\ pipeline = Cut(queue[user])
  BY <1>1, FrontOfPipeline
<1>3. /\ RemoveBatch(queue[user], batch.id) = q
      /\ queue' = [queue EXCEPT ![user] = q] /\ q \in Seq(Batch) /\ Increasing(q)
      /\ queue' \in [Users -> Seq(Batch)]
      /\ callbacks' \in [Users -> SUBSET Batch]
      /\ pending' \subseteq [id : Nat, awaits : SUBSET Writes]
      /\ answers' \subseteq [user : Users, write : Writes, outcome : Outcomes, again : BOOLEAN]
      /\ QueuesInv'
  <2>1. "refused" \in Outcomes
    BY DEF Outcomes
  <2> QED
    BY <1>1, <1>2, <2>1, HeadLeaves
<1> HIDE DEF q
<1>4. /\ Tail(pipeline) \in Seq(Batch) /\ IsFront(Tail(pipeline), q)
      /\ Len(Tail(pipeline)) <= MaxPending
  BY <1>2, CutTail DEF q
<1>5. Refill(Tail(pipeline), q) = Cut(q) /\ Cut(q) \in Seq(Batch)
  BY <1>3, <1>4, RefillFront, CutOf
<1>6. CloseStream("Initial", Cut(q), enabled)
  BY <1>1, <1>3, <1>5
<1>7. /\ pipeline' = Cut(q) /\ TypeStream' /\ StreamMoves
      /\ ResultsInStep' /\ NeededIsStarted' /\ BusyBefore'
  <2>1. closes \in Nat /\ auth \in Users /\ tokens \subseteq TokenSet /\ enabled \in BOOLEAN
    BY DEF Inv, TypeStream, TypeAuth, TypeStore
  <2> QED
    BY <1>2, <1>5, <1>6, <2>1, CloseEffect DEF TypeStream, StreamMoves, Asks
<1>8. PipelineIsFront'
  <2>1. queue'[user'] = q
    BY <1>1, <1>3 DEF Inv, TypeAuth, TypeStore
  <2>2. enabled' /\ pipeline' = Cut(q)
    BY <1>1, <1>2, <1>7
  <2> HIDE DEF q
  <2> QED
    BY <2>1, <2>2 DEF PipelineIsFront, Cut
<1>9. TokenInv' /\ tokens' \subseteq TokenSet
  BY <1>1, <1>7, TokenStep DEF Inv
<1>10. TypeAuth' /\ TypeStore' /\ TypeServer'
  BY <1>1, <1>3, <1>9 DEF Inv, TypeAuth, TypeStore, TypeServer
<1> QED
  BY <1>3, <1>7, <1>8, <1>9, <1>10 DEF Inv, StreamInv

LEMMA StepInv == Inv /\ [Next]_vars => Inv'
<1> SUFFICES ASSUME Inv, [Next]_vars PROVE Inv'
  OBVIOUS
<1>1. CASE WriteMutations
  BY <1>1, StepWriteMutations
<1>2. CASE RegisterPendingWritesCallback
  BY <1>2, StepRegister
<1>3. CASE HandleCredentialChange
  BY <1>3, StepHandleCredentialChange
<1>4. CASE ResumeStartWithCredentials
  BY <1>4, StepResume
<1>5. CASE OnWriteStreamHandshakeComplete
  BY <1>5, StepHandshake
<1>6. CASE OnWriteStreamMutationResult
  BY <1>6, StepMutationResult
<1>7. CASE HandleWriteError
  BY <1>7, StepHandleWriteError
<1>8. CASE BackoffElapsed
  BY <1>8, StepBackoffElapsed
<1>9. CASE IdleTimeout
  BY <1>9, StepIdleTimeout
<1>10. CASE EnableNetwork
  BY <1>10, StepEnableNetwork
<1>11. CASE Apply
  BY <1>11, StepApply
<1>12. CASE Deny
  BY <1>12, StepDeny
<1>13. CASE TokenArrives
  BY <1>13, StepTokenArrives
<1>14. CASE AuthStateDidChange
  BY <1>14, StepAuthStateDidChange
<1>15. CASE \E u \in Users : UserChanges(u)
  BY <1>15, StepUserChanges
<1>16. CASE TokenFails
  BY <1>16, StepTokenFails
<1>17. CASE ConnectionBreaks
  BY <1>17, StepConnectionBreaks
<1>18. CASE ConnectivityChanges
  BY <1>18, StepConnectivityChanges
<1>19. CASE DisableNetwork
  BY <1>19, StepDisableNetwork
<1>20. CASE Crash
  BY <1>20, StepCrash
<1>21. CASE CrashBeforeAcknowledging
  BY <1>21, StepCrashBeforeAcknowledging
<1>22. CASE UNCHANGED vars
  <2>1. /\ StoreKept
        /\ UNCHANGED <<auth, notices, tasks, enabled, pipeline, stream, handshake, idle, closes,
                       conn, tokens, document, applied, denied, answers, made, waits, faults>>
    BY <1>22 DEF vars, authVars, engineVars, storeVars, streamVars, serverVars, boundVars, StoreKept
  <2>2. TokenInv'
    BY <2>1 DEF Inv, TokenInv, TokenIsComing, Coming, ComingTask
  <2>3. TypeAuth' /\ TypeServer'
    BY <2>1 DEF Inv, TypeAuth, TypeServer, StoreKept
  <2> QED
    BY <2>1, <2>2, <2>3, StepElsewhere
<1> QED
  BY <1>1, <1>2, <1>3, <1>4, <1>5, <1>6, <1>7, <1>8, <1>9, <1>10, <1>11, <1>12, <1>13, <1>14,
     <1>15, <1>16, <1>17, <1>18, <1>19, <1>20, <1>21, <1>22
     DEF Next, Worker, Timers, Server, Credentials, Disturbance

THEOREM Invariance == Spec => []Inv
<1> QED
  BY InitInv, StepInv, PTL DEF Spec

\* The values of all variables, for every set of accounts and every bound.
THEOREM TypeCorrect == Spec => []TypeOK
<1>1. Inv => TypeOK
  BY DEF Inv, TypeStream, TypeAuth, TypeStore, TypeServer, TypeOK, TaskSet, TokenSet, ConnSet
<1> QED
  BY <1>1, Invariance, PTL

\* FillWritePipeline, Close and the restarts keep the pipeline the front of the
\* current user's queue, whatever is removed, added or fails in between.
THEOREM FrontOfTheQueue == Spec => []PipelineIsFront
<1>1. Inv => PipelineIsFront
  BY DEF Inv, StreamInv
<1> QED
  BY <1>1, Invariance, PTL

\* A result read from an open connection is that of the first write in the
\* pipeline.
THEOREM Correlated == Spec => []ResultsInStep
<1>1. Inv => ResultsInStep
  BY DEF Inv, StreamInv
<1> QED
  BY <1>1, Invariance, PTL

\* A write in the pipeline has a stream, and the idleness timer runs only when
\* there is none.
THEOREM StreamWhenNeeded == Spec => []NeededIsStarted
<1>1. Inv => NeededIsStarted
  BY DEF Inv, StreamInv
<1> QED
  BY <1>1, Invariance, PTL

\* The assertion in ResumeStartWithCredentials never fails, and a stream that
\* is starting is never forgotten.
THEOREM OneTokenComes == Spec => []TokenIsComing
<1>1. Inv => TokenIsComing
  BY DEF Inv, TokenInv
<1> QED
  BY <1>1, Invariance, PTL

\* Batch ids that are given out again after a restart name one batch each.
THEOREM IdsAreNames == Spec => []IdsName
<1>1. Inv => IdsName
  BY DEF Inv, QueuesInv
<1> QED
  BY <1>1, Invariance, PTL

-----------------------------------------------------------------------------
(* What the application is told, and what the server has *)

\* An answer that is under way is the truth about the server.
RepliesTrue ==
  /\ \A i \in DOMAIN conn.replies : conn.replies[i].write \in applied
  /\ conn.replies # <<>> => document[user] = Last(conn.replies).write

\* What was told was so, and nothing that is still queued comes before it.
AnswersTrue ==
  /\ \A a \in answers : a.write <= made
  /\ \A a \in answers : a.outcome = "done" =>
       /\ a.write \in applied /\ a.write <= document[a.user]
       /\ \A b \in Batches(a.user) : a.write <= b.write
  /\ \A a \in answers : ~a.again
  /\ \A a \in answers : \A u \in Users : \A c \in callbacks[u] : a.write # c.write

DeliveryInv == Inv /\ RepliesTrue /\ AnswersTrue

LEMMA AnswerFields ==
  ASSUME TypeServer, NEW a \in answers
  PROVE  a.user \in Users /\ a.write \in Nat /\ a.write \in Writes /\ a.outcome \in Outcomes
BY DEF TypeServer, Writes

\* A step that tells nothing and applies nothing.
LEMMA AnswersKept ==
  ASSUME DeliveryInv, answers' = answers, applied' = applied, document' = document,
         made' = made,
         \A u \in Users : \A b \in Batches(u)' : b \in Batches(u),
         \A u \in Users : callbacks'[u] \subseteq callbacks[u]
  PROVE  AnswersTrue'
<1>1. \A a \in answers : a.user \in Users
  BY AnswerFields DEF DeliveryInv, Inv
<1> QED
  BY <1>1 DEF DeliveryInv, AnswersTrue

LEMMA RepliesKept ==
  ASSUME DeliveryInv, applied' = applied, document' = document,
         conn'.replies = <<>> \/ (conn'.replies = conn.replies /\ user' = user)
  PROVE  RepliesTrue'
BY DEF DeliveryInv, RepliesTrue

\* A step that leaves all queues alone tells and applies nothing.
LEMMA NothingTold ==
  ASSUME DeliveryInv, UNCHANGED <<queue, callbacks, answers, applied, document, made>>,
         conn'.replies = <<>> \/ (conn'.replies = conn.replies /\ user' = user)
  PROVE  RepliesTrue' /\ AnswersTrue'
<1>1. \A u \in Users : Batches(u)' = Batches(u)
  BY DEF Batches
<1> QED
  BY <1>1, AnswersKept, RepliesKept

\* The first answer is about the first write of the queue.
LEMMA FirstReply ==
  ASSUME DeliveryInv, handshake, conn.replies # <<>>
  PROVE  /\ Head(pipeline) = Head(queue[user]) /\ queue[user] # <<>> /\ user \in Users
         /\ Head(queue[user]) \in Batch
         /\ Head(queue[user]).write \in applied
         /\ Head(queue[user]).write <= document[user]
<1>1. /\ pipeline # <<>> /\ queue[user] # <<>> /\ Head(pipeline) = Head(queue[user])
      /\ queue[user] \in Seq(Batch) /\ Increasing(queue[user]) /\ IsFront(pipeline, queue[user])
      /\ user \in Users /\ pipeline \in Seq(Batch)
  BY FrontOfPipeline DEF DeliveryInv, Inv, TypeAuth, TypeStream
<1>2. conn.replies \in Seq(Batch) /\ IsPrefix(conn.replies, pipeline)
  BY DEF DeliveryInv, Inv, StreamInv, ResultsInStep, TypeStream, ConnSet
<1> DEFINE r == conn.replies
           q == queue[user]
<1>3. /\ r \in Seq(Batch) /\ r # <<>> /\ Len(r) \in Nat /\ Len(r) >= 1
      /\ Len(r) <= Len(pipeline) /\ \A i \in 1..Len(r) : r[i] = pipeline[i]
  <2>1. Len(r) <= Len(pipeline) /\ \A i \in 1..Len(r) : r[i] = pipeline[i]
    BY <1>1, <1>2, PrefixIs
  <2> QED
    BY <1>2, <2>1
<1>4. /\ Len(pipeline) <= Len(q) /\ \A i \in 1..Len(pipeline) : pipeline[i] = q[i]
      /\ Len(pipeline) \in Nat /\ Len(q) \in Nat /\ q \in Seq(Batch)
  BY <1>1 DEF IsFront
<1> HIDE DEF r, q
<1>5. \A i \in 1..Len(r) : r[i] = q[i] /\ i \in DOMAIN q /\ r[i] \in Batch
  BY <1>3, <1>4
<1>6. 1 \in 1..Len(r) /\ Len(r) \in 1..Len(r) /\ Head(q) = q[1] /\ Last(r) = r[Len(r)]
  BY <1>1, <1>3, <1>4 DEF Last, q
<1>7. Head(q).write \in applied
  BY <1>3, <1>5, <1>6 DEF DeliveryInv, RepliesTrue, r
<1>8. Head(q).write <= Last(r).write
  <2>1. q[1] \in Batch /\ q[Len(r)] \in Batch
    BY <1>5, <1>6
  <2>2. q[1].write \in Nat /\ q[Len(r)].write \in Nat
    BY <2>1, BatchFields
  <2>3. CASE Len(r) = 1
    BY <1>5, <1>6, <2>2, <2>3
  <2>4. CASE 1 < Len(r)
    <3>1. q[1].write < q[Len(r)].write
      BY <1>1, <1>5, <1>6, <2>4 DEF Increasing, q
    <3> QED
      BY <1>5, <1>6, <2>2, <3>1
  <2>5. Len(r) = 1 \/ 1 < Len(r)
    <3>1. PICK n \in Nat : n = Len(r) /\ n >= 1
      BY <1>3
    <3>2. n = 1 \/ 1 < n
      BY <3>1
    <3> QED
      BY <3>1, <3>2, Zenon
  <2> QED
    BY <2>3, <2>4, <2>5
<1>9. document[user] = Last(r).write
  BY <1>3 DEF DeliveryInv, RepliesTrue, r
<1>10. Head(q) \in Batch
  BY <1>5, <1>6
<1> QED
  BY <1>1, <1>7, <1>8, <1>9, <1>10 DEF q

\* The callback that is found is that of the write that leaves the queue.
LEMMA OneIsTold ==
  ASSUME Inv, pipeline # <<>>, NEW o \in Outcomes
  PROVE  LET w == Head(queue[user]).write
             found == {c \in callbacks[user] : c.id = Head(pipeline).id}
             told == {Told(user, c.write, o) : c \in found}
         IN /\ found = {} \/ found = {Head(queue[user])}
            /\ told = {} \/ (told = {Told(user, w, o)} /\ Head(queue[user]) \in callbacks[user])
            /\ \A c \in callbacks[user] : c.id # Head(pipeline).id => c.write # w
<1> DEFINE q == queue[user]
           w == Head(q).write
           found == {c \in callbacks[user] : c.id = Head(pipeline).id}
<1>1. /\ user \in Users /\ q \in Seq(Batch) /\ Increasing(q) /\ q # <<>>
      /\ Head(pipeline) = Head(q)
  BY FrontOfPipeline DEF Inv, TypeAuth
<1>2. callbacks[user] \subseteq ToSet(q)
  <2>1. Batches(user) = ToSet(q)
    BY DEF Batches, ToSet
  <2> QED
    BY <1>1, <2>1 DEF Inv, QueuesInv, IdsName
<1> HIDE DEF q
<1>3. /\ Head(q) \in ToSet(q) /\ Head(q) \in Batch
      /\ ToSet(Tail(q)) = {b \in ToSet(q) : b.id # Head(q).id}
      /\ \A b \in ToSet(Tail(q)) : Head(q).write < b.write
      /\ \A b \in ToSet(q) : b = Head(q) \/ b \in ToSet(Tail(q))
  BY <1>1, IncreasingTail, HeadTail
<1>4. \A b \in ToSet(q) : b.id = Head(q).id => b = Head(q)
  BY <1>3
<1>5. found = {} \/ found = {Head(q)}
  BY <1>1, <1>2, <1>4
<1>6. \A c \in callbacks[user] : c.id # Head(pipeline).id => c.write # w
  <2>1. \A b \in ToSet(Tail(q)) : b.write \in Nat /\ w \in Nat
    <3>1. \A b \in ToSet(Tail(q)) : b \in Batch
      BY <1>1, <1>3 DEF ToSet
    <3> QED
      BY <1>3, <3>1, BatchFields
  <2>2. \A b \in ToSet(Tail(q)) : b.write # w
    BY <1>3, <2>1
  <2> QED
    BY <1>1, <1>2, <1>3, <2>2
<1> QED
  BY <1>5, <1>6 DEF q

\* What is read is applied, and what is left to read is the same but for it.
LEMMA RestOfReplies ==
  ASSUME DeliveryInv, conn'.replies = Tail(conn.replies), conn.replies # <<>>,
         UNCHANGED <<applied, document, user>>
  PROVE  RepliesTrue'
<1> DEFINE r == conn.replies
<1>1. r \in Seq(Batch)
  BY DEF DeliveryInv, Inv, TypeStream, ConnSet
<1>2. (\A i \in DOMAIN r : r[i].write \in applied) /\ document[user] = Last(r).write
  BY DEF DeliveryInv, RepliesTrue
<1>3. conn'.replies = Tail(r) /\ r # <<>>
  OBVIOUS
<1> HIDE DEF r
<1>4. \A i \in DOMAIN Tail(r) : i + 1 \in DOMAIN r /\ Tail(r)[i] = r[i + 1]
  BY <1>1, <1>3
<1>5. Tail(r) # <<>> => Last(Tail(r)) = Last(r)
  BY <1>1, <1>3, LastOfTail
<1> QED
  BY <1>2, <1>3, <1>4, <1>5 DEF RepliesTrue

\* A step that tells at most of the first write of the queue.
LEMMA OneMoreAnswer ==
  ASSUME DeliveryInv, pipeline # <<>>, NEW o \in Outcomes, NEW T,
         answers' = answers \cup T,
         \/ T = {}
         \/ /\ T = {Told(user, Head(queue[user]).write, o)}
            /\ Head(queue[user]) \in callbacks[user],
         o = "done" => /\ Head(queue[user]).write \in applied
                       /\ Head(queue[user]).write <= document[user],
         UNCHANGED <<applied, document, made>>,
         \A u \in Users : \A b \in Batches(u)' : b \in Batches(u),
         \A u \in Users : callbacks'[u] \subseteq callbacks[u],
         T # {} => \A c \in callbacks'[user] : c.write # Head(queue[user]).write
  PROVE  AnswersTrue'
<1> DEFINE h == Head(queue[user])
           new == Told(user, h.write, o)
<1>1. CASE T = {}
  <2>1. answers' = answers
    BY <1>1
  <2> QED
    BY <2>1, AnswersKept
<1>2. CASE T = {new} /\ h \in callbacks[user]
  <2>1. /\ user \in Users /\ queue[user] \in Seq(Batch) /\ Increasing(queue[user])
        /\ queue[user] # <<>>
    BY FrontOfPipeline DEF DeliveryInv, Inv, TypeAuth
  <2>2. /\ h \in Batch /\ h \in ToSet(queue[user])
        /\ \A b \in ToSet(queue[user]) : (b = h \/ b \in ToSet(Tail(queue[user])))
        /\ \A b \in ToSet(Tail(queue[user])) : h.write < b.write
    BY <2>1, IncreasingTail, HeadTail
  <2>3. Batches(user) = ToSet(queue[user])
    BY DEF Batches, ToSet
  <2>4. h \in Batches(user) /\ h.write \in Nat
        /\ \A b \in Batches(user) : h.write <= b.write
    <3>1. h \in Batches(user) /\ h.write \in Nat
      BY <2>2, <2>3, BatchFields
    <3>2. \A b \in Batches(user) : b = h \/ h.write < b.write
      BY <2>2, <2>3
    <3>3. \A b \in Batches(user) : b.write \in Nat
      <4>1. \A b \in Batches(user) : b \in Batch
        BY <2>1 DEF Batches
      <4> QED
        BY <4>1, BatchFields
    <3> QED
      BY <3>1, <3>2, <3>3
  <2>5. new.user = user /\ new.write = h.write /\ new.outcome = o
    BY DEF Told
  <2>16. ASSUME \A a \in answers : a.write # h.write PROVE ~new.again
    <3>1. new.again = (\E a \in answers : a.write = h.write)
      BY Zenon DEF Told
    <3> QED
      BY <2>16, <3>1, Zenon
  <2> HIDE DEF new, h
  <2>6. \A a \in answers' : a \in answers \/ a = new
    BY <1>2 DEF new, h
  <2>7. h.write <= made'
    BY <2>1, <2>4 DEF DeliveryInv, Inv, QueuesInv
  <2>8. o = "done" => h.write \in applied' /\ h.write <= document'[user]
    BY DEF h
  <2>9. \A u \in Users : u = user => \A b \in Batches(u)' : h.write <= b.write
    BY <2>1, <2>4
  <2>10. \A a \in answers : a.write # h.write /\ a.user \in Users
    <3>1. TypeServer
      BY DEF DeliveryInv, Inv
    <3> QED
      BY <1>2, <2>1, <3>1, AnswerFields DEF DeliveryInv, AnswersTrue
  <2>11. \A u \in Users : \A c \in callbacks'[u] : c.write # h.write
    <3>1. \A u \in Users : \A c \in callbacks'[u] : c \in Batches(u)
      BY DEF DeliveryInv, Inv, QueuesInv, IdsName
    <3>2. \A u \in Users : u # user => \A c \in callbacks'[u] : c.write # h.write
      BY <2>1, <2>4, <3>1 DEF DeliveryInv, Inv, QueuesInv
    <3> QED
      BY <1>2, <3>2 DEF h
  <2>12. \A a \in answers' : a.write <= made'
    BY <2>5, <2>6, <2>7 DEF DeliveryInv, AnswersTrue
  <2>13. \A a \in answers' : a.outcome = "done" =>
           /\ a.write \in applied' /\ a.write <= document'[a.user]
           /\ \A b \in Batches(a.user)' : a.write <= b.write
    <3>1. TAKE a \in answers'
    <3>2. CASE a = new
      BY <2>1, <2>5, <2>8, <2>9, <3>2
    <3>3. CASE a \in answers
      BY <2>10, <3>3 DEF DeliveryInv, AnswersTrue
    <3> QED
      BY <2>6, <3>2, <3>3
  <2>14. \A a \in answers' : ~a.again
    BY <2>6, <2>10, <2>16, Zenon DEF DeliveryInv, AnswersTrue
  <2>15. \A a \in answers' : \A u \in Users : \A c \in callbacks'[u] : a.write # c.write
    BY <2>5, <2>6, <2>11 DEF DeliveryInv, AnswersTrue
  <2> QED
    BY <2>12, <2>13, <2>14, <2>15 DEF AnswersTrue
<1> QED
  BY <1>1, <1>2

LEMMA FillReplies ==
  ASSUME NEW on, NEW p, NEW q, NEW c \in ConnSet, FillWritePipeline(on, p, q, c)
  PROVE  conn'.replies = c.replies
BY DEF FillWritePipeline, ConnSet

LEMMA DeliveryWriteMutations ==
  ASSUME DeliveryInv, Inv', WriteMutations PROVE DeliveryInv'
<1> DEFINE batch == [id |-> nextId, write |-> made + 1]
           q == Append(queue[user], batch)
<1>1. /\ queue' = [queue EXCEPT ![user] = q] /\ user \in Users /\ queue[user] \in Seq(Batch)
      /\ FillWritePipeline(enabled, pipeline, q, conn) /\ conn \in ConnSet
      /\ user' = user /\ made \in Nat /\ made' = made + 1
      /\ UNCHANGED <<document, applied, answers>>
  <2>1. queue[user] \in Seq(Batch)
    BY FrontOfPipeline DEF DeliveryInv
  <2>2. user \in Users /\ conn \in ConnSet /\ made \in Nat
    BY DEF DeliveryInv, Inv, TypeAuth, TypeServer, TypeStream
  <2>3. /\ queue' = [queue EXCEPT ![user] = q] /\ FillWritePipeline(enabled, pipeline, q, conn)
        /\ made' = made + 1 /\ user' = user /\ UNCHANGED <<document, applied, answers>>
    BY DEF WriteMutations, serverVars
  <2> QED
    BY <2>1, <2>2, <2>3, Zenon
<1>2. RepliesTrue'
  BY <1>1, FillReplies DEF DeliveryInv, RepliesTrue
<1>3. \A u \in Users : \A b \in Batches(u)' : b \in Batches(u) \/ b = batch
  <2>1. \A u \in Users : queue'[u] = queue[u] \/ (u = user /\ queue'[u] = q)
    BY <1>1 DEF DeliveryInv, Inv, TypeStore
  <2>2. \A i \in DOMAIN q : q[i] = batch \/ (i \in DOMAIN queue[user] /\ q[i] = queue[user][i])
    BY <1>1
  <2> QED
    BY <2>1, <2>2 DEF Batches
<1>4. batch.write = made + 1
  OBVIOUS
<1>5. \A u \in Users : \A c \in callbacks'[u] : c \in callbacks[u] \/ c = batch
  BY <1>1 DEF WriteMutations, DeliveryInv, Inv, TypeStore
<1> HIDE DEF batch
<1>6. \A a \in answers : a.user \in Users /\ a.write \in Nat /\ a.write <= made
  <2>1. TypeServer
    BY DEF DeliveryInv, Inv
  <2> QED
    BY <2>1, AnswerFields DEF DeliveryInv, AnswersTrue
<1>7. \A a \in answers : a.write <= made' /\ a.write <= batch.write /\ a.write # batch.write
  BY <1>1, <1>4, <1>6
<1>8. \A a \in answers : a.outcome = "done" =>
        /\ a.write \in applied /\ a.write <= document[a.user]
        /\ \A b \in Batches(a.user)' : a.write <= b.write
  <2>1. TAKE a \in answers
  <2>2. HAVE a.outcome = "done"
  <2>3. PICK u \in Users : u = a.user
    BY <1>6
  <2>4. \A b \in Batches(u)' : a.write <= b.write
    <3>1. \A b \in Batches(a.user) : a.write <= b.write
      BY <2>2 DEF DeliveryInv, AnswersTrue
    <3>2. \A b \in Batches(u) : a.write <= b.write
      BY <2>3, <3>1
    <3> QED
      BY <1>3, <1>7, <3>2
  <2> QED
    BY <2>2, <2>3, <2>4 DEF DeliveryInv, AnswersTrue
<1>9. \A a \in answers : \A u \in Users : \A c \in callbacks'[u] : a.write # c.write
  BY <1>5, <1>7 DEF DeliveryInv, AnswersTrue
<1>10. AnswersTrue'
  BY <1>1, <1>7, <1>8, <1>9 DEF DeliveryInv, AnswersTrue
<1> QED
  BY <1>2, <1>10 DEF DeliveryInv

LEMMA DeliveryApply ==
  ASSUME DeliveryInv, Inv', Apply PROVE DeliveryInv'
<1> DEFINE batch == Head(conn.requests)
           k == Len(conn.replies) + 1
<1>1. /\ conn.requests # <<>> /\ ~conn.ended
      /\ document' = [document EXCEPT ![user] = batch.write]
      /\ applied' = applied \cup {batch.write}
      /\ conn' = [conn EXCEPT !.requests = Tail(conn.requests),
                             !.replies = Append(conn.replies, batch)]
      /\ UNCHANGED <<queue, callbacks, user, answers, made>>
  BY DEF Apply, engineVars, storeVars, boundVars
<1>2. /\ conn \in ConnSet /\ batch \in Batch /\ k \in 1..Len(pipeline)
      /\ pipeline[k] = batch /\ user \in Users /\ document \in [Users -> 0..MaxWrites]
      /\ conn.replies \in Seq(Batch)
  <2>1. /\ conn \in ConnSet /\ batch \in Batch /\ Len(conn.replies) < Len(pipeline)
        /\ pipeline[k] = batch
    BY <1>1, FirstRequest DEF DeliveryInv
  <2>2. /\ user \in Users /\ document \in [Users -> 0..MaxWrites]
        /\ conn.replies \in Seq(Batch) /\ pipeline \in Seq(Batch)
    BY DEF DeliveryInv, Inv, TypeAuth, TypeServer, TypeStream, ConnSet
  <2>3. k \in 1..Len(pipeline)
    BY <2>1, <2>2
  <2> QED
    BY <2>1, <2>2, <2>3
<1>3. conn'.replies = Append(conn.replies, batch)
  BY <1>1, <1>2 DEF ConnSet
<1>4. batch \in Batches(user)
  <2>1. /\ queue[user] \in Seq(Batch) /\ IsFront(pipeline, queue[user])
    BY FrontOfPipeline DEF DeliveryInv
  <2>2. k \in DOMAIN queue[user] /\ queue[user][k] = batch
    BY <1>2, <2>1 DEF IsFront
  <2> QED
    BY <2>2 DEF Batches
<1> HIDE DEF batch, k
<1>5. RepliesTrue'
  <2>1. \A i \in DOMAIN conn'.replies :
          conn'.replies[i] = batch \/ (i \in DOMAIN conn.replies /\ conn'.replies[i] = conn.replies[i])
    BY <1>2, <1>3
  <2>2. \A i \in DOMAIN conn'.replies : conn'.replies[i].write \in applied'
    BY <1>1, <2>1 DEF DeliveryInv, RepliesTrue
  <2>3. Last(conn'.replies) = batch
    BY <1>2, <1>3, LastOfAppend
  <2> QED
    BY <1>1, <1>2, <2>2, <2>3 DEF RepliesTrue
<1>6. AnswersTrue'
  <2>1. \A u \in Users : Batches(u)' = Batches(u)
    BY <1>1 DEF Batches
  <2>2. \A a \in answers : a.user \in Users
    BY AnswerFields DEF DeliveryInv, Inv
  <2>3. \A a \in answers : a.outcome = "done" => a.write <= document'[a.user]
    BY <1>1, <1>2, <1>4, <2>2 DEF DeliveryInv, AnswersTrue
  <2> QED
    BY <1>1, <2>1, <2>2, <2>3 DEF DeliveryInv, AnswersTrue
<1> QED
  BY <1>5, <1>6 DEF DeliveryInv

\* The first write leaves the queue, and what is told of it is so.
LEMMA TellAndLeave ==
  ASSUME DeliveryInv, pipeline # <<>>, NEW o \in Outcomes,
         queue' = [queue EXCEPT ![user] = Tail(queue[user])],
         NotifyUser(Head(pipeline).id, o), UNCHANGED <<applied, document, made>>,
         o = "done" => /\ Head(queue[user]).write \in applied
                       /\ Head(queue[user]).write <= document[user]
  PROVE  AnswersTrue'
<1> DEFINE found == {c \in callbacks[user] : c.id = Head(pipeline).id}
           T == {Told(user, c.write, o) : c \in found}
<1>1. /\ answers' = answers \cup T
      /\ callbacks' = [callbacks EXCEPT ![user] = callbacks[user] \ found]
  BY DEF NotifyUser
<1>2. /\ T = {} \/ (T = {Told(user, Head(queue[user]).write, o)}
                    /\ Head(queue[user]) \in callbacks[user])
      /\ \A c \in callbacks[user] : c.id # Head(pipeline).id => c.write # Head(queue[user]).write
  BY OneIsTold DEF DeliveryInv
<1>3. user \in Users /\ queue[user] \in Seq(Batch) /\ queue[user] # <<>>
      /\ callbacks \in [Users -> SUBSET Batch] /\ queue \in [Users -> Seq(Batch)]
  BY FrontOfPipeline DEF DeliveryInv, Inv, TypeAuth, TypeStore
<1>4. /\ \A u \in Users : callbacks'[u] \subseteq callbacks[u]
      /\ \A c \in callbacks'[user] : c \in callbacks[user] /\ c.id # Head(pipeline).id
  BY <1>1, <1>3
<1>5. \A u \in Users : \A b \in Batches(u)' : b \in Batches(u)
  <2>1. \A u \in Users : queue'[u] = queue[u] \/ (u = user /\ queue'[u] = Tail(queue[user]))
    BY <1>3
  <2>2. \A i \in DOMAIN Tail(queue[user]) :
          i + 1 \in DOMAIN queue[user] /\ Tail(queue[user])[i] = queue[user][i + 1]
    BY <1>3
  <2> QED
    BY <2>1, <2>2 DEF Batches
<1> HIDE DEF T, found
<1> QED
  BY <1>1, <1>2, <1>4, <1>5, OneMoreAnswer

LEMMA DeliveryMutationResult ==
  ASSUME DeliveryInv, Inv', OnWriteStreamMutationResult PROVE DeliveryInv'
<1> DEFINE id == Head(pipeline).id
           c == [conn EXCEPT !.replies = Tail(conn.replies)]
<1>1. /\ handshake /\ conn.replies # <<>> /\ NotifyUser(id, "done")
      /\ TriggerPendingWriteCallbacks(id)
      /\ queue' = [queue EXCEPT ![user] = RemoveBatch(queue[user], id)]
      /\ FillWritePipeline(enabled, Tail(pipeline), RemoveBatch(queue[user], id), c)
      /\ UNCHANGED <<user, nextId, document, applied, made>>
  BY DEF OnWriteStreamMutationResult, Acknowledged, serverVars, boundVars
<1>2. pipeline # <<>>
  BY <1>1, FrontOfPipeline DEF DeliveryInv
<1>3. queue' = [queue EXCEPT ![user] = Tail(queue[user])]
  <2>1. "done" \in Outcomes
    BY DEF Outcomes
  <2> QED
    BY <1>1, <1>2, <2>1, HeadLeaves DEF DeliveryInv
<1>4. /\ Head(queue[user]).write \in applied
      /\ Head(queue[user]).write <= document[user]
  BY <1>1, FirstReply
<1>5. conn'.replies = Tail(conn.replies)
  <2>1. conn \in ConnSet /\ conn.replies \in Seq(Batch)
    BY DEF DeliveryInv, Inv, TypeStream, ConnSet
  <2>2. Tail(conn.replies) \in Seq(Batch)
    BY <1>1, <2>1
  <2>3. c \in ConnSet /\ c.replies = Tail(conn.replies)
    BY <2>1, <2>2 DEF ConnSet
  <2> QED
    BY <1>1, <2>3, FillReplies
<1>6. RepliesTrue'
  BY <1>1, <1>5, RestOfReplies
<1>7. AnswersTrue'
  BY <1>1, <1>2, <1>3, <1>4, TellAndLeave DEF Outcomes
<1> QED
  BY <1>6, <1>7 DEF DeliveryInv

LEMMA DeliveryHandleWriteError ==
  ASSUME DeliveryInv, Inv', HandleWriteError PROVE DeliveryInv'
<1> DEFINE id == Head(pipeline).id
           q == RemoveBatch(queue[user], id)
<1>1. /\ conn.ended /\ NotifyUser(id, "refused") /\ TriggerPendingWriteCallbacks(id)
      /\ queue' = [queue EXCEPT ![user] = q]
      /\ CloseStream("Initial", Refill(Tail(pipeline), q), enabled)
      /\ UNCHANGED <<user, nextId, document, applied, made>>
  BY DEF HandleWriteError, Rejected, serverVars, boundVars
<1>2. pipeline # <<>>
  BY <1>1, FrontOfPipeline DEF DeliveryInv
<1>3. queue' = [queue EXCEPT ![user] = Tail(queue[user])]
  <2>1. "refused" \in Outcomes
    BY DEF Outcomes
  <2> QED
    BY <1>1, <1>2, <2>1, HeadLeaves DEF DeliveryInv
<1>4. conn'.replies = <<>>
  BY <1>1 DEF CloseStream, NoConn
<1>5. RepliesTrue'
  BY <1>4 DEF RepliesTrue
<1>6. AnswersTrue'
  <2>1. "refused" \in Outcomes /\ "refused" # "done"
    BY DEF Outcomes
  <2> QED
    BY <1>1, <1>2, <1>3, <2>1, TellAndLeave
<1> QED
  BY <1>5, <1>6 DEF DeliveryInv

LEMMA DeliveryCrash ==
  ASSUME DeliveryInv, Inv', Crash PROVE DeliveryInv'
<1>1. /\ callbacks' = [u \in Users |-> {}] /\ conn' = NoConn /\ queue' = queue /\ made' = made
      /\ UNCHANGED <<document, applied, answers>>
  BY DEF Crash, Restart, serverVars
<1>2. RepliesTrue'
  BY <1>1 DEF RepliesTrue, NoConn
<1>3. \A u \in Users : Batches(u)' = Batches(u)
  BY <1>1 DEF Batches
<1> QED
  BY <1>1, <1>2, <1>3, AnswersKept DEF DeliveryInv

LEMMA DeliveryCrashBeforeAcknowledging ==
  ASSUME DeliveryInv, Inv', CrashBeforeAcknowledging PROVE DeliveryInv'
<1> DEFINE T == {Told(user, c.write, "done") :
                   c \in {d \in callbacks[user] : d.id = Head(pipeline).id}}
<1>1. /\ handshake /\ conn.replies # <<>> /\ answers' = answers \cup T
      /\ callbacks' = [u \in Users |-> {}] /\ conn' = NoConn /\ queue' = queue /\ made' = made
      /\ UNCHANGED <<document, applied>>
  BY DEF CrashBeforeAcknowledging, Restart, serverVars
<1>2. pipeline # <<>> /\ "done" \in Outcomes
  BY <1>1, FrontOfPipeline DEF DeliveryInv, Outcomes
<1>3. T = {} \/ (T = {Told(user, Head(queue[user]).write, "done")}
                 /\ Head(queue[user]) \in callbacks[user])
  BY <1>2, OneIsTold DEF DeliveryInv
<1>4. Head(queue[user]).write \in applied /\ Head(queue[user]).write <= document[user]
      /\ user \in Users
  BY <1>1, FirstReply
<1>5. RepliesTrue'
  BY <1>1 DEF RepliesTrue, NoConn
<1>6. \A u \in Users : Batches(u)' = Batches(u)
  BY <1>1 DEF Batches
<1>7. \A u \in Users : callbacks'[u] = {}
  BY <1>1
<1> HIDE DEF T
<1>8. AnswersTrue'
  BY <1>1, <1>2, <1>3, <1>4, <1>6, <1>7, OneMoreAnswer
<1> QED
  BY <1>5, <1>8 DEF DeliveryInv

\* Steps that leave the queues alone and tell nothing.
Quiet ==
  /\ UNCHANGED <<queue, callbacks, answers, applied, document, made>>
  /\ conn'.replies = <<>> \/ (conn'.replies = conn.replies /\ user' = user)

LEMMA CloseReplies ==
  ASSUME NEW s, NEW p, NEW on, CloseStream(s, p, on)
  PROVE  conn'.replies = <<>>
BY DEF CloseStream, NoConn

LEMMA RestartReplies ==
  ASSUME NEW q, ResultsInStep, RestartNetwork(q)
  PROVE  conn'.replies = <<>>
<1>1. CASE IsStarted(stream)
  BY <1>1, CloseReplies DEF RestartNetwork
<1>2. CASE ~IsStarted(stream)
  <2>1. conn' = conn /\ ~IsOpen(stream)
    BY <1>2 DEF RestartNetwork, IsStarted, IsOpen
  <2> QED
    BY <2>1 DEF ResultsInStep
<1> QED
  BY <1>1, <1>2

LEMMA QuietWorker ==
  ASSUME DeliveryInv,
         \/ HandleCredentialChange \/ ResumeStartWithCredentials
         \/ OnWriteStreamHandshakeComplete \/ EnableNetwork
  PROVE  Quiet
<1>1. CASE HandleCredentialChange
  <2>1. UNCHANGED <<queue, callbacks, answers, applied, document, made>>
    BY <1>1 DEF HandleCredentialChange, serverVars, boundVars
  <2>2. CASE enabled
    <3>1. RestartNetwork(queue[user'])
      BY <1>1, <2>2 DEF HandleCredentialChange
    <3> QED
      BY <2>1, <3>1, RestartReplies DEF Quiet, DeliveryInv, Inv, StreamInv
  <2>3. CASE ~enabled
    <3>1. conn' = conn
      BY <1>1, <2>3 DEF HandleCredentialChange, streamVars
    <3>2. pipeline = <<>> /\ conn.replies \in Seq(Batch)
      BY <2>3, FrontOfPipeline DEF DeliveryInv, Inv, TypeStream, ConnSet
    <3>3. conn.replies = <<>>
      <4>1. handshake => conn.replies = <<>>
        BY <3>2, FrontOfPipeline DEF DeliveryInv
      <4>2. ~handshake => conn.replies = <<>>
        BY DEF DeliveryInv, Inv, StreamInv, ResultsInStep
      <4> QED
        BY <4>1, <4>2
    <3> QED
      BY <2>1, <3>1, <3>3 DEF Quiet
  <2> QED
    BY <2>2, <2>3
<1>2. CASE ResumeStartWithCredentials
  <2>1. UNCHANGED <<queue, callbacks, answers, applied, document, made, user>>
    BY <1>2 DEF ResumeStartWithCredentials, engineVars, storeVars, serverVars, boundVars
  <2>2. \/ conn' = conn
        \/ CloseStream("Error", pipeline, enabled)
        \/ conn' = [NoConn EXCEPT !.user = Head(tasks).user]
    BY <1>2 DEF ResumeStartWithCredentials, streamVars
  <2>3. conn' = [NoConn EXCEPT !.user = Head(tasks).user] => conn'.replies = <<>>
    BY DEF NoConn
  <2> QED
    BY <2>1, <2>2, <2>3, CloseReplies DEF Quiet
<1>3. CASE OnWriteStreamHandshakeComplete
  <2>1. /\ UNCHANGED <<queue, callbacks, answers, applied, document, made, user>>
        /\ conn' = [conn EXCEPT !.requests = pipeline]
    BY <1>3 DEF OnWriteStreamHandshakeComplete, engineVars, storeVars, serverVars, boundVars
  <2>2. conn \in ConnSet
    BY DEF DeliveryInv, Inv, TypeStream
  <2>3. conn'.replies = conn.replies
    BY <2>1, <2>2 DEF ConnSet
  <2> QED
    BY <2>1, <2>3 DEF Quiet
<1>4. CASE EnableNetwork
  <2>1. /\ UNCHANGED <<queue, callbacks, answers, applied, document, made, user>>
        /\ FillWritePipeline(TRUE, pipeline, queue[user], conn)
    BY <1>4 DEF EnableNetwork, engineVars, storeVars, serverVars, boundVars
  <2>2. conn \in ConnSet
    BY DEF DeliveryInv, Inv, TypeStream
  <2> QED
    BY <2>1, <2>2, FillReplies DEF Quiet
<1> QED
  BY <1>1, <1>2, <1>3, <1>4

LEMMA QuietElsewhere ==
  ASSUME DeliveryInv,
         \/ RegisterPendingWritesCallback \/ Timers \/ Deny \/ Credentials
         \/ UNCHANGED vars \/ (\E u \in Users : UserChanges(u)) \/ TokenFails
  PROVE  Quiet
<1> USE DEF serverVars, storeVars, engineVars, streamVars, boundVars, authVars
<1>1. CASE RegisterPendingWritesCallback
  BY <1>1 DEF RegisterPendingWritesCallback, Quiet
<1>2. CASE BackoffElapsed
  BY <1>2 DEF BackoffElapsed, Quiet
<1>3. CASE IdleTimeout
  BY <1>3, CloseReplies DEF IdleTimeout, Quiet
<1>4. CASE Deny
  <2>1. /\ UNCHANGED <<queue, callbacks, answers, applied, document, made, user>>
        /\ conn' = [conn EXCEPT !.requests = Tail(conn.requests), !.ended = TRUE]
    BY <1>4 DEF Deny
  <2>2. conn \in ConnSet
    BY DEF DeliveryInv, Inv, TypeStream
  <2>3. conn'.replies = conn.replies
    BY <2>1, <2>2 DEF ConnSet
  <2> QED
    BY <2>1, <2>3 DEF Quiet
<1>5. CASE TokenArrives
  BY <1>5 DEF TokenArrives, GetToken, Quiet
<1>6. CASE AuthStateDidChange
  BY <1>6 DEF AuthStateDidChange, Quiet
<1>7. CASE UNCHANGED vars
  BY <1>7 DEF vars, Quiet
<1>8. CASE \E u \in Users : UserChanges(u)
  BY <1>8 DEF UserChanges, Quiet
<1>9. CASE TokenFails
  BY <1>9 DEF TokenFails, GetToken, Quiet
<1> QED
  BY <1>1, <1>2, <1>3, <1>4, <1>5, <1>6, <1>7, <1>8, <1>9 DEF Timers, Credentials

LEMMA QuietFaults ==
  ASSUME DeliveryInv, ConnectionBreaks \/ ConnectivityChanges \/ DisableNetwork
  PROVE  Quiet
<1> USE DEF serverVars, storeVars, engineVars, authVars
<1>1. CASE ConnectionBreaks
  BY <1>1, CloseReplies DEF ConnectionBreaks, Quiet
<1>2. CASE ConnectivityChanges
  BY <1>2, RestartReplies DEF ConnectivityChanges, Quiet, DeliveryInv, Inv, StreamInv
<1>3. CASE DisableNetwork
  <2>1. UNCHANGED <<queue, callbacks, answers, applied, document, made, user>> /\ StopNetwork
    BY <1>3 DEF DisableNetwork
  <2>2. conn' = conn \/ CloseStream("Initial", <<>>, FALSE)
    BY <2>1 DEF StopNetwork, streamVars
  <2> QED
    BY <2>1, <2>2, CloseReplies DEF Quiet
<1> QED
  BY <1>1, <1>2, <1>3

\* Either a step tells of the first write of the queue, or it makes a write,
\* applies one, or is quiet.
LEMMA StepKinds ==
  ASSUME DeliveryInv, [Next]_vars
  PROVE  \/ WriteMutations \/ Apply \/ OnWriteStreamMutationResult \/ HandleWriteError
         \/ Crash \/ CrashBeforeAcknowledging \/ Quiet
BY QuietWorker, QuietElsewhere, QuietFaults DEF Next, Worker, Server, Disturbance

\* What the application is told is so, and stays so.
LEMMA DeliveryStep == DeliveryInv /\ [Next]_vars => DeliveryInv'
<1> SUFFICES ASSUME DeliveryInv, [Next]_vars PROVE DeliveryInv'
  OBVIOUS
<1>0. Inv'
  BY StepInv DEF DeliveryInv
<1>1. CASE Quiet
  BY <1>0, <1>1, NothingTold DEF DeliveryInv, Quiet
<1> QED
  BY <1>0, <1>1, StepKinds, DeliveryWriteMutations, DeliveryApply, DeliveryMutationResult,
     DeliveryHandleWriteError, DeliveryCrash, DeliveryCrashBeforeAcknowledging

LEMMA Delivery == Spec => []DeliveryInv
<1>1. Init => DeliveryInv
  <2>1. Init => RepliesTrue /\ AnswersTrue
    BY DEF Init, NoConn, RepliesTrue, AnswersTrue
  <2> QED
    BY <2>1, InitInv DEF DeliveryInv
<1> QED
  BY <1>1, DeliveryStep, PTL DEF Spec

\* An application that is told that a write is done is told so after the
\* server has applied it, and it is told of a write once.
THEOREM ToldOnceAndTrulyHolds == Spec => []ToldOnceAndTruly
<1>1. DeliveryInv => ToldOnceAndTruly
  BY DEF DeliveryInv, AnswersTrue, ToldOnceAndTruly
<1> QED
  BY <1>1, Delivery, PTL

\* What is told to be done is not undone by an earlier write sent again.
THEOREM DoneStaysDoneHolds == Spec => []DoneStaysDone
<1>1. DeliveryInv => DoneStaysDone
  <2> SUFFICES ASSUME DeliveryInv, NEW a \in answers, a.outcome = "done"
               PROVE  document[a.user] >= a.write
    BY DEF DoneStaysDone, Promise!DoneStaysDone
  <2>1. a.write <= document[a.user]
    BY DEF DeliveryInv, AnswersTrue
  <2> QED
    BY <2>1
<1> QED
  BY <1>1, Delivery, PTL

-----------------------------------------------------------------------------
(* What is promised of the writes *)

Numbers(q) == [i \in DOMAIN q |-> q[i].write]

LEMMA NumbersOf ==
  ASSUME NEW q \in Seq(Batch)
  PROVE  /\ Numbers(q) \in Seq(Nat) /\ Len(Numbers(q)) = Len(q)
         /\ \A i \in 1..Len(q) : Numbers(q)[i] = q[i].write
         /\ Numbers(q) = <<>> <=> q = <<>>
         /\ q # <<>> => Head(Numbers(q)) = Head(q).write
<1>1. \A i \in 1..Len(q) : q[i] \in Batch
  OBVIOUS
<1>2. \A i \in 1..Len(q) : q[i].write \in Nat
  BY <1>1, BatchFields
<1>3. DOMAIN q = 1..Len(q) /\ Len(q) \in Nat
  OBVIOUS
<1>4. Numbers(q) \in Seq(Nat) /\ Len(Numbers(q)) = Len(q)
      /\ \A i \in 1..Len(q) : Numbers(q)[i] = q[i].write
  BY <1>2, <1>3 DEF Numbers
<1> HIDE DEF Numbers
<1> QED
  BY <1>4

LEMMA NumbersOfTail ==
  ASSUME NEW q \in Seq(Batch), q # <<>>
  PROVE  Numbers(Tail(q)) = Tail(Numbers(q))
<1>1. PICK t \in Seq(Batch) :
        /\ t = Tail(q) /\ Len(t) = Len(q) - 1
        /\ \A i \in 1..Len(q) - 1 : t[i] = q[i + 1]
  <2>1. /\ Tail(q) \in Seq(Batch) /\ Len(Tail(q)) = Len(q) - 1
        /\ \A i \in 1..Len(q) - 1 : Tail(q)[i] = q[i + 1]
    OBVIOUS
  <2> QED
    BY <2>1, Zenon
<1>2. PICK n \in Nat : n = Len(q) /\ n > 0
  OBVIOUS
<1>3. PICK a \in Seq(Nat) :
        /\ a = Numbers(q) /\ Len(a) = n /\ a # <<>>
        /\ \A i \in 1..n : a[i] = q[i].write
  BY <1>2, NumbersOf
<1>4. PICK b \in Seq(Nat) :
        /\ b = Numbers(t) /\ Len(b) = n - 1
        /\ \A i \in 1..n - 1 : b[i] = t[i].write
  <2>1. /\ Numbers(t) \in Seq(Nat) /\ Len(Numbers(t)) = Len(t)
        /\ \A i \in 1..Len(t) : Numbers(t)[i] = t[i].write
    BY NumbersOf
  <2>2. Len(t) = n - 1
    BY <1>1, <1>2
  <2> QED
    BY <2>1, <2>2
<1>5. /\ Tail(a) \in Seq(Nat) /\ Len(Tail(a)) = n - 1
      /\ \A i \in 1..n - 1 : Tail(a)[i] = a[i + 1]
  BY <1>3
<1>6. \A i \in 1..n - 1 : i + 1 \in 1..n /\ t[i] = q[i + 1]
  BY <1>1, <1>2
<1>7. \A i \in 1..n - 1 : Tail(a)[i] = b[i]
  <2>1. TAKE i \in 1..n - 1
  <2>2. Tail(a)[i] = a[i + 1]
    BY <1>5
  <2>3. a[i + 1] = q[i + 1].write
    BY <1>3, <1>6
  <2>4. b[i] = t[i].write /\ t[i] = q[i + 1]
    BY <1>4, <1>6
  <2> QED
    BY <2>2, <2>3, <2>4, Zenon
<1>8. Tail(a) = b
  BY <1>4, <1>5, <1>7, SeqEqual
<1> QED
  BY <1>1, <1>3, <1>4, <1>8

LEMMA NumbersOfAppend ==
  ASSUME NEW q \in Seq(Batch), NEW b \in Batch
  PROVE  Numbers(Append(q, b)) = Append(Numbers(q), b.write)
<1>1. PICK n \in Nat : n = Len(q)
  OBVIOUS
<1>2. PICK t \in Seq(Batch) :
        /\ t = Append(q, b) /\ Len(t) = n + 1 /\ t[n + 1] = b
        /\ \A i \in 1..n : t[i] = q[i]
  <2>1. /\ Append(q, b) \in Seq(Batch) /\ Len(Append(q, b)) = n + 1
        /\ Append(q, b)[n + 1] = b /\ \A i \in 1..n : Append(q, b)[i] = q[i]
    BY <1>1
  <2> QED
    BY <2>1, Zenon
<1>3. PICK a \in Seq(Nat) :
        /\ a = Numbers(q) /\ Len(a) = n
        /\ \A i \in 1..n : a[i] = q[i].write
  BY <1>1, NumbersOf
<1>4. PICK m \in Seq(Nat) :
        /\ m = Numbers(t) /\ Len(m) = n + 1
        /\ \A i \in 1..n + 1 : m[i] = t[i].write
  <2>1. /\ Numbers(t) \in Seq(Nat) /\ Len(Numbers(t)) = Len(t)
        /\ \A i \in 1..Len(t) : Numbers(t)[i] = t[i].write
    BY NumbersOf
  <2> QED
    BY <1>2, <2>1
<1>5. PICK w \in Nat : w = b.write
  BY BatchFields
<1>6. /\ Append(a, w) \in Seq(Nat) /\ Len(Append(a, w)) = n + 1
      /\ \A i \in 1..n : Append(a, w)[i] = a[i]
      /\ Append(a, w)[n + 1] = w
  <2>1. a \in Seq(Nat) /\ Len(a) = n /\ n \in Nat
    BY <1>3
  <2> QED
    BY <2>1
<1>7. \A i \in 1..n + 1 : i \in 1..n \/ i = n + 1
  OBVIOUS
<1>8. \A i \in 1..n : i \in 1..n + 1
  OBVIOUS
<1>9. \A i \in 1..n : Append(a, w)[i] = m[i]
  <2>1. TAKE i \in 1..n
  <2>2. Append(a, w)[i] = a[i] /\ a[i] = q[i].write
    BY <1>3, <1>6
  <2>3. m[i] = t[i].write /\ t[i] = q[i]
    BY <1>2, <1>4, <1>8
  <2> QED
    BY <2>2, <2>3, Zenon
<1>10. Append(a, w)[n + 1] = m[n + 1]
  <2>1. n + 1 \in 1..n + 1
    OBVIOUS
  <2>2. m[n + 1] = t[n + 1].write
    BY <1>4, <2>1
  <2> QED
    BY <1>2, <1>5, <1>6, <2>2
<1>11. \A i \in 1..n + 1 : Append(a, w)[i] = m[i]
  BY <1>7, <1>9, <1>10
<1>12. Append(a, w) = m
  BY <1>4, <1>6, <1>11, SeqEqual
<1> QED
  BY <1>2, <1>3, <1>4, <1>5, <1>12

PromisedQueue == [u \in Users |-> Numbers(queue[u])]

\* The mapped queue changes where the queue does.
LEMMA PromisedChange ==
  ASSUME user \in Users, TypeStore, NEW q \in Seq(Batch), queue' = [queue EXCEPT ![user] = q]
  PROVE  PromisedQueue' = [PromisedQueue EXCEPT ![user] = Numbers(q)]
<1>1. \A u \in Users : queue'[u] = IF u = user THEN q ELSE queue[u]
  BY DEF TypeStore
<1>2. \A u \in Users : Numbers(queue'[u]) = IF u = user THEN Numbers(q) ELSE Numbers(queue[u])
  BY <1>1
<1> QED
  BY <1>2 DEF PromisedQueue

LEMMA PromisedVars ==
  /\ Promise!vars = <<made, PromisedQueue, document, answers>>
  /\ Promise!vars' = <<made', PromisedQueue', document', answers'>>
BY DEF Promise!vars, PromisedQueue, Numbers

\* The first number of the current user's queue.
LEMMA PromisedHead ==
  ASSUME DeliveryInv, pipeline # <<>>
  PROVE  /\ user \in Users /\ queue[user] \in Seq(Batch) /\ queue[user] # <<>>
         /\ PromisedQueue[user] = Numbers(queue[user]) /\ PromisedQueue[user] # <<>>
         /\ Head(PromisedQueue[user]) = Head(queue[user]).write
<1>1. user \in Users /\ queue[user] \in Seq(Batch) /\ queue[user] # <<>>
  BY FrontOfPipeline DEF DeliveryInv, Inv, TypeAuth
<1>2. PromisedQueue[user] = Numbers(queue[user])
  BY <1>1 DEF PromisedQueue
<1>3. /\ Numbers(queue[user]) # <<>>
      /\ Head(Numbers(queue[user])) = Head(queue[user]).write
  BY <1>1, NumbersOf
<1> QED
  BY <1>1, <1>2, <1>3

\* What NotifyUser adds to the answers is one or nothing.
LEMMA ToldOrNot ==
  ASSUME DeliveryInv, pipeline # <<>>, NEW o \in Outcomes,
         answers' = answers \cup {Told(user, c.write, o) :
                      c \in {d \in callbacks[user] : d.id = Head(pipeline).id}}
  PROVE  \/ answers' = answers
         \/ answers' = answers \cup {Told(user, Head(PromisedQueue[user]), o)}
<1>1. Head(PromisedQueue[user]) = Head(queue[user]).write
  BY PromisedHead
<1> DEFINE T == {Told(user, c.write, o) :
                   c \in {d \in callbacks[user] : d.id = Head(pipeline).id}}
<1>2. T = {} \/ T = {Told(user, Head(queue[user]).write, o)}
  BY OneIsTold DEF DeliveryInv
<1>3. answers' = answers \cup T
  OBVIOUS
<1> HIDE DEF T
<1> QED
  BY <1>1, <1>2, <1>3

\* The steps of the promise, over the mapped queue.
LEMMA PromisedEnqueue ==
  ASSUME NEW u \in Users, made < MaxWrites, made' = made + 1,
         PromisedQueue' = [PromisedQueue EXCEPT ![u] = Append(PromisedQueue[u], made + 1)],
         UNCHANGED <<document, answers>>
  PROVE  Promise!Next
<1>1. Promise!Enqueue(u)
  BY DEF Promise!Enqueue, PromisedQueue, Numbers
<1> QED
  BY <1>1 DEF Promise!Next

LEMMA PromisedApply ==
  ASSUME NEW u \in Users, NEW k \in 1..Len(PromisedQueue[u]),
         k > 1 => document[u] >= PromisedQueue[u][k - 1],
         document' = [document EXCEPT ![u] = PromisedQueue[u][k]],
         PromisedQueue' = PromisedQueue, UNCHANGED <<made, answers>>
  PROVE  Promise!Next
<1>1. Promise!Apply(u, k)
  BY DEF Promise!Apply, PromisedQueue, Numbers
<1>2. \E i \in 1..Len([v \in Users |-> [j \in DOMAIN queue[v] |-> queue[v][j].write]][u]) :
        Promise!Apply(u, i)
  BY <1>1 DEF PromisedQueue, Numbers
<1> QED
  BY <1>2 DEF Promise!Next

LEMMA PromisedLeave ==
  ASSUME NEW u \in Users, NEW o \in Outcomes, PromisedQueue[u] # <<>>,
         o = "done" => document[u] >= Head(PromisedQueue[u]),
         PromisedQueue' = [PromisedQueue EXCEPT ![u] = Tail(PromisedQueue[u])],
         \/ answers' = answers
         \/ answers' = answers \cup {Told(u, Head(PromisedQueue[u]), o)},
         UNCHANGED <<made, document>>
  PROVE  Promise!Next
<1>1. Promise!Leave(u, o)
  BY DEF Promise!Leave, Promise!Told, Told, PromisedQueue, Numbers
<1>2. CASE o = "done"
  <2>1. Promise!FirstIsApplied(u)
    BY <1>2 DEF Promise!FirstIsApplied, PromisedQueue, Numbers
  <2>2. Promise!Acknowledge(u)
    BY <1>1, <1>2, <2>1 DEF Promise!Acknowledge
  <2> QED
    BY <2>2 DEF Promise!Next
<1>3. CASE o = "refused"
  <2>1. Promise!Refuse(u)
    BY <1>1, <1>3 DEF Promise!Refuse, PromisedQueue, Numbers
  <2> QED
    BY <2>1 DEF Promise!Next
<1> QED
  BY <1>2, <1>3 DEF Outcomes

LEMMA PromisedAnnounceEarly ==
  ASSUME NEW u \in Users, PromisedQueue[u] # <<>>, document[u] >= Head(PromisedQueue[u]),
         answers' = answers \cup {Told(u, Head(PromisedQueue[u]), "done")},
         PromisedQueue' = PromisedQueue, UNCHANGED <<made, document>>
  PROVE  Promise!Next
<1>1. Promise!FirstIsApplied(u)
  BY DEF Promise!FirstIsApplied, PromisedQueue, Numbers
<1>2. Promise!AnnounceEarly(u)
  BY <1>1 DEF Promise!AnnounceEarly, Promise!Told, Told, PromisedQueue, Numbers
<1> QED
  BY <1>2 DEF Promise!Next

LEMMA PromisedStutter ==
  ASSUME queue' = queue, UNCHANGED <<made, document, answers>>
  PROVE  UNCHANGED Promise!vars
BY DEF Promise!vars

LEMMA PromiseWriteMutations ==
  ASSUME DeliveryInv, WriteMutations PROVE Promise!Next
<1> DEFINE batch == [id |-> nextId, write |-> made + 1]
           q == Append(queue[user], batch)
<1>1. /\ queue' = [queue EXCEPT ![user] = q] /\ made < MaxWrites /\ made' = made + 1
      /\ UNCHANGED <<document, answers>>
  BY DEF WriteMutations, serverVars
<1>2. /\ user \in Users /\ TypeStore /\ queue[user] \in Seq(Batch) /\ q \in Seq(Batch)
      /\ made \in Nat /\ nextId \in Nat \ {0}
  <2>1. q \in Seq(Batch)
    BY HeadEnters DEF DeliveryInv
  <2>2. user \in Users /\ TypeStore /\ queue[user] \in Seq(Batch)
    BY FrontOfPipeline DEF DeliveryInv, Inv, TypeAuth
  <2>3. made \in Nat /\ nextId \in Nat \ {0}
    BY DEF DeliveryInv, Inv, TypeStore, TypeServer
  <2> QED
    BY <2>1, <2>2, <2>3
<1>3. batch \in Batch /\ batch.write = made + 1
  BY <1>1, <1>2 DEF Batch, Writes
<1>4. Numbers(q) = Append(Numbers(queue[user]), made + 1)
  BY <1>2, <1>3, NumbersOfAppend
<1>5. PromisedQueue[user] = Numbers(queue[user])
  BY <1>2 DEF PromisedQueue
<1> HIDE DEF q
<1>6. PromisedQueue' = [PromisedQueue EXCEPT ![user] = Numbers(q)]
  BY <1>1, <1>2, PromisedChange
<1>7. PromisedQueue' = [PromisedQueue EXCEPT ![user] = Append(PromisedQueue[user], made + 1)]
  BY <1>4, <1>5, <1>6
<1> QED
  BY <1>1, <1>2, <1>7, PromisedEnqueue

LEMMA PromiseApply ==
  ASSUME DeliveryInv, Apply PROVE Promise!Next
<1> DEFINE batch == Head(conn.requests)
           r == conn.replies
           k == Len(r) + 1
<1>1. /\ conn.requests # <<>> /\ ~conn.ended
      /\ document' = [document EXCEPT ![user] = batch.write]
      /\ UNCHANGED <<queue, answers, made>>
  BY DEF Apply, storeVars, boundVars
<1>2. /\ Len(r) < Len(pipeline) /\ pipeline[k] = batch /\ IsPrefix(r, pipeline)
  BY <1>1, FirstRequest DEF DeliveryInv
<1>3. /\ user \in Users /\ queue[user] \in Seq(Batch) /\ IsFront(pipeline, queue[user])
      /\ r \in Seq(Batch) /\ pipeline \in Seq(Batch)
  BY FrontOfPipeline DEF DeliveryInv, Inv, TypeAuth, TypeStream, ConnSet
<1>4. r # <<>> => document[user] = Last(r).write
  BY DEF DeliveryInv, RepliesTrue
<1>5. \A i \in 1..Len(r) : r[i] = pipeline[i]
  BY <1>2, <1>3, PrefixIs
<1>6. PromisedQueue[user] = Numbers(queue[user])
  BY <1>3 DEF PromisedQueue
<1>7. /\ Len(Numbers(queue[user])) = Len(queue[user])
      /\ \A i \in 1..Len(queue[user]) : Numbers(queue[user])[i] = queue[user][i].write
      /\ Numbers(queue[user]) \in Seq(Nat)
  BY <1>3, NumbersOf
<1>8. PICK n \in Nat : n = Len(r)
  BY <1>3
<1>9. k = n + 1 /\ k \in 1..Len(queue[user]) /\ queue[user][k] = batch
  <2>1. n + 1 \in 1..Len(pipeline) /\ k = n + 1
    BY <1>2, <1>3, <1>8
  <2>2. n + 1 \in 1..Len(queue[user]) /\ pipeline[n + 1] = queue[user][n + 1]
    BY <1>3, <2>1 DEF IsFront
  <2> QED
    BY <1>2, <2>1, <2>2
<1> HIDE DEF batch, r, k
<1>10. k \in 1..Len(PromisedQueue[user]) /\ PromisedQueue[user][k] = batch.write
  BY <1>6, <1>7, <1>9
<1>11. k > 1 => document[user] >= PromisedQueue[user][k - 1]
  <2> SUFFICES ASSUME k > 1 PROVE document[user] >= PromisedQueue[user][k - 1]
    OBVIOUS
  <2>1. n >= 1 /\ k - 1 = n /\ n \in 1..Len(queue[user])
    BY <1>3, <1>9
  <2>2. r # <<>> /\ Last(r) = r[n]
    BY <1>3, <1>8, <2>1 DEF Last
  <2>3. r[n] = queue[user][n]
    BY <1>2, <1>3, <1>5, <1>8, <2>1 DEF IsFront
  <2>4. PromisedQueue[user][n] = queue[user][n].write /\ PromisedQueue[user][n] \in Nat
    BY <1>6, <1>7, <2>1
  <2> QED
    BY <1>4, <2>1, <2>2, <2>3, <2>4
<1>12. PromisedQueue' = PromisedQueue
  BY <1>1 DEF PromisedQueue
<1>13. document' = [document EXCEPT ![user] = PromisedQueue[user][k]]
  BY <1>1, <1>10
<1> QED
  BY <1>1, <1>3, <1>10, <1>11, <1>12, <1>13, PromisedApply

\* The write that leaves the queue leaves the promised one.
LEMMA PromiseLeave ==
  ASSUME DeliveryInv, pipeline # <<>>, NEW o \in Outcomes,
         queue' = [queue EXCEPT ![user] = Tail(queue[user])],
         NotifyUser(Head(pipeline).id, o), UNCHANGED <<document, made>>,
         o = "done" => Head(queue[user]).write <= document[user]
  PROVE  Promise!Next
<1>1. /\ user \in Users /\ queue[user] \in Seq(Batch) /\ queue[user] # <<>>
      /\ PromisedQueue[user] = Numbers(queue[user]) /\ PromisedQueue[user] # <<>>
      /\ Head(PromisedQueue[user]) = Head(queue[user]).write
  BY PromisedHead
<1>2. PromisedQueue' = [PromisedQueue EXCEPT ![user] = Tail(PromisedQueue[user])]
  <2>1. TypeStore /\ Tail(queue[user]) \in Seq(Batch)
    BY <1>1 DEF DeliveryInv, Inv
  <2>2. PromisedQueue' = [PromisedQueue EXCEPT ![user] = Numbers(Tail(queue[user]))]
    BY <1>1, <2>1, PromisedChange
  <2>3. Numbers(Tail(queue[user])) = Tail(PromisedQueue[user])
    BY <1>1, NumbersOfTail
  <2> QED
    BY <2>2, <2>3
<1>3. \/ answers' = answers
      \/ answers' = answers \cup {Told(user, Head(PromisedQueue[user]), o)}
  BY ToldOrNot DEF NotifyUser
<1>4. o = "done" => document[user] >= Head(PromisedQueue[user])
  <2>1. Head(queue[user]).write \in Nat /\ document[user] \in Nat
    <3>1. Head(queue[user]) \in Batch
      BY <1>1
    <3> QED
      BY <1>1, <3>1, BatchFields DEF DeliveryInv, Inv, TypeServer
  <2> QED
    BY <1>1, <2>1
<1> QED
  BY <1>1, <1>2, <1>3, <1>4, PromisedLeave

LEMMA PromiseMutationResult ==
  ASSUME DeliveryInv, OnWriteStreamMutationResult PROVE Promise!Next
<1>1. /\ handshake /\ conn.replies # <<>> /\ NotifyUser(Head(pipeline).id, "done")
      /\ TriggerPendingWriteCallbacks(Head(pipeline).id)
      /\ queue' = [queue EXCEPT ![user] = RemoveBatch(queue[user], Head(pipeline).id)]
      /\ UNCHANGED <<user, nextId, document, made>>
  BY DEF OnWriteStreamMutationResult, Acknowledged, serverVars, boundVars
<1>2. pipeline # <<>> /\ "done" \in Outcomes
  BY <1>1, FrontOfPipeline DEF DeliveryInv, Outcomes
<1>3. queue' = [queue EXCEPT ![user] = Tail(queue[user])]
  BY <1>1, <1>2, HeadLeaves DEF DeliveryInv
<1>4. Head(queue[user]).write <= document[user]
  BY <1>1, FirstReply
<1> QED
  BY <1>1, <1>2, <1>3, <1>4, PromiseLeave

LEMMA PromiseHandleWriteError ==
  ASSUME DeliveryInv, HandleWriteError PROVE Promise!Next
<1>1. /\ conn.ended /\ NotifyUser(Head(pipeline).id, "refused")
      /\ TriggerPendingWriteCallbacks(Head(pipeline).id)
      /\ queue' = [queue EXCEPT ![user] = RemoveBatch(queue[user], Head(pipeline).id)]
      /\ UNCHANGED <<user, nextId, document, made>>
  BY DEF HandleWriteError, Rejected, serverVars, boundVars
<1>2. pipeline # <<>> /\ "refused" \in Outcomes /\ "refused" # "done"
  BY <1>1, FrontOfPipeline DEF DeliveryInv, Outcomes
<1>3. queue' = [queue EXCEPT ![user] = Tail(queue[user])]
  BY <1>1, <1>2, HeadLeaves DEF DeliveryInv
<1> QED
  BY <1>1, <1>2, <1>3, PromiseLeave

LEMMA PromiseCrashBeforeAcknowledging ==
  ASSUME DeliveryInv, CrashBeforeAcknowledging PROVE Promise!Next \/ UNCHANGED Promise!vars
<1>1. /\ handshake /\ conn.replies # <<>>
      /\ answers' = answers \cup {Told(user, c.write, "done") :
                       c \in {d \in callbacks[user] : d.id = Head(pipeline).id}}
      /\ queue' = queue /\ made' = made /\ document' = document
  BY DEF CrashBeforeAcknowledging, Restart, serverVars
<1>2. pipeline # <<>> /\ "done" \in Outcomes
  BY <1>1, FrontOfPipeline DEF DeliveryInv, Outcomes
<1>3. /\ user \in Users /\ PromisedQueue[user] # <<>> /\ queue[user] \in Seq(Batch)
      /\ queue[user] # <<>> /\ Head(PromisedQueue[user]) = Head(queue[user]).write
  BY <1>2, PromisedHead
<1>4. document[user] >= Head(PromisedQueue[user])
  <2>1. Head(queue[user]).write <= document[user] /\ Head(queue[user]) \in Batch
    BY <1>1, FirstReply
  <2>2. Head(queue[user]).write \in Nat /\ document[user] \in Nat
    BY <1>3, <2>1, BatchFields DEF DeliveryInv, Inv, TypeServer
  <2> QED
    BY <1>3, <2>1, <2>2
<1>5. PromisedQueue' = PromisedQueue
  BY <1>1 DEF PromisedQueue
<1>6. CASE answers' = answers
  BY <1>1, <1>6, PromisedStutter
<1>7. CASE answers' = answers \cup {Told(user, Head(PromisedQueue[user]), "done")}
  BY <1>1, <1>3, <1>4, <1>5, <1>7, PromisedAnnounceEarly
<1> QED
  BY <1>1, <1>2, <1>6, <1>7, ToldOrNot

LEMMA PromiseStep == DeliveryInv /\ [Next]_vars => [Promise!Next]_(Promise!vars)
<1> SUFFICES ASSUME DeliveryInv, [Next]_vars PROVE Promise!Next \/ UNCHANGED Promise!vars
  OBVIOUS
<1>1. CASE Quiet
  BY <1>1, PromisedStutter DEF Quiet
<1>2. CASE Crash
  BY <1>2, PromisedStutter DEF Crash, Restart, serverVars
<1> QED
  BY <1>1, <1>2, StepKinds, PromiseWriteMutations, PromiseApply, PromiseMutationResult,
     PromiseHandleWriteError, PromiseCrashBeforeAcknowledging

\* Whatever is lost, sent again or told early, what the pipeline does to the
\* writes is what WriteQueue promises of them.
THEOREM PromiseKept == Spec => ImplementsPromise
<1>1. Init => Promise!Init
  BY DEF Init, Promise!Init
<1> QED
  BY <1>1, PromiseStep, Delivery, PTL DEF Spec, ImplementsPromise, Promise!Spec

-----------------------------------------------------------------------------
(* Waiting for the writes that are pending *)

\* What is waited for has been made, and what of it is still in the queue is not
\* behind the batch under whose id the callback is kept.
AwaitedInv ==
  \A p \in pending :
    /\ \A w \in p.awaits : w <= made
    /\ \A b \in Batches(user) : b.write \in p.awaits => b.id <= p.id

\* Nobody starts to wait, and the queue only gets shorter.
Waiting ==
  /\ pending' \subseteq pending /\ made' = made
  /\ \/ pending' = {}
     \/ user' = user /\ queue' = queue
     \/ user' = user /\ queue' = [queue EXCEPT ![user] = Tail(queue[user])]

LEMMA BatchesOfTail ==
  ASSUME Inv, queue[user] # <<>>, user' = user,
         queue' = [queue EXCEPT ![user] = Tail(queue[user])]
  PROVE  /\ queue'[user] = Tail(queue[user])
         /\ \A b \in Batches(user)' : b \in Batches(user) /\ Head(queue[user]).id < b.id
         /\ \A w \in WritesOf(queue'[user]) : \E b \in Batches(user)' : b.write = w
<1> DEFINE q == queue[user]
<1>1. user \in Users /\ q \in Seq(Batch) /\ Increasing(q) /\ queue \in [Users -> Seq(Batch)]
  BY QueueFacts DEF Inv, TypeAuth, TypeStore
<1>2. queue'[user] = Tail(q)
  BY <1>1
<1>3. \A i \in DOMAIN Tail(q) :
        i + 1 \in DOMAIN q /\ 1 \in DOMAIN q /\ 1 < i + 1 /\ Tail(q)[i] = q[i + 1]
  BY <1>1
<1>4. Head(q) = q[1]
  BY <1>1
<1>5. \A b \in Batches(user)' : \E i \in DOMAIN Tail(q) : b = Tail(q)[i]
  BY <1>2 DEF Batches
<1>6. \A i \in DOMAIN Tail(q) : Tail(q)[i] \in Batches(user) /\ Head(q).id < Tail(q)[i].id
  BY <1>1, <1>3, <1>4 DEF Batches, Increasing
<1>7. \A w \in WritesOf(queue'[user]) : \E b \in Batches(user)' : b.write = w
  BY DEF WritesOf, Batches
<1> QED
  BY <1>2, <1>5, <1>6, <1>7

LEMMA WaitingKept ==
  ASSUME Inv, AwaitedInv, Waiting, queue' = queue \/ queue[user] # <<>>
  PROVE  AwaitedInv'
<1>1. CASE pending' = {}
  BY <1>1 DEF AwaitedInv
<1>2. CASE user' = user /\ queue' = queue
  <2>1. Batches(user)' = Batches(user)
    BY <1>2 DEF Batches
  <2> QED
    BY <2>1 DEF AwaitedInv, Waiting
<1>3. CASE /\ user' = user /\ queue[user] # <<>>
           /\ queue' = [queue EXCEPT ![user] = Tail(queue[user])]
  <2>1. \A b \in Batches(user)' : b \in Batches(user)
    BY <1>3, BatchesOfTail
  <2> QED
    BY <2>1 DEF AwaitedInv, Waiting
<1> QED
  BY <1>1, <1>2, <1>3 DEF Waiting

LEMMA AwaitedWriteMutations ==
  ASSUME Inv, AwaitedInv, WriteMutations PROVE AwaitedInv'
<1> DEFINE batch == [id |-> nextId, write |-> made + 1]
           q == Append(queue[user], batch)
<1>1. /\ user' = user /\ pending' = pending /\ made' = made + 1
      /\ queue' = [queue EXCEPT ![user] = q]
  BY DEF WriteMutations
<1>2. /\ user \in Users /\ queue[user] \in Seq(Batch) /\ queue \in [Users -> Seq(Batch)]
      /\ made \in Nat /\ pending \subseteq [id : Nat, awaits : SUBSET Writes]
  BY DEF Inv, TypeAuth, TypeStore, TypeServer
<1>3. batch.write = made + 1
  OBVIOUS
<1> HIDE DEF batch
<1>4. queue'[user'] = q
  BY <1>1, <1>2
<1>5. \A i \in DOMAIN q : q[i] = batch \/ (i \in DOMAIN queue[user] /\ q[i] = queue[user][i])
  BY <1>2
<1>6. \A b \in Batches(user)' : b = batch \/ b \in Batches(user)
  BY <1>4, <1>5 DEF Batches
<1>7. \A p \in pending : \A w \in p.awaits : w \in Nat /\ w <= made
  <2>1. \A p \in pending : p.awaits \subseteq Writes
    BY <1>2
  <2> QED
    BY <2>1 DEF AwaitedInv, Writes
<1>8. \A p \in pending : batch.write \notin p.awaits
  BY <1>2, <1>3, <1>7
<1>9. \A p \in pending : \A w \in p.awaits : w <= made'
  BY <1>1, <1>2, <1>7
<1>10. \A p \in pending : \A b \in Batches(user)' : b.write \in p.awaits => b.id <= p.id
  BY <1>6, <1>8 DEF AwaitedInv
<1> QED
  BY <1>1, <1>9, <1>10 DEF AwaitedInv

\* The last batch of a queue has the largest id.
LEMMA AwaitedRegister ==
  ASSUME Inv, AwaitedInv, RegisterPendingWritesCallback PROVE AwaitedInv'
<1> DEFINE q == queue[user]
           call == [id |-> HighestUnacknowledgedBatchId(q), awaits |-> WritesOf(q)]
<1>1. /\ user' = user /\ queue' = queue /\ made' = made
      /\ pending' = IF q = <<>> THEN pending ELSE pending \cup {call}
  BY DEF RegisterPendingWritesCallback, storeVars
<1>2. user \in Users /\ q \in Seq(Batch) /\ Increasing(q)
  BY QueueFacts DEF Inv, TypeAuth
<1>3. Batches(user)' = Batches(user)
  BY <1>1 DEF Batches
<1>4. \A w \in WritesOf(q) : w <= made
  BY <1>2 DEF WritesOf, Batches, Inv, QueuesInv
<1>5. ASSUME q # <<>> PROVE \A b \in Batches(user) : b.id <= HighestUnacknowledgedBatchId(q)
  <2>1. /\ Len(q) \in DOMAIN q /\ Last(q) = q[Len(q)]
        /\ \A i \in DOMAIN q : i < Len(q) \/ i = Len(q)
    BY <1>2, <1>5 DEF Last
  <2>2. \A i \in DOMAIN q : q[i].id \in Nat
    <3>1. \A i \in DOMAIN q : q[i] \in Batch
      BY <1>2
    <3> QED
      BY <3>1, BatchFields
  <2>3. \A i \in DOMAIN q : i < Len(q) => q[i].id < q[Len(q)].id
    BY <1>2, <2>1 DEF Increasing
  <2>4. \A i \in DOMAIN q : q[i].id <= q[Len(q)].id
    BY <2>1, <2>2, <2>3
  <2> QED
    BY <2>1, <2>4 DEF Batches, HighestUnacknowledgedBatchId
<1>6. call.id = HighestUnacknowledgedBatchId(q) /\ call.awaits = WritesOf(q)
  OBVIOUS
<1> HIDE DEF call
<1>7. \A p \in pending' : p \in pending \/ (q # <<>> /\ p = call)
  BY <1>1
<1>8. ASSUME NEW p \in pending', p = call, q # <<>>
      PROVE  /\ \A w \in p.awaits : w <= made'
             /\ \A b \in Batches(user)' : b.write \in p.awaits => b.id <= p.id
  BY <1>1, <1>3, <1>4, <1>5, <1>6, <1>8
<1> QED
  BY <1>1, <1>3, <1>7, <1>8 DEF AwaitedInv

LEMMA WaitingElsewhere ==
  ASSUME [Next]_vars
  PROVE  \/ WriteMutations \/ RegisterPendingWritesCallback
         \/ OnWriteStreamMutationResult \/ HandleWriteError
         \/ Waiting /\ queue' = queue
<1> USE DEF Waiting, storeVars, engineVars, boundVars
<1>1. CASE HandleCredentialChange
  BY <1>1 DEF HandleCredentialChange
<1>2. CASE ResumeStartWithCredentials \/ OnWriteStreamHandshakeComplete
  BY <1>2 DEF ResumeStartWithCredentials, OnWriteStreamHandshakeComplete
<1>3. CASE Timers \/ EnableNetwork
  BY <1>3 DEF Timers, BackoffElapsed, IdleTimeout, EnableNetwork
<1>4. CASE Server
  BY <1>4 DEF Server, Apply, Deny
<1>5. CASE Credentials \/ TokenFails \/ \E u \in Users : UserChanges(u)
  BY <1>5 DEF Credentials, TokenArrives, GetToken, AuthStateDidChange, TokenFails, UserChanges
<1>6. CASE ConnectionBreaks \/ ConnectivityChanges \/ DisableNetwork
  BY <1>6 DEF ConnectionBreaks, ConnectivityChanges, DisableNetwork
<1>7. CASE Crash \/ CrashBeforeAcknowledging
  BY <1>7 DEF Crash, CrashBeforeAcknowledging, Restart
<1>8. CASE UNCHANGED vars
  BY <1>8 DEF vars
<1> QED
  BY <1>1, <1>2, <1>3, <1>4, <1>5, <1>6, <1>7, <1>8 DEF Next, Worker, Disturbance

LEMMA AnsweredWrite ==
  ASSUME Inv, OnWriteStreamMutationResult \/ HandleWriteError
  PROVE  /\ queue[user] # <<>> /\ user' = user /\ made' = made
         /\ queue' = [queue EXCEPT ![user] = Tail(queue[user])]
         /\ pending' = {p \in pending : p.id # Head(queue[user]).id}
<1> DEFINE id == Head(pipeline).id
<1>1. /\ \/ NotifyUser(id, "done") \/ NotifyUser(id, "refused")
      /\ TriggerPendingWriteCallbacks(id)
      /\ queue' = [queue EXCEPT ![user] = RemoveBatch(queue[user], id)]
      /\ user' = user /\ nextId' = nextId /\ made' = made
  BY DEF OnWriteStreamMutationResult, HandleWriteError, Acknowledged, Rejected, boundVars
<1>2. pipeline # <<>>
  BY FrontOfPipeline DEF OnWriteStreamMutationResult, HandleWriteError
<1>3. queue[user] # <<>> /\ id = Head(queue[user]).id
  BY <1>2, FrontOfPipeline
<1>4. queue' = [queue EXCEPT ![user] = Tail(queue[user])]
  <2>1. "done" \in Outcomes /\ "refused" \in Outcomes
    BY DEF Outcomes
  <2> QED
    BY <1>1, <1>2, <2>1, HeadLeaves
<1> QED
  BY <1>1, <1>3, <1>4 DEF TriggerPendingWriteCallbacks

LEMMA AwaitedStep == Inv /\ AwaitedInv /\ [Next]_vars => AwaitedInv'
<1> SUFFICES ASSUME Inv, AwaitedInv, [Next]_vars PROVE AwaitedInv'
  OBVIOUS
<1>1. CASE OnWriteStreamMutationResult \/ HandleWriteError
  <2>1. Waiting /\ queue[user] # <<>>
    BY <1>1, AnsweredWrite DEF Waiting
  <2> QED
    BY <2>1, WaitingKept
<1> QED
  BY <1>1, WaitingElsewhere, WaitingKept, AwaitedWriteMutations, AwaitedRegister

\* waitForPendingWrites is called back once every write that the account had then
\* has left the queue, and not before (TriggerPendingWriteCallbacks).
THEOREM WaitsForThoseBeforeHolds == Spec => WaitsForThoseBefore
<1>1. Init => AwaitedInv
  BY DEF Init, AwaitedInv
<1>2. Spec => [](Inv /\ AwaitedInv)
  BY <1>1, InitInv, StepInv, AwaitedStep, PTL DEF Spec
<1>3. Inv /\ AwaitedInv =>
        [\A p \in pending \ pending' :
           (OnWriteStreamMutationResult \/ HandleWriteError) =>
             p.awaits \cap WritesOf(queue'[user]) = {}]_vars
  <2> SUFFICES ASSUME Inv, AwaitedInv, NEW p \in pending \ pending',
                      OnWriteStreamMutationResult \/ HandleWriteError
               PROVE  p.awaits \cap WritesOf(queue'[user]) = {}
    OBVIOUS
  <2>1. p \in pending /\ p.id = Head(queue[user]).id /\ queue[user] # <<>>
    BY AnsweredWrite
  <2>2. /\ \A b \in Batches(user)' : b \in Batches(user) /\ p.id < b.id
        /\ \A w \in WritesOf(queue'[user]) : \E b \in Batches(user)' : b.write = w
    BY <2>1, AnsweredWrite, BatchesOfTail
  <2>3. \A b \in Batches(user)' : b.id \in Nat /\ p.id \in Nat
    <3>1. \A b \in Batches(user) : b \in Batch
      BY QueueFacts DEF Inv, TypeAuth
    <3>2. p.id \in Nat
      BY <2>1 DEF Inv, TypeStore
    <3> QED
      BY <2>2, <3>1, <3>2, BatchFields
  <2>4. \A b \in Batches(user)' : b.write \notin p.awaits
    BY <2>1, <2>2, <2>3 DEF AwaitedInv
  <2> QED
    BY <2>2, <2>4
<1> QED
  BY <1>2, <1>3, PTL DEF WaitsForThoseBefore

-----------------------------------------------------------------------------
(* Whose token the stream is opened with *)

LastTask(i) == \A j \in DOMAIN tasks : j > i => tasks[j].kind # "credential"

\* The worker queue has heard of every change of the user.
Settled == notices = <<>> /\ \A j \in DOMAIN tasks : tasks[j].kind # "credential"

\* The provider's listener is told of the current user last, the tokens after that
\* are that user's, and so is the last change of user and every token behind it.
CredentialsInv ==
  /\ notices # <<>> => Last(notices) = auth
  /\ notices = <<>> =>
       /\ \A t \in tokens : t.users = {auth}
       /\ \A i \in DOMAIN tasks : LastTask(i) => tasks[i].user \subseteq {auth}
  /\ Settled => user = auth /\ (IsOpen(stream) => conn.user = {auth})
  /\ ~enabled => ~IsStarted(stream)

\* The stream is not opened, and asks for tokens of the current user.
NotOpened ==
  /\ \A t \in tokens' : t \in tokens \/ t.users = {auth}
  /\ IsOpen(stream') => IsOpen(stream) /\ conn'.user = conn.user
  /\ ~enabled' => ~IsStarted(stream')

LEMMA Started ==
  ASSUME NEW s, NEW p, NEW on, NEW n, NEW outstanding, StartIfNeeded(s, p, on, n, outstanding)
  PROVE  /\ \A t \in tokens' : t \in outstanding \/ t.users = {auth}
         /\ IsOpen(stream') => IsOpen(s)
         /\ ~on => stream' = s
<1>1. \A t \in tokens' : t \in outstanding \/ t = [closes |-> n, users |-> {auth}]
  BY DEF StartIfNeeded
<1>2. [closes |-> n, users |-> {auth}].users = {auth}
  OBVIOUS
<1>3. (IsOpen(stream') => IsOpen(s)) /\ (~on => stream' = s)
  BY DEF StartIfNeeded, IsOpen
<1> QED
  BY <1>1, <1>2, <1>3

LEMMA Closed ==
  ASSUME NEW s \in {"Initial", "Error"}, NEW p, NEW on, CloseStream(s, p, on)
  PROVE  /\ \A t \in tokens' : t \in tokens \/ t.users = {auth}
         /\ ~IsOpen(stream') /\ (~on => ~IsStarted(stream'))
<1>1. StartIfNeeded(s, p, on, closes + 1, tokens)
  BY DEF CloseStream
<1> QED
  BY <1>1, Started DEF IsOpen, IsStarted

LEMMA Restarted ==
  ASSUME NEW q, RestartNetwork(q)
  PROVE  /\ \A t \in tokens' : t \in tokens \/ t.users = {auth}
         /\ ~IsOpen(stream')
<1>1. CASE IsStarted(stream)
  BY <1>1, Closed DEF RestartNetwork
<1>2. CASE ~IsStarted(stream)
  <2>1. StartIfNeeded("Initial", Refill(<<>>, q), TRUE, closes, tokens)
    BY <1>2 DEF RestartNetwork
  <2>2. ~IsOpen("Initial")
    BY DEF IsOpen
  <2> QED
    BY <2>1, <2>2, Started, Zenon
<1> QED
  BY <1>1, <1>2

LEMMA Filled ==
  ASSUME NEW on, NEW p, NEW q, NEW c \in ConnSet, c.user = conn.user,
         FillWritePipeline(on, p, q, c)
  PROVE  /\ \A t \in tokens' : t \in tokens \/ t.users = {auth}
         /\ IsOpen(stream') => IsOpen(stream) /\ conn'.user = conn.user
         /\ ~on => stream' = stream
<1> DEFINE filled == IF on THEN Refill(p, q) ELSE p
           new == SubSeq(filled, Len(p) + 1, Len(filled))
           sends == IsOpen(stream) /\ handshake /\ new # <<>>
<1>1. /\ StartIfNeeded(stream, filled, on, closes, tokens)
      /\ conn' = IF sends THEN [c EXCEPT !.requests = c.requests \o new] ELSE c
  BY DEF FillWritePipeline
<1> HIDE DEF sends, new, filled
<1>2. conn'.user = conn.user
  BY <1>1 DEF ConnSet
<1> QED
  BY <1>1, <1>2, Started

\* Nobody hears of a change of user.
Deaf == UNCHANGED <<auth, notices, tasks, user>>

LEMMA CredentialsKept ==
  ASSUME CredentialsInv, Deaf, NotOpened PROVE CredentialsInv'
<1>1. /\ auth' = auth /\ notices' = notices /\ tasks' = tasks /\ user' = user
      /\ Settled' = Settled /\ \A i : LastTask(i)' = LastTask(i)
  BY DEF Deaf, Settled, LastTask
<1>2. /\ notices' # <<>> => Last(notices') = auth'
      /\ notices' = <<>> => \A t \in tokens' : t.users = {auth'}
      /\ notices' = <<>> => \A i \in DOMAIN tasks' : LastTask(i)' => tasks'[i].user \subseteq {auth'}
  BY <1>1 DEF CredentialsInv, NotOpened
<1>3. Settled' => user' = auth' /\ (IsOpen(stream') => conn'.user = {auth'})
  BY <1>1 DEF CredentialsInv, NotOpened
<1> QED
  BY <1>2, <1>3 DEF CredentialsInv, NotOpened

LEMMA DeafSteps ==
  ASSUME Inv, CredentialsInv,
         \/ WriteMutations \/ RegisterPendingWritesCallback \/ OnWriteStreamHandshakeComplete
         \/ OnWriteStreamMutationResult \/ HandleWriteError \/ Timers \/ EnableNetwork
         \/ Server \/ ConnectionBreaks \/ ConnectivityChanges \/ DisableNetwork \/ UNCHANGED vars
  PROVE  Deaf /\ NotOpened
<1> USE DEF authVars, engineVars, storeVars, serverVars, boundVars, streamVars
<1>0. conn \in ConnSet /\ (~enabled => ~IsStarted(stream)) /\ enabled \in BOOLEAN
  BY DEF Inv, TypeStream, TypeStore, CredentialsInv
<1>1. CASE WriteMutations
  <2>1. Deaf /\ enabled' = enabled
        /\ \E q : FillWritePipeline(enabled, pipeline, q, conn)
    BY <1>1 DEF WriteMutations, Deaf
  <2> QED
    BY <1>0, <2>1, Filled DEF NotOpened
<1>2. CASE RegisterPendingWritesCallback \/ UNCHANGED vars
  <2>1. Deaf /\ UNCHANGED <<enabled, tokens, stream, conn>>
    BY <1>2 DEF RegisterPendingWritesCallback, Deaf, vars
  <2> QED
    BY <1>0, <2>1 DEF NotOpened
<1>3. CASE OnWriteStreamHandshakeComplete
  <2>1. Deaf /\ UNCHANGED <<enabled, tokens, stream>>
        /\ conn' = [conn EXCEPT !.requests = pipeline]
    BY <1>3 DEF OnWriteStreamHandshakeComplete, Deaf
  <2>2. conn'.user = conn.user
    BY <1>0, <2>1 DEF ConnSet
  <2> QED
    BY <1>0, <2>1, <2>2 DEF NotOpened
<1>4. CASE OnWriteStreamMutationResult
  <2> DEFINE c == [conn EXCEPT !.replies = Tail(conn.replies)]
  <2>1. /\ Deaf /\ enabled' = enabled /\ conn.replies # <<>>
        /\ \E q : FillWritePipeline(enabled, Tail(pipeline), q, c)
    BY <1>4 DEF OnWriteStreamMutationResult, Deaf
  <2>2. conn.replies \in Seq(Batch)
    BY <1>0 DEF ConnSet
  <2>3. Tail(conn.replies) \in Seq(Batch)
    BY <2>1, <2>2
  <2>4. c \in ConnSet /\ c.user = conn.user
    BY <1>0, <2>3 DEF ConnSet
  <2> HIDE DEF c
  <2> QED
    BY <1>0, <2>1, <2>4, Filled DEF NotOpened
<1>5. CASE HandleWriteError
  <2>1. Deaf /\ enabled' = enabled /\ \E p : CloseStream("Initial", p, enabled)
    BY <1>5 DEF HandleWriteError, Deaf
  <2> QED
    BY <2>1, Closed DEF NotOpened
<1>6. CASE BackoffElapsed
  <2>1. Deaf /\ enabled' = enabled /\ StartIfNeeded("Initial", pipeline, TRUE, closes, tokens)
    BY <1>6 DEF BackoffElapsed, Deaf
  <2>2. enabled
    BY <1>0, <1>6 DEF BackoffElapsed, IsStarted
  <2>3. ~IsOpen("Initial")
    BY DEF IsOpen
  <2>4. (\A t \in tokens' : t \in tokens \/ t.users = {auth}) /\ ~IsOpen(stream')
    BY <2>1, <2>3, Started, Zenon
  <2> QED
    BY <2>1, <2>2, <2>4 DEF NotOpened
<1>7. CASE IdleTimeout
  <2>1. Deaf /\ enabled' = enabled /\ CloseStream("Initial", pipeline, enabled)
    BY <1>7 DEF IdleTimeout, Deaf
  <2> QED
    BY <2>1, Closed DEF NotOpened
<1>8. CASE EnableNetwork
  <2>1. Deaf /\ enabled' = TRUE /\ FillWritePipeline(TRUE, pipeline, queue[user], conn)
    BY <1>8 DEF EnableNetwork, Deaf
  <2> QED
    BY <1>0, <2>1, Filled DEF NotOpened
<1>9. CASE Server
  <2>1. /\ Deaf /\ UNCHANGED <<enabled, tokens, stream>>
        /\ \/ conn' = [conn EXCEPT !.requests = Tail(conn.requests),
                                   !.replies = Append(conn.replies, Head(conn.requests))]
           \/ conn' = [conn EXCEPT !.requests = Tail(conn.requests), !.ended = TRUE]
    BY <1>9 DEF Server, Apply, Deny, Deaf
  <2>2. conn'.user = conn.user
    BY <1>0, <2>1 DEF ConnSet
  <2> QED
    BY <1>0, <2>1, <2>2 DEF NotOpened
<1>10. CASE ConnectionBreaks
  <2>1. Deaf /\ enabled' = enabled /\ CloseStream("Error", pipeline, enabled)
    BY <1>10 DEF ConnectionBreaks, Deaf
  <2> QED
    BY <2>1, Closed DEF NotOpened
<1>11. CASE ConnectivityChanges
  <2>1. Deaf /\ enabled /\ enabled' = enabled /\ RestartNetwork(queue[user])
    BY <1>11 DEF ConnectivityChanges, Deaf
  <2> QED
    BY <2>1, Restarted DEF NotOpened
<1>12. CASE DisableNetwork
  <2>1. /\ Deaf /\ enabled' = FALSE
        /\ IF IsStarted(stream) THEN CloseStream("Initial", <<>>, FALSE)
                                ELSE UNCHANGED <<tokens, stream, conn>>
    BY <1>12 DEF DisableNetwork, StopNetwork, Deaf
  <2> QED
    BY <2>1, Closed DEF NotOpened, IsStarted, IsOpen
<1> QED
  BY <1>1, <1>2, <1>3, <1>4, <1>5, <1>6, <1>7, <1>8, <1>9, <1>10, <1>11, <1>12 DEF Timers

\* The first task leaves the worker queue.
LEMMA TasksLeft ==
  ASSUME Inv, CredentialsInv, tasks # <<>>, tasks' = Tail(tasks), notices' = notices,
         auth' = auth
  PROVE  /\ Head(tasks) = tasks[1]
         /\ notices' = <<>> =>
              \A i \in DOMAIN tasks' : LastTask(i)' => tasks'[i].user \subseteq {auth}
         /\ Settled' => notices = <<>> /\ tasks[1].user \subseteq {auth}
         /\ Settled' /\ tasks[1].kind # "credential" => Settled
<1>1. /\ tasks \in Seq(TaskSet) /\ Len(tasks) \in Nat \ {0} /\ DOMAIN tasks = 1..Len(tasks)
      /\ Head(tasks) = tasks[1]
  BY DEF Inv, TypeAuth
<1>2. /\ DOMAIN tasks' = 1..(Len(tasks) - 1)
      /\ \A i \in DOMAIN tasks' : i + 1 \in DOMAIN tasks /\ tasks'[i] = tasks[i + 1]
  BY <1>1
<1>3. \A j \in DOMAIN tasks : j > 1 => j - 1 \in DOMAIN tasks' /\ tasks'[j - 1] = tasks[j]
  BY <1>1, <1>2
<1>4. ASSUME NEW i \in DOMAIN tasks', LastTask(i)' PROVE LastTask(i + 1)
  <2>1. \A j \in DOMAIN tasks' : j > i => tasks'[j].kind # "credential"
    BY <1>4 DEF LastTask
  <2>2. \A j \in DOMAIN tasks : j > i + 1 => j > 1 /\ j - 1 > i
    BY <1>1, <1>2
  <2> QED
    BY <1>3, <2>1, <2>2 DEF LastTask
<1>5. ASSUME Settled' PROVE LastTask(1)
  <2>1. \A j \in DOMAIN tasks' : tasks'[j].kind # "credential"
    BY <1>5 DEF Settled
  <2> QED
    BY <1>3, <2>1 DEF LastTask
<1>6. 1 \in DOMAIN tasks
  BY <1>1
<1>7. ASSUME Settled', tasks[1].kind # "credential" PROVE Settled
  <2>1. \A j \in DOMAIN tasks : j = 1 \/ j > 1
    BY <1>1
  <2> QED
    BY <1>5, <1>7, <2>1 DEF LastTask, Settled
<1>8. Settled' => notices = <<>>
  BY DEF Settled
<1> QED
  BY <1>1, <1>2, <1>4, <1>5, <1>6, <1>7, <1>8 DEF CredentialsInv

LEMMA CredentialsHandled ==
  ASSUME Inv, CredentialsInv, HandleCredentialChange PROVE CredentialsInv'
<1>1. /\ tasks # <<>> /\ tasks' = Tail(tasks) /\ user' \in Head(tasks).user
      /\ auth' = auth /\ notices' = notices /\ enabled' = enabled
  BY DEF HandleCredentialChange, authVars
<1>2. /\ \A t \in tokens' : t \in tokens \/ t.users = {auth}
      /\ ~IsOpen(stream') /\ (~enabled' => ~IsStarted(stream'))
  <2>1. CASE enabled
    <3>1. RestartNetwork(queue[user'])
      BY <2>1 DEF HandleCredentialChange
    <3> QED
      BY <1>1, <2>1, <3>1, Restarted
  <2>2. CASE ~enabled
    <3>1. stream' = stream /\ tokens' = tokens
      BY <2>2 DEF HandleCredentialChange, streamVars
    <3> QED
      BY <2>2, <3>1 DEF CredentialsInv, IsStarted, IsOpen
  <2> QED
    BY <2>1, <2>2
<1>3. Settled' => user' = auth
  BY <1>1, TasksLeft
<1> QED
  BY <1>1, <1>2, <1>3, TasksLeft DEF CredentialsInv

LEMMA CredentialsResumed ==
  ASSUME Inv, CredentialsInv, ResumeStartWithCredentials PROVE CredentialsInv'
<1> DEFINE task == Head(tasks)
<1>1. /\ tasks # <<>> /\ task.kind = "token" /\ tasks' = Tail(tasks) /\ user' = user
      /\ auth' = auth /\ notices' = notices /\ enabled' = enabled /\ task = tasks[1]
  BY TasksLeft DEF ResumeStartWithCredentials, authVars, engineVars
<1>2. \/ UNCHANGED <<stream, conn, tokens>>
      \/ CloseStream("Error", pipeline, enabled)
      \/ /\ task.closes = closes /\ task.user # {} /\ stream' = "Open" /\ tokens' = tokens
         /\ conn' = [NoConn EXCEPT !.user = task.user]
  BY DEF ResumeStartWithCredentials, streamVars
<1>3. \A t \in tokens' : t \in tokens \/ t.users = {auth}
  BY <1>2, Closed
<1>4. ~enabled' => ~IsStarted(stream')
  <2>1. ASSUME task.closes = closes PROVE stream = "Starting"
    <3>1. 1 \in DOMAIN tasks /\ tasks[1].kind = "token" /\ tasks[1].closes = closes
      BY <1>1, <2>1, TaskTail DEF Inv, TypeAuth
    <3> QED
      BY <3>1 DEF Inv, TokenInv, TokenIsComing
  <2>2. task.closes = closes => enabled
    BY <2>1 DEF CredentialsInv, IsStarted
  <2> QED
    BY <1>1, <1>2, <2>2, Closed DEF CredentialsInv
<1>5. Settled' => Settled /\ task.user \subseteq {auth}
  <2>1. "token" # "credential"
    OBVIOUS
  <2> QED
    BY <1>1, <2>1, TasksLeft
<1>6. Settled' => (IsOpen(stream') => conn'.user = {auth})
  <2>1. CASE UNCHANGED <<stream, conn, tokens>>
    BY <1>5, <2>1 DEF CredentialsInv
  <2>2. CASE CloseStream("Error", pipeline, enabled)
    BY <2>2, Closed
  <2>3. CASE task.user # {} /\ conn' = [NoConn EXCEPT !.user = task.user]
    <3>1. conn'.user = task.user
      BY <2>3 DEF NoConn
    <3> QED
      BY <1>5, <2>3, <3>1
  <2> QED
    BY <1>2, <2>1, <2>2, <2>3
<1>7. Settled' => user' = auth
  BY <1>1, <1>5 DEF CredentialsInv
<1> QED
  BY <1>1, <1>3, <1>4, <1>6, <1>7, TasksLeft DEF CredentialsInv

\* A task goes to the end of the worker queue.
LEMMA TasksGrow ==
  ASSUME Inv, NEW task, tasks' = Append(tasks, task)
  PROVE  /\ \A i \in DOMAIN tasks : i \in DOMAIN tasks' /\ tasks'[i] = tasks[i]
         /\ \A i \in DOMAIN tasks' : i \in DOMAIN tasks \/ i = Len(tasks) + 1
         /\ Len(tasks) + 1 \in DOMAIN tasks' /\ tasks'[Len(tasks) + 1] = task
         /\ \A i \in DOMAIN tasks : Len(tasks) + 1 > i
BY DEF Inv, TypeAuth

LEMMA CredentialsOfToken ==
  ASSUME Inv, CredentialsInv, NEW t \in tokens, NEW u \in SUBSET t.users, GetToken(t, u)
  PROVE  CredentialsInv'
<1> DEFINE task == TokenTask(u, t.closes)
<1>1. /\ tokens' = tokens \ {t} /\ tasks' = Append(tasks, task)
      /\ UNCHANGED <<auth, notices, user, enabled, stream, conn>>
  BY DEF GetToken, authVars, engineVars
<1>2. task.kind = "token" /\ task.user = u
  BY DEF TokenTask
<1> HIDE DEF task
<1>3. ASSUME NEW i \in DOMAIN tasks, LastTask(i)' PROVE LastTask(i)
  BY <1>1, <1>3, TasksGrow DEF LastTask
<1>4. Settled' => Settled
  BY <1>1, TasksGrow DEF Settled
<1>5. notices' = <<>> =>
        \A i \in DOMAIN tasks' : LastTask(i)' => tasks'[i].user \subseteq {auth}
  <2> SUFFICES ASSUME notices = <<>>, NEW i \in DOMAIN tasks', LastTask(i)'
               PROVE  tasks'[i].user \subseteq {auth}
    BY <1>1
  <2>1. CASE i \in DOMAIN tasks
    BY <1>1, <1>3, <2>1, TasksGrow DEF CredentialsInv
  <2>2. CASE i = Len(tasks) + 1
    <3>1. tasks'[i].user = u /\ t.users = {auth}
      BY <1>1, <1>2, <2>2, TasksGrow DEF CredentialsInv
    <3> QED
      BY <3>1
  <2> QED
    BY <1>1, <2>1, <2>2, TasksGrow
<1> QED
  BY <1>1, <1>4, <1>5 DEF CredentialsInv

LEMMA CredentialsTold ==
  ASSUME Inv, CredentialsInv, AuthStateDidChange PROVE CredentialsInv'
<1> DEFINE task == CredentialTask(Head(notices))
<1>1. /\ notices # <<>> /\ notices' = Tail(notices) /\ tasks' = Append(tasks, task)
      /\ tokens' = {[t EXCEPT !.users = {auth}] : t \in tokens}
      /\ UNCHANGED <<auth, user, enabled, stream, conn>>
  BY DEF AuthStateDidChange, engineVars
<1>2. task.kind = "credential" /\ task.user = {Head(notices)}
  BY DEF CredentialTask
<1> HIDE DEF task
<1>3. \A t \in tokens' : t.users = {auth}
  <2>1. \A t \in tokens : [t EXCEPT !.users = {auth}].users = {auth}
    BY DEF Inv, TypeAuth, TokenSet
  <2> QED
    BY <1>1, <2>1
<1>4. ~Settled'
  BY <1>1, <1>2, TasksGrow DEF Settled
<1>5. /\ notices' # <<>> => Last(notices') = Last(notices)
      /\ notices' = <<>> => Head(notices) = Last(notices)
  <2>1. notices \in Seq(Users) /\ Len(notices) \in Nat \ {0} /\ Head(notices) = notices[1]
    BY <1>1 DEF Inv, TypeAuth
  <2>2. /\ Tail(notices) \in Seq(Users) /\ Len(Tail(notices)) = Len(notices) - 1
        /\ \A i \in 1..Len(Tail(notices)) : Tail(notices)[i] = notices[i + 1]
    BY <1>1, <2>1, HeadTailProperties
  <2>3. notices' # <<>> => Last(notices') = Last(notices)
    <3>1. notices' # <<>> => Len(Tail(notices)) \in 1..Len(Tail(notices))
      BY <1>1, <2>1, <2>2
    <3> QED
      BY <1>1, <2>1, <2>2, <3>1 DEF Last
  <2>4. notices' = <<>> => Len(notices) = 1
    BY <1>1, <2>1, <2>2
  <2> QED
    BY <2>1, <2>3, <2>4 DEF Last
<1>6. notices' = <<>> =>
        \A i \in DOMAIN tasks' : LastTask(i)' => tasks'[i].user \subseteq {auth}
  <2> SUFFICES ASSUME notices' = <<>>, NEW i \in DOMAIN tasks', LastTask(i)'
               PROVE  tasks'[i].user \subseteq {auth}
    OBVIOUS
  <2>1. i = Len(tasks) + 1
    BY <1>1, <1>2, TasksGrow DEF LastTask
  <2>2. Last(notices) = auth
    BY <1>1 DEF CredentialsInv
  <2>3. tasks'[i].user = {auth}
    BY <1>1, <1>2, <1>5, <2>1, <2>2, TasksGrow
  <2> QED
    BY <2>3
<1> QED
  BY <1>1, <1>3, <1>4, <1>5, <1>6 DEF CredentialsInv

LEMMA CredentialsChanged ==
  ASSUME Inv, CredentialsInv, NEW u \in Users, UserChanges(u) PROVE CredentialsInv'
<1>1. auth' = u /\ notices' = Append(notices, u) /\ UNCHANGED <<enabled, stream>>
  BY DEF UserChanges
<1>2. notices' # <<>> /\ Last(notices') = u
  <2>1. notices \in Seq(Users)
    BY DEF Inv, TypeAuth
  <2> QED
    BY <1>1, <2>1 DEF Last
<1>3. ~Settled'
  BY <1>2 DEF Settled
<1> QED
  BY <1>1, <1>2, <1>3 DEF CredentialsInv

LEMMA CredentialsRestarted ==
  ASSUME Restart PROVE CredentialsInv'
<1>1. /\ notices' = <<>> /\ tasks' = <<>> /\ user' = auth /\ auth' = auth /\ enabled' = TRUE
      /\ \E p : StartIfNeeded("Initial", p, TRUE, 0, {})
  BY DEF Restart
<1>2. (\A t \in tokens' : t.users = {auth}) /\ ~IsOpen(stream')
  <2>1. ~IsOpen("Initial")
    BY DEF IsOpen
  <2>2. PICK p : StartIfNeeded("Initial", p, TRUE, 0, {})
    BY <1>1, Zenon
  <2>3. \A t \in tokens' : t.users = {auth}
    <3>1. tokens' \subseteq {[closes |-> 0, users |-> {auth}]}
      BY <2>2 DEF StartIfNeeded
    <3> QED
      BY <3>1
  <2>4. ~IsOpen(stream')
    BY <2>1, <2>2, Started, Zenon
  <2> QED
    BY <2>3, <2>4
<1> QED
  BY <1>1, <1>2 DEF CredentialsInv

LEMMA CredentialsStep == Inv /\ CredentialsInv /\ [Next]_vars => CredentialsInv'
<1> SUFFICES ASSUME Inv, CredentialsInv, [Next]_vars PROVE CredentialsInv'
  OBVIOUS
<1>1. CASE TokenArrives
  BY <1>1, CredentialsOfToken DEF TokenArrives
<1>2. CASE TokenFails
  BY <1>2, CredentialsOfToken DEF TokenFails
<1>3. CASE Crash \/ CrashBeforeAcknowledging
  BY <1>3, CredentialsRestarted DEF Crash, CrashBeforeAcknowledging
<1> QED
  BY <1>1, <1>2, <1>3, DeafSteps, CredentialsKept, CredentialsHandled, CredentialsResumed,
     CredentialsTold, CredentialsChanged DEF Next, Worker, Credentials, Disturbance

\* The writes of an account are sent with the credentials of that account, unless
\* Auth has changed the user and the worker queue is yet to hear of it: the stream
\* is restarted with every change (HandleCredentialChange), and a call of GetToken
\* that a change overtakes is made again.
THEOREM SentAsTheirUserHolds == Spec => []SentAsTheirUser
<1>1. Init => CredentialsInv
  BY DEF Init, CredentialsInv, IsOpen
<1>2. Spec => []CredentialsInv
  BY <1>1, InitInv, StepInv, CredentialsStep, PTL DEF Spec
<1>3. CredentialsInv => SentAsTheirUser
  BY DEF CredentialsInv, SentAsTheirUser, Settled
<1> QED
  BY <1>2, <1>3, PTL


-----------------------------------------------------------------------------
(* No write is lost *)

\* The write that ended the call is the first one without a reply.
DeniedInv == conn.ended => queue[user][Len(conn.replies) + 1].write \in denied

\* A step after which an ended call is the one that had ended before.
StaysEnded ==
  conn'.ended => conn.ended /\ conn'.replies = conn.replies /\ user' = user

ServerKeeps == applied \subseteq applied' /\ denied \subseteq denied'

LEMMA EndedCall ==
  ASSUME Inv, conn.ended
  PROVE  /\ user \in Users /\ queue[user] \in Seq(Batch) /\ conn.replies \in Seq(Batch)
         /\ Len(conn.replies) + 1 \in 1..Len(queue[user])
         /\ pipeline # <<>> /\ handshake /\ enabled /\ IsOpen(stream)
         /\ pipeline[Len(conn.replies) + 1] = queue[user][Len(conn.replies) + 1]
<1>1. /\ user \in Users /\ queue[user] \in Seq(Batch) /\ conn.replies \in Seq(Batch)
      /\ pipeline \in Seq(Batch)
  BY FrontOfPipeline DEF Inv, TypeAuth, TypeStream, ConnSet
<1>2. /\ pipeline # <<>> /\ handshake /\ enabled /\ IsFront(pipeline, queue[user])
      /\ IsOpen(stream) /\ Len(conn.replies) < Len(pipeline)
  BY FrontOfPipeline DEF Inv, StreamInv, ResultsInStep, BusyBefore
<1>3. Len(conn.replies) + 1 \in 1..Len(queue[user]) /\ Len(conn.replies) + 1 \in 1..Len(pipeline)
  BY <1>1, <1>2 DEF IsFront
<1> QED
  BY <1>1, <1>2, <1>3 DEF IsFront

LEMMA RestartEnded ==
  ASSUME Inv, NEW q, RestartNetwork(q)
  PROVE  ~conn'.ended
<1>1. CASE IsStarted(stream)
  BY <1>1 DEF RestartNetwork, CloseStream, NoConn
<1>2. CASE ~IsStarted(stream)
  <2>1. conn' = conn /\ ~IsOpen(stream)
    BY <1>2 DEF RestartNetwork, IsStarted, IsOpen
  <2> QED
    BY <2>1, EndedCall
<1> QED
  BY <1>1, <1>2

LEMMA FillEnded ==
  ASSUME NEW on, NEW p, NEW q, NEW c \in ConnSet, FillWritePipeline(on, p, q, c)
  PROVE  conn'.replies = c.replies /\ conn'.ended = c.ended
BY DEF FillWritePipeline, ConnSet

\* Every step but five leaves the queues to themselves, and an ended call as it is.
LEMMA EndedElsewhere ==
  ASSUME Inv, [Next]_vars
  PROVE  /\ ServerKeeps
         /\ \/ WriteMutations \/ Deny \/ OnWriteStreamMutationResult \/ HandleWriteError
            \/ StaysEnded /\ queue' = queue /\ made' = made
<1> USE DEF storeVars, engineVars, streamVars, boundVars, serverVars, StaysEnded, ServerKeeps
<1>0. conn \in ConnSet /\ NoConn.ended = FALSE
  BY DEF Inv, TypeStream, NoConn
<1>1. CASE HandleCredentialChange
  <2>1. UNCHANGED <<queue, made, applied, denied>>
    BY <1>1 DEF HandleCredentialChange
  <2>2. CASE enabled
    <3>1. RestartNetwork(queue[user'])
      BY <1>1, <2>2 DEF HandleCredentialChange
    <3> QED
      BY <2>1, <3>1, RestartEnded
  <2>3. CASE ~enabled
    <3>1. conn' = conn
      BY <1>1, <2>3 DEF HandleCredentialChange
    <3> QED
      BY <2>1, <2>3, <3>1, EndedCall
  <2> QED
    BY <2>2, <2>3
<1>2. CASE ResumeStartWithCredentials
  <2>1. UNCHANGED <<queue, made, applied, denied, user>>
    BY <1>2 DEF ResumeStartWithCredentials
  <2>2. \/ conn' = conn
        \/ CloseStream("Error", pipeline, enabled)
        \/ conn' = [NoConn EXCEPT !.user = Head(tasks).user]
    BY <1>2 DEF ResumeStartWithCredentials
  <2>3. conn' = [NoConn EXCEPT !.user = Head(tasks).user] => ~conn'.ended
    BY DEF NoConn
  <2> QED
    BY <1>0, <2>1, <2>2, <2>3 DEF CloseStream
<1>3. CASE OnWriteStreamHandshakeComplete
  <2>1. /\ UNCHANGED <<queue, made, applied, denied, user>> /\ ~handshake
        /\ conn' = [conn EXCEPT !.requests = pipeline]
    BY <1>3 DEF OnWriteStreamHandshakeComplete
  <2>2. conn'.ended = conn.ended
    BY <1>0, <2>1 DEF ConnSet
  <2> QED
    BY <2>1, <2>2, EndedCall
<1>4. CASE EnableNetwork
  <2>1. /\ UNCHANGED <<queue, made, applied, denied, user>>
        /\ FillWritePipeline(TRUE, pipeline, queue[user], conn)
    BY <1>4 DEF EnableNetwork
  <2> QED
    BY <1>0, <2>1, FillEnded
<1>5. CASE Timers
  BY <1>0, <1>5 DEF Timers, BackoffElapsed, IdleTimeout, CloseStream
<1>6. CASE Apply
  <2>1. /\ UNCHANGED <<queue, made, denied, user>> /\ ~conn.ended
        /\ applied' = applied \cup {Head(conn.requests).write}
        /\ conn' = [conn EXCEPT !.requests = Tail(conn.requests),
                               !.replies = Append(conn.replies, Head(conn.requests))]
    BY <1>6 DEF Apply
  <2>2. ~conn'.ended
    BY <1>0, <2>1 DEF ConnSet
  <2> QED
    BY <2>1, <2>2
<1>7. CASE Credentials \/ TokenFails \/ RegisterPendingWritesCallback \/ UNCHANGED vars
  BY <1>7 DEF Credentials, TokenArrives, GetToken, AuthStateDidChange, TokenFails,
     RegisterPendingWritesCallback, vars
<1>8. CASE \E u \in Users : UserChanges(u)
  BY <1>8 DEF UserChanges
<1>9. CASE ConnectionBreaks
  BY <1>0, <1>9 DEF ConnectionBreaks, CloseStream
<1>10. CASE ConnectivityChanges
  BY <1>10, RestartEnded DEF ConnectivityChanges
<1>11. CASE DisableNetwork
  BY <1>0, <1>11 DEF DisableNetwork, StopNetwork, CloseStream
<1>12. CASE Crash \/ CrashBeforeAcknowledging
  BY <1>0, <1>12 DEF Crash, CrashBeforeAcknowledging, Restart
<1>13. WriteMutations \/ OnWriteStreamMutationResult \/ HandleWriteError => ServerKeeps
  BY DEF WriteMutations, OnWriteStreamMutationResult, HandleWriteError
<1>14. Deny => ServerKeeps
  BY DEF Deny
<1> QED
  BY <1>1, <1>2, <1>3, <1>4, <1>5, <1>6, <1>7, <1>8, <1>9, <1>10, <1>11, <1>12, <1>13, <1>14
     DEF Next, Worker, Server, Disturbance

\* A write joins the end of a queue, behind the one that was turned down.
LEMMA DeniedWriteMutations ==
  ASSUME Inv, DeniedInv, WriteMutations
  PROVE  /\ DeniedInv' /\ made' = made + 1
         /\ \A u \in Users : \A w \in WritesOf(queue[u]) : w \in WritesOf(queue'[u])
         /\ made + 1 \in WritesOf(queue'[user])
<1> DEFINE batch == [id |-> nextId, write |-> made + 1]
           q == Append(queue[user], batch)
<1>1. /\ user' = user /\ made' = made + 1 /\ queue' = [queue EXCEPT ![user] = q]
      /\ FillWritePipeline(enabled, pipeline, q, conn) /\ UNCHANGED denied
  BY DEF WriteMutations, serverVars
<1>2. /\ user \in Users /\ queue[user] \in Seq(Batch) /\ queue \in [Users -> Seq(Batch)]
      /\ conn \in ConnSet
  BY DEF Inv, TypeAuth, TypeStore, TypeStream
<1>3. conn'.replies = conn.replies /\ conn'.ended = conn.ended
  BY <1>1, <1>2, FillEnded
<1>4. batch.write = made + 1
  OBVIOUS
<1> HIDE DEF batch
<1>5. /\ DOMAIN q = 1..(Len(queue[user]) + 1) /\ Len(queue[user]) \in Nat
      /\ \A i \in 1..Len(queue[user]) : q[i] = queue[user][i]
      /\ q[Len(queue[user]) + 1] = batch /\ DOMAIN queue[user] = 1..Len(queue[user])
  BY <1>2
<1> HIDE DEF q
<1>6. queue'[user] = q /\ \A u \in Users : u # user => queue'[u] = queue[u]
  BY <1>1, <1>2
<1>7. DeniedInv'
  <2>1. conn.ended => Len(conn.replies) + 1 \in 1..Len(queue[user])
    BY EndedCall
  <2> QED
    BY <1>1, <1>3, <1>5, <1>6, <2>1 DEF DeniedInv
<1>8. \A w \in WritesOf(queue[user]) : w \in WritesOf(q)
  BY <1>5 DEF WritesOf
<1>9. made + 1 \in WritesOf(q)
  BY <1>4, <1>5 DEF WritesOf
<1> QED
  BY <1>1, <1>6, <1>7, <1>8, <1>9

LEMMA DeniedDeny ==
  ASSUME Inv, Deny PROVE DeniedInv' /\ queue' = queue /\ made' = made
<1>1. /\ conn.requests # <<>> /\ ~conn.ended
      /\ denied' = denied \cup {Head(conn.requests).write}
      /\ conn' = [conn EXCEPT !.requests = Tail(conn.requests), !.ended = TRUE]
      /\ UNCHANGED <<queue, user, made>>
  BY DEF Deny, storeVars, engineVars, boundVars
<1>2. /\ conn \in ConnSet /\ Len(conn.replies) < Len(pipeline)
      /\ pipeline[Len(conn.replies) + 1] = Head(conn.requests)
  BY <1>1, FirstRequest
<1>3. conn'.replies = conn.replies
  BY <1>1, <1>2 DEF ConnSet
<1>4. queue[user][Len(conn.replies) + 1] = Head(conn.requests)
  <2>1. /\ IsFront(pipeline, queue[user]) /\ pipeline \in Seq(Batch)
        /\ conn.replies \in Seq(Batch)
    BY <1>2, FrontOfPipeline DEF Inv, TypeStream, ConnSet
  <2>2. Len(conn.replies) + 1 \in 1..Len(pipeline)
    BY <1>2, <2>1
  <2> QED
    BY <1>2, <2>1, <2>2 DEF IsFront
<1> QED
  BY <1>1, <1>3, <1>4 DEF DeniedInv

\* The first write leaves with its reply, and the one turned down moves up.
LEMMA DeniedMutationResult ==
  ASSUME Inv, DeniedInv, OnWriteStreamMutationResult PROVE DeniedInv'
<1> DEFINE c == [conn EXCEPT !.replies = Tail(conn.replies)]
           q == queue[user]
           r == conn.replies
<1>1. /\ conn.replies # <<>>
      /\ FillWritePipeline(enabled, Tail(pipeline), RemoveBatch(q, Head(pipeline).id), c)
      /\ UNCHANGED denied
  BY DEF OnWriteStreamMutationResult, serverVars
<1>2. queue[user] # <<>> /\ user' = user /\ queue' = [queue EXCEPT ![user] = Tail(queue[user])]
  BY AnsweredWrite
<1>3. /\ user \in Users /\ queue[user] \in Seq(Batch) /\ queue \in [Users -> Seq(Batch)]
      /\ conn \in ConnSet /\ conn.replies \in Seq(Batch)
  BY DEF Inv, TypeAuth, TypeStore, TypeStream, ConnSet
<1>4. conn'.replies = Tail(conn.replies) /\ conn'.ended = conn.ended
  <2>1. Tail(conn.replies) \in Seq(Batch)
    BY <1>1, <1>3
  <2>2. c \in ConnSet /\ c.replies = Tail(conn.replies) /\ c.ended = conn.ended
    BY <1>3, <2>1 DEF ConnSet
  <2> QED
    BY <1>1, <2>2, FillEnded
<1>5. queue'[user'] = Tail(queue[user])
  BY <1>2, <1>3
<1>6. ASSUME conn.ended PROVE Tail(q)[Len(Tail(r)) + 1] = q[Len(r) + 1]
  <2>1. Len(r) + 1 \in 1..Len(q) /\ r \in Seq(Batch) /\ r # <<>> /\ q \in Seq(Batch) /\ q # <<>>
    BY <1>1, <1>2, <1>3, <1>6, EndedCall
  <2> HIDE DEF q, r
  <2>2. /\ Len(Tail(r)) = Len(r) - 1 /\ Len(r) \in Nat /\ Len(q) \in Nat
        /\ \A i \in 1..(Len(q) - 1) : Tail(q)[i] = q[i + 1]
    BY <2>1, HeadTailProperties
  <2>3. Len(Tail(r)) + 1 = Len(r) /\ Len(r) \in 1..(Len(q) - 1)
    <3>1. Len(r) > 0
      BY <2>1
    <3> QED
      BY <2>1, <2>2, <3>1
  <2> QED
    BY <2>2, <2>3
<1> QED
  BY <1>1, <1>4, <1>5, <1>6 DEF DeniedInv

\* The write that leaves its queue is one the server has applied or turned down.
LEMMA LeavesAnswered ==
  ASSUME DeliveryInv, DeniedInv, OnWriteStreamMutationResult \/ HandleWriteError
  PROVE  Head(queue[user]).write \in applied \cup denied
<1>1. CASE handshake /\ conn.replies # <<>>
  BY <1>1, FirstReply
<1>2. CASE conn.ended /\ conn.replies = <<>>
  <2>1. queue[user] \in Seq(Batch) /\ Len(conn.replies) + 1 \in 1..Len(queue[user])
    BY <1>2, EndedCall DEF DeliveryInv
  <2>2. Len(conn.replies) + 1 = 1
    BY <1>2
  <2>3. Head(queue[user]) = queue[user][1]
    BY <2>1, <2>2
  <2>4. queue[user][Len(conn.replies) + 1].write \in denied
    BY <1>2 DEF DeniedInv
  <2> QED
    BY <2>2, <2>3, <2>4
<1>3. conn.ended => handshake
  BY EndedCall DEF DeliveryInv
<1> QED
  BY <1>1, <1>2, <1>3 DEF OnWriteStreamMutationResult, HandleWriteError

\* What leaves a queue is its first write.
LEMMA OnlyTheFirstLeaves ==
  ASSUME Inv, OnWriteStreamMutationResult \/ HandleWriteError
  PROVE  /\ made' = made
         /\ \A u \in Users : \A w \in WritesOf(queue[u]) :
              w \in WritesOf(queue'[u]) \/ w = Head(queue[user]).write
<1>1. /\ queue[user] # <<>> /\ made' = made
      /\ queue' = [queue EXCEPT ![user] = Tail(queue[user])]
  BY AnsweredWrite
<1>2. user \in Users /\ queue[user] \in Seq(Batch) /\ queue \in [Users -> Seq(Batch)]
  BY DEF Inv, TypeAuth, TypeStore
<1>3. queue'[user] = Tail(queue[user]) /\ \A u \in Users : u # user => queue'[u] = queue[u]
  BY <1>1, <1>2
<1>4. \A b \in ToSet(queue[user]) : b = Head(queue[user]) \/ b \in ToSet(Tail(queue[user]))
  BY <1>1, <1>2, HeadTail
<1>5. \A s : WritesOf(s) = {b.write : b \in ToSet(s)}
  BY DEF WritesOf, ToSet
<1>6. \A w \in WritesOf(queue[user]) :
        w \in WritesOf(Tail(queue[user])) \/ w = Head(queue[user]).write
  BY <1>4, <1>5
<1> QED
  BY <1>1, <1>3, <1>6

LEMMA LostStep ==
  ASSUME DeliveryInv, DeniedInv, NothingLost, [Next]_vars
  PROVE  DeniedInv' /\ NothingLost'
<1>0. Inv /\ ServerKeeps /\ made \in Nat /\ user \in Users
  BY EndedElsewhere DEF DeliveryInv, Inv, TypeServer, TypeAuth
<1>1. CASE StaysEnded /\ queue' = queue /\ made' = made
  BY <1>0, <1>1 DEF StaysEnded, ServerKeeps, DeniedInv, NothingLost
<1>2. CASE WriteMutations
  <2>1. /\ DeniedInv' /\ made' = made + 1
        /\ \A u \in Users : \A w \in WritesOf(queue[u]) : w \in WritesOf(queue'[u])
        /\ made + 1 \in WritesOf(queue'[user])
    BY <1>0, <1>2, DeniedWriteMutations
  <2>2. \A w \in 1..made' : w \in 1..made \/ w = made + 1
    BY <1>0, <2>1
  <2> QED
    BY <1>0, <2>1, <2>2 DEF ServerKeeps, NothingLost
<1>3. CASE Deny
  <2>1. DeniedInv' /\ queue' = queue /\ made' = made
    BY <1>0, <1>3, DeniedDeny
  <2> QED
    BY <1>0, <2>1 DEF ServerKeeps, NothingLost
<1>4. CASE OnWriteStreamMutationResult \/ HandleWriteError
  <2>1. DeniedInv'
    <3>1. HandleWriteError => ~conn'.ended
      BY DEF HandleWriteError, CloseStream, NoConn
    <3> QED
      BY <1>0, <1>4, <3>1, DeniedMutationResult DEF DeniedInv
  <2>2. /\ made' = made
        /\ \A u \in Users : \A w \in WritesOf(queue[u]) :
             w \in WritesOf(queue'[u]) \/ w = Head(queue[user]).write
    BY <1>0, <1>4, OnlyTheFirstLeaves
  <2>3. Head(queue[user]).write \in applied \cup denied
    BY <1>4, LeavesAnswered
  <2> QED
    BY <1>0, <2>1, <2>2, <2>3 DEF ServerKeeps, NothingLost
<1> QED
  BY <1>0, <1>1, <1>2, <1>3, <1>4, EndedElsewhere

\* Whatever breaks, ends or changes, every write is in the queue of an account, or the
\* server has applied it or turned it down (OnWriteStreamMutationResult,
\* HandleWriteError, RemoveBatch).
THEOREM NothingLostHolds == Spec => []NothingLost
<1>1. Init => DeniedInv /\ NothingLost
  BY DEF Init, NoConn, DeniedInv, NothingLost
<1>2. DeliveryInv /\ (DeniedInv /\ NothingLost) /\ [Next]_vars => (DeniedInv /\ NothingLost)'
  BY LostStep
<1> QED
  BY <1>1, <1>2, Delivery, PTL DEF Spec

-----------------------------------------------------------------------------
(* The id a restart goes on with *)

\* LevelDbMutationQueue::Start always finds an id to go on with, and only one,
\* so that neither a restart nor a change of user is held up.
OneNextId == \E n \in 1..nextId : NextIds(queue) = {n}

LEMMA OneNextIdFollows ==
  ASSUME TypeStore, IdsName
  PROVE  OneNextId
<1> DEFINE ids == UNION {IdsOf(queue[u]) : u \in Users}
           Above == {n \in 1..nextId : \A i \in ids : i < n}
<1>1. nextId \in Nat /\ nextId > 0
  BY DEF TypeStore
<1>2. \A i \in ids : i \in 1..(nextId - 1)
  <2>1. TAKE i \in ids
  <2>2. PICK u \in Users : \E k \in DOMAIN queue[u] : i = queue[u][k].id
    BY DEF IdsOf
  <2>3. PICK k \in DOMAIN queue[u] : i = queue[u][k].id
    BY <2>2
  <2>4. queue[u][k] \in Batches(u)
    BY DEF Batches
  <2>5. queue[u][k].id \in Nat /\ queue[u][k].id > 0 /\ queue[u][k].id < nextId
    <3>1. queue[u][k] \in Batch
      BY DEF TypeStore
    <3>2. QED
      BY <2>4, <3>1, BatchFields DEF IdsName
  <2>6. QED
    BY <1>1, <2>3, <2>5
<1>3. nextId \in Above
  BY <1>1, <1>2
<1>4. PICK n \in Above : \A k \in Above : ~ (k < n)
  <2>1. Above \in SUBSET Nat
    BY <1>1
  <2>2. QED
    BY <1>3, <2>1, LeastNat, Zenon
<1>5. n \in 1..nextId /\ \A i \in ids : i < n
  OBVIOUS
<1>6. n = 1 \/ n - 1 \in ids
  <2>1. SUFFICES ASSUME n # 1, n - 1 \notin ids PROVE FALSE
    OBVIOUS
  <2>2. n - 1 \in 1..nextId /\ n - 1 < n
    BY <1>1, <1>5, <2>1
  <2>3. \A i \in ids : i < n - 1
    BY <1>1, <1>2, <1>5, <2>1
  <2>4. n - 1 \in Above
    BY <2>2, <2>3
  <2>5. QED
    BY <1>4, <2>2, <2>4
<1>7. ASSUME NEW k \in 1..nextId, \A i \in ids : i < k, k = 1 \/ k - 1 \in ids
      PROVE  k = n
  <2>1. ~ (k < n)
    BY <1>4, <1>7
  <2>2. ~ (n < k)
    BY <1>1, <1>2, <1>5, <1>7
  <2>3. QED
    BY <1>1, <1>5, <2>1, <2>2
<1>8. NextIds(queue) = {n}
  BY <1>5, <1>6, <1>7 DEF NextIds
<1>9. QED
  BY <1>5, <1>8 DEF OneNextId

\* A restart, and a change of user, always has an id to go on with
\* (LevelDbMutationQueue::Start), so neither action is ever blocked by it.
THEOREM OneNextIdHolds == Spec => []OneNextId
<1>1. Inv => OneNextId
  BY OneNextIdFollows DEF Inv, QueuesInv
<1>2. QED
  BY <1>1, Invariance, PTL

-----------------------------------------------------------------------------
(* The server applies the writes of an account in their order *)

\* No write is applied that has not been made, and so none that is yet to be queued.
AppliedMade == \A w \in applied : w <= made

OrderInv == AppliedInOrder /\ AppliedMade

\* What the server applies is the first write of the queue that has no reply yet.
LEMMA AppliesFront ==
  ASSUME Inv, Apply
  PROVE  /\ conn.replies \in Seq(Batch) /\ queue[user] \in Seq(Batch)
         /\ Len(conn.replies) + 1 \in DOMAIN queue[user]
         /\ applied' = applied \cup {queue[user][Len(conn.replies) + 1].write}
         /\ \A i \in 1..Len(conn.replies) : queue[user][i] = conn.replies[i]
         /\ queue' = queue /\ made' = made
<1> DEFINE k == Len(conn.replies) + 1
<1>1. /\ conn.requests # <<>> /\ ~conn.ended /\ queue' = queue /\ made' = made
      /\ applied' = applied \cup {Head(conn.requests).write}
  BY DEF Apply, storeVars, boundVars
<1>2. /\ pipeline[k] = Head(conn.requests) /\ Len(conn.replies) < Len(pipeline)
      /\ IsPrefix(conn.replies, pipeline)
  BY <1>1, FirstRequest
<1>3. conn.replies \in Seq(Batch) /\ pipeline \in Seq(Batch)
  BY DEF Inv, TypeStream, ConnSet
<1>4. queue[user] \in Seq(Batch) /\ IsFront(pipeline, queue[user])
  BY FrontOfPipeline
<1>5. k \in 1..Len(pipeline) /\ k \in DOMAIN queue[user]
  BY <1>2, <1>3, <1>4 DEF IsFront
<1>6. pipeline[k] = queue[user][k]
  BY <1>4, <1>5 DEF IsFront
<1>7. \A i \in 1..Len(conn.replies) : queue[user][i] = conn.replies[i]
  <2>1. \A i \in 1..Len(conn.replies) : conn.replies[i] = pipeline[i]
    BY <1>2, <1>3, PrefixIs
  <2>2. \A i \in 1..Len(conn.replies) : i \in 1..Len(pipeline)
    BY <1>2, <1>3
  <2> QED
    BY <1>4, <2>1, <2>2 DEF IsFront
<1> QED
  BY <1>1, <1>2, <1>3, <1>4, <1>5, <1>6, <1>7

\* All that come before it have a reply, and no other queue has the write.
LEMMA OrderApply ==
  ASSUME DeliveryInv, OrderInv, Apply PROVE OrderInv'
<1> DEFINE q == queue[user]
           k == Len(conn.replies) + 1
<1>1. /\ conn.replies \in Seq(Batch) /\ q \in Seq(Batch) /\ k \in DOMAIN q
      /\ applied' = applied \cup {q[k].write}
      /\ \A i \in 1..Len(conn.replies) : q[i] = conn.replies[i]
      /\ queue' = queue /\ made' = made
  BY AppliesFront DEF DeliveryInv
<1>2. user \in Users /\ made \in Nat /\ q[k] \in Batch
  BY <1>1 DEF DeliveryInv, Inv, TypeAuth, TypeServer
<1>3. \A i \in 1..Len(conn.replies) : q[i].write \in applied
  BY <1>1 DEF DeliveryInv, RepliesTrue
<1>4. ASSUME NEW u \in Users, NEW i \in DOMAIN queue[u], NEW j \in DOMAIN queue[u],
             i < j, queue[u][j].write \in applied'
      PROVE  queue[u][i].write \in applied
  <2>1. CASE queue[u][j].write \in applied
    BY <1>4, <2>1 DEF OrderInv, AppliedInOrder
  <2>2. CASE queue[u][j].write = q[k].write
    <3>1. queue[u][j] \in Batches(u) /\ q[k] \in Batches(user)
      BY <1>1 DEF Batches
    <3>2. u = user
      BY <1>2, <2>2, <3>1 DEF DeliveryInv, Inv, QueuesInv
    <3>3. j = k
      <4>1. ~(j < k) /\ ~(k < j)
        <5>1. \A m, n \in DOMAIN queue[user] :
                m < n => queue[user][m].write < queue[user][n].write
          BY <1>2 DEF DeliveryInv, Inv, QueuesInv, IdsName
        <5>2. q[k].write \in Nat
          BY <1>2 DEF Batch, Writes
        <5> QED
          BY <1>1, <2>2, <3>2, <5>1, <5>2
      <4> QED
        BY <1>1, <3>2, <4>1
    <3>4. i \in 1..Len(conn.replies)
      BY <1>1, <1>4, <3>2, <3>3
    <3> QED
      BY <1>3, <3>2, <3>4
  <2> QED
    BY <1>1, <1>4, <2>1, <2>2
<1>5. q[k].write <= made
  BY <1>1, <1>2 DEF DeliveryInv, Inv, QueuesInv, Batches
<1> HIDE DEF q, k
<1> QED
  BY <1>1, <1>4, <1>5 DEF OrderInv, AppliedInOrder, AppliedMade

\* A new write comes last, and is not applied.
LEMMA OrderWriteMutations ==
  ASSUME Inv, OrderInv, WriteMutations PROVE OrderInv'
<1> DEFINE batch == [id |-> nextId, write |-> made + 1]
           q == Append(queue[user], batch)
<1>1. /\ made' = made + 1 /\ queue' = [queue EXCEPT ![user] = q] /\ applied' = applied
  BY DEF WriteMutations, serverVars
<1>2. /\ user \in Users /\ queue[user] \in Seq(Batch) /\ queue \in [Users -> Seq(Batch)]
      /\ made \in Nat /\ \A w \in applied : w \in Nat
  BY DEF Inv, TypeAuth, TypeStore, TypeServer, Writes
<1>3. batch.write = made + 1
  OBVIOUS
<1> HIDE DEF batch
<1>4. /\ DOMAIN q = 1..(Len(queue[user]) + 1) /\ Len(queue[user]) \in Nat
      /\ \A i \in 1..Len(queue[user]) : q[i] = queue[user][i]
      /\ q[Len(queue[user]) + 1] = batch /\ DOMAIN queue[user] = 1..Len(queue[user])
  BY <1>2
<1> HIDE DEF q
<1>5. queue'[user] = q /\ \A u \in Users : u # user => queue'[u] = queue[u]
  BY <1>1, <1>2
<1>6. made + 1 \notin applied
  BY <1>2 DEF OrderInv, AppliedMade
<1>7. ASSUME NEW i \in DOMAIN q, NEW j \in DOMAIN q, i < j, q[j].write \in applied
      PROVE  q[i].write \in applied
  <2>1. j # Len(queue[user]) + 1
    BY <1>3, <1>4, <1>6, <1>7
  <2>2. i \in DOMAIN queue[user] /\ j \in DOMAIN queue[user]
    BY <1>4, <1>7, <2>1
  <2>3. q[i] = queue[user][i] /\ q[j] = queue[user][j]
    BY <1>4, <2>2
  <2> QED
    BY <1>2, <1>7, <2>2, <2>3 DEF OrderInv, AppliedInOrder
<1>8. AppliedInOrder'
  BY <1>1, <1>5, <1>7 DEF OrderInv, AppliedInOrder
<1>9. AppliedMade'
  BY <1>1, <1>2 DEF OrderInv, AppliedMade
<1> QED
  BY <1>8, <1>9 DEF OrderInv

\* What is left of a queue whose first write leaves is in order.
LEMMA OrderAnswered ==
  ASSUME Inv, OrderInv, OnWriteStreamMutationResult \/ HandleWriteError PROVE OrderInv'
<1>1. /\ queue[user] # <<>> /\ made' = made
      /\ queue' = [queue EXCEPT ![user] = Tail(queue[user])]
  BY AnsweredWrite
<1>2. applied' = applied
  BY DEF OnWriteStreamMutationResult, HandleWriteError, serverVars
<1>3. user \in Users /\ queue[user] \in Seq(Batch) /\ queue \in [Users -> Seq(Batch)]
  BY DEF Inv, TypeAuth, TypeStore
<1>4. queue'[user] = Tail(queue[user]) /\ \A u \in Users : u # user => queue'[u] = queue[u]
  BY <1>1, <1>3
<1> DEFINE q == queue[user]
           t == Tail(q)
<1>5. /\ q \in Seq(Batch) /\ Len(q) \in Nat /\ DOMAIN q = 1..Len(q)
      /\ DOMAIN t = 1..(Len(q) - 1)
      /\ \A i \in 1..(Len(q) - 1) : t[i] = q[i + 1]
  BY <1>1, <1>3, HeadTailProperties
<1> HIDE DEF t
<1>6. ASSUME NEW i \in DOMAIN t, NEW j \in DOMAIN t, i < j, t[j].write \in applied
      PROVE  t[i].write \in applied
  <2>1. i + 1 \in DOMAIN q /\ j + 1 \in DOMAIN q /\ i + 1 < j + 1
    BY <1>5, <1>6
  <2>2. t[i] = q[i + 1] /\ t[j] = q[j + 1]
    BY <1>5
  <2> QED
    BY <1>3, <1>6, <2>1, <2>2 DEF OrderInv, AppliedInOrder
<1>7. queue'[user] = t
  BY <1>4 DEF t
<1> HIDE DEF q
<1> QED
  BY <1>1, <1>2, <1>4, <1>6, <1>7 DEF OrderInv, AppliedInOrder, AppliedMade

LEMMA OrderStep == DeliveryInv /\ OrderInv /\ [Next]_vars => OrderInv'
<1> SUFFICES ASSUME DeliveryInv, OrderInv, [Next]_vars PROVE OrderInv'
  OBVIOUS
<1>1. Inv
  BY DEF DeliveryInv
<1>2. CASE Quiet \/ Crash \/ CrashBeforeAcknowledging
  <2>1. UNCHANGED <<queue, applied, made>>
    BY <1>2 DEF Quiet, Crash, CrashBeforeAcknowledging, Restart, serverVars
  <2> QED
    BY <2>1 DEF OrderInv, AppliedInOrder, AppliedMade
<1> QED
  BY <1>1, <1>2, StepKinds, OrderApply, OrderWriteMutations, OrderAnswered

\* Of the writes that an account has queued the server has applied a front, whatever
\* broke or ended while they were sent (OnWriteStreamHandshakeComplete, FillWritePipeline).
THEOREM AppliedInOrderHolds == Spec => []AppliedInOrder
<1>1. Init => OrderInv
  BY DEF Init, OrderInv, AppliedInOrder, AppliedMade
<1>2. OrderInv => AppliedInOrder
  BY DEF OrderInv
<1> QED
  BY <1>1, <1>2, OrderStep, Delivery, PTL DEF Spec

-----------------------------------------------------------------------------
(* At rest *)

\* Whoever waits for writes waits for one that is queued.
WaitsForOne == \A p \in pending : \E b \in Batches(user) : b.id = p.id

\* Nothing is on its way: Auth has nothing to tell, no token, task or timer is
\* outstanding, and nothing is on the connection.
AtRest ==
  /\ notices = <<>> /\ tokens = {} /\ tasks = <<>>
  /\ stream # "Backoff" /\ (IsOpen(stream) => handshake)
  /\ conn.requests = <<>> /\ conn.replies = <<>> /\ ~conn.ended

AllDoneAtRest ==
  AtRest /\ enabled =>
    /\ user = auth /\ queue[user] = <<>>
    /\ callbacks[user] = {} /\ pending = {}

LEMMA WaitsRegister ==
  ASSUME Inv, WaitsForOne, RegisterPendingWritesCallback PROVE WaitsForOne'
<1> DEFINE q == queue[user]
<1>1. /\ user' = user /\ queue' = queue
      /\ q = <<>> => pending' = pending
      /\ q # <<>> => \A p \in pending' : p \in pending \/ p.id = Last(q).id
  BY DEF RegisterPendingWritesCallback, storeVars, HighestUnacknowledgedBatchId
<1>2. q \in Seq(Batch)
  BY QueueFacts DEF Inv, TypeAuth
<1>3. Batches(user)' = Batches(user)
  BY <1>1 DEF Batches
<1>4. q # <<>> => Last(q) \in Batches(user)
  <2>1. q # <<>> => Len(q) \in DOMAIN q
    BY <1>2
  <2> QED
    BY <2>1 DEF Batches, Last
<1> QED
  BY <1>1, <1>3, <1>4 DEF WaitsForOne

LEMMA WaitsStep == Inv /\ WaitsForOne /\ [Next]_vars => WaitsForOne'
<1> SUFFICES ASSUME Inv, WaitsForOne, [Next]_vars PROVE WaitsForOne'
  OBVIOUS
<1>0. user \in Users /\ queue \in [Users -> Seq(Batch)] /\ queue[user] \in Seq(Batch)
  BY DEF Inv, TypeAuth, TypeStore
<1>1. CASE RegisterPendingWritesCallback
  BY <1>1, WaitsRegister
<1>2. CASE WriteMutations
  <2> DEFINE b == [id |-> nextId, write |-> made + 1]
             q == Append(queue[user], b)
  <2>1. /\ user' = user /\ pending' = pending /\ queue' = [queue EXCEPT ![user] = q]
    BY <1>2 DEF WriteMutations
  <2>2. queue'[user] = q
    BY <1>0, <2>1
  <2> HIDE DEF b
  <2>3. \A i \in DOMAIN queue[user] : i \in DOMAIN q /\ q[i] = queue[user][i]
    BY <1>0
  <2> HIDE DEF q
  <2>4. \A c \in Batches(user) : c \in Batches(user)'
    BY <2>1, <2>2, <2>3 DEF Batches
  <2> QED
    BY <2>1, <2>4 DEF WaitsForOne
<1>3. CASE OnWriteStreamMutationResult \/ HandleWriteError
  <2> DEFINE q == queue[user]
  <2>1. /\ q # <<>> /\ user' = user /\ queue' = [queue EXCEPT ![user] = Tail(q)]
        /\ pending' = {p \in pending : p.id # Head(q).id}
    BY <1>3, AnsweredWrite
  <2>2. queue'[user] = Tail(q)
    BY <1>0, <2>1
  <2>3. \A c \in ToSet(q) : c = Head(q) \/ c \in ToSet(Tail(q))
    BY <1>0, <2>1, HeadTail
  <2>4. Batches(user) = ToSet(q) /\ Batches(user)' = ToSet(Tail(q))
    BY <2>1, <2>2 DEF Batches, ToSet
  <2> QED
    BY <2>1, <2>3, <2>4 DEF WaitsForOne
<1>4. CASE pending' = {}
  BY <1>4 DEF WaitsForOne
<1>5. CASE pending' \subseteq pending /\ user' = user /\ queue' = queue
  BY <1>5 DEF WaitsForOne, Batches
<1> QED
  BY <1>1, <1>2, <1>3, <1>4, <1>5, WaitingElsewhere DEF Waiting

\* A device on which nothing is on its way any more, with the network on, has carried
\* out everything: no write of the user is queued, and nobody waits for one.  The queue
\* cannot get stuck (RemoteStore, Stream), whatever broke before.
THEOREM AllDoneAtRestHolds == Spec => []AllDoneAtRest
<1>1. Init => CredentialsInv /\ WaitsForOne
  BY DEF Init, CredentialsInv, IsOpen, WaitsForOne
<1>2. Spec => [](Inv /\ CredentialsInv /\ WaitsForOne)
  BY <1>1, InitInv, StepInv, CredentialsStep, WaitsStep, PTL DEF Spec
<1>3. Inv /\ CredentialsInv /\ WaitsForOne => AllDoneAtRest
  <2> SUFFICES ASSUME Inv, CredentialsInv, WaitsForOne, AtRest, enabled
               PROVE  /\ user = auth /\ queue[user] = <<>>
                      /\ callbacks[user] = {} /\ pending = {}
    BY DEF AllDoneAtRest
  <2>1. user = auth
    BY DEF CredentialsInv, Settled, AtRest
  <2>2. pipeline = <<>>
    <3> SUFFICES ASSUME pipeline # <<>> PROVE FALSE
      OBVIOUS
    <3>1. IsStarted(stream)
      BY DEF Inv, StreamInv, NeededIsStarted
    <3>2. stream # "Starting"
      BY DEF Inv, TokenInv, TokenIsComing, AtRest
    <3>3. handshake
      BY <3>1, <3>2 DEF AtRest, IsStarted, IsOpen
    <3>4. pipeline = conn.replies \o conn.requests
      BY <3>3 DEF Inv, StreamInv, ResultsInStep, AtRest
    <3> QED
      BY <3>4 DEF AtRest
  <2>3. queue[user] = <<>>
    <3>1. pipeline = Cut(queue[user]) /\ queue[user] \in Seq(Batch)
      BY FrontOfPipeline
    <3> QED
      BY <2>2, <3>1, CutOf
  <2>4. Batches(user) = {}
    BY <2>3 DEF Batches
  <2>5. callbacks[user] = {} /\ pending = {}
    BY <2>4 DEF Inv, TypeAuth, QueuesInv, IdsName, WaitsForOne
  <2> QED
    BY <2>1, <2>3, <2>5
<1> QED
  BY <1>2, <1>3, PTL
=============================================================================
