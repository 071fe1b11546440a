---------------------------- MODULE FeedsProofs ----------------------------
(***************************************************************************)
(* Proofs about Feeds, for any finite set of announcements, any texts, any *)
(* number of refreshes under way and of changes to the board.              *)
(*                                                                         *)
(* First that a query has an answer at all: the matching announcements can *)
(* be put in order.  Then the invariants.  Nothing is ever put in the      *)
(* cache from an earlier moment, and what a query of the server finds is   *)
(* put in the cache with it; so what a list has shown, the answers waiting *)
(* for it, and the cache come in this order, announcement by announcement: *)
(* each from a later moment than the one before it, or from two moments in *)
(* neither of which the list had the announcement (Upto).  With an answer  *)
(* waiting only for lists that are open (LiveOpen), the lists are those of *)
(* BoardReader.                                                            *)
(***************************************************************************)
EXTENDS Feeds, QueueTheorems, FiniteSetTheorems

\* The place of i among the ids, newest first.
Place(S, i) == Cardinality({j \in S : j >= i})

LEMMA PlaceBounds ==
  ASSUME NEW S \in SUBSET Nat, IsFiniteSet(S), NEW i \in S
  PROVE  /\ Place(S, i) \in 1..Cardinality(S)
         /\ \A j \in S : j < i => Place(S, i) < Place(S, j)
<1> DEFINE From(k) == {j \in S : j >= k}
<1>1. ASSUME NEW k \in S PROVE IsFiniteSet(From(k)) /\ Cardinality(From(k)) \in Nat
  <2>1. From(k) \in SUBSET S
    OBVIOUS
  <2>2. QED
    BY <2>1, FS_Subset, FS_CardinalityType, Zenon
<1>2. Cardinality(From(i)) <= Cardinality(S) /\ Cardinality(S) \in Nat
  <2>1. From(i) \in SUBSET S
    OBVIOUS
  <2>2. QED
    BY <2>1, FS_Subset, FS_CardinalityType, Zenon
<1>3. Cardinality(From(i)) # 0
  <2>1. i \in From(i)
    OBVIOUS
  <2>2. QED
    BY <2>1, <1>1, FS_EmptySet, Zenon
<1>4. ASSUME NEW j \in S, j < i PROVE Cardinality(From(i)) < Cardinality(From(j))
  <2>0. /\ i \in Nat /\ j \in Nat /\ j >= j /\ ~ (j >= i)
        /\ \A k \in Nat : k >= i => k >= j
    BY <1>4
  <2>1. From(i) \in SUBSET From(j) /\ j \in From(j) /\ j \notin From(i)
    BY <2>0
  <2>2. /\ Cardinality(From(i)) <= Cardinality(From(j))
        /\ Cardinality(From(i)) # Cardinality(From(j))
    BY <2>1, <1>1, FS_Subset, Zenon
  <2>3. QED
    BY <2>2, <1>1, i \in S
<1>5. QED
  BY <1>1, <1>2, <1>3, <1>4 DEF Place

\* A finite set of numbers can be listed from the largest to the smallest.
LEMMA Descending ==
  ASSUME NEW S \in SUBSET Nat, IsFiniteSet(S)
  PROVE  \E q \in [1..Cardinality(S) -> S] : \A j, k \in DOMAIN q : j < k => q[j] > q[k]
<1> DEFINE n == Cardinality(S)
           place == [i \in S |-> Place(S, i)]
           q == [k \in 1..n |-> CHOOSE i \in S : Place(S, i) = k]
<1>1. n \in Nat /\ IsFiniteSet(1..n) /\ Cardinality(1..n) = n
  <2>1. n \in Nat
    BY FS_CardinalityType, Zenon
  <2>2. 1 \in Int /\ n \in Int /\ (1 > n => n = 0) /\ n - 1 + 1 = n
    BY <2>1
  <2>3. IsFiniteSet(1..n) /\ Cardinality(1..n) = (IF 1 > n THEN 0 ELSE n - 1 + 1)
    BY <2>2, FS_Interval, Zenon
  <2>4. QED
    BY <2>1, <2>2, <2>3, Zenon
<1>2. place \in [S -> 1..n] /\ IsInjective(place)
  <2>1. \A i \in S : Place(S, i) \in 1..n
    BY PlaceBounds, Zenon
  <2>2. ASSUME NEW i \in S, NEW j \in S, Place(S, i) = Place(S, j) PROVE i = j
    <3>1. ~ (i < j) /\ ~ (j < i)
      <4>1. Place(S, i) \in Nat
        BY <2>1
      <4>2. (i < j => Place(S, j) < Place(S, i)) /\ (j < i => Place(S, i) < Place(S, j))
        BY PlaceBounds, Zenon
      <4>3. QED
        BY <4>1, <4>2, <2>2
    <3>2. QED
      BY <3>1
  <2>3. QED
    BY <2>1, <2>2 DEF IsInjective
<1>3. place \in Surjection(S, 1..n)
  <2>1. place \in Injection(S, 1..n)
    BY <1>2 DEF Injection
  <2>2. QED
    BY <2>1, <1>1, FS_Injection, Zenon
<1>4. ASSUME NEW k \in 1..n PROVE q[k] \in S /\ Place(S, q[k]) = k
  <2>1. \E i \in S : Place(S, i) = k
    BY <1>3 DEF Surjection
  <2>2. QED
    BY <2>1
<1>5. ASSUME NEW j \in 1..n, NEW k \in 1..n, j < k PROVE q[j] > q[k]
  <2>1. Place(S, q[j]) = j /\ Place(S, q[k]) = k /\ q[j] \in S /\ q[k] \in S
    BY <1>4, Zenon
  <2>2. q[j] # q[k]
    BY <2>1, <1>5
  <2>3. ~ (q[j] < q[k])
    <3>1. q[j] < q[k] => Place(S, q[k]) < Place(S, q[j])
      BY <2>1, PlaceBounds, Zenon
    <3>2. QED
      BY <3>1, <2>1, <1>5, <1>1
  <2>4. q[j] \in Nat /\ q[k] \in Nat
    BY <2>1
  <2>5. QED
    BY <2>2, <2>3, <2>4
<1>6. q \in [1..n -> S]
  BY <1>4
<1>7. QED
  BY <1>5, <1>6

-----------------------------------------------------------------------------
\* What a query returns: the matching announcements, newest first, each once.
LEMMA ListingSorted ==
  ASSUME NEW docs, NEW l
  PROVE  LET q == Listing(docs, l) IN
         /\ q \in Seq(Matching(docs, l))
         /\ {q[k] : k \in DOMAIN q} = Matching(docs, l)
         /\ \A j, k \in DOMAIN q : j < k => q[j] > q[k]
<1> DEFINE S == Matching(docs, l)
           n == Cardinality(S)
           q == Listing(docs, l)
<1>1. S \in SUBSET Nat /\ IsFiniteSet(S)
  <2>1. S \in SUBSET Ids
    BY DEF Matching
  <2>2. QED
    BY <2>1, FeedsAssumption, FS_Subset
<1>2. n \in Nat /\ IsFiniteSet(1..n) /\ Cardinality(1..n) = n
  <2>1. n \in Nat
    BY <1>1, FS_CardinalityType, Zenon
  <2>2. 1 \in Int /\ n \in Int /\ (1 > n => n = 0) /\ n - 1 + 1 = n
    BY <2>1
  <2>3. IsFiniteSet(1..n) /\ Cardinality(1..n) = (IF 1 > n THEN 0 ELSE n - 1 + 1)
    BY <2>2, FS_Interval, Zenon
  <2>4. QED
    BY <2>1, <2>2, <2>3, Zenon
<1>3. q \in [1..n -> S] /\ \A j, k \in DOMAIN q : j < k => q[j] > q[k]
  <2>1. \E p \in [1..n -> S] : \A j, k \in DOMAIN p : j < k => p[j] > p[k]
    BY <1>1, Descending, Zenon
  <2>2. q = CHOOSE p \in [1..n -> S] : \A j, k \in DOMAIN p : j < k => p[j] > p[k]
    BY Zenon DEF Listing
  <2>3. QED
    BY <2>1, <2>2, Zenon
<1> HIDE DEF q
<1>4. ASSUME NEW j \in 1..n, NEW k \in 1..n, q[j] = q[k] PROVE j = k
  <2>1. q[j] \in Nat /\ q[k] \in Nat /\ ~ (q[j] > q[k])
    BY <1>1, <1>3, <1>4
  <2>2. ~ (j < k) /\ ~ (k < j)
    BY <2>1, <1>3, <1>4
  <2>3. QED
    BY <2>2
<1>5. q \in Injection(1..n, S)
  BY <1>3, <1>4 DEF Injection, IsInjective
<1>6. q \in Surjection(1..n, S)
  BY <1>1, <1>2, <1>5, FS_Injection, Zenon
<1>7. {q[k] : k \in DOMAIN q} = S
  BY <1>3, <1>6 DEF Surjection
<1>8. q \in Seq(S)
  BY <1>2, <1>3
<1>9. QED
  BY <1>3, <1>7, <1>8 DEF q

-----------------------------------------------------------------------------
(***************************************************************************)
(* The order of the moments from which a list has its announcements.       *)
(***************************************************************************)
\* At moment t of p, announcement i is one of list l.
In(p, l, i, t) == p[t][i] # NoDoc /\ p[t][i].status = l

DocsIn(p, at) == [i \in Ids |-> p[at[i]][i]]

\* bt is no earlier than at, as far as list l can tell.
Upto(p, l, at, bt) ==
  \A i \in Ids : at[i] <= bt[i] \/ (~ In(p, l, i, at[i]) /\ ~ In(p, l, i, bt[i]))

\* An announcement of another list.
Elsewhere(p, l, i) == \E m \in Lists \ {l} : \E t \in DOMAIN p : In(p, m, i, t)

\* Answer a is no earlier than at; that of the server is so for what it does not list, too.
Follows(p, a, at) ==
  /\ Upto(p, a.list, at, a.at)
  /\ a.source = "server" => \A i \in Ids : at[i] <= a.at[i] \/ Elsewhere(p, a.list, i)

Started == past # <<>>

KeepsStatus ==
  \A i \in Ids, l \in Lists, m \in Lists : \A t \in DOMAIN past, u \in DOMAIN past :
    In(past, l, i, t) /\ In(past, m, i, u) => l = m

AnswersOf(p, S) ==
  \A a \in S :
    /\ a.at \in [Ids -> DOMAIN p]
    /\ a.source = "server" => \E t \in DOMAIN p : a.at = [i \in Ids |-> t]

InOrder ==
  \A j, k \in DOMAIN answers :
    j < k /\ answers[j].list = answers[k].list => Follows(past, answers[k], answers[j].at)

NoneOlder ==
  \A a \in ToSet(answers) : Follows(past, a, seen) /\ Upto(past, a.list, a.at, cached)

CacheLatest == \A l \in Lists : Upto(past, l, seen, cached)

Truth(p, rs, src, at, l) ==
  src # "none" =>
    /\ rs \in Seq(Row)
    /\ Shows(rs, DocsIn(p, at), l)
    /\ src = "server" => \E t \in DOMAIN p : Shows(rs, p[t], l)

RowsTrue == \A l \in Lists : Truth(past, rows[l], source[l], seen, l)

Inv ==
  /\ TypeOK /\ Started /\ KeepsStatus
  /\ AnswersOf(past, ToSet(answers))
  /\ InOrder /\ NoneOlder /\ CacheLatest /\ RowsTrue

LEMMA RowsLatest == RowsTrue => LatestOfEach
  BY DEF RowsTrue, Truth, LatestOfEach, Docs, DocsIn, Moments

LEMMA DocsBoard ==
  ASSUME NEW p \in Seq(Board), NEW at \in [Ids -> DOMAIN p]
  PROVE  DocsIn(p, at) \in Board
<1>1. ASSUME NEW i \in Ids PROVE p[at[i]][i] \in Document \cup {NoDoc}
  <2>1. at[i] \in DOMAIN p
    OBVIOUS
  <2>2. p[at[i]] \in Board
    BY <2>1
  <2> QED
    BY <2>2 DEF Board
<1> QED
  BY <1>1 DEF DocsIn, Board

\* What two boards have in common, a list shows of both.
LEMMA ShowsAlike ==
  ASSUME NEW rs, NEW docs, NEW l, Shows(rs, docs, l), NEW others,
         \A i \in Ids : docs[i] = others[i] \/
           (~ (docs[i] # NoDoc /\ docs[i].status = l) /\ ~ (others[i] # NoDoc /\ others[i].status = l))
  PROVE  Shows(rs, others, l)
<1>1. Matching(docs, l) = Matching(others, l)
  BY DEF Matching
<1>2. \A i \in Matching(docs, l) : docs[i] = others[i]
  BY DEF Matching
<1>3. \A k \in DOMAIN rs : rs[k].id \in Matching(docs, l)
  BY DEF Shows
<1> QED
  BY <1>1, <1>2, <1>3 DEF Shows

LEMMA RowsShow ==
  ASSUME past \in Seq(Board), NEW a \in Answer, a.at \in [Ids -> DOMAIN past], NEW broken
  PROVE  /\ RowsOf(a, broken) \in Seq(Row)
         /\ Shows(RowsOf(a, broken), DocsIn(past, a.at), a.list)
<1> DEFINE docs == DocsIn(past, a.at)
           ids == Listing(docs, a.list)
           rs == RowsOf(a, broken)
<1>1. docs \in Board
  BY DocsBoard, Zenon
<1>2. /\ ids \in Seq(Matching(docs, a.list))
      /\ {ids[k] : k \in DOMAIN ids} = Matching(docs, a.list)
      /\ \A j, k \in DOMAIN ids : j < k => ids[j] > ids[k]
  BY ListingSorted, Zenon
<1>0. Docs(a.at) = docs
  BY Zenon DEF Docs, DocsIn
<1>3. rs = [k \in DOMAIN ids |->
             [id |-> ids[k], text |-> docs[ids[k]].text, photo |-> Photo(ids[k], broken)]]
  BY <1>0, Zenon DEF RowsOf
<1> HIDE DEF docs, ids, rs
<1>4. ASSUME NEW k \in DOMAIN ids
      PROVE  /\ rs[k] \in Row /\ rs[k].id = ids[k] /\ rs[k].text = docs[ids[k]].text
  <2>1. ids[k] \in Matching(docs, a.list)
    BY <1>2
  <2>2. ids[k] \in Ids /\ docs[ids[k]] \in Document
    BY <2>1, <1>1 DEF Matching, Board
  <2>3. docs[ids[k]].text \in Texts /\ Photo(ids[k], broken) \in {"own", "icon"}
    BY <2>2 DEF Document, Photo
  <2>4. QED
    BY <2>2, <2>3, <1>3 DEF Row
<1>5. DOMAIN rs = DOMAIN ids /\ DOMAIN ids = 1..Len(ids) /\ Len(ids) \in Nat
  BY <1>2, <1>3
<1>6. rs \in Seq(Row)
  <2>1. rs = [k \in 1..Len(ids) |-> rs[k]]
    BY <1>3, <1>5
  <2>2. QED
    BY <2>1, <1>4, <1>5
<1>7. {rs[k].id : k \in DOMAIN rs} = Matching(docs, a.list)
  BY <1>2, <1>4, <1>5
<1>8. ASSUME NEW k \in DOMAIN rs
      PROVE  /\ rs[k].text = docs[rs[k].id].text
             /\ \A j \in 1..(k - 1) : rs[j].id > rs[k].id
  <2>1. \A j \in 1..(k - 1) : j \in DOMAIN ids /\ j < k
    BY <1>5
  <2>2. QED
    BY <2>1, <1>2, <1>4, <1>5
<1>9. QED
  BY <1>6, <1>7, <1>8 DEF Shows, rs, docs

\* One more moment changes nothing about the earlier ones.
LEMMA Longer ==
  ASSUME NEW p \in Seq(Board), NEW docs \in Board, NEW q, q = Append(p, docs)
  PROVE  /\ DOMAIN p \subseteq DOMAIN q
         /\ \A t \in DOMAIN p : q[t] = p[t]
         /\ \A l, i : \A t \in DOMAIN p : In(q, l, i, t) <=> In(p, l, i, t)
         /\ \A at \in [Ids -> DOMAIN p] : at \in [Ids -> DOMAIN q] /\ DocsIn(q, at) = DocsIn(p, at)
         /\ \A l, i : Elsewhere(p, l, i) => Elsewhere(q, l, i)
         /\ \A l : \A at, bt \in [Ids -> DOMAIN p] : Upto(p, l, at, bt) => Upto(q, l, at, bt)
         /\ \A a : \A at \in [Ids -> DOMAIN p] :
              a.at \in [Ids -> DOMAIN p] /\ Follows(p, a, at) => Follows(q, a, at)
<1>1. DOMAIN p \subseteq DOMAIN q /\ \A t \in DOMAIN p : q[t] = p[t]
  OBVIOUS
<1>2. \A l, i : \A t \in DOMAIN p : In(q, l, i, t) <=> In(p, l, i, t)
  BY <1>1, Zenon DEF In
<1>3. \A at \in [Ids -> DOMAIN p] : at \in [Ids -> DOMAIN q] /\ DocsIn(q, at) = DocsIn(p, at)
  BY <1>1 DEF DocsIn
<1>4. \A l, i : Elsewhere(p, l, i) => Elsewhere(q, l, i)
  BY <1>1, <1>2, Zenon DEF Elsewhere
<1>5. \A l : \A at, bt \in [Ids -> DOMAIN p] : Upto(p, l, at, bt) => Upto(q, l, at, bt)
  <2>1. ASSUME NEW l, NEW at \in [Ids -> DOMAIN p], NEW bt \in [Ids -> DOMAIN p],
               Upto(p, l, at, bt), NEW i \in Ids
        PROVE  at[i] <= bt[i] \/ (~ In(q, l, i, at[i]) /\ ~ In(q, l, i, bt[i]))
    <3>1. at[i] \in DOMAIN p /\ bt[i] \in DOMAIN p
      BY <2>1
    <3>2. at[i] <= bt[i] \/ (~ In(p, l, i, at[i]) /\ ~ In(p, l, i, bt[i]))
      BY <2>1, Zenon DEF Upto
    <3> QED
      BY <3>1, <3>2, <1>2, Zenon
  <2> QED
    BY <2>1, Zenon DEF Upto
<1>6. \A a : \A at \in [Ids -> DOMAIN p] :
        a.at \in [Ids -> DOMAIN p] /\ Follows(p, a, at) => Follows(q, a, at)
  BY <1>4, <1>5, Zenon DEF Follows
<1> QED
  BY <1>1, <1>2, <1>3, <1>4, <1>5, <1>6, Zenon

\* An answer leaves the main queue: the others are still in order, and follow it.
LEMMA TailInOrder ==
  ASSUME TypeOK, InOrder, answers # <<>>
  PROVE  LET q == Tail(answers) IN
         /\ \A j, k \in DOMAIN q : j < k /\ q[j].list = q[k].list => Follows(past, q[k], q[j].at)
         /\ \A a \in ToSet(q) : a \in ToSet(answers)
         /\ \A a \in ToSet(q) : a.list = Head(answers).list => Follows(past, a, Head(answers).at)
<1>1. /\ answers \in Seq(Answer) /\ Len(answers) \in Nat /\ Len(answers) > 0
      /\ DOMAIN answers = 1..Len(answers) /\ Head(answers) = answers[1]
  BY DEF TypeOK
<1>2. /\ DOMAIN Tail(answers) = 1..(Len(answers) - 1)
      /\ \A k \in 1..(Len(answers) - 1) : Tail(answers)[k] = answers[k + 1]
  BY <1>1, HeadTailProperties
<1>3. ASSUME NEW k \in 1..(Len(answers) - 1)
      PROVE  k \in Nat /\ k + 1 \in DOMAIN answers /\ 1 \in DOMAIN answers /\ 1 < k + 1
  BY <1>1
<1>4. ASSUME NEW j \in DOMAIN Tail(answers), NEW k \in DOMAIN Tail(answers), j < k,
             Tail(answers)[j].list = Tail(answers)[k].list
      PROVE  Follows(past, Tail(answers)[k], Tail(answers)[j].at)
  <2>1. j + 1 < k + 1 /\ j + 1 \in DOMAIN answers /\ k + 1 \in DOMAIN answers
    BY <1>2, <1>3, <1>4
  <2>2. Tail(answers)[j] = answers[j + 1] /\ Tail(answers)[k] = answers[k + 1]
    BY <1>2
  <2> QED
    BY <2>1, <2>2, <1>4, Zenon DEF InOrder
<1>5. ASSUME NEW k \in DOMAIN Tail(answers)
      PROVE  /\ Tail(answers)[k] \in ToSet(answers)
             /\ Tail(answers)[k].list = Head(answers).list =>
                  Follows(past, Tail(answers)[k], Head(answers).at)
  <2>1. Tail(answers)[k] = answers[k + 1] /\ k + 1 \in DOMAIN answers
    BY <1>2, <1>3
  <2>2. 1 \in DOMAIN answers /\ 1 < k + 1
    BY <1>2, <1>3
  <2> QED
    BY <1>1, <2>1, <2>2, Zenon DEF InOrder, ToSet
<1>6. QED
  BY <1>4, <1>5 DEF ToSet

LEMMA InitInv == Init => Inv
<1> SUFFICES ASSUME Init PROVE Inv
  OBVIOUS
<1>1. past = <<[i \in Ids |-> NoDoc]>> /\ past \in Seq(Board) /\ DOMAIN past = {1} /\ past # <<>>
  BY DEF Init, Board
<1>2. /\ asks \in [Lists -> Seq(BOOLEAN)] /\ answers \in Seq(Answer)
      /\ DOMAIN answers = {} /\ ToSet(answers) = {}
  BY DEF Init, ToSet
<1>3. TypeOK
  BY <1>1, <1>2 DEF Init, TypeOK, Moments
<1>4. KeepsStatus
  BY <1>1 DEF KeepsStatus, In
<1>5. CacheLatest
  BY DEF Init, CacheLatest, Upto
<1>6. RowsTrue
  BY DEF Init, RowsTrue, Truth
<1>7. AnswersOf(past, ToSet(answers)) /\ InOrder /\ NoneOlder
  BY <1>2 DEF AnswersOf, InOrder, NoneOlder
<1>8. QED
  BY <1>1, <1>3, <1>4, <1>5, <1>6, <1>7 DEF Inv, Started

-----------------------------------------------------------------------------
(***************************************************************************)
(* One lemma per actor.                                                    *)
(***************************************************************************)
\* What is known of one answer in the main queue.
LEMMA AnswerKnown ==
  ASSUME Inv, NEW a \in ToSet(answers)
  PROVE  /\ a \in Answer /\ a.list \in Lists /\ a.at \in [Ids -> DOMAIN past]
         /\ a.source \in Sources
         /\ Follows(past, a, seen) /\ Upto(past, a.list, a.at, cached)
<1>1. answers \in Seq(Answer)
  BY DEF Inv, TypeOK
<1>2. a \in Answer
  BY <1>1 DEF ToSet
<1>3. a.list \in Lists /\ a.source \in Sources
  BY <1>2 DEF Answer
<1> QED
  BY <1>2, <1>3, Zenon DEF Inv, AnswersOf, NoneOlder

LEMMA BoardKeeps ==
  ASSUME Inv, BoardStep
  PROVE  Inv' /\ UNCHANGED <<rows, asks, answers>>
<1>1. /\ past \in Seq(Board) /\ past # <<>> /\ Now \in Nat /\ Now \in DOMAIN past
      /\ past[Now] \in Board
  BY DEF Inv, TypeOK, Started, Now
<1>2. ASSUME NEW i \in Ids, NEW doc \in Document \cup {NoDoc},
             Becomes([past[Now] EXCEPT ![i] = doc]),
             \/ doc = NoDoc
             \/ \E t \in DOMAIN past : In(past, doc.status, i, t)
             \/ \A t \in DOMAIN past : past[t][i] = NoDoc
      PROVE  Inv' /\ UNCHANGED <<rows, asks, answers>>
  <2> DEFINE docs == [past[Now] EXCEPT ![i] = doc]
  <2>1. docs \in Board /\ docs[i] = doc /\ \A j \in Ids \ {i} : docs[j] = past[Now][j]
    BY <1>1 DEF Board
  <2>2. past' = Append(past, docs)
        /\ UNCHANGED <<cached, asks, answers, rows, source, seen, about, crashes>>
    BY <1>2 DEF Becomes
  <2> HIDE DEF docs
  <2>3. /\ past' \in Seq(Board) /\ past' # <<>> /\ DOMAIN past' = DOMAIN past \cup {Now + 1}
        /\ past'[Now + 1] = docs
    BY <1>1, <2>1, <2>2 DEF Now
  <2>4. /\ DOMAIN past \subseteq DOMAIN past'
        /\ \A t \in DOMAIN past : past'[t] = past[t]
        /\ \A l, j : \A t \in DOMAIN past : In(past', l, j, t) <=> In(past, l, j, t)
        /\ \A at \in [Ids -> DOMAIN past] :
             at \in [Ids -> DOMAIN past'] /\ DocsIn(past', at) = DocsIn(past, at)
        /\ \A l : \A at, bt \in [Ids -> DOMAIN past] : Upto(past, l, at, bt) => Upto(past', l, at, bt)
        /\ \A a : \A at \in [Ids -> DOMAIN past] :
             a.at \in [Ids -> DOMAIN past] /\ Follows(past, a, at) => Follows(past', a, at)
    BY <1>1, <2>1, <2>2, Longer, Zenon
  <2>5. cached \in [Ids -> DOMAIN past] /\ seen \in [Ids -> DOMAIN past]
    BY DEF Inv, TypeOK, Moments
  <2>6. \A a \in ToSet(answers) : a.at \in [Ids -> DOMAIN past]
    BY AnswerKnown
  <2>7. TypeOK'
    <3>1. cached' \in [Ids -> DOMAIN past'] /\ seen' \in [Ids -> DOMAIN past']
      BY <2>2, <2>4, <2>5
    <3> QED
      BY <2>2, <2>3, <3>1, Zenon DEF Inv, TypeOK, Moments
  <2>8. KeepsStatus'
    <3>1. ASSUME NEW l \in Lists, NEW j \in Ids, In(past', l, j, Now + 1)
          PROVE  \/ \E t \in DOMAIN past : In(past, l, j, t)
                 \/ \A m \in Lists : \A t \in DOMAIN past : ~ In(past, m, j, t)
      <4>1. CASE j = i
        <5>1. doc # NoDoc /\ doc.status = l
          BY <2>1, <2>3, <3>1, <4>1 DEF In
        <5> QED
          BY <5>1, <4>1, <1>2, Zenon DEF In
      <4>2. CASE j # i
        <5>1. In(past, l, j, Now)
          BY <2>1, <2>3, <3>1, <4>2 DEF In
        <5> QED
          BY <5>1, <1>1
      <4> QED
        BY <4>1, <4>2
    <3>2. ASSUME NEW j \in Ids, NEW l \in Lists, NEW m \in Lists,
                 NEW t \in DOMAIN past', NEW u \in DOMAIN past',
                 In(past', l, j, t), In(past', m, j, u)
          PROVE  l = m
      <4>1. CASE t \in DOMAIN past /\ u \in DOMAIN past
        BY <4>1, <3>2, <2>4, Zenon DEF Inv, KeepsStatus
      <4>2. CASE t = Now + 1 /\ u = Now + 1
        BY <3>2, <4>2 DEF In
      <4>3. CASE t = Now + 1 /\ u \in DOMAIN past
        BY <4>3, <3>1, <3>2, <2>4, Zenon DEF Inv, KeepsStatus
      <4>4. CASE t \in DOMAIN past /\ u = Now + 1
        BY <4>4, <3>1, <3>2, <2>4, Zenon DEF Inv, KeepsStatus
      <4> QED
        BY <4>1, <4>2, <4>3, <4>4, <2>3, Zenon
    <3> QED
      BY <3>2, Zenon DEF KeepsStatus
  <2>9. AnswersOf(past', ToSet(answers))
    <3>1. AnswersOf(past, ToSet(answers))
      BY DEF Inv
    <3> QED
      BY <2>4, <3>1, Zenon DEF AnswersOf
  <2>10. InOrder'
    <3>1. ASSUME NEW j \in DOMAIN answers, NEW k \in DOMAIN answers, j < k,
                 answers[j].list = answers[k].list
          PROVE  Follows(past', answers[k], answers[j].at)
      <4>1. answers[j].at \in [Ids -> DOMAIN past] /\ answers[k].at \in [Ids -> DOMAIN past]
        BY <2>6, Zenon DEF ToSet
      <4>2. Follows(past, answers[k], answers[j].at)
        BY <3>1, Zenon DEF Inv, InOrder
      <4> QED
        BY <4>1, <4>2, <2>4, Zenon
    <3>2. answers' = answers
      BY <2>2
    <3> QED
      BY <3>1, <3>2, Zenon DEF InOrder
  <2>11. NoneOlder'
    <3>1. ASSUME NEW a \in ToSet(answers)
          PROVE  Follows(past', a, seen) /\ Upto(past', a.list, a.at, cached)
      BY <2>4, <2>5, <2>6, AnswerKnown, Zenon
    <3>2. answers' = answers /\ seen' = seen /\ cached' = cached
      BY <2>2
    <3> QED
      BY <3>1, <3>2, Zenon DEF NoneOlder
  <2>12. CacheLatest'
    <3>1. \A l \in Lists : Upto(past', l, seen, cached)
      BY <2>4, <2>5, Zenon DEF Inv, CacheLatest
    <3>2. seen' = seen /\ cached' = cached
      BY <2>2
    <3> QED
      BY <3>1, <3>2, Zenon DEF CacheLatest
  <2>13. RowsTrue'
    <3>1. DocsIn(past', seen) = DocsIn(past, seen)
      BY <2>4, <2>5
    <3>2. ASSUME NEW l \in Lists PROVE Truth(past', rows[l], source[l], seen, l)
      <4>1. Truth(past, rows[l], source[l], seen, l)
        BY DEF Inv, RowsTrue
      <4>2. \A t \in DOMAIN past : t \in DOMAIN past' /\ past'[t] = past[t]
        BY <2>4
      <4> QED
        BY <3>1, <4>1, <4>2, Zenon DEF Truth
    <3>3. rows' = rows /\ source' = source /\ seen' = seen
      BY <2>2
    <3> QED
      BY <3>2, <3>3, Zenon DEF RowsTrue
  <2> QED
    BY <2>2, <2>3, <2>7, <2>8, <2>9, <2>10, <2>11, <2>12, <2>13 DEF Inv, Started
<1>3. PICK i \in Ids :
        \/ \E x \in Texts : Update(i, x) \/ \E s \in Lists : Post(i, s, x)
        \/ Delete(i)
  BY DEF BoardStep
<1>4. CASE \E x \in Texts : Update(i, x)
  <2>1. PICK x \in Texts : Update(i, x)
    BY <1>4
  <2> DEFINE doc == [past[Now][i] EXCEPT !.text = x]
  <2>2. past[Now][i] \in Document /\ past[Now][i] # NoDoc
    BY <1>1, <2>1 DEF Update, Board
  <2>3. doc \in Document /\ doc.status = past[Now][i].status
    BY <2>2 DEF Document
  <2>4. Becomes([past[Now] EXCEPT ![i] = doc])
    BY <2>1 DEF Update
  <2> HIDE DEF doc
  <2>5. In(past, doc.status, i, Now)
    BY <2>2, <2>3 DEF In
  <2>6. QED
    BY <1>1, <1>2, <2>3, <2>4, <2>5
<1>5. CASE \E x \in Texts, s \in Lists : Post(i, s, x)
  <2>1. PICK x \in Texts, s \in Lists : Post(i, s, x)
    BY <1>5
  <2> DEFINE doc == [status |-> s, text |-> x]
  <2>2. doc \in Document /\ doc.status = s
    BY DEF Document
  <2>3. Becomes([past[Now] EXCEPT ![i] = doc])
    BY <2>1 DEF Post
  <2>4. \/ \A t \in DOMAIN past : past[t][i] = NoDoc
        \/ \E t \in DOMAIN past : past[t][i] # NoDoc /\ past[t][i] = doc
    BY <2>1, Zenon DEF Post, Moments
  <2> HIDE DEF doc
  <2>5. \/ \A t \in DOMAIN past : past[t][i] = NoDoc
        \/ \E t \in DOMAIN past : In(past, doc.status, i, t)
    BY <2>4, Zenon DEF In
  <2> QED
    BY <1>2, <2>2, <2>3, <2>5, Zenon
<1>6. CASE Delete(i)
  <2>1. Becomes([past[Now] EXCEPT ![i] = NoDoc])
    BY <1>6 DEF Delete
  <2> QED
    BY <1>2, <2>1
<1>7. QED
  BY <1>3, <1>4, <1>5, <1>6

\* A list of which the user asks something shows what it did, or has just been opened.
LEMMA UserKeeps ==
  ASSUME Inv, UserStep
  PROVE  Inv'
<1>1. UNCHANGED <<past, cached, answers, seen>>
  BY DEF UserStep, OpenList, Refresh, SelectRow, CloseAbout
<1>2. ASSUME NEW l \in Lists, Ask(l) PROVE asks' \in [Lists -> Seq(BOOLEAN)]
  <2>1. asks[l] \in Seq(BOOLEAN) /\ TRUE \in BOOLEAN
    BY Zenon DEF Inv, TypeOK
  <2>2. Append(asks[l], TRUE) \in Seq(BOOLEAN)
    BY <2>1, AppendSet, Zenon
  <2>3. QED
    BY <1>2, <2>2, Zenon DEF Inv, TypeOK, Ask
<1>3. /\ asks' \in [Lists -> Seq(BOOLEAN)]
      /\ about' \in BOOLEAN /\ crashes' \subseteq Lists
      /\ \/ UNCHANGED <<rows, source>>
         \/ \E l \in Lists : /\ rows' = [rows EXCEPT ![l] = <<>>]
                             /\ source' = [source EXCEPT ![l] = "none"]
  <2>1. /\ asks \in [Lists -> Seq(BOOLEAN)] /\ about \in BOOLEAN /\ crashes \subseteq Lists
    BY DEF Inv, TypeOK
  <2>2. CASE \E l \in Lists : OpenList(l)
    BY <2>1, <2>2, <1>2, Zenon DEF OpenList
  <2>3. CASE \E l \in Lists : Refresh(l)
    BY <2>1, <2>3, <1>2, Zenon DEF Refresh
  <2>4. CASE (\E l \in Lists : SelectRow(l)) \/ CloseAbout
    <3>1. UNCHANGED <<asks, rows, source, crashes>> /\ about' \in BOOLEAN
      BY <2>4 DEF SelectRow, CloseAbout
    <3> QED
      BY <2>1, <3>1, Zenon
  <2> QED
    BY <2>2, <2>3, <2>4 DEF UserStep
<1>4. /\ rows \in [Lists -> Seq(Row) \cup {Closed}]
      /\ source \in [Lists -> Sources \cup {"none"}]
  BY DEF Inv, TypeOK
<1>5. /\ rows' \in [Lists -> Seq(Row) \cup {Closed}]
      /\ source' \in [Lists -> Sources \cup {"none"}]
  <2>1. <<>> \in Seq(Row) \cup {Closed} /\ "none" \in Sources \cup {"none"}
    OBVIOUS
  <2> QED
    BY <1>3, <1>4, <2>1, Zenon
<1>6. TypeOK'
  BY <1>1, <1>3, <1>5, Zenon DEF Inv, TypeOK, Moments
<1>7. RowsTrue'
  <2>1. ASSUME NEW l \in Lists PROVE Truth(past, rows'[l], source'[l], seen, l)
    <3>1. (rows'[l] = rows[l] /\ source'[l] = source[l]) \/ source'[l] = "none"
      BY <1>3, <1>4
    <3>2. Truth(past, rows[l], source[l], seen, l)
      BY DEF Inv, RowsTrue
    <3> QED
      BY <3>1, <3>2, Zenon DEF Truth
  <2>2. past' = past /\ seen' = seen
    BY <1>1
  <2> QED
    BY <2>1, <2>2, Zenon DEF RowsTrue
<1>8. Started' /\ KeepsStatus' /\ CacheLatest' /\ InOrder' /\ NoneOlder'
  BY <1>1 DEF Inv, Started, KeepsStatus, CacheLatest, InOrder, NoneOlder
<1>9. AnswersOf(past, ToSet(answers))'
  BY <1>1 DEF Inv
<1> QED
  BY <1>6, <1>7, <1>8, <1>9 DEF Inv

\* The cache learns what is on the board now: it is later than ever.
LEMMA CacheLearns ==
  ASSUME Inv, UNCHANGED past, cached' \in [Ids -> DOMAIN past],
         \A i \in Ids : cached'[i] = cached[i] \/ cached'[i] = Now
  PROVE  \A l : \A at \in [Ids -> DOMAIN past] :
           Upto(past, l, at, cached) => Upto(past, l, at, cached')
<1>1. ASSUME NEW l, NEW at \in [Ids -> DOMAIN past], Upto(past, l, at, cached), NEW i \in Ids
      PROVE  at[i] <= cached'[i] \/ (~ In(past, l, i, at[i]) /\ ~ In(past, l, i, cached'[i]))
  <2>1. at[i] <= cached[i] \/ (~ In(past, l, i, at[i]) /\ ~ In(past, l, i, cached[i]))
    BY <1>1 DEF Upto
  <2>2. at[i] \in DOMAIN past /\ past \in Seq(Board)
    BY DEF Inv, TypeOK
  <2>3. at[i] <= Now
    BY <2>2 DEF Now
  <2>4. CASE cached'[i] = cached[i]
    BY <2>1, <2>4
  <2>5. CASE cached'[i] = Now
    BY <2>3, <2>5
  <2> QED
    BY <2>4, <2>5
<1> QED
  BY <1>1 DEF Upto

\* What does not change when a query is answered, or the cache learns something.
LEMMA NetworkFrame ==
  ASSUME Inv, UNCHANGED <<past, rows, source, seen, about, crashes>>,
         asks' \in [Lists -> Seq(BOOLEAN)], answers' \in Seq(Answer),
         cached' \in [Ids -> DOMAIN past], \A l \in Lists : Upto(past, l, seen, cached')
  PROVE  TypeOK' /\ Started' /\ KeepsStatus' /\ CacheLatest' /\ RowsTrue'
<1>1. TypeOK'
  BY Zenon DEF Inv, TypeOK, Moments
<1>2. Started' /\ KeepsStatus'
  BY DEF Inv, Started, KeepsStatus
<1>3. CacheLatest'
  BY DEF CacheLatest
<1>4. RowsTrue'
  BY DEF Inv, RowsTrue
<1> QED
  BY <1>1, <1>2, <1>3, <1>4

\* One more answer, and a cache that is at least as late.
LEMMA AnswerKeeps ==
  ASSUME Inv, NEW l \in Lists, NEW at \in [Ids -> DOMAIN past], NEW src \in Sources,
         Respond(l, at, src),
         cached' \in [Ids -> DOMAIN past],
         \A i \in Ids : cached'[i] = cached[i] \/ cached'[i] = Now,
         src = "server" => at = [i \in Ids |-> Now],
         Upto(past, l, at, cached'),
         \A b \in [Ids -> DOMAIN past] : Upto(past, l, b, cached) => Upto(past, l, b, at)
  PROVE  Inv'
<1> DEFINE a == [list |-> l, at |-> at, source |-> src, live |-> Head(asks[l])]
<1>1. /\ past \in Seq(Board) /\ answers \in Seq(Answer) /\ seen \in [Ids -> DOMAIN past]
      /\ Now \in DOMAIN past /\ DOMAIN past = 1..Now /\ Now \in Nat
      /\ asks \in [Lists -> Seq(BOOLEAN)]
  BY DEF Inv, TypeOK, Moments, Now, Started
<1>2. /\ UNCHANGED <<past, rows, source, seen, about, crashes>>
      /\ asks[l] # <<>> /\ asks' = [asks EXCEPT ![l] = Tail(@)]
      /\ answers' = Append(answers, a)
  BY DEF Respond
<1>3. Head(asks[l]) \in BOOLEAN /\ Tail(asks[l]) \in Seq(BOOLEAN)
  <2>1. asks[l] \in Seq(BOOLEAN)
    BY <1>1, Zenon
  <2> QED
    BY <1>2, <2>1, HeadTail, Zenon
<1>4. asks' \in [Lists -> Seq(BOOLEAN)]
  BY <1>1, <1>2, <1>3, Zenon
<1>5. a \in Answer /\ a.list = l /\ a.at = at /\ a.source = src
  <2>1. at \in Vintage
    BY <1>1 DEF Vintage
  <2> QED
    BY <1>3, <2>1, Zenon DEF Answer
<1> HIDE DEF a
<1>6. answers' \in Seq(Answer) /\ ToSet(answers') = ToSet(answers) \cup {a}
  <2>1. Append(answers, a) \in Seq(Answer) /\ ToSet(Append(answers, a)) = ToSet(answers) \cup {a}
    BY <1>1, <1>5, AppendSet
  <2> QED
    BY <1>2, <2>1, Zenon
<1>7. /\ DOMAIN answers' = 1..(Len(answers) + 1) /\ Len(answers) \in Nat
      /\ DOMAIN answers = 1..Len(answers)
      /\ answers'[Len(answers) + 1] = a
      /\ \A k \in 1..Len(answers) : answers'[k] = answers[k]
  BY <1>1, <1>2, <1>5
<1>8. ASSUME NEW b \in [Ids -> DOMAIN past], Upto(past, l, b, cached)
      PROVE  Follows(past, a, b)
  <2>1. Upto(past, a.list, b, a.at)
    BY <1>5, <1>8
  <2>2. ASSUME a.source = "server", NEW i \in Ids PROVE b[i] <= a.at[i]
    <3>1. a.at[i] = Now /\ b[i] \in 1..Now
      BY <1>1, <1>5, <2>2
    <3> QED
      BY <3>1, <1>1
  <2> QED
    BY <2>1, <2>2, Zenon DEF Follows
<1>9. /\ \A m \in Lists : Upto(past, m, seen, cached) /\ Upto(past, m, seen, cached')
      /\ \A b \in ToSet(answers) :
           /\ b \in Answer /\ b.list \in Lists /\ b.at \in [Ids -> DOMAIN past]
           /\ Follows(past, b, seen) /\ Upto(past, b.list, b.at, cached)
           /\ Upto(past, b.list, b.at, cached')
  <2>1. \A m : \A b \in [Ids -> DOMAIN past] :
          Upto(past, m, b, cached) => Upto(past, m, b, cached')
    BY <1>2, CacheLearns, Zenon
  <2>2. \A m \in Lists : Upto(past, m, seen, cached)
    BY DEF Inv, CacheLatest
  <2> QED
    BY <1>1, <2>1, <2>2, AnswerKnown, Zenon
<1>10. TypeOK' /\ Started' /\ KeepsStatus' /\ CacheLatest' /\ RowsTrue'
  BY <1>2, <1>4, <1>6, <1>9, NetworkFrame, Zenon
<1>11. AnswersOf(past, ToSet(answers))'
  <2>1. a.source = "server" => \E t \in DOMAIN past : a.at = [i \in Ids |-> t]
    BY <1>1, <1>5, Zenon
  <2>2. AnswersOf(past, ToSet(answers) \cup {a})
    BY <1>5, <2>1, Zenon DEF Inv, AnswersOf
  <2> QED
    BY <1>2, <1>6, <2>2, Zenon
<1>12. NoneOlder'
  <2>1. Follows(past, a, seen) /\ Upto(past, a.list, a.at, cached')
    BY <1>1, <1>5, <1>8, <1>9, Zenon
  <2>2. \A b \in ToSet(answers') : Follows(past, b, seen) /\ Upto(past, b.list, b.at, cached')
    BY <2>1, <1>6, <1>9, Zenon
  <2> QED
    BY <2>2, <1>2 DEF NoneOlder
<1>13. InOrder'
  <2>1. ASSUME NEW j \in DOMAIN answers', NEW k \in DOMAIN answers', j < k,
               answers'[j].list = answers'[k].list
        PROVE  Follows(past, answers'[k], answers'[j].at)
    <3>1. j \in 1..Len(answers) /\ (k \in 1..Len(answers) \/ k = Len(answers) + 1)
      BY <1>7, <2>1
    <3>2. answers'[j] = answers[j] /\ answers[j] \in ToSet(answers) /\ j \in DOMAIN answers
      BY <1>7, <3>1, Zenon DEF ToSet
    <3>3. CASE k = Len(answers) + 1
      BY <1>5, <1>7, <1>8, <1>9, <2>1, <3>2, <3>3, Zenon
    <3>4. CASE k \in 1..Len(answers)
      BY <1>7, <2>1, <3>2, <3>4, Zenon DEF Inv, InOrder
    <3> QED
      BY <3>1, <3>3, <3>4
  <2> QED
    BY <2>1, <1>2 DEF InOrder
<1> QED
  BY <1>10, <1>11, <1>12, <1>13 DEF Inv

LEMMA NetworkKeeps ==
  ASSUME Inv, NetworkStep
  PROVE  Inv'
<1>1. /\ past \in Seq(Board) /\ Now \in DOMAIN past /\ Now \in Nat
      /\ DOMAIN past = 1..Now /\ cached \in [Ids -> DOMAIN past]
      /\ asks \in [Lists -> Seq(BOOLEAN)] /\ answers \in Seq(Answer)
      /\ seen \in [Ids -> DOMAIN past]
  BY DEF Inv, TypeOK, Moments, Now, Started
<1>2. ASSUME NEW l \in Lists, Fetch(l) PROVE Inv'
  <2> DEFINE learned == Matching(past[Now], l) \cup Matching(Docs(cached), l)
             at == [i \in Ids |-> Now]
  <2>1. Respond(l, at, "server") /\ cached' = [i \in Ids |-> IF i \in learned THEN Now ELSE cached[i]]
    BY <1>2, Zenon DEF Fetch, Everywhere
  <2>2. \A i \in Ids : i \in learned <=> In(past, l, i, Now) \/ In(past, l, i, cached[i])
    BY DEF Matching, Docs, In
  <2> HIDE DEF learned
  <2>3. at \in [Ids -> DOMAIN past] /\ \A i \in Ids : at[i] = Now
    BY <1>1
  <2> HIDE DEF at
  <2>4. /\ cached' \in [Ids -> DOMAIN past]
        /\ \A i \in Ids : cached'[i] = cached[i] \/ cached'[i] = Now
    BY <1>1, <2>1
  <2>5. Upto(past, l, at, cached')
    <3>1. ASSUME NEW i \in Ids
          PROVE  at[i] <= cached'[i] \/ (~ In(past, l, i, at[i]) /\ ~ In(past, l, i, cached'[i]))
      <4>1. CASE i \in learned
        BY <4>1, <1>1, <2>1, <2>3
      <4>2. CASE i \notin learned
        BY <4>2, <2>1, <2>2, <2>3
      <4> QED
        BY <4>1, <4>2
    <3> QED
      BY <3>1, Zenon DEF Upto
  <2>6. \A b \in [Ids -> DOMAIN past] : Upto(past, l, b, at)
    <3>1. \A b \in [Ids -> DOMAIN past] : \A i \in Ids : b[i] <= at[i]
      BY <1>1, <2>3
    <3> QED
      BY <3>1, Zenon DEF Upto
  <2>7. "server" \in Sources /\ at = [i \in Ids |-> Now]
    BY DEF Sources, at
  <2> QED
    BY <2>1, <2>3, <2>4, <2>5, <2>6, <2>7, AnswerKeeps, Zenon
<1>3. ASSUME NEW l \in Lists, FetchCached(l) PROVE Inv'
  <2>1. Respond(l, cached, "cache") /\ cached' = cached
    BY <1>3 DEF FetchCached
  <2>2. Upto(past, l, cached, cached)
    <3>1. \A i \in Ids : cached[i] <= cached[i]
      BY <1>1
    <3> QED
      BY <3>1, Zenon DEF Upto
  <2>3. "cache" \in Sources /\ "cache" # "server"
    BY DEF Sources
  <2> QED
    BY <1>1, <2>1, <2>2, <2>3, AnswerKeeps, Zenon
<1>4. ASSUME NEW l \in Lists, FetchFailed(l) PROVE Inv'
  <2>1. /\ UNCHANGED <<past, cached, answers, rows, source, seen, about, crashes>>
        /\ asks[l] # <<>> /\ asks' = [asks EXCEPT ![l] = Tail(@)]
    BY <1>4 DEF FetchFailed
  <2>2. asks' \in [Lists -> Seq(BOOLEAN)]
    <3>1. asks[l] \in Seq(BOOLEAN)
      BY <1>1, Zenon
    <3>2. Tail(asks[l]) \in Seq(BOOLEAN)
      BY <2>1, <3>1, HeadTail, Zenon
    <3> QED
      BY <1>1, <2>1, <3>2, Zenon
  <2>3. TypeOK' /\ Started' /\ KeepsStatus' /\ CacheLatest' /\ RowsTrue'
    <3>1. \A m \in Lists : Upto(past, m, seen, cached)
      BY DEF Inv, CacheLatest
    <3> QED
      BY <1>1, <2>1, <2>2, <3>1, NetworkFrame
  <2>4. InOrder' /\ NoneOlder' /\ AnswersOf(past, ToSet(answers))'
    BY <2>1 DEF Inv, InOrder, NoneOlder
  <2> QED
    BY <2>3, <2>4 DEF Inv
<1>5. ASSUME NEW i \in Ids, Learn(i) PROVE Inv'
  <2>1. /\ cached' = [cached EXCEPT ![i] = Now]
        /\ UNCHANGED <<past, asks, answers, rows, source, seen, about, crashes>>
    BY <1>5 DEF Learn
  <2>2. /\ cached' \in [Ids -> DOMAIN past]
        /\ \A j \in Ids : cached'[j] = cached[j] \/ cached'[j] = Now
    BY <1>1, <2>1
  <2>3. \A l : \A at \in [Ids -> DOMAIN past] :
          Upto(past, l, at, cached) => Upto(past, l, at, cached')
    BY <2>1, <2>2, CacheLearns, Zenon
  <2>4. TypeOK' /\ Started' /\ KeepsStatus' /\ CacheLatest' /\ RowsTrue'
    <3>1. \A m \in Lists : Upto(past, m, seen, cached')
      BY <1>1, <2>3, Zenon DEF Inv, CacheLatest
    <3> QED
      BY <1>1, <2>1, <2>2, <3>1, NetworkFrame
  <2>5. NoneOlder'
    <3>1. \A a \in ToSet(answers) : Follows(past, a, seen) /\ Upto(past, a.list, a.at, cached')
      BY <2>3, AnswerKnown, Zenon
    <3> QED
      BY <2>1, <3>1 DEF NoneOlder
  <2>6. InOrder' /\ AnswersOf(past, ToSet(answers))'
    BY <2>1 DEF Inv, InOrder
  <2> QED
    BY <2>4, <2>5, <2>6 DEF Inv
<1> QED
  BY <1>2, <1>3, <1>4, <1>5 DEF NetworkStep

\* The process ends, and with it every answer.
LEMMA EndsKeeps ==
  ASSUME Inv, Ends, crashes' \subseteq Lists
  PROVE  Inv'
<1>1. /\ asks' \in [Lists -> Seq(BOOLEAN)] /\ answers' \in Seq(Answer)
      /\ DOMAIN answers' = {} /\ ToSet(answers') = {}
  BY DEF Ends, ToSet
<1>2. /\ rows' = [l \in Lists |-> Closed] /\ source' = [l \in Lists |-> "none"]
      /\ about' = FALSE /\ UNCHANGED <<past, cached, seen>>
  BY DEF Ends
<1>3. TypeOK'
  <2>1. /\ rows' \in [Lists -> Seq(Row) \cup {Closed}]
        /\ source' \in [Lists -> Sources \cup {"none"}] /\ about' \in BOOLEAN
    BY <1>2
  <2> QED
    BY <1>1, <1>2, <2>1, Zenon DEF Inv, TypeOK, Moments
<1>4. Started' /\ KeepsStatus' /\ CacheLatest'
  BY <1>2 DEF Inv, Started, KeepsStatus, CacheLatest
<1>5. RowsTrue'
  BY <1>2 DEF RowsTrue, Truth
<1>6. InOrder' /\ NoneOlder' /\ AnswersOf(past, ToSet(answers))'
  BY <1>1 DEF InOrder, NoneOlder, AnswersOf
<1> QED
  BY <1>3, <1>4, <1>5, <1>6 DEF Inv

\* What an open list has from an answer is at least as late as all it has shown.
LEMMA ShownMoves ==
  ASSUME Inv, NEW a \in ToSet(answers),
         seen' = [i \in Ids |-> IF i \in Listed(a.list) /\ seen[i] < a.at[i] THEN a.at[i]
                                ELSE seen[i]]
  PROVE  /\ seen' \in [Ids -> DOMAIN past]
         /\ \A i \in Ids : seen'[i] = seen[i] \/ seen'[i] = a.at[i]
         /\ \A i \in Ids : \A m \in Lists : m # a.list =>
              \/ seen'[i] = seen[i]
              \/ Elsewhere(past, m, i) /\ \A t \in DOMAIN past : ~ In(past, m, i, t)
         /\ \A i \in Ids :
              \/ seen'[i] = a.at[i]
              \/ ~ In(past, a.list, i, seen'[i]) /\ ~ In(past, a.list, i, a.at[i])
         /\ \A i \in Ids : seen[i] <= seen'[i]
         /\ \A i \in Ids : i \in Listed(a.list) =>
              a.at[i] <= seen'[i] /\ (a.source = "server" => seen'[i] = a.at[i])
         /\ \A i \in Ids : i \notin Listed(a.list) => seen'[i] = seen[i]
<1>1. /\ a.list \in Lists /\ a.at \in [Ids -> DOMAIN past]
      /\ Follows(past, a, seen) /\ Upto(past, a.list, a.at, cached)
  BY AnswerKnown
<1>2. /\ seen \in [Ids -> DOMAIN past]
      /\ DOMAIN past \in SUBSET Nat
  BY DEF Inv, TypeOK, Moments
<1>3. ASSUME NEW i \in Ids
      PROVE  i \in Listed(a.list) <=> \E t \in DOMAIN past : In(past, a.list, i, t)
  BY DEF Listed, Matching, In, Moments
<1>4. ASSUME NEW i \in Ids
      PROVE  /\ seen[i] \in Nat /\ a.at[i] \in Nat /\ seen[i] \in DOMAIN past /\ a.at[i] \in DOMAIN past
             /\ seen'[i] = IF i \in Listed(a.list) /\ seen[i] < a.at[i] THEN a.at[i] ELSE seen[i]
             /\ seen[i] <= a.at[i] \/ (~ In(past, a.list, i, seen[i]) /\ ~ In(past, a.list, i, a.at[i]))
             /\ a.source = "server" => seen[i] <= a.at[i] \/ Elsewhere(past, a.list, i)
  <2>1. seen[i] \in DOMAIN past /\ a.at[i] \in DOMAIN past
    BY <1>1, <1>2
  <2>2. /\ seen[i] <= a.at[i] \/ (~ In(past, a.list, i, seen[i]) /\ ~ In(past, a.list, i, a.at[i]))
        /\ a.source = "server" => seen[i] <= a.at[i] \/ Elsewhere(past, a.list, i)
    BY <1>1, Zenon DEF Follows, Upto
  <2> QED
    BY <1>2, <2>1, <2>2
<1>5. ASSUME NEW i \in Ids, i \in Listed(a.list)
      PROVE  /\ ~ Elsewhere(past, a.list, i)
             /\ \A m \in Lists : m # a.list =>
                  Elsewhere(past, m, i) /\ \A t \in DOMAIN past : ~ In(past, m, i, t)
  <2>1. PICK t \in DOMAIN past : In(past, a.list, i, t)
    BY <1>3, <1>5
  <2>2. \A m \in Lists : \A u \in DOMAIN past : In(past, m, i, u) => m = a.list
    BY <1>1, <2>1, Zenon DEF Inv, KeepsStatus
  <2> QED
    BY <1>1, <2>1, <2>2, Zenon DEF Elsewhere
<1>6. seen' \in [Ids -> DOMAIN past]
  <2>1. \A i \in Ids : seen'[i] \in DOMAIN past
    BY <1>4
  <2>2. seen' = [i \in Ids |-> seen'[i]]
    OBVIOUS
  <2> QED
    BY <2>1, <2>2
<1>7. ASSUME NEW i \in Ids
      PROVE  /\ seen'[i] = seen[i] \/ seen'[i] = a.at[i]
             /\ \A m \in Lists : m # a.list =>
                  \/ seen'[i] = seen[i]
                  \/ Elsewhere(past, m, i) /\ \A t \in DOMAIN past : ~ In(past, m, i, t)
             /\ i \notin Listed(a.list) => seen'[i] = seen[i]
  BY <1>4, <1>5, Zenon
<1>8. ASSUME NEW i \in Ids
      PROVE  /\ \/ seen'[i] = a.at[i]
                \/ ~ In(past, a.list, i, seen'[i]) /\ ~ In(past, a.list, i, a.at[i])
             /\ seen[i] <= seen'[i]
             /\ i \in Listed(a.list) =>
                  a.at[i] <= seen'[i] /\ (a.source = "server" => seen'[i] = a.at[i])
  <2>1. CASE i \in Listed(a.list)
    BY <1>4, <1>5, <2>1
  <2>2. CASE i \notin Listed(a.list)
    <3>1. seen'[i] = seen[i]
      BY <1>4, <2>2
    <3>2. ~ In(past, a.list, i, seen[i]) /\ ~ In(past, a.list, i, a.at[i])
      BY <1>3, <1>4, <2>2
    <3> QED
      BY <1>4, <2>2, <3>1, <3>2
  <2> QED
    BY <2>1, <2>2
<1> QED
  BY <1>6, <1>7, <1>8, Zenon

\* The first answer replaces the rows it was asked for.
LEMMA ShowKeeps ==
  ASSUME Inv, NEW broken, Show(broken)
  PROVE  Inv'
<1> DEFINE a == Head(answers)
<1>1. /\ answers \in Seq(Answer) /\ answers # <<>> /\ a = answers[1] /\ 1 \in DOMAIN answers
      /\ rows \in [Lists -> Seq(Row) \cup {Closed}] /\ past \in Seq(Board)
      /\ source \in [Lists -> Sources \cup {"none"}]
      /\ seen \in [Ids -> DOMAIN past]
  BY DEF Inv, TypeOK, Show, Moments
<1>2. /\ answers' = RemoveAt(answers, 1)
      /\ IF a.live
           THEN /\ rows' = [rows EXCEPT ![a.list] = RowsOf(a, broken)]
                /\ source' = [source EXCEPT ![a.list] = a.source]
                /\ seen' = [i \in Ids |->
                     IF i \in Listed(a.list) /\ seen[i] < a.at[i] THEN a.at[i] ELSE seen[i]]
           ELSE UNCHANGED <<rows, source, seen>>
      /\ UNCHANGED <<past, cached, asks, about, crashes>>
  BY <1>1, Zenon DEF Show, Deliver
<1>3. answers' = Tail(answers) /\ Tail(answers) \in Seq(Answer) /\ a \in ToSet(answers)
  <2>1. a \in ToSet(answers)
    BY <1>1, Zenon DEF ToSet
  <2> QED
    BY <1>1, <1>2, <2>1, RemoveAtHead, HeadTail, Zenon
<1>4. /\ InOrder'
      /\ \A b \in ToSet(answers') : b \in ToSet(answers)
      /\ \A b \in ToSet(answers') : b.list = a.list => Follows(past, b, a.at)
  <2>1. LET q == answers' IN
        /\ \A j, k \in DOMAIN q : j < k /\ q[j].list = q[k].list => Follows(past, q[k], q[j].at)
        /\ \A b \in ToSet(q) : b \in ToSet(answers)
        /\ \A b \in ToSet(q) : b.list = a.list => Follows(past, b, a.at)
    BY <1>1, <1>3, TailInOrder, Zenon DEF Inv
  <2>2. past' = past
    BY <1>2
  <2> QED
    BY <2>1, <2>2, Zenon DEF InOrder
<1> HIDE DEF a
<1>5. /\ a \in Answer /\ a.list \in Lists /\ a.source \in Sources /\ a.at \in [Ids -> DOMAIN past]
      /\ Follows(past, a, seen) /\ Upto(past, a.list, a.at, cached)
  BY <1>3, AnswerKnown, Zenon
<1>6. /\ AnswersOf(past, ToSet(answers))'
      /\ Started' /\ KeepsStatus'
  BY <1>2, <1>4, Zenon DEF Inv, AnswersOf, Started, KeepsStatus
<1>7. CASE ~ a.live
  <2>1. UNCHANGED <<rows, source, seen>>
    BY <1>2, <1>7, Zenon
  <2>2. TypeOK'
    BY <2>1, <1>2, <1>3, Zenon DEF Inv, TypeOK, Moments
  <2>3. NoneOlder'
    BY <2>1, <1>2, <1>4, Zenon DEF Inv, NoneOlder
  <2>4. CacheLatest' /\ RowsTrue'
    BY <2>1, <1>2, Zenon DEF Inv, CacheLatest, RowsTrue
  <2> QED
    BY <1>4, <1>6, <2>2, <2>3, <2>4 DEF Inv
<1>8. CASE a.live
  <2>1. /\ rows' = [rows EXCEPT ![a.list] = RowsOf(a, broken)]
        /\ source' = [source EXCEPT ![a.list] = a.source]
        /\ seen' = [i \in Ids |->
             IF i \in Listed(a.list) /\ seen[i] < a.at[i] THEN a.at[i] ELSE seen[i]]
    BY <1>2, <1>8, Zenon
  <2>2. /\ seen' \in [Ids -> DOMAIN past]
        /\ \A i \in Ids : seen'[i] = seen[i] \/ seen'[i] = a.at[i]
        /\ \A i \in Ids : \A m \in Lists : m # a.list =>
             \/ seen'[i] = seen[i]
             \/ Elsewhere(past, m, i) /\ \A t \in DOMAIN past : ~ In(past, m, i, t)
        /\ \A i \in Ids :
             \/ seen'[i] = a.at[i]
             \/ ~ In(past, a.list, i, seen'[i]) /\ ~ In(past, a.list, i, a.at[i])
    BY <1>3, <2>1, ShownMoves, Zenon
  <2>3. RowsOf(a, broken) \in Seq(Row) /\ Shows(RowsOf(a, broken), DocsIn(past, a.at), a.list)
    BY <1>1, <1>5, RowsShow, Zenon
  <2>4. /\ rows' \in [Lists -> Seq(Row) \cup {Closed}] /\ source' \in [Lists -> Sources \cup {"none"}]
        /\ rows'[a.list] = RowsOf(a, broken) /\ source'[a.list] = a.source
        /\ \A l \in Lists \ {a.list} : rows'[l] = rows[l] /\ source'[l] = source[l]
    BY <2>1, <2>3, <1>1, <1>5
  <2>5. TypeOK'
    BY <2>2, <2>4, <1>2, <1>3, Zenon DEF Inv, TypeOK, Moments
  <2>6. ASSUME NEW m \in Lists, NEW bt \in [Ids -> DOMAIN past], Upto(past, m, seen, bt),
               m = a.list => Upto(past, m, a.at, bt)
        PROVE  Upto(past, m, seen', bt)
    <3>1. ASSUME NEW i \in Ids
          PROVE  \/ seen'[i] <= bt[i]
                 \/ (~ In(past, m, i, seen'[i]) /\ ~ In(past, m, i, bt[i]))
      <4>1. seen[i] <= bt[i] \/ (~ In(past, m, i, seen[i]) /\ ~ In(past, m, i, bt[i]))
        BY <2>6, Zenon DEF Upto
      <4>2. CASE m = a.list
        <5>1. a.at[i] <= bt[i] \/ (~ In(past, m, i, a.at[i]) /\ ~ In(past, m, i, bt[i]))
          BY <4>2, <2>6, Zenon DEF Upto
        <5> QED
          BY <4>1, <5>1, <2>2, Zenon
      <4>3. CASE m # a.list
        <5>1. seen'[i] \in DOMAIN past /\ bt[i] \in DOMAIN past
          BY <2>2, <2>6
        <5> QED
          BY <4>1, <4>3, <5>1, <2>2, Zenon
      <4> QED
        BY <4>2, <4>3
    <3> QED
      BY <3>1, Zenon DEF Upto
  <2>7. NoneOlder'
    <3>1. ASSUME NEW b \in ToSet(answers')
          PROVE  Follows(past, b, seen') /\ Upto(past, b.list, b.at, cached)
      <4>1. /\ b.list \in Lists /\ b.at \in [Ids -> DOMAIN past]
            /\ Follows(past, b, seen) /\ Upto(past, b.list, b.at, cached)
            /\ b.list = a.list => Follows(past, b, a.at)
        BY <3>1, <1>4, AnswerKnown, Zenon
      <4>2. Upto(past, b.list, seen', b.at)
        BY <4>1, <2>6, Zenon DEF Follows
      <4>3. ASSUME b.source = "server", NEW i \in Ids
            PROVE  seen'[i] <= b.at[i] \/ Elsewhere(past, b.list, i)
        <5>1. /\ seen[i] <= b.at[i] \/ Elsewhere(past, b.list, i)
              /\ b.list = a.list => a.at[i] <= b.at[i] \/ Elsewhere(past, b.list, i)
          BY <4>1, <4>3, Zenon DEF Follows
        <5> QED
          BY <5>1, <4>1, <2>2, Zenon
      <4> QED
        BY <4>1, <4>2, <4>3, Zenon DEF Follows
    <3>2. past' = past /\ cached' = cached
      BY <1>2
    <3> QED
      BY <3>1, <3>2, Zenon DEF NoneOlder
  <2>8. CacheLatest'
    <3>1. \A m \in Lists : Upto(past, m, seen, cached) /\ cached \in [Ids -> DOMAIN past]
      BY DEF Inv, CacheLatest, TypeOK, Moments
    <3>2. \A m \in Lists : Upto(past, m, seen', cached)
      BY <3>1, <1>5, <2>6, Zenon
    <3> QED
      BY <3>2, <1>2 DEF CacheLatest
  <2>9. RowsTrue'
    <3>1. ASSUME NEW l \in Lists PROVE Truth(past, rows'[l], source'[l], seen', l)
      <4>1. CASE l = a.list
        <5>1. \A i \in Ids : DocsIn(past, a.at)[i] = past[a.at[i]][i] /\ DocsIn(past, seen')[i] = past[seen'[i]][i]
          BY DEF DocsIn
        <5> DEFINE docs == DocsIn(past, a.at)
                   others == DocsIn(past, seen')
        <5>4. \A i \in Ids :
                \/ docs[i] = others[i]
                \/ /\ ~ (docs[i] # NoDoc /\ docs[i].status = l)
                   /\ ~ (others[i] # NoDoc /\ others[i].status = l)
          BY <4>1, <5>1, <2>2 DEF In
        <5>5. Shows(rows'[l], docs, l)
          BY <4>1, <2>3, <2>4
        <5> HIDE DEF docs, others
        <5>6. Shows(rows'[l], others, l)
          BY <5>4, <5>5, ShowsAlike, Zenon
        <5>2. Shows(rows'[l], DocsIn(past, seen'), l)
          BY <5>6 DEF others
        <5>3. a.source = "server" => \E t \in DOMAIN past : Shows(rows'[l], past[t], l)
          <6>1. ASSUME a.source = "server" PROVE \E t \in DOMAIN past : Shows(rows'[l], past[t], l)
            <7>1. PICK t \in DOMAIN past : a.at = [i \in Ids |-> t]
              BY <6>1, <1>3, Zenon DEF Inv, AnswersOf
            <7>2. past[t] \in Board
              BY <1>1
            <7>3. DocsIn(past, a.at) = past[t]
              BY <7>1, <7>2 DEF DocsIn, Board
            <7> QED
              BY <4>1, <7>3, <2>3, <2>4
          <6> QED
            BY <6>1
        <5> QED
          BY <4>1, <5>2, <5>3, <2>3, <2>4, Zenon DEF Truth
      <4>2. CASE l # a.list
        <5>1. Truth(past, rows[l], source[l], seen, l) /\ rows'[l] = rows[l] /\ source'[l] = source[l]
          BY <4>2, <2>4 DEF Inv, RowsTrue
        <5>2. \A i \in Ids : DocsIn(past, seen)[i] = past[seen[i]][i] /\ DocsIn(past, seen')[i] = past[seen'[i]][i]
          BY DEF DocsIn
        <5> DEFINE docs == DocsIn(past, seen)
                   others == DocsIn(past, seen')
        <5>3. ASSUME NEW i \in Ids
              PROVE  \/ docs[i] = others[i]
                     \/ /\ ~ (docs[i] # NoDoc /\ docs[i].status = l)
                        /\ ~ (others[i] # NoDoc /\ others[i].status = l)
          <6>1. seen[i] \in DOMAIN past /\ seen'[i] \in DOMAIN past
            BY <1>1, <2>2
          <6>2. seen'[i] = seen[i] \/ (~ In(past, l, i, seen[i]) /\ ~ In(past, l, i, seen'[i]))
            BY <4>2, <6>1, <2>2, Zenon
          <6> QED
            BY <5>2, <6>2 DEF In
        <5> HIDE DEF docs, others
        <5>5. Shows(rows[l], docs, l) => Shows(rows[l], others, l)
          BY <5>3, ShowsAlike, Zenon
        <5>4. Shows(rows[l], DocsIn(past, seen), l) => Shows(rows[l], DocsIn(past, seen'), l)
          BY <5>5 DEF docs, others
        <5> QED
          BY <5>1, <5>4, Zenon DEF Truth
      <4> QED
        BY <4>1, <4>2
    <3> QED
      BY <3>1, <1>2 DEF RowsTrue
  <2> QED
    BY <1>4, <1>6, <2>5, <2>7, <2>8, <2>9 DEF Inv
<1> QED
  BY <1>7, <1>8

\* The window is replaced: no answer is for an open screen any more.
LEMMA ReplaceKeeps ==
  ASSUME Inv, ReplaceWindow
  PROVE  Inv'
<1>1. /\ answers \in Seq(Answer) /\ Len(answers) \in Nat /\ DOMAIN answers = 1..Len(answers)
      /\ asks \in [Lists -> Seq(BOOLEAN)]
  BY DEF Inv, TypeOK
<1>2. /\ about' = FALSE
      /\ rows' = [l \in Lists |-> Closed]
      /\ asks' = [l \in Lists |-> [k \in DOMAIN asks[l] |-> FALSE]]
      /\ answers' = [k \in DOMAIN answers |-> [answers[k] EXCEPT !.live = FALSE]]
      /\ source' = [l \in Lists |-> "none"]
      /\ UNCHANGED <<past, cached, seen, crashes>>
  BY DEF ReplaceWindow
<1>3. ASSUME NEW k \in DOMAIN answers
      PROVE  /\ answers'[k] \in Answer
             /\ answers'[k].list = answers[k].list /\ answers'[k].at = answers[k].at
             /\ answers'[k].source = answers[k].source
             /\ answers[k] \in ToSet(answers)
  <2>1. answers[k] \in Answer
    BY <1>1
  <2>2. answers'[k] = [answers[k] EXCEPT !.live = FALSE] /\ FALSE \in BOOLEAN
    BY <1>2, Zenon
  <2>3. QED
    BY <2>1, <2>2 DEF Answer, ToSet
<1>4. DOMAIN answers' = DOMAIN answers /\ answers' \in Seq(Answer)
  <2>1. DOMAIN answers' = DOMAIN answers /\ answers' = [k \in DOMAIN answers |-> answers'[k]]
    BY <1>2
  <2>2. QED
    BY <2>1, <1>1, <1>3
<1>5. asks' \in [Lists -> Seq(BOOLEAN)]
  <2>1. ASSUME NEW l \in Lists PROVE [k \in DOMAIN asks[l] |-> FALSE] \in Seq(BOOLEAN)
    <3>1. asks[l] \in Seq(BOOLEAN)
      BY <1>1, Zenon
    <3>2. DOMAIN asks[l] = 1..Len(asks[l]) /\ Len(asks[l]) \in Nat
      BY <3>1
    <3>3. QED
      BY <3>2
  <2>2. QED
    BY <1>2, <2>1, Zenon
<1>6. /\ rows' \in [Lists -> Seq(Row) \cup {Closed}]
      /\ source' \in [Lists -> Sources \cup {"none"}] /\ about' \in BOOLEAN
  BY <1>2
<1>7. TypeOK'
  BY <1>2, <1>4, <1>5, <1>6, Zenon DEF Inv, TypeOK, Moments
<1>8. \A b \in ToSet(answers') : \E a \in ToSet(answers) :
        b.list = a.list /\ b.at = a.at /\ b.source = a.source
  <2>1. ASSUME NEW b \in ToSet(answers')
        PROVE  \E k \in DOMAIN answers : b = answers'[k]
    BY <1>4, <2>1 DEF ToSet
  <2>2. ASSUME NEW b \in ToSet(answers')
        PROVE  \E a \in ToSet(answers) : b.list = a.list /\ b.at = a.at /\ b.source = a.source
    <3>1. PICK k \in DOMAIN answers : b = answers'[k]
      BY <2>1, <2>2
    <3>2. /\ answers[k] \in ToSet(answers) /\ b.list = answers[k].list
          /\ b.at = answers[k].at /\ b.source = answers[k].source
      BY <1>3, <3>1
    <3> QED
      BY <3>2
  <2> QED
    BY <2>2
<1>9. \A at, a, b : a.list = b.list /\ a.at = b.at /\ a.source = b.source =>
        (Follows(past, a, at) => Follows(past, b, at))
  BY DEF Follows
<1>10. past' = past /\ cached' = cached /\ seen' = seen
  BY <1>2
<1>11. InOrder'
  <2>1. ASSUME NEW j \in DOMAIN answers, NEW k \in DOMAIN answers, j < k,
               answers'[j].list = answers'[k].list
        PROVE  Follows(past, answers'[k], answers'[j].at)
    <3>1. Follows(past, answers[k], answers[j].at)
      BY <1>3, <2>1, Zenon DEF Inv, InOrder
    <3> QED
      BY <1>3, <1>9, <3>1, Zenon
  <2> QED
    BY <1>4, <1>10, <2>1 DEF InOrder
<1>12. NoneOlder'
  <2>1. \A b \in ToSet(answers') : Follows(past, b, seen) /\ Upto(past, b.list, b.at, cached)
    BY <1>8, <1>9, AnswerKnown, Zenon
  <2> QED
    BY <1>10, <2>1 DEF NoneOlder
<1>13. AnswersOf(past, ToSet(answers))'
  <2>1. AnswersOf(past, ToSet(answers'))
    <3>1. ASSUME NEW b \in ToSet(answers')
          PROVE  /\ b.at \in [Ids -> DOMAIN past]
                 /\ b.source = "server" => \E t \in DOMAIN past : b.at = [i \in Ids |-> t]
      <4>1. PICK a \in ToSet(answers) : b.list = a.list /\ b.at = a.at /\ b.source = a.source
        BY <1>8, <3>1
      <4>2. /\ a.at \in [Ids -> DOMAIN past]
            /\ a.source = "server" => \E t \in DOMAIN past : a.at = [i \in Ids |-> t]
        BY DEF Inv, AnswersOf
      <4> QED
        BY <4>1, <4>2
    <3> QED
      BY <3>1, Zenon DEF AnswersOf
  <2> QED
    BY <1>10, <2>1
<1>14. Started' /\ KeepsStatus' /\ CacheLatest'
  BY <1>10 DEF Inv, Started, KeepsStatus, CacheLatest
<1>15. RowsTrue'
  BY <1>2 DEF RowsTrue, Truth
<1> QED
  BY <1>7, <1>11, <1>12, <1>13, <1>14, <1>15 DEF Inv

-----------------------------------------------------------------------------
LEMMA StepInv == ASSUME Inv, [Next]_vars PROVE Inv'
<1>1. CASE \E broken \in SUBSET Ids : Show(broken)
  BY <1>1, ShowKeeps
<1>2. CASE \E broken \in SUBSET Ids : Crash(broken)
  <2>1. PICK broken \in SUBSET Ids : Crash(broken)
    BY <1>2
  <2>2. Unwraps(Head(answers), broken) /\ crashes' = {Head(answers).list} /\ Ends
    BY <2>1 DEF Crash
  <2>3. crashes' \subseteq Lists
    BY <2>2 DEF Unwraps, Lists
  <2> QED
    BY <2>2, <2>3, EndsKeeps
<1>3. CASE Kill
  <2>1. Ends /\ crashes' \subseteq Lists
    BY <1>3 DEF Kill, Inv, TypeOK
  <2> QED
    BY <2>1, EndsKeeps
<1>4. CASE UNCHANGED vars
  <2>1. TypeOK' /\ Started' /\ KeepsStatus'
    BY <1>4 DEF vars, Inv, TypeOK, Moments, Started, KeepsStatus
  <2>2. InOrder' /\ NoneOlder' /\ CacheLatest' /\ RowsTrue'
    BY <1>4 DEF vars, Inv, InOrder, NoneOlder, CacheLatest, RowsTrue
  <2>3. AnswersOf(past, ToSet(answers))'
    BY <1>4 DEF vars, Inv
  <2> QED
    BY <2>1, <2>2, <2>3 DEF Inv
<1> QED
  BY <1>1, <1>2, <1>3, <1>4, BoardKeeps, UserKeeps, NetworkKeeps, ReplaceKeeps DEF Next, MainStep

LEMMA Invariance == Spec => []Inv
<1>1. Inv /\ [Next]_vars => Inv'
  BY StepInv
<1>2. QED
  BY <1>1, InitInv, PTL DEF Spec

\* Every variable has its type; every row has a photo (Feeds.TypeOK).
THEOREM TypeCorrect == Spec => []TypeOK
<1>1. Inv => TypeOK
  BY DEF Inv
<1>2. QED
  BY <1>1, Invariance, PTL

\* A list is complete and in order, each announcement as it was at the latest moment from
\* which it was ever shown, and all of one moment if the server has answered: whatever
\* happened while the photos were downloaded, however the refreshes overlap, and
\* whatever else has changed the cache of the device (Service.getMissingPetsData,
\* getFoundedPetsData).
THEOREM LatestOfEachHolds == Spec => []LatestOfEach
<1>1. Inv => LatestOfEach
  BY RowsLatest DEF Inv
<1>2. QED
  BY <1>1, Invariance, PTL

-----------------------------------------------------------------------------
(***************************************************************************)
(* The promise to the reader.                                              *)
(***************************************************************************)
\* Nothing is under way for the screen of a list that is closed.
LiveOpen ==
  /\ \A l \in Lists : rows[l] = Closed => \A k \in DOMAIN asks[l] : ~ asks[l][k]
  /\ \A a \in ToSet(answers) : a.live => rows[a.list] # Closed

LEMMA RowsOpen ==
  /\ Closed \notin Seq(Row)
  /\ <<>> # Closed
  /\ \A rs \in Seq(Row) : [k \in DOMAIN rs |-> [id |-> rs[k].id, text |-> rs[k].text]] # Closed
<1>1. Closed \notin Seq(Row) /\ Closed \notin Seq([id : Ids, text : Texts])
  BY ClosedAssumption
<1>2. ASSUME NEW rs \in Seq(Row)
      PROVE  [k \in DOMAIN rs |-> [id |-> rs[k].id, text |-> rs[k].text]]
               \in Seq([id : Ids, text : Texts])
  <2>1. DOMAIN rs = 1..Len(rs) /\ Len(rs) \in Nat /\ \A k \in 1..Len(rs) : rs[k] \in Row
    BY <1>2
  <2>2. \A k \in 1..Len(rs) : [id |-> rs[k].id, text |-> rs[k].text] \in [id : Ids, text : Texts]
    BY <2>1 DEF Row
  <2>3. QED
    BY <2>1, <2>2
<1>3. <<>> \in Seq(Row)
  OBVIOUS
<1>4. QED
  BY <1>1, <1>2, <1>3, Zenon

\* A refresh is asked for by an open screen.
LEMMA UserOpen ==
  ASSUME Inv, LiveOpen, UserStep
  PROVE  LiveOpen'
<1>1. UNCHANGED answers
  BY DEF UserStep, OpenList, Refresh, SelectRow, CloseAbout
<1>2. /\ rows \in [Lists -> Seq(Row) \cup {Closed}] /\ asks \in [Lists -> Seq(BOOLEAN)]
      /\ answers \in Seq(Answer)
  BY DEF Inv, TypeOK
<1>3. CASE UNCHANGED <<rows, asks>>
  BY <1>1, <1>3 DEF LiveOpen
<1>4. ASSUME NEW l \in Lists, Ask(l), rows'[l] # Closed,
             \A m \in Lists \ {l} : rows'[m] = rows[m]
      PROVE  LiveOpen'
  <2>1. asks' = [asks EXCEPT ![l] = Append(@, TRUE)]
    BY <1>4 DEF Ask
  <2>2. \A m \in Lists \ {l} : asks'[m] = asks[m]
    BY <2>1, <1>2
  <2>3. \A m \in Lists : rows'[m] = Closed => \A k \in DOMAIN asks'[m] : ~ asks'[m][k]
    BY <2>2, <1>4 DEF LiveOpen
  <2>4. \A a \in ToSet(answers') : a.live => rows'[a.list] # Closed
    <3>1. \A a \in ToSet(answers) : a.list \in Lists
      BY AnswerKnown
    <3>2. QED
      BY <3>1, <1>1, <1>4 DEF LiveOpen
  <2>5. QED
    BY <2>3, <2>4 DEF LiveOpen
<1>5. CASE \E l \in Lists : OpenList(l)
  <2>1. PICK l \in Lists : OpenList(l)
    BY <1>5
  <2>2. Ask(l) /\ rows' = [rows EXCEPT ![l] = <<>>]
    BY <2>1 DEF OpenList
  <2>3. rows'[l] = <<>> /\ \A m \in Lists \ {l} : rows'[m] = rows[m]
    BY <2>2, <1>2
  <2>4. QED
    BY <2>2, <2>3, <1>4, RowsOpen
<1>6. CASE \E l \in Lists : Refresh(l)
  <2>1. PICK l \in Lists : Refresh(l)
    BY <1>6
  <2>2. Ask(l) /\ rows[l] # Closed /\ UNCHANGED rows
    BY <2>1 DEF Refresh
  <2>3. QED
    BY <2>2, <1>4
<1>7. QED
  BY <1>3, <1>5, <1>6 DEF UserStep, SelectRow, CloseAbout

\* An answer is for the screen that asked.
LEMMA NetworkOpen ==
  ASSUME Inv, LiveOpen, NetworkStep
  PROVE  LiveOpen'
<1>0. CASE \E i \in Ids : Learn(i)
  BY <1>0 DEF Learn, LiveOpen
<1>1. ASSUME NEW l \in Lists, Fetch(l) \/ FetchCached(l) \/ FetchFailed(l)
      PROVE  LiveOpen'
  <2>1. UNCHANGED rows /\ asks[l] # <<>> /\ asks' = [asks EXCEPT ![l] = Tail(@)]
    BY <1>1 DEF Fetch, FetchCached, FetchFailed, Respond
  <2>2. asks \in [Lists -> Seq(BOOLEAN)] /\ asks[l] \in Seq(BOOLEAN) /\ answers \in Seq(Answer)
    BY Zenon DEF Inv, TypeOK
  <2>3. /\ Head(asks[l]) = asks[l][1] /\ 1 \in DOMAIN asks[l]
        /\ \A k \in DOMAIN Tail(asks[l]) : k + 1 \in DOMAIN asks[l] /\ Tail(asks[l])[k] = asks[l][k + 1]
    BY <2>1, <2>2
  <2>4. asks'[l] = Tail(asks[l]) /\ \A m \in Lists \ {l} : asks'[m] = asks[m]
    BY <2>1, <2>2
  <2>5. \A m \in Lists : rows'[m] = Closed => \A k \in DOMAIN asks'[m] : ~ asks'[m][k]
    BY <2>1, <2>3, <2>4 DEF LiveOpen
  <2>6. \A a \in ToSet(answers') : a.live => rows'[a.list] # Closed
    <3>1. CASE UNCHANGED answers
      BY <3>1, <2>1 DEF LiveOpen
    <3>2. ASSUME NEW at \in Vintage, NEW src \in Sources, Respond(l, at, src)
          PROVE  \A a \in ToSet(answers') : a.live => rows'[a.list] # Closed
      <4> DEFINE a == [list |-> l, at |-> at, source |-> src, live |-> Head(asks[l])]
      <4>1. a \in Answer /\ a.list = l /\ a.live = Head(asks[l])
        BY <2>2, <2>3 DEF Answer
      <4>2. answers' = Append(answers, a)
        BY <3>2 DEF Respond
      <4> HIDE DEF a
      <4>3. ToSet(answers') = ToSet(answers) \cup {a}
        <5>1. answers \in Seq(Answer) /\ a \in Answer
          BY <2>2, <4>1, Zenon
        <5>2. ToSet(Append(answers, a)) = ToSet(answers) \cup {a}
          BY <5>1, AppendSet
        <5> QED
          BY <4>2, <5>2, Zenon
      <4>4. a.live => rows[a.list] # Closed
        BY <4>1, <2>3 DEF LiveOpen
      <4> QED
        BY <4>3, <4>4, <2>1 DEF LiveOpen
    <3>3. Everywhere(Now) \in Vintage /\ cached \in Vintage
      BY DEF Inv, TypeOK, Now, Everywhere, Vintage, Moments
    <3>4. "server" \in Sources /\ "cache" \in Sources
      BY DEF Sources
    <3> QED
      BY <1>1, <3>1, <3>2, <3>3, <3>4, Zenon DEF Fetch, FetchCached, FetchFailed
  <2> QED
    BY <2>5, <2>6 DEF LiveOpen
<1> QED
  BY <1>0, <1>1 DEF NetworkStep

LEMMA MainOpen ==
  ASSUME Inv, LiveOpen, MainStep \/ Kill
  PROVE  LiveOpen'
<1>1. CASE Ends
  <2>1. DOMAIN answers' = {} /\ \A l \in Lists : DOMAIN asks'[l] = {}
    BY <1>1 DEF Ends
  <2>2. QED
    BY <2>1 DEF LiveOpen, ToSet
<1>2. CASE ReplaceWindow
  <2>1. \A l \in Lists : \A k \in DOMAIN asks'[l] : ~ asks'[l][k]
    BY <1>2 DEF ReplaceWindow
  <2>2. DOMAIN answers' = DOMAIN answers
    BY <1>2 DEF ReplaceWindow
  <2>3. ASSUME NEW k \in DOMAIN answers PROVE ~ answers'[k].live
    <3>1. answers[k] \in Answer
      BY DEF Inv, TypeOK
    <3>2. answers'[k] = [answers[k] EXCEPT !.live = FALSE]
      BY <1>2 DEF ReplaceWindow
    <3>3. QED
      BY <3>1, <3>2 DEF Answer
  <2>4. QED
    BY <2>1, <2>2, <2>3 DEF LiveOpen, ToSet
<1>3. CASE \E broken \in SUBSET Ids : Show(broken)
  <2>1. PICK broken \in SUBSET Ids : Show(broken)
    BY <1>3
  <2> DEFINE a == Head(answers)
  <2>2. /\ answers \in Seq(Answer) /\ answers # <<>> /\ a \in Answer /\ past \in Seq(Board)
        /\ rows \in [Lists -> Seq(Row) \cup {Closed}] /\ a = answers[1]
    BY <2>1 DEF Inv, TypeOK, Show
  <2>3. /\ answers' = RemoveAt(answers, 1) /\ UNCHANGED asks
        /\ UNCHANGED rows \/ rows' = [rows EXCEPT ![a.list] = RowsOf(a, broken)]
    BY <2>1, <2>2, Zenon DEF Show, Deliver
  <2>4. \A b \in ToSet(answers') : b \in ToSet(answers)
    BY <2>2, <2>3, RemoveAtHead, TailInOrder, Zenon DEF Inv
  <2>5. a.list \in Lists /\ a.at \in [Ids -> DOMAIN past]
    <3>1. a \in ToSet(answers)
      BY <2>2 DEF ToSet
    <3>2. QED
      BY <3>1, AnswerKnown, Zenon
  <2>6. RowsOf(a, broken) # Closed
    BY <2>2, <2>5, RowsShow, RowsOpen, Zenon
  <2> HIDE DEF a
  <2>7. \A l \in Lists : rows'[l] = Closed => rows[l] = Closed
    BY <2>2, <2>3, <2>5, <2>6
  <2>8. \A b \in ToSet(answers) : b.list \in Lists
    BY AnswerKnown
  <2>9. QED
    BY <2>3, <2>4, <2>7, <2>8 DEF LiveOpen
<1>4. QED
  BY <1>1, <1>2, <1>3 DEF MainStep, Crash, Kill

LEMMA OpenInvariance == Spec => []LiveOpen
<1>1. Init => LiveOpen
  BY DEF Init, LiveOpen, ToSet
<1>2. ASSUME Inv, LiveOpen, [Next]_vars PROVE LiveOpen'
  <2>1. CASE BoardStep \/ UNCHANGED vars
    <3>1. UNCHANGED <<rows, asks, answers>>
      BY <2>1 DEF BoardStep, Post, Update, Delete, Becomes, vars
    <3>2. QED
      BY <3>1, <1>2 DEF LiveOpen
  <2>2. QED
    BY <1>2, <2>1, UserOpen, NetworkOpen, MainOpen DEF Next
<1>3. QED
  BY <1>1, <1>2, Invariance, PTL DEF Spec

-----------------------------------------------------------------------------
ScreenOf(rs) ==
  IF rs = Closed THEN Closed
  ELSE [k \in DOMAIN rs |-> [id |-> rs[k].id, text |-> rs[k].text]]

Screen == [l \in Lists |-> ScreenOf(rows[l])]

LEMMA ReaderListing ==
  ASSUME NEW rs \in Seq(Row), NEW docs, NEW l \in Lists, Shows(rs, docs, l)
  PROVE  Reader!IsListing(ScreenOf(rs), docs, l)
<1> DEFINE es == ScreenOf(rs)
<1>1. es = [k \in DOMAIN rs |-> [id |-> rs[k].id, text |-> rs[k].text]]
  BY RowsOpen, Zenon DEF ScreenOf
<1>2. /\ DOMAIN es = DOMAIN rs /\ DOMAIN rs = 1..Len(rs) /\ Len(rs) \in Nat
      /\ \A k \in DOMAIN rs : es[k].id = rs[k].id /\ es[k].text = rs[k].text
  BY <1>1
<1> HIDE DEF es
<1>3. {es[k].id : k \in DOMAIN es} = {i \in Ids : docs[i] # NoDoc /\ docs[i].status = l}
  BY <1>2 DEF Shows, Matching
<1>4. ASSUME NEW k \in DOMAIN es
      PROVE  /\ es[k].text = docs[es[k].id].text
             /\ \A j \in 1..(k - 1) : es[j].id > es[k].id
  <2>1. k \in 1..Len(rs) /\ \A j \in 1..(k - 1) : j \in DOMAIN rs
    BY <1>2
  <2>2. QED
    BY <1>2, <2>1 DEF Shows
<1>5. QED
  BY <1>3, <1>4 DEF Reader!IsListing, es

\* The announcements change one at a time.
LEMMA ReaderBoard ==
  ASSUME Inv, BoardStep
  PROVE  \E i \in Ids : \E doc \in Reader!Document \cup {NoDoc} : Reader!Change(i, doc)
<1>1. /\ past \in Seq(Board) /\ past # <<>> /\ Now \in Nat /\ Now \in DOMAIN past
      /\ past[Now] \in Board
  BY DEF Inv, TypeOK, Started, Now
<1>2. PICK i \in Ids :
        \/ \E x \in Texts : Update(i, x) \/ \E s \in Lists : Post(i, s, x)
        \/ Delete(i)
  BY DEF BoardStep
<1>3. ASSUME NEW docs, Becomes(docs)
      PROVE  past' = Append(past, docs) /\ UNCHANGED <<rows, source, seen>>
  BY <1>3 DEF Becomes
<1>4. ASSUME NEW doc \in Document \cup {NoDoc}, Becomes([past[Now] EXCEPT ![i] = doc]),
             IF past[Now][i] = NoDoc
               THEN {t \in DOMAIN past : past[t][i] # NoDoc} # {} =>
                      \E t \in {u \in DOMAIN past : past[u][i] # NoDoc} :
                        /\ \A u \in {v \in DOMAIN past : past[v][i] # NoDoc} : t <= u
                        /\ past[t][i] = doc
               ELSE doc # NoDoc => doc.status = past[Now][i].status
      PROVE  Reader!Change(i, doc) /\ doc \in Reader!Document \cup {NoDoc}
  <2>1. /\ past' = Append(past, [past[Len(past)] EXCEPT ![i] = doc])
        /\ UNCHANGED <<rows, source, seen>>
    BY <1>3, <1>4 DEF Now
  <2>2. doc \in Reader!Document \cup {NoDoc}
    BY <1>4 DEF Reader!Document, Document
  <2> QED
    BY <1>4, <2>1, <2>2, Zenon DEF Reader!Change, Now
<1>5. CASE \E x \in Texts : Update(i, x)
  <2>1. PICK x \in Texts : Update(i, x)
    BY <1>5
  <2> DEFINE doc == [past[Now][i] EXCEPT !.text = x]
  <2>2. past[Now][i] \in Document /\ past[Now][i] # NoDoc
    BY <1>1, <2>1 DEF Update, Board
  <2>3. doc \in Document /\ doc.status = past[Now][i].status
    BY <2>2 DEF Document
  <2>4. Becomes([past[Now] EXCEPT ![i] = doc])
    BY <2>1 DEF Update
  <2> HIDE DEF doc
  <2>5. QED
    BY <1>4, <2>2, <2>3, <2>4
<1>6. CASE \E x \in Texts, s \in Lists : Post(i, s, x)
  <2>1. PICK x \in Texts, s \in Lists : Post(i, s, x)
    BY <1>6
  <2> DEFINE doc == [status |-> s, text |-> x]
  <2>2. doc \in Document
    BY DEF Document
  <2>3. /\ past[Now][i] = NoDoc
        /\ {t \in DOMAIN past : past[t][i] # NoDoc} # {} =>
             \E t \in {u \in DOMAIN past : past[u][i] # NoDoc} :
               /\ \A u \in {v \in DOMAIN past : past[v][i] # NoDoc} : t <= u
               /\ past[t][i] = doc
        /\ Becomes([past[Now] EXCEPT ![i] = doc])
    BY <2>1, Zenon DEF Post, Moments
  <2> HIDE DEF doc
  <2>4. QED
    BY <1>4, <2>2, <2>3, Zenon
<1>7. CASE Delete(i)
  <2>1. past[Now][i] # NoDoc /\ Becomes([past[Now] EXCEPT ![i] = NoDoc])
    BY <1>7 DEF Delete
  <2>2. QED
    BY <1>4, <2>1
<1>8. QED
  BY <1>2, <1>5, <1>6, <1>7

LEMMA ReaderOpen ==
  ASSUME Inv, NEW l \in Lists, OpenList(l)
  PROVE  Reader!Open(l)
<1>1. /\ rows \in [Lists -> Seq(Row) \cup {Closed}] /\ rows[l] = Closed
      /\ rows' = [rows EXCEPT ![l] = <<>>] /\ UNCHANGED <<past, seen>>
      /\ source' = [source EXCEPT ![l] = "none"]
  BY DEF Inv, TypeOK, OpenList
<1>2. rows'[l] = <<>> /\ \A m \in Lists \ {l} : rows'[m] = rows[m]
  BY <1>1
<1>3. ScreenOf(rows[l]) = Closed /\ ScreenOf(rows'[l]) = <<>>
  BY <1>1, <1>2, RowsOpen DEF ScreenOf
<1>4. Screen' = [Screen EXCEPT ![l] = <<>>] /\ Screen[l] = Closed
  BY <1>2, <1>3 DEF Screen
<1>5. QED
  BY <1>1, <1>4 DEF Reader!Open, Screen, ScreenOf

\* The first answer is shown, or is for a screen that is gone.
LEMMA ReaderShow ==
  ASSUME Inv, LiveOpen, NEW broken, Show(broken)
  PROVE  \/ \E l \in Lists : \E src \in {"server", "cache"} : Reader!Show(l, src)
         \/ UNCHANGED Reader!vars
<1> DEFINE a == Head(answers)
<1>1. /\ answers \in Seq(Answer) /\ answers # <<>> /\ a = answers[1] /\ 1 \in DOMAIN answers
      /\ past \in Seq(Board) /\ rows \in [Lists -> Seq(Row) \cup {Closed}]
  BY DEF Inv, TypeOK, Show
<1>2. a \in ToSet(answers)
  BY <1>1, Zenon DEF ToSet
<1>3. /\ UNCHANGED past
      /\ IF a.live
           THEN /\ rows' = [rows EXCEPT ![a.list] = RowsOf(a, broken)]
                /\ source' = [source EXCEPT ![a.list] = a.source]
                /\ seen' = [i \in Ids |->
                     IF i \in Listed(a.list) /\ seen[i] < a.at[i] THEN a.at[i] ELSE seen[i]]
           ELSE UNCHANGED <<rows, source, seen>>
  BY <1>1, Zenon DEF Show, Deliver
<1>4. /\ a \in Answer /\ a.list \in Lists /\ a.source \in Sources
      /\ a.at \in [Ids -> DOMAIN past]
  BY <1>2, AnswerKnown, Zenon
<1>5. CASE ~ a.live
  BY <1>3, <1>5 DEF Reader!vars
<1>6. CASE a.live
  <2> HIDE DEF a
  <2> DEFINE rs == RowsOf(a, broken)
  <2>0. PICK l \in Lists, src \in {"server", "cache"} : l = a.list /\ src = a.source
    BY <1>4 DEF Sources
  <2>1. /\ rows' = [rows EXCEPT ![l] = rs] /\ source' = [source EXCEPT ![l] = a.source]
        /\ seen' = [i \in Ids |->
             IF i \in Listed(l) /\ seen[i] < a.at[i] THEN a.at[i] ELSE seen[i]]
    BY <1>3, <1>6, <2>0, Zenon
  <2>2. /\ seen' \in [Ids -> DOMAIN past]
        /\ \A i \in Ids : seen[i] <= seen'[i]
        /\ \A i \in Ids : i \in Listed(l) => (a.source = "server" => seen'[i] = a.at[i])
        /\ \A i \in Ids : i \notin Listed(l) => seen'[i] = seen[i]
    BY <1>2, <2>0, <2>1, ShownMoves, Zenon
  <2>3. rs \in Seq(Row)
    BY <1>1, <1>4, RowsShow, Zenon
  <2> DEFINE mine == {i \in Ids : \E t \in DOMAIN past : past[t][i] # NoDoc /\ past[t][i].status = l}
  <2>4. \A i \in Ids : i \in mine <=> i \in Listed(l)
    BY DEF Listed, Matching, Moments
  <2>5. Shows(rs, DocsIn(past, seen'), l)
    <3>1. Inv'
      BY ShowKeeps
    <3>2. Truth(past', rows'[l], source'[l], seen', l)
      BY <2>0, <3>1, Zenon DEF Inv, RowsTrue
    <3>3. rows'[l] = rs /\ source'[l] = a.source /\ past' = past /\ a.source # "none"
      <4>1. source \in [Lists -> Sources \cup {"none"}]
        BY DEF Inv, TypeOK
      <4> QED
        BY <1>1, <1>3, <1>4, <2>0, <2>1, <4>1 DEF Sources
    <3> QED
      BY <3>2, <3>3, Zenon DEF Truth
  <2>6. src = "server" => \E t \in DOMAIN past : \A i \in mine : seen'[i] = t
    <3>1. ASSUME src = "server"
          PROVE  \E t \in DOMAIN past : \A i \in mine : seen'[i] = t
      <4>1. PICK t \in DOMAIN past : a.at = [i \in Ids |-> t]
        BY <1>2, <2>0, <3>1, Zenon DEF Inv, AnswersOf
      <4>2. \A i \in Ids : a.at[i] = t
        BY <4>1
      <4> QED
        BY <2>0, <2>2, <2>4, <3>1, <4>2
    <3> QED
      BY <3>1
  <2>7. l \in Lists /\ rows[l] # Closed /\ rs \in Seq(Row) /\ rs # Closed
    BY <1>2, <1>6, <2>0, <2>3, RowsOpen, Zenon DEF LiveOpen
  <2>8. \A i \in Ids : IF i \in mine THEN seen[i] <= seen'[i] ELSE seen[i] = seen'[i]
    BY <2>2, <2>4, Zenon
  <2> HIDE DEF rs
  <2>10. rows'[l] = rs /\ \A m \in Lists \ {l} : rows'[m] = rows[m]
    BY <1>1, <2>1, <2>7
  <2>11. ScreenOf(rs) # Closed /\ ScreenOf(rows[l]) # Closed
    BY <1>1, <2>7, RowsOpen, Zenon DEF ScreenOf
  <2>12. /\ Screen[l] # Closed /\ Screen'[l] # Closed /\ Screen'[l] = ScreenOf(rs)
         /\ Screen' = [Screen EXCEPT ![l] = Screen'[l]]
    BY <2>7, <2>10, <2>11 DEF Screen
  <2>13. Reader!IsListing(Screen'[l], [i \in Ids |-> past[seen'[i]][i]], l)
    BY <2>5, <2>7, <2>12, ReaderListing, Zenon DEF DocsIn
  <2>14. UNCHANGED past /\ source' = [source EXCEPT ![l] = src]
    BY <1>3, <2>0, <2>1
  <2>15. Reader!Show(l, src)
    BY <2>2, <2>6, <2>8, <2>12, <2>13, <2>14, Zenon DEF Reader!Show, Screen, ScreenOf
  <2> QED
    BY <2>15, Zenon
<1>7. QED
  BY <1>5, <1>6

LEMMA ReaderStep ==
  ASSUME Inv, LiveOpen, [Next]_vars
  PROVE  Reader!Next \/ UNCHANGED Reader!vars
<1>1. CASE BoardStep
  BY <1>1, ReaderBoard DEF Reader!Next
<1>2. CASE \E l \in Lists : OpenList(l)
  BY <1>2, ReaderOpen DEF Reader!Next
<1>3. CASE \E broken \in SUBSET Ids : Show(broken)
  BY <1>3, ReaderShow, Zenon DEF Reader!Next
<1>4. CASE /\ UNCHANGED <<past, seen>> /\ rows' = [l \in Lists |-> Closed]
           /\ source' = [l \in Lists |-> "none"]
  BY <1>4 DEF Reader!Next, Reader!CloseAll
<1>5. CASE UNCHANGED <<past, seen, rows, source>>
  BY <1>5 DEF Reader!vars
<1>6. Kill \/ ReplaceWindow \/ (\E broken \in SUBSET Ids : Crash(broken)) => <1>4!1
  BY DEF Kill, ReplaceWindow, Crash, Ends
<1>7. NetworkStep \/ UNCHANGED vars \/ CloseAbout \/ (\E l \in Lists : Refresh(l) \/ SelectRow(l))
        => <1>5!1
  BY DEF NetworkStep, Fetch, FetchCached, FetchFailed, Learn, Respond, vars, CloseAbout, Refresh,
         SelectRow
<1>8. QED
  BY <1>1, <1>2, <1>3, <1>4, <1>5, <1>6, <1>7 DEF Next, MainStep, UserStep

\* However the refreshes overlap and whatever the cache has learned meanwhile, an open
\* list goes forward announcement by announcement, and from one moment of the board to
\* a later one when the server answers, complete and in order; and a screen that was
\* closed or replaced never fills (MissingPetsVC, FoundPetsVC, Service).
THEOREM ReaderImplemented == Spec => ImplementsReader
<1>1. Init => Reader!Init
  BY DEF Init, Reader!Init, Reader!Empty
<1>2. Inv /\ LiveOpen /\ [Next]_vars => [Reader!Next]_(Reader!vars)
  BY ReaderStep
<1>3. QED
  BY <1>1, <1>2, Invariance, OpenInvariance, PTL DEF Spec, ImplementsReader, Reader!Spec

-----------------------------------------------------------------------------
(***************************************************************************)
(* The one listing.                                                        *)
(***************************************************************************)
Descends(p) == \A j, k \in DOMAIN p : j < k => p[j] > p[k]

Entries(p) == {p[k] : k \in DOMAIN p}

\* What comes first in one descending list cannot come later in another.
LEMMA NoneIsLarger ==
  ASSUME NEW p \in Seq(Nat), NEW q \in Seq(Nat), Descends(p), Descends(q),
         Entries(q) \subseteq Entries(p),
         NEW n \in DOMAIN q, \A k \in 1..(n - 1) : k \in DOMAIN p /\ p[k] = q[k]
  PROVE  n \in DOMAIN p /\ p[n] >= q[n]
<1>1. PICK m \in DOMAIN p : p[m] = q[n]
  BY DEF Entries
<1>2. /\ m \in Nat /\ n \in Nat /\ q[n] \in Nat /\ DOMAIN p = 1..Len(p) /\ Len(p) \in Nat
      /\ \A k \in DOMAIN p : p[k] \in Nat
      /\ DOMAIN q = 1..Len(q) /\ Len(q) \in Nat
  OBVIOUS
<1>3. ~ (m < n)
  <2> SUFFICES ASSUME m < n PROVE FALSE
    OBVIOUS
  <2>1. m \in 1..(n - 1) /\ m \in DOMAIN q
    BY <1>2
  <2>2. p[m] = q[m] /\ q[m] > q[n]
    BY <2>1 DEF Descends
  <2> QED
    BY <1>1, <1>2, <2>2
<1>4. n \in DOMAIN p
  BY <1>2, <1>3
<1>5. n < m => p[n] > p[m]
  BY <1>4 DEF Descends
<1>6. n = m \/ n < m
  BY <1>2, <1>3
<1> QED
  BY <1>1, <1>2, <1>4, <1>5, <1>6

\* A set of numbers has one listing from the largest to the smallest.
LEMMA OneDescending ==
  ASSUME NEW p \in Seq(Nat), NEW q \in Seq(Nat), Descends(p), Descends(q),
         Entries(p) = Entries(q)
  PROVE  p = q
<1>1. /\ DOMAIN p = 1..Len(p) /\ Len(p) \in Nat /\ \A k \in DOMAIN p : p[k] \in Nat
      /\ DOMAIN q = 1..Len(q) /\ Len(q) \in Nat /\ \A k \in DOMAIN q : q[k] \in Nat
  OBVIOUS
<1> DEFINE D == {k \in DOMAIN p \cup DOMAIN q :
                   ~ (k \in DOMAIN p /\ k \in DOMAIN q /\ p[k] = q[k])}
<1>2. D = {}
  <2> SUFFICES ASSUME D # {} PROVE FALSE
    OBVIOUS
  <2>1. D \in SUBSET Nat
    BY <1>1
  <2> HIDE DEF D
  <2>2. PICK n \in D : \A k \in D : ~ (k < n)
    BY <2>1, LeastNat
  <2> USE DEF D
  <2>3. n \in Nat /\ n \in DOMAIN p \cup DOMAIN q
    BY <2>1
  <2>4. \A k \in 1..(n - 1) : k \in DOMAIN p \cup DOMAIN q /\ k < n
    BY <1>1, <2>3
  <2>5. \A k \in 1..(n - 1) : k \in DOMAIN p /\ k \in DOMAIN q /\ p[k] = q[k]
    BY <2>2, <2>4
  <2>6. n \in DOMAIN q => n \in DOMAIN p /\ p[n] >= q[n]
    BY <2>5, NoneIsLarger
  <2>7. n \in DOMAIN p => n \in DOMAIN q /\ q[n] >= p[n]
    BY <2>5, NoneIsLarger
  <2>8. n \in DOMAIN p /\ n \in DOMAIN q /\ p[n] >= q[n] /\ q[n] >= p[n]
    BY <2>3, <2>6, <2>7
  <2>9. p[n] = q[n]
    BY <1>1, <2>8
  <2> QED
    BY <2>8, <2>9
<1>3. DOMAIN p = DOMAIN q /\ \A k \in DOMAIN p : p[k] = q[k]
  BY <1>2
<1>4. Len(p) = Len(q)
  <2>1. Len(p) # 0 => Len(p) \in DOMAIN q
    BY <1>1, <1>3
  <2>2. Len(q) # 0 => Len(q) \in DOMAIN p
    BY <1>1, <1>3
  <2>3. Len(p) # 0 => Len(p) <= Len(q)
    BY <1>1, <2>1
  <2>4. Len(q) # 0 => Len(q) <= Len(p)
    BY <1>1, <2>2
  <2>5. Len(p) \in Nat /\ Len(q) \in Nat
    OBVIOUS
  <2> QED
    BY <2>3, <2>4, <2>5
<1> QED
  BY <1>1, <1>3, <1>4, SeqEqual

\* The ids of a list that has been filled are the one listing of the announcements as it
\* has shown them last.
RowsAreListing ==
  \A l \in Lists : source[l] # "none" =>
    [k \in DOMAIN rows[l] |-> rows[l][k].id] = Listing(Docs(seen), l)

LEMMA ListedThen ==
  ASSUME Inv PROVE RowsAreListing
<1> SUFFICES ASSUME NEW l \in Lists, source[l] # "none"
             PROVE  [k \in DOMAIN rows[l] |-> rows[l][k].id] = Listing(Docs(seen), l)
  BY DEF RowsAreListing
<1> DEFINE rs == rows[l]
           docs == Docs(seen)
           p == [k \in DOMAIN rs |-> rs[k].id]
           q == Listing(docs, l)
<1>1. rs \in Seq(Row) /\ Shows(rs, docs, l)
  BY DEF Inv, RowsTrue, Truth, Docs, DocsIn
<1>3. /\ {rs[k].id : k \in DOMAIN rs} = Matching(docs, l)
      /\ \A k \in DOMAIN rs : \A j \in 1..(k - 1) : rs[j].id > rs[k].id
  BY <1>1 DEF Shows
<1>4. /\ q \in Seq(Matching(docs, l))
      /\ {q[k] : k \in DOMAIN q} = Matching(docs, l)
      /\ \A j, k \in DOMAIN q : j < k => q[j] > q[k]
  BY ListingSorted, Zenon
<1> HIDE DEF docs, q
<1>5. Matching(docs, l) \subseteq Nat
  BY FeedsAssumption DEF Matching
<1>6. \A k \in DOMAIN rs : rs[k].id \in Nat
  BY <1>3, <1>5
<1>7. DOMAIN rs = 1..Len(rs) /\ Len(rs) \in Nat
  BY <1>1
<1> HIDE DEF rs
<1>8. p \in Seq(Nat) /\ DOMAIN p = DOMAIN rs /\ \A k \in DOMAIN rs : p[k] = rs[k].id
  BY <1>6, <1>7
<1> HIDE DEF p
<1>9. Entries(p) = Matching(docs, l) /\ Entries(q) = Matching(docs, l)
  <2>1. {p[k] : k \in DOMAIN p} = {rs[k].id : k \in DOMAIN rs}
    BY <1>8
  <2> QED
    BY <1>3, <1>4, <2>1 DEF Entries
<1>10. Descends(p)
  <2>1. \A j, k \in DOMAIN rs : j < k => j \in 1..(k - 1)
    BY <1>7
  <2> QED
    BY <1>3, <1>8, <2>1 DEF Descends
<1>11. q \in Seq(Nat) /\ Descends(q)
  BY <1>4, <1>5 DEF Descends
<1>12. p = q
  BY <1>8, <1>9, <1>10, <1>11, OneDescending
<1> QED
  BY <1>12 DEF p, q, rs, docs

\* LatestOfEach leaves nothing open: what a list shows is the one listing of the
\* announcements as it has shown them last (Service.getMissingPetsData,
\* getFoundedPetsData).
THEOREM ListedOnly == Spec => []RowsAreListing
<1> QED
  BY ListedThen, Invariance, PTL
=============================================================================
