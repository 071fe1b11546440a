----------------------- MODULE MyAnnouncementsProofs -----------------------
(***************************************************************************)
(* For any devices, accounts and announcements: only a repeated creation   *)
(* brings back what was deleted, nobody's announcement is touched from     *)
(* another account, and "deleted" is said only of what is gone.            *)
(*                                                                         *)
(* The argument follows the copies.  A row, an editor and a write name an  *)
(* announcement of the device's account that has been posted or is on its  *)
(* way from this very device (RowsOwn, EditorOwn, WritesBacked), because   *)
(* the query that started the chain of copies filters by owner.  An id is  *)
(* drawn once (DrawnOnce), so a creation has one place in one queue, with  *)
(* everything else that queue does to its document behind it (Orderly):    *)
(* a device that hears that its delete was applied has no creation left to *)
(* repeat, and only the device that drew the id can revive it.             *)
(*                                                                         *)
(* Last, what the devices do to an announcement is what AnnouncementLives  *)
(* promises its owner: each action is shown to add an order, to carry one  *)
(* out, to settle one, or to leave orders and reports alone.               *)
(***************************************************************************)
EXTENDS MyAnnouncements, QueueTheorems

\* i is an announcement of the account of d, posted or queued here to be made.
Own(d, i) == Owner[i] = Account[d] /\ (i \in posted \/ i \in drawn[d])

DrawnOnce ==
  \A d \in Devices : \A i \in drawn[d] :
    /\ Owner[i] = Account[d]
    /\ \A e \in Devices : i \in drawn[e] => e = d

PostedDrawn ==
  /\ \A i \in posted : \E d \in Devices : i \in drawn[d]
  /\ revived \subseteq posted

PostedHasOwner ==
  \A i \in Ids : board[i] # NoDoc => i \in posted /\ board[i].owner = Owner[i]

RowsOwn ==
  \A d \in Devices : list[d] # Closed => \A r \in list[d] : Own(d, r.id)

\* Gone, unless another device has made it once more.
Gone(d, i) == board[i] = NoDoc \/ (i \in revived /\ i \notin drawn[d])

\* The device has nothing queued that would make i.
MadeBy(d, i) == \E k \in DOMAIN queue[d] : queue[d][k].op = "create" /\ queue[d][k].id = i

\* A device that says "deleted" has nothing to bring its announcement back with.
EditorSound(d, e) ==
  /\ Own(d, e.id)
  /\ e.modal = "deleted" => Gone(d, e.id) /\ ~MadeBy(d, e.id)

EditorsSound == \A d \in Devices : editor[d] # Closed => EditorSound(d, editor[d])

\* A write whose editor is still open is that editor's; a creation that was never
\* applied has no document yet; a delete whose answer is due has left none.
Backed(d, w) ==
  /\ Own(d, w.id)
  /\ w.live => editor[d] # Closed /\ editor[d].id = w.id
  /\ w.op = "create" => w.id \in drawn[d] /\ (w.applied = "no" => w.id \notin posted)
  /\ w.op = "delete" /\ w.applied = "now" => Gone(d, w.id)

WritesBacked == \A d \in Devices : \A k \in DOMAIN queue[d] : Backed(d, queue[d][k])

\* Answers are due for a front of the queue, and what is done to a document comes
\* after its creation.
Orderly(q) ==
  \A j, k \in DOMAIN q :
    /\ j < k /\ q[k].applied = "now" => q[j].applied = "now"
    /\ q[j].op = "create" /\ q[k].id = q[j].id => j <= k

QueuesOrderly == \A d \in Devices : Orderly(queue[d])

Inv ==
  /\ TypeOK
  /\ DrawnOnce /\ PostedDrawn /\ PostedHasOwner
  /\ RowsOwn /\ EditorsSound /\ WritesBacked /\ QueuesOrderly

-----------------------------------------------------------------------------
LEMMA InitInv == Init => Inv
<1> SUFFICES ASSUME Init PROVE Inv
  OBVIOUS
<1>1. ASSUME NEW d \in Devices PROVE queue[d] = <<>> /\ DOMAIN queue[d] = {} /\ drawn[d] = {}
  BY <1>1 DEF Init
<1>2. TypeOK
  <2>1. <<>> \in Seq(Write) /\ writes \in 0..MaxWrites
    BY AnnouncementsAssumption DEF Init
  <2>2. queue \in [Devices -> Seq(Write)] /\ drawn \in [Devices -> SUBSET Ids]
    BY <2>1 DEF Init
  <2>3. editor \in [Devices -> {Closed} \cup Editor]
    BY DEF Init
  <2>4. list \in [Devices -> {Closed} \cup SUBSET Row]
    BY DEF Init
  <2>5. board \in [Ids -> Document \cup {NoDoc}]
    BY DEF Init
  <2>6. /\ posted \subseteq Ids /\ revived \subseteq Ids
        /\ asked \in [Devices -> BOOLEAN] /\ lostEdit \in BOOLEAN
    BY DEF Init
  <2> QED
    BY <2>1, <2>2, <2>3, <2>4, <2>5, <2>6 DEF TypeOK
<1>3. PostedHasOwner /\ RowsOwn /\ EditorsSound /\ PostedDrawn
  BY DEF Init, PostedHasOwner, RowsOwn, EditorsSound, PostedDrawn
<1>4. DrawnOnce /\ WritesBacked /\ QueuesOrderly
  BY <1>1 DEF DrawnOnce, WritesBacked, QueuesOrderly, Orderly
<1> QED
  BY <1>2, <1>3, <1>4 DEF Inv

(***************************************************************************)
(* The values the actions build.                                           *)
(***************************************************************************)
LEMMA EditorType ==
  ASSUME TypeOK, NEW d \in Devices, editor[d] # Closed
  PROVE  /\ editor[d] \in Editor
         /\ \A x \in Texts :
              LET e == [editor[d] EXCEPT !.text = x]
              IN  e \in Editor /\ e.id = editor[d].id /\ e.modal = editor[d].modal
         /\ \A m \in Modals :
              LET e == [editor[d] EXCEPT !.modal = m]
              IN  e \in Editor /\ e.id = editor[d].id /\ e.modal = m
<1>1. editor[d] \in Editor
  BY DEF TypeOK
<1> QED
  BY <1>1 DEF Editor

\* v is w after it was sent, its connection broke or its editor was closed.
SameWrite(v, w) ==
  /\ v.op = w.op /\ v.id = w.id /\ v.text = w.text
  /\ v.live => w.live
  /\ v.applied = "no" <=> w.applied = "no"

\* p is q from its entry n + 1 on, and no answer is due that was not.
Carried(p, q, n) ==
  /\ \A i \in DOMAIN p : i + n \in DOMAIN q /\ SameWrite(p[i], q[i + n])
  /\ \/ \A i \in DOMAIN p : p[i].applied = q[i + n].applied
     \/ \A i \in DOMAIN p : p[i].applied # "now"

LEMMA OrphanedCarried ==
  ASSUME NEW q \in Seq(Write)
  PROVE  /\ Orphaned(q) \in Seq(Write) /\ DOMAIN Orphaned(q) = DOMAIN q
         /\ Carried(Orphaned(q), q, 0)
         /\ \A i \in DOMAIN q : ~Orphaned(q)[i].live
<1>1. PICK p : p = Orphaned(q)
  OBVIOUS
<1>2. ASSUME NEW i \in DOMAIN q
      PROVE  /\ p[i] \in Write /\ SameWrite(p[i], q[i])
             /\ ~p[i].live /\ p[i].applied = q[i].applied
  <2>1. q[i] \in Write
    BY <1>2
  <2>2. p[i] = [q[i] EXCEPT !.live = FALSE]
    BY <1>1, <1>2 DEF Orphaned
  <2> QED
    BY <2>1, <2>2 DEF Write, SameWrite
<1>3. DOMAIN p = DOMAIN q /\ p = [i \in DOMAIN q |-> p[i]]
  BY <1>1 DEF Orphaned
<1>4. p \in Seq(Write)
  BY <1>2, <1>3, EntrywiseSet
<1>5. \A i \in DOMAIN p : i + 0 = i
  BY <1>4
<1> QED
  BY <1>1, <1>2, <1>3, <1>4, <1>5 DEF Carried

LEMMA SentAgainCarried ==
  ASSUME NEW q \in Seq(Write), NEW p \in Seq(Write), NEW n \in Nat, Carried(p, q, n)
  PROVE  /\ SentAgain(p) \in Seq(Write) /\ DOMAIN SentAgain(p) = DOMAIN p
         /\ Carried(SentAgain(p), q, n)
         /\ \A i \in DOMAIN p : SameWrite(SentAgain(p)[i], p[i]) /\ SentAgain(p)[i].live = p[i].live
<1>1. PICK s : s = SentAgain(p)
  OBVIOUS
<1>2. ASSUME NEW i \in DOMAIN p
      PROVE  /\ s[i] \in Write /\ SameWrite(s[i], p[i])
             /\ s[i].live = p[i].live /\ s[i].applied # "now"
  <2>1. p[i] \in Write
    BY <1>2
  <2>2. s[i] = [p[i] EXCEPT !.applied = IF @ = "no" THEN "no" ELSE "before"]
    BY <1>1, <1>2 DEF SentAgain
  <2> QED
    BY <2>1, <2>2 DEF Write, SameWrite
<1>3. DOMAIN s = DOMAIN p /\ s = [i \in DOMAIN p |-> s[i]]
  BY <1>1 DEF SentAgain
<1>4. s \in Seq(Write)
  BY <1>2, <1>3, EntrywiseSet
<1>5. ASSUME NEW i \in DOMAIN p PROVE i + n \in DOMAIN q /\ SameWrite(s[i], q[i + n])
  <2>1. i + n \in DOMAIN q /\ SameWrite(p[i], q[i + n])
    BY <1>5 DEF Carried
  <2> QED
    BY <1>2, <1>5, <2>1 DEF SameWrite
<1>6. Carried(s, q, n)
  BY <1>2, <1>3, <1>5 DEF Carried
<1> QED
  BY <1>1, <1>2, <1>3, <1>4, <1>6

LEMMA TailCarried ==
  ASSUME NEW q \in Seq(Write), q # <<>>
  PROVE  /\ Tail(q) \in Seq(Write) /\ Carried(Tail(q), q, 1)
         /\ 1 \in DOMAIN q /\ Head(q) = q[1]
         /\ \A i \in DOMAIN Tail(q) : i + 1 \in DOMAIN q /\ Tail(q)[i] = q[i + 1] /\ 1 < i + 1
<1>1. /\ Tail(q) \in Seq(Write) /\ Head(q) = q[1]
      /\ Len(q) \in Nat /\ Len(q) > 0 /\ DOMAIN q = 1..Len(q)
  OBVIOUS
<1>2. /\ Len(Tail(q)) = Len(q) - 1 /\ DOMAIN Tail(q) = 1..(Len(q) - 1)
      /\ \A i \in 1..(Len(q) - 1) : Tail(q)[i] = q[i + 1]
  BY <1>1, HeadTailProperties
<1>3. \A i \in DOMAIN Tail(q) : i + 1 \in DOMAIN q /\ Tail(q)[i] = q[i + 1] /\ 1 < i + 1
  BY <1>1, <1>2
<1>4. 1 \in DOMAIN q
  BY <1>1
<1> QED
  BY <1>1, <1>3, <1>4 DEF Carried, SameWrite

LEMMA SameCarried ==
  ASSUME NEW q \in Seq(Write) PROVE Carried(q, q, 0)
<1>1. \A i \in DOMAIN q : i + 0 = i
  OBVIOUS
<1> QED
  BY <1>1 DEF Carried, SameWrite

LEMMA AppendIndex ==
  ASSUME NEW q \in Seq(Write), NEW w \in Write
  PROVE  /\ Append(q, w) \in Seq(Write)
         /\ \A i \in DOMAIN Append(q, w) :
              \/ i \in DOMAIN q /\ Append(q, w)[i] = q[i]
              \/ i = Len(q) + 1 /\ Append(q, w)[i] = w /\ \A j \in DOMAIN q : j < i
<1>1. Append(q, w) \in Seq(Write) /\ DOMAIN Append(q, w) = 1..(Len(q) + 1) /\ Len(q) \in Nat
  OBVIOUS
<1>2. \A i \in DOMAIN q : Append(q, w)[i] = q[i] /\ i < Len(q) + 1
  OBVIOUS
<1>3. Append(q, w)[Len(q) + 1] = w
  OBVIOUS
<1>4. \A i \in DOMAIN Append(q, w) : i \in DOMAIN q \/ i = Len(q) + 1
  OBVIOUS
<1> QED
  BY <1>1, <1>2, <1>3, <1>4

LEMMA AppliedIndex ==
  ASSUME NEW q \in Seq(Write), NEW k \in DOMAIN q
  PROVE  LET p == [q EXCEPT ![k].applied = "now"] IN
         /\ p \in Seq(Write) /\ DOMAIN p = DOMAIN q
         /\ \A i \in DOMAIN q : i # k => p[i] = q[i]
         /\ p[k].op = q[k].op /\ p[k].id = q[k].id /\ p[k].text = q[k].text
         /\ p[k].live = q[k].live /\ p[k].applied = "now"
<1>0. PICK p : p = [q EXCEPT ![k].applied = "now"]
  OBVIOUS
<1>1. q[k] \in Write /\ p[k] = [q[k] EXCEPT !.applied = "now"]
  BY <1>0
<1>2. /\ p[k] \in Write
      /\ p[k].op = q[k].op /\ p[k].id = q[k].id /\ p[k].text = q[k].text
      /\ p[k].live = q[k].live /\ p[k].applied = "now"
  BY <1>1 DEF Write
<1>3. DOMAIN p = DOMAIN q /\ p = [i \in DOMAIN q |-> p[i]] /\ \A i \in DOMAIN q : i # k => p[i] = q[i]
  BY <1>0
<1>4. \A i \in DOMAIN q : p[i] \in Write
  BY <1>2, <1>3
<1>5. p \in Seq(Write)
  BY <1>3, <1>4, EntrywiseSet
<1> QED
  BY <1>0, <1>2, <1>3, <1>5

(***************************************************************************)
(* One step, variable by variable.                                         *)
(***************************************************************************)
LEMMA ListStep ==
  ASSUME Next
  PROVE  \/ list' = list
         \/ \E d \in Devices :
              \/ list' = [list EXCEPT ![d] = Closed]
              \/ list' = [list EXCEPT ![d] = {}]
              \/ list' = [list EXCEPT ![d] = MyRows(d)]
BY DEF Next, UserStep, NetworkStep, Publish, OpenList, CloseList, Refresh, Load,
       LoadFailed, SelectRow, Type, TapEdit, TapDelete, ConfirmDelete, DismissAlert,
       CloseEditor, Kill, Apply, ConnectionBreaks, Acknowledge, Refuse

\* The editor of one device is opened on a row, typed into, or covered
\* and uncovered; "deleted" needs an applied delete of its own.
EditorChange(d) ==
  \/ \E r \in Row :
       /\ list[d] # Closed /\ r \in list[d] /\ editor[d] = Closed
       /\ editor' = [editor EXCEPT ![d] = [id |-> r.id, text |-> r.text, modal |-> "none"]]
  \/ /\ AtEditor(d)
     /\ \E x \in Texts : editor' = [editor EXCEPT ![d].text = x]
  \/ /\ editor[d] # Closed
     /\ \E m \in {"none", "edited", "confirm"} : editor' = [editor EXCEPT ![d].modal = m]
  \/ /\ editor[d] # Closed /\ Sent(d)
     /\ Head(queue[d]).op = "delete" /\ Head(queue[d]).applied = "now" /\ Head(queue[d]).live
     /\ editor' = [editor EXCEPT ![d].modal = "deleted"]

EditorCloses(d) == editor' = [editor EXCEPT ![d] = Closed]

\* The queue of d loses its head or what is remembered of its writes, and gains
\* nothing.
QueueCarried(d) ==
  /\ UNCHANGED server
  /\ \E p \in Seq(Write), n \in {0, 1} :
       /\ queue' = [queue EXCEPT ![d] = p]
       /\ Carried(p, queue[d], n)
       /\ \/ EditorCloses(d) /\ \A i \in DOMAIN p : ~p[i].live
          \/ editor' = editor
          \/ EditorChange(d)

\* What a step does to the queues and, with them, to the editors.
LEMMA QueueStep ==
  ASSUME TypeOK, Next
  PROVE  \/ /\ UNCHANGED <<server, queue>>
            /\ editor' = editor \/ \E d \in Devices : EditorChange(d)
         \/ \E d \in Devices :
              \/ \E i \in Ids, x \in Texts : Publish(d, i, x)
              \/ /\ editor[d] # Closed /\ EditorChange(d) /\ UNCHANGED server
                 /\ \E op \in {"update", "delete"} : Enqueue(d, op)
              \/ \E k \in DOMAIN queue[d] : Apply(d, k)
              \/ QueueCarried(d)
<1>1. ASSUME NEW d \in Devices, NEW r \in Row, SelectRow(d, r)
      PROVE  UNCHANGED <<server, queue>> /\ EditorChange(d)
  BY <1>1 DEF SelectRow, EditorChange
<1>2. ASSUME NEW d \in Devices, NEW x \in Texts, Type(d, x)
      PROVE  UNCHANGED <<server, queue>> /\ EditorChange(d)
  BY <1>2 DEF Type, EditorChange
<1>3. ASSUME NEW d \in Devices, TapDelete(d) \/ DismissAlert(d)
      PROVE  UNCHANGED <<server, queue>> /\ EditorChange(d)
  BY <1>3 DEF TapDelete, DismissAlert, EditorChange, AtEditor
<1>4. ASSUME NEW d \in Devices, TapEdit(d) \/ ConfirmDelete(d)
      PROVE  /\ editor[d] # Closed /\ EditorChange(d) /\ UNCHANGED server
             /\ \E op \in {"update", "delete"} : Enqueue(d, op)
  BY <1>4 DEF TapEdit, ConfirmDelete, EditorChange, AtEditor
<1>5. ASSUME NEW d \in Devices,
             OpenList(d) \/ CloseList(d) \/ Refresh(d) \/ Load(d) \/ LoadFailed(d)
      PROVE  UNCHANGED <<server, queue, editor>>
  BY <1>5 DEF OpenList, CloseList, Refresh, Load, LoadFailed
<1>6. ASSUME NEW d \in Devices PROVE queue[d] \in Seq(Write)
  BY <1>6 DEF TypeOK
<1>7. ASSUME NEW d \in Devices, CloseEditor(d) PROVE QueueCarried(d)
  <2>1. /\ Orphaned(queue[d]) \in Seq(Write) /\ Carried(Orphaned(queue[d]), queue[d], 0)
        /\ \A i \in DOMAIN Orphaned(queue[d]) : ~Orphaned(queue[d])[i].live
    BY <1>6, OrphanedCarried
  <2> QED
    BY <1>7, <2>1 DEF CloseEditor, EditorCloses, QueueCarried
<1>8. ASSUME NEW d \in Devices, Kill(d) PROVE QueueCarried(d)
  <2>1. PICK o : o = Orphaned(queue[d])
    OBVIOUS
  <2>2. o \in Seq(Write) /\ Carried(o, queue[d], 0) /\ \A i \in DOMAIN o : ~o[i].live
    BY <1>6, <2>1, OrphanedCarried
  <2>3. /\ SentAgain(o) \in Seq(Write) /\ Carried(SentAgain(o), queue[d], 0)
        /\ \A i \in DOMAIN SentAgain(o) : ~SentAgain(o)[i].live
    BY <1>6, <2>2, SentAgainCarried
  <2> QED
    BY <1>8, <2>1, <2>3 DEF Kill, EditorCloses, QueueCarried
<1>9. ASSUME NEW d \in Devices, ConnectionBreaks(d) PROVE QueueCarried(d)
  <2>1. SentAgain(queue[d]) \in Seq(Write) /\ Carried(SentAgain(queue[d]), queue[d], 0)
    BY <1>6, SameCarried, SentAgainCarried
  <2> QED
    BY <1>9, <2>1 DEF ConnectionBreaks, QueueCarried
<1>10. ASSUME NEW d \in Devices, Acknowledge(d) PROVE QueueCarried(d)
  <2>1. Tail(queue[d]) \in Seq(Write) /\ Carried(Tail(queue[d]), queue[d], 1)
    BY <1>6, <1>10, TailCarried DEF Acknowledge, Sent
  <2>2. editor' = editor \/ EditorChange(d)
    BY <1>10 DEF Acknowledge, EditorChange, AtEditor
  <2> QED
    BY <1>10, <2>1, <2>2 DEF Acknowledge, QueueCarried
<1>11. ASSUME NEW d \in Devices, Refuse(d) PROVE QueueCarried(d)
  <2>1. PICK t : t = Tail(queue[d])
    OBVIOUS
  <2>2. t \in Seq(Write) /\ Carried(t, queue[d], 1)
    BY <1>6, <1>11, <2>1, TailCarried DEF Refuse, Sent
  <2>3. SentAgain(t) \in Seq(Write) /\ Carried(SentAgain(t), queue[d], 1)
    BY <1>6, <2>2, SentAgainCarried
  <2> QED
    BY <1>11, <2>1, <2>3 DEF Refuse, QueueCarried
<1> QED
  BY <1>1, <1>2, <1>3, <1>4, <1>5, <1>7, <1>8, <1>9, <1>10, <1>11
     DEF Next, UserStep, NetworkStep

EditorKept(d) ==
  editor[d] # Closed => editor'[d] # Closed /\ editor'[d].id = editor[d].id

LEMMA ChangeKeeps ==
  ASSUME TypeOK, NEW d \in Devices, EditorChange(d)
  PROVE  /\ \A e \in Devices : EditorKept(e)
         /\ \A e \in Devices : e # d => editor'[e] = editor[e]
         /\ editor' \in [Devices -> {Closed} \cup Editor]
<1>1. editor \in [Devices -> {Closed} \cup Editor]
  BY DEF TypeOK
<1>2. ASSUME NEW r \in Row, editor[d] = Closed,
             editor' = [editor EXCEPT ![d] = [id |-> r.id, text |-> r.text, modal |-> "none"]]
      PROVE  /\ editor' \in [Devices -> {Closed} \cup Editor]
             /\ \A e \in Devices : EditorKept(e)
             /\ \A e \in Devices : e # d => editor'[e] = editor[e]
  <2>1. [id |-> r.id, text |-> r.text, modal |-> "none"] \in Editor
    BY DEF Row, Editor, Modals
  <2> QED
    BY <1>1, <1>2, <2>1 DEF EditorKept
<1>3. ASSUME editor[d] # Closed, NEW new, new \in Editor, new.id = editor[d].id,
             editor' = [editor EXCEPT ![d] = new]
      PROVE  /\ editor' \in [Devices -> {Closed} \cup Editor]
             /\ \A e \in Devices : EditorKept(e)
             /\ \A e \in Devices : e # d => editor'[e] = editor[e]
  BY <1>1, <1>3, ClosedAssumption DEF EditorKept
<1>4. ASSUME editor[d] # Closed, NEW x \in Texts, editor' = [editor EXCEPT ![d].text = x]
      PROVE  \E new \in Editor : new.id = editor[d].id /\ editor' = [editor EXCEPT ![d] = new]
  <2>1. editor' = [editor EXCEPT ![d] = [editor[d] EXCEPT !.text = x]]
    BY <1>4
  <2> QED
    BY <1>4, <2>1, EditorType
<1>5. ASSUME editor[d] # Closed, NEW m \in Modals, editor' = [editor EXCEPT ![d].modal = m]
      PROVE  \E new \in Editor : new.id = editor[d].id /\ editor' = [editor EXCEPT ![d] = new]
  <2>1. editor' = [editor EXCEPT ![d] = [editor[d] EXCEPT !.modal = m]]
    BY <1>5
  <2> QED
    BY <1>5, <2>1, EditorType
<1>6. "deleted" \in Modals /\ \A m \in {"none", "edited", "confirm"} : m \in Modals
  BY DEF Modals
<1> QED
  BY <1>2, <1>3, <1>4, <1>5, <1>6 DEF EditorChange, AtEditor

(***************************************************************************)
(* The server: what brings a document back, and who changes one.           *)
(***************************************************************************)
\* The write the server applies, by itself.
LEMMA AppliedWrite ==
  ASSUME Inv, NEW d \in Devices, NEW k \in DOMAIN queue[d], NEW w, w = queue[d][k], Apply(d, k)
  PROVE  /\ w \in Write /\ w \in ToSet(queue[d]) /\ Backed(d, w) /\ w.applied # "now"
         /\ UNCHANGED <<drawn, editor>>
         /\ \/ /\ w.op = "delete" /\ board' = [board EXCEPT ![w.id] = NoDoc]
               /\ posted' = posted /\ revived' = revived \ {w.id}
            \/ /\ w.op = "update" /\ board[w.id] # NoDoc
               /\ board' = [board EXCEPT ![w.id].text = w.text]
               /\ UNCHANGED <<posted, revived>>
            \/ /\ w.op = "create"
               /\ board' = [board EXCEPT ![w.id] = [owner |-> Owner[w.id], text |-> w.text]]
               /\ posted' = posted \cup {w.id}
               /\ revived' = IF w.id \in posted /\ board[w.id] = NoDoc
                               THEN revived \cup {w.id} ELSE revived
<1>1. queue[d] \in Seq(Write)
  BY DEF Inv, TypeOK
<1>2. w \in Write /\ w \in ToSet(queue[d])
  BY <1>1 DEF ToSet
<1>3. Backed(d, w)
  BY DEF Inv, WritesBacked
<1>4. /\ w.applied # "now" /\ UNCHANGED <<drawn, editor>>
      /\ w.op = "update" => board[w.id] # NoDoc
      /\ board' = Result(board, w) /\ revived' = Revival(w)
      /\ posted' = IF w.op = "create" THEN posted \cup {w.id} ELSE posted
  BY DEF Apply, Due
<1>5. w.op \in {"create", "update", "delete"}
  BY <1>2 DEF Write
<1>6. CASE w.op = "create"
  BY <1>2, <1>3, <1>4, <1>6 DEF Result, Revival
<1>7. CASE w.op = "update"
  BY <1>2, <1>3, <1>4, <1>7 DEF Result, Revival
<1>8. CASE w.op = "delete"
  BY <1>2, <1>3, <1>4, <1>8 DEF Result, Revival
<1> QED
  BY <1>5, <1>6, <1>7, <1>8

LEMMA ServerStep ==
  ASSUME Inv, Next
  PROVE  /\ board' \in [Ids -> Document \cup {NoDoc}]
         /\ posted \subseteq posted' /\ posted' \subseteq Ids /\ revived' \subseteq Ids
         /\ drawn' \in [Devices -> SUBSET Ids] /\ \A d \in Devices : drawn[d] \subseteq drawn'[d]
         /\ DrawnOnce' /\ PostedDrawn' /\ PostedHasOwner'
<1>0. /\ board \in [Ids -> Document \cup {NoDoc}] /\ posted \subseteq Ids /\ revived \subseteq Ids
      /\ drawn \in [Devices -> SUBSET Ids]
      /\ DrawnOnce /\ PostedDrawn /\ PostedHasOwner
  BY DEF Inv, TypeOK
<1>1. ASSUME NEW d \in Devices, NEW i \in Ids, NEW x \in Texts, Publish(d, i, x)
      PROVE  /\ UNCHANGED <<board, posted, revived>>
             /\ drawn' \in [Devices -> SUBSET Ids] /\ \A e \in Devices : drawn[e] \subseteq drawn'[e]
             /\ DrawnOnce' /\ PostedDrawn'
  <2>1. /\ UNCHANGED <<board, posted, revived>>
        /\ \A e \in Devices : i \notin drawn[e]
        /\ Owner[i] = Account[d] /\ drawn' = [drawn EXCEPT ![d] = drawn[d] \cup {i}]
    BY <1>1 DEF Publish
  <2>2. /\ drawn'[d] = drawn[d] \cup {i} /\ \A e \in Devices : e # d => drawn'[e] = drawn[e]
        /\ drawn' \in [Devices -> SUBSET Ids]
    BY <1>0, <2>1
  <2>3. \A e \in Devices : drawn[e] \subseteq drawn'[e]
    BY <2>2
  <2>4. DrawnOnce'
    BY <1>0, <2>1, <2>2 DEF DrawnOnce
  <2>5. PostedDrawn'
    BY <1>0, <2>1, <2>3 DEF PostedDrawn
  <2> QED
    BY <2>1, <2>2, <2>3, <2>4, <2>5
<1>2. ASSUME NEW d \in Devices, NEW k \in DOMAIN queue[d], Apply(d, k)
      PROVE  /\ UNCHANGED drawn
             /\ board' \in [Ids -> Document \cup {NoDoc}]
             /\ posted \subseteq posted' /\ posted' \subseteq Ids /\ revived' \subseteq Ids
             /\ PostedDrawn' /\ PostedHasOwner'
  <2>1. PICK w : w = queue[d][k]
    OBVIOUS
  <2>2. /\ w \in Write /\ Backed(d, w) /\ UNCHANGED drawn
        /\ \/ /\ w.op = "delete" /\ board' = [board EXCEPT ![w.id] = NoDoc]
              /\ posted' = posted /\ revived' = revived \ {w.id}
           \/ /\ w.op = "update" /\ board[w.id] # NoDoc
              /\ board' = [board EXCEPT ![w.id].text = w.text]
              /\ UNCHANGED <<posted, revived>>
           \/ /\ w.op = "create"
              /\ board' = [board EXCEPT ![w.id] = [owner |-> Owner[w.id], text |-> w.text]]
              /\ posted' = posted \cup {w.id}
              /\ revived' = IF w.id \in posted /\ board[w.id] = NoDoc
                              THEN revived \cup {w.id} ELSE revived
    BY <1>2, <2>1, AppliedWrite
  <2>3. w.id \in Ids /\ w.text \in Texts
    BY <2>2 DEF Write
  <2>4. ASSUME NEW doc \in Document, doc.owner = Owner[w.id], w.id \in posted',
               board' = [board EXCEPT ![w.id] = doc], posted \subseteq posted'
        PROVE  board' \in [Ids -> Document \cup {NoDoc}] /\ PostedHasOwner'
    BY <1>0, <2>3, <2>4 DEF PostedHasOwner
  <2>5. CASE w.op = "delete"
    <3>1. /\ board' = [board EXCEPT ![w.id] = NoDoc]
          /\ posted' = posted /\ revived' = revived \ {w.id}
      BY <2>2, <2>5
    <3>2. board' \in [Ids -> Document \cup {NoDoc}] /\ PostedHasOwner'
      BY <1>0, <2>3, <3>1 DEF PostedHasOwner
    <3>3. PostedDrawn'
      BY <1>0, <2>2, <3>1 DEF PostedDrawn
    <3> QED
      BY <1>0, <2>2, <3>1, <3>2, <3>3
  <2>6. CASE w.op = "update"
    <3>1. /\ board[w.id] # NoDoc /\ UNCHANGED <<posted, revived>>
          /\ board' = [board EXCEPT ![w.id].text = w.text]
      BY <2>2, <2>6
    <3>2. board[w.id] \in Document /\ board[w.id].owner = Owner[w.id] /\ w.id \in posted
      BY <1>0, <2>3, <3>1 DEF PostedHasOwner
    <3>3. PICK doc : doc = [board[w.id] EXCEPT !.text = w.text]
      OBVIOUS
    <3>4. doc \in Document /\ doc.owner = Owner[w.id]
      BY <2>3, <3>2, <3>3 DEF Document
    <3>5. board' = [board EXCEPT ![w.id] = doc]
      BY <3>1, <3>3
    <3>6. PostedDrawn'
      BY <1>0, <2>2, <3>1 DEF PostedDrawn
    <3> QED
      BY <1>0, <2>2, <2>4, <3>1, <3>2, <3>4, <3>5, <3>6
  <2>7. CASE w.op = "create"
    <3>1. /\ board' = [board EXCEPT ![w.id] = [owner |-> Owner[w.id], text |-> w.text]]
          /\ posted' = posted \cup {w.id}
          /\ revived' \subseteq revived \cup {w.id} /\ w.id \in drawn[d]
      BY <2>2, <2>7 DEF Backed
    <3>2. PICK doc : doc = [owner |-> Owner[w.id], text |-> w.text]
      OBVIOUS
    <3>3. doc \in Document /\ doc.owner = Owner[w.id]
      BY <2>3, <3>2, AnnouncementsAssumption DEF Document
    <3>4. board' \in [Ids -> Document \cup {NoDoc}] /\ PostedHasOwner'
      BY <2>4, <3>1, <3>2, <3>3
    <3>5. PostedDrawn'
      BY <1>0, <2>2, <3>1 DEF PostedDrawn
    <3>6. posted \subseteq posted' /\ posted' \subseteq Ids /\ revived' \subseteq Ids
      BY <1>0, <2>3, <3>1
    <3> QED
      BY <2>2, <3>4, <3>5, <3>6
  <2> QED
    BY <2>2, <2>5, <2>6, <2>7
<1>3. ASSUME UNCHANGED drawn PROVE DrawnOnce'
  BY <1>0, <1>3 DEF DrawnOnce
<1>4. ASSUME UNCHANGED <<board, posted>> PROVE PostedHasOwner'
  BY <1>0, <1>4 DEF PostedHasOwner
<1>5. ASSUME UNCHANGED <<posted, drawn, revived>> PROVE PostedDrawn'
  BY <1>0, <1>5 DEF PostedDrawn
<1>6. CASE UNCHANGED server
  <2>1. UNCHANGED <<board, posted, drawn, revived>>
    BY <1>6 DEF server
  <2> QED
    BY <1>0, <2>1, <1>3, <1>4, <1>5
<1>7. \/ UNCHANGED server
      \/ \E d \in Devices, i \in Ids, x \in Texts : Publish(d, i, x)
      \/ \E d \in Devices : \E k \in DOMAIN queue[d] : Apply(d, k)
  BY QueueStep DEF Inv, QueueCarried
<1>8. ASSUME NEW d \in Devices, NEW i \in Ids, NEW x \in Texts, Publish(d, i, x)
      PROVE  PostedHasOwner' /\ board' \in [Ids -> Document \cup {NoDoc}]
             /\ posted' = posted /\ revived' = revived
  BY <1>0, <1>1, <1>4, <1>8
<1>9. ASSUME NEW d \in Devices, NEW k \in DOMAIN queue[d], Apply(d, k)
      PROVE  DrawnOnce' /\ drawn' \in [Devices -> SUBSET Ids]
  BY <1>0, <1>2, <1>3, <1>9
<1>10. CASE \E d \in Devices, i \in Ids, x \in Texts : Publish(d, i, x)
  BY <1>0, <1>1, <1>8, <1>10
<1>11. CASE \E d \in Devices : \E k \in DOMAIN queue[d] : Apply(d, k)
  <2>1. PICK d \in Devices : \E k \in DOMAIN queue[d] : Apply(d, k)
    BY <1>11
  <2>2. PICK k \in DOMAIN queue[d] : Apply(d, k)
    BY <2>1
  <2> QED
    BY <2>2, <1>2, <1>9
<1> QED
  BY <1>6, <1>7, <1>10, <1>11

LEMMA StaysOwn ==
  ASSUME Inv, Next, NEW d \in Devices, NEW i, Own(d, i) PROVE Own(d, i)'
<1>1. posted \subseteq posted' /\ drawn[d] \subseteq drawn'[d]
  BY ServerStep
<1> QED
  BY <1>1 DEF Own

\* The server is the same, or one write was applied, or an id was drawn.
LEMMA ServerCases ==
  ASSUME Inv, Next
  PROVE  \/ UNCHANGED <<board, posted, drawn, revived>>
         \/ /\ UNCHANGED <<board, posted, revived>>
            /\ \E d \in Devices, i \in Ids, x \in Texts : Publish(d, i, x)
         \/ \E d \in Devices : \E k \in DOMAIN queue[d] : Apply(d, k)
<1>1. \/ UNCHANGED server
      \/ \E d \in Devices, i \in Ids, x \in Texts : Publish(d, i, x)
      \/ \E d \in Devices : \E k \in DOMAIN queue[d] : Apply(d, k)
  BY QueueStep DEF Inv, QueueCarried
<1>2. UNCHANGED server => UNCHANGED <<board, posted, drawn, revived>>
  BY DEF server
<1>3. \A d \in Devices, i \in Ids, x \in Texts : Publish(d, i, x) => UNCHANGED <<board, posted, revived>>
  BY DEF Publish
<1> QED
  BY <1>1, <1>2, <1>3

\* A document comes back only with the creation of the device that drew its id,
\* applied once more.
LEMMA RevivalStep ==
  ASSUME Inv, Next, NEW i \in posted, board[i] = NoDoc, board'[i] # NoDoc
  PROVE  \E d \in Devices : /\ i \in drawn[d]
                            /\ \E w \in ToSet(queue[d]) :
                                 w.op = "create" /\ w.id = i /\ w.applied = "before"
<1>1. PICK d \in Devices : \E k \in DOMAIN queue[d] : Apply(d, k)
  BY ServerCases
<1>2. PICK k \in DOMAIN queue[d] : Apply(d, k)
  BY <1>1
<1>3. PICK w : w = queue[d][k]
  OBVIOUS
<1>4. /\ w \in Write /\ w \in ToSet(queue[d]) /\ Backed(d, w) /\ w.applied # "now"
      /\ \/ w.op = "delete" /\ board' = [board EXCEPT ![w.id] = NoDoc]
         \/ /\ w.op = "update" /\ board[w.id] # NoDoc
            /\ board' = [board EXCEPT ![w.id].text = w.text]
         \/ /\ w.op = "create"
            /\ board' = [board EXCEPT ![w.id] = [owner |-> Owner[w.id], text |-> w.text]]
  BY <1>2, <1>3, AppliedWrite
<1>5. board \in [Ids -> Document \cup {NoDoc}] /\ w.id \in Ids /\ i \in Ids
  BY <1>4 DEF Inv, TypeOK, Write
<1>6. w.id = i /\ w.op = "create"
  BY <1>4, <1>5
<1>7. w.applied \in {"no", "now", "before"}
  BY <1>4 DEF Write
<1>8. w.applied = "before" /\ i \in drawn[d]
  BY <1>4, <1>6, <1>7 DEF Backed
<1> QED
  BY <1>4, <1>6, <1>8

LEMMA OwnersStep ==
  ASSUME Inv, Next, NEW i \in Ids, board'[i] # board[i]
  PROVE  \E d \in Devices : /\ Account[d] = Owner[i]
                            /\ \E w \in ToSet(queue[d]) : w.id = i
<1>1. PICK d \in Devices : \E k \in DOMAIN queue[d] : Apply(d, k)
  BY ServerCases
<1>2. PICK k \in DOMAIN queue[d] : Apply(d, k)
  BY <1>1
<1>3. PICK w : w = queue[d][k]
  OBVIOUS
<1>4. /\ w \in Write /\ w \in ToSet(queue[d]) /\ Backed(d, w)
      /\ \/ board' = [board EXCEPT ![w.id] = NoDoc]
         \/ board' = [board EXCEPT ![w.id].text = w.text]
         \/ board' = [board EXCEPT ![w.id] = [owner |-> Owner[w.id], text |-> w.text]]
  BY <1>2, <1>3, AppliedWrite
<1>5. board \in [Ids -> Document \cup {NoDoc}] /\ w.id \in Ids
  BY <1>4 DEF Inv, TypeOK, Write
<1>6. w.id = i
  BY <1>4, <1>5
<1> QED
  BY <1>4, <1>6 DEF Backed, Own

\* What is gone stays so for a device, unless its own creation is applied.
LEMMA StaysGone ==
  ASSUME Inv, Next, NEW d \in Devices, NEW i \in Ids, Own(d, i), Gone(d, i),
         \A k \in DOMAIN queue[d] :
           Apply(d, k) => ~(queue[d][k].op = "create" /\ queue[d][k].id = i)
  PROVE  Gone(d, i)'
<1>0. board \in [Ids -> Document \cup {NoDoc}] /\ DrawnOnce /\ PostedDrawn
  BY DEF Inv, TypeOK
<1>1. CASE UNCHANGED <<board, posted, drawn, revived>>
  BY <1>1 DEF Gone
<1>2. ASSUME NEW e \in Devices, NEW j \in Ids, NEW x \in Texts, Publish(e, j, x),
             UNCHANGED <<board, posted, revived>>
      PROVE  Gone(d, i)'
  <2>1. \A c \in Devices : j \notin drawn[c]
    BY <1>2 DEF Publish
  <2>2. drawn' = [drawn EXCEPT ![e] = drawn[e] \cup {j}] /\ drawn \in [Devices -> SUBSET Ids]
    BY <1>2 DEF Publish, Inv, TypeOK
  <2>3. i # j
    BY <1>0, <2>1 DEF Own, PostedDrawn
  <2>4. i \in drawn'[d] <=> i \in drawn[d]
    BY <2>2, <2>3
  <2> QED
    BY <1>2, <2>4 DEF Gone
<1>3. ASSUME NEW e \in Devices, NEW k \in DOMAIN queue[e], Apply(e, k) PROVE Gone(d, i)'
  <2>1. PICK w : w = queue[e][k]
    OBVIOUS
  <2>2. /\ w \in Write /\ Backed(e, w) /\ UNCHANGED drawn
        /\ \/ /\ w.op = "delete" /\ board' = [board EXCEPT ![w.id] = NoDoc]
              /\ posted' = posted /\ revived' = revived \ {w.id}
           \/ /\ w.op = "update" /\ board[w.id] # NoDoc
              /\ board' = [board EXCEPT ![w.id].text = w.text]
              /\ UNCHANGED <<posted, revived>>
           \/ /\ w.op = "create"
              /\ board' = [board EXCEPT ![w.id] = [owner |-> Owner[w.id], text |-> w.text]]
              /\ posted' = posted \cup {w.id}
              /\ revived' = IF w.id \in posted /\ board[w.id] = NoDoc
                              THEN revived \cup {w.id} ELSE revived
    BY <1>3, <2>1, AppliedWrite
  <2>3. w.id \in Ids
    BY <2>2 DEF Write
  <2>4. CASE w.id # i
    <3>1. board'[i] = board[i] /\ (i \in revived => i \in revived')
      BY <1>0, <2>2, <2>3, <2>4
    <3> QED
      BY <2>2, <3>1 DEF Gone
  <2>5. CASE w.id = i /\ w.op = "delete"
    BY <1>0, <2>2, <2>5 DEF Gone
  <2>6. CASE w.id = i /\ w.op = "update"
    BY <2>2, <2>6 DEF Gone
  <2>7. CASE w.id = i /\ w.op = "create"
    <3>1. e # d
      BY <1>3, <2>1, <2>7
    <3>2. i \in drawn[e] /\ i \notin drawn[d]
      BY <1>0, <2>2, <2>7, <3>1 DEF Backed, DrawnOnce
    <3>3. i \in posted
      BY <3>2 DEF Own
    <3>4. i \in revived'
      BY <2>2, <2>7, <3>2, <3>3 DEF Gone
    <3> QED
      BY <2>2, <3>2, <3>4 DEF Gone
  <2>8. w.op \in {"create", "update", "delete"}
    BY <2>2 DEF Write
  <2> QED
    BY <2>4, <2>5, <2>6, <2>7, <2>8
<1>4. CASE \E e \in Devices : \E k \in DOMAIN queue[e] : Apply(e, k)
  <2>1. PICK e \in Devices : \E k \in DOMAIN queue[e] : Apply(e, k)
    BY <1>4
  <2>2. PICK k \in DOMAIN queue[e] : Apply(e, k)
    BY <2>1
  <2> QED
    BY <2>2, <1>3
<1> QED
  BY <1>1, <1>2, <1>4, ServerCases

(***************************************************************************)
(* The queues: their entries stem from those before the step, or are new.  *)
(***************************************************************************)
\* Nothing new is there to bring a document back, unless its creation is queued now.
LEMMA MadeStep ==
  ASSUME Inv, Next, NEW d \in Devices, NEW i, MadeBy(d, i)', ~MadeBy(d, i)
  PROVE  \E x \in Texts : i \in Ids /\ Publish(d, i, x)
<1>0. queue \in [Devices -> Seq(Write)]
  BY DEF Inv, TypeOK
<1>1. ASSUME NEW p, queue' = [queue EXCEPT ![d] = p]
      PROVE  queue'[d] = p
  BY <1>0, <1>1
<1>2. queue'[d] # queue[d]
  BY DEF MadeBy
<1>3. ASSUME NEW e \in Devices, NEW p, queue' = [queue EXCEPT ![e] = p] PROVE e = d
  BY <1>0, <1>2, <1>3
<1>4. ASSUME NEW w \in Write, queue' = [queue EXCEPT ![d] = Append(queue[d], w)]
      PROVE  w.op = "create" /\ w.id = i
  <2>1. PICK k \in DOMAIN queue'[d] : queue'[d][k].op = "create" /\ queue'[d][k].id = i
    BY DEF MadeBy
  <2>2. queue'[d] = Append(queue[d], w)
    BY <1>1, <1>4
  <2>3. (k \in DOMAIN queue[d] /\ queue'[d][k] = queue[d][k]) \/ queue'[d][k] = w
    BY <1>0, <2>1, <2>2, AppendIndex
  <2> QED
    BY <2>1, <2>3 DEF MadeBy
<1>5. ASSUME NEW e \in Devices, NEW j \in Ids, NEW x \in Texts, Publish(e, j, x)
      PROVE  Publish(d, i, x) /\ i \in Ids
  <2>1. PICK w : w = [op |-> "create", id |-> j, text |-> x, live |-> FALSE, applied |-> "no"]
    OBVIOUS
  <2>2. w \in Write /\ w.id = j
    BY <2>1 DEF Write
  <2>3. queue' = [queue EXCEPT ![e] = Append(queue[e], w)]
    BY <1>5, <2>1 DEF Publish
  <2>4. e = d
    BY <1>3, <2>3
  <2>5. j = i
    BY <1>4, <2>2, <2>3, <2>4
  <2> QED
    BY <1>5, <2>4, <2>5
<1>6. ASSUME NEW e \in Devices, editor[e] # Closed, NEW op \in {"update", "delete"}, Enqueue(e, op)
      PROVE  FALSE
  <2>1. PICK w : w = [op |-> op, id |-> editor[e].id, text |-> editor[e].text,
                      live |-> TRUE, applied |-> "no"]
    OBVIOUS
  <2>2. editor[e] \in Editor
    BY <1>6, EditorType DEF Inv
  <2>3. w \in Write /\ w.op = op
    BY <2>1, <2>2 DEF Editor, Write
  <2>4. queue' = [queue EXCEPT ![e] = Append(queue[e], w)]
    BY <2>1, <1>6 DEF Enqueue
  <2>5. e = d
    BY <1>3, <2>4
  <2> QED
    BY <1>4, <2>3, <2>4, <2>5
<1>7. ASSUME NEW e \in Devices, NEW k \in DOMAIN queue[e], Apply(e, k) PROVE FALSE
  <2>1. PICK p : p = [queue[e] EXCEPT ![k].applied = "now"]
    OBVIOUS
  <2>2. queue' = [queue EXCEPT ![e] = p]
    BY <1>0, <1>7, <2>1 DEF Apply
  <2>3. e = d
    BY <1>3, <2>2
  <2>4. /\ DOMAIN p = DOMAIN queue[d]
        /\ \A j \in DOMAIN p : p[j].op = queue[d][j].op /\ p[j].id = queue[d][j].id
    BY <1>0, <1>7, <2>1, <2>3, AppliedIndex
  <2>5. queue'[d] = p
    BY <1>1, <2>2, <2>3
  <2> QED
    BY <2>4, <2>5 DEF MadeBy
<1>8. ASSUME NEW e \in Devices, QueueCarried(e) PROVE FALSE
  <2>1. PICK p \in Seq(Write), n \in {0, 1} :
          queue' = [queue EXCEPT ![e] = p] /\ Carried(p, queue[e], n)
    BY <1>8 DEF QueueCarried
  <2>2. e = d
    BY <1>3, <2>1
  <2>3. queue'[d] = p
    BY <1>1, <2>1, <2>2
  <2>4. \A j \in DOMAIN p : /\ j + n \in DOMAIN queue[d]
                            /\ p[j].op = queue[d][j + n].op /\ p[j].id = queue[d][j + n].id
    BY <2>1, <2>2 DEF Carried, SameWrite
  <2> QED
    BY <2>3, <2>4 DEF MadeBy
<1>9. queue' # queue
  BY <1>2
<1> QED
  BY <1>5, <1>6, <1>7, <1>8, <1>9, QueueStep DEF Inv

\* What backs a write goes on doing so as long as its editor is kept and it is not
\* the one that is being applied.
LEMMA StaysBacked ==
  ASSUME Inv, Next, NEW d \in Devices, NEW k \in DOMAIN queue[d], NEW w, w = queue[d][k],
         w.live => EditorKept(d), ~Apply(d, k)
  PROVE  Backed(d, w)'
<1>0. /\ Backed(d, w) /\ w \in Write /\ w.id \in Ids
      /\ Orderly(queue[d]) /\ queue[d] \in Seq(Write) /\ DrawnOnce
  <2>1. w \in Write /\ queue[d] \in Seq(Write)
    BY DEF Inv, TypeOK
  <2> QED
    BY <2>1 DEF Inv, WritesBacked, QueuesOrderly, Write
<1>1. Own(d, w.id)'
  BY <1>0, StaysOwn DEF Backed
<1>2. w.live => editor'[d] # Closed /\ editor'[d].id = w.id
  BY <1>0 DEF Backed, EditorKept
<1>3. ASSUME w.op = "create" PROVE w.id \in drawn'[d] /\ (w.applied = "no" => w.id \notin posted')
  <2>1. w.id \in drawn[d] /\ w.id \in drawn'[d] /\ (w.applied = "no" => w.id \notin posted)
    BY <1>0, <1>3, ServerStep DEF Backed
  <2>2. ASSUME NEW e \in Devices, NEW j \in DOMAIN queue[e], Apply(e, j), w.id \notin posted
        PROVE  w.id \notin posted'
    <3>1. PICK v : v = queue[e][j]
      OBVIOUS
    <3>2. /\ Backed(e, v)
          /\ posted' = posted \/ (v.op = "create" /\ posted' = posted \cup {v.id})
      BY <2>2, <3>1, AppliedWrite
    <3>3. ASSUME v.op = "create", v.id = w.id PROVE FALSE
      <4>1. e = d
        BY <1>0, <2>1, <3>2, <3>3 DEF Backed, DrawnOnce
      <4>2. j \in DOMAIN queue[d] /\ k \in DOMAIN queue[d] /\ j <= k /\ k <= j
        BY <1>0, <1>3, <3>1, <3>3, <4>1 DEF Orderly
      <4>3. j = k
        BY <1>0, <4>2
      <4> QED
        BY <2>2, <4>1, <4>3
    <3> QED
      BY <2>2, <3>2, <3>3
  <2>3. w.id \notin posted => w.id \notin posted'
    <3>1. CASE \E e \in Devices : \E j \in DOMAIN queue[e] : Apply(e, j)
      BY <3>1, <2>2
    <3> QED
      BY <3>1, ServerCases
  <2> QED
    BY <2>1, <2>3
<1>4. ASSUME w.op = "delete", w.applied = "now" PROVE Gone(d, w.id)'
  <2>1. Gone(d, w.id) /\ Own(d, w.id)
    BY <1>0, <1>4 DEF Backed
  <2>2. ASSUME NEW j \in DOMAIN queue[d], Apply(d, j),
               queue[d][j].op = "create", queue[d][j].id = w.id
        PROVE  FALSE
    <3>1. j <= k /\ j # k
      BY <1>0, <1>4, <2>2 DEF Orderly
    <3>2. j < k
      BY <1>0, <3>1
    <3>3. queue[d][j].applied = "now"
      BY <1>0, <1>4, <3>2 DEF Orderly
    <3> QED
      BY <2>2, <3>3 DEF Apply, Due
  <2> QED
    BY <1>0, <2>1, <2>2, StaysGone
<1> QED
  BY <1>1, <1>2, <1>3, <1>4 DEF Backed

LEMMA StaysOrderly ==
  ASSUME NEW q \in Seq(Write), NEW p \in Seq(Write), NEW n \in {0, 1},
         Carried(p, q, n), Orderly(q)
  PROVE  Orderly(p)
<1>1. ASSUME NEW j \in DOMAIN p, NEW k \in DOMAIN p
      PROVE  /\ j < k /\ p[k].applied = "now" => p[j].applied = "now"
             /\ p[j].op = "create" /\ p[k].id = p[j].id => j <= k
  <2>1. /\ j + n \in DOMAIN q /\ SameWrite(p[j], q[j + n])
        /\ k + n \in DOMAIN q /\ SameWrite(p[k], q[k + n])
    BY <1>1 DEF Carried
  <2>2. /\ j + n < k + n /\ q[k + n].applied = "now" => q[j + n].applied = "now"
        /\ q[j + n].op = "create" /\ q[k + n].id = q[j + n].id => j + n <= k + n
    BY <2>1 DEF Orderly
  <2>3. j \in Nat /\ k \in Nat /\ n \in Nat
    BY <1>1
  <2>4. (j < k => j + n < k + n) /\ (j + n <= k + n => j <= k)
    BY <2>3
  <2>5. \/ p[j].applied = q[j + n].applied /\ p[k].applied = q[k + n].applied
        \/ p[k].applied # "now"
    BY <1>1 DEF Carried
  <2>6. p[j].op = q[j + n].op /\ p[j].id = q[j + n].id /\ p[k].id = q[k + n].id
    BY <2>1 DEF SameWrite
  <2> QED
    BY <2>2, <2>4, <2>5, <2>6, Zenon
<1> QED
  BY <1>1 DEF Orderly

\* A write that joins a queue: nothing it holds comes after it.
LEMMA JoinsOrderly ==
  ASSUME NEW q \in Seq(Write), NEW w \in Write, Orderly(q), w.applied # "now",
         w.op = "create" => \A j \in DOMAIN q : q[j].id # w.id
  PROVE  Orderly(Append(q, w))
<1>1. PICK p : p = Append(q, w)
  OBVIOUS
<1>2. p \in Seq(Write) /\ Len(q) \in Nat
      /\ \A i \in DOMAIN p :
           \/ i \in DOMAIN q /\ p[i] = q[i] /\ i < Len(q) + 1
           \/ i = Len(q) + 1 /\ p[i] = w
  <2>1. \A i \in DOMAIN q : i < Len(q) + 1
    OBVIOUS
  <2> QED
    BY <1>1, <2>1, AppendIndex
<1>3. ASSUME NEW j \in DOMAIN p, NEW k \in DOMAIN p
      PROVE  /\ j < k /\ p[k].applied = "now" => p[j].applied = "now"
             /\ p[j].op = "create" /\ p[k].id = p[j].id => j <= k
  <2>0. j \in Nat /\ k \in Nat
    BY <1>2, <1>3
  <2>1. CASE j \in DOMAIN q /\ p[j] = q[j] /\ k \in DOMAIN q /\ p[k] = q[k]
    BY <2>1 DEF Orderly
  <2>2. CASE k = Len(q) + 1 /\ p[k] = w /\ (j < Len(q) + 1 \/ j = Len(q) + 1)
    BY <1>2, <2>0, <2>2
  <2>3. CASE j = Len(q) + 1 /\ p[j] = w /\ k \in DOMAIN q /\ p[k] = q[k] /\ k < Len(q) + 1
    <3>1. ~(j < k) /\ (w.op = "create" => p[k].id # w.id)
      BY <1>2, <2>0, <2>3
    <3> QED
      BY <2>3, <3>1, Zenon
  <2> QED
    BY <1>2, <1>3, <2>1, <2>2, <2>3, Zenon
<1> QED
  BY <1>1, <1>3, Zenon DEF Orderly

\* A queue that gains a write, backed and in its place.
LEMMA Joins ==
  ASSUME Inv, Next, NEW d \in Devices, NEW w \in Write,
         queue' = [queue EXCEPT ![d] = Append(queue[d], w)],
         \A e \in Devices : EditorKept(e), \A e \in Devices : \A k : ~Apply(e, k),
         Backed(d, w)', w.applied # "now",
         w.op = "create" => \A j \in DOMAIN queue[d] : queue[d][j].id # w.id
  PROVE  queue' \in [Devices -> Seq(Write)] /\ WritesBacked' /\ QueuesOrderly'
<1>0. queue \in [Devices -> Seq(Write)]
  BY DEF Inv, TypeOK
<1>1. /\ Append(queue[d], w) \in Seq(Write)
      /\ queue'[d] = Append(queue[d], w) /\ \A e \in Devices : e # d => queue'[e] = queue[e]
      /\ queue' \in [Devices -> Seq(Write)]
  BY <1>0, AppendIndex
<1>2. ASSUME NEW e \in Devices, NEW k \in DOMAIN queue[e], NEW v, v = queue[e][k]
      PROVE  Backed(e, v)'
  BY <1>2, StaysBacked
<1>3. ASSUME NEW e \in Devices, NEW k \in DOMAIN queue'[e], NEW v, v = queue'[e][k]
      PROVE  Backed(e, v)'
  <2>1. CASE e # d
    BY <1>1, <1>2, <1>3, <2>1
  <2>2. CASE e = d
    <3>1. (k \in DOMAIN queue[d] /\ v = queue[d][k]) \/ v = w
      BY <1>0, <1>1, <1>3, <2>2, AppendIndex
    <3> QED
      BY <1>2, <2>2, <3>1
  <2> QED
    BY <2>1, <2>2
<1>4. WritesBacked'
  BY <1>3 DEF WritesBacked
<1>5. QueuesOrderly'
  <2>1. \A e \in Devices : Orderly(queue[e])
    BY DEF Inv, QueuesOrderly
  <2>2. Orderly(Append(queue[d], w))
    BY <1>0, <2>1, JoinsOrderly
  <2>3. \A e \in Devices : Orderly(queue'[e])
    BY <1>1, <2>1, <2>2
  <2> QED
    BY <2>3 DEF QueuesOrderly, Orderly
<1> QED
  BY <1>1, <1>4, <1>5

\* The creation of an id nobody has drawn.
LEMMA PublishBacked ==
  ASSUME Inv, Next, NEW d \in Devices, NEW i \in Ids, NEW x \in Texts, Publish(d, i, x)
  PROVE  queue' \in [Devices -> Seq(Write)] /\ WritesBacked' /\ QueuesOrderly'
<1>1. PICK w : w = [op |-> "create", id |-> i, text |-> x, live |-> FALSE, applied |-> "no"]
  OBVIOUS
<1>2. w \in Write /\ w.op = "create" /\ w.id = i /\ w.live = FALSE /\ w.applied = "no"
  BY <1>1 DEF Write
<1>3. /\ queue' = [queue EXCEPT ![d] = Append(queue[d], w)]
      /\ \A e \in Devices : i \notin drawn[e]
      /\ Owner[i] = Account[d] /\ drawn' = [drawn EXCEPT ![d] = drawn[d] \cup {i}]
      /\ UNCHANGED <<board, posted, editor>>
  BY <1>1 DEF Publish
<1>4. PostedDrawn /\ DrawnOnce /\ drawn \in [Devices -> SUBSET Ids] /\ queue[d] \in Seq(Write)
  BY DEF Inv, TypeOK
<1>5. i \notin posted /\ i \in drawn'[d]
  BY <1>3, <1>4 DEF PostedDrawn
<1>6. Backed(d, w)'
  BY <1>2, <1>3, <1>5 DEF Backed, Own
<1>7. ASSUME NEW j \in DOMAIN queue[d] PROVE queue[d][j].id # i
  <2>1. Own(d, queue[d][j].id)
    BY DEF Inv, WritesBacked, Backed
  <2> QED
    BY <1>3, <1>5, <2>1 DEF Own
<1>8. ASSUME NEW e \in Devices, NEW k PROVE ~Apply(e, k)
  <2>1. Apply(e, k) => UNCHANGED drawn
    BY DEF Apply
  <2> QED
    BY <1>3, <1>5, <2>1
<1>9. \A e \in Devices : EditorKept(e)
  BY <1>3 DEF EditorKept
<1> QED
  BY <1>2, <1>3, <1>6, <1>7, <1>8, <1>9, Joins

LEMMA EnqueueBacked ==
  ASSUME Inv, Next, NEW d \in Devices, NEW op \in {"update", "delete"}, Enqueue(d, op),
         editor[d] # Closed, EditorChange(d), UNCHANGED server
  PROVE  queue' \in [Devices -> Seq(Write)] /\ WritesBacked' /\ QueuesOrderly'
<1>1. PICK w : w = [op |-> op, id |-> editor[d].id, text |-> editor[d].text,
                    live |-> TRUE, applied |-> "no"]
  OBVIOUS
<1>2. editor[d] \in Editor
  BY EditorType DEF Inv
<1>3. w \in Write /\ w.op = op /\ w.id = editor[d].id /\ w.applied = "no"
  BY <1>1, <1>2 DEF Write, Editor
<1>4. queue' = [queue EXCEPT ![d] = Append(queue[d], w)] /\ writes' = writes + 1 /\ writes \in Nat
  BY <1>1 DEF Enqueue, Inv, TypeOK
<1>5. \A e \in Devices : EditorKept(e)
  BY ChangeKeeps DEF Inv
<1>6. Own(d, w.id)'
  <2>1. Own(d, w.id)
    BY <1>3 DEF Inv, EditorsSound, EditorSound
  <2> QED
    BY <2>1, StaysOwn
<1>7. Backed(d, w)'
  BY <1>3, <1>5, <1>6 DEF Backed, EditorKept
<1>8. ASSUME NEW e \in Devices, NEW k PROVE ~Apply(e, k)
  <2>1. Apply(e, k) => writes' = writes
    BY DEF Apply
  <2> QED
    BY <1>4, <2>1
<1> QED
  BY <1>3, <1>4, <1>5, <1>7, <1>8, Joins

LEMMA ApplyBacked ==
  ASSUME Inv, Next, NEW d \in Devices, NEW k \in DOMAIN queue[d], Apply(d, k)
  PROVE  queue' \in [Devices -> Seq(Write)] /\ WritesBacked' /\ QueuesOrderly'
<1>0. queue \in [Devices -> Seq(Write)] /\ queue[d] \in Seq(Write)
  BY DEF Inv, TypeOK
<1>1. PICK p : p = [queue[d] EXCEPT ![k].applied = "now"]
  OBVIOUS
<1>2. PICK x : x = queue[d][k]
  OBVIOUS
<1>3. /\ p \in Seq(Write) /\ DOMAIN p = DOMAIN queue[d]
      /\ \A i \in DOMAIN p : i # k => p[i] = queue[d][i]
      /\ p[k].op = x.op /\ p[k].id = x.id /\ p[k].live = x.live /\ p[k].applied = "now"
  BY <1>0, <1>1, <1>2, AppliedIndex
<1>4. queue' = [queue EXCEPT ![d] = p] /\ UNCHANGED editor
  BY <1>0, <1>1 DEF Apply
<1>5. /\ queue' \in [Devices -> Seq(Write)] /\ queue'[d] = p
      /\ \A e \in Devices : e # d => queue'[e] = queue[e]
  BY <1>0, <1>3, <1>4
<1>6. \A e \in Devices : EditorKept(e)
  BY <1>4 DEF EditorKept
<1>7. ASSUME NEW e \in Devices, NEW j \in DOMAIN queue[e], NEW v, v = queue[e][j],
             e # d \/ j # k
      PROVE  Backed(e, v)'
  <2>1. ~Apply(e, j)
    <3>1. ASSUME Apply(e, j) PROVE queue' = [queue EXCEPT ![e][j].applied = "now"] /\ v.applied # "now"
      BY <1>7, <3>1 DEF Apply, Due
    <3>2. ASSUME Apply(e, j), e # d PROVE FALSE
      <4>1. queue'[e] = queue[e]
        BY <1>5, <3>2
      <4>2. queue'[e] = [queue[e] EXCEPT ![j].applied = "now"] /\ queue[e] \in Seq(Write)
        BY <1>0, <3>1, <3>2
      <4>3. queue'[e][j].applied = "now"
        BY <1>7, <4>2, AppliedIndex
      <4> QED
        BY <1>7, <3>1, <3>2, <4>1, <4>3
    <3>3. ASSUME Apply(e, j), e = d PROVE FALSE
      <4>1. queue'[d][j] = v
        BY <1>3, <1>5, <1>7, <3>3
      <4>2. queue'[d] = [queue[d] EXCEPT ![j].applied = "now"]
        BY <1>0, <3>1, <3>3
      <4>3. queue'[d][j].applied = "now"
        BY <1>0, <1>7, <3>3, <4>2, AppliedIndex
      <4> QED
        BY <3>1, <3>3, <4>1, <4>3
    <3> QED
      BY <3>2, <3>3
  <2> QED
    BY <1>6, <1>7, <2>1, StaysBacked
<1>8. ASSUME NEW v, v = p[k] PROVE Backed(d, v)'
  <2>1. /\ x \in Write /\ Backed(d, x) /\ UNCHANGED <<drawn, editor>>
        /\ x.op = "delete" => board' = [board EXCEPT ![x.id] = NoDoc]
    BY <1>2, AppliedWrite
  <2>2. Own(d, x.id)'
    BY <2>1, StaysOwn DEF Backed
  <2>3. x.op = "delete" => Gone(d, x.id)'
    <3>1. x.id \in Ids /\ board \in [Ids -> Document \cup {NoDoc}]
      BY <2>1 DEF Write, Inv, TypeOK
    <3> QED
      BY <2>1, <3>1 DEF Gone
  <2> QED
    BY <1>3, <1>8, <2>1, <2>2, <2>3 DEF Backed
<1>9. ASSUME NEW e \in Devices, NEW j \in DOMAIN queue'[e], NEW v, v = queue'[e][j]
      PROVE  Backed(e, v)'
  <2>1. CASE e # d
    BY <1>5, <1>7, <1>9, <2>1
  <2>2. CASE e = d /\ j # k
    <3>1. j \in DOMAIN queue[d] /\ v = queue[d][j]
      BY <1>3, <1>5, <1>9, <2>2
    <3> QED
      BY <1>7, <2>2, <3>1
  <2>3. CASE e = d /\ j = k
    BY <1>5, <1>8, <1>9, <2>3
  <2> QED
    BY <2>1, <2>2, <2>3
<1>10. WritesBacked'
  BY <1>9 DEF WritesBacked
<1>11. Orderly(p)
  <2>1. Orderly(queue[d]) /\ \A j \in 1..(k - 1) : queue[d][j].applied = "now"
    BY DEF Inv, QueuesOrderly, Apply, Due
  <2>2. \A j \in DOMAIN queue[d] : j < k => j \in 1..(k - 1)
    BY <1>0
  <2>3. \A j \in DOMAIN p : p[j].op = queue[d][j].op /\ p[j].id = queue[d][j].id
    BY <1>2, <1>3
  <2>4. ASSUME NEW j \in DOMAIN p, NEW m \in DOMAIN p, j < m, p[m].applied = "now"
        PROVE  p[j].applied = "now"
    <3>1. CASE m = k
      <4>1. j \in DOMAIN queue[d] /\ j # k
        BY <1>0, <1>3, <2>4, <3>1
      <4> QED
        BY <1>3, <2>1, <2>2, <2>4, <3>1, <4>1
    <3>2. CASE m # k /\ j # k
      BY <1>3, <2>1, <2>4, <3>2 DEF Orderly
    <3>3. CASE j = k
      BY <1>3, <3>3
    <3> QED
      BY <3>1, <3>2, <3>3
  <2>5. \A j, m \in DOMAIN p : p[j].op = "create" /\ p[m].id = p[j].id => j <= m
    BY <1>3, <2>1, <2>3 DEF Orderly
  <2> QED
    BY <2>4, <2>5 DEF Orderly
<1>12. QueuesOrderly'
  <2>1. \A e \in Devices : Orderly(queue'[e])
    BY <1>5, <1>11 DEF Inv, QueuesOrderly
  <2> QED
    BY <2>1 DEF QueuesOrderly, Orderly
<1> QED
  BY <1>5, <1>10, <1>12

LEMMA CarriedBacked ==
  ASSUME Inv, Next, NEW d \in Devices, QueueCarried(d)
  PROVE  queue' \in [Devices -> Seq(Write)] /\ WritesBacked' /\ QueuesOrderly'
<1>0. /\ queue \in [Devices -> Seq(Write)] /\ queue[d] \in Seq(Write)
      /\ editor \in [Devices -> {Closed} \cup Editor]
  BY DEF Inv, TypeOK
<1>1. PICK p \in Seq(Write), n \in {0, 1} :
        /\ queue' = [queue EXCEPT ![d] = p]
        /\ Carried(p, queue[d], n)
        /\ \/ EditorCloses(d) /\ \A i \in DOMAIN p : ~p[i].live
           \/ editor' = editor
           \/ EditorChange(d)
  BY DEF QueueCarried
<1>2. /\ queue' \in [Devices -> Seq(Write)] /\ queue'[d] = p
      /\ \A e \in Devices : e # d => queue'[e] = queue[e]
  BY <1>0, <1>1
<1>3. /\ UNCHANGED <<board, posted, drawn, revived>>
      /\ \A e \in Devices : e # d => EditorKept(e)
  <2>1. CASE EditorCloses(d)
    BY <1>0, <2>1 DEF EditorCloses, EditorKept, QueueCarried, server
  <2>2. CASE editor' = editor
    BY <2>2 DEF EditorKept, QueueCarried, server
  <2>3. CASE EditorChange(d)
    BY <2>3, ChangeKeeps DEF QueueCarried, server, Inv
  <2> QED
    BY <1>1, <2>1, <2>2, <2>3
<1>4. (\A i \in DOMAIN p : ~p[i].live) \/ EditorKept(d)
  <2>1. editor' = editor => EditorKept(d)
    BY DEF EditorKept
  <2>2. EditorChange(d) => EditorKept(d)
    BY ChangeKeeps DEF Inv
  <2> QED
    BY <1>1, <2>1, <2>2
\* No server variable changes, so what was backed by them still is.
<1>5. ASSUME NEW e \in Devices, NEW k \in DOMAIN queue[e], NEW v,
             SameWrite(v, queue[e][k]), v.applied \in {queue[e][k].applied, "before"},
             v.live => EditorKept(e)
      PROVE  Backed(e, v)'
  <2>1. PICK w : w = queue[e][k]
    OBVIOUS
  <2>2. Backed(e, w) /\ SameWrite(v, w) /\ v.applied \in {w.applied, "before"}
    BY <1>5, <2>1 DEF Inv, WritesBacked
  <2>3. Own(e, v.id)' /\ (v.live => editor'[e] # Closed /\ editor'[e].id = v.id)
    BY <1>3, <1>5, <2>2 DEF Backed, SameWrite, Own, EditorKept
  <2>4. v.op = "create" => v.id \in drawn'[e] /\ (v.applied = "no" => v.id \notin posted')
    BY <1>3, <2>2 DEF Backed, SameWrite
  <2>5. v.op = "delete" /\ v.applied = "now" => Gone(e, v.id)'
    BY <1>3, <2>2 DEF Backed, SameWrite, Gone
  <2> QED
    BY <2>3, <2>4, <2>5 DEF Backed
<1>6. ASSUME NEW e \in Devices, e # d, NEW k \in DOMAIN queue'[e], NEW v, v = queue'[e][k]
      PROVE  Backed(e, v)'
  <2>1. queue'[e] = queue[e] /\ SameWrite(v, v) /\ EditorKept(e)
    BY <1>2, <1>3, <1>6 DEF SameWrite
  <2> QED
    BY <1>5, <1>6, <2>1
<1>7. ASSUME NEW k \in DOMAIN queue'[d], NEW v, v = queue'[d][k] PROVE Backed(d, v)'
  <2>1. v = p[k] /\ k \in DOMAIN p /\ v \in Write
    BY <1>2, <1>7
  <2>2. k + n \in DOMAIN queue[d] /\ SameWrite(v, queue[d][k + n])
    BY <1>1, <2>1 DEF Carried
  <2>3. v.applied = queue[d][k + n].applied \/ v.applied # "now"
    BY <1>1, <2>1 DEF Carried
  <2>4. v.applied \in {"no", "now", "before"}
    BY <2>1 DEF Write
  <2>5. v.applied \in {queue[d][k + n].applied, "before"}
    BY <2>2, <2>3, <2>4 DEF SameWrite
  <2>6. v.live => EditorKept(d)
    BY <1>4, <2>1
  <2> QED
    BY <1>5, <2>2, <2>5, <2>6
<1>8. WritesBacked'
  BY <1>6, <1>7 DEF WritesBacked
<1>9. QueuesOrderly'
  <2>1. \A e \in Devices : Orderly(queue[e])
    BY DEF Inv, QueuesOrderly
  <2>2. Orderly(p)
    BY <1>0, <1>1, <2>1, StaysOrderly
  <2>3. \A e \in Devices : Orderly(queue'[e])
    BY <1>2, <2>1, <2>2
  <2> QED
    BY <2>3 DEF QueuesOrderly, Orderly
<1> QED
  BY <1>2, <1>8, <1>9

LEMMA NextQueues ==
  ASSUME Inv, Next
  PROVE  queue' \in [Devices -> Seq(Write)] /\ WritesBacked' /\ QueuesOrderly'
<1>1. ASSUME UNCHANGED <<server, queue>>, editor' = editor \/ \E d \in Devices : EditorChange(d)
      PROVE  queue' \in [Devices -> Seq(Write)] /\ WritesBacked' /\ QueuesOrderly'
  <2>1. \A e \in Devices : EditorKept(e)
    BY <1>1, ChangeKeeps DEF EditorKept, Inv
  <2>2. UNCHANGED <<board, posted, drawn, revived, queue>>
    BY <1>1 DEF server
  <2>3. ASSUME NEW d \in Devices, NEW v, Backed(d, v) PROVE Backed(d, v)'
    BY <2>1, <2>2, <2>3 DEF Backed, Own, Gone, EditorKept
  <2>4. WritesBacked'
    BY <2>2, <2>3 DEF Inv, WritesBacked
  <2> QED
    BY <2>2, <2>4 DEF Inv, TypeOK, QueuesOrderly, Orderly
<1> QED
  BY <1>1, QueueStep, PublishBacked, EnqueueBacked, ApplyBacked, CarriedBacked DEF Inv

(***************************************************************************)
(* The lists, the editors and what they say.                               *)
(***************************************************************************)
LEMMA NextRowsOwn ==
  ASSUME Inv, Next
  PROVE  list' \in [Devices -> {Closed} \cup SUBSET Row] /\ RowsOwn'
<1>1. list \in [Devices -> {Closed} \cup SUBSET Row]
  BY DEF Inv, TypeOK
<1>2. ASSUME NEW d \in Devices, NEW r \in MyRows(d) PROVE r \in Row /\ Own(d, r.id)
  <2>1. /\ r \in Row /\ r.id \in Ids /\ ~Hidden(d, r.id)
        /\ Queued(d, "create", r.id) \/ board[r.id].owner = Account[d]
    BY <1>2 DEF MyRows, Row
  <2>2. CASE Queued(d, "create", r.id)
    <3>1. PICK k \in DOMAIN queue[d] : queue[d][k].id = r.id
      BY <2>2 DEF Queued, ToSet
    <3> QED
      BY <2>1, <3>1 DEF Inv, WritesBacked, Backed
  <2>3. CASE ~Queued(d, "create", r.id)
    BY <2>1, <2>3 DEF Hidden, Inv, PostedHasOwner, Own
  <2> QED
    BY <2>1, <2>2, <2>3
<1>3. ASSUME NEW d \in Devices, NEW rows \in {Closed} \cup SUBSET Row,
             rows = Closed \/ (\A r \in rows : Own(d, r.id)),
             list' = [list EXCEPT ![d] = rows]
      PROVE  list' \in [Devices -> {Closed} \cup SUBSET Row] /\ RowsOwn'
  <2>1. \A e \in Devices : e # d => list'[e] = list[e]
    BY <1>1, <1>3
  <2>2. list'[d] = rows
    BY <1>1, <1>3
  <2>3. \A e \in Devices : \A i : Own(e, i) => Own(e, i)'
    BY StaysOwn
  <2> QED
    BY <1>1, <1>3, <2>1, <2>2, <2>3 DEF RowsOwn, Inv
<1>4. CASE list' = list
  <2>1. \A e \in Devices : \A i : Own(e, i) => Own(e, i)'
    BY StaysOwn
  <2> QED
    BY <1>1, <1>4, <2>1 DEF RowsOwn, Inv
<1> QED
  BY <1>2, <1>3, <1>4, ListStep

\* An editor that is as it was says nothing that has become untrue.
LEMMA StaysSound ==
  ASSUME Inv, Next, NEW d \in Devices, NEW e \in Editor, EditorSound(d, e)
  PROVE  EditorSound(d, e)'
<1>1. Own(d, e.id) /\ Own(d, e.id)' /\ e.id \in Ids
  BY StaysOwn DEF EditorSound, Editor
<1>2. ASSUME e.modal = "deleted" PROVE Gone(d, e.id)'
  <2>1. Gone(d, e.id) /\ ~MadeBy(d, e.id)
    BY <1>2 DEF EditorSound
  <2> QED
    BY <1>1, <2>1, StaysGone DEF MadeBy
<1>3. ASSUME e.modal = "deleted" PROVE ~MadeBy(d, e.id)'
  <2>1. ~MadeBy(d, e.id)
    BY <1>3 DEF EditorSound
  <2>2. ASSUME NEW x \in Texts, Publish(d, e.id, x) PROVE FALSE
    <3>1. \A c \in Devices : e.id \notin drawn[c]
      BY <2>2 DEF Publish
    <3> QED
      BY <1>1, <3>1 DEF Own, Inv, PostedDrawn
  <2> QED
    BY <2>1, <2>2, MadeStep
<1> QED
  BY <1>1, <1>2, <1>3 DEF EditorSound

\* The delete an answer has come for is the last this queue has of its document.
LEMMA HeadGone ==
  ASSUME Inv, NEW d \in Devices, Sent(d), Head(queue[d]).op = "delete",
         Head(queue[d]).applied = "now", Head(queue[d]).live
  PROVE  /\ editor[d] # Closed /\ editor[d].id = Head(queue[d]).id
         /\ Gone(d, editor[d].id) /\ ~MadeBy(d, editor[d].id)
<1>1. queue[d] \in Seq(Write) /\ queue[d] # <<>>
  BY DEF Inv, TypeOK, Sent
<1>2. 1 \in DOMAIN queue[d] /\ Head(queue[d]) = queue[d][1]
  BY <1>1, TailCarried
<1>3. Backed(d, queue[d][1]) /\ Orderly(queue[d])
  BY <1>2 DEF Inv, WritesBacked, QueuesOrderly
<1>4. editor[d] # Closed /\ editor[d].id = Head(queue[d]).id /\ Gone(d, editor[d].id)
  BY <1>2, <1>3 DEF Backed
<1>5. ASSUME NEW k \in DOMAIN queue[d], queue[d][k].op = "create", queue[d][k].id = editor[d].id
      PROVE  FALSE
  <2>1. k <= 1 /\ k # 1
    BY <1>2, <1>3, <1>4, <1>5 DEF Orderly
  <2>2. k \in Nat /\ k >= 1
    BY <1>1, <1>5
  <2> QED
    BY <2>1, <2>2
<1> QED
  BY <1>4, <1>5 DEF MadeBy

LEMMA NextEditors ==
  ASSUME Inv, Next
  PROVE  editor' \in [Devices -> {Closed} \cup Editor] /\ EditorsSound'
<1>0. editor \in [Devices -> {Closed} \cup Editor] /\ EditorsSound /\ RowsOwn
  BY DEF Inv, TypeOK
<1>1. ASSUME NEW d \in Devices, NEW e \in Editor, editor'[d] = e, EditorSound(d, e)
      PROVE  EditorSound(d, editor[d])'
  BY <1>1, StaysSound DEF EditorSound, Own, Gone, MadeBy
<1>2. ASSUME NEW d \in Devices, editor[d] # Closed, editor'[d] = editor[d]
      PROVE  EditorSound(d, editor[d])'
  BY <1>0, <1>1, <1>2 DEF EditorsSound
<1>3. ASSUME NEW d \in Devices, EditorChange(d) PROVE EditorSound(d, editor[d])'
  <2>1. CASE \E r \in Row :
               /\ list[d] # Closed /\ r \in list[d]
               /\ editor' = [editor EXCEPT ![d] = [id |-> r.id, text |-> r.text, modal |-> "none"]]
    <3>1. PICK r \in Row :
            /\ Own(d, r.id)
            /\ editor'[d] = [id |-> r.id, text |-> r.text, modal |-> "none"]
      BY <1>0, <2>1 DEF RowsOwn
    <3>2. PICK e : e = [id |-> r.id, text |-> r.text, modal |-> "none"]
      OBVIOUS
    <3>3. e \in Editor /\ EditorSound(d, e)
      BY <3>1, <3>2 DEF Row, Editor, Modals, EditorSound
    <3> QED
      BY <1>1, <3>1, <3>2, <3>3
  <2>2. ASSUME editor[d] # Closed, NEW e \in Editor, editor'[d] = e, e.id = editor[d].id,
               \/ e.modal # "deleted" \/ e.modal = editor[d].modal
               \/ Gone(d, e.id) /\ ~MadeBy(d, e.id)
        PROVE  EditorSound(d, editor[d])'
    <3>1. EditorSound(d, e)
      BY <1>0, <2>2 DEF EditorsSound, EditorSound
    <3> QED
      BY <1>1, <2>2, <3>1
  <2>3. ASSUME AtEditor(d), NEW x \in Texts, editor' = [editor EXCEPT ![d].text = x]
        PROVE  EditorSound(d, editor[d])'
    <3>1. editor'[d] = [editor[d] EXCEPT !.text = x] /\ editor[d] # Closed
      BY <1>0, <2>3 DEF AtEditor
    <3>2. editor'[d] \in Editor /\ editor'[d].id = editor[d].id /\ editor'[d].modal = editor[d].modal
      BY <3>1, EditorType DEF Inv
    <3>3. PICK e : e = editor'[d]
      OBVIOUS
    <3> QED
      BY <2>2, <3>1, <3>2, <3>3
  <2>4. ASSUME editor[d] # Closed, NEW m \in {"none", "edited", "confirm"},
               editor' = [editor EXCEPT ![d].modal = m]
        PROVE  EditorSound(d, editor[d])'
    <3>1. editor'[d] = [editor[d] EXCEPT !.modal = m] /\ m \in Modals /\ m # "deleted"
      BY <1>0, <2>4 DEF Modals
    <3>0. editor[d] \in Editor
      BY <2>4, EditorType DEF Inv
    <3>2. editor'[d] \in Editor /\ editor'[d].id = editor[d].id /\ editor'[d].modal = m
      BY <3>0, <3>1 DEF Editor
    <3>3. PICK e : e = editor'[d]
      OBVIOUS
    <3> QED
      BY <2>2, <2>4, <3>1, <3>2, <3>3
  <2>5. ASSUME editor[d] # Closed, Sent(d), Head(queue[d]).op = "delete",
               Head(queue[d]).applied = "now", Head(queue[d]).live,
               editor' = [editor EXCEPT ![d].modal = "deleted"]
        PROVE  EditorSound(d, editor[d])'
    <3>1. editor'[d] = [editor[d] EXCEPT !.modal = "deleted"] /\ "deleted" \in Modals
      BY <1>0, <2>5 DEF Modals
    <3>2. editor'[d] \in Editor /\ editor'[d].id = editor[d].id
      BY <2>5, <3>1, EditorType DEF Inv
    <3>3. PICK e : e = editor'[d]
      OBVIOUS
    <3>4. Gone(d, e.id) /\ ~MadeBy(d, e.id)
      BY <2>5, <3>2, <3>3, HeadGone
    <3> QED
      BY <2>2, <2>5, <3>2, <3>3, <3>4
  <2> QED
    BY <1>3, <2>1, <2>3, <2>4, <2>5 DEF EditorChange
<1>4. ASSUME editor' \in [Devices -> {Closed} \cup Editor],
             \A d \in Devices : editor'[d] \in {Closed, editor[d]} \/ EditorChange(d)
      PROVE  EditorsSound'
  <2>1. ASSUME NEW d \in Devices, editor'[d] # Closed PROVE EditorSound(d, editor[d])'
    BY <1>2, <1>3, <1>4, <2>1
  <2> QED
    BY <2>1 DEF EditorsSound
<1>5. CASE editor' = editor
  BY <1>0, <1>4, <1>5
<1>6. ASSUME NEW d \in Devices, EditorChange(d)
      PROVE  editor' \in [Devices -> {Closed} \cup Editor] /\ EditorsSound'
  <2>1. /\ editor' \in [Devices -> {Closed} \cup Editor]
        /\ \A e \in Devices : e # d => editor'[e] = editor[e]
    BY <1>6, ChangeKeeps DEF Inv
  <2> QED
    BY <1>4, <1>6, <2>1
<1>7. ASSUME NEW d \in Devices, EditorCloses(d)
      PROVE  editor' \in [Devices -> {Closed} \cup Editor] /\ EditorsSound'
  <2>1. /\ editor' \in [Devices -> {Closed} \cup Editor] /\ editor'[d] = Closed
        /\ \A e \in Devices : e # d => editor'[e] = editor[e]
    BY <1>0, <1>7 DEF EditorCloses
  <2> QED
    BY <1>4, <2>1
<1>8. \/ editor' = editor
      \/ \E d \in Devices : EditorChange(d) \/ EditorCloses(d)
  BY QueueStep DEF Inv, Publish, Apply, QueueCarried
<1> QED
  BY <1>5, <1>6, <1>7, <1>8

LEMMA NextOthers ==
  ASSUME Inv, Next
  PROVE  /\ asked' \in [Devices -> BOOLEAN]
         /\ writes' \in 0..MaxWrites
         /\ lostEdit' \in BOOLEAN
<1>1. asked \in [Devices -> BOOLEAN] /\ writes \in 0..MaxWrites /\ lostEdit \in BOOLEAN
  BY DEF Inv, TypeOK
<1>2. \/ asked' = asked
      \/ \E d \in Devices, b \in BOOLEAN : asked' = [asked EXCEPT ![d] = b]
  BY DEF Next, UserStep, NetworkStep, Publish, OpenList, CloseList, Refresh, Load,
         LoadFailed, SelectRow, Type, TapEdit, TapDelete, ConfirmDelete, DismissAlert,
         CloseEditor, Kill, Apply, ConnectionBreaks, Acknowledge, Refuse
<1>3. writes' = writes \/ (writes < MaxWrites /\ writes' = writes + 1)
  BY DEF Next, UserStep, NetworkStep, Publish, OpenList, CloseList, Refresh, Load,
         LoadFailed, SelectRow, Type, TapEdit, TapDelete, ConfirmDelete, DismissAlert,
         CloseEditor, Kill, Apply, ConnectionBreaks, Acknowledge, Refuse, Enqueue
<1>4. lostEdit' = lostEdit \/ lostEdit' \in BOOLEAN
  <2>1. ASSUME NEW d \in Devices, Refuse(d) PROVE lostEdit' \in BOOLEAN
    <3>1. lostEdit' = (lostEdit \/ Vain(Head(queue[d])))
      BY <2>1 DEF Refuse
    <3> QED
      BY <3>1, Zenon
  <2>2. Next /\ ~(\E d \in Devices : Refuse(d)) => lostEdit' = lostEdit
    BY DEF Next, UserStep, NetworkStep, Publish, OpenList, CloseList, Refresh, Load,
           LoadFailed, SelectRow, Type, TapEdit, TapDelete, ConfirmDelete, DismissAlert,
           CloseEditor, Kill, Apply, ConnectionBreaks, Acknowledge
  <2> QED
    BY <2>1, <2>2
<1> QED
  BY <1>1, <1>2, <1>3, <1>4, AnnouncementsAssumption

-----------------------------------------------------------------------------
LEMMA NextInv == Inv /\ [Next]_vars => Inv'
<1> SUFFICES ASSUME Inv, [Next]_vars PROVE Inv'
  OBVIOUS
<1>1. CASE Next
  <2>1. TypeOK'
    BY <1>1, ServerStep, NextQueues, NextRowsOwn, NextEditors, NextOthers DEF TypeOK
  <2> QED
    BY <1>1, <2>1, ServerStep, NextQueues, NextRowsOwn, NextEditors DEF Inv
<1>2. CASE UNCHANGED vars
  <2>1. UNCHANGED <<board, posted, drawn, revived, list, asked, editor, queue, writes, lostEdit>>
    BY <1>2 DEF vars
  <2>2. TypeOK' /\ DrawnOnce' /\ PostedDrawn' /\ PostedHasOwner'
    BY <2>1 DEF Inv, TypeOK, DrawnOnce, PostedDrawn, PostedHasOwner
  <2>3. RowsOwn' /\ EditorsSound'
    BY <2>1 DEF Inv, RowsOwn, EditorsSound, EditorSound, Own, Gone, MadeBy
  <2>4. WritesBacked' /\ QueuesOrderly'
    BY <2>1 DEF Inv, WritesBacked, Backed, Own, Gone, QueuesOrderly, Orderly
  <2> QED
    BY <2>2, <2>3, <2>4 DEF Inv
<1> QED
  BY <1>1, <1>2

LEMMA InvHolds == Spec => []Inv
BY InitInv, NextInv, PTL DEF Spec

\* Every variable keeps its type, for any devices, accounts, texts and ids; in
\* particular an open editor always names a document (myPetID).
THEOREM TypesHold == Spec => []TypeOK
<1>1. Inv => TypeOK
  BY DEF Inv
<1> QED
  BY <1>1, InvHolds, PTL

\* Whatever stale rows, editors and queues the devices hold, a deleted announcement
\* comes back only when the device that published it repeats the creation, having
\* lost the answer (addDocument, updateData, delete).
THEOREM OnlyRepeatsReviveHolds == Spec => OnlyRepeatsRevive
<1>1. Inv /\ [Next]_vars =>
        [\A i \in posted : board[i] = NoDoc /\ board'[i] # NoDoc =>
           \E d \in Devices : /\ i \in drawn[d]
                              /\ \E w \in ToSet(queue[d]) :
                                   w.op = "create" /\ w.id = i /\ w.applied = "before"]_vars
  BY RevivalStep
<1> QED
  BY <1>1, InvHolds, PTL DEF Spec, OnlyRepeatsRevive

\* Only a device of the owner's account makes, changes or deletes an announcement:
\* the owner filter of getMyPetsData carries through rows, editors and writes.
THEOREM OnlyOwnersChangeHolds == Spec => OnlyOwnersChange
<1>1. Inv /\ [Next]_vars =>
        [\A i \in Ids : board'[i] # board[i] =>
           \E d \in Devices : /\ Account[d] = Owner[i]
                              /\ \E w \in ToSet(queue[d]) : w.id = i]_vars
  BY OwnersStep
<1> QED
  BY <1>1, InvHolds, PTL DEF Spec, OnlyOwnersChange

\* "Запись удалена успешно" is never shown of an announcement that is there, unless
\* another device has repeated its creation since it was deleted; never, on the
\* device that published it (showSuccessDeleteAlert).
THEOREM DeletedMeansGoneHolds == Spec => []DeletedMeansGone
<1>1. Inv => DeletedMeansGone
  BY DEF Inv, EditorsSound, EditorSound, Gone, DeletedMeansGone
<1> QED
  BY <1>1, InvHolds, PTL

-----------------------------------------------------------------------------
(***************************************************************************)
(* The promise to the owner of an announcement.                            *)
(***************************************************************************)
Order(w) == [op |-> w.op, id |-> w.id, text |-> w.text]

OrdersOf(q) == {Order(w) : w \in ToSet(q)}

Orders == [d \in Devices |-> OrdersOf(queue[d])]

\* e is an editor, or Closed.
ReportOf(e) == IF e # Closed /\ e.modal = "deleted" THEN {e.id} ELSE {}

Reported == [d \in Devices |-> ReportOf(editor[d])]

LEMMA OrdersChange ==
  ASSUME TypeOK, NEW d \in Devices, NEW q, queue' = [queue EXCEPT ![d] = q]
  PROVE  Orders' = [Orders EXCEPT ![d] = OrdersOf(q)] /\ Orders[d] = OrdersOf(queue[d])
<1>1. /\ queue'[d] = q
      /\ \A e \in Devices : e # d => queue'[e] = queue[e]
  BY DEF TypeOK
<1>2. \A e \in Devices : OrdersOf(queue'[e]) = IF e = d THEN OrdersOf(q) ELSE OrdersOf(queue[e])
  BY <1>1
<1>3. Orders' = [e \in Devices |-> OrdersOf(queue'[e])]
  BY Zenon DEF Orders
<1>4. Orders = [e \in Devices |-> OrdersOf(queue[e])]
  BY Zenon DEF Orders
<1> QED
  BY <1>2, <1>3, <1>4

LEMMA ReportedChange ==
  ASSUME TypeOK, NEW d \in Devices, NEW e, editor' = [editor EXCEPT ![d] = e]
  PROVE  Reported' = [Reported EXCEPT ![d] = ReportOf(e)] /\ Reported[d] = ReportOf(editor[d])
<1>1. /\ editor'[d] = e
      /\ \A c \in Devices : c # d => editor'[c] = editor[c]
  BY DEF TypeOK
<1>2. \A c \in Devices : ReportOf(editor'[c]) = IF c = d THEN ReportOf(e) ELSE ReportOf(editor[c])
  BY <1>1
<1>3. Reported' = [c \in Devices |-> ReportOf(editor'[c])]
  BY Zenon DEF Reported
<1>4. Reported = [c \in Devices |-> ReportOf(editor[c])]
  BY Zenon DEF Reported
<1> QED
  BY <1>2, <1>3, <1>4

\* Who hears of a write, and whether it is sent again, is no part of the order.
LEMMA SameOrders ==
  ASSUME NEW q \in Seq(Write), NEW p \in Seq(Write), DOMAIN p = DOMAIN q,
         \A i \in DOMAIN q : SameWrite(p[i], q[i])
  PROVE  OrdersOf(p) = OrdersOf(q)
<1>1. \A i \in DOMAIN q : Order(p[i]) = Order(q[i])
  BY DEF SameWrite, Order
<1>2. OrdersOf(p) = {Order(p[j]) : j \in DOMAIN p} /\ OrdersOf(q) = {Order(q[j]) : j \in DOMAIN q}
  BY DEF OrdersOf, ToSet
<1> QED
  BY <1>1, <1>2

LEMMA OrphansOrders ==
  ASSUME NEW q \in Seq(Write)
  PROVE  /\ OrdersOf(Orphaned(q)) = OrdersOf(q) /\ OrdersOf(SentAgain(q)) = OrdersOf(q)
         /\ OrdersOf(SentAgain(Orphaned(q))) = OrdersOf(q)
<1>1. ASSUME NEW p \in Seq(Write) PROVE OrdersOf(SentAgain(p)) = OrdersOf(p)
  BY <1>1, SameCarried, SentAgainCarried, SameOrders
<1>2. Orphaned(q) \in Seq(Write) /\ DOMAIN Orphaned(q) = DOMAIN q
      /\ \A i \in DOMAIN q : SameWrite(Orphaned(q)[i], q[i])
  <2>1. \A i \in DOMAIN q : i + 0 = i
    OBVIOUS
  <2> QED
    BY <2>1, OrphanedCarried DEF Carried
<1>3. OrdersOf(Orphaned(q)) = OrdersOf(q)
  BY <1>2, SameOrders
<1> QED
  BY <1>1, <1>2, <1>3

\* Nothing is reported by an editor that shows another alert, or none.
LEMMA ModalReport ==
  ASSUME TypeOK, NEW d \in Devices, editor[d] # Closed, editor[d].modal # "deleted"
  PROVE  /\ \A m \in {"none", "edited", "confirm"} :
              editor' = [editor EXCEPT ![d].modal = m] => Reported' = Reported
         /\ \A x \in Texts : editor' = [editor EXCEPT ![d].text = x] => Reported' = Reported
<1>1. ReportOf(editor[d]) = {}
  BY DEF ReportOf
<1>2. ASSUME NEW e, e.modal # "deleted", editor' = [editor EXCEPT ![d] = e]
      PROVE  Reported' = Reported
  <2>1. ReportOf(e) = {}
    BY <1>2 DEF ReportOf
  <2>2. Reported' = [Reported EXCEPT ![d] = {}] /\ Reported[d] = {}
    BY <1>1, <1>2, <2>1, ReportedChange
  <2> QED
    BY <2>2 DEF Reported
<1>3. ASSUME NEW m \in {"none", "edited", "confirm"}, editor' = [editor EXCEPT ![d].modal = m]
      PROVE  Reported' = Reported
  <2>1. PICK e : e = [editor[d] EXCEPT !.modal = m]
    OBVIOUS
  <2>2. m \in Modals /\ m # "deleted"
    BY DEF Modals
  <2>3. e.modal # "deleted"
    BY <2>1, <2>2, EditorType
  <2>4. editor' = [editor EXCEPT ![d] = e]
    BY <1>3, <2>1
  <2> QED
    BY <1>2, <2>3, <2>4
<1>4. ASSUME NEW x \in Texts, editor' = [editor EXCEPT ![d].text = x]
      PROVE  Reported' = Reported
  <2>1. PICK e : e = [editor[d] EXCEPT !.text = x]
    OBVIOUS
  <2>2. e.modal # "deleted"
    BY <2>1, EditorType
  <2>3. editor' = [editor EXCEPT ![d] = e]
    BY <1>4, <2>1
  <2> QED
    BY <1>2, <2>2, <2>3
<1> QED
  BY <1>3, <1>4

\* A creation is ordered once, by the device that drew the id.
LEMMA LivesAnnounce ==
  ASSUME Inv, NEW d \in Devices, NEW i \in Ids, NEW x \in Texts, Publish(d, i, x)
  PROVE  Lives!Announce(d, i, x)
<1>1. PICK w : w = [op |-> "create", id |-> i, text |-> x, live |-> FALSE, applied |-> "no"]
  OBVIOUS
<1>2. w \in Write /\ Order(w) = [op |-> "create", id |-> i, text |-> x]
  BY <1>1 DEF Write, Order
<1>3. queue[d] \in Seq(Write) /\ queue' = [queue EXCEPT ![d] = Append(queue[d], w)]
  BY <1>1 DEF Publish, Inv, TypeOK
<1>4. ToSet(Append(queue[d], w)) = ToSet(queue[d]) \cup {w}
  BY <1>2, <1>3, AppendSet
<1>5. OrdersOf(Append(queue[d], w)) = OrdersOf(queue[d]) \cup {Order(w)}
  BY <1>4 DEF OrdersOf
<1>6. Orders' = [Orders EXCEPT ![d] = Orders[d] \cup {[op |-> "create", id |-> i, text |-> x]}]
  BY <1>2, <1>3, <1>5, OrdersChange DEF Inv
<1>7. Reported' = Reported
  BY DEF Publish, Reported
<1> QED
  BY <1>6, <1>7 DEF Publish, Lives!Announce, Orders, Reported, OrdersOf, Order, ReportOf

\* A change is ordered by a queued write, in the name of the editor's announcement.
LEMMA LivesRequest ==
  ASSUME Inv, NEW d \in Devices, editor[d] # Closed, NEW op \in {"update", "delete"},
         Enqueue(d, op), UNCHANGED server, Reported' = Reported
  PROVE  \E o \in Lives!Order : Lives!Request(d, o)
<1>1. PICK new : new = [op |-> op, id |-> editor[d].id, text |-> editor[d].text,
                        live |-> TRUE, applied |-> "no"]
  OBVIOUS
<1>2. editor[d] \in Editor /\ editor[d].id \in Ids /\ editor[d].text \in Texts
  BY EditorType DEF Inv, Editor
<1>3. new \in Write /\ new.op = op /\ new.id = editor[d].id /\ new.text = editor[d].text
  BY <1>1, <1>2 DEF Write
<1>4. queue[d] \in Seq(Write)
  BY DEF Inv, TypeOK
<1>5. ToSet(Append(queue[d], new)) = ToSet(queue[d]) \cup {new}
  BY <1>3, <1>4, AppendSet
<1>6. queue' = [queue EXCEPT ![d] = Append(queue[d], new)]
  BY <1>1 DEF Enqueue
<1>7. PICK o : o = Order(new)
  OBVIOUS
<1>8. OrdersOf(Append(queue[d], new)) = OrdersOf(queue[d]) \cup {o}
  BY <1>5, <1>7 DEF OrdersOf
<1>9. Orders' = [Orders EXCEPT ![d] = Orders[d] \cup {o}]
  BY <1>6, <1>8, OrdersChange DEF Inv
<1>10. o \in Lives!Order /\ o.id = editor[d].id /\ o.op = op
  BY <1>2, <1>3, <1>7 DEF Order, Lives!Order
<1>11. o.id \in posted \cup drawn[d] /\ Owner[o.id] = Account[d]
  BY <1>10 DEF Inv, EditorsSound, EditorSound, Own
<1>12. UNCHANGED <<board, posted, drawn, revived>>
  BY DEF server
<1>13. Lives!Request(d, o)
  BY <1>9, <1>10, <1>11, <1>12 DEF Lives!Request, Orders, Reported, OrdersOf, Order, ReportOf
<1> QED
  BY <1>10, <1>13

\* The server carries an order out; the callback and the answer are no part of it.
LEMMA LivesApply ==
  ASSUME Inv, NEW d \in Devices, NEW k \in DOMAIN queue[d], Apply(d, k)
  PROVE  \E o \in Orders[d] : Lives!CarryOut(d, o)
<1>1. PICK w : w = queue[d][k]
  OBVIOUS
<1>2. queue[d] \in Seq(Write) /\ queue \in [Devices -> Seq(Write)]
  BY DEF Inv, TypeOK
<1>3. /\ w \in Write /\ w \in ToSet(queue[d]) /\ UNCHANGED <<drawn, editor>>
      /\ \/ /\ w.op = "delete" /\ board' = [board EXCEPT ![w.id] = NoDoc]
            /\ posted' = posted /\ revived' = revived \ {w.id}
         \/ /\ w.op = "update" /\ board[w.id] # NoDoc
            /\ board' = [board EXCEPT ![w.id].text = w.text]
            /\ UNCHANGED <<posted, revived>>
         \/ /\ w.op = "create"
            /\ board' = [board EXCEPT ![w.id] = [owner |-> Owner[w.id], text |-> w.text]]
            /\ posted' = posted \cup {w.id}
            /\ revived' = IF w.id \in posted /\ board[w.id] = NoDoc
                            THEN revived \cup {w.id} ELSE revived
  BY <1>1, AppliedWrite
<1>4. PICK o : o = Order(w)
  OBVIOUS
<1>5. o.op = w.op /\ o.id = w.id /\ o.text = w.text
  BY <1>4 DEF Order
<1>6. o \in Orders[d]
  BY <1>3, <1>4 DEF Orders, OrdersOf
<1>7. PICK p : p = [queue[d] EXCEPT ![k].applied = "now"]
  OBVIOUS
<1>8. /\ p \in Seq(Write) /\ DOMAIN p = DOMAIN queue[d]
      /\ \A i \in DOMAIN queue[d] : Order(p[i]) = Order(queue[d][i])
  BY <1>2, <1>7, AppliedIndex DEF Order
<1>9. OrdersOf(p) = OrdersOf(queue[d])
  <2>1. OrdersOf(p) = {Order(p[j]) : j \in DOMAIN p}
    BY DEF OrdersOf, ToSet
  <2>2. OrdersOf(queue[d]) = {Order(queue[d][j]) : j \in DOMAIN queue[d]}
    BY DEF OrdersOf, ToSet
  <2> QED
    BY <2>1, <2>2, <1>8
<1>10. queue' = [queue EXCEPT ![d] = p]
  BY <1>2, <1>7 DEF Apply
<1>11. Orders' = Orders
  <2>1. Orders' = [Orders EXCEPT ![d] = Orders[d]]
    BY <1>9, <1>10, OrdersChange DEF Inv
  <2> QED
    BY <2>1 DEF Orders
<1>12. Reported' = Reported
  BY <1>3 DEF Reported
<1>13. Lives!Make(o) \/ Lives!Change(o) \/ Lives!Remove(o)
  BY <1>3, <1>5 DEF Lives!Make, Lives!Change, Lives!Remove
<1>14. Lives!CarryOut(d, o)
  BY <1>3, <1>11, <1>12, <1>13 DEF Lives!CarryOut, Orders, Reported, OrdersOf, Order, ReportOf
<1> QED
  BY <1>6, <1>14

\* The first write of a queue is settled: done, as its device may report, or given
\* up.  A creation has but one place in the queue and is settled for good.
LEMMA LivesSettle ==
  ASSUME Inv, NEW d \in Devices, Acknowledge(d) \/ Refuse(d)
  PROVE  \E o \in Orders[d] : Lives!Settle(d, o)
<1>1. PICK w : w = Head(queue[d])
  OBVIOUS
<1>2. PICK t : t = Tail(queue[d])
  OBVIOUS
<1>3. queue[d] \in Seq(Write) /\ queue[d] # <<>> /\ UNCHANGED server /\ Sent(d)
  BY DEF Inv, TypeOK, Acknowledge, Refuse, Sent
<1>4. /\ w \in Write /\ ToSet(queue[d]) = ToSet(t) \cup {w}
      /\ t \in Seq(Write) /\ 1 \in DOMAIN queue[d] /\ w = queue[d][1]
      /\ \A i \in DOMAIN t : i + 1 \in DOMAIN queue[d] /\ t[i] = queue[d][i + 1] /\ 1 < i + 1
  <2>1. 1 \in DOMAIN queue[d] /\ w = queue[d][1] /\ w \in ToSet(queue[d])
    BY <1>1, <1>3, TailCarried DEF ToSet
  <2> QED
    BY <1>1, <1>2, <1>3, <2>1, HeadTail, TailCarried
<1>5. PICK o : o = Order(w)
  OBVIOUS
<1>6. o.op = w.op /\ o.id = w.id
  BY <1>5 DEF Order
<1>7. OrdersOf(queue[d]) = OrdersOf(t) \cup {o}
  BY <1>4, <1>5 DEF OrdersOf
<1>8. o \in Orders[d]
  BY <1>7 DEF Orders
<1>9. Orders' = [Orders EXCEPT ![d] = OrdersOf(t)] /\ Orders[d] = OrdersOf(queue[d])
  <2>1. CASE queue' = [queue EXCEPT ![d] = t]
    BY <2>1, OrdersChange DEF Inv
  <2>2. CASE queue' = [queue EXCEPT ![d] = SentAgain(t)]
    <3>1. OrdersOf(SentAgain(t)) = OrdersOf(t)
      BY <1>4, OrphansOrders
    <3> QED
      BY <2>2, <3>1, OrdersChange DEF Inv
  <2> QED
    BY <1>2, <2>1, <2>2 DEF Acknowledge, Refuse
<1>10. ASSUME o \in OrdersOf(t) PROVE o.op # "create"
  <2>1. PICK v \in ToSet(t) : Order(v) = o
    BY <1>10 DEF OrdersOf
  <2>2. PICK i \in DOMAIN t : t[i] = v
    BY <2>1 DEF ToSet
  <2>3. /\ i + 1 \in DOMAIN queue[d] /\ queue[d][i + 1] = v /\ 1 < i + 1
        /\ v.op = w.op /\ v.id = w.id /\ i \in Nat
    BY <1>4, <1>5, <2>1, <2>2 DEF Order
  <2>4. Orderly(queue[d])
    BY DEF Inv, QueuesOrderly
  <2>5. v.op = "create" => i + 1 <= 1
    BY <1>4, <2>3, <2>4 DEF Orderly
  <2>6. ~(i + 1 <= 1)
    BY <2>3
  <2> QED
    BY <1>6, <2>3, <2>5, <2>6
<1>11. \/ Orders' = [Orders EXCEPT ![d] = Orders[d] \ {o}]
       \/ o.op # "create" /\ Orders' = Orders
  <2>1. CASE o \in OrdersOf(t)
    <3>1. OrdersOf(t) = Orders[d]
      BY <1>7, <1>9, <2>1
    <3>2. Orders' = Orders
      BY <1>9, <3>1 DEF Orders
    <3> QED
      BY <1>10, <2>1, <3>2
  <2>2. CASE o \notin OrdersOf(t)
    <3>1. OrdersOf(t) = Orders[d] \ {o}
      BY <1>7, <1>9, <2>2
    <3> QED
      BY <1>9, <3>1
  <2> QED
    BY <2>1, <2>2
<1>12. \/ Reported' = Reported
       \/ /\ o.op = "delete"
          /\ board[o.id] = NoDoc \/ (o.id \in revived /\ o.id \notin drawn[d])
          /\ Reported' = [Reported EXCEPT ![d] = {o.id}]
  <2>1. CASE editor' = editor
    BY <2>1 DEF Reported
  <2>2. CASE editor' # editor
    <3>1. /\ w.op = "delete" /\ w.live /\ w.applied = "now" /\ AtEditor(d)
          /\ editor' = [editor EXCEPT ![d].modal = "deleted"]
      BY <1>1, <2>2 DEF Acknowledge, Refuse
    <3>2. editor[d] # Closed /\ editor[d].id = w.id /\ Gone(d, w.id)
      BY <1>1, <1>3, <3>1, HeadGone
    <3>3. PICK e : e = [editor[d] EXCEPT !.modal = "deleted"]
      OBVIOUS
    <3>4. e \in Editor /\ e.id = w.id /\ e.modal = "deleted"
      <4>1. "deleted" \in Modals
        BY DEF Modals
      <4> QED
        BY <3>2, <3>3, <4>1, EditorType DEF Inv
    <3>5. editor' = [editor EXCEPT ![d] = e]
      BY <3>1, <3>3
    <3>6. ReportOf(e) = {o.id}
      BY <1>6, <3>4, ClosedAssumption DEF ReportOf
    <3>7. Reported' = [Reported EXCEPT ![d] = ReportOf(e)]
      BY <3>5, ReportedChange, Zenon DEF Inv
    <3>8. Reported' = [Reported EXCEPT ![d] = {o.id}]
      BY <3>6, <3>7, Zenon
    <3>9. board[o.id] = NoDoc \/ (o.id \in revived /\ o.id \notin drawn[d])
      BY <1>6, <3>2 DEF Gone
    <3> QED
      BY <1>6, <3>1, <3>8, <3>9, Zenon
  <2> QED
    BY <2>1, <2>2
<1>13. UNCHANGED <<board, posted, drawn, revived>>
  BY <1>3 DEF server
<1>14. Lives!Settle(d, o)
  BY <1>11, <1>12, <1>13
     DEF Lives!Settle, Orders, Reported, OrdersOf, Order, ReportOf
<1> QED
  BY <1>8, <1>14

\* The editor closes; its writes stay ordered, without a callback.
LEMMA LivesDismiss ==
  ASSUME Inv, NEW d \in Devices, CloseEditor(d) \/ Kill(d)
  PROVE  Lives!Dismiss(d)
<1>1. /\ queue[d] \in Seq(Write) /\ editor' = [editor EXCEPT ![d] = Closed]
      /\ UNCHANGED <<board, posted, drawn, revived>>
  BY DEF CloseEditor, Kill, server, Inv, TypeOK
<1>2. \E p : queue' = [queue EXCEPT ![d] = p] /\ OrdersOf(p) = OrdersOf(queue[d])
  BY <1>1, OrphansOrders DEF CloseEditor, Kill
<1>3. Orders' = Orders
  <2>1. Orders' = [Orders EXCEPT ![d] = Orders[d]]
    BY <1>2, OrdersChange DEF Inv
  <2> QED
    BY <2>1 DEF Orders
<1>4. Reported' = [Reported EXCEPT ![d] = {}]
  <2>1. ReportOf(Closed) = {}
    BY DEF ReportOf
  <2> QED
    BY <1>1, <2>1, ReportedChange DEF Inv
<1> QED
  BY <1>1, <1>3, <1>4 DEF Lives!Dismiss, Orders, Reported, OrdersOf, Order, ReportOf

\* Rows, and an editor nobody has confirmed anything in, are the device's own affair.
LEMMA LivesQuiet ==
  ASSUME Inv, NEW d \in Devices,
         \/ OpenList(d) \/ CloseList(d) \/ Refresh(d) \/ Load(d) \/ LoadFailed(d)
         \/ \E r \in Row : SelectRow(d, r)
         \/ \E x \in Texts : Type(d, x)
         \/ TapDelete(d) \/ DismissAlert(d)
  PROVE  UNCHANGED Lives!vars
<1>1. UNCHANGED <<board, posted, drawn, revived, queue>>
  BY DEF OpenList, CloseList, Refresh, Load, LoadFailed, SelectRow, Type, TapDelete,
         DismissAlert, server
<1>2. ASSUME NEW r \in Row, SelectRow(d, r) PROVE Reported' = Reported
  <2>1. PICK e : e = [id |-> r.id, text |-> r.text, modal |-> "none"]
    OBVIOUS
  <2>2. ReportOf(e) = {} /\ ReportOf(editor[d]) = {}
    BY <1>2, <2>1 DEF SelectRow, ReportOf
  <2>3. editor' = [editor EXCEPT ![d] = e]
    BY <1>2, <2>1 DEF SelectRow
  <2>4. Reported' = [Reported EXCEPT ![d] = {}] /\ Reported[d] = {}
    BY <2>2, <2>3, ReportedChange DEF Inv
  <2> QED
    BY <2>4 DEF Reported
<1>3. ASSUME NEW x \in Texts, Type(d, x) PROVE Reported' = Reported
  BY <1>3, ModalReport DEF Inv, Type, AtEditor
<1>4. ASSUME TapDelete(d) \/ DismissAlert(d) PROVE Reported' = Reported
  <2>1. /\ editor[d] # Closed /\ editor[d].modal # "deleted"
        /\ \E m \in {"none", "edited", "confirm"} : editor' = [editor EXCEPT ![d].modal = m]
    BY <1>4 DEF TapDelete, DismissAlert, AtEditor
  <2> QED
    BY <2>1, ModalReport, Zenon DEF Inv
<1>5. ASSUME UNCHANGED editor PROVE Reported' = Reported
  BY <1>5, Zenon DEF Reported
<1>6. Reported' = Reported
  BY <1>2, <1>3, <1>4, <1>5 DEF OpenList, CloseList, Refresh, Load, LoadFailed
<1> QED
  BY <1>1, <1>6 DEF Lives!vars, Reported, ReportOf

\* Losing the answers of a connection settles nothing.
LEMMA LivesBreaks ==
  ASSUME Inv, NEW d \in Devices, ConnectionBreaks(d)
  PROVE  UNCHANGED Lives!vars
<1>1. /\ queue[d] \in Seq(Write) /\ UNCHANGED <<board, posted, drawn, revived, editor>>
      /\ queue' = [queue EXCEPT ![d] = SentAgain(queue[d])]
  BY DEF ConnectionBreaks, server, Inv, TypeOK
<1>2. OrdersOf(SentAgain(queue[d])) = OrdersOf(queue[d])
  BY <1>1, OrphansOrders
<1>3. Orders' = Orders
  <2>1. Orders' = [Orders EXCEPT ![d] = Orders[d]]
    BY <1>1, <1>2, OrdersChange DEF Inv
  <2> QED
    BY <2>1 DEF Orders
<1> QED
  BY <1>1, <1>3 DEF Lives!vars, Orders, OrdersOf, Order

LEMMA LivesStep == Inv /\ [Next]_vars => [Lives!Next]_(Lives!vars)
<1> SUFFICES ASSUME Inv, [Next]_vars PROVE Lives!Next \/ UNCHANGED Lives!vars
  OBVIOUS
<1>1. ASSUME NEW d \in Devices, NEW i \in Ids, NEW x \in Texts, Publish(d, i, x)
      PROVE  Lives!Next
  BY <1>1, LivesAnnounce DEF Lives!Next
<1>2. ASSUME NEW d \in Devices, TapEdit(d) \/ ConfirmDelete(d)
      PROVE  \E o \in Lives!Order : Lives!Request(d, o)
  <2>1. /\ editor[d] # Closed /\ editor[d].modal # "deleted" /\ UNCHANGED server
        /\ \E op \in {"update", "delete"} : Enqueue(d, op)
        /\ \E m \in {"none", "edited", "confirm"} : editor' = [editor EXCEPT ![d].modal = m]
    BY <1>2 DEF TapEdit, ConfirmDelete, AtEditor
  <2>2. Reported' = Reported
    BY <2>1, ModalReport DEF Inv
  <2> QED
    BY <2>1, <2>2, LivesRequest
<1>3. CASE UNCHANGED vars
  BY <1>3 DEF vars, Lives!vars
<1>4. ASSUME NEW d \in Devices, UserStep(d) \/ NetworkStep(d) \/ Kill(d)
      PROVE  Lives!Next \/ UNCHANGED Lives!vars
  <2>1. CASE TapEdit(d) \/ ConfirmDelete(d)
    BY <2>1, <1>2 DEF Lives!Next
  <2>2. CASE \E k \in DOMAIN queue[d] : Apply(d, k)
    <3>1. \E o \in Orders[d] : Lives!CarryOut(d, o)
      BY <2>2, LivesApply
    <3> QED
      BY <3>1 DEF Lives!Next, Orders, OrdersOf, Order
  <2>3. CASE Acknowledge(d) \/ Refuse(d)
    <3>1. \E o \in Orders[d] : Lives!Settle(d, o)
      BY <2>3, LivesSettle
    <3> QED
      BY <3>1 DEF Lives!Next, Orders, OrdersOf, Order
  <2>4. CASE CloseEditor(d) \/ Kill(d)
    BY <2>4, LivesDismiss DEF Lives!Next
  <2> QED
    BY <1>4, <2>1, <2>2, <2>3, <2>4, LivesQuiet, LivesBreaks DEF UserStep, NetworkStep
<1> QED
  BY <1>1, <1>3, <1>4 DEF Next, Lives!Next

\* Through stale rows, open editors and queues, across sign-ins, crashes and repeated
\* sending, an announcement lives as its owner is promised (MyAnnounceVC,
\* MyAnnounceEditVC, Service.getMyPetsData).
THEOREM LivesImplemented == Spec => ImplementsLives
<1>1. Init => Lives!Init
  BY DEF Init, Lives!Init, ToSet
<1> QED
  BY <1>1, LivesStep, InvHolds, PTL DEF Spec, ImplementsLives, Lives!Spec
=============================================================================
