-------------------------- MODULE MyAnnouncements --------------------------
(***************************************************************************)
(* The list of one's own announcements and the editor opened from a row:   *)
(* MyAnnounceVC, MyAnnounceEditVC and Service.getMyPetsData, on several    *)
(* devices signed in to the accounts of their owners.                      *)
(*                                                                         *)
(* A row is a copy of a document, the editor a copy of a row, and a write  *)
(* a copy of the editor; each copy is used later than it is made, while    *)
(* other devices change or delete the document.  Every device keeps its    *)
(* writes in a queue on disk, the creations of AddController among them,   *)
(* shows its own lists as if they were already applied, and sends them in  *)
(* order, again on every new connection, until it hears of their fate.  A  *)
(* creation is a set without a condition: sent again after its document    *)
(* was deleted, it makes it anew.                                          *)
(*                                                                         *)
(* The order of the rows plays no part here: a list is a set of rows.      *)
(***************************************************************************)
EXTENDS Naturals, Sequences, SequencesExt

CONSTANTS
  Devices,
  Users,
  Account,    \* Account[d]: who is signed in on device d
  Ids,        \* document ids
  Owner,      \* Owner[i]: the account that publishes i
  Texts,      \* contents of the seven text fields
  NoDoc,      \* there is no document with this id
  Closed,     \* a screen that is not open
  MaxWrites   \* bound: the edits and deletes the devices queue in all

ASSUME AnnouncementsAssumption ==
  /\ Account \in [Devices -> Users]
  /\ Owner \in [Ids -> Users]
  /\ MaxWrites \in Nat

VARIABLES
  board,      \* the collection "Missing Animals" on the server
  posted,     \* the ids that have been on it (history)
  drawn,      \* the ids each device has drawn for its creations (history)
  revived,    \* the ids a repeated creation has brought back, not deleted since
              \* (history)
  list,       \* the rows of MyAnnounceVC, per device
  asked,      \* getMyPetsData has been called and has not answered
  editor,     \* MyAnnounceEditVC, per device
  queue,      \* the writes of each device
  writes,     \* how many edits and deletes there have been
  lostEdit    \* an edit that was announced as made has been given up,
              \* its document being gone (history)

vars ==
  <<board, posted, drawn, revived, list, asked, editor, queue, writes, lostEdit>>

\* The server's side, and what has happened to it.
server == <<board, posted, drawn, revived>>

-----------------------------------------------------------------------------
Document == [owner : Users, text : Texts]

Row == [id : Ids, text : Texts]

Modals == {"none", "edited", "confirm", "deleted"}

Editor == [id : Ids, text : Texts, modal : Modals]

ASSUME ClosedAssumption == Closed \notin Editor

\* live: the editor the write comes from is still on the screen.
\* applied: the server has applied it on the present connection and the answer is
\* still to be read, or has applied it on an earlier one and the answer was lost.
Write ==
  [op : {"create", "update", "delete"}, id : Ids, text : Texts,
   live : BOOLEAN, applied : {"no", "now", "before"}]

Init ==
  /\ board = [i \in Ids |-> NoDoc]
  /\ posted = {}
  /\ drawn = [d \in Devices |-> {}]
  /\ revived = {}
  /\ list = [d \in Devices |-> Closed]
  /\ asked = [d \in Devices |-> FALSE]
  /\ editor = [d \in Devices |-> Closed]
  /\ queue = [d \in Devices |-> <<>>]
  /\ writes = 0
  /\ lostEdit = FALSE

-----------------------------------------------------------------------------
\* What a write leaves of the documents it is applied to.
Result(docs, w) ==
  CASE w.op = "delete" -> [docs EXCEPT ![w.id] = NoDoc]
    [] w.op = "update" -> [docs EXCEPT ![w.id].text = w.text]
    [] w.op = "create" -> [docs EXCEPT ![w.id] = [owner |-> Owner[w.id], text |-> w.text]]

(***************************************************************************)
(* What a device shows of document i of the server: the document as its    *)
(* own queued writes will leave it.                                        *)
(***************************************************************************)
Queued(d, op, i) == \E w \in ToSet(queue[d]) : w.op = op /\ w.id = i

Hidden(d, i) ==
  \/ Queued(d, "delete", i)
  \/ board[i] = NoDoc /\ ~Queued(d, "create", i)

\* x is the text of the last write to i, or that of the server.
Shown(d, i, x) ==
  LET q == queue[d] IN
  \/ /\ \A k \in DOMAIN q : q[k].id # i
     /\ x = board[i].text
  \/ \E k \in DOMAIN q :
       /\ q[k].id = i /\ q[k].text = x
       /\ \A j \in (k + 1)..Len(q) : q[j].id # i

\* Fault: the query has no owner.
AllRows(d) == {r \in Row : ~Hidden(d, r.id) /\ Shown(d, r.id, r.text)}

\* whereField("owner", isEqualTo: user.uid), which one's own queued creation
\* matches; the row keeps the document's id.
MyRows(d) ==
  {r \in Row : /\ ~Hidden(d, r.id)
               /\ Queued(d, "create", r.id) \/ board[r.id].owner = Account[d]
               /\ Shown(d, r.id, r.text)}

-----------------------------------------------------------------------------
\* An upload has ended (Publish): addDocument draws an id nobody has drawn and
\* queues a set of it.
Publish(d, i, x) ==
  /\ \A e \in Devices : i \notin drawn[e]
  /\ Owner[i] = Account[d]
  /\ drawn' = [drawn EXCEPT ![d] = @ \cup {i}]
  /\ queue' = [queue EXCEPT ![d] = Append(@,
       [op |-> "create", id |-> i, text |-> x, live |-> FALSE, applied |-> "no"])]
  /\ UNCHANGED <<board, posted, revived, list, asked, editor, writes, lostEdit>>

\* myAnnounsTapped pushes a new MyAnnounceVC, whose viewDidLoad fetches.
OpenList(d) ==
  /\ list[d] = Closed
  /\ list' = [list EXCEPT ![d] = {}]
  /\ asked' = [asked EXCEPT ![d] = TRUE]
  /\ UNCHANGED <<server, editor, queue, writes, lostEdit>>

CloseList(d) ==
  /\ list[d] # Closed
  /\ editor[d] = Closed
  /\ list' = [list EXCEPT ![d] = Closed]
  /\ asked' = [asked EXCEPT ![d] = FALSE]
  /\ UNCHANGED <<server, editor, queue, writes, lostEdit>>

\* Pull to refresh.
Refresh(d) ==
  /\ list[d] # Closed
  /\ editor[d] = Closed
  /\ asked' = [asked EXCEPT ![d] = TRUE]
  /\ UNCHANGED <<server, list, editor, queue, writes, lostEdit>>

\* The documents arrive, also underneath an open editor.
Load(d) ==
  /\ asked[d]
  /\ list' = [list EXCEPT ![d] = MyRows(d)]
  /\ asked' = [asked EXCEPT ![d] = FALSE]
  /\ UNCHANGED <<server, editor, queue, writes, lostEdit>>

\* err # nil: the completion is never called and the list stays as it is.
LoadFailed(d) ==
  /\ asked[d]
  /\ asked' = [asked EXCEPT ![d] = FALSE]
  /\ UNCHANGED <<server, list, editor, queue, writes, lostEdit>>

-----------------------------------------------------------------------------
\* Fault: the editor is not told the row's petID.
NamelessSelectRow(d, r) ==
  /\ list[d] # Closed
  /\ r \in list[d]
  /\ editor[d] = Closed
  /\ editor' = [editor EXCEPT ![d] = [id |-> NoDoc, text |-> r.text, modal |-> "none"]]
  /\ UNCHANGED <<server, list, asked, queue, writes, lostEdit>>

\* didSelectRowAt: the editor gets the row's fields and its petID.
SelectRow(d, r) ==
  /\ list[d] # Closed
  /\ r \in list[d]
  /\ editor[d] = Closed
  /\ editor' = [editor EXCEPT ![d] = [id |-> r.id, text |-> r.text, modal |-> "none"]]
  /\ UNCHANGED <<server, list, asked, queue, writes, lostEdit>>

AtEditor(d) == editor[d] # Closed /\ editor[d].modal = "none"

Type(d, x) ==
  /\ AtEditor(d)
  /\ editor' = [editor EXCEPT ![d].text = x]
  /\ UNCHANGED <<server, list, asked, queue, writes, lostEdit>>

Enqueue(d, op) ==
  /\ writes < MaxWrites
  /\ writes' = writes + 1
  /\ queue' = [queue EXCEPT ![d] = Append(@,
       [op |-> op, id |-> editor[d].id, text |-> editor[d].text,
        live |-> TRUE, applied |-> "no"])]

\* editBtnTapped: updateData and, at once, the alert "Изменено успешно".
TapEdit(d) ==
  /\ AtEditor(d)
  /\ Enqueue(d, "update")
  /\ editor' = [editor EXCEPT ![d].modal = "edited"]
  /\ UNCHANGED <<server, list, asked, lostEdit>>

\* deleteBtnTapped asks for confirmation.
TapDelete(d) ==
  /\ AtEditor(d)
  /\ editor' = [editor EXCEPT ![d].modal = "confirm"]
  /\ UNCHANGED <<server, list, asked, queue, writes, lostEdit>>

\* Fault: success is announced at once, as it is for an edit.
HastyConfirmDelete(d) ==
  /\ editor[d] # Closed
  /\ editor[d].modal = "confirm"
  /\ Enqueue(d, "delete")
  /\ editor' = [editor EXCEPT ![d].modal = "deleted"]
  /\ UNCHANGED <<server, list, asked, lostEdit>>

\* "Удалить"
ConfirmDelete(d) ==
  /\ editor[d] # Closed
  /\ editor[d].modal = "confirm"
  /\ Enqueue(d, "delete")
  /\ editor' = [editor EXCEPT ![d].modal = "none"]
  /\ UNCHANGED <<server, list, asked, lostEdit>>

\* "Отмена" of the confirmation, OK of "Изменено успешно".
DismissAlert(d) ==
  /\ editor[d] # Closed
  /\ editor[d].modal \in {"confirm", "edited"}
  /\ editor' = [editor EXCEPT ![d].modal = "none"]
  /\ UNCHANGED <<server, list, asked, queue, writes, lostEdit>>

\* No callback of this device finds its editor on the screen any more.
Orphaned(ws) == [k \in DOMAIN ws |-> [ws[k] EXCEPT !.live = FALSE]]

\* "Назад", a swipe, or OK of "Запись удалена успешно": the list underneath is
\* not fetched again (the reload goes to MyAnnounceVC.shared, another screen).
CloseEditor(d) ==
  /\ editor[d] # Closed
  /\ editor[d].modal \in {"none", "deleted"}
  /\ editor' = [editor EXCEPT ![d] = Closed]
  /\ queue' = [queue EXCEPT ![d] = Orphaned(@)]
  /\ UNCHANGED <<server, list, asked, writes, lostEdit>>

\* No answer of an old connection is read any more; the writes go out again.
SentAgain(ws) ==
  [k \in DOMAIN ws |-> [ws[k] EXCEPT !.applied = IF @ = "no" THEN "no" ELSE "before"]]

\* The process ends; only the queue is on disk.
Kill(d) ==
  /\ list' = [list EXCEPT ![d] = Closed]
  /\ asked' = [asked EXCEPT ![d] = FALSE]
  /\ editor' = [editor EXCEPT ![d] = Closed]
  /\ queue' = [queue EXCEPT ![d] = SentAgain(Orphaned(@))]
  /\ UNCHANGED <<server, writes, lostEdit>>

-----------------------------------------------------------------------------
(***************************************************************************)
(* The server and the writes of a device.  A connection carries them in    *)
(* order, several at a time, each once; when it breaks, those that are not *)
(* answered go out again on the next one.                                  *)
(***************************************************************************)
\* Its turn has come on this connection.
Due(d, k) ==
  /\ queue[d][k].applied # "now"
  /\ \A j \in 1..(k - 1) : queue[d][j].applied = "now"

\* Fault: the update is a set, which creates a document that is gone.
SetApply(d, k) ==
  LET w == queue[d][k] IN
  /\ Due(d, k)
  /\ board' = [board EXCEPT ![w.id] = IF w.op = "delete" THEN NoDoc
                                     ELSE [owner |-> Owner[w.id], text |-> w.text]]
  /\ posted' = posted \cup {w.id}
  /\ queue' = [queue EXCEPT ![d][k].applied = "now"]
  /\ UNCHANGED <<drawn, revived, list, asked, editor, writes, lostEdit>>

\* A creation applied once more, where the document has been deleted since.
Revival(w) ==
  CASE w.op = "create" /\ w.id \in posted /\ board[w.id] = NoDoc -> revived \cup {w.id}
    [] w.op = "delete" -> revived \ {w.id}
    [] OTHER -> revived

\* Only an update asks for its document: a delete needs none, a creation makes it.
Apply(d, k) ==
  LET w == queue[d][k] IN
  /\ Due(d, k)
  /\ w.op = "update" => board[w.id] # NoDoc
  /\ board' = Result(board, w)
  /\ posted' = IF w.op = "create" THEN posted \cup {w.id} ELSE posted
  /\ revived' = Revival(w)
  /\ queue' = [queue EXCEPT ![d][k].applied = "now"]
  /\ UNCHANGED <<drawn, list, asked, editor, writes, lostEdit>>

\* The answers that are under way are lost.
ConnectionBreaks(d) ==
  /\ \E w \in ToSet(queue[d]) : w.applied = "now"
  /\ queue' = [queue EXCEPT ![d] = SentAgain(@)]
  /\ UNCHANGED <<server, list, asked, editor, writes, lostEdit>>

Sent(d) == queue[d] # <<>>

\* err == nil: an edit only prints; a delete tells the user, on its own editor
\* and unless that shows another alert.
Acknowledge(d) ==
  LET w == Head(queue[d]) IN
  /\ Sent(d)
  /\ w.applied = "now"
  /\ queue' = [queue EXCEPT ![d] = Tail(@)]
  /\ editor' = IF w.op = "delete" /\ w.live /\ AtEditor(d)
                 THEN [editor EXCEPT ![d].modal = "deleted"] ELSE editor
  /\ UNCHANGED <<server, list, asked, writes, lostEdit>>

\* An edit that was never applied and whose document has been deleted.
Vain(w) ==
  /\ w.op = "update"
  /\ w.applied = "no"
  /\ w.id \in posted
  /\ board[w.id] = NoDoc

\* A permanent error, NOT_FOUND for one: the write is given up, the callback only
\* prints, and the connection ends with the error.
Refuse(d) ==
  LET w == Head(queue[d]) IN
  /\ Sent(d)
  /\ queue' = [queue EXCEPT ![d] = SentAgain(Tail(@))]
  /\ lostEdit' = (lostEdit \/ Vain(w))
  /\ UNCHANGED <<server, list, asked, editor, writes>>

-----------------------------------------------------------------------------
UserStep(d) ==
  \/ OpenList(d) \/ CloseList(d) \/ Refresh(d)
  \/ \E r \in Row : SelectRow(d, r)
  \/ \E x \in Texts : Type(d, x)
  \/ TapEdit(d) \/ TapDelete(d) \/ ConfirmDelete(d) \/ DismissAlert(d)
  \/ CloseEditor(d)

NetworkStep(d) ==
  \/ Load(d) \/ LoadFailed(d)
  \/ \E k \in DOMAIN queue[d] : Apply(d, k)
  \/ ConnectionBreaks(d) \/ Acknowledge(d) \/ Refuse(d)

Next ==
  \E d \in Devices :
    \/ \E i \in Ids, x \in Texts : Publish(d, i, x)
    \/ UserStep(d) \/ NetworkStep(d) \/ Kill(d)

Spec == Init /\ [][Next]_vars

-----------------------------------------------------------------------------
\* Every variable has its type; in particular every editor, and every write, names a
\* document.
TypeOK ==
  /\ board \in [Ids -> Document \cup {NoDoc}]
  /\ posted \subseteq Ids
  /\ drawn \in [Devices -> SUBSET Ids]
  /\ revived \subseteq Ids
  /\ list \in [Devices -> {Closed} \cup SUBSET Row]
  /\ asked \in [Devices -> BOOLEAN]
  /\ editor \in [Devices -> {Closed} \cup Editor]
  /\ queue \in [Devices -> Seq(Write)]
  /\ writes \in 0..MaxWrites
  /\ lostEdit \in BOOLEAN

\* A deleted announcement comes back in one way only: the device that published it
\* has lost the answer to the creation and sends it again.  No stale row, open
\* editor or queued edit of any device brings one back (addDocument, updateData,
\* delete).
OnlyRepeatsRevive ==
  [][\A i \in posted : board[i] = NoDoc /\ board'[i] # NoDoc =>
       \E d \in Devices : /\ i \in drawn[d]
                          /\ \E w \in ToSet(queue[d]) :
                               w.op = "create" /\ w.id = i /\ w.applied = "before"]_vars

\* Nobody's announcement is made, changed or deleted from another account's device
\* (the owner filter of getMyPetsData is all that stands in the way).
OnlyOwnersChange ==
  [][\A i \in Ids : board'[i] # board[i] =>
       \E d \in Devices : /\ Account[d] = Owner[i]
                          /\ \E w \in ToSet(queue[d]) : w.id = i]_vars

\* "Запись удалена успешно" is shown only of an announcement that is gone, and stays
\* gone unless another device repeats the creation; the device that published it
\* never shows it of an announcement that is there.
DeletedMeansGone ==
  \A d \in Devices : editor[d] # Closed =>
    (editor[d].modal = "deleted" =>
       LET i == editor[d].id IN board[i] = NoDoc \/ (i \in revived /\ i \notin drawn[d]))

\* "Изменено успешно": an edit that was announced as made is not given up.
AnnouncedEditsAreSaved == ~lostEdit

\* An order is a write without its callback, a report is the alert "Запись удалена
\* успешно": the rows, editors and queues of all devices do to an announcement what
\* its owner is promised, and no more.
Lives ==
  INSTANCE AnnouncementLives WITH
    orders <- [d \in Devices |->
      {[op |-> w.op, id |-> w.id, text |-> w.text] : w \in ToSet(queue[d])}],
    reported <- [d \in Devices |->
      IF editor[d] # Closed /\ editor[d].modal = "deleted" THEN {editor[d].id} ELSE {}]

ImplementsLives == Lives!Spec
=============================================================================
