------------------------------ MODULE Publish ------------------------------
(***************************************************************************)
(* Publishing an announcement: AddPetVC (AddController.swift), its photo   *)
(* picker (Extensions.swift), Firebase Storage, the persistent write queue *)
(* of Firestore, and the sessions and restarts that cut across them.       *)
(*                                                                         *)
(* A tap on the publish button starts a chain of callbacks: upload the     *)
(* photo, ask for its URL, add the document, hear from the server.  The    *)
(* text of the form and the photo are read at the tap, the status segment  *)
(* is read two callbacks later, and the form is cleared one callback after *)
(* that, on the screen object the chain has kept alive.  The button is     *)
(* never disabled, so several chains may run at once.                      *)
(***************************************************************************)
EXTENDS Naturals, Sequences, SequencesExt

CONSTANTS
  Users,        \* accounts
  NoUser,       \* nobody is signed in
  Contents,     \* texts of a form whose required fields are filled
  Blank,        \* a form with an empty required field, as clearAllItems leaves it
  Photos,       \* pictures, AddPhotoImage among them
  AddPhotoImage,\* the placeholder the form starts with
  NoPhoto,      \* no object is stored under this name
  Screens,      \* instances of AddPetVC
  NoScreen,     \* no tab bar is on the window
  Taps          \* taps on the publish button that pass the form's guard

ASSUME PublishAssumption ==
  /\ NoUser \notin Users
  /\ Blank \notin Contents
  /\ AddPhotoImage \in Photos
  /\ NoPhoto \notin Photos
  /\ NoScreen \notin Screens

VARIABLES
  session,   \* Auth.auth().currentUser
  front,     \* the AddPetVC inside the window's root view controller
  visible,   \* its tab is the selected one
  screens,   \* the fields of every AddPetVC
  taps,      \* the chain of callbacks each tap started
  storage,   \* Firebase Storage, "Animal Images"
  queue,     \* the writes the device holds for each account
  board,     \* the collection "Missing Animals" on the server
  nextId     \* the next client-side document id

vars == <<session, front, visible, screens, taps, storage, queue, board, nextId>>

-----------------------------------------------------------------------------
Accounts == Users \cup {NoUser}

Statuses == {"missing", "founded"}

\* "photo" stands for the action sheet and the camera or library it leads to.
Modals == {"none", "photo", "alert"}

Screen ==
  [user : Users, status : Statuses, content : Contents \cup {Blank},
   photo : Photos, modal : Modals]

\* "Millis" in an object's name are the tap's: two taps never share them.
Names == Users \X Taps

\* Fault: the name has no time in it.
TimelessName(by, t) == <<by, CHOOSE x \in Taps : TRUE>>

ObjectName(by, t) == <<by, t>>

Write ==
  [id : Nat, tap : Taps, owner : Users, content : Contents, photo : Names,
   status : Statuses]

Running == {"uploading", "linking", "posting"}
Stopped == {"done", "rejected", "failed", "unencodable", "lost"}

(***************************************************************************)
(* told is the last thing the user was really shown about the tap; seen is *)
(* the status the user saw at the tap, or chose after it while the photo   *)
(* was still under way.  Both are history: no action reads them.           *)
(***************************************************************************)
Tap ==
  [stage : Running \cup Stopped, screen : Screens \cup {NoScreen}, by : Users,
   content : Contents, photo : Photos,
   seen : Statuses, told : {"nothing", "created", "failed"}]

NotTapped == [stage |-> "idle"]

\* The chain is over and lets go of its screen.
Ended(tap, stage) == [tap EXCEPT !.stage = stage, !.screen = NoScreen]

\* No reference to the view controller is left.
Released == [user |-> NoUser]

FreshScreen(u) ==
  [user |-> u, status |-> "missing", content |-> Blank,
   photo |-> AddPhotoImage, modal |-> "none"]

Init ==
  /\ session = NoUser
  /\ front = NoScreen
  /\ visible = FALSE
  /\ screens = [v \in Screens |-> Released]
  /\ taps = [t \in Taps |-> NotTapped]
  /\ storage = [n \in Names |-> NoPhoto]
  /\ queue = [a \in Accounts |-> <<>>]
  /\ board = {}
  /\ nextId = 0

\* Fault: the closures hold their screen weakly, as RegistrationVC's do.
WeakCollect(scr, f, ts) == [v \in Screens |-> IF v = f THEN scr[v] ELSE Released]

(***************************************************************************)
(* Every closure of a chain holds its AddPetVC: the screen lives as long   *)
(* as it is in the window, f, or a chain of ts still runs.                 *)
(***************************************************************************)
Collect(scr, f, ts) ==
  [v \in Screens |->
     IF v = f \/ \E t \in Taps : ts[t] # NotTapped /\ ts[t].screen = v
       THEN scr[v] ELSE Released]

-----------------------------------------------------------------------------
(***************************************************************************)
(* Session and window.  The tab bar is built by a main-queue block that    *)
(* runs some time after the session changed, and torn down the same way.   *)
(***************************************************************************)
\* The answer to a log-in or a registration.  The form's buttons stay enabled, so
\* a second request may be answered when the first one has led to a tab bar.
SignIn(u) ==
  /\ session # u
  /\ session' = u
  /\ UNCHANGED <<front, visible, screens, taps, storage, queue, board, nextId>>

\* The logout button, or the SDK when the account's token has become invalid.
SignOut ==
  /\ session # NoUser
  /\ session' = NoUser
  /\ UNCHANGED <<front, visible, screens, taps, storage, queue, board, nextId>>

\* SceneDelegate's listener, another user: a new tab bar, its first tab selected,
\* in the place of AuthVC or of the tab bar of the user before.
OpenScreen(v) ==
  /\ session # NoUser
  /\ front # NoScreen => screens[front].user # session
  /\ screens[v] = Released
  /\ front' = v
  /\ visible' = FALSE
  /\ screens' = Collect([screens EXCEPT ![v] = FreshScreen(session)], v, taps)
  /\ UNCHANGED <<session, taps, storage, queue, board, nextId>>

\* SceneDelegate's listener, user = nil: AuthVC replaces the tab bar.
CloseScreen ==
  /\ session = NoUser
  /\ front # NoScreen
  /\ front' = NoScreen
  /\ visible' = FALSE
  /\ screens' = Collect(screens, NoScreen, taps)
  /\ UNCHANGED <<session, taps, storage, queue, board, nextId>>

\* Fault: the writes are kept in memory.
ForgetfulKill ==
  /\ front' = NoScreen
  /\ visible' = FALSE
  /\ taps' = [t \in Taps |-> IF taps[t].stage \in Running
                               THEN Ended(taps[t], "lost")
                               ELSE taps[t]]
  /\ screens' = [v \in Screens |-> Released]
  /\ queue' = [a \in Accounts |-> <<>>]
  /\ UNCHANGED <<session, storage, board, nextId>>

\* The process ends: the session and the write queues are on disk, the rest is not.
Kill ==
  /\ front' = NoScreen
  /\ visible' = FALSE
  /\ taps' = [t \in Taps |-> IF taps[t].stage \in Running
                               THEN Ended(taps[t], "lost")
                               ELSE taps[t]]
  /\ screens' = [v \in Screens |-> Released]
  /\ UNCHANGED <<session, storage, queue, board, nextId>>

-----------------------------------------------------------------------------
(***************************************************************************)
(* The user at the form.  A modal covers the form and the tab bar.         *)
(***************************************************************************)
Uncovered(v) == v = front /\ screens[v].modal = "none"

AtForm(v) == Uncovered(v) /\ visible

SelectTab ==
  /\ front # NoScreen
  /\ Uncovered(front)
  /\ visible' = ~visible
  /\ UNCHANGED <<session, front, screens, taps, storage, queue, board, nextId>>

Type(v, c) ==
  /\ AtForm(v)
  /\ screens' = [screens EXCEPT ![v].content = c]
  /\ UNCHANGED <<session, front, visible, taps, storage, queue, board, nextId>>

\* didSegmentValueChange
SelectStatus(v, s) ==
  /\ AtForm(v)
  /\ s # screens[v].status
  /\ screens' = [screens EXCEPT ![v].status = s]
  /\ taps' = [t \in Taps |->
       IF taps[t].stage \in {"uploading", "linking"} /\ taps[t].screen = v
         THEN [taps[t] EXCEPT !.seen = s]
         ELSE taps[t]]
  /\ UNCHANGED <<session, front, visible, storage, queue, board, nextId>>

\* presentPhotoActionSheet, then presentCamera or presentPhotoPicker
OpenPhotoPicker(v) ==
  /\ AtForm(v)
  /\ screens' = [screens EXCEPT ![v].modal = "photo"]
  /\ UNCHANGED <<session, front, visible, taps, storage, queue, board, nextId>>

\* didFinishPickingMediaWithInfo, with an edited image.
FinishPicking(v, p) ==
  /\ v = front
  /\ screens[v].modal = "photo"
  /\ screens' = [screens EXCEPT ![v].modal = "none", ![v].photo = p]
  /\ UNCHANGED <<session, front, visible, taps, storage, queue, board, nextId>>

\* OK on an alert, "Отмена" on the sheet, imagePickerControllerDidCancel, or a
\* picked item with no edited image.
DismissModal(v) ==
  /\ v = front
  /\ screens[v].modal # "none"
  /\ screens' = [screens EXCEPT ![v].modal = "none"]
  /\ UNCHANGED <<session, front, visible, taps, storage, queue, board, nextId>>

-----------------------------------------------------------------------------
(***************************************************************************)
(* didPublishBtnTapped and its callbacks.                                  *)
(***************************************************************************)
\* The guard on the required fields fails: errorAlert.
TapIncomplete(v) ==
  /\ AtForm(v)
  /\ screens[v].content = Blank
  /\ screens' = [screens EXCEPT ![v].modal = "alert"]
  /\ UNCHANGED <<session, front, visible, taps, storage, queue, board, nextId>>

\* uploadPetPhoto: putData, or a silent return when jpegData gives nothing.
TapPublish(v, t) ==
  /\ AtForm(v)
  /\ screens[v].content # Blank
  /\ taps[t] = NotTapped
  /\ LET tap == [stage |-> "uploading", screen |-> v, by |-> screens[v].user,
                 content |-> screens[v].content, photo |-> screens[v].photo,
                 seen |-> screens[v].status, told |-> "nothing"]
     IN \/ taps' = [taps EXCEPT ![t] = tap]
        \/ taps' = [taps EXCEPT ![t] = Ended(tap, "unencodable")]
  /\ UNCHANGED <<session, front, visible, screens, storage, queue, board, nextId>>

\* Storage holds the object; its answer may still be lost.
PutObject(t) ==
  /\ taps[t].stage = "uploading"
  /\ storage' = [storage EXCEPT ![ObjectName(taps[t].by, t)] = taps[t].photo]
  /\ UNCHANGED <<session, front, visible, screens, taps, queue, board, nextId>>

UploadDone(t) ==
  /\ taps[t].stage = "uploading"
  /\ storage[ObjectName(taps[t].by, t)] # NoPhoto
  /\ taps' = [taps EXCEPT ![t].stage = "linking"]
  /\ UNCHANGED <<session, front, visible, screens, storage, queue, board, nextId>>

(***************************************************************************)
(* present(): dropped by a view controller that presents already or whose  *)
(* window root was replaced; whether UIKit shows it from a tab that is not *)
(* selected is left open.                                                  *)
(***************************************************************************)
Presents(v) == IF ~Uncovered(v) THEN {FALSE}
               ELSE IF visible THEN {TRUE} ELSE BOOLEAN

WithAlert(f, shown) == IF shown THEN [f EXCEPT !.modal = "alert"] ELSE f

Told(tap, shown, what) == IF shown THEN [tap EXCEPT !.told = what] ELSE tap

\* Fault: a failed request never calls its completion.
SilentUploadFailed(t) ==
  /\ taps[t].stage \in {"uploading", "linking"}
  /\ UNCHANGED vars

\* putData or downloadURL fails: .failure, the alert "Ошибка!", and no document.
UploadFailed(t) ==
  LET v == taps[t].screen IN
  /\ taps[t].stage \in {"uploading", "linking"}
  /\ \E shown \in Presents(v) :
       /\ taps' = [taps EXCEPT ![t] = Told(Ended(@, "failed"), shown, "failed")]
       /\ screens' = Collect([screens EXCEPT ![v] = WithAlert(@, shown)],
                             front, taps')
  /\ UNCHANGED <<session, front, visible, storage, queue, board, nextId>>

\* Fault: the fields are read when the photo has been uploaded.
LateWrite(t) ==
  LET f == screens[taps[t].screen] IN
  [id |-> nextId, tap |-> t, owner |-> f.user, content |-> f.content,
   photo |-> ObjectName(taps[t].by, t), status |-> f.status]

\* .success(url): text and photo of the tap, status and owner of the screen now.
NewWrite(t) ==
  [id |-> nextId, tap |-> t, owner |-> screens[taps[t].screen].user,
   content |-> taps[t].content, photo |-> ObjectName(taps[t].by, t),
   status |-> screens[taps[t].screen].status]

\* Fault: the completion runs again, as after a retried upload.
LinkDoneAgain(t) ==
  /\ taps[t].stage = "linking"
  /\ queue' = [queue EXCEPT ![session] = Append(@, NewWrite(t))]
  /\ nextId' = nextId + 1
  /\ UNCHANGED <<session, front, visible, screens, taps, storage, board>>

\* Fault: success is announced without waiting for the server, as
\* MyAnnounceEditVC's edit does.
HastyLinkDone(t) ==
  /\ taps[t].stage = "linking"
  /\ taps' = [taps EXCEPT ![t].stage = "posting", ![t].told = "created"]
  /\ queue' = [queue EXCEPT ![session] = Append(@, NewWrite(t))]
  /\ nextId' = nextId + 1
  /\ UNCHANGED <<session, front, visible, screens, storage, board>>

\* addDocument puts the write into the queue of whoever is signed in now.
LinkDone(t) ==
  /\ taps[t].stage = "linking"
  /\ taps' = [taps EXCEPT ![t].stage = "posting"]
  /\ queue' = [queue EXCEPT ![session] = Append(@, NewWrite(t))]
  /\ nextId' = nextId + 1
  /\ UNCHANGED <<session, front, visible, screens, storage, board>>

\* Fault: the image view is emptied.
ImagelessForm(f) == [f EXCEPT !.content = Blank, !.photo = NoPhoto]

\* Fault: the segment is reset with the fields.
FullyCleared(f) ==
  [f EXCEPT !.content = Blank, !.photo = AddPhotoImage, !.status = "missing"]

\* clearAllItems: the photo and the seven fields, not the status segment.
Cleared(f) == [f EXCEPT !.content = Blank, !.photo = AddPhotoImage]

\* err == nil: the alert "Объявление успешно создано", then clearAllItems.
Written(t) ==
  LET v == taps[t].screen IN
  \E shown \in Presents(v) :
    /\ taps' = [taps EXCEPT ![t] = Told(Ended(@, "done"), shown, "created")]
    /\ screens' = Collect([screens EXCEPT ![v] = WithAlert(Cleared(@), shown)],
                          front, taps')

-----------------------------------------------------------------------------
(***************************************************************************)
(* The Firestore client sends the writes of the signed-in account, in      *)
(* order and again and again, until it hears of the first one's fate.  A   *)
(* write outlives the process, its callback does not.                      *)
(***************************************************************************)
Sending == queue[session] # <<>>

\* The server applies a write; sending it again changes nothing.
CommitWrite ==
  /\ \E i \in DOMAIN queue[session] :
       /\ \A j \in 1..(i - 1) : queue[session][j] \in board
       /\ board' = board \cup {queue[session][i]}
  /\ UNCHANGED <<session, front, visible, screens, taps, storage, queue, nextId>>

DequeueWrite == queue' = [queue EXCEPT ![session] = Tail(@)]

\* The acknowledgement arrives and the callback is still there.
AckWrite ==
  /\ Sending
  /\ Head(queue[session]) \in board
  /\ taps[Head(queue[session]).tap].stage = "posting"
  /\ Written(Head(queue[session]).tap)
  /\ DequeueWrite
  /\ UNCHANGED <<session, front, visible, storage, board, nextId>>

\* It arrives in a later process, which has no callback for it.
AckRestoredWrite ==
  /\ Sending
  /\ Head(queue[session]) \in board
  /\ taps[Head(queue[session]).tap].stage = "lost"
  /\ DequeueWrite
  /\ UNCHANGED <<session, front, visible, screens, taps, storage, board, nextId>>

\* A permanent error: the write is given up; the callback only prints.
RejectWrite ==
  LET t == Head(queue[session]).tap IN
  /\ Sending
  /\ taps' = [taps EXCEPT ![t] = Ended(@, "rejected")]
  /\ screens' = Collect(screens, front, taps')
  /\ DequeueWrite
  /\ UNCHANGED <<session, front, visible, storage, board, nextId>>

-----------------------------------------------------------------------------
UserStep(v) ==
  \/ \E c \in Contents \cup {Blank} : Type(v, c)
  \/ \E s \in Statuses : SelectStatus(v, s)
  \/ OpenPhotoPicker(v)
  \/ \E p \in Photos : FinishPicking(v, p)
  \/ DismissModal(v)
  \/ TapIncomplete(v)
  \/ \E t \in Taps : TapPublish(v, t)

ChainStep(t) == PutObject(t) \/ UploadDone(t) \/ UploadFailed(t) \/ LinkDone(t)

SyncStep == CommitWrite \/ AckWrite \/ AckRestoredWrite \/ RejectWrite

Next ==
  \/ \E u \in Users : SignIn(u)
  \/ SignOut \/ CloseScreen \/ Kill \/ SelectTab
  \/ \E v \in Screens : OpenScreen(v) \/ UserStep(v)
  \/ \E t \in Taps : ChainStep(t)
  \/ SyncStep

Spec == Init /\ [][Next]_vars

(***************************************************************************)
(* Storage gives an upload up after its retry time and answers every       *)
(* request for a URL; the write at the head of the signed-in account's     *)
(* queue is retried until the server's answer comes back.  Nothing is      *)
(* assumed of the user, of sign-ins and of restarts.                       *)
(***************************************************************************)
Fairness ==
  /\ \A t \in Taps : WF_vars(UploadDone(t) \/ UploadFailed(t) \/ LinkDone(t))
  /\ WF_vars(AckWrite \/ AckRestoredWrite \/ RejectWrite)

FairSpec == Spec /\ Fairness

-----------------------------------------------------------------------------
Queued(a, t) == \E w \in ToSet(queue[a]) : w.tap = t

OnBoard(t) == \E w \in board : w.tap = t

Documents == board \cup UNION {ToSet(queue[a]) : a \in Accounts}

\* Every variable has its type; in particular the form always has an image.
TypeOK ==
  /\ session \in Accounts
  /\ front \in Screens \cup {NoScreen}
  /\ visible \in BOOLEAN
  /\ screens \in [Screens -> Screen \cup {Released}]
  /\ taps \in [Taps -> Tap \cup {NotTapped}]
  /\ storage \in [Names -> Photos \cup {NoPhoto}]
  /\ queue \in [Accounts -> Seq(Write)]
  /\ board \subseteq Write
  /\ nextId \in Nat

\* A chain of callbacks finds the screen it was started from, which still
\* belongs to the account that tapped; so does the window (self, self.user!).
LiveScreens ==
  /\ front # NoScreen => screens[front] \in Screen
  /\ \A t \in Taps : taps[t].stage \in Running =>
       /\ taps[t].screen \in Screens
       /\ screens[taps[t].screen] \in Screen
       /\ screens[taps[t].screen].user = taps[t].by

\* Whatever happens to the form, the session and other taps between the tap and
\* the callbacks, a document carries the account, the text and, through its
\* URL, the photo of the tap it was made for (didPublishBtnTapped).
PostedAsSubmitted ==
  \A w \in Documents :
    LET tap == taps[w.tap] IN
    /\ tap # NotTapped
    /\ w.owner = tap.by
    /\ w.content = tap.content
    /\ storage[w.photo] = tap.photo

\* One tap makes one document, on the board or on its way, through retries,
\* restarts and sign-outs (didPublishBtnTapped, addDocument).
AtMostOnePost ==
  \A w1, w2 \in Documents : w1.tap = w2.tap => w1 = w2

\* A success alert means that the announcement is on the board, a failure
\* alert that it neither is nor ever will be (the alerts of didPublishBtnTapped).
AlertsTellTheTruth ==
  \A t \in Taps : taps[t] # NotTapped =>
    /\ taps[t].told = "created" => OnBoard(t)
    /\ taps[t].told = "failed" => \A w \in Documents : w.tap # t

\* The status, read only when the photo is up, is the one the user saw at the
\* tap or chose since: the end of another publish from the same form, which
\* clears the other fields, does not change it (petStatus, clearAllItems).
StatusAsSeen == \A w \in Documents : w.status = taps[w.tap].seen

-----------------------------------------------------------------------------
(***************************************************************************)
(* The board of Board.tla, read through the URLs of the documents.         *)
(***************************************************************************)
SubmissionOf(t) ==
  IF taps[t] = NotTapped THEN [state |-> "none"]
  ELSE [state |-> IF OnBoard(t) THEN "posted"
                  ELSE IF \/ taps[t].stage \in Running
                          \/ \E a \in Accounts : Queued(a, t)
                       THEN "open" ELSE "dropped",
        by |-> taps[t].by, content |-> taps[t].content, photo |-> taps[t].photo]

Announced(w) ==
  [tap |-> w.tap, owner |-> w.owner, content |-> w.content,
   photo |-> storage[w.photo], status |-> w.status]

TheBoard == INSTANCE Board WITH
  submission <- [t \in Taps |-> SubmissionOf(t)],
  posted <- {Announced(w) : w \in board}

\* Publishing implements the board: a submission is posted at most once, as
\* submitted, or dropped for good, and a posted announcement never changes.
ImplementsBoard == TheBoard!Spec

\* Every upload ends: with a document under way, an error, or the process.
UploadSettles ==
  \A t \in Taps :
    taps[t].stage \in {"uploading", "linking"}
      ~> taps[t].stage \notin {"uploading", "linking"}

\* A write that is queued for an account reaches the board or is refused by the
\* server, through any number of restarts, unless the account signs out.
QueuedWriteSettles ==
  \A t \in Taps, u \in Users :
    Queued(u, t) ~> OnBoard(t) \/ taps[t].stage = "rejected" \/ session # u
=============================================================================
