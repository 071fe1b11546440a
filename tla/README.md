# MissingPets: specifications and proofs

MissingPets is an iOS application for people who have lost or found a pet: a
public board of announcements with photos, accounts to publish under, and a map
of veterinary clinics. This directory holds TLA+ models of the application code
(the 49 files below `src/MissingPets/MissingPets/`, 2687 lines of Swift) and of the
part of the bundled Firestore SDK that its announcements travel through, the TLC
runs that check them on small instances, and proofs that hold for all instances.

The repository has no tests and its README is one line, so every definition here
is a translation of the code. Below, `X:n` is line n of X.swift, and `x.cc:n` a
line of Firestore's core (`src/MissingPets/Pods/FirebaseFirestore/Firestore/core/src/`).

## 1. The system

### Parts

| Part | State it keeps | Operations |
|---|---|---|
| AppDelegate, SceneDelegate | the window, `previousUserID` | launch; the auth listener that replaces the root view controller (SceneDelegate:21-31) |
| AuthVC, RegistrationVC | two forms, alerts | sign in, open registration, sign up, write the `Users` document |
| TabBarVC | five navigation controllers | made whenever the signed-in user changes |
| AddPetVC (AddController) | form, status segment, photo, an alert | publish: upload, link, document, alert, clear |
| Service | nothing | three queries with their photo downloads |
| MissingPetsVC, FoundPetsVC | rows | fetch, refresh, open a row |
| AboutPetController | a copy of a row | call |
| MyAnnounceVC | rows with document ids | fetch, refresh, open the editor |
| MyAnnounceEditVC | a copy of a row, alerts | edit, delete |
| ProfileVC | a label with a listener | to the list, to the editor, sign out |
| ProfileEditingVC | two fields with a listener, alerts | save name and address, ask for a new password |
| MapVC | location manager, alert, overlays | permission, tracking, route to a clinic |
| StorageManager | - | never called |
| VetModel, Vets, CustomTableViewCell, Extensions | constants, layout | - |
| Firestore, SyncEngine | one list of callbacks per user and batch id, waits for pending writes | take a write, register a wait, tell of a success or an error, change the user |
| Firestore, LocalStore and mutation queue | a queue of batches per user in LevelDB, the next batch id | add, remove, next after an id, highest id |
| Firestore, RemoteStore (writes) | the pipeline of at most ten writes, network on or off | fill, match results and errors, restart after a change of user or of the network |
| Firestore, write stream and its connection | a state, the reads and writes under way, two timers | start, ask for a token, handshake, write, idle, back off, close |
| Firestore, Auth credentials provider | the user it last told of, a counter of tokens | answer with a token or an error, tell of another user |
| Firebase Auth, Storage, MapKit, CoreLocation, gRPC | accounts, objects, connections | everything else that is asynchronous |

### How they interact

There is no shared lock and no background thread of the application's own: all
its code runs on the main queue. What makes it hard is that almost nothing
finishes in the block that starts it.

* **Callbacks.** A tap starts a chain of completions (AddController:202-237 has
  four levels). Each reads screen fields, the session or the row it was made from
  when it runs, not when the user tapped. No button is disabled meanwhile.
* **Sessions.** FIRAuth changes the current user on its own queue and tells the
  main queue later. SceneDelegate then replaces all the screens. A closure that
  captures `self` strongly keeps a screen alive after that, one that captures it
  weakly finds it gone (RegistrationController:89).
* **Firestore's queue.** `addDocument`, `updateData` and `delete` are queued on
  disk for the account that is signed in, shown locally at once, and sent in
  order, again after every broken connection and every restart. Their callbacks
  live as long as the process.
* **Worker queue.** Inside the SDK every step runs on one worker queue, and what
  arrives from elsewhere (a token, a user, a timer, an answer of gRPC) is put on
  it: by the time it runs, the stream it was for may be closed, the user another.
* **Modals.** `present` on a covered or detached controller does nothing: an
  alert for an error can be lost because another alert is up.
* **Copies.** A row is a copy of a document, the editor a copy of a row, a write
  a copy of the editor.

### What makes each part correct

* Publishing: an announcement has the account, text and photo of its tap and the
  status the user saw; one tap makes at most one announcement; the alerts are
  true; every upload and every queued write comes to an end.
* Session: the window is the one of the current user, in the end and whenever no
  notification is waiting; a `Users` document has the name of the registration
  that made its account.
* One's own announcements: what was deleted comes back only when its creation is
  sent again; only the owner's writes make, change or delete an announcement; the
  alert of a deletion is true unless its creation was sent again from elsewhere.
* Public lists: a list is complete for what its source knows, in order, and the board
  of one moment if that is the server; no refresh shows an announcement older than it
  was shown before.
* Profile: when everything is quiet, the address in `Users` is the one in Auth and
  the document is what was saved last.
* Map: only routes that were asked for last, or overlapped with that tap, are
  drawn; a permission that is given is used.
* Writes on their way: one is taken to be done only when the server has applied
  it, one is answered once at most and in the end; the writes of an account reach
  the server in order and under its credentials; no earlier write that is sent
  again stays on top of a later one that is known to be done; a wait for pending
  writes ends, and not before the writes it waits for.

## 2. The modules

| Module | Models | Composes or uses |
|---|---|---|
| `Board` | what publishing promises: a submission is posted once, as submitted, or dropped | abstract specification |
| `Publish` | AddPetVC, picker, Storage, Firestore's queue, sessions, restarts | instance of `Board` with a refinement mapping |
| `Session` | SceneDelegate, AuthVC, RegistrationVC, sign-out, FIRAuth's current user and main-queue blocks | |
| `AnnouncementLives` | what its owner is promised of an announcement: made, changed and deleted only by orders of the owner's account, each carried out, perhaps again, or given up; back once deleted only while the order that made it is not settled; reported as deleted only when it is, or has been made once more | abstract specification |
| `MyAnnouncements` | MyAnnounceVC, MyAnnounceEditVC, `getMyPetsData`, several devices | instance of `AnnouncementLives` with a refinement mapping |
| `Profile` | ProfileVC, ProfileEditingVC, the two copies of the address | |
| `BoardReader` | what a reader is promised of a list: the announcements of its status in order, all as of one moment if the server was asked, and none as of an earlier moment than it was shown at | abstract specification |
| `Feeds` | the public lists, `Service`'s two queries, the sheet | instance of `BoardReader` with a refinement mapping |
| `VetsMap` | MapVC | |
| `WriteQueue` | what a queue of writes promises: each is applied, perhaps again, or denied, and answered truly | abstract specification |
| `WritePipeline` | SyncEngine, mutation queue, RemoteStore, write stream, credentials, connections, crashes | instance of `WriteQueue` with a refinement mapping |
| `MC...` | values for TLC, one module per specification | |
| `PublishProofs`, `SessionProofs`, `MyAnnouncementsProofs`, `ProfileProofs`, `FeedsProofs`, `VetsMapProofs`, `WritePipelineProofs` | theorems | |
| `QueueTheorems` | facts about sequences used as queues | for the proofs |

`Fault:` marks a definition that is no part of a specification: the definition
below it with a mistake a programmer could make. Each property is known to be
violated when one of them takes the place of the definition it precedes.

### Publish

`taps[t]` is the chain of callbacks of one tap on the publish button:
`uploading` (AddController:252-260), `linking` (260-265), `posting` (the
document is queued, 207-217), and how it ended. `TapPublish` reads the text and
the photo, as `didPublishBtnTapped` does (179-202); `LinkDone` reads the status
segment and the owner (207-216) and queues the document; `Written` and
`WithAlert` show the success alert and clear the form (217-228). `Collect` is
reference counting: a screen lives while it is in the window or a running chain
holds it. `Kill`, `SignOut` and `SignIn` cut across. The write queue is one
sequence per account (`CommitWrite`, `AckWrite`, `AckRestoredWrite`,
`RejectWrite`): the server may have committed a write whose answer is lost.

### Session

`main` is the sequence of blocks on the main queue. A notification reads the
current user when it runs (FIRAuth:1436-1450, SceneDelegate:21-31); the answer of
a request runs after the notification the same sign-in posts. `live` is the weak
reference of the callbacks of AuthVC and RegistrationVC.

### MyAnnouncements

`list`, `editor` and `queue` are per device. `Publish` is the end of an upload:
`addDocument` draws an id and queues an unconditional set of it
(collection_reference.cc:90-95), in the same queue as the edits and deletions.
`MyRows` is the query with its filter and with the latency compensation of the
device's own queue, so that an announcement can be edited or deleted before the
server has it. `Apply`, `Acknowledge`, `Refuse` and `ConnectionBreaks` are
Firestore's pipeline: a connection carries the writes in order, several before the
first answer; when it breaks, or the process ends, all that are not answered are sent
again (remote_store.cc:422-430), whatever the server has done with them and whatever
other devices have done since. `applied` says whether a write was applied on this
connection, on an earlier one, or not yet. An update of a document that is gone is
refused, a delete is not, and a creation makes it: `revived` has the announcements a
repeated creation has brought back and nobody has deleted since, `drawn` the ids each
device has published. After a deletion the code reloads
`MyAnnounceVC.shared`, which is on no screen (MyAnnounceEditController:201), so
`CloseEditor` leaves the rows as they are.

`AnnouncementLives` knows no rows, editors, queues or callbacks: an order is a write
without its callback, and a device reports a deletion while its editor shows the
alert. Two equal edits or deletions of one device are one order, which may be
carried out twice, so an order that is answered need not be settled yet; a creation is
ordered once. An announcement comes back only through a creation that is not
settled, and the device that has published it never reports a deletion of what is
there: its own creation is answered before its own deletion. OnlyOwnersChange, which
is proved but not run, follows from it; what the refinement adds is that every change
of the board is one that a device of the owner has in its queue at that moment, with
that text.

### Profile

One tap on save makes a queued write and an Auth request. The requests of a
device are carried out one after the other (FIRUser.m:491-545), the writes are
sent in order and all of them again when the stream has been broken
(remote_store.cc:422-430). `lastSaved` is a history variable: what the last tap on
save, on any device, has saved. `FieldsSnapshot` writes over what is being typed.
`EditingOn` names the devices on which the editor is opened.

### Feeds

`past` is the history of the board on the server. A query that reaches the server is
answered with the board as it is. Offline it is answered from the document cache
(local_documents_view.cc:143-188), with an empty list if that has nothing and without
an error (query_listener.cc:127-152). All queries of the device share that cache, which
is `cached`: for each document, the moment it is from. `Fetch` brings what matches on
the server up to date, and what matches in the cache only, which is looked up before
the query counts as answered (view.cc:320-395). `Learn` is everything else that brings
a single document up to date: the query of one's own announcements (Service:103), the
editor's listener, the acknowledgement of an own write (local_store.cc:209-231). So an
offline list may join documents that never were on the board together, and what it
shows of each is a moment of its own. The answer
waits in `answers` for the main queue, which downloads the photos before it
replaces the rows. `broken` is the set of documents whose photo does not arrive.
An answer whose screen has been replaced (`live` is false) still runs, on rows that
nobody sees. `source` says who has answered what a list shows. `seen` is a history
variable: the latest moment from which its list has shown a document or shown that
there is none, kept when the screen goes, so that not to go back is said of what the
reader has seen across sign-outs and restarts and not of one screen only.
`LatestOfEach` is that a list is the listing of exactly these.

`BoardReader` has no cache, no answers under way and no photos: the board changes, a
list is opened, shows each of its announcements at a moment that is no older than what
it has shown of it, the same moment for all if the server was asked, or all lists are
closed. The mapping forgets the photos of the rows. `ClosedAssumption`
says that a closed list is told from every list of rows.

### VetsMap

`due` is a change of authorization the manager has yet to tell; `Status` is
`denied` when location services are off. `overtaken` remembers which clinics'
requests were under way at the last tap. A route needs a location and no permission
(MapController:148): the manager keeps the last one it has found (`Located`).

### WritePipeline

The other modules take for granted that a write is queued on disk, sent in order
and answered. This one looks at how. `queue` is the mutation queue of each user
(leveldb_mutation_queue.cc), `nextId` the id a batch gets next, which starts after
the largest id that is left when the process does. `pipeline` is RemoteStore's;
`FillWritePipeline` is part of every action whose code calls it. `stream` is one of
`Initial`, `Starting`, `Open`, `Error` and `Backoff` (stream.h:86-127; `Healthy`
differs from `Open` in the next delay only) and `closes` its count of closes, by
which a late token is known. `conn` is the connection: whose token it was opened
with, what the server has not read of it (`requests`), what it has answered and the
client has not read (`replies`), and whether the server has ended it. `auth` is the
current user of Firebase Auth, `notices` what its listeners are yet to be told,
`tokens` the calls of GetToken that are outstanding, and `tasks` what the
credentials provider has put on the worker queue: a change of user
(`HandleCredentialChange`) or a token (`ResumeStartWithCredentials`). `callbacks` is
kept by user and batch id as in sync_engine.h, `answers` is what the application was
told, each telling with whether the application had been told of that write before
(`again`). Each action is one block of the worker queue, one step of Auth or of the
server, or one event outside them. `Crash` and `CrashBeforeAcknowledging`, which
ends the process between the callback and the removal of the batch
(sync_engine.cc:352-361), keep the queues and lose the rest.

`WriteQueue` knows nothing of ids, tokens, streams or pipelines: a write is made,
applied (again, when its answer was lost), denied, and its maker is told. The
refinement mapping counts the writes that are answered and forgotten; what the
server has carried out but not answered is what `WriteQueue` may carry out again.

What the other modules take for granted is stated and proved here. That only the
first write not yet applied is applied next (`CommitWrite` of `Publish`, `Apply` of
`MyAnnouncements`, the queue of `Profile`) is `AppliedInOrder`; that an
acknowledgement is of a write that has been applied is `ToldOnceAndTruly`; that a
queue cannot get stuck is `AllDoneAtRest`. A refusal there may also fall on a write
that has been applied, as the run `write_refusals` shows that it does.

## 3. The runs

| Run | Instance | Shows |
|---|---|---|
| `publish_accounts` | 2 accounts, 2 taps, 2 screens, 1 photo | TypeOK, LiveScreens, PostedAsSubmitted, AtMostOnePost, AlertsTellTheTruth, StatusAsSeen |
| `publish_progress` | 1 account, 2 taps, 2 photos, fairness | `Publish` implements `Board` (ImplementsBoard); UploadSettles, QueuedWriteSettles |
| `session` | 2 accounts, 2 names, 2 requests, fairness | TypeOK, WindowFollowsUser, ProfileAsRegistered, WindowCatchesUp |
| `session_unwrap` | the same | **violated**: `user!` (Service:103) after a sign-out |
| `my_announcements` | 2 devices of one account and 1 of another, 2 announcements of 2 owners, 1 text, 2 creations, 2 edits or deletions | TypeOK, DeletedMeansGone, OnlyRepeatsRevive; `MyAnnouncements` implements `AnnouncementLives` (ImplementsLives) |
| `my_announcements_edit` | the same with 2 texts | **violated**: "Изменено успешно" for an edit that is given up |
| `profile` | 2 devices (one edits), 2 addresses, 3 saves | TypeOK, EmailsAgree |
| `feeds` | 2 announcements, 2 texts, 3 moments, 2 refreshes | TypeOK, LatestOfEach; `Feeds` implements `BoardReader` (ImplementsReader) |
| `feeds_photo` | the same | **violated**: `UIImage(data: imgData)!` (Service:84) |
| `vets_map` | 3 clinics, 2 requests each, fairness | TypeOK, NoOldRoutes, PermissionIsUsed |
| `write_pipeline` | 2 accounts, 3 writes, a pipeline of 2, 1 wait, 2 faults, fairness | TypeOK, PipelineIsFront, ResultsInStep, NeededIsStarted, TokenIsComing, SentAsTheirUser, IdsName, ToldOnceAndTruly, DoneStaysDone, NothingLost, AppliedInOrder, WaitsForThoseBefore, QueueDrains, WaitsEnd; `WritePipeline` implements `WriteQueue` (ImplementsPromise) |
| `write_refusals` | 1 account, 3 writes, a pipeline of 3, no faults | **violated**: a write is told to be refused that the server has applied |

No run has more than two million distinct states. Deadlock is checked except where
the user may simply have used up the taps or writes of the instance.

### The four violated runs

Each states what the code itself asserts or announces, and TLC shows a behaviour
of the code that breaks it.

1. `SomebodyToUnwrap`. The current user is gone before the block that takes the
   tab bar away has run; a tap on "Мои объявления", or a refresh, evaluates
   `user!` in between. It happens at no other time: that is the theorem
   `UnwrapsOnlyUntoldHolds`.
2. `AnnouncedEditsAreSaved`. The alert comes with the call of `updateData`, whose
   completion only prints (MyAnnounceEditController:164-170); another device has
   deleted the document.
3. `PhotoToUnwrap`. The catch block prints and goes on with empty data
   (Service:72-84); the list of missing pets falls back on the icon (Service:44).
4. `RefusedWasDenied`. "If this was a permanent error, the request itself was the
   problem" (remote_store.cc:513): the status of a call that has ended is taken for
   that of the first write of the pipeline. The status is asked for as soon as any
   operation of the call fails (grpc_stream.cc:312-323), and answers that arrived
   before it are then dropped unread: the first write may be one the server has
   applied.

Also seen while modelling, with no property of their own: a deleted announcement can
come back, under the alert "Запись удалена успешно", when the device that published it
has lost the answer to the creation and sends it again (`OnlyRepeatsRevive` and
`DeletedMeansGone` name the case; without it TLC finds both violated within twelve
steps); the sheet "Изменения
сохранены успешно" is shown without the results of the two writes it announces
(ProfileEditingController:117-136), and the alert for a failure is dropped while the
sheet is up; the alert "Ошибка" after
a successful password reset (ProfileEditingController:141-143); the title listener
of MyAnnounceEditVC is never removed; a second publish clears the form the user
has gone on typing in (AddController:226); a map shown while location services are
off never becomes the delegate of its manager (MapController:56-60), so switching
them on has no effect until it is shown again; two devices saving a profile at the
same time can leave its two addresses different without any failure.

### Bounds, and why they are enough

* `Taps`, `Screens`, `Users` (2 each): the properties relate two chains, two
  screens or two accounts. Nothing in the code counts above that: a chain reads
  its own tap, the screen it holds and the current session. Two taps in the same
  millisecond are excluded (object names are the tap's).
* `Requests` (2): a late answer and the request that overtakes it. The three
  safety properties are proved for any number.
* `MaxWrites`, `MaxSaves`, `MaxRequests`, `MaxAsks` bound how much is under way.
  Two edits or deletions give every pair (from the same or another device, before or
  after), next to the creation of the announcement, which `MaxWrites` does not count;
  three saves give a queue whose middle is sent again.
* `AllThree`, `DeskOnlyPublishes`: phone and tablet belong to the account whose
  announcement is edited, desk to another one. The constraint keeps the screens of desk
  closed: it publishes, its creation is sent, lost and sent again, and that is all the
  other two can see of it, through a filter that has forgotten its owner. One text is
  enough: with it a stale row differs from a fresh one by being there. Two devices of
  one account, one announcement and two texts were checked as well, once (1.4 million
  states), with the same result. The theorems know neither the constraint nor the bounds.
* `MaxAsks` (2) counts the refreshes of both lists: two of one list overlap, or one of
  each; the lists share nothing but the board and the main queue, and the proofs hold
  for any number.
* `MaxMoments` (3): the board changes twice under the feeds: two posts, in either
  order of their dates, or a post and its update or deletion. A deleted announcement
  that is made once more needs four: one announcement and five moments were checked
  once (0.7 million states), with the same result, and the theorems allow any number.
* `EditingOn`: one device edits the profile, the other shows the label.
* `Writes`, `Limit`, `MaxFaults`, `MaxWaits`: three writes and a pipeline of two (of
  ten in the code, remote_store.cc:46) make a queue that is longer than the
  pipeline, so that it is refilled from the middle; two faults are, for example, a
  connection that breaks after the server has applied a write and a crash while it
  is sent again. The safety properties are proved for any number of each.
* Symmetry is used for accounts, texts and addresses in runs without fairness.

### Fairness, and why the code justifies it

* `publish_progress`: Storage ends every upload with success or an error (it
  retries for a limited time only), its callbacks run, and Firestore keeps sending
  the first write of an account that is signed in until it hears of it. Nothing is
  assumed of the user, of sign-ins or of restarts.
* `session`: a running process drains its main queue and finishes reading the
  keychain.
* `vets_map`: the manager's callback is delivered once there is a delegate.
* `write_pipeline`: the worker queue runs its blocks, its timers fire, Auth answers
  a request for a token, a started process opens its database, and a server that
  has a connection reads and answers what is sent on it. Nobody has to write, to
  wait, to change the user or to switch the network on; faults end because
  `MaxFaults` bounds them.

### Abstractions

* Texts, photos, names and addresses are model values; required fields are one
  value that is blank or filled.
* One device's cached reads are left out, except in `Feeds`: `Load` in
  `MyAnnouncements` reads the board as it is, with the device's own queue on top.
* `Feeds`: no write of the device's own is under way while a list is fetched. What that
  leaves out is the overlay of queued writes on a list, which is not looked up
  (view.cc:333), an acknowledgement that arrives after another device has changed or
  deleted the document, and that of an edit of a document the cache holds for deleted. The cache
  keeps what it has learned: its collection, which drops documents of queries that have
  not been asked for long, is left out. Of the sheet only whether it is in front.
* `MyAnnouncements`: what the server still applies of a connection that was given up
  counts as applied before that, as in `WritePipeline`.
* Two queries of one screen that wait for the same documents count as one in
  `MyAnnouncements`. Its photos, and hence the crash at Service:132, are left to
  `Feeds`.
* The account does not change while its profile is on the screen (`Profile`); the
  interplay of screens and sessions is in `Session` and `Publish`.
* The server applies a write only while its account's session is active; queue
  and session change together.
* `Profile` knows that an alert is up, not which one.
* `WritePipeline`: what the server still applies of a connection that was given up
  counts as applied before that; an answer of the server that is read late is the
  connection's `answers`. Documents, stream tokens (stored and sent back unread),
  transactions, bundles and the length of the delays are left out.
* "Always" is not among the permissions: Info.plist only asks for "when in use".

## 4. The proofs

All theorems are of the form `Spec => []P`, `Spec => [][A]_vars` or, for a
refinement, `Spec => Abstract!Spec`, and rest on the
named assumptions on constants (`PublishAssumption`, `SessionAssumption`,
`AnnouncementsAssumption`, `ClosedAssumption` (of `MyAnnouncements` and of `Feeds`),
`ProfileAssumption`, `FeedsAssumption`, `MapAssumption`, `WritePipelineAssumption`),
which TLC evaluates in the runs. They say nothing of bounds: any number of accounts,
taps, devices, requests, clinics.

**PublishProofs.** `TypesHold`, `ScreensLive`, `PostedAsSubmittedHolds`,
`AtMostOnePostHolds`, `AlertsTellTheTruthHolds`, `StatusAsSeenHolds` and
`BoardImplemented`: `Publish` implements `Board`. `TypeOK` is
not inductive by itself: a callback writes to the screen of its tap, which must
not have been released, so it is proved together with `LiveScreens`. The
inductive invariant `SafetyInv` adds that a document repeats its tap and that the
tap's chain has got far enough to make it (`DocumentsFollowTaps`), that an object
in Storage is the photo of the tap it is named after and is there once the upload
is over (`ObjectsFollowTaps`), that what the user was told agrees with the stage
and the board (`TellingFollowsTaps`), and that the form shows the status last seen
while the photo is under way (`SeenFollowsForm`). A lemma reduces the actions to
how far one chain advances, so that each part is proved once per kind of step.
The refinement is proved from what a step does to the fate of each submission (on
the board, on its way, dropped): one tap submits, the server's write commits, and
every other step leaves the board alone, because a chain that ends without a
document has none queued.

**SessionProofs.** `TypesHold`, `WindowFollowsUserHolds`,
`ProfileAsRegisteredHolds`, `UnwrapsOnlyUntoldHolds`. `ListenerInv` says that the
window shows what the listener was last told, and that it was told of the current user unless a
notification is in the main queue. `ProfileInv` says that a sign-up that succeeded
is the one that created its account, which is why its answer may write the name.
That `user!` meets nobody only while a notification waits follows from `ListenerInv`
and from `WindowRuns`, a window being up only in a process that runs: with no
notification left the tabs on the screen are those of the current user, so there is
one.

**MyAnnouncementsProofs.** `TypesHold`, `OnlyRepeatsReviveHolds`,
`OnlyOwnersChangeHolds`, `DeletedMeansGoneHolds` and `LivesImplemented`:
`MyAnnouncements` implements `AnnouncementLives`. The invariant follows the copies:
rows, editors and writes of a device are about announcements of its account
(`RowsOwn`, `EditorsSound`), a write whose editor is still open is that editor's, and a
delete whose answer is due has left no document (`WritesBacked`). What repeated
creations do to that is the rest of it: an id is drawn by one device (`DrawnOnce`), so
there is one creation of it, in one queue; what that queue does to the document comes
after the creation, and the answers that are due are those of its front
(`QueuesOrderly`). So a creation that was never applied has no document and cannot
bring one back, a delete whose answer is due has its creation behind it, and only
another device can undo it, by making the announcement once more: that is `Gone`, which
no step takes away from a device but the application of its own creation. The same
invariant carries the refinement: two lemmas say what a step does to the orders of a
device (adds one at the end of its queue, marks one as applied, removes the
first, which may leave an equal edit or deletion behind, forgets answers, or nothing)
and to its report, and each action is then one of the promise's.

**ProfileProofs.** `TypesHold`, `EmailsAgreeHolds`. That the addresses agree when
both queues are empty says nothing while they are not. What agrees all the time is
where the queues lead (`Agreement`): the address of the last queued write, or the
document's, and that of the last request, or the account's. It needs that no other
device is saving (`OneSaver`) and that the document is what the last write said once
that has been applied (`LastApplied`), because an acknowledged write leaves the
queue. It says in addition that the document the queue leads to is what was saved
last, name and address, so that when everything is quiet it is not one of an earlier
tap, although the writes may have been sent more than once. `UncheckedTapSave` breaks the type, `OvertakingEmailChanged` the agreement.

**FeedsProofs.** `TypeCorrect`, `LatestOfEachHolds`, `ListedOnly` and
`ReaderImplemented`: `Feeds` implements `BoardReader`. Two lemmas
say that a query has an answer: a finite set of dates can be listed from the newest
to the oldest (`Descending`: each has its place, the number of those not older, and
places are a bijection), so `Listing` is such a list. The rest is about the order
of what is under way. Documents are from moments of their own, so the order is one for
each list, of the moments of its announcements: `Upto` says that one answer is nowhere
earlier than another as far as the list can tell, `Follows` that it is later than what
the list has shown, also in what it does not show if the server has answered. The
answers of a list stand in the main queue in that order (`InOrder`), each follows what
the list has shown (`NoneOlder`), and the cache, from which a query is answered offline,
is up to date with all of it (`CacheLatest`), whatever else it learns: `Learn` and
`Fetch` only ever take a document to the present moment. That is why an
offline answer after a restart does not go back, and why showing the first answer makes
the list the listing of `seen`. `KeepsStatus`, that an announcement stays in its list,
also when it is made once more, is what lets each list be looked at alone. The
refinement needs in addition that no
live refresh is under way for a list that is closed (`LiveOpen`): the screens of a
user who has gone take their answers with them. `ListedOnly` says that
`LatestOfEach` leaves nothing open: two descending lists of one set are equal
(`OneDescending`, by the least place at which they would differ), so the rows are the
one listing of what they show.

**VetsMapProofs.** `TypesHold`, `NoOldRoutesHolds`, `UsedOnceToldHolds`. What can still be drawn was
asked for last or was under way at the last tap (`PendingKnown`). `UsedOnceToldHolds`: when the
manager has told its delegate everything, a permission that is given is in use,
whether it was given before the map was shown, in the dialogue or in the Settings.

**WritePipelineProofs.** `TypeCorrect`, `FrontOfTheQueue`, `Correlated`,
`StreamWhenNeeded`, `OneTokenComes`, `IdsAreNames`, `ToldOnceAndTrulyHolds`,
`DoneStaysDoneHolds`, `NothingLostHolds`, `WaitsForThoseBeforeHolds`,
`SentAsTheirUserHolds`, `OneNextIdHolds`, `AppliedInOrderHolds`,
`AllDoneAtRestHolds` and `PromiseKept`: `WritePipeline` implements `WriteQueue`.
The inductive invariant `Inv` has four parts that lean on each other: the types;
`QueuesInv` (a queue is in the order of its ids, ids and callbacks name one batch
each); `StreamInv` (the pipeline is the front of the current user's queue, what is
under way on the connection is the pipeline in its order, and a stream is on its way
whenever the pipeline is not empty) and
`TokenInv` (what a starting stream waits for is the latest token asked for).
`ToldOnceAndTruly` and `DoneStaysDone` need `DeliveryInv` on top: an answer on a
connection is true (`RepliesTrue`), and so is what the application was told
(`AnswersTrue`), of a write that has a callback no more once it was told of, and so
never again. The refinement is proved action by action: `Numbers` maps
a queue of batches to the numbers of its writes, and each action is shown to take
those from the front, to add one at the end, or to leave them alone.
`NothingLost` is not inductive: on an error the client gives up the first write of
the pipeline, and the server has turned down some write. That it is the same one is
`DeniedInv`, about the call on which the client is yet to see the error: the batch
behind those whose answers on it are still unread is the one that was turned down. The run
`write_refusals` does not contradict it: the client may take the error for an earlier
write, but only for one that the server has applied. `OneNextId` shows that
the choice of the next batch id, which a restart and a change of user depend on, is
never empty and never a choice: the smallest bound of a finite set of ids is one more
than one of them, by well-founded descent.
`WaitsForThoseBefore` follows because a callback is kept under the largest id of the
writes it waits for (`AwaitedInv`). `SentAsTheirUser` says nothing while a change of
user is on its way; `CredentialsInv` does: what the listener hears last is the
current user, from then on every token is that user's, and so is the last change in
the worker queue and every token behind it, so that the stream is opened with the
right one once the queue has come that far.
`AppliedInOrder`, that the server has applied a front of every queue, is proved with
`OrderInv` on top of `DeliveryInv`: the server carries out the first request it has not
read; the requests are the pipeline from the first write that has no answer on this
connection, and those before it have answers that say they were applied
(`RepliesTrue`), so the front grows at its end, also when all of it is sent again. A
new write is in no front because only writes that were made have been applied.
`AllDoneAtRestHolds`: with the network on and nothing on its way (no notification,
token, task, timer, request or answer), the queue of the user is empty, that user is
the one signed in, and nobody is waiting. `StreamInv` leaves no other place to rest
for a pipeline that is not empty, `CredentialsInv` none for a change of user, and a
wait is for a write that is still queued (`WaitsForOne`).

Model-checked only: liveness (WindowCatchesUp, UploadSettles, QueuedWriteSettles,
PermissionIsUsed, QueueDrains, WaitsEnd), which the prover does not reach. What is
proved of four of them is that there is no state to get stuck in: with nothing left
under way the goal is reached (`WindowFollowsUserHolds` for WindowCatchesUp,
`UsedOnceToldHolds` for PermissionIsUsed, `AllDoneAtRestHolds` for QueueDrains and
WaitsEnd). That what is under way comes to an end is what TLC checks.

## 5. Not modelled

Layout, titles, fonts, the keyboard, logging; the table cell; the call button; the
map's camera; the constant table of clinics; StorageManager, which nothing calls;
the title listener of the announcement editor. Of the vendored SDKs only what the
application relies on is modelled, where it relies on it and from their source:
current user and listeners, request and write queues, one-shot queries, uploads,
and in `WritePipeline` the way of a write through Firestore's core.

## 6. Plan

The order was: publishing, the heart of the application; sessions, which cut
through every other part; one's own announcements; profile; lists; map. Left:

1. Composition of `Session` with `Profile`: the registration whose screen is gone
   leaves an account without a document, and its profile stays empty.
2. Composition of `Publish` with `Feeds` and `MyAnnouncements` on one board, with the
   device's own queue in the lists it shows.
