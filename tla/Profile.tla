------------------------------ MODULE Profile ------------------------------
(***************************************************************************)
(* The profile of one account, on the devices it is signed in on: ProfileVC*)
(* with its label, ProfileEditingVC, the account's document in "Users" and *)
(* its e-mail address in Firebase Auth.                                    *)
(*                                                                         *)
(* The address is kept twice.  One tap on the save button starts a queued  *)
(* write to the document, which survives the process, and a request to     *)
(* Auth, which does not; success is announced before either has been sent. *)
(* Snapshot listeners show every change of the document, also while the    *)
(* user types.                                                             *)
(***************************************************************************)
EXTENDS Naturals, Sequences, SequencesExt

CONSTANTS
  Devices,
  Names, Emails,
  Blank,        \* an empty text field
  NoDoc,        \* the account has no document (RegistrationVC was gone too soon)
  Closed,       \* a screen that is not open
  EditingOn,    \* bound: the devices on which the editor is opened
  MaxSaves      \* bound: the saves of all devices

ASSUME ProfileAssumption ==
  /\ Blank \notin Names \cup Emails
  /\ Devices # {}
  /\ EditingOn \subseteq Devices
  /\ MaxSaves \in Nat

VARIABLES
  document,   \* the account's document in "Users" on the server
  account,    \* its address in Auth on the server
  label,      \* nameLbl of ProfileVC, per device
  editor,     \* ProfileEditingVC, per device
  queue,      \* Firestore's writes, per device
  requests,   \* updateEmail requests, per device
  saves,      \* how many taps on save there have been
  lastSaved,  \* what the last of them saved, NoDoc before the first (history)
  strayed     \* one half of a save may have failed alone, or two devices have
              \* saved at the same time (history)

vars ==
  <<document, account, label, editor, queue, requests, saves, lastSaved, strayed>>

-----------------------------------------------------------------------------
Profile == [name : Names, email : Emails]

\* heard: what the listener was last given.  alert: one of the screen's alerts is up,
\* which covers the fields and keeps another from being shown.  resetting: a new
\* password has been asked for.
Editor ==
  [name : Names \cup {Blank}, email : Emails \cup {Blank}, alert : BOOLEAN,
   heard : Profile \cup {NoDoc, Blank}, resetting : BOOLEAN]

Write == [to : Profile, applied : BOOLEAN]

\* live: the editor that made the request is still on the screen.
Request == [email : Emails, live : BOOLEAN]

EmptyEditor ==
  [name |-> Blank, email |-> Blank, alert |-> FALSE, heard |-> Blank, resetting |-> FALSE]

Init ==
  /\ account \in Emails
  /\ document \in {p \in Profile : p.email = account} \cup {NoDoc}
  /\ label = [d \in Devices |-> Closed]
  /\ editor = [d \in Devices |-> Closed]
  /\ queue = [d \in Devices |-> <<>>]
  /\ requests = [d \in Devices |-> <<>>]
  /\ saves = 0
  /\ lastSaved = NoDoc
  /\ strayed = FALSE

-----------------------------------------------------------------------------
(***************************************************************************)
(* What a device sees of the document: the server's, as its own queued     *)
(* writes will leave it.  An update does not make a document.              *)
(***************************************************************************)
View(d) ==
  IF document = NoDoc \/ queue[d] = <<>> THEN document ELSE Last(queue[d]).to

\* setName's listener.
LabelSnapshot(d) ==
  /\ label[d] # Closed
  /\ View(d) # NoDoc
  /\ label[d] # View(d).name
  /\ label' = [label EXCEPT ![d] = View(d).name]
  /\ UNCHANGED <<document, account, editor, queue, requests, saves, lastSaved, strayed>>

\* setCurrentDataToTextFields' listener: over whatever has been typed.
FieldsSnapshot(d) ==
  /\ editor[d] # Closed
  /\ editor[d].heard # View(d)
  /\ editor' = [editor EXCEPT ![d] =
       IF View(d) = NoDoc THEN [editor[d] EXCEPT !.heard = NoDoc]
       ELSE [editor[d] EXCEPT !.heard = View(d), !.name = View(d).name, !.email = View(d).email]]
  /\ UNCHANGED <<document, account, label, queue, requests, saves, lastSaved, strayed>>

-----------------------------------------------------------------------------
(***************************************************************************)
(* The user.                                                               *)
(***************************************************************************)
\* The tab is selected for the first time.
OpenProfile(d) ==
  /\ label[d] = Closed
  /\ label' = [label EXCEPT ![d] = Blank]
  /\ UNCHANGED <<document, account, editor, queue, requests, saves, lastSaved, strayed>>

Edit(d, e) ==
  /\ editor' = [editor EXCEPT ![d] = e]
  /\ UNCHANGED <<document, account, label>>

AtEditor(d) == editor[d] # Closed /\ ~editor[d].alert

Quiet(d) == UNCHANGED <<queue, requests, saves, lastSaved, strayed>>

\* profileEditTapped pushes a new ProfileEditingVC.
OpenEditor(d) ==
  /\ d \in EditingOn
  /\ label[d] # Closed
  /\ editor[d] = Closed
  /\ Edit(d, EmptyEditor)
  /\ Quiet(d)

Orphaned(rs) == [k \in DOMAIN rs |-> [rs[k] EXCEPT !.live = FALSE]]

CloseEditor(d) ==
  /\ AtEditor(d)
  /\ Edit(d, Closed)
  /\ requests' = [requests EXCEPT ![d] = Orphaned(@)]
  /\ UNCHANGED <<queue, saves, lastSaved, strayed>>

Type(d, n, e) ==
  /\ AtEditor(d)
  /\ Edit(d, [editor[d] EXCEPT !.name = n, !.email = e])
  /\ Quiet(d)

Filled(d) == editor[d].name # Blank /\ editor[d].email # Blank

\* saveBtnTapped, a field is empty: "Заполните все поля!"
TapIncomplete(d) ==
  /\ AtEditor(d)
  /\ ~Filled(d)
  /\ Edit(d, [editor[d] EXCEPT !.alert = TRUE])
  /\ Quiet(d)

Saving(d) == queue[d] # <<>> \/ requests[d] # <<>>

\* The rest of saveBtnTapped: updateData, updateEmail and, without waiting for
\* either, "Изменения сохранены успешно".
Save(d) ==
  /\ saves < MaxSaves
  /\ saves' = saves + 1
  /\ lastSaved' = [name |-> editor[d].name, email |-> editor[d].email]
  /\ queue' = [queue EXCEPT ![d] = Append(@, [to |-> lastSaved', applied |-> FALSE])]
  /\ requests' = [requests EXCEPT ![d] = Append(@, [email |-> editor[d].email, live |-> TRUE])]
  /\ Edit(d, [editor[d] EXCEPT !.alert = TRUE])
  /\ strayed' = (strayed \/ \E other \in Devices \ {d} : Saving(other))

\* Fault: the fields are not looked at.
UncheckedTapSave(d) == AtEditor(d) /\ Save(d)

TapSave(d) ==
  /\ AtEditor(d)
  /\ Filled(d)
  /\ Save(d)

DismissAlert(d) ==
  /\ editor[d] # Closed
  /\ editor[d].alert
  /\ Edit(d, [editor[d] EXCEPT !.alert = FALSE])
  /\ Quiet(d)

\* sendNewPasswordBtnTapped: "Письмо выслано", before the mail has been asked for.
\* One request at a time.
TapReset(d) ==
  /\ AtEditor(d)
  /\ ~editor[d].resetting
  /\ Edit(d, [editor[d] EXCEPT !.alert = TRUE, !.resetting = TRUE])
  /\ Quiet(d)

\* Its completion: "Ошибка", whether there is an error or not, unless another
\* alert is up.
ResetAnswered(d) ==
  /\ editor[d] # Closed
  /\ editor[d].resetting
  /\ Edit(d, [editor[d] EXCEPT !.resetting = FALSE, !.alert = TRUE])
  /\ Quiet(d)

-----------------------------------------------------------------------------
(***************************************************************************)
(* Auth: the requests of a device are carried out one after the other.     *)
(***************************************************************************)
\* The k-th request is answered, and its callback has an alert to show or not.
Answered(d, k, shown) ==
  /\ requests' = [requests EXCEPT ![d] = RemoveAt(@, k)]
  /\ editor' = IF shown /\ requests[d][k].live /\ AtEditor(d)
                 THEN [editor EXCEPT ![d].alert = TRUE] ELSE editor
  /\ UNCHANGED <<document, label, queue, saves, lastSaved>>

\* Fault: the requests overtake each other.
OvertakingEmailChanged(d) ==
  \E k \in DOMAIN requests[d] :
    /\ account' = requests[d][k].email
    /\ Answered(d, k, FALSE)
    /\ UNCHANGED strayed

EmailChanged(d) ==
  /\ requests[d] # <<>>
  /\ account' = Head(requests[d]).email
  /\ Answered(d, 1, FALSE)
  /\ UNCHANGED strayed

\* The address is changed, and the answer lost: the callback gets an error.
EmailChangedUnheard(d) ==
  /\ requests[d] # <<>>
  /\ account' = Head(requests[d]).email
  /\ Answered(d, 1, TRUE)
  /\ strayed' = TRUE

\* A log-in too long ago, an address that is taken or malformed, the network.
EmailRefused(d) ==
  /\ requests[d] # <<>>
  /\ Answered(d, 1, TRUE)
  /\ strayed' = TRUE
  /\ UNCHANGED account

-----------------------------------------------------------------------------
(***************************************************************************)
(* Firestore: the writes of a device are sent in order, and all of those   *)
(* that are not answered again when the stream has been broken.            *)
(***************************************************************************)
Apply(d, k) ==
  /\ \A j \in 1..(k - 1) : queue[d][j].applied
  /\ document # NoDoc
  /\ document' = queue[d][k].to
  /\ queue' = [queue EXCEPT ![d] =
       [i \in DOMAIN queue[d] |-> [queue[d][i] EXCEPT !.applied = i <= k]]]
  /\ UNCHANGED <<account, label, editor, requests, saves, lastSaved, strayed>>

Dequeue(d) ==
  /\ queue[d] # <<>>
  /\ queue' = [queue EXCEPT ![d] = Tail(@)]
  /\ UNCHANGED <<document, account, label, editor, requests, saves, lastSaved>>

Acknowledge(d) ==
  /\ Dequeue(d)
  /\ Head(queue[d]).applied
  /\ UNCHANGED strayed

\* A permanent error, NOT_FOUND for one; the callback only prints.
Refuse(d) ==
  /\ Dequeue(d)
  /\ strayed' = TRUE

\* The process ends with the requests; only the queue is on disk.
Kill(d) ==
  /\ label' = [label EXCEPT ![d] = Closed]
  /\ editor' = [editor EXCEPT ![d] = Closed]
  /\ requests' = [requests EXCEPT ![d] = <<>>]
  /\ strayed' = (strayed \/ requests[d] # <<>>)
  /\ UNCHANGED <<document, account, queue, saves, lastSaved>>

-----------------------------------------------------------------------------
UserStep(d) ==
  \/ OpenProfile(d) \/ OpenEditor(d) \/ CloseEditor(d)
  \/ \E n \in Names \cup {Blank}, e \in Emails \cup {Blank} : Type(d, n, e)
  \/ TapIncomplete(d) \/ TapSave(d) \/ DismissAlert(d) \/ TapReset(d)

AuthStep(d) ==
  \/ EmailChanged(d) \/ EmailChangedUnheard(d) \/ EmailRefused(d)
  \/ ResetAnswered(d)

FirestoreStep(d) ==
  \/ LabelSnapshot(d) \/ FieldsSnapshot(d)
  \/ \E k \in DOMAIN queue[d] : Apply(d, k)
  \/ Acknowledge(d) \/ Refuse(d)

Next == \E d \in Devices : UserStep(d) \/ AuthStep(d) \/ FirestoreStep(d) \/ Kill(d)

Spec == Init /\ [][Next]_vars

-----------------------------------------------------------------------------
\* Every variable has its type; in particular nothing empty is ever saved.
TypeOK ==
  /\ document \in Profile \cup {NoDoc}
  /\ account \in Emails
  /\ label \in [Devices -> Names \cup {Blank, Closed}]
  /\ editor \in [Devices -> Editor \cup {Closed}]
  /\ queue \in [Devices -> Seq(Write)]
  /\ requests \in [Devices -> Seq(Request)]
  /\ saves \in 0..MaxSaves
  /\ lastSaved \in Profile \cup {NoDoc}
  /\ strayed \in BOOLEAN

\* Once everything has been carried out the two copies of the address agree, and
\* both are those of the last tap on save, however many saves of a device
\* overlapped (saveBtnTapped), unless one half of a save failed alone, or saves of
\* two devices met.
EmailsAgree ==
  ~strayed /\ document # NoDoc /\ (\A d \in Devices : ~Saving(d)) =>
    /\ document.email = account
    /\ lastSaved # NoDoc => document = lastSaved
=============================================================================
