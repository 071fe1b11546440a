------------------------------ MODULE Session ------------------------------
(***************************************************************************)
(* Who is signed in and what the window shows: SceneDelegate's listener,   *)
(* AuthVC, RegistrationVC, the logout button of ProfileVC and FIRAuth.     *)
(*                                                                         *)
(* FIRAuth changes the current user on a work queue of its own and tells   *)
(* the app by blocks on the main queue, run in order: a notification that  *)
(* reads the user when it runs, then the callback of the request.  Between *)
(* the change and the blocks the window still shows the screens of before, *)
(* and the first block may release the screen that the second one holds    *)
(* weakly.  The forms' buttons are never disabled, so several requests may *)
(* be under way.                                                           *)
(***************************************************************************)
EXTENDS Naturals, Sequences, SequencesExt

CONSTANTS
  Accounts,   \* e-mail addresses, each with the user registered under it
  NoUser,     \* nobody is signed in
  Names,      \* display names
  NoName,     \* the account, or its document in "Users", does not exist
  Requests,   \* the sign-in and sign-up requests that are made
  NotHeard    \* the listener has not been called yet

ASSUME SessionAssumption ==
  /\ NoUser \notin Accounts
  /\ NoName \notin Names
  /\ NotHeard \notin Accounts \cup {NoUser}

VARIABLES
  running,     \* the process
  saved,       \* the user in the keychain
  restored,    \* FIRAuth has read it; from then on it is the current user
  main,        \* the blocks on the main queue
  heard,       \* previousUserID of the listener
  window,      \* the root view controller
  tabsOf,      \* the user the tab bar's controllers have read
  over,        \* what is presented over AuthVC
  requests,    \* the requests, by their number
  registered,  \* the server's accounts, with the name typed for each (history)
  profiles,    \* the collection "Users": the name in each account's document
  unwrapped    \* user! has been evaluated with nobody signed in (history)

server == <<registered, profiles>>
auth == <<saved, restored>>
ui == <<window, tabsOf, over>>
vars == <<running, auth, main, heard, ui, requests, server, unwrapped>>

-----------------------------------------------------------------------------
Users == Accounts \cup {NoUser}

Current == IF restored THEN saved ELSE NoUser

\* live: the callback's weak reference to its view controller still holds.
Request ==
  [op : {"login", "register"}, account : Accounts, name : Names \cup {NoName},
   live : BOOLEAN, stage : {"sent", "answered", "done"}]

NotMade == [stage |-> "idle"]

Notification == [kind |-> "notify"]

Answer(r, ok) == [kind |-> "answer", request |-> r, ok |-> ok]

Blocks == {Notification} \cup {Answer(r, ok) : r \in Requests, ok \in BOOLEAN}

Covers == {"none", "alert", "mismatch", "registration", "registration alert"}

Init ==
  /\ running = FALSE
  /\ saved = NoUser
  /\ restored = FALSE
  /\ main = <<>>
  /\ heard = NotHeard
  /\ window = "none"
  /\ tabsOf = NoUser
  /\ over = "none"
  /\ requests = [r \in Requests |-> NotMade]
  /\ registered = [a \in Accounts |-> NoName]
  /\ profiles = [a \in Accounts |-> NoName]
  /\ unwrapped = FALSE

-----------------------------------------------------------------------------
(***************************************************************************)
(* The process.                                                            *)
(***************************************************************************)
\* scene(_:willConnectTo:): an empty window and a listener, whose first call is
\* a block of its own.
Launch ==
  /\ ~running
  /\ running' = TRUE
  /\ main' = <<Notification>>
  /\ UNCHANGED <<auth, heard, ui, requests, server, unwrapped>>

\* Fault: only a change made by the app is announced.
UnheardRestore ==
  /\ running
  /\ ~restored
  /\ restored' = TRUE
  /\ UNCHANGED <<running, saved, main, heard, ui, requests, server, unwrapped>>

\* FIRAuth reads the keychain on its work queue.
Restore ==
  /\ running
  /\ ~restored
  /\ restored' = TRUE
  /\ main' = IF saved = NoUser THEN main ELSE Append(main, Notification)
  /\ UNCHANGED <<running, saved, heard, ui, requests, server, unwrapped>>

\* What the end of the process leaves; a request that was sent may still be
\* answered by the server, but nobody is there to hear it.
ProcessEnds ==
  /\ running' = FALSE
  /\ restored' = FALSE
  /\ main' = <<>>
  /\ heard' = NotHeard
  /\ window' = "none"
  /\ tabsOf' = NoUser
  /\ over' = "none"
  /\ requests' = [r \in Requests |->
       IF requests[r] = NotMade THEN NotMade ELSE [requests[r] EXCEPT !.stage = "done"]]
  /\ UNCHANGED <<saved, server>>

Kill ==
  /\ running
  /\ ProcessEnds
  /\ UNCHANGED unwrapped

-----------------------------------------------------------------------------
(***************************************************************************)
(* The main queue.                                                         *)
(***************************************************************************)
\* The requests op of which lose the view controller they refer to.
Dropped(op) ==
  [r \in Requests |->
     IF requests[r] # NotMade /\ requests[r].op = op
       THEN [requests[r] EXCEPT !.live = FALSE] ELSE requests[r]]

\* Every request made so far: AuthVC is gone, and RegistrationVC with it.
AllDropped ==
  [r \in Requests |->
     IF requests[r] = NotMade THEN NotMade ELSE [requests[r] EXCEPT !.live = FALSE]]

\* Fault: the controllers get the user of the listener's call before.
StaleReplace(u) ==
  /\ window' = IF u = NoUser THEN "auth" ELSE "tabs"
  /\ tabsOf' = heard
  /\ over' = "none"
  /\ requests' = AllDropped

(***************************************************************************)
(* A new root view controller.  Whether UIKit lets go of a controller that *)
(* AuthVC was presenting when it is replaced is left open.                 *)
(***************************************************************************)
Replace(u) ==
  /\ window' = IF u = NoUser THEN "auth" ELSE "tabs"
  /\ tabsOf' = u
  /\ over' = "none"
  /\ requests' \in IF over \in {"registration", "registration alert"}
                     THEN {Dropped("login"), AllDropped} ELSE {AllDropped}

\* The listener is called with the user of now, unless it is that of its last call.
Notify ==
  /\ main # <<>>
  /\ Head(main) = Notification
  /\ main' = Tail(main)
  /\ heard' = Current
  /\ IF heard = Current THEN UNCHANGED <<ui, requests>> ELSE Replace(Current)
  /\ UNCHANGED <<running, auth, server, unwrapped>>

Answered(op) ==
  /\ main # <<>>
  /\ Head(main).kind = "answer"
  /\ requests[Head(main).request].op = op
  /\ main' = Tail(main)
  /\ requests' = [requests EXCEPT ![Head(main).request].stage = "done"]

\* didTapLogInBtn's completion: an error of any kind asks whether to sign up.
LoginAnswered ==
  /\ Answered("login")
  /\ over' = IF ~Head(main).ok /\ requests[Head(main).request].live /\ over = "none"
               THEN "mismatch" ELSE over
  /\ UNCHANGED <<running, auth, heard, window, tabsOf, server, unwrapped>>

\* Fault: an error does not keep it from writing the document.
BlindRegistrationAnswered ==
  LET r == requests[Head(main).request] IN
  /\ Answered("register")
  /\ profiles' = IF r.live THEN [profiles EXCEPT ![r.account] = r.name] ELSE profiles
  /\ UNCHANGED <<running, auth, heard, ui, registered, unwrapped>>

\* RegistrationVC's completion: without its controller it writes no document.
RegistrationAnswered ==
  LET r == requests[Head(main).request] IN
  /\ Answered("register")
  /\ profiles' = IF r.live /\ Head(main).ok
                   THEN [profiles EXCEPT ![r.account] = r.name] ELSE profiles
  /\ UNCHANGED <<running, auth, heard, ui, registered, unwrapped>>

-----------------------------------------------------------------------------
(***************************************************************************)
(* FIRAuth and the server.                                                 *)
(***************************************************************************)
Answering(r) ==
  /\ running
  /\ restored
  /\ requests[r].stage = "sent"
  /\ requests' = [requests EXCEPT ![r].stage = "answered"]
  /\ UNCHANGED <<running, restored, heard, ui, profiles, unwrapped>>

\* updateCurrentUser: the new token is announced first, the result after it.
SignedIn(r) ==
  /\ saved' = requests[r].account
  /\ main' = Append(Append(main, Notification), Answer(r, TRUE))

Failed(r) ==
  /\ main' = Append(main, Answer(r, FALSE))
  /\ UNCHANGED saved

LoginSucceeds(r) ==
  /\ Answering(r)
  /\ requests[r].op = "login"
  /\ registered[requests[r].account] # NoName
  /\ SignedIn(r)
  /\ UNCHANGED registered

\* The address is taken, or is not; the password is wrong; the network fails.
RequestFails(r) ==
  /\ Answering(r)
  /\ Failed(r)
  /\ UNCHANGED registered

\* The account is made; the answer arrives, or is lost and a failure is reported.
AccountCreated(r) ==
  /\ Answering(r)
  /\ requests[r].op = "register"
  /\ registered[requests[r].account] = NoName
  /\ registered' = [registered EXCEPT ![requests[r].account] = requests[r].name]
  /\ SignedIn(r) \/ Failed(r)

\* Fault: nobody is told.
QuietSignOut ==
  /\ running
  /\ Current # NoUser
  /\ saved' = NoUser
  /\ UNCHANGED <<running, restored, main, heard, ui, requests, server, unwrapped>>

\* logOutTapped, or the SDK itself when the account's token has become invalid.
SignOut ==
  /\ running
  /\ Current # NoUser
  /\ saved' = NoUser
  /\ main' = Append(main, Notification)
  /\ UNCHANGED <<running, restored, heard, ui, requests, server, unwrapped>>

-----------------------------------------------------------------------------
(***************************************************************************)
(* The user.                                                               *)
(***************************************************************************)
Send(r, op, a, n) ==
  /\ requests[r] = NotMade
  /\ requests' = [requests EXCEPT ![r] =
       [op |-> op, account |-> a, name |-> n, live |-> TRUE, stage |-> "sent"]]
  /\ UNCHANGED <<running, auth, main, heard, ui, server, unwrapped>>

\* didTapLogInBtn
TapLogIn(r, a) ==
  /\ window = "auth"
  /\ over = "none"
  /\ Send(r, "login", a, NoName)

\* didTapSignInBtn of RegistrationVC
TapRegister(r, a, n) ==
  /\ over = "registration"
  /\ Send(r, "register", a, n)

Cover(from, to) ==
  /\ window = "auth"
  /\ over \in from
  /\ over' = to
  /\ UNCHANGED <<running, auth, main, heard, window, tabsOf, server, unwrapped>>

\* A field is empty: the alert "Заполните все поля".
TapIncomplete ==
  /\ UNCHANGED requests
  /\ Cover({"none"}, "alert") \/ Cover({"registration"}, "registration alert")

DismissAlert ==
  /\ UNCHANGED requests
  /\ \/ Cover({"alert", "mismatch"}, "none")
     \/ Cover({"registration alert"}, "registration")

\* didTapSignInBtn of AuthVC, also from "Создать" of the mismatch alert.
OpenRegistration ==
  /\ UNCHANGED requests
  /\ Cover({"none", "mismatch"}, "registration")

\* dismissTapped ("Назад")
CloseRegistration ==
  /\ Cover({"registration"}, "none")
  /\ requests' = Dropped("register")

\* "Мои объявления": getMyPetsData unwraps the current user.
OpenMyAnnouncements ==
  /\ window = "tabs"
  /\ IF Current = NoUser
       THEN ProcessEnds /\ unwrapped' = TRUE
       ELSE UNCHANGED vars

-----------------------------------------------------------------------------
RunBlock == Notify \/ LoginAnswered \/ RegistrationAnswered

ServerStep(r) == LoginSucceeds(r) \/ RequestFails(r) \/ AccountCreated(r)

UserStep ==
  \/ \E r \in Requests, a \in Accounts : TapLogIn(r, a)
  \/ \E r \in Requests, a \in Accounts, n \in Names : TapRegister(r, a, n)
  \/ TapIncomplete \/ DismissAlert \/ OpenRegistration \/ CloseRegistration
  \/ OpenMyAnnouncements

Next ==
  \/ Launch \/ Restore \/ Kill
  \/ RunBlock
  \/ \E r \in Requests : ServerStep(r)
  \/ SignOut
  \/ UserStep

Spec == Init /\ [][Next]_vars

\* A running process drains its main queue and finishes reading the keychain.
FairSpec == Spec /\ WF_vars(RunBlock) /\ WF_vars(Restore)

-----------------------------------------------------------------------------
TypeOK ==
  /\ running \in BOOLEAN
  /\ saved \in Users
  /\ restored \in BOOLEAN
  /\ main \in Seq(Blocks)
  /\ heard \in Users \cup {NotHeard}
  /\ window \in {"none", "auth", "tabs"}
  /\ tabsOf \in Users
  /\ over \in Covers
  /\ requests \in [Requests -> Request \cup {NotMade}]
  /\ registered \in [Accounts -> Names \cup {NoName}]
  /\ profiles \in [Accounts -> Names \cup {NoName}]
  /\ unwrapped \in BOOLEAN

Shows(u) ==
  /\ window = IF u = NoUser THEN "auth" ELSE "tabs"
  /\ tabsOf = u

\* When no notification is waiting, the window shows the current user's tab bar
\* or, with nobody signed in, the sign-in form, whatever sign-ins, sign-ups and
\* sign-outs have overtaken each other (SceneDelegate's listener).
WindowFollowsUser ==
  running /\ Notification \notin ToSet(main) => Shows(Current)

\* A document in "Users" carries the name typed in the registration that created
\* its account, not that of another attempt at the same address (RegistrationVC).
ProfileAsRegistered ==
  \A a \in Accounts : profiles[a] \in {NoName, registered[a]}

\* Every change of the current user reaches the window, or is overtaken by the
\* next one or by the end of the process.
WindowCatchesUp ==
  \A u \in Users :
    running /\ restored /\ saved = u ~> Shows(u) \/ saved # u \/ ~running

\* "user!" in getMyPetsData: whoever opens the list is signed in.
SomebodyToUnwrap == ~unwrapped

\* It ends the process only in the window of time in which the listener has yet to
\* hear that the user is gone, not later and not for any other reason.
UnwrapsOnlyUntold == [][unwrapped' # unwrapped => Notification \in ToSet(main)]_vars
=============================================================================
