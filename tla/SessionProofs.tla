--------------------------- MODULE SessionProofs ---------------------------
(***************************************************************************)
(* For any accounts and any number of requests: the window follows the     *)
(* current user, and the documents in "Users" carry the name their account *)
(* was registered with.                                                    *)
(*                                                                         *)
(* The window shows the user of the listener's last call (WindowHeard),    *)
(* and that user is the current one unless a notification still waits on   *)
(* the main queue (HeardIsCurrent): a change of the user and its           *)
(* notification are one step.  A window is up only in a process that runs  *)
(* (WindowRuns), which leaves one way for user! to meet nobody.            *)
(***************************************************************************)
EXTENDS Session, QueueTheorems

LEMMA InitType == Init => TypeOK
<1> SUFFICES ASSUME Init PROVE TypeOK
  OBVIOUS
<1>1. main \in Seq(Blocks)
  BY DEF Init
<1>2. /\ requests \in [Requests -> Request \cup {NotMade}]
      /\ registered \in [Accounts -> Names \cup {NoName}]
      /\ profiles \in [Accounts -> Names \cup {NoName}]
  BY DEF Init
<1>3. /\ saved \in Users /\ tabsOf \in Users /\ heard \in Users \cup {NotHeard}
      /\ over \in Covers
  BY DEF Init, Users, Covers
<1> QED
  BY <1>1, <1>2, <1>3 DEF Init, TypeOK

LEMMA RequestsType ==
  ASSUME TypeOK
  PROVE  /\ \A op : Dropped(op) \in [Requests -> Request \cup {NotMade}]
         /\ AllDropped \in [Requests -> Request \cup {NotMade}]
         /\ \A r \in Requests, stage \in {"sent", "answered", "done"} :
              requests[r] # NotMade =>
                [requests[r] EXCEPT !.stage = stage] \in Request
<1>1. ASSUME NEW r \in Requests, requests[r] # NotMade
      PROVE  /\ requests[r] \in Request
             /\ [requests[r] EXCEPT !.live = FALSE] \in Request
             /\ \A stage \in {"sent", "answered", "done"} :
                  [requests[r] EXCEPT !.stage = stage] \in Request
  BY <1>1 DEF TypeOK, Request
<1> QED
  BY <1>1 DEF Dropped, AllDropped

LEMMA CurrentType == TypeOK => Current \in Users
BY DEF TypeOK, Current, Users

LEMMA BlockType ==
  /\ Notification \in Blocks
  /\ \A r \in Requests, ok \in BOOLEAN : Answer(r, ok) \in Blocks
  /\ \A r \in Requests : Answer(r, TRUE) \in Blocks /\ Answer(r, FALSE) \in Blocks
  /\ <<>> \in Seq(Blocks) /\ ToSet(<<>>) = {}
<1>1. ToSet(<<>>) = {}
  BY DEF ToSet
<1>2. \A r \in Requests, ok \in BOOLEAN : Answer(r, ok) \in Blocks
  BY DEF Blocks
<1>3. \A r \in Requests : Answer(r, TRUE) \in Blocks /\ Answer(r, FALSE) \in Blocks
  BY <1>2, TRUE \in BOOLEAN, FALSE \in BOOLEAN, Zenon
<1>4. Notification \in Blocks
  BY DEF Blocks
<1>5. <<>> \in Seq(Blocks)
  OBVIOUS
<1> QED
  BY <1>1, <1>2, <1>3, <1>4, <1>5, Zenon

\* A callback on the main queue belongs to a request that was made.
AnsweredWereMade ==
  \A r \in Requests, ok \in BOOLEAN :
    Answer(r, ok) \in ToSet(main) => requests[r] # NotMade

TypeInv == TypeOK /\ AnsweredWereMade

\* What a request asks for never changes.
Asks(q) == <<q.op, q.account, q.name>>

LEMMA RequestsKeep ==
  ASSUME TypeOK, NEW r \in Requests, requests[r] # NotMade
  PROVE  /\ requests[r] \in Request
         /\ \A op : /\ Dropped(op)[r] \in Request
                    /\ Asks(Dropped(op)[r]) = Asks(requests[r])
         /\ AllDropped[r] \in Request /\ Asks(AllDropped[r]) = Asks(requests[r])
         /\ \A stage \in {"sent", "answered", "done"} :
              LET q == [requests[r] EXCEPT !.stage = stage]
              IN  q \in Request /\ Asks(q) = Asks(requests[r])
<1>1. requests[r] \in Request
  BY DEF TypeOK
<1>2. LET q == [requests[r] EXCEPT !.live = FALSE]
      IN  q \in Request /\ Asks(q) = Asks(requests[r])
  BY <1>1 DEF Request, Asks
<1>3. \A stage \in {"sent", "answered", "done"} :
        LET q == [requests[r] EXCEPT !.stage = stage]
        IN  q \in Request /\ Asks(q) = Asks(requests[r])
  BY <1>1 DEF Request, Asks
<1> QED
  BY <1>1, <1>2, <1>3 DEF Dropped, AllDropped

(***************************************************************************)
(* One step of the queue, of the requests and of the other variables.      *)
(***************************************************************************)
\* The block at the head of the queue is taken off it and run.
LEMMA TakenBlock ==
  ASSUME TypeInv, RunBlock
  PROVE  /\ main # <<>> /\ main' = Tail(main) /\ main' \in Seq(Blocks)
         /\ ToSet(main') \subseteq ToSet(main)
         /\ \A x \in ToSet(main) : x = Head(main) \/ x \in ToSet(main')
         /\ Head(main) \in Blocks
<1>1. main # <<>> /\ main' = Tail(main)
  BY DEF RunBlock, Notify, LoginAnswered, RegistrationAnswered, Answered
<1>2. main \in Seq(Blocks)
  BY DEF TypeInv, TypeOK
<1> QED
  BY <1>1, <1>2, HeadTail

LEMMA TakenAnswer ==
  ASSUME TypeInv, NEW op, Answered(op)
  PROVE  \E r \in Requests, ok \in BOOLEAN :
           /\ Head(main) = Answer(r, ok)
           /\ requests[r] \in Request
           /\ requests[r].op = op
           /\ requests' = [requests EXCEPT ![r].stage = "done"]
<1>1. main # <<>> /\ main \in Seq(Blocks)
  BY DEF Answered, TypeInv, TypeOK
<1>2. Head(main) \in Blocks /\ Head(main) \in ToSet(main)
  <2>1. 1 \in DOMAIN main /\ Head(main) = main[1] /\ main[1] \in Blocks
    BY <1>1
  <2> QED
    BY <2>1 DEF ToSet
<1>3. PICK r \in Requests, ok \in BOOLEAN : Head(main) = Answer(r, ok)
  BY <1>2 DEF Blocks, Answered, Notification
<1>4. Head(main).request = r
  BY <1>3 DEF Answer
<1>5. requests[r] \in Request
  BY <1>2, <1>3, RequestsKeep DEF TypeInv, AnsweredWereMade
<1> QED
  BY <1>3, <1>4, <1>5 DEF Answered

\* The requests that were made stay as they were asked; the others may be made.
LEMMA RequestsStep ==
  ASSUME TypeInv, [Next]_vars
  PROVE  /\ requests' \in [Requests -> Request \cup {NotMade}]
         /\ \A r \in Requests : requests[r] # NotMade =>
              requests'[r] \in Request /\ Asks(requests'[r]) = Asks(requests[r])
<1> DEFINE Goal ==
      /\ requests' \in [Requests -> Request \cup {NotMade}]
      /\ \A r \in Requests : requests[r] # NotMade =>
           requests'[r] \in Request /\ Asks(requests'[r]) = Asks(requests[r])
<1> USE DEF TypeInv
<1>1. ASSUME UNCHANGED requests PROVE Goal
  BY <1>1 DEF TypeOK
<1>2. ASSUME NEW op, requests' = Dropped(op) PROVE Goal
  BY <1>2, RequestsType, RequestsKeep
<1>3. ASSUME requests' = AllDropped PROVE Goal
  BY <1>3, RequestsType, RequestsKeep
<1>4. ASSUME NEW r \in Requests, requests[r] # NotMade,
             NEW stage \in {"sent", "answered", "done"},
             requests' = [requests EXCEPT ![r].stage = stage]
      PROVE  Goal
  <2> DEFINE q == [requests[r] EXCEPT !.stage = stage]
  <2>1. q \in Request /\ Asks(q) = Asks(requests[r])
    BY <1>4, RequestsKeep
  <2>2. requests' = [requests EXCEPT ![r] = q]
    BY <1>4
  <2> HIDE DEF q
  <2>3. requests'[r] = q /\ \A x \in Requests : x # r => requests'[x] = requests[x]
    BY <2>2 DEF TypeOK
  <2>4. requests' \in [Requests -> Request \cup {NotMade}]
    BY <2>1, <2>2 DEF TypeOK
  <2> QED
    BY <2>1, <2>3, <2>4, RequestsKeep
<1>5. ASSUME ProcessEnds PROVE Goal
  <2>1. requests' = [r \in Requests |->
         IF requests[r] = NotMade THEN NotMade ELSE [requests[r] EXCEPT !.stage = "done"]]
    BY <1>5 DEF ProcessEnds
  <2> QED
    BY <2>1, RequestsKeep
<1>6. ASSUME RunBlock PROVE Goal
  <2>1. CASE Notify
    BY <1>1, <1>2, <1>3, <2>1 DEF Notify, Replace
  <2>2. ASSUME NEW op, Answered(op) PROVE Goal
    <3>1. PICK r \in Requests : /\ requests[r] \in Request
                                /\ requests' = [requests EXCEPT ![r].stage = "done"]
      <4>1. \E r \in Requests, ok \in BOOLEAN :
               /\ Head(main) = Answer(r, ok)
               /\ requests[r] \in Request
               /\ requests[r].op = op
               /\ requests' = [requests EXCEPT ![r].stage = "done"]
        BY <2>2, TakenAnswer
      <4> QED
        BY <4>1
    <3>2. requests[r] # NotMade
      BY <3>1 DEF NotMade, Request
    <3> HIDE DEF Goal
    <3> QED
      BY <1>4, <3>1, <3>2
  <2> QED
    BY <1>6, <2>1, <2>2 DEF RunBlock, LoginAnswered, RegistrationAnswered
<1>7. ASSUME NEW r \in Requests, ServerStep(r) PROVE Goal
  BY <1>4, <1>7 DEF ServerStep, LoginSucceeds, RequestFails, AccountCreated, Answering, NotMade
<1>8. ASSUME NEW r \in Requests, NEW op \in {"login", "register"}, NEW a \in Accounts,
             NEW n \in Names \cup {NoName}, Send(r, op, a, n)
      PROVE  Goal
  <2>1. [op |-> op, account |-> a, name |-> n, live |-> TRUE, stage |-> "sent"] \in Request
    BY DEF Request
  <2> QED
    BY <1>8, <2>1, RequestsKeep DEF Send, TypeOK
<1>9. ASSUME UserStep PROVE Goal
  <2>1. CASE TapIncomplete \/ DismissAlert \/ OpenRegistration
    BY <1>1, <2>1 DEF TapIncomplete, DismissAlert, OpenRegistration
  <2>2. CASE CloseRegistration
    BY <1>2, <2>2 DEF CloseRegistration
  <2>3. CASE OpenMyAnnouncements
    BY <1>1, <1>5, <2>3 DEF OpenMyAnnouncements, vars
  <2>4. CASE \E r \in Requests, a \in Accounts : TapLogIn(r, a)
    BY <1>8, <2>4 DEF TapLogIn
  <2>5. CASE \E r \in Requests, a \in Accounts, n \in Names : TapRegister(r, a, n)
    BY <1>8, <2>5 DEF TapRegister
  <2> QED
    BY <1>9, <2>1, <2>2, <2>3, <2>4, <2>5 DEF UserStep
<1> QED
  BY <1>1, <1>5, <1>6, <1>7, <1>9 DEF Next, Launch, Restore, Kill, SignOut, vars

LEMMA Blocks2 ==
  /\ \A r1, r2 \in Requests, ok1, ok2 \in BOOLEAN :
       Answer(r1, ok1) = Answer(r2, ok2) => r1 = r2 /\ ok1 = ok2
  /\ \A r \in Requests, ok \in BOOLEAN : Answer(r, ok) # Notification
BY DEF Answer, Notification

\* What arrives on the queue: a notification, or the answer to a request.
LEMMA MainStep ==
  ASSUME TypeInv, [Next]_vars
  PROVE  /\ main' \in Seq(Blocks)
         /\ \A r \in Requests, ok \in BOOLEAN :
              Answer(r, ok) \in ToSet(main') =>
                \/ Answer(r, ok) \in ToSet(main)
                \/ Answering(r) /\ (ok => LoginSucceeds(r) \/ AccountCreated(r))
<1> DEFINE New(r, ok) == Answering(r) /\ (ok => LoginSucceeds(r) \/ AccountCreated(r))
           Goal == /\ main' \in Seq(Blocks)
                   /\ \A r \in Requests, ok \in BOOLEAN :
                        Answer(r, ok) \in ToSet(main') =>
                          Answer(r, ok) \in ToSet(main) \/ New(r, ok)
<1>0. main \in Seq(Blocks)
  BY DEF TypeInv, TypeOK
<1>1. ASSUME UNCHANGED main PROVE Goal
  BY <1>0, <1>1
<1>2. ASSUME main' = <<>> PROVE Goal
  BY <1>2, BlockType
<1>3. ASSUME main' = Append(main, Notification) PROVE Goal
  BY <1>0, <1>3, BlockType, Blocks2, AppendSet
<1>4. ASSUME NEW r \in Requests, NEW ok \in BOOLEAN, New(r, ok), Answering(r),
             main' = Append(main, Answer(r, ok))
      PROVE  Goal
  BY <1>0, <1>4, BlockType, Blocks2, AppendSet
<1>5. ASSUME NEW r \in Requests, New(r, TRUE), Answering(r),
             main' = Append(Append(main, Notification), Answer(r, TRUE))
      PROVE  Goal
  <2> DEFINE q == Append(main, Notification)
  <2>1. q \in Seq(Blocks) /\ ToSet(q) = ToSet(main) \cup {Notification}
    BY <1>0, BlockType, AppendSet
  <2>2. main' = Append(q, Answer(r, TRUE))
    BY <1>5
  <2> HIDE DEF q
  <2>3. /\ main' \in Seq(Blocks)
        /\ ToSet(main') = ToSet(main) \cup {Notification, Answer(r, TRUE)}
    <3>1. Append(q, Answer(r, TRUE)) \in Seq(Blocks)
          /\ ToSet(Append(q, Answer(r, TRUE))) = ToSet(q) \cup {Answer(r, TRUE)}
      <4> DEFINE x == Answer(r, TRUE)
      <4>1. x \in Blocks
        BY BlockType
      <4> HIDE DEF x
      <4>2. Append(q, x) \in Seq(Blocks) /\ ToSet(Append(q, x)) = ToSet(q) \cup {x}
        BY <2>1, <4>1, AppendSet
      <4> QED
        BY <4>2, Zenon DEF x
    <3> QED
      BY <2>1, <2>2, <3>1
  <2> QED
    BY <1>5, <2>3, Blocks2
<1>6. CASE Launch
  <2>1. main' = <<Notification>>
    BY <1>6 DEF Launch
  <2>2. main' \in Seq(Blocks) /\ ToSet(main') = {Notification}
    BY <2>1, BlockType, SingletonSet
  <2> QED
    BY <2>2, Blocks2
<1>7. CASE Restore \/ SignOut
  BY <1>1, <1>3, <1>7 DEF Restore, SignOut
<1>8. CASE RunBlock
  BY <1>8, TakenBlock
<1>9. ASSUME NEW r \in Requests, ServerStep(r) PROVE Goal
  <2>1. Answering(r)
    BY <1>9 DEF ServerStep, LoginSucceeds, RequestFails, AccountCreated
  <2>2. CASE LoginSucceeds(r)
    <3>1. New(r, TRUE)
      BY <2>1, <2>2
    <3>2. main' = Append(Append(main, Notification), Answer(r, TRUE))
      BY <2>2 DEF LoginSucceeds, SignedIn
    <3> HIDE DEF New, Goal
    <3> QED
      BY <1>5, <2>1, <3>1, <3>2
  <2>3. CASE RequestFails(r)
    BY <1>4, <2>1, <2>3 DEF RequestFails, Failed
  <2>4. CASE AccountCreated(r)
    <3>1. New(r, TRUE) /\ New(r, FALSE)
      BY <2>1, <2>4
    <3>2. \/ main' = Append(Append(main, Notification), Answer(r, TRUE))
          \/ main' = Append(main, Answer(r, FALSE))
      BY <2>4 DEF AccountCreated, SignedIn, Failed
    <3> HIDE DEF New, Goal
    <3> QED
      BY <1>4, <1>5, <2>1, <3>1, <3>2
  <2> QED
    BY <1>9, <2>2, <2>3, <2>4 DEF ServerStep
<1>10. CASE Kill
  BY <1>2, <1>10 DEF Kill, ProcessEnds
<1>11. CASE UserStep
  <2>1. CASE OpenMyAnnouncements
    BY <1>1, <1>2, <2>1 DEF OpenMyAnnouncements, ProcessEnds, vars
  <2> QED
    BY <1>1, <1>11, <2>1 DEF UserStep, TapLogIn, TapRegister, Send, TapIncomplete,
       DismissAlert, OpenRegistration, CloseRegistration, Cover
<1>12. CASE UNCHANGED vars
  BY <1>1, <1>12 DEF vars
<1> QED
  BY <1>6, <1>7, <1>8, <1>9, <1>10, <1>11, <1>12 DEF Next

\* The variables other than the queue and the requests.
LEMMA OthersType ==
  ASSUME TypeInv, [Next]_vars
  PROVE  /\ running' \in BOOLEAN /\ saved' \in Users /\ restored' \in BOOLEAN
         /\ heard' \in Users \cup {NotHeard}
         /\ window' \in {"none", "auth", "tabs"} /\ tabsOf' \in Users /\ over' \in Covers
         /\ registered' \in [Accounts -> Names \cup {NoName}]
         /\ profiles' \in [Accounts -> Names \cup {NoName}]
         /\ unwrapped' \in BOOLEAN
<1> DEFINE Goal ==
      /\ running' \in BOOLEAN /\ saved' \in Users /\ restored' \in BOOLEAN
      /\ heard' \in Users \cup {NotHeard}
      /\ window' \in {"none", "auth", "tabs"} /\ tabsOf' \in Users /\ over' \in Covers
      /\ registered' \in [Accounts -> Names \cup {NoName}]
      /\ profiles' \in [Accounts -> Names \cup {NoName}]
      /\ unwrapped' \in BOOLEAN
<1> USE DEF TypeInv, TypeOK, auth, ui, server
<1>0. NoUser \in Users /\ "none" \in Covers
  BY DEF Users, Covers
<1>1. CASE Launch \/ Restore
  BY <1>1 DEF Launch, Restore
<1>2. CASE Kill \/ SignOut
  BY <1>0, <1>2 DEF Kill, ProcessEnds, SignOut
<1>3. CASE RunBlock
  <2>1. CASE Notify
    <3>1. heard' \in Users
      BY <2>1, CurrentType DEF Notify
    <3> QED
      BY <1>0, <2>1, <3>1, CurrentType DEF Notify, Replace
  <2>2. CASE LoginAnswered
    BY <2>2 DEF LoginAnswered, Covers
  <2>3. CASE RegistrationAnswered
    <3>1. PICK r \in Requests : requests[r] \in Request /\ Head(main).request = r
      <4>1. Answered("register")
        BY <2>3 DEF RegistrationAnswered
      <4>2. PICK r \in Requests, ok \in BOOLEAN :
              Head(main) = Answer(r, ok) /\ requests[r] \in Request
        BY <4>1, TakenAnswer
      <4> QED
        BY <4>2 DEF Answer
    <3>2. requests[r].account \in Accounts /\ requests[r].name \in Names \cup {NoName}
      BY <3>1 DEF Request
    <3> QED
      BY <2>3, <3>1, <3>2 DEF RegistrationAnswered
  <2> QED
    BY <1>3, <2>1, <2>2, <2>3 DEF RunBlock
<1>4. ASSUME NEW r \in Requests, ServerStep(r) PROVE Goal
  <2>1. Answering(r)
    BY <1>4 DEF ServerStep, LoginSucceeds, RequestFails, AccountCreated
  <2>2. requests[r] \in Request
    BY <2>1 DEF Answering, NotMade
  <2>3. requests[r].account \in Users /\ requests[r].account \in Accounts
        /\ requests[r].name \in Names \cup {NoName}
    BY <2>2 DEF Request, Users
  <2> QED
    BY <1>4, <2>1, <2>3 DEF ServerStep, LoginSucceeds, RequestFails, AccountCreated,
       Answering, SignedIn, Failed
<1>5. CASE UserStep
  <2>1. CASE OpenMyAnnouncements
    BY <1>0, <2>1 DEF OpenMyAnnouncements, ProcessEnds, vars
  <2> QED
    BY <1>5, <2>1 DEF UserStep, TapLogIn, TapRegister, Send, TapIncomplete,
       DismissAlert, OpenRegistration, CloseRegistration, Cover, Covers
<1>6. CASE UNCHANGED vars
  BY <1>6 DEF vars
<1> QED
  BY <1>1, <1>2, <1>3, <1>4, <1>5, <1>6 DEF Next

LEMMA NextTypeInv == TypeInv /\ [Next]_vars => TypeInv'
<1> SUFFICES ASSUME TypeInv, [Next]_vars PROVE TypeInv'
  OBVIOUS
<1>1. TypeOK'
  BY RequestsStep, MainStep, OthersType DEF TypeOK
<1>2. ASSUME NEW r \in Requests, NEW ok \in BOOLEAN, Answer(r, ok) \in ToSet(main')
      PROVE  requests'[r] # NotMade
  <2>1. requests[r] # NotMade
    BY <1>2, MainStep DEF TypeInv, AnsweredWereMade, Answering, NotMade
  <2>2. requests'[r] \in Request
    BY <2>1, RequestsStep
  <2> QED
    BY <2>2 DEF NotMade, Request
<1> QED
  BY <1>1, <1>2 DEF TypeInv, AnsweredWereMade

\* Every variable of Session keeps its type, for any accounts and requests.
THEOREM TypesHold == Spec => []TypeOK
<1>1. Init => TypeInv
  BY InitType, BlockType DEF Init, TypeInv, AnsweredWereMade
<1>2. TypeInv => TypeOK
  BY DEF TypeInv
<1> QED
  BY <1>1, <1>2, NextTypeInv, PTL DEF Spec

-----------------------------------------------------------------------------
(***************************************************************************)
(* The window.                                                             *)
(***************************************************************************)
ListenerInv ==
  /\ ~running => heard = NotHeard /\ main = <<>>
  /\ running /\ heard # NotHeard => Shows(heard)
  /\ running /\ Notification \notin ToSet(main) => heard = Current

LEMMA NextListenerInv ==
  ASSUME TypeInv, ListenerInv, [Next]_vars PROVE ListenerInv'
<1> USE DEF TypeInv
<1>0. main \in Seq(Blocks) /\ Notification \in Blocks
  BY BlockType DEF TypeOK
<1>1. ASSUME UNCHANGED <<running, auth, main, heard, window, tabsOf>> PROVE ListenerInv'
  BY <1>1 DEF ListenerInv, Shows, Current, auth
<1>2. ASSUME ProcessEnds PROVE ListenerInv'
  BY <1>2 DEF ListenerInv, ProcessEnds
<1>3. ASSUME running, Notification \in ToSet(main'),
             UNCHANGED <<running, heard, window, tabsOf>>
      PROVE  ListenerInv'
  BY <1>3 DEF ListenerInv, Shows
<1>4. ASSUME running, UNCHANGED <<running, auth, heard, window, tabsOf>>,
             Notification \in ToSet(main) => Notification \in ToSet(main')
      PROVE  ListenerInv'
  BY <1>4 DEF ListenerInv, Shows, Current, auth
<1>5. CASE Launch
  <2>1. Notification \in ToSet(main')
    BY <1>0, <1>5, SingletonSet DEF Launch
  <2> QED
    BY <1>5, <2>1 DEF Launch, ListenerInv
<1>6. CASE Restore
  <2>1. CASE saved = NoUser
    BY <1>6, <2>1 DEF Restore, ListenerInv, Shows, Current, ui
  <2>2. CASE main' = Append(main, Notification)
    <3>1. Notification \in ToSet(main')
      BY <1>0, <2>2, AppendSet
    <3> QED
      BY <1>3, <1>6, <3>1 DEF Restore, ui
  <2> QED
    BY <1>6, <2>1, <2>2 DEF Restore
<1>7. CASE SignOut
  <2>1. Notification \in ToSet(main')
    BY <1>0, <1>7, AppendSet DEF SignOut
  <2> QED
    BY <1>3, <1>7, <2>1 DEF SignOut, ui
<1>8. CASE RunBlock
  <2>1. running
    BY <1>8, TakenBlock DEF ListenerInv
  <2>2. CASE Notify
    <3>1. heard' = Current /\ UNCHANGED <<running, auth>>
      BY <2>2 DEF Notify
    <3>2. Current' = Current /\ Current # NotHeard
      BY <3>1, CurrentType, SessionAssumption DEF Current, auth, Users
    <3>3. CASE heard = Current
      BY <2>1, <2>2, <3>1, <3>2, <3>3 DEF Notify, ListenerInv, Shows, ui
    <3>4. CASE heard # Current
      <4>1. Replace(Current)
        BY <2>2, <3>4 DEF Notify
      <4>2. Shows(Current)'
        BY <3>2, <4>1 DEF Replace, Shows
      <4> QED
        BY <2>1, <3>1, <3>2, <4>2 DEF ListenerInv
    <3> QED
      BY <3>3, <3>4
  <2>3. CASE LoginAnswered \/ RegistrationAnswered
    <3>1. \E op : Answered(op)
      BY <2>3 DEF LoginAnswered, RegistrationAnswered
    <3>2. Head(main) # Notification
      BY <3>1 DEF Answered, Notification
    <3>3. Notification \in ToSet(main) => Notification \in ToSet(main')
      BY <1>8, <3>2, TakenBlock
    <3> QED
      BY <1>4, <2>1, <2>3, <3>3 DEF LoginAnswered, RegistrationAnswered, auth, ui
  <2> QED
    BY <1>8, <2>2, <2>3 DEF RunBlock
<1>9. ASSUME NEW r \in Requests, ServerStep(r) PROVE ListenerInv'
  <2>1. Answering(r) /\ running
    BY <1>9 DEF ServerStep, LoginSucceeds, RequestFails, AccountCreated, Answering
  <2>2. ASSUME SignedIn(r) PROVE ListenerInv'
    <3> DEFINE q == Append(main, Notification)
    <3>1. q \in Seq(Blocks) /\ Notification \in ToSet(q)
      BY <1>0, AppendSet
    <3>2. main' = Append(q, Answer(r, TRUE))
      BY <2>2 DEF SignedIn
    <3> DEFINE x == Answer(r, TRUE)
    <3>3. x \in Blocks
      BY BlockType
    <3>4. main' = Append(q, x)
      BY <3>2
    <3> HIDE DEF q, x
    <3>5. Notification \in ToSet(main')
      BY <3>1, <3>3, <3>4, AppendSet
    <3> QED
      BY <1>3, <2>1, <3>5 DEF Answering, ui
  <2>3. ASSUME Failed(r) PROVE ListenerInv'
    <3>1. ToSet(main') = ToSet(main) \cup {Answer(r, FALSE)}
      <4> DEFINE x == Answer(r, FALSE)
      <4>1. x \in Blocks
        BY BlockType
      <4>2. main' = Append(main, x)
        BY <2>3 DEF Failed
      <4> HIDE DEF x
      <4>3. ToSet(Append(main, x)) = ToSet(main) \cup {x}
        BY <1>0, <4>1, AppendSet
      <4>4. ToSet(main') = ToSet(main) \cup {x}
        BY <4>2, <4>3, Zenon
      <4> QED
        BY <4>4 DEF x
    <3> QED
      BY <1>4, <2>1, <2>3, <3>1 DEF Answering, Failed, auth, ui
  <2> QED
    BY <1>9, <2>2, <2>3 DEF ServerStep, LoginSucceeds, RequestFails, AccountCreated
<1>10. CASE UserStep
  <2>1. CASE OpenMyAnnouncements
    BY <1>1, <1>2, <2>1 DEF OpenMyAnnouncements, vars, ui
  <2> QED
    BY <1>1, <1>10, <2>1 DEF UserStep, TapLogIn, TapRegister, Send, TapIncomplete,
       DismissAlert, OpenRegistration, CloseRegistration, Cover, ui
<1>11. CASE Kill \/ UNCHANGED vars
  BY <1>1, <1>2, <1>11 DEF Kill, vars, ui
<1> QED
  BY <1>5, <1>6, <1>7, <1>8, <1>9, <1>10, <1>11 DEF Next

\* When no notification waits on the main queue, the window shows the current
\* user, for any accounts and any number of requests (SceneDelegate's listener).
THEOREM WindowFollowsUserHolds == Spec => []WindowFollowsUser
<1> DEFINE I == TypeInv /\ ListenerInv
<1>1. Init => I
  BY InitType, BlockType DEF Init, TypeInv, AnsweredWereMade, ListenerInv
<1>2. I /\ [Next]_vars => I'
  BY NextTypeInv, NextListenerInv
<1>3. I => WindowFollowsUser
  BY CurrentType, SessionAssumption DEF TypeInv, ListenerInv, WindowFollowsUser, Users
<1> QED
  BY <1>1, <1>2, <1>3, PTL DEF Spec

-----------------------------------------------------------------------------
(***************************************************************************)
(* The documents in "Users".                                               *)
(***************************************************************************)
\* A sign-up that succeeded is the one that created its account.
ProfileInv ==
  /\ ProfileAsRegistered
  /\ \A r \in Requests :
       /\ requests[r] # NotMade /\ requests[r].op = "register" => requests[r].name \in Names
       /\ Answer(r, TRUE) \in ToSet(main) /\ requests[r].op = "register" =>
            registered[requests[r].account] = requests[r].name

LEMMA RegisteredStep ==
  ASSUME TypeInv, [Next]_vars, NEW a \in Accounts, registered[a] # NoName
  PROVE  registered'[a] = registered[a]
<1>1. ASSUME UNCHANGED registered PROVE registered'[a] = registered[a]
  BY <1>1
<1>2. ASSUME NEW r \in Requests, AccountCreated(r) PROVE registered'[a] = registered[a]
  BY <1>2 DEF AccountCreated, TypeInv, TypeOK
<1> QED
  BY <1>1, <1>2 DEF Next, vars, server, Launch, Restore, Kill, ProcessEnds, SignOut,
     RunBlock, Notify, LoginAnswered, RegistrationAnswered, ServerStep, LoginSucceeds,
     RequestFails, UserStep, TapLogIn, TapRegister, Send, TapIncomplete, DismissAlert,
     OpenRegistration, CloseRegistration, Cover, OpenMyAnnouncements

\* A document is written only for a registration that succeeded.
LEMMA ProfilesStep ==
  ASSUME TypeInv, [Next]_vars, NEW a \in Accounts
  PROVE  \/ profiles'[a] = profiles[a]
         \/ \E r \in Requests :
              /\ Answer(r, TRUE) \in ToSet(main)
              /\ requests[r].op = "register"
              /\ requests[r].account = a
              /\ profiles'[a] = requests[r].name
<1> DEFINE Goal == \/ profiles'[a] = profiles[a]
                   \/ \E r \in Requests :
                        /\ Answer(r, TRUE) \in ToSet(main)
                        /\ requests[r].op = "register"
                        /\ requests[r].account = a
                        /\ profiles'[a] = requests[r].name
<1>1. ASSUME UNCHANGED profiles PROVE Goal
  BY <1>1
<1>2. ASSUME RegistrationAnswered PROVE Goal
  <2>0. Answered("register")
    BY <1>2 DEF RegistrationAnswered
  <2>1. PICK r \in Requests, ok \in BOOLEAN :
          Head(main) = Answer(r, ok) /\ requests[r] \in Request /\ requests[r].op = "register"
    BY <2>0, TakenAnswer
  <2>2. Head(main).request = r /\ Head(main).ok = ok
    BY <2>1 DEF Answer
  <2>3. CASE ok /\ requests[r].live
    <3>1. Answer(r, TRUE) \in ToSet(main)
      <4>1. main # <<>> /\ main \in Seq(Blocks)
        BY <2>0 DEF Answered, TypeInv, TypeOK
      <4>2. 1 \in DOMAIN main /\ Head(main) = main[1]
        BY <4>1
      <4>3. Head(main) \in ToSet(main)
        BY <4>2 DEF ToSet
      <4>4. ok = TRUE
        BY <2>3
      <4> QED
        BY <2>1, <4>3, <4>4
    <3>2. profiles' = [profiles EXCEPT ![requests[r].account] = requests[r].name]
      BY <1>2, <2>2, <2>3 DEF RegistrationAnswered
    <3>3. requests[r].account \in Accounts
      BY <2>1 DEF Request
    <3> QED
      BY <2>1, <3>1, <3>2, <3>3 DEF TypeInv, TypeOK
  <2>4. CASE ~(ok /\ requests[r].live)
    BY <1>1, <1>2, <2>2, <2>4 DEF RegistrationAnswered
  <2> QED
    BY <2>3, <2>4
<1> QED
  BY <1>1, <1>2 DEF Next, vars, server, Launch, Restore, Kill, ProcessEnds, SignOut,
     RunBlock, Notify, LoginAnswered, ServerStep, LoginSucceeds, RequestFails,
     AccountCreated, Answering, UserStep, TapLogIn, TapRegister, Send, TapIncomplete,
     DismissAlert, OpenRegistration, CloseRegistration, Cover, OpenMyAnnouncements

\* A sign-up is made with a name.
LEMMA NewRequest ==
  ASSUME TypeInv, [Next]_vars, NEW r \in Requests,
         requests[r] = NotMade, requests'[r] # NotMade, requests'[r].op = "register"
  PROVE  requests'[r].name \in Names
<1>1. ASSUME NEW x \in Requests, NEW op, NEW a, NEW n, Send(x, op, a, n)
      PROVE  requests'[r].op = op /\ requests'[r].name = n
  <2> DEFINE q == [op |-> op, account |-> a, name |-> n, live |-> TRUE, stage |-> "sent"]
  <2>1. requests' = [requests EXCEPT ![x] = q]
    BY <1>1 DEF Send
  <2>2. requests'[r] = q
    BY <2>1 DEF TypeInv, TypeOK
  <2> QED
    BY <2>2
<1>2. ASSUME NEW x \in Requests, NEW a \in Accounts, TapLogIn(x, a) PROVE FALSE
  <2>1. Send(x, "login", a, NoName)
    BY <1>2 DEF TapLogIn
  <2> QED
    BY <1>1, <2>1
<1>3. ASSUME NEW x \in Requests, NEW a \in Accounts, NEW n \in Names, TapRegister(x, a, n)
      PROVE  requests'[r].name \in Names
  <2>1. Send(x, "register", a, n)
    BY <1>3 DEF TapRegister
  <2> QED
    BY <1>1, <2>1
<1>4. ASSUME UNCHANGED requests PROVE FALSE
  BY <1>4
<1>5. ASSUME ProcessEnds PROVE FALSE
  BY <1>5 DEF ProcessEnds
<1>6. ASSUME NEW op, requests' = Dropped(op) \/ requests' = AllDropped PROVE FALSE
  BY <1>6 DEF Dropped, AllDropped
<1>7. ASSUME NEW x \in Requests, x # r, NEW stage,
             requests' = [requests EXCEPT ![x].stage = stage]
      PROVE  FALSE
  BY <1>7 DEF TypeInv, TypeOK
<1>8. CASE RunBlock
  <2>1. CASE Notify
    BY <1>4, <1>6, <2>1 DEF Notify, Replace
  <2>2. ASSUME NEW op, Answered(op) PROVE FALSE
    <3>1. PICK x \in Requests, ok \in BOOLEAN :
            requests[x] \in Request /\ requests' = [requests EXCEPT ![x].stage = "done"]
      BY <2>2, TakenAnswer
    <3>2. x # r
      BY <3>1 DEF Request, NotMade
    <3> QED
      BY <1>7, <3>1, <3>2
  <2> QED
    BY <1>8, <2>1, <2>2 DEF RunBlock, LoginAnswered, RegistrationAnswered
<1>9. ASSUME NEW x \in Requests, ServerStep(x) PROVE FALSE
  <2>1. requests[x].stage = "sent" /\ requests' = [requests EXCEPT ![x].stage = "answered"]
    BY <1>9 DEF ServerStep, LoginSucceeds, RequestFails, AccountCreated, Answering
  <2>2. x # r
    BY <2>1 DEF NotMade
  <2> QED
    BY <1>7, <2>1, <2>2
<1>10. CASE UserStep
  <2>1. CASE OpenMyAnnouncements
    BY <1>4, <1>5, <2>1 DEF OpenMyAnnouncements, vars
  <2>2. CASE CloseRegistration
    BY <1>6, <2>2 DEF CloseRegistration
  <2>3. CASE TapIncomplete \/ DismissAlert \/ OpenRegistration
    BY <1>4, <2>3 DEF TapIncomplete, DismissAlert, OpenRegistration
  <2> QED
    BY <1>2, <1>3, <1>10, <2>1, <2>2, <2>3 DEF UserStep
<1> QED
  BY <1>4, <1>5, <1>8, <1>9, <1>10 DEF Next, vars, Launch, Restore, Kill, SignOut

LEMMA NextProfileInv ==
  ASSUME TypeInv, ProfileInv, [Next]_vars PROVE ProfileInv'
<1>1. ASSUME NEW a \in Accounts PROVE profiles'[a] \in {NoName, registered'[a]}
  <2>1. profiles[a] \in {NoName, registered[a]}
    BY DEF ProfileInv, ProfileAsRegistered
  <2>2. CASE profiles'[a] = profiles[a]
    BY <2>1, <2>2, RegisteredStep
  <2>3. ASSUME NEW r \in Requests, Answer(r, TRUE) \in ToSet(main),
               requests[r].op = "register", requests[r].account = a,
               profiles'[a] = requests[r].name
        PROVE  profiles'[a] = registered'[a]
    <3>1. requests[r] # NotMade
      BY <2>3 DEF TypeInv, AnsweredWereMade
    <3>2. registered[a] = requests[r].name /\ requests[r].name \in Names
      BY <2>3, <3>1 DEF ProfileInv
    <3> QED
      BY <2>3, <3>2, RegisteredStep, SessionAssumption
  <2> QED
    BY <2>2, <2>3, ProfilesStep
<1>2. ASSUME NEW r \in Requests, requests'[r] # NotMade, requests'[r].op = "register"
      PROVE  requests'[r].name \in Names
  <2>1. CASE requests[r] = NotMade
    BY <1>2, <2>1, NewRequest
  <2>2. CASE requests[r] # NotMade
    BY <1>2, <2>2, RequestsStep DEF Asks, ProfileInv
  <2> QED
    BY <2>1, <2>2
<1>3. ASSUME NEW r \in Requests, Answer(r, TRUE) \in ToSet(main'),
             requests'[r].op = "register"
      PROVE  registered'[requests'[r].account] = requests'[r].name
  <2>1. CASE Answer(r, TRUE) \in ToSet(main)
    <3>1. requests[r] # NotMade
      BY <2>1 DEF TypeInv, AnsweredWereMade
    <3>2. Asks(requests'[r]) = Asks(requests[r]) /\ requests[r] \in Request
      BY <3>1, RequestsStep DEF TypeInv, TypeOK
    <3>3. requests[r].op = "register" /\ requests[r].name \in Names
      BY <1>3, <3>1, <3>2 DEF Asks, ProfileInv
    <3>4. registered[requests[r].account] = requests[r].name
      BY <2>1, <3>3 DEF ProfileInv
    <3>5. requests[r].account \in Accounts
      BY <3>2 DEF Request
    <3> QED
      BY <3>2, <3>3, <3>4, <3>5, RegisteredStep, SessionAssumption DEF Asks
  <2>2. CASE LoginSucceeds(r) \/ AccountCreated(r)
    <3>1. requests[r] \in Request
      BY <2>2 DEF LoginSucceeds, AccountCreated, Answering, TypeInv, TypeOK, NotMade
    <3>2. Asks(requests'[r]) = Asks(requests[r])
      BY <3>1, RequestsStep DEF Request, NotMade
    <3>3. AccountCreated(r)
      BY <1>3, <2>2, <3>2 DEF LoginSucceeds, Asks
    <3>4. registered'[requests[r].account] = requests[r].name
      BY <3>1, <3>3 DEF AccountCreated, Request, TypeInv, TypeOK
    <3> QED
      BY <3>2, <3>4 DEF Asks
  <2> QED
    <3>1. \/ Answer(r, TRUE) \in ToSet(main)
          \/ Answering(r) /\ (TRUE => LoginSucceeds(r) \/ AccountCreated(r))
      BY <1>3, MainStep, TRUE \in BOOLEAN, Zenon
    <3> QED
      BY <2>1, <2>2, <3>1
<1> QED
  BY <1>1, <1>2, <1>3 DEF ProfileInv, ProfileAsRegistered

\* A document in "Users" carries the name its account was registered with, for
\* any accounts and any number of requests (RegistrationVC).
THEOREM ProfileAsRegisteredHolds == Spec => []ProfileAsRegistered
<1> DEFINE I == TypeInv /\ ProfileInv
<1>1. Init => I
  <2> SUFFICES ASSUME Init PROVE I
    OBVIOUS
  <2>1. ToSet(main) = {} /\ requests = [r \in Requests |-> NotMade]
    BY BlockType DEF Init
  <2>2. TypeInv
    BY <2>1, InitType DEF TypeInv, AnsweredWereMade
  <2>3. ProfileAsRegistered
    BY DEF Init, ProfileAsRegistered
  <2>4. ProfileInv
    BY <2>1, <2>3 DEF ProfileInv
  <2> QED
    BY <2>2, <2>4
<1>2. I /\ [Next]_vars => I'
  <2> SUFFICES ASSUME I, [Next]_vars PROVE I'
    OBVIOUS
  <2>1. TypeInv'
    BY NextTypeInv
  <2>2. ProfileInv'
    BY NextProfileInv
  <2> QED
    BY <2>1, <2>2
<1>3. I => ProfileAsRegistered
  BY DEF ProfileInv
<1> QED
  BY <1>1, <1>2, <1>3, PTL DEF Spec

-----------------------------------------------------------------------------
(***************************************************************************)
(* The end of the process in getMyPetsData.                                *)
(***************************************************************************)
\* There is no window without a process.
WindowRuns == window # "none" => running

LEMMA NextWindowRuns ==
  ASSUME TypeInv, ListenerInv, WindowRuns, [Next]_vars PROVE WindowRuns'
<1>1. CASE UNCHANGED <<running, window>>
  BY <1>1 DEF WindowRuns
<1>2. CASE ProcessEnds
  BY <1>2 DEF ProcessEnds, WindowRuns
<1>3. CASE Launch
  BY <1>3 DEF Launch, WindowRuns
<1>4. CASE Notify
  BY <1>4 DEF Notify, ListenerInv, WindowRuns
<1> QED
  BY <1>1, <1>2, <1>3, <1>4 DEF Next, RunBlock, ServerStep, UserStep, Restore, Kill,
     LoginAnswered, RegistrationAnswered, LoginSucceeds, RequestFails, AccountCreated,
     Answering, SignOut, TapLogIn, TapRegister, Send, TapIncomplete, DismissAlert,
     OpenRegistration, CloseRegistration, Cover, OpenMyAnnouncements, vars, ui

\* Only "user!" changes it.
LEMMA UnwrappedStep ==
  ASSUME Next, unwrapped' # unwrapped PROVE OpenMyAnnouncements /\ Current = NoUser
BY DEF Next, RunBlock, Notify, ServerStep, UserStep, Launch, Restore, Kill,
   LoginAnswered, RegistrationAnswered, LoginSucceeds, RequestFails, AccountCreated,
   Answering, SignOut, TapLogIn, TapRegister, Send, TapIncomplete, DismissAlert,
   OpenRegistration, CloseRegistration, Cover, OpenMyAnnouncements, vars

\* "user!" ends the process only while the listener has yet to hear that the user is
\* gone: with nothing waiting, the tab bar is on the screen of somebody who is signed in
\* (Service.getMyPetsData, SceneDelegate).
THEOREM UnwrapsOnlyUntoldHolds == Spec => UnwrapsOnlyUntold
<1> DEFINE I == TypeInv /\ ListenerInv /\ WindowRuns
<1>1. Init => I
  BY InitType, BlockType DEF Init, TypeInv, AnsweredWereMade, ListenerInv, WindowRuns
<1>2. I /\ [Next]_vars => I'
  BY NextTypeInv, NextListenerInv, NextWindowRuns
<1>3. I /\ [Next]_vars => [unwrapped' # unwrapped => Notification \in ToSet(main)]_vars
  <2> SUFFICES ASSUME I, Next, unwrapped' # unwrapped, Notification \notin ToSet(main)
               PROVE  FALSE
    OBVIOUS
  <2>1. window = "tabs" /\ Current = NoUser
    BY UnwrappedStep DEF OpenMyAnnouncements
  <2>2. running /\ heard = Current
    BY <2>1 DEF WindowRuns, ListenerInv
  <2>3. Shows(NoUser)
    BY <2>1, <2>2, CurrentType, SessionAssumption DEF TypeInv, ListenerInv, Users
  <2> QED
    BY <2>1, <2>3 DEF Shows
<1> QED
  BY <1>1, <1>2, <1>3, PTL DEF Spec, UnwrapsOnlyUntold
=============================================================================
