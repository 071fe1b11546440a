--------------------------- MODULE PublishProofs ---------------------------
(***************************************************************************)
(* Proofs about Publish, for any number of accounts, screens and taps.     *)
(***************************************************************************)
EXTENDS Publish, SequenceTheorems, TLAPS

-----------------------------------------------------------------------------
(***************************************************************************)
(* Types.  TypeOK is not inductive by itself: a callback writes to the     *)
(* screen of its tap, which must not have been released.                   *)
(***************************************************************************)
TypeInv == TypeOK /\ LiveScreens

\* Only taps that were made have writes.
WritesAreTapped == \A w \in Documents : taps[w.tap] # NotTapped

Inv == TypeInv /\ WritesAreTapped

LEMMA ReleasedIsNoScreen == Released \notin Screen
  BY PublishAssumption DEF Released, Screen

LEMMA FreshScreenType ==
  ASSUME NEW u \in Users PROVE FreshScreen(u) \in Screen /\ FreshScreen(u).user = u
  BY PublishAssumption DEF FreshScreen, Screen, Statuses, Modals

LEMMA EndedType ==
  ASSUME NEW tap \in Tap, NEW stage \in Stopped
  PROVE  /\ Ended(tap, stage) \in Tap
         /\ Ended(tap, stage).stage = stage
         /\ Ended(tap, stage).screen = NoScreen
         /\ Ended(tap, stage).by = tap.by
         /\ Ended(tap, stage).content = tap.content
         /\ Ended(tap, stage).photo = tap.photo
         /\ Ended(tap, stage).seen = tap.seen
         /\ Ended(tap, stage).told = tap.told
  BY DEF Ended, Tap, Stopped

LEMMA ToldType ==
  ASSUME NEW tap \in Tap, NEW shown, NEW what \in {"nothing", "created", "failed"}
  PROVE  /\ Told(tap, shown, what) \in Tap
         /\ Told(tap, shown, what).stage = tap.stage
         /\ Told(tap, shown, what).screen = tap.screen
         /\ Told(tap, shown, what).by = tap.by
         /\ Told(tap, shown, what).content = tap.content
         /\ Told(tap, shown, what).photo = tap.photo
         /\ Told(tap, shown, what).seen = tap.seen
         /\ Told(tap, shown, what).told \in {tap.told, what}
  BY DEF Told, Tap

LEMMA WithAlertType ==
  ASSUME NEW f \in Screen, NEW shown
  PROVE  /\ WithAlert(f, shown) \in Screen
         /\ WithAlert(f, shown).user = f.user
         /\ WithAlert(f, shown).status = f.status
  BY DEF WithAlert, Screen, Modals

LEMMA RunningIsTapped ==
  ASSUME TypeOK, NEW t \in Taps, taps[t].stage \in Running PROVE taps[t] \in Tap
  BY DEF TypeOK, NotTapped, Running

LEMMA CollectType ==
  ASSUME NEW scr \in [Screens -> Screen \cup {Released}], NEW f, NEW ts
  PROVE  Collect(scr, f, ts) \in [Screens -> Screen \cup {Released}]
  BY DEF Collect

LEMMA InitTypeInv == Init => TypeInv
<1> SUFFICES ASSUME Init PROVE TypeInv
  OBVIOUS
<1> USE DEF Init
<1>1. session \in Accounts
  BY DEF Accounts
<1>2. front \in Screens \cup {NoScreen}
  OBVIOUS
<1>3. visible \in BOOLEAN
  OBVIOUS
<1>4. screens \in [Screens -> Screen \cup {Released}]
  OBVIOUS
<1>5. taps \in [Taps -> Tap \cup {NotTapped}]
  OBVIOUS
<1>6. storage \in [Names -> Photos \cup {NoPhoto}]
  OBVIOUS
<1>7. queue \in [Accounts -> Seq(Write)]
  OBVIOUS
<1>8. board \subseteq Write /\ nextId \in Nat
  OBVIOUS
<1>9. LiveScreens
  BY DEF LiveScreens, NotTapped, Running
<1> QED
  BY <1>1, <1>2, <1>3, <1>4, <1>5, <1>6, <1>7, <1>8, <1>9 DEF TypeOK, TypeInv

(***************************************************************************)
(* The step of each group of actions.                                      *)
(***************************************************************************)
LEMMA WindowTypeInv ==
  ASSUME TypeInv,
         \/ \E u \in Users : SignIn(u)
         \/ SignOut \/ CloseScreen \/ Kill \/ SelectTab
         \/ \E v \in Screens : OpenScreen(v)
  PROVE  TypeInv'
<1> USE DEF TypeInv
<1>1. ASSUME NEW u \in Users, SignIn(u) PROVE TypeInv'
  BY <1>1 DEF TypeOK, LiveScreens, SignIn, Accounts
<1>2. ASSUME SignOut PROVE TypeInv'
  BY <1>2 DEF TypeOK, LiveScreens, SignOut, Accounts
<1>3. ASSUME CloseScreen PROVE TypeInv'
  <2> USE <1>3 DEF CloseScreen
  <2>1. screens' \in [Screens -> Screen \cup {Released}]
    BY CollectType DEF TypeOK
  <2>2. TypeOK'
    BY <2>1 DEF TypeOK
  <2>3. ASSUME NEW t \in Taps, taps[t].stage \in Running
        PROVE  screens'[taps[t].screen] = screens[taps[t].screen]
    BY <2>3 DEF LiveScreens, Collect, NotTapped, Running
  <2>4. LiveScreens'
    BY <2>3 DEF LiveScreens
  <2> QED
    BY <2>2, <2>4
<1>4. ASSUME Kill PROVE TypeInv'
  <2> USE <1>4 DEF Kill
  <2>1. ASSUME NEW t \in Taps
        PROVE  taps'[t] \in Tap \cup {NotTapped} /\ taps'[t].stage \notin Running
    <3>1. CASE taps[t].stage \in Running
      BY <3>1, RunningIsTapped, EndedType DEF Running, Stopped
    <3>2. CASE taps[t].stage \notin Running
      BY <3>2 DEF TypeOK
    <3> QED
      BY <3>1, <3>2
  <2>2. taps' \in [Taps -> Tap \cup {NotTapped}]
    BY <2>1
  <2>3. TypeOK'
    BY <2>2 DEF TypeOK
  <2> QED
    BY <2>1, <2>3 DEF LiveScreens
<1>5. ASSUME SelectTab PROVE TypeInv'
  BY <1>5 DEF TypeOK, LiveScreens, SelectTab
<1>6. ASSUME NEW v \in Screens, OpenScreen(v) PROVE TypeInv'
  <2> USE <1>6 DEF OpenScreen
  <2>1. session \in Users
    BY DEF TypeOK, Accounts
  <2>2. FreshScreen(session) \in Screen
    BY <2>1, FreshScreenType
  <2> DEFINE scr == [screens EXCEPT ![v] = FreshScreen(session)]
  <2>3. scr \in [Screens -> Screen \cup {Released}]
    BY <2>2 DEF TypeOK
  <2>4. /\ scr[v] = FreshScreen(session)
        /\ \A x \in Screens : x # v => scr[x] = screens[x]
    BY DEF TypeOK
  <2>5. screens' = Collect(scr, v, taps)
    OBVIOUS
  <2> HIDE DEF scr
  <2>6. TypeOK'
    <3>1. Collect(scr, v, taps) \in [Screens -> Screen \cup {Released}]
      BY ONLY <2>3, CollectType
    <3>2. screens' \in [Screens -> Screen \cup {Released}]
      BY <3>1, <2>5
    <3> QED
      BY <3>2 DEF TypeOK
  <2>7. screens'[v] \in Screen
    <3>1. screens'[v] = scr[v]
      BY <2>5 DEF Collect
    <3> QED
      BY <2>2, <2>4, <3>1
  <2>8. ASSUME NEW t \in Taps, taps[t].stage \in Running
        PROVE  screens'[taps[t].screen] = screens[taps[t].screen]
    <3>1. taps[t].screen \in Screens /\ taps[t].screen # v
      BY <2>8, ReleasedIsNoScreen DEF LiveScreens
    <3>2. taps[t] # NotTapped
      BY <2>8 DEF NotTapped, Running
    <3> QED
      BY <2>4, <2>5, <3>1, <3>2 DEF Collect
  <2>9. LiveScreens'
    BY <2>7, <2>8 DEF LiveScreens
  <2> QED
    BY <2>6, <2>9
<1> QED
  BY <1>1, <1>2, <1>3, <1>4, <1>5, <1>6

\* The user's actions other than a publish change fields of the front screen.
LEMMA EditTypeInv ==
  ASSUME TypeInv, NEW v \in Screens, v = front, NEW r \in Screen,
         r.user = screens[v].user,
         screens' = [screens EXCEPT ![v] = r],
         \/ UNCHANGED taps
         \/ \E s \in Statuses : SelectStatus(v, s),
         UNCHANGED <<session, front, storage, queue, board, nextId>>,
         visible' \in BOOLEAN
  PROVE  TypeInv'
<1> USE DEF TypeInv
<1>1. taps' \in [Taps -> Tap \cup {NotTapped}]
  <2>1. CASE UNCHANGED taps
    BY <2>1 DEF TypeOK
  <2>2. ASSUME NEW s \in Statuses, SelectStatus(v, s)
        PROVE  taps' \in [Taps -> Tap \cup {NotTapped}]
    <3>1. ASSUME NEW t \in Taps, taps[t] \in Tap
          PROVE  [taps[t] EXCEPT !.seen = s] \in Tap
      BY <3>1 DEF Tap
    <3>2. ASSUME NEW t \in Taps PROVE taps'[t] \in Tap \cup {NotTapped}
      BY <2>2, <3>1, RunningIsTapped DEF SelectStatus, TypeOK, Running
    <3> QED
      BY <2>2, <3>2 DEF SelectStatus
  <2> QED
    BY <2>1, <2>2
<1>2. ASSUME NEW t \in Taps
      PROVE  /\ taps'[t].stage = taps[t].stage
             /\ taps[t].stage \in Running => /\ taps'[t].screen = taps[t].screen
                                             /\ taps'[t].by = taps[t].by
  <2>1. CASE UNCHANGED taps
    BY <2>1
  <2>2. ASSUME NEW s \in Statuses, SelectStatus(v, s)
        PROVE  /\ taps'[t].stage = taps[t].stage
               /\ taps[t].stage \in Running => /\ taps'[t].screen = taps[t].screen
                                               /\ taps'[t].by = taps[t].by
    BY <2>2, RunningIsTapped DEF SelectStatus, Tap, Running
  <2> QED
    BY <2>1, <2>2
<1>3. TypeOK'
  BY <1>1 DEF TypeOK
<1>4. LiveScreens'
  BY <1>2 DEF LiveScreens, TypeOK
<1> QED
  BY <1>3, <1>4

LEMMA UserTypeInv ==
  ASSUME TypeInv, NEW v \in Screens, UserStep(v) PROVE TypeInv'
<1> USE DEF TypeInv
<1>0. v = front => screens[v] \in Screen
  BY PublishAssumption DEF LiveScreens
<1>1. ASSUME NEW c \in Contents \cup {Blank}, Type(v, c) PROVE TypeInv'
  <2> DEFINE r == [screens[v] EXCEPT !.content = c]
  <2>1. r \in Screen /\ r.user = screens[v].user
    BY <1>0, <1>1 DEF Type, AtForm, Uncovered, Screen
  <2> QED
    BY <1>1, <2>1, EditTypeInv DEF Type, AtForm, Uncovered, TypeOK
<1>2. ASSUME NEW s \in Statuses, SelectStatus(v, s) PROVE TypeInv'
  <2> DEFINE r == [screens[v] EXCEPT !.status = s]
  <2>1. r \in Screen /\ r.user = screens[v].user
    BY <1>0, <1>2 DEF SelectStatus, AtForm, Uncovered, Screen
  <2>2. screens' = [screens EXCEPT ![v] = r]
    BY <1>2 DEF SelectStatus
  <2>3. v = front /\ UNCHANGED <<session, front, visible, storage, queue, board, nextId>>
    BY <1>2 DEF SelectStatus, AtForm, Uncovered
  <2> QED
    BY <1>2, <2>1, <2>2, <2>3, EditTypeInv DEF TypeOK
<1>3. ASSUME OpenPhotoPicker(v) \/ TapIncomplete(v) \/ DismissModal(v) PROVE TypeInv'
  <2>1. PICK w \in Modals : screens' = [screens EXCEPT ![v].modal = w]
    BY <1>3 DEF OpenPhotoPicker, TapIncomplete, DismissModal, Modals
  <2> DEFINE r == [screens[v] EXCEPT !.modal = w]
  <2>2. v = front /\ UNCHANGED <<session, front, visible, taps, storage, queue, board, nextId>>
    BY <1>3 DEF OpenPhotoPicker, TapIncomplete, DismissModal, AtForm, Uncovered
  <2>3. r \in Screen /\ r.user = screens[v].user
    BY <1>0, <2>2 DEF Screen
  <2> QED
    BY <2>1, <2>2, <2>3, EditTypeInv DEF TypeOK
<1>4. ASSUME NEW p \in Photos, FinishPicking(v, p) PROVE TypeInv'
  <2> DEFINE r == [screens[v] EXCEPT !.modal = "none", !.photo = p]
  <2>1. r \in Screen /\ r.user = screens[v].user
    BY <1>0, <1>4 DEF FinishPicking, Screen, Modals
  <2>2. screens' = [screens EXCEPT ![v] = r]
    BY <1>4 DEF FinishPicking, TypeOK
  <2> QED
    BY <1>4, <2>1, <2>2, EditTypeInv DEF FinishPicking, TypeOK
<1>5. ASSUME NEW t \in Taps, TapPublish(v, t) PROVE TypeInv'
  <2> DEFINE tap == [stage |-> "uploading", screen |-> v, by |-> screens[v].user,
                     content |-> screens[v].content, photo |-> screens[v].photo,
                     seen |-> screens[v].status, told |-> "nothing"]
  <2>0. v = front /\ screens[v] \in Screen /\ screens[v].content # Blank
    BY <1>0, <1>5 DEF TapPublish, AtForm, Uncovered
  <2>1. tap \in Tap
    BY <2>0 DEF Tap, Screen, Running
  <2>2. Ended(tap, "unencodable") \in Tap /\ Ended(tap, "unencodable").stage = "unencodable"
    BY <2>1, EndedType DEF Stopped
  <2>3. \/ taps' = [taps EXCEPT ![t] = tap]
        \/ taps' = [taps EXCEPT ![t] = Ended(tap, "unencodable")]
    BY <1>5 DEF TapPublish
  <2>4. taps' \in [Taps -> Tap \cup {NotTapped}]
    BY <2>1, <2>2, <2>3 DEF TypeOK
  <2>5. TypeOK'
    BY <1>5, <2>4 DEF TapPublish, TypeOK
  <2>6. ASSUME NEW x \in Taps, taps'[x].stage \in Running
        PROVE  \/ taps'[x] = taps[x]
               \/ taps'[x].screen = v /\ taps'[x].by = screens[v].user
    BY <2>2, <2>3, <2>6 DEF TypeOK, Running
  <2>7. LiveScreens'
    BY <1>5, <2>0, <2>6 DEF TapPublish, LiveScreens
  <2> QED
    BY <2>5, <2>7
<1> QED
  BY <1>1, <1>2, <1>3, <1>4, <1>5 DEF UserStep

\* The end of a chain, with or without changes to the fields of its screen.
LEMMA EndTypeInv ==
  ASSUME TypeInv, NEW t \in Taps, taps[t] \in Tap, NEW tap \in Tap,
         tap.stage \in Stopped,
         taps' = [taps EXCEPT ![t] = tap],
         NEW scr \in [Screens -> Screen \cup {Released}],
         \A v \in Screens : screens[v] \in Screen =>
           scr[v] \in Screen /\ scr[v].user = screens[v].user,
         screens' = Collect(scr, front, taps'),
         UNCHANGED <<session, front, visible, storage, nextId>>,
         queue' \in [Accounts -> Seq(Write)],
         board' \subseteq Write
  PROVE  TypeInv'
<1> USE DEF TypeInv
<1>1. TypeOK'
  BY CollectType DEF TypeOK
<1>2. front # NoScreen => screens'[front] \in Screen
  BY DEF LiveScreens, Collect, TypeOK
<1>3. ASSUME NEW x \in Taps, taps'[x].stage \in Running
      PROVE  /\ taps'[x] = taps[x]
             /\ screens'[taps[x].screen] = scr[taps[x].screen]
  <2>1. taps'[x] = taps[x]
    BY <1>3 DEF TypeOK, Running, Stopped
  <2>2. taps[x].screen \in Screens /\ taps'[x] # NotTapped
    BY <1>3, <2>1 DEF LiveScreens, NotTapped, Running
  <2> QED
    BY <2>1, <2>2 DEF Collect
<1>4. ASSUME NEW x \in Taps, taps'[x].stage \in Running
      PROVE  /\ taps'[x].screen \in Screens
             /\ screens'[taps'[x].screen] \in Screen
             /\ screens'[taps'[x].screen].user = taps'[x].by
  <2>1. taps[x].stage \in Running
    BY <1>3, <1>4
  <2>2. /\ taps[x].screen \in Screens
        /\ screens[taps[x].screen] \in Screen
        /\ screens[taps[x].screen].user = taps[x].by
    BY <2>1 DEF LiveScreens
  <2> DEFINE v == taps[x].screen
  <2>3. scr[v] \in Screen /\ scr[v].user = taps[x].by
    BY <2>2
  <2>4. taps'[x] = taps[x] /\ screens'[v] = scr[v]
    BY <1>3, <1>4
  <2> HIDE DEF v
  <2>5. /\ v \in Screens
        /\ screens'[v] \in Screen
        /\ screens'[v].user = taps'[x].by
    BY <2>2, <2>3, <2>4 DEF v
  <2> QED
    BY <2>4, <2>5 DEF v
<1>5. LiveScreens'
  BY <1>2, <1>4 DEF LiveScreens
<1> QED
  BY <1>1, <1>5

LEMMA NewWriteType ==
  ASSUME TypeInv, NEW t \in Taps, taps[t].stage \in Running
  PROVE  /\ NewWrite(t) \in Write
         /\ NewWrite(t).tap = t
         /\ NewWrite(t).owner = taps[t].by
         /\ NewWrite(t).content = taps[t].content
         /\ NewWrite(t).photo = ObjectName(taps[t].by, t)
         /\ NewWrite(t).status = screens[taps[t].screen].status
         /\ NewWrite(t).id = nextId
<1> DEFINE scr == screens[taps[t].screen]
<1>1. taps[t] \in Tap
  BY RunningIsTapped DEF TypeInv
<1>2. scr \in Screen /\ scr.user = taps[t].by /\ nextId \in Nat
  BY DEF TypeInv, TypeOK, LiveScreens
<1>3. taps[t].by \in Users /\ taps[t].content \in Contents
  BY <1>1 DEF Tap
<1>4. scr.status \in Statuses
  BY <1>2 DEF Screen
<1>5. ObjectName(taps[t].by, t) \in Names
  BY <1>3 DEF ObjectName, Names
<1> HIDE DEF scr
<1> QED
  BY <1>2, <1>3, <1>4, <1>5 DEF NewWrite, Write, scr

LEMMA ChainTypeInv ==
  ASSUME TypeInv, NEW t \in Taps, ChainStep(t) PROVE TypeInv'
<1> USE DEF TypeInv
<1>0. taps[t].stage \in Running /\ taps[t] \in Tap
  BY RunningIsTapped DEF ChainStep, PutObject, UploadDone, UploadFailed, LinkDone, Running
<1>1. ASSUME PutObject(t) PROVE TypeInv'
  <2>1. storage' \in [Names -> Photos \cup {NoPhoto}]
    BY <1>0, <1>1 DEF PutObject, TypeOK, Names, ObjectName, Tap
  <2> QED
    BY <1>1, <2>1 DEF PutObject, TypeOK, LiveScreens
<1>2. ASSUME UploadDone(t) \/ LinkDone(t) PROVE TypeInv'
  <2>1. PICK stage \in Running : taps' = [taps EXCEPT ![t].stage = stage]
    BY <1>2 DEF UploadDone, LinkDone, Running
  <2>2. [taps[t] EXCEPT !.stage = stage] \in Tap
    BY <1>0 DEF Tap
  <2>3. /\ taps' \in [Taps -> Tap \cup {NotTapped}]
        /\ \A x \in Taps : taps'[x].stage \in Running =>
             /\ taps[x].stage \in Running
             /\ taps'[x].screen = taps[x].screen
             /\ taps'[x].by = taps[x].by
    BY <1>0, <2>1, <2>2 DEF TypeOK, Tap
  <2>4. queue' \in [Accounts -> Seq(Write)] /\ nextId' \in Nat
    <3>1. CASE UploadDone(t)
      BY <3>1 DEF UploadDone, TypeOK
    <3>2. CASE LinkDone(t)
      <4>1. Append(queue[session], NewWrite(t)) \in Seq(Write)
        BY <1>0, NewWriteType DEF TypeOK
      <4> QED
        BY <3>2, <4>1 DEF LinkDone, TypeOK
    <3> QED
      BY <1>2, <3>1, <3>2
  <2>5. UNCHANGED <<session, front, visible, screens, storage, board>>
    BY <1>2 DEF UploadDone, LinkDone
  <2>6. TypeOK'
    BY <2>3, <2>4, <2>5 DEF TypeOK
  <2> QED
    BY <2>3, <2>5, <2>6 DEF LiveScreens
<1>3. ASSUME UploadFailed(t) PROVE TypeInv'
  <2> DEFINE v == taps[t].screen
  <2>1. PICK shown \in Presents(v) :
          /\ taps' = [taps EXCEPT ![t] = Told(Ended(@, "failed"), shown, "failed")]
          /\ screens' = Collect([screens EXCEPT ![v] = WithAlert(@, shown)], front, taps')
    BY <1>3 DEF UploadFailed
  <2> DEFINE tap == Told(Ended(taps[t], "failed"), shown, "failed")
             scr == [screens EXCEPT ![v] = WithAlert(screens[v], shown)]
  <2>4. tap \in Tap /\ tap.stage \in Stopped
    BY <1>0, EndedType, ToldType DEF Stopped
  <2>5. v \in Screens /\ screens[v] \in Screen
    BY <1>0 DEF LiveScreens
  <2>6. WithAlert(screens[v], shown) \in Screen /\ WithAlert(screens[v], shown).user = screens[v].user
    BY <2>5, WithAlertType
  <2>7. scr[v] \in Screen /\ scr[v].user = screens[v].user
    BY <2>5, <2>6 DEF TypeOK
  <2>8. scr \in [Screens -> Screen \cup {Released}]
    BY <2>5, <2>7 DEF TypeOK
  <2>9. \A x \in Screens : screens[x] \in Screen =>
          scr[x] \in Screen /\ scr[x].user = screens[x].user
    BY <2>7 DEF TypeOK
  <2>10. taps' = [taps EXCEPT ![t] = tap] /\ screens' = Collect(scr, front, taps')
    BY <2>1 DEF TypeOK
  <2>11. UNCHANGED <<session, front, visible, storage, queue, board, nextId>>
    BY <1>3 DEF UploadFailed
  <2> HIDE DEF tap, scr, v
  <2> QED
    BY <1>0, <2>4, <2>8, <2>9, <2>10, <2>11, EndTypeInv DEF TypeOK
<1> QED
  BY <1>1, <1>2, <1>3 DEF ChainStep

LEMMA HeadType ==
  ASSUME TypeOK, Sending
  PROVE  /\ Head(queue[session]) \in Write
         /\ Tail(queue[session]) \in Seq(Write)
         /\ queue[session] \in Seq(Write)
BY DEF TypeOK, Sending

(***************************************************************************)
(* Documents move from a queue to the board; only LinkDone makes new ones. *)
(***************************************************************************)
LEMMA InDocuments ==
  ASSUME TypeOK, NEW w
  PROVE  w \in Documents <=>
           \/ w \in board
           \/ \E a \in Accounts : \E i \in 1..Len(queue[a]) : w = queue[a][i]
<1>1. ASSUME NEW a \in Accounts PROVE DOMAIN queue[a] = 1..Len(queue[a])
  BY DEF TypeOK
<1>2. \A a \in Accounts :
        w \in ToSet(queue[a]) <=> \E i \in 1..Len(queue[a]) : w = queue[a][i]
  BY <1>1 DEF ToSet
<1>3. w \in Documents <=> w \in board \/ \E a \in Accounts : w \in ToSet(queue[a])
  BY Zenon DEF Documents
<1> QED
  BY <1>2, <1>3, Zenon

LEMMA HeadQueued ==
  ASSUME TypeOK, Sending PROVE Head(queue[session]) \in Documents
<1>1. queue[session] \in Seq(Write) /\ queue[session] # <<>> /\ session \in Accounts
  BY DEF TypeOK, Sending
<1>2. 1 \in 1..Len(queue[session]) /\ Head(queue[session]) = queue[session][1]
  BY <1>1
<1> QED
  BY <1>1, <1>2, InDocuments

LEMMA DocumentType ==
  ASSUME TypeOK, NEW w \in Documents PROVE w \in Write
<1>1. board \subseteq Write /\ queue \in [Accounts -> Seq(Write)]
  BY DEF TypeOK
<1>2. \A a \in Accounts : \A i \in 1..Len(queue[a]) : queue[a][i] \in Write
  <2>1. ASSUME NEW q \in Seq(Write), NEW i \in 1..Len(q) PROVE q[i] \in Write
    OBVIOUS
  <2>2. \A a \in Accounts : queue[a] \in Seq(Write)
    BY <1>1
  <2> QED
    BY <2>1, <2>2, Zenon
<1>3. w \in board \/ \E a \in Accounts : \E i \in 1..Len(queue[a]) : w = queue[a][i]
  BY InDocuments
<1> QED
  BY <1>1, <1>2, <1>3

LEMMA DequeueDocuments ==
  ASSUME TypeOK, TypeOK', Sending, DequeueWrite, UNCHANGED board
  PROVE  Documents' \subseteq Documents
<1> SUFFICES ASSUME NEW w, w \in Documents' PROVE w \in Documents
  OBVIOUS
<1>1. CASE w \in board'
  BY <1>1, InDocuments
<1>2. ASSUME NEW a \in Accounts, NEW i \in 1..Len(queue'[a]), w = queue'[a][i]
      PROVE  w \in Documents
  <2>1. CASE a = session
    <3>1. queue[a] \in Seq(Write) /\ queue[a] # <<>> /\ queue'[a] = Tail(queue[a])
      BY <2>1 DEF TypeOK, Sending, DequeueWrite
    <3>2. i + 1 \in 1..Len(queue[a]) /\ w = queue[a][i + 1]
      BY <1>2, <3>1
    <3> QED
      BY <3>2, InDocuments
  <2>2. CASE a # session
    <3>1. queue'[a] = queue[a]
      BY <2>2 DEF TypeOK, DequeueWrite
    <3> QED
      BY <1>2, <3>1, InDocuments
  <2> QED
    BY <2>1, <2>2
<1>3. w \in board' \/ \E a \in Accounts : \E i \in 1..Len(queue'[a]) : w = queue'[a][i]
  <2>1. ASSUME NEW a \in Accounts PROVE DOMAIN queue'[a] = 1..Len(queue'[a])
    BY DEF TypeOK
  <2> QED
    BY <2>1 DEF Documents, ToSet
<1> QED
  BY <1>1, <1>2, <1>3

LEMMA SyncTypeInv ==
  ASSUME Inv, SyncStep PROVE TypeInv'
<1> USE DEF Inv, TypeInv
<1> DEFINE t == Head(queue[session]).tap
<1>0. ASSUME Sending, DequeueWrite
      PROVE  queue' \in [Accounts -> Seq(Write)]
  BY <1>0, HeadType DEF DequeueWrite, TypeOK
<1>1. ASSUME CommitWrite PROVE TypeInv'
  <2>1. board' \subseteq Write
    BY <1>1 DEF CommitWrite, TypeOK
  <2> QED
    BY <1>1, <2>1 DEF CommitWrite, TypeOK, LiveScreens
<1>2. ASSUME AckRestoredWrite PROVE TypeInv'
  BY <1>0, <1>2 DEF AckRestoredWrite, TypeOK, LiveScreens
<1>3. ASSUME AckWrite PROVE TypeInv'
  <2>0. t \in Taps /\ taps[t].stage = "posting" /\ taps[t] \in Tap
    BY <1>3, HeadType, RunningIsTapped DEF AckWrite, Write, Running
  <2> DEFINE v == taps[t].screen
  <2>1. PICK shown \in Presents(v) :
          /\ taps' = [taps EXCEPT ![t] = Told(Ended(@, "done"), shown, "created")]
          /\ screens' = Collect([screens EXCEPT ![v] = WithAlert(Cleared(@), shown)],
                                front, taps')
    BY <1>3 DEF AckWrite, Written
  <2> DEFINE tap == Told(Ended(taps[t], "done"), shown, "created")
             r == WithAlert(Cleared(screens[v]), shown)
             scr == [screens EXCEPT ![v] = r]
  <2>2. v \in Screens /\ screens[v] \in Screen
    BY <2>0 DEF LiveScreens, Running
  <2>5. tap \in Tap /\ tap.stage \in Stopped
    BY <2>0, EndedType, ToldType DEF Stopped
  <2>6. Cleared(screens[v]) \in Screen /\ Cleared(screens[v]).user = screens[v].user
    BY <2>2, PublishAssumption DEF Cleared, Screen
  <2>7. r \in Screen /\ r.user = screens[v].user
    BY <2>6, WithAlertType
  <2>8. scr \in [Screens -> Screen \cup {Released}]
    BY <2>2, <2>7 DEF TypeOK
  <2>9. \A x \in Screens : screens[x] \in Screen =>
          scr[x] \in Screen /\ scr[x].user = screens[x].user
    BY <2>7 DEF TypeOK
  <2>10. taps' = [taps EXCEPT ![t] = tap] /\ screens' = Collect(scr, front, taps')
    BY <2>1
  <2>11. UNCHANGED <<session, front, visible, storage, board, nextId>>
    BY <1>3 DEF AckWrite
  <2>12. queue' \in [Accounts -> Seq(Write)] /\ board' \subseteq Write
    BY <1>0, <1>3 DEF AckWrite, TypeOK
  <2> HIDE DEF tap, scr, v, r, t
  <2> QED
    BY <2>0, <2>5, <2>8, <2>9, <2>10, <2>11, <2>12, EndTypeInv
<1>4. ASSUME RejectWrite PROVE TypeInv'
  <2> DEFINE tap == Ended(taps[t], "rejected")
  <2>0. Head(queue[session]) \in Documents
    BY <1>4, HeadQueued DEF RejectWrite
  <2>1. t \in Taps /\ taps[t] \in Tap
    BY <1>4, <2>0, HeadType DEF RejectWrite, Write, WritesAreTapped, TypeOK
  <2>2. tap \in Tap /\ tap.stage \in Stopped
    BY <2>1, EndedType DEF Stopped
  <2>3. taps' = [taps EXCEPT ![t] = tap] /\ screens' = Collect(screens, front, taps')
    BY <1>4, <2>1 DEF RejectWrite, TypeOK
  <2>4. UNCHANGED <<session, front, visible, storage, board, nextId>>
    BY <1>4 DEF RejectWrite
  <2>5. queue' \in [Accounts -> Seq(Write)] /\ board' \subseteq Write
    BY <1>0, <1>4, <2>4 DEF RejectWrite, TypeOK
  <2> HIDE DEF tap, t
  <2> QED
    BY <1>4, <2>1, <2>2, <2>3, <2>4, <2>5, EndTypeInv DEF TypeOK
<1> QED
  BY <1>1, <1>2, <1>3, <1>4 DEF SyncStep

LEMMA NextTypeInv == Inv /\ [Next]_vars => TypeInv'
<1> SUFFICES ASSUME Inv, [Next]_vars PROVE TypeInv'
  OBVIOUS
<1>1. CASE UNCHANGED vars
  <2> USE <1>1 DEF vars
  <2>1. TypeOK'
    BY DEF Inv, TypeInv, TypeOK
  <2>2. LiveScreens'
    BY DEF Inv, TypeInv, LiveScreens
  <2> QED
    BY <2>1, <2>2 DEF TypeInv
<1>2. CASE Next
  BY <1>2, WindowTypeInv, UserTypeInv, ChainTypeInv, SyncTypeInv DEF Next, Inv
<1> QED
  BY <1>1, <1>2

-----------------------------------------------------------------------------
(***************************************************************************)
(* What a step does to a tap, to the documents and to the storage.         *)
(***************************************************************************)
LEMMA DocumentsStep ==
  ASSUME TypeOK, TypeOK', [Next]_vars, NEW w \in Documents'
  PROVE  w \in Documents \/ \E t \in Taps : LinkDone(t) /\ w = NewWrite(t)
<1>1. ASSUME UNCHANGED <<queue, board>> PROVE w \in Documents
  BY <1>1 DEF Documents
<1>2. CASE AckWrite \/ AckRestoredWrite \/ RejectWrite
  BY <1>2, DequeueDocuments DEF AckWrite, AckRestoredWrite, RejectWrite
<1>3. CASE CommitWrite
  <2>1. PICK i \in DOMAIN queue[session] : board' = board \cup {queue[session][i]}
    BY <1>3 DEF CommitWrite
  <2>2. queue[session][i] \in Documents
    BY <2>1 DEF Documents, ToSet, TypeOK
  <2> QED
    BY <1>3, <2>1, <2>2 DEF Documents, CommitWrite
<1>4. ASSUME NEW t \in Taps, LinkDone(t) PROVE w \in Documents \/ w = NewWrite(t)
  <2>1. CASE w \in board'
    BY <1>4, <2>1 DEF LinkDone, Documents
  <2>2. ASSUME NEW a \in Accounts, NEW i \in DOMAIN queue'[a], w = queue'[a][i]
        PROVE  w \in Documents \/ w = NewWrite(t)
    <3>1. /\ queue[a] \in Seq(Write)
          /\ \/ queue'[a] = queue[a]
             \/ queue'[a] = Append(queue[a], NewWrite(t))
      BY <1>4 DEF LinkDone, TypeOK
    <3>2. (i \in DOMAIN queue[a] /\ w = queue[a][i]) \/ w = NewWrite(t)
      BY <2>2, <3>1
    <3> QED
      BY <3>2 DEF Documents, ToSet
  <2> QED
    BY <2>1, <2>2 DEF Documents, ToSet
<1>5. CASE \/ \E u \in Users : SignIn(u)
           \/ SignOut \/ CloseScreen \/ Kill \/ SelectTab
           \/ \E v \in Screens : OpenScreen(v)
  BY <1>1, <1>5 DEF SignIn, SignOut, CloseScreen, Kill, SelectTab, OpenScreen
<1>6. CASE \E v \in Screens : UserStep(v)
  BY <1>1, <1>6 DEF UserStep, Type, SelectStatus, OpenPhotoPicker, FinishPicking,
     DismissModal, TapIncomplete, TapPublish
<1>7. CASE \E t \in Taps : PutObject(t) \/ UploadDone(t) \/ UploadFailed(t)
  BY <1>1, <1>7 DEF PutObject, UploadDone, UploadFailed
<1>8. CASE UNCHANGED vars
  BY <1>1, <1>8 DEF vars
<1> QED
  BY <1>2, <1>3, <1>4, <1>5, <1>6, <1>7, <1>8 DEF Next, ChainStep, SyncStep

\* The states of a chain that has made a document.
Late == {"posting", "done", "rejected", "lost"}

(***************************************************************************)
(* A tap is never taken back, and what it submits never changes.  Its      *)
(* stage moves on as the callbacks do, and only the right ones tell the    *)
(* user anything.                                                          *)
(***************************************************************************)
Advances(t) ==
  /\ taps'[t] \in Tap
  /\ taps'[t].by = taps[t].by
  /\ taps'[t].content = taps[t].content
  /\ taps'[t].photo = taps[t].photo
  /\ taps'[t].seen = taps[t].seen \/ taps[t].stage \in {"uploading", "linking"}
  /\ \/ taps'[t].stage = taps[t].stage
     \/ taps[t].stage = "uploading" /\ UploadDone(t) /\ taps'[t].stage = "linking"
     \/ taps[t].stage = "linking" /\ LinkDone(t) /\ taps'[t].stage = "posting"
     \/ taps[t].stage \in {"uploading", "linking"} /\ taps'[t].stage = "failed"
     \/ taps[t].stage = "posting" /\ taps'[t].stage = "done"
     \/ taps[t].stage \in Running /\ taps'[t].stage = "lost"
     \/ /\ \E w \in Documents : w.tap = t
        /\ taps'[t].stage = "rejected"
  /\ \/ taps'[t].told = taps[t].told
     \/ taps'[t].told = "failed" /\ taps'[t].stage = "failed"
     \/ taps'[t].told = "created" /\ taps'[t].stage = "done" /\ OnBoard(t)

LEMMA TapStep ==
  ASSUME Inv, TypeOK', [Next]_vars, NEW t \in Taps, taps[t] # NotTapped
  PROVE  Advances(t)
<1> USE DEF Inv, TypeInv
<1>0. taps[t] \in Tap
  BY DEF TypeOK
<1>1. ASSUME taps'[t] = taps[t] PROVE Advances(t)
  BY <1>0, <1>1 DEF Advances
<1>2. ASSUME Kill PROVE Advances(t)
  <2>1. CASE taps[t].stage \in Running
    BY <1>0, <1>2, <2>1, EndedType DEF Kill, Advances, Stopped
  <2>2. CASE taps[t].stage \notin Running
    BY <1>1, <1>2, <2>2 DEF Kill
  <2> QED
    BY <2>1, <2>2
<1>3. CASE \/ \E u \in Users : SignIn(u)
           \/ SignOut \/ CloseScreen \/ SelectTab
           \/ \E v \in Screens : OpenScreen(v)
           \/ UNCHANGED vars
  BY <1>1, <1>3 DEF SignIn, SignOut, CloseScreen, SelectTab, OpenScreen, vars
<1>4. ASSUME NEW v \in Screens, UserStep(v) PROVE Advances(t)
  <2>1. CASE \E s \in Statuses : SelectStatus(v, s)
    <3>1. PICK s \in Statuses : SelectStatus(v, s)
      BY <2>1
    <3>2. CASE taps[t].stage \in {"uploading", "linking"} /\ taps[t].screen = v
      BY <1>0, <3>1, <3>2 DEF SelectStatus, Advances, Tap
    <3>3. CASE ~(taps[t].stage \in {"uploading", "linking"} /\ taps[t].screen = v)
      BY <1>1, <3>1, <3>3 DEF SelectStatus
    <3> QED
      BY <3>2, <3>3
  <2>2. CASE \E x \in Taps : TapPublish(v, x)
    BY <1>1, <2>2 DEF TapPublish, TypeOK
  <2>3. CASE UNCHANGED taps
    BY <1>1, <2>3
  <2> QED
    BY <1>4, <2>1, <2>2, <2>3 DEF UserStep, Type, OpenPhotoPicker, FinishPicking,
       DismissModal, TapIncomplete
<1>5. ASSUME NEW x \in Taps, ChainStep(x) PROVE Advances(t)
  <2>1. CASE PutObject(x)
    BY <1>1, <2>1 DEF PutObject
  <2>2. CASE UploadDone(x) \/ LinkDone(x)
    <3>1. CASE x = t
      <4>1. ASSUME NEW stage \in {"linking", "posting"}
            PROVE  LET tap == [taps[t] EXCEPT !.stage = stage] IN
                   /\ tap \in Tap
                   /\ tap.stage = stage
                   /\ tap.by = taps[t].by
                   /\ tap.content = taps[t].content
                   /\ tap.photo = taps[t].photo
                   /\ tap.seen = taps[t].seen
                   /\ tap.told = taps[t].told
        BY <1>0 DEF Tap, Running
      <4>2. CASE UploadDone(t)
        <5>1. taps'[t] = [taps[t] EXCEPT !.stage = "linking"]
          BY <4>2 DEF UploadDone, TypeOK
        <5>2. taps[t].stage = "uploading"
          BY <4>2 DEF UploadDone
        <5> QED
          BY <4>1, <4>2, <5>1, <5>2 DEF Advances
      <4>3. CASE LinkDone(t)
        <5>1. taps'[t] = [taps[t] EXCEPT !.stage = "posting"]
          BY <4>3 DEF LinkDone, TypeOK
        <5>2. taps[t].stage = "linking"
          BY <4>3 DEF LinkDone
        <5> QED
          BY <4>1, <4>3, <5>1, <5>2 DEF Advances
      <4> QED
        BY <2>2, <3>1, <4>2, <4>3
    <3>2. CASE x # t
      BY <1>1, <2>2, <3>2 DEF UploadDone, LinkDone, TypeOK
    <3> QED
      BY <3>1, <3>2
  <2>3. CASE UploadFailed(x)
    <3>1. CASE x = t
      <4>1. PICK shown \in Presents(taps[t].screen) :
              taps' = [taps EXCEPT ![t] = Told(Ended(@, "failed"), shown, "failed")]
        BY <2>3, <3>1 DEF UploadFailed
      <4>2. taps'[t] = Told(Ended(taps[t], "failed"), shown, "failed")
        BY <4>1 DEF TypeOK
      <4>3. Ended(taps[t], "failed") \in Tap /\ taps[t].stage \in {"uploading", "linking"}
        BY <1>0, <2>3, <3>1, EndedType DEF Stopped, UploadFailed
      <4> QED
        BY <1>0, <4>2, <4>3, EndedType, ToldType DEF Advances, Stopped
    <3>2. CASE x # t
      BY <1>1, <2>3, <3>2 DEF UploadFailed, TypeOK
    <3> QED
      BY <3>1, <3>2
  <2> QED
    BY <1>5, <2>1, <2>2, <2>3 DEF ChainStep
<1>6. ASSUME SyncStep PROVE Advances(t)
  <2> DEFINE w == Head(queue[session])
  <2>1. CASE CommitWrite \/ AckRestoredWrite
    BY <1>1, <2>1 DEF CommitWrite, AckRestoredWrite
  <2>2. ASSUME AckWrite PROVE Advances(t)
    <3>1. CASE w.tap = t
      <4>1. PICK shown \in Presents(taps[t].screen) :
              taps' = [taps EXCEPT ![t] = Told(Ended(@, "done"), shown, "created")]
        BY <2>2, <3>1 DEF AckWrite, Written
      <4>2. taps'[t] = Told(Ended(taps[t], "done"), shown, "created")
        BY <4>1 DEF TypeOK
      <4>3. OnBoard(t) /\ taps[t].stage = "posting"
        BY <2>2, <3>1 DEF AckWrite, OnBoard
      <4>4. Ended(taps[t], "done") \in Tap
        BY <1>0, EndedType DEF Stopped
      <4> QED
        BY <1>0, <4>2, <4>3, <4>4, EndedType, ToldType DEF Advances, Stopped
    <3>2. CASE w.tap # t
      BY <1>1, <2>2, <3>2 DEF AckWrite, Written, TypeOK
    <3> QED
      BY <3>1, <3>2
  <2>3. ASSUME RejectWrite PROVE Advances(t)
    <3>1. CASE w.tap = t
      <4>1. taps'[t] = Ended(taps[t], "rejected")
        BY <2>3, <3>1 DEF RejectWrite, TypeOK
      <4>2. w \in Documents
        BY <2>3, HeadQueued DEF RejectWrite
      <4> QED
        BY <1>0, <3>1, <4>1, <4>2, EndedType DEF Advances, Stopped
    <3>2. CASE w.tap # t
      BY <1>1, <2>3, <3>2 DEF RejectWrite, TypeOK
    <3> QED
      BY <3>1, <3>2
  <2> QED
    BY <1>6, <2>1, <2>2, <2>3 DEF SyncStep
<1> QED
  BY <1>2, <1>3, <1>4, <1>5, <1>6 DEF Next

\* A tap that was not made before is one of the user's, now.
LEMMA NewTapStep ==
  ASSUME Inv, [Next]_vars, NEW t \in Taps, taps[t] = NotTapped, taps'[t] # NotTapped
  PROVE  \E v \in Screens : TapPublish(v, t)
<1> USE DEF Inv, TypeInv
<1>1. ASSUME Kill PROVE taps'[t] = taps[t]
  BY <1>1 DEF Kill, NotTapped, Running
<1>2. CASE \/ \E u \in Users : SignIn(u)
           \/ SignOut \/ CloseScreen \/ SelectTab
           \/ \E v \in Screens : OpenScreen(v)
           \/ UNCHANGED vars
  BY <1>2 DEF SignIn, SignOut, CloseScreen, SelectTab, OpenScreen, vars
<1>3. ASSUME NEW v \in Screens, UserStep(v), \A x \in Taps : ~TapPublish(v, x)
      PROVE  taps'[t] = taps[t]
  BY <1>3 DEF UserStep, Type, SelectStatus, OpenPhotoPicker, FinishPicking,
     DismissModal, TapIncomplete, NotTapped
<1>4. ASSUME NEW v \in Screens, NEW x \in Taps, TapPublish(v, x)
      PROVE  TapPublish(v, t)
  BY <1>4 DEF TapPublish, TypeOK
<1>5. ASSUME NEW x \in Taps, ChainStep(x) PROVE taps'[t] = taps[t]
  <2>1. x # t
    BY <1>5 DEF ChainStep, PutObject, UploadDone, UploadFailed, LinkDone, NotTapped
  <2>2. PICK tap : taps' = taps \/ taps' = [taps EXCEPT ![x] = tap]
    <3>1. CASE PutObject(x)
      BY <3>1 DEF PutObject
    <3>2. CASE UploadDone(x)
      BY <3>2 DEF UploadDone
    <3>3. CASE UploadFailed(x)
      BY <3>3 DEF UploadFailed
    <3>4. CASE LinkDone(x)
      BY <3>4 DEF LinkDone
    <3> QED
      BY <1>5, <3>1, <3>2, <3>3, <3>4 DEF ChainStep
  <2> QED
    BY <2>1, <2>2 DEF TypeOK
<1>6. ASSUME SyncStep PROVE taps'[t] = taps[t]
  <2>1. CASE CommitWrite \/ AckRestoredWrite
    BY <2>1 DEF CommitWrite, AckRestoredWrite
  <2>2. ASSUME Sending PROVE taps[Head(queue[session]).tap] # NotTapped
    BY <2>2, HeadQueued DEF WritesAreTapped
  <2>3. CASE AckWrite \/ RejectWrite
    BY <2>2, <2>3 DEF AckWrite, RejectWrite, Written, TypeOK
  <2> QED
    BY <1>6, <2>1, <2>3 DEF SyncStep
<1> QED
  BY <1>1, <1>2, <1>3, <1>4, <1>5, <1>6 DEF Next

LEMMA NewTap ==
  ASSUME Inv, NEW v \in Screens, NEW t \in Taps, TapPublish(v, t)
  PROVE  /\ taps'[t] \in Tap
         /\ taps'[t].stage \in {"uploading", "unencodable"}
         /\ taps'[t].stage = "uploading" => taps'[t].screen = v
         /\ taps'[t].seen = screens[v].status
         /\ taps'[t].told = "nothing"
<1> DEFINE tap == [stage |-> "uploading", screen |-> v, by |-> screens[v].user,
                   content |-> screens[v].content, photo |-> screens[v].photo,
                   seen |-> screens[v].status, told |-> "nothing"]
<1>1. screens[v] \in Screen /\ screens[v].content # Blank
  BY PublishAssumption DEF TapPublish, AtForm, Uncovered, Inv, TypeInv, LiveScreens
<1>2. tap \in Tap
  BY <1>1 DEF Tap, Screen, Running
<1>3. \/ taps' = [taps EXCEPT ![t] = tap]
      \/ taps' = [taps EXCEPT ![t] = Ended(tap, "unencodable")]
  BY DEF TapPublish
<1>4. taps'[t] = tap \/ taps'[t] = Ended(tap, "unencodable")
  BY <1>3 DEF Inv, TypeInv, TypeOK
<1>5. CASE taps'[t] = tap
  BY <1>2, <1>5
<1>6. CASE taps'[t] = Ended(tap, "unencodable")
  <2>1. /\ Ended(tap, "unencodable") \in Tap
        /\ Ended(tap, "unencodable").stage = "unencodable"
        /\ Ended(tap, "unencodable").seen = tap.seen
        /\ Ended(tap, "unencodable").told = tap.told
    BY <1>2, EndedType DEF Stopped
  <2> QED
    BY <1>6, <2>1
<1> QED
  BY <1>4, <1>5, <1>6

LEMMA NextInv == Inv /\ [Next]_vars => Inv'
<1> SUFFICES ASSUME Inv, [Next]_vars PROVE Inv'
  OBVIOUS
<1>1. TypeInv'
  BY NextTypeInv
<1>2. ASSUME NEW w \in Documents' PROVE taps'[w.tap] # NotTapped
  <2>1. CASE w \in Documents
    <3>1. w.tap \in Taps /\ taps[w.tap] # NotTapped
      BY <2>1, DocumentType DEF Inv, TypeInv, WritesAreTapped, Write
    <3>2. taps'[w.tap] \in Tap
      BY <1>1, <3>1, TapStep DEF Advances, TypeInv
    <3> QED
      BY <3>2 DEF Tap, NotTapped, Running, Stopped
  <2>2. ASSUME NEW t \in Taps, LinkDone(t), w = NewWrite(t)
        PROVE  taps'[w.tap] # NotTapped
    BY <2>2 DEF LinkDone, NewWrite, NotTapped, Inv, TypeInv, TypeOK
  <2> QED
    BY <1>1, <2>1, <2>2, DocumentsStep DEF Inv, TypeInv
<1> QED
  BY <1>1, <1>2 DEF Inv, WritesAreTapped

LEMMA InitInv == Init => Inv
<1> SUFFICES ASSUME Init PROVE Inv
  OBVIOUS
<1>1. Documents = {}
  BY DEF Init, Documents, ToSet
<1> QED
  BY <1>1, InitTypeInv DEF Inv, WritesAreTapped

LEMMA InvHolds == Spec => []Inv
BY InitInv, NextInv, PTL DEF Spec

\* Every variable keeps its type, in particular under callbacks that arrive
\* after a sign-out or a change of account (Publish).
THEOREM TypesHold == Spec => []TypeOK
BY InvHolds, PTL DEF Inv, TypeInv

\* The screen a callback of AddPetVC writes to is alive and is the one of the
\* account that tapped, however the window has changed since.
THEOREM ScreensLive == Spec => []LiveScreens
BY InvHolds, PTL DEF Inv, TypeInv

-----------------------------------------------------------------------------
(***************************************************************************)
(* Safety.  The documents of a tap, its object in the storage and what the *)
(* user was told are tied to the stage of its chain.                       *)
(***************************************************************************)
\* A document repeats its tap, whose chain has got as far as making it.
DocumentsFollowTaps ==
  \A w \in Documents :
    /\ taps[w.tap].stage \in Late
    /\ w.owner = taps[w.tap].by
    /\ w.content = taps[w.tap].content
    /\ w.photo = ObjectName(taps[w.tap].by, w.tap)

\* An object under a tap's name is that tap's photo; a chain past its upload
\* has its object.
ObjectsFollowTaps ==
  /\ \A t \in Taps, u \in Users :
       storage[ObjectName(u, t)] # NoPhoto =>
         /\ taps[t] # NotTapped
         /\ taps[t].by = u
         /\ storage[ObjectName(u, t)] = taps[t].photo
  /\ \A t \in Taps : taps[t].stage \in {"linking", "posting"} =>
       storage[ObjectName(taps[t].by, t)] # NoPhoto
  /\ \A w \in Documents : storage[w.photo] # NoPhoto

\* What the user was told agrees with the stage and with the board.
TellingFollowsTaps ==
  \A t \in Taps : taps[t] # NotTapped =>
    /\ taps[t].stage \in Running => taps[t].told = "nothing"
    /\ taps[t].told = "created" => OnBoard(t)
    /\ taps[t].told = "failed" => taps[t].stage = "failed"

\* While the photo is under way the form still shows the status last seen.
SeenFollowsForm ==
  /\ StatusAsSeen
  /\ \A t \in Taps : taps[t].stage \in {"uploading", "linking"} =>
       screens[taps[t].screen].status = taps[t].seen

LEMMA DocumentTap ==
  ASSUME Inv, NEW w \in Documents
  PROVE  w \in Write /\ w.tap \in Taps /\ taps[w.tap] \in Tap
BY DocumentType DEF Inv, TypeInv, TypeOK, WritesAreTapped, Write

LEMMA NextDocumentsFollowTaps ==
  ASSUME Inv, Inv', [Next]_vars, DocumentsFollowTaps PROVE DocumentsFollowTaps'
<1> SUFFICES ASSUME NEW w \in Documents'
             PROVE  /\ taps'[w.tap].stage \in Late
                    /\ w.owner = taps'[w.tap].by
                    /\ w.content = taps'[w.tap].content
                    /\ w.photo = ObjectName(taps'[w.tap].by, w.tap)
  BY DEF DocumentsFollowTaps
<1>1. CASE w \in Documents
  <2>1. w.tap \in Taps /\ taps[w.tap] \in Tap /\ taps[w.tap] # NotTapped
    BY <1>1, DocumentTap DEF Inv, WritesAreTapped
  <2>2. Advances(w.tap)
    BY <2>1, TapStep DEF Inv, TypeInv
  <2>3. taps[w.tap].stage \in Late
    BY <1>1 DEF DocumentsFollowTaps
  <2>4. taps'[w.tap].stage \in Late
    BY <2>2, <2>3 DEF Advances, Late
  <2> QED
    BY <1>1, <2>2, <2>4 DEF DocumentsFollowTaps, Advances
<1>2. ASSUME NEW t \in Taps, LinkDone(t), w = NewWrite(t)
      PROVE  /\ taps'[w.tap].stage \in Late
             /\ w.owner = taps'[w.tap].by
             /\ w.content = taps'[w.tap].content
             /\ w.photo = ObjectName(taps'[w.tap].by, w.tap)
  <2>1. taps[t].stage = "linking" /\ taps'[t].stage = "posting" /\ taps[t] # NotTapped
    BY <1>2 DEF LinkDone, NotTapped, Inv, TypeInv, TypeOK
  <2>2. Advances(t)
    BY <2>1, TapStep DEF Inv, TypeInv
  <2>3. /\ w.tap = t
        /\ w.owner = taps[t].by
        /\ w.content = taps[t].content
        /\ w.photo = ObjectName(taps[t].by, t)
    BY <1>2, <2>1, NewWriteType DEF Inv, Running
  <2> QED
    BY <2>1, <2>2, <2>3 DEF Advances, Late
<1> QED
  BY <1>1, <1>2, DocumentsStep DEF Inv, TypeInv

LEMMA NextAtMostOnePost ==
  ASSUME Inv, Inv', [Next]_vars, DocumentsFollowTaps, AtMostOnePost
  PROVE  AtMostOnePost'
<1> SUFFICES ASSUME NEW w1 \in Documents', NEW w2 \in Documents', w1.tap = w2.tap
             PROVE  w1 = w2
  BY DEF AtMostOnePost
<1>1. ASSUME NEW t \in Taps, LinkDone(t), NEW w \in Documents PROVE w.tap # NewWrite(t).tap
  <2>1. taps[t].stage = "linking"
    BY <1>1 DEF LinkDone
  <2>2. NewWrite(t).tap = t
    BY <2>1, NewWriteType DEF Inv, Running
  <2> QED
    BY <2>1, <2>2 DEF DocumentsFollowTaps, Late
<1>2. ASSUME NEW t \in Taps, LinkDone(t), NEW x \in Taps, LinkDone(x)
      PROVE  t = x
  <2>1. taps'[t].stage = "posting" /\ taps[t].stage = "linking"
    BY <1>2 DEF LinkDone, Inv, TypeInv, TypeOK
  <2>2. CASE t # x
    BY <1>2, <2>1, <2>2 DEF LinkDone, Inv, TypeInv, TypeOK
  <2> QED
    BY <2>2
<1>3. w1 \in Documents \/ \E t \in Taps : LinkDone(t) /\ w1 = NewWrite(t)
  BY DocumentsStep DEF Inv, TypeInv
<1>4. w2 \in Documents \/ \E t \in Taps : LinkDone(t) /\ w2 = NewWrite(t)
  BY DocumentsStep DEF Inv, TypeInv
<1> QED
  BY <1>1, <1>2, <1>3, <1>4 DEF AtMostOnePost

LEMMA BoardGrows ==
  ASSUME [Next]_vars PROVE board \subseteq board'
BY DEF Next, vars, SignIn, SignOut, CloseScreen, Kill, SelectTab, OpenScreen,
   UserStep, Type, SelectStatus, OpenPhotoPicker, FinishPicking, DismissModal,
   TapIncomplete, TapPublish, ChainStep, PutObject, UploadDone, UploadFailed,
   LinkDone, SyncStep, CommitWrite, AckWrite, AckRestoredWrite, RejectWrite

LEMMA NextTelling ==
  ASSUME Inv, Inv', [Next]_vars, DocumentsFollowTaps, TellingFollowsTaps
  PROVE  TellingFollowsTaps'
<1> SUFFICES ASSUME NEW t \in Taps, taps'[t] # NotTapped
             PROVE  /\ taps'[t].stage \in Running => taps'[t].told = "nothing"
                    /\ taps'[t].told = "created" => OnBoard(t)'
                    /\ taps'[t].told = "failed" => taps'[t].stage = "failed"
  BY DEF TellingFollowsTaps
<1>1. OnBoard(t) => OnBoard(t)'
  BY BoardGrows DEF OnBoard
<1>2. CASE taps[t] = NotTapped
  <2>1. PICK v \in Screens : TapPublish(v, t)
    BY <1>2, NewTapStep
  <2> QED
    BY <2>1, NewTap
<1>3. CASE taps[t] # NotTapped
  <2>1. Advances(t)
    BY <1>3, TapStep DEF Inv, TypeInv
  <2>2. taps[t].stage = "failed" => taps'[t].stage = "failed"
    BY <2>1 DEF Advances, DocumentsFollowTaps, Late, Running
  <2>3. /\ taps[t].stage \in Running => taps[t].told = "nothing"
        /\ taps[t].told = "created" => OnBoard(t)
        /\ taps[t].told = "failed" => taps[t].stage = "failed"
    BY <1>3 DEF TellingFollowsTaps
  <2>4. taps'[t].stage \in Running => taps[t].stage \in Running
    BY <2>1 DEF Advances, Running
  <2>5. \/ taps'[t].told = taps[t].told
        \/ taps'[t].told = "failed" /\ taps'[t].stage = "failed"
        \/ taps'[t].told = "created" /\ taps'[t].stage = "done" /\ OnBoard(t)
    BY <2>1 DEF Advances
  <2> QED
    BY <1>1, <2>2, <2>3, <2>4, <2>5 DEF Running
<1> QED
  BY <1>2, <1>3

LEMMA StorageStep ==
  ASSUME [Next]_vars, Inv
  PROVE  \/ storage' = storage
         \/ \E t \in Taps :
              /\ PutObject(t)
              /\ storage' = [storage EXCEPT ![ObjectName(taps[t].by, t)] = taps[t].photo]
<1>1. ASSUME NEW v \in Screens, UserStep(v) PROVE storage' = storage
  BY <1>1 DEF UserStep, Type, SelectStatus, OpenPhotoPicker, FinishPicking,
     DismissModal, TapIncomplete, TapPublish
<1>2. ASSUME SyncStep PROVE storage' = storage
  BY <1>2 DEF SyncStep, CommitWrite, AckWrite, AckRestoredWrite, RejectWrite
<1>3. CASE \/ \E u \in Users : SignIn(u)
           \/ SignOut \/ CloseScreen \/ Kill \/ SelectTab
           \/ \E v \in Screens : OpenScreen(v)
           \/ UNCHANGED vars
  BY <1>3 DEF SignIn, SignOut, CloseScreen, Kill, SelectTab, OpenScreen, vars
<1>4. ASSUME NEW t \in Taps, ChainStep(t)
      PROVE  \/ storage' = storage
             \/ /\ PutObject(t)
                /\ storage' = [storage EXCEPT ![ObjectName(taps[t].by, t)] = taps[t].photo]
  BY <1>4 DEF ChainStep, PutObject, UploadDone, UploadFailed, LinkDone
<1> QED
  BY <1>1, <1>2, <1>3, <1>4 DEF Next

LEMMA NextObjects ==
  ASSUME Inv, Inv', [Next]_vars, DocumentsFollowTaps, ObjectsFollowTaps
  PROVE  ObjectsFollowTaps'
<1> USE DEF Inv, TypeInv
<1>1. ASSUME NEW n \in Names, storage[n] # NoPhoto PROVE storage'[n] # NoPhoto
  <2>1. ASSUME NEW t \in Taps, PutObject(t) PROVE taps[t].photo # NoPhoto
    BY <2>1, RunningIsTapped, PublishAssumption DEF PutObject, Tap, Running
  <2> QED
    BY <1>1, <2>1, StorageStep DEF TypeOK
<1>2. ASSUME NEW t \in Taps, NEW u \in Users, storage'[ObjectName(u, t)] # NoPhoto
      PROVE  /\ taps'[t] # NotTapped
             /\ taps'[t].by = u
             /\ storage'[ObjectName(u, t)] = taps'[t].photo
  <2>0. ObjectName(u, t) \in Names
    BY DEF ObjectName, Names
  <2>1. /\ taps[t] # NotTapped
        /\ taps[t].by = u
        /\ storage'[ObjectName(u, t)] = taps[t].photo
    <3>1. CASE storage' = storage
      BY <1>2, <3>1 DEF ObjectsFollowTaps
    <3>2. ASSUME NEW x \in Taps, PutObject(x),
                 storage' = [storage EXCEPT ![ObjectName(taps[x].by, x)] = taps[x].photo]
          PROVE  /\ taps[t] # NotTapped
                 /\ taps[t].by = u
                 /\ storage'[ObjectName(u, t)] = taps[t].photo
      <4>1. CASE ObjectName(taps[x].by, x) = ObjectName(u, t)
        <5>1. x = t /\ taps[x].by = u
          BY <4>1 DEF ObjectName
        <5>2. taps[t] # NotTapped
          BY <3>2, <5>1 DEF PutObject, NotTapped
        <5> QED
          BY <2>0, <3>2, <4>1, <5>1, <5>2 DEF TypeOK
      <4>2. CASE ObjectName(taps[x].by, x) # ObjectName(u, t)
        <5>1. storage'[ObjectName(u, t)] = storage[ObjectName(u, t)]
          BY <2>0, <3>2, <4>2 DEF TypeOK
        <5> QED
          BY <1>2, <5>1 DEF ObjectsFollowTaps
      <4> QED
        BY <4>1, <4>2
    <3> QED
      BY <3>1, <3>2, StorageStep
  <2>2. Advances(t)
    BY <2>1, TapStep
  <2>3. taps'[t] # NotTapped
    BY <2>2 DEF Advances, Tap, NotTapped, Running, Stopped
  <2> QED
    BY <2>1, <2>2, <2>3 DEF Advances
<1>3. ASSUME NEW t \in Taps, taps'[t].stage \in {"linking", "posting"}
      PROVE  storage'[ObjectName(taps'[t].by, t)] # NoPhoto
  <2>1. taps[t] # NotTapped
    BY <1>3, NewTapStep, NewTap DEF NotTapped
  <2>2. Advances(t) /\ taps[t] \in Tap
    BY <2>1, TapStep DEF TypeOK
  <2>3. ObjectName(taps[t].by, t) \in Names
    BY <2>2 DEF Tap, ObjectName, Names
  <2>4. taps[t].stage \in {"linking", "posting"} \/ UploadDone(t)
    BY <1>3, <2>2 DEF Advances
  <2>5. storage[ObjectName(taps[t].by, t)] # NoPhoto
    BY <2>4 DEF ObjectsFollowTaps, UploadDone
  <2> QED
    BY <1>1, <2>2, <2>3, <2>5 DEF Advances
<1>4. ASSUME NEW w \in Documents' PROVE storage'[w.photo] # NoPhoto
  <2>1. CASE w \in Documents
    BY <1>1, <2>1, DocumentType DEF ObjectsFollowTaps, Write
  <2>2. ASSUME NEW t \in Taps, LinkDone(t), w = NewWrite(t)
        PROVE  storage'[w.photo] # NoPhoto
    <3>1. taps[t].stage = "linking"
      BY <2>2 DEF LinkDone
    <3>2. w.photo = ObjectName(taps[t].by, t) /\ w \in Write
      BY <2>2, <3>1, NewWriteType DEF Running
    <3>3. storage[w.photo] # NoPhoto
      BY <3>1, <3>2 DEF ObjectsFollowTaps
    <3> QED
      BY <1>1, <3>2, <3>3 DEF Write
  <2> QED
    BY <2>1, <2>2, DocumentsStep
<1> QED
  BY <1>2, <1>3, <1>4 DEF ObjectsFollowTaps

LEMMA CollectKeeps ==
  ASSUME NEW scr, NEW t \in Taps, taps'[t] # NotTapped, taps'[t].screen \in Screens
  PROVE  Collect(scr, front, taps')[taps'[t].screen] = scr[taps'[t].screen]
BY DEF Collect

\* While the photo of t is under way, t's form shows the status last seen:
\* only the user moves the segment, and SelectStatus takes note of it.
LEMMA NextSeenEarly ==
  ASSUME Inv, Inv', [Next]_vars, NEW t \in Taps,
         taps[t].stage \in {"uploading", "linking"},
         taps'[t].stage \in {"uploading", "linking"},
         screens[taps[t].screen].status = taps[t].seen
  PROVE  screens'[taps'[t].screen].status = taps'[t].seen
<1> USE DEF Inv, TypeInv
<1> DEFINE v == taps[t].screen
           Goal == screens'[taps'[t].screen].status = taps'[t].seen
<1>0. /\ v \in Screens /\ screens[v] \in Screen /\ taps[t] \in Tap /\ taps'[t] \in Tap
      /\ taps[t] # NotTapped /\ taps'[t] # NotTapped
  BY RunningIsTapped DEF LiveScreens, Running, TypeOK, NotTapped
<1> HIDE DEF v
<1>1. ASSUME taps'[t].screen = v, taps'[t].seen = taps[t].seen,
             screens'[v].status = screens[v].status
      PROVE  Goal
  BY <1>1 DEF v
<1>2. CASE \/ \E u \in Users : SignIn(u)
           \/ SignOut \/ SelectTab
           \/ UNCHANGED vars
           \/ CommitWrite \/ AckRestoredWrite
           \/ \E x \in Taps : PutObject(x)
  BY <1>1, <1>2 DEF SignIn, SignOut, SelectTab, vars, CommitWrite,
     AckRestoredWrite, PutObject, v
<1>3. CASE CloseScreen
  BY <1>0, <1>1, <1>3 DEF CloseScreen, Collect, v
<1>4. CASE Kill
  BY <1>0, <1>4, EndedType DEF Kill, Running, Stopped
<1>5. ASSUME NEW x \in Screens, OpenScreen(x) PROVE Goal
  <2>1. x # v
    BY <1>0, <1>5, ReleasedIsNoScreen DEF OpenScreen
  <2> DEFINE scr == [screens EXCEPT ![x] = FreshScreen(session)]
  <2>2. scr[v] = screens[v]
    BY <1>0, <2>1 DEF TypeOK
  <2>3. screens' = Collect(scr, x, taps) /\ UNCHANGED taps
    BY <1>5 DEF OpenScreen
  <2> HIDE DEF scr
  <2>4. screens'[v] = scr[v]
    BY <1>0, <2>3 DEF Collect, v
  <2> QED
    BY <1>1, <2>2, <2>3, <2>4 DEF v
<1>6. ASSUME NEW x \in Screens, UserStep(x) PROVE Goal
  <2>1. ASSUME NEW s \in Statuses, SelectStatus(x, s) PROVE Goal
    <3>1. CASE x = v
      <4>1. screens'[v] = [screens[v] EXCEPT !.status = s]
        BY <1>0, <2>1, <3>1 DEF SelectStatus, TypeOK
      <4>2. screens'[v].status = s
        BY <1>0, <4>1 DEF Screen
      <4>3. taps'[t] = [taps[t] EXCEPT !.seen = s]
        BY <2>1, <3>1 DEF SelectStatus, v
      <4>4. taps'[t].seen = s /\ taps'[t].screen = v
        BY <1>0, <4>3 DEF Tap, v
      <4> QED
        BY <4>2, <4>4
    <3>2. CASE x # v
      BY <1>0, <1>1, <2>1, <3>2 DEF SelectStatus, TypeOK, v
    <3> QED
      BY <3>1, <3>2
  <2>2. ASSUME NEW y \in Taps, TapPublish(x, y) PROVE Goal
    BY <1>0, <1>1, <2>2 DEF TapPublish, TypeOK, v
  <2>3. ASSUME NEW f \in Screen, f.status = screens[x].status,
               screens' = [screens EXCEPT ![x] = f], UNCHANGED taps
        PROVE  Goal
    BY <1>0, <1>1, <2>3 DEF TypeOK, v
  <2>4. CASE \E c \in Contents \cup {Blank} : Type(x, c)
    <3>1. PICK c \in Contents \cup {Blank} : Type(x, c)
      BY <2>4
    <3>2. x = front /\ screens[x] \in Screen
      BY <3>1, PublishAssumption DEF Type, AtForm, Uncovered, LiveScreens
    <3>3. [screens[x] EXCEPT !.content = c] \in Screen
      BY <3>2 DEF Screen
    <3> QED
      BY <2>3, <3>1, <3>2, <3>3 DEF Type, Screen
  <2>5. CASE OpenPhotoPicker(x) \/ DismissModal(x) \/ TapIncomplete(x)
    <3>1. PICK w \in Modals : screens' = [screens EXCEPT ![x].modal = w]
      BY <2>5 DEF OpenPhotoPicker, DismissModal, TapIncomplete, Modals
    <3>2. x = front /\ screens[x] \in Screen /\ UNCHANGED taps
      BY <2>5, PublishAssumption DEF OpenPhotoPicker, DismissModal, TapIncomplete,
         AtForm, Uncovered, LiveScreens
    <3>3. [screens[x] EXCEPT !.modal = w] \in Screen
      BY <3>2 DEF Screen
    <3> QED
      BY <2>3, <3>1, <3>2, <3>3 DEF Screen
  <2>6. CASE \E p \in Photos : FinishPicking(x, p)
    <3>1. PICK p \in Photos : FinishPicking(x, p)
      BY <2>6
    <3>2. screens[x] \in Screen
      BY <3>1, PublishAssumption DEF FinishPicking, LiveScreens
    <3> DEFINE f == [screens[x] EXCEPT !.modal = "none", !.photo = p]
    <3>3. f \in Screen /\ f.status = screens[x].status
      BY <3>2 DEF Screen, Modals
    <3>4. screens' = [screens EXCEPT ![x] = f] /\ UNCHANGED taps
      BY <3>1 DEF FinishPicking, TypeOK
    <3> HIDE DEF f
    <3> QED
      BY <2>3, <3>3, <3>4
  <2> QED
    BY <1>6, <2>1, <2>2, <2>4, <2>5, <2>6 DEF UserStep
<1>7. ASSUME NEW x \in Taps, UploadDone(x) \/ LinkDone(x) PROVE Goal
  <2>1. PICK stage \in Running : taps' = [taps EXCEPT ![x].stage = stage]
    BY <1>7 DEF UploadDone, LinkDone, Running
  <2>2. taps'[t] = taps[t] \/ taps'[t] = [taps[t] EXCEPT !.stage = stage]
    BY <2>1 DEF TypeOK
  <2>3. taps'[t].screen = v /\ taps'[t].seen = taps[t].seen
    BY <1>0, <2>2 DEF Tap, v
  <2> QED
    BY <1>1, <1>7, <2>3 DEF UploadDone, LinkDone
<1>8. ASSUME NEW x \in Taps, NEW tap, tap.stage \in Stopped,
             taps' = [taps EXCEPT ![x] = tap],
             NEW scr, scr[v].status = screens[v].status,
             screens' = Collect(scr, front, taps')
      PROVE  Goal
  <2>1. x # t
    BY <1>8 DEF TypeOK, Stopped
  <2>2. taps'[t] = taps[t]
    BY <1>8, <2>1 DEF TypeOK
  <2>3. screens'[v] = scr[v]
    BY <1>0, <1>8, <2>2, CollectKeeps DEF v
  <2> QED
    BY <1>1, <1>8, <2>2, <2>3 DEF v
<1>9. ASSUME NEW x \in Taps, UploadFailed(x) PROVE Goal
  <2>1. PICK shown \in Presents(taps[x].screen) :
          /\ taps' = [taps EXCEPT ![x] = Told(Ended(@, "failed"), shown, "failed")]
          /\ screens' = Collect([screens EXCEPT ![taps[x].screen] = WithAlert(@, shown)],
                                front, taps')
    BY <1>9 DEF UploadFailed
  <2>2. taps[x] \in Tap /\ taps[x].screen \in Screens /\ screens[taps[x].screen] \in Screen
    BY <1>9, RunningIsTapped DEF UploadFailed, LiveScreens, Running
  <2>3. Told(Ended(taps[x], "failed"), shown, "failed").stage \in Stopped
    BY <2>2, EndedType, ToldType DEF Stopped
  <2>4. [screens EXCEPT ![taps[x].screen] = WithAlert(@, shown)][v].status
          = screens[v].status
    BY <1>0, <2>2, WithAlertType DEF TypeOK
  <2> QED
    BY <1>8, <2>1, <2>3, <2>4
<1>10. ASSUME AckWrite PROVE Goal
  <2> DEFINE x == Head(queue[session]).tap
  <2>1. PICK shown \in Presents(taps[x].screen) :
          /\ taps' = [taps EXCEPT ![x] = Told(Ended(@, "done"), shown, "created")]
          /\ screens' = Collect([screens EXCEPT ![taps[x].screen] =
                                   WithAlert(Cleared(@), shown)], front, taps')
    BY <1>10 DEF AckWrite, Written
  <2>2. x \in Taps /\ taps[x].stage = "posting"
    BY <1>10, HeadType DEF AckWrite, Write
  <2>3. taps[x] \in Tap /\ taps[x].screen \in Screens /\ screens[taps[x].screen] \in Screen
    BY <2>2, RunningIsTapped DEF LiveScreens, Running
  <2>4. Told(Ended(taps[x], "done"), shown, "created").stage \in Stopped
    BY <2>3, EndedType, ToldType DEF Stopped
  <2>5. Cleared(screens[taps[x].screen]) \in Screen
        /\ Cleared(screens[taps[x].screen]).status = screens[taps[x].screen].status
    BY <2>3, PublishAssumption DEF Cleared, Screen
  <2>6. [screens EXCEPT ![taps[x].screen] = WithAlert(Cleared(@), shown)][v].status
          = screens[v].status
    BY <1>0, <2>3, <2>5, WithAlertType DEF TypeOK
  <2> HIDE DEF x
  <2> QED
    BY <1>8, <2>1, <2>2, <2>4, <2>6
<1>11. ASSUME RejectWrite PROVE Goal
  <2> DEFINE x == Head(queue[session]).tap
  <2>1. /\ taps' = [taps EXCEPT ![x] = Ended(@, "rejected")]
        /\ screens' = Collect(screens, front, taps')
    BY <1>11 DEF RejectWrite
  <2>2. Head(queue[session]) \in Documents
    BY <1>11, HeadQueued DEF RejectWrite
  <2>3. x \in Taps /\ taps[x] \in Tap
    BY <2>2, DocumentTap
  <2>4. Ended(taps[x], "rejected").stage \in Stopped
    BY <2>3, EndedType DEF Stopped
  <2> HIDE DEF x
  <2> QED
    BY <1>8, <2>1, <2>3, <2>4
<1> QED
  BY <1>2, <1>3, <1>4, <1>5, <1>6, <1>7, <1>9, <1>10, <1>11
     DEF Next, ChainStep, SyncStep

LEMMA NextSeen ==
  ASSUME Inv, Inv', [Next]_vars, DocumentsFollowTaps, SeenFollowsForm
  PROVE  SeenFollowsForm'
<1>1. ASSUME NEW t \in Taps, taps'[t].stage \in {"uploading", "linking"}
      PROVE  screens'[taps'[t].screen].status = taps'[t].seen
  <2>1. CASE taps[t] = NotTapped
    <3>1. PICK v \in Screens : TapPublish(v, t)
      BY <1>1, <2>1, NewTapStep DEF NotTapped
    <3>2. taps'[t].screen = v /\ taps'[t].seen = screens[v].status
      BY <1>1, <3>1, NewTap
    <3> QED
      BY <3>1, <3>2 DEF TapPublish
  <2>2. CASE taps[t] # NotTapped
    <3>1. taps[t].stage \in {"uploading", "linking"}
      BY <1>1, <2>2, TapStep DEF Inv, TypeInv, Advances
    <3> QED
      BY <1>1, <3>1, NextSeenEarly DEF SeenFollowsForm
  <2> QED
    BY <2>1, <2>2
<1>2. ASSUME NEW w \in Documents' PROVE w.status = taps'[w.tap].seen
  <2>1. CASE w \in Documents
    <3>1. w.tap \in Taps /\ taps[w.tap] # NotTapped
      BY <2>1, DocumentTap DEF Inv, WritesAreTapped
    <3>2. taps[w.tap].stage \in Late
      BY <2>1 DEF DocumentsFollowTaps
    <3>3. taps'[w.tap].seen = taps[w.tap].seen
      BY <3>1, <3>2, TapStep DEF Inv, TypeInv, Advances, Late
    <3> QED
      BY <2>1, <3>3 DEF SeenFollowsForm, StatusAsSeen
  <2>2. ASSUME NEW t \in Taps, LinkDone(t), w = NewWrite(t)
        PROVE  w.status = taps'[w.tap].seen
    <3>1. taps[t].stage = "linking" /\ taps[t] \in Tap
      BY <2>2, RunningIsTapped DEF LinkDone, Inv, TypeInv, Running
    <3>2. w.tap = t /\ w.status = taps[t].seen
      BY <2>2, <3>1, NewWriteType DEF SeenFollowsForm, Inv, Running
    <3>3. taps'[t] = [taps[t] EXCEPT !.stage = "posting"]
      BY <2>2 DEF LinkDone, Inv, TypeInv, TypeOK
    <3>4. taps'[t].seen = taps[t].seen
      BY <3>1, <3>3 DEF Tap
    <3> QED
      BY <3>2, <3>4
  <2> QED
    BY <2>1, <2>2, DocumentsStep DEF Inv, TypeInv
<1> QED
  BY <1>1, <1>2 DEF SeenFollowsForm, StatusAsSeen

-----------------------------------------------------------------------------
\* The inductive invariant of publishing.
SafetyInv ==
  /\ Inv
  /\ DocumentsFollowTaps
  /\ AtMostOnePost
  /\ ObjectsFollowTaps
  /\ TellingFollowsTaps
  /\ SeenFollowsForm

LEMMA InitSafetyInv == Init => SafetyInv
<1> SUFFICES ASSUME Init PROVE SafetyInv
  OBVIOUS
<1>1. Documents = {}
  BY DEF Init, Documents, ToSet
<1>2. DocumentsFollowTaps /\ AtMostOnePost
  BY <1>1 DEF DocumentsFollowTaps, AtMostOnePost
<1>3. ObjectsFollowTaps
  <2>1. ASSUME NEW t \in Taps, NEW u \in Users PROVE storage[ObjectName(u, t)] = NoPhoto
    BY DEF Init, ObjectName, Names
  <2> QED
    BY <1>1, <2>1 DEF ObjectsFollowTaps, Init, NotTapped
<1>4. TellingFollowsTaps /\ SeenFollowsForm
  BY <1>1 DEF TellingFollowsTaps, SeenFollowsForm, StatusAsSeen, Init, NotTapped
<1> QED
  BY <1>2, <1>3, <1>4, InitInv DEF SafetyInv

LEMMA NextSafetyInv == SafetyInv /\ [Next]_vars => SafetyInv'
<1> SUFFICES ASSUME SafetyInv, [Next]_vars PROVE SafetyInv'
  OBVIOUS
<1>1. Inv'
  BY NextInv DEF SafetyInv
<1> QED
  BY <1>1, NextDocumentsFollowTaps, NextAtMostOnePost, NextObjects, NextTelling,
     NextSeen DEF SafetyInv

LEMMA SafetyHolds == Spec => []SafetyInv
BY InitSafetyInv, NextSafetyInv, PTL DEF Spec

\* Every document carries the account, the text and the photo of its tap
\* (didPublishBtnTapped), for any number of accounts, screens and taps.
THEOREM PostedAsSubmittedHolds == Spec => []PostedAsSubmitted
<1>1. SafetyInv => PostedAsSubmitted
  <2> SUFFICES ASSUME SafetyInv, NEW w \in Documents
               PROVE  /\ taps[w.tap] # NotTapped
                      /\ w.owner = taps[w.tap].by
                      /\ w.content = taps[w.tap].content
                      /\ storage[w.photo] = taps[w.tap].photo
    BY DEF PostedAsSubmitted
  <2>1. w.tap \in Taps /\ taps[w.tap] \in Tap /\ taps[w.tap] # NotTapped
    BY DocumentTap DEF SafetyInv, Inv, WritesAreTapped
  <2>2. taps[w.tap].by \in Users
    BY <2>1 DEF Tap
  <2>3. storage[w.photo] = taps[w.tap].photo
    BY <2>1, <2>2 DEF SafetyInv, ObjectsFollowTaps, DocumentsFollowTaps
  <2> QED
    BY <2>1, <2>3 DEF SafetyInv, DocumentsFollowTaps
<1> QED
  BY <1>1, SafetyHolds, PTL

\* One tap makes at most one document, through any interleaving of retries,
\* restarts and sign-outs (didPublishBtnTapped, addDocument).
THEOREM AtMostOnePostHolds == Spec => []AtMostOnePost
BY SafetyHolds, PTL DEF SafetyInv

\* The success alert is shown only for announcements on the board, the failure
\* alert only for those that will never be (the alerts of didPublishBtnTapped).
THEOREM AlertsTellTheTruthHolds == Spec => []AlertsTellTheTruth
<1>1. SafetyInv => AlertsTellTheTruth
  BY DEF SafetyInv, AlertsTellTheTruth, TellingFollowsTaps, DocumentsFollowTaps, Late
<1> QED
  BY <1>1, SafetyHolds, PTL

\* The status of a document is the last one its user saw while the photo was
\* under way (petStatus, clearAllItems).
THEOREM StatusAsSeenHolds == Spec => []StatusAsSeen
BY SafetyHolds, PTL DEF SafetyInv, SeenFollowsForm

-----------------------------------------------------------------------------
(***************************************************************************)
(* The refinement of Board.  A submission's fate depends on its documents  *)
(* and its chain; every step but two leaves the board and the set of taps  *)
(* alone, and drops what has neither a document nor a chain any more.      *)
(***************************************************************************)
Living(t) == \E w \in Documents : w.tap = t

Fate(t) ==
  IF OnBoard(t) THEN "posted"
  ELSE IF taps[t].stage \in Running \/ Living(t) THEN "open" ELSE "dropped"

LEMMA LivingDocuments ==
  ASSUME NEW t PROVE Living(t) <=> OnBoard(t) \/ \E a \in Accounts : Queued(a, t)
BY DEF Living, OnBoard, Queued, Documents

LEMMA SubmissionFate ==
  ASSUME NEW t, taps[t] # NotTapped
  PROVE  SubmissionOf(t) = [state |-> Fate(t), by |-> taps[t].by,
                            content |-> taps[t].content, photo |-> taps[t].photo]
<1>1. (IF OnBoard(t) THEN "posted"
       ELSE IF taps[t].stage \in Running \/ \E a \in Accounts : Queued(a, t)
              THEN "open" ELSE "dropped") = Fate(t)
  BY LivingDocuments, Zenon DEF Fate
<1> QED
  BY <1>1, Zenon DEF SubmissionOf

\* What was posted stays posted, what was dropped stays dropped, and what is
\* submitted never changes.
LEMMA FateStep ==
  ASSUME SafetyInv, TypeOK', [Next]_vars, NEW t \in Taps, taps[t] # NotTapped
  PROVE  /\ taps'[t] # NotTapped
         /\ taps'[t].by = taps[t].by
         /\ taps'[t].content = taps[t].content
         /\ taps'[t].photo = taps[t].photo
         /\ OnBoard(t) => OnBoard(t)'
         /\ Fate(t) = "dropped" => Fate(t)' = "dropped"
<1>1. Advances(t)
  BY TapStep DEF SafetyInv
<1>2. taps'[t] # NotTapped
  BY <1>1 DEF Advances, Tap, NotTapped, Running, Stopped
<1>3. OnBoard(t) => OnBoard(t)'
  BY BoardGrows DEF OnBoard
<1>4. ASSUME Fate(t) = "dropped" PROVE Fate(t)' = "dropped"
  <2>1. taps[t].stage \notin Running /\ ~ Living(t)
    BY <1>4 DEF Fate
  <2>2. taps'[t].stage \notin Running
    BY <1>1, <2>1 DEF Advances, Running
  <2>3. ~ Living(t)'
    <3>1. ASSUME NEW w \in Documents', w.tap = t PROVE FALSE
      <4>1. PICK x \in Taps : LinkDone(x) /\ w = NewWrite(x)
        BY <2>1, <3>1, DocumentsStep DEF SafetyInv, Inv, TypeInv, Living
      <4>2. x = t /\ taps[x].stage = "linking"
        BY <3>1, <4>1 DEF NewWrite, LinkDone
      <4> QED
        BY <2>1, <4>2 DEF Running
    <3> QED
      BY <3>1 DEF Living
  <2>4. ~ OnBoard(t)'
    BY <2>3 DEF Living, OnBoard, Documents
  <2> QED
    BY <2>2, <2>3, <2>4 DEF Fate
<1> QED
  BY <1>1, <1>2, <1>3, <1>4 DEF Advances

\* A document that is on the board announces the same for ever.
LEMMA AnnouncedStep ==
  ASSUME SafetyInv, SafetyInv', [Next]_vars, NEW w \in Documents, w \in Documents'
  PROVE  Announced(w)' = Announced(w)
<1>1. w.tap \in Taps /\ taps[w.tap] \in Tap /\ taps[w.tap] # NotTapped
  BY DocumentTap DEF SafetyInv, Inv, WritesAreTapped
<1>2. taps'[w.tap].photo = taps[w.tap].photo
  BY <1>1, FateStep DEF SafetyInv, Inv, TypeInv
<1>3. storage[w.photo] = taps[w.tap].photo
  BY <1>1 DEF SafetyInv, ObjectsFollowTaps, DocumentsFollowTaps, Tap
<1>4. storage'[w.photo] = taps'[w.tap].photo
  <2>1. taps'[w.tap] \in Tap /\ taps'[w.tap].by \in Users
    <3>1. taps'[w.tap] \in Tap
      BY <1>1, TapStep DEF SafetyInv, Inv, TypeInv, Advances
    <3> QED
      BY <3>1 DEF Tap
  <2>2. w.photo = ObjectName(taps'[w.tap].by, w.tap) /\ storage'[w.photo] # NoPhoto
    BY DEF SafetyInv, DocumentsFollowTaps, ObjectsFollowTaps
  <2> QED
    BY <1>1, <2>1, <2>2 DEF SafetyInv, ObjectsFollowTaps
<1> QED
  BY <1>2, <1>3, <1>4 DEF Announced

LEMMA InitBoard == Init => TheBoard!Init
<1> SUFFICES ASSUME Init PROVE TheBoard!Init
  OBVIOUS
<1>1. \A t \in Taps : SubmissionOf(t) = [state |-> "none"]
  BY DEF Init, SubmissionOf
<1>2. board = {}
  BY DEF Init
<1> QED
  BY <1>1, <1>2 DEF TheBoard!Init, TheBoard!NoSubmission

\* A step that neither taps nor posts.
LEMMA QuietStep ==
  ASSUME SafetyInv, SafetyInv', [Next]_vars, UNCHANGED board,
         \A t \in Taps : taps[t] = NotTapped => taps'[t] = NotTapped
  PROVE  TheBoard!Next
<1> DEFINE S == {t \in Taps : /\ taps[t] # NotTapped
                              /\ Fate(t) = "open" /\ Fate(t)' = "dropped"}
<1>1. ASSUME NEW t \in S
      PROVE  /\ SubmissionOf(t).state = "open"
             /\ SubmissionOf(t)' = [SubmissionOf(t) EXCEPT !.state = "dropped"]
  <2>1. /\ taps[t] # NotTapped /\ taps'[t] # NotTapped
        /\ Fate(t) = "open" /\ Fate(t)' = "dropped"
        /\ taps'[t].by = taps[t].by /\ taps'[t].content = taps[t].content
        /\ taps'[t].photo = taps[t].photo
    BY FateStep DEF SafetyInv, Inv, TypeInv
  <2>2. SubmissionOf(t) = [state |-> "open", by |-> taps[t].by,
                           content |-> taps[t].content, photo |-> taps[t].photo]
    BY <2>1, SubmissionFate
  <2>3. SubmissionOf(t)' = [state |-> "dropped", by |-> taps'[t].by,
                            content |-> taps'[t].content, photo |-> taps'[t].photo]
    BY <2>1, LivingDocuments DEF SubmissionOf, Fate, Living, OnBoard, Queued, Documents
  <2> QED
    BY <2>1, <2>2, <2>3
<1>2. ASSUME NEW t \in Taps \ S PROVE SubmissionOf(t)' = SubmissionOf(t)
  <2>1. CASE taps[t] = NotTapped
    BY <2>1 DEF SubmissionOf
  <2>2. CASE taps[t] # NotTapped
    <3>1. /\ taps'[t] # NotTapped
          /\ taps'[t].by = taps[t].by /\ taps'[t].content = taps[t].content
          /\ taps'[t].photo = taps[t].photo
          /\ Fate(t) = "dropped" => Fate(t)' = "dropped"
      BY <2>2, FateStep DEF SafetyInv, Inv, TypeInv
    <3>2. OnBoard(t)' = OnBoard(t)
      BY DEF OnBoard
    <3>3. Fate(t)' = Fate(t)
      BY <1>2, <2>2, <3>1, <3>2 DEF Fate
    <3>4. SubmissionOf(t) = [state |-> Fate(t), by |-> taps[t].by,
                             content |-> taps[t].content, photo |-> taps[t].photo]
      BY <2>2, SubmissionFate
    <3>5. SubmissionOf(t)' = [state |-> Fate(t)', by |-> taps'[t].by,
                              content |-> taps'[t].content, photo |-> taps'[t].photo]
      BY <3>1 DEF SubmissionOf, Fate, Living, OnBoard, Queued, Documents
    <3> QED
      BY <3>1, <3>3, <3>4, <3>5
  <2> QED
    BY <2>1, <2>2
<1>3. {Announced(w) : w \in board}' = {Announced(w) : w \in board}
  <2>1. ASSUME NEW w \in board PROVE Announced(w)' = Announced(w)
    BY AnnouncedStep DEF Documents
  <2> QED
    BY <2>1
<1>4. TheBoard!Drop(S)
  <2>1. [t \in Taps |-> SubmissionOf(t)]' =
          [t \in Taps |-> IF t \in S THEN [SubmissionOf(t) EXCEPT !.state = "dropped"]
                                    ELSE SubmissionOf(t)]
    BY <1>1, <1>2
  <2> QED
    BY <1>1, <1>3, <2>1 DEF TheBoard!Drop
<1> QED
  BY <1>4 DEF TheBoard!Next

\* A tap on the button submits.
LEMMA SubmitStep ==
  ASSUME SafetyInv, SafetyInv', NEW v \in Screens, NEW t \in Taps, TapPublish(v, t)
  PROVE  TheBoard!Submit(t)
<1>1. /\ taps[t] = NotTapped
      /\ UNCHANGED <<screens, storage, queue, board>>
      /\ \A x \in Taps : x # t => taps'[x] = taps[x]
  BY DEF TapPublish, SafetyInv, Inv, TypeInv, TypeOK
<1>2. taps'[t] \in Tap /\ taps'[t].stage \in {"uploading", "unencodable"} /\ taps'[t] # NotTapped
  <2>1. taps'[t] \in Tap /\ taps'[t].stage \in {"uploading", "unencodable"}
    BY NewTap DEF SafetyInv
  <2> QED
    BY <2>1 DEF NotTapped
<1>3. Documents' = Documents
  BY <1>1 DEF Documents
<1>4. ~ Living(t)
  <2>1. ASSUME NEW w \in Documents, w.tap = t PROVE FALSE
    BY <1>1, <2>1 DEF SafetyInv, Inv, WritesAreTapped
  <2> QED
    BY <2>1 DEF Living
<1>5. ~ OnBoard(t)' /\ ~ Living(t)'
  BY <1>1, <1>3, <1>4 DEF Living, OnBoard, Documents
<1>6. Fate(t)' \in {"open", "dropped"}
  BY <1>5 DEF Fate
<1>7. SubmissionOf(t)' = [state |-> Fate(t)', by |-> taps'[t].by,
                          content |-> taps'[t].content, photo |-> taps'[t].photo]
  BY <1>2, LivingDocuments DEF SubmissionOf, Fate, Living, OnBoard, Queued, Documents
<1>8. \A x \in Taps : x # t => SubmissionOf(x)' = SubmissionOf(x)
  BY <1>1 DEF SubmissionOf, OnBoard, Queued
<1>9. taps'[t].by \in Users /\ taps'[t].content \in Contents /\ taps'[t].photo \in Photos
  BY <1>2 DEF Tap
<1>10. SubmissionOf(t) = [state |-> "none"]
  BY <1>1 DEF SubmissionOf
<1>11. {Announced(w) : w \in board}' = {Announced(w) : w \in board}
  BY <1>1 DEF Announced
<1> QED
  <2>1. [x \in Taps |-> SubmissionOf(x)]' =
          [[x \in Taps |-> SubmissionOf(x)] EXCEPT ![t] = SubmissionOf(t)']
    BY <1>8
  <2>2. [x \in Taps |-> SubmissionOf(x)][t] = TheBoard!NoSubmission
    BY <1>10 DEF TheBoard!NoSubmission
  <2>3. PICK u \in Users, c \in Contents, p \in Photos, s \in {"open", "dropped"} :
          SubmissionOf(t)' = [state |-> s, by |-> u, content |-> c, photo |-> p]
    BY <1>6, <1>7, <1>9, Zenon
  <2>4. [x \in Taps |-> SubmissionOf(x)]' =
          [[x \in Taps |-> SubmissionOf(x)] EXCEPT ![t] =
             [state |-> s, by |-> u, content |-> c, photo |-> p]]
    BY <2>1, <2>3, Zenon
  <2> QED
    BY <2>2, <2>4, <1>11, Zenon DEF TheBoard!Submit

\* The server applies a write, perhaps again.
LEMMA CommitStep ==
  ASSUME SafetyInv, SafetyInv', CommitWrite
  PROVE  (\E t \in Taps : TheBoard!Post(t)) \/ UNCHANGED TheBoard!vars
<1>1. PICK d \in Documents : board' = board \cup {d}
  <2>1. PICK i \in DOMAIN queue[session] : board' = board \cup {queue[session][i]}
    BY DEF CommitWrite
  <2>2. queue[session][i] \in Documents
    <3>1. session \in Accounts
      BY DEF SafetyInv, Inv, TypeInv, TypeOK
    <3> QED
      BY <3>1 DEF Documents, ToSet
  <2> QED
    BY <2>1, <2>2
<1> DEFINE t == d.tap
<1>2. d \in Documents /\ UNCHANGED <<taps, storage, queue>>
  BY DEF CommitWrite
<1>3. t \in Taps /\ taps[t] # NotTapped /\ taps[t] \in Tap /\ d \in Write
  BY <1>2, DocumentTap DEF SafetyInv, Inv, WritesAreTapped
<1>4. \A x : OnBoard(x)' <=> OnBoard(x) \/ x = t
  BY <1>1 DEF OnBoard
<1>5. \A x \in Taps : x # t => SubmissionOf(x)' = SubmissionOf(x)
  BY <1>2, <1>4 DEF SubmissionOf, Queued
<1>6. {Announced(w) : w \in board}' = {Announced(w) : w \in board} \cup {Announced(d)}
  <2>1. board' = board \cup {d}
    BY <1>1
  <2> QED
    BY <1>2, <2>1 DEF Announced
<1>7. CASE OnBoard(t)
  <2>1. d \in board
    <3>1. PICK w \in board : w.tap = t
      BY <1>7 DEF OnBoard
    <3>2. w \in Documents
      BY <3>1 DEF Documents
    <3> QED
      BY <1>2, <3>1, <3>2 DEF SafetyInv, AtMostOnePost
  <2>2. board' = board
    BY <1>1, <2>1
  <2>3. \A x \in Taps : SubmissionOf(x)' = SubmissionOf(x)
    BY <1>2, <2>2 DEF SubmissionOf, Queued, OnBoard
  <2>4. {Announced(w) : w \in board}' = {Announced(w) : w \in board}
    BY <1>2, <2>2 DEF Announced
  <2> QED
    BY <2>3, <2>4 DEF TheBoard!vars
<1>8. CASE ~ OnBoard(t)
  <2>1. Fate(t) = "open"
    BY <1>2, <1>8 DEF Fate, Living
  <2>2. SubmissionOf(t) = [state |-> "open", by |-> taps[t].by,
                           content |-> taps[t].content, photo |-> taps[t].photo]
    BY <1>3, <2>1, SubmissionFate
  <2>3. SubmissionOf(t)' = [state |-> "posted", by |-> taps[t].by,
                            content |-> taps[t].content, photo |-> taps[t].photo]
    <3>1. OnBoard(t)' /\ taps'[t] # NotTapped /\ taps' = taps
      BY <1>2, <1>3, <1>4
    <3> QED
      BY <3>1, Zenon DEF SubmissionOf
  <2>4. SubmissionOf(t)' = [SubmissionOf(t) EXCEPT !.state = "posted"]
    BY <2>2, <2>3
  <2>5. /\ d.owner = taps[t].by /\ d.content = taps[t].content /\ d.status \in Statuses
        /\ storage[d.photo] = taps[t].photo
    <3>1. /\ d.owner = taps[t].by /\ d.content = taps[t].content
          /\ d.photo = ObjectName(taps[t].by, t) /\ storage[d.photo] # NoPhoto
      BY <1>2 DEF SafetyInv, DocumentsFollowTaps, ObjectsFollowTaps
    <3>2. taps[t].by \in Users /\ d.status \in Statuses
      BY <1>3 DEF Tap, Write
    <3> QED
      BY <1>3, <3>1, <3>2 DEF SafetyInv, ObjectsFollowTaps
  <2>6. Announced(d) = [tap |-> t, owner |-> SubmissionOf(t).by,
                        content |-> SubmissionOf(t).content,
                        photo |-> SubmissionOf(t).photo, status |-> d.status]
    BY <2>2, <2>5 DEF Announced
  <2>7. TheBoard!Post(t)
    <3>1. [x \in Taps |-> SubmissionOf(x)]' =
            [[x \in Taps |-> SubmissionOf(x)] EXCEPT ![t] =
               [SubmissionOf(t) EXCEPT !.state = "posted"]]
      BY <1>3, <1>5, <2>4
    <3> DEFINE sub == [x \in Taps |-> SubmissionOf(x)]
    <3>2. sub[t] = SubmissionOf(t) /\ SubmissionOf(t).state = "open"
      BY <1>3, <2>2
    <3>3. sub' = [sub EXCEPT ![t].state = "posted"]
      BY <3>1, <3>2
    <3>4. {Announced(w) : w \in board}' = {Announced(w) : w \in board} \cup
            {[tap |-> t, owner |-> sub[t].by, content |-> sub[t].content,
              photo |-> sub[t].photo, status |-> d.status]}
      BY <1>6, <2>6, <3>2
    <3> HIDE DEF t
    <3> QED
      BY <2>5, <3>2, <3>3, <3>4, Zenon DEF TheBoard!Post
  <2> QED
    BY <1>3, <2>7
<1> QED
  BY <1>7, <1>8

LEMMA BoardSame ==
  ASSUME [Next]_vars, ~ CommitWrite PROVE UNCHANGED board
BY DEF Next, vars, SignIn, SignOut, CloseScreen, Kill, SelectTab, OpenScreen,
   UserStep, Type, SelectStatus, OpenPhotoPicker, FinishPicking, DismissModal,
   TapIncomplete, TapPublish, ChainStep, PutObject, UploadDone, UploadFailed,
   LinkDone, SyncStep, AckWrite, AckRestoredWrite, RejectWrite

LEMMA NextBoard ==
  SafetyInv /\ SafetyInv' /\ [Next]_vars => [TheBoard!Next]_(TheBoard!vars)
<1> SUFFICES ASSUME SafetyInv, SafetyInv', [Next]_vars
             PROVE  TheBoard!Next \/ UNCHANGED TheBoard!vars
  OBVIOUS
<1>1. CASE CommitWrite
  BY <1>1, CommitStep DEF TheBoard!Next
<1>2. CASE \E v \in Screens, t \in Taps : TapPublish(v, t)
  BY <1>2, SubmitStep DEF TheBoard!Next
<1>3. CASE ~ CommitWrite /\ ~ \E v \in Screens, t \in Taps : TapPublish(v, t)
  <2>1. UNCHANGED board
    BY <1>3, BoardSame
  <2>2. \A t \in Taps : taps[t] = NotTapped => taps'[t] = NotTapped
    BY <1>3, NewTapStep DEF SafetyInv
  <2> QED
    BY <2>1, <2>2, QuietStep
<1> QED
  BY <1>1, <1>2, <1>3

\* Publishing keeps the promise of the board: each submission is posted once, as it
\* was made, or dropped for good, and what is posted never changes
\* (didPublishBtnTapped to addDocument, through restarts and changes of account).
THEOREM BoardImplemented == Spec => ImplementsBoard
<1>1. Spec => TheBoard!Spec
  BY InitBoard, NextBoard, SafetyHolds, PTL DEF Spec, TheBoard!Spec
<1> QED
  BY <1>1 DEF ImplementsBoard
=============================================================================
