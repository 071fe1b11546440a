--------------------------- MODULE ProfileProofs ---------------------------
(***************************************************************************)
(* For any devices, names, addresses and saves: the two copies of the      *)
(* address agree when everything has been carried out.                     *)
(*                                                                         *)
(* A save adds one entry to each of a device's two queues, and the queues  *)
(* are emptied independently.  What agrees all the time is where they lead *)
(* (Agreement): the profile that the last queued write will store, or the  *)
(* document when there is none, has the address that the last request will *)
(* set, or the account's when there is none, and it is what was saved      *)
(* last.  It needs that nobody else is saving (OneSaver), and that the     *)
(* document is what the last write said once that has been applied         *)
(* (LastApplied), because an acknowledged write leaves the queue.          *)
(***************************************************************************)
EXTENDS Profile, QueueTheorems

\* Where the writes and the requests of a device lead.
WriteLeadsTo(d) ==
  IF queue[d] = <<>> THEN document ELSE Last(queue[d]).to

RequestLeadsTo(d) ==
  IF requests[d] = <<>> THEN account ELSE Last(requests[d]).email

Alone(d) == \A other \in Devices \ {d} : ~Saving(other)

OneSaver == \A d \in Devices : Saving(d) => Alone(d)

LastApplied ==
  document # NoDoc =>
    \A d \in Devices :
      queue[d] # <<>> /\ Last(queue[d]).applied => document = Last(queue[d]).to

Agreed(d) ==
  /\ WriteLeadsTo(d).email = RequestLeadsTo(d)
  /\ lastSaved # NoDoc => WriteLeadsTo(d) = lastSaved

Agreement ==
  document # NoDoc => \A d \in Devices : Alone(d) => Agreed(d)

InStep == ~strayed => OneSaver /\ LastApplied /\ Agreement

Inv == TypeOK /\ InStep

-----------------------------------------------------------------------------
(***************************************************************************)
(* The sequences the actions build.                                        *)
(***************************************************************************)
\* Requests without their editor ask for the same address.
LEMMA OrphanedLast ==
  ASSUME NEW rs \in Seq(Request)
  PROVE  /\ Orphaned(rs) \in Seq(Request)
         /\ Orphaned(rs) = <<>> <=> rs = <<>>
         /\ rs # <<>> => Last(Orphaned(rs)).email = Last(rs).email
<1> DEFINE p == Orphaned(rs)
<1>1. DOMAIN p = DOMAIN rs /\ p = [k \in DOMAIN rs |-> p[k]]
  BY DEF Orphaned
<1>2. ASSUME NEW k \in DOMAIN rs PROVE p[k] \in Request /\ p[k].email = rs[k].email
  <2>1. rs[k] \in Request /\ p[k] = [rs[k] EXCEPT !.live = FALSE]
    BY DEF Orphaned
  <2> QED
    BY <2>1 DEF Request
<1> HIDE DEF p
<1>3. p \in Seq(Request)
  BY <1>1, <1>2, EntrywiseSet
<1>4. Len(p) = Len(rs) /\ Len(rs) \in Nat /\ DOMAIN rs = 1..Len(rs)
  BY <1>1, <1>3
<1>5. p = <<>> <=> rs = <<>>
  BY <1>3, <1>4
<1>6. rs # <<>> => Len(rs) \in DOMAIN rs
  BY <1>4
<1>7. rs # <<>> => Last(p).email = Last(rs).email
  BY <1>2, <1>4, <1>6 DEF Last
<1> QED
  BY <1>3, <1>5, <1>7 DEF p

Marked(q, k) == [i \in DOMAIN q |-> [q[i] EXCEPT !.applied = i <= k]]

\* Applying the first k writes says nothing new of where they lead.
LEMMA MarkedLast ==
  ASSUME NEW q \in Seq(Write), NEW k \in DOMAIN q
  PROVE  /\ Marked(q, k) \in Seq(Write)
         /\ Marked(q, k) # <<>> /\ q # <<>>
         /\ Last(Marked(q, k)).to = Last(q).to
         /\ Last(Marked(q, k)).applied => q[k].to = Last(q).to
<1> DEFINE p == Marked(q, k)
<1>1. DOMAIN p = DOMAIN q /\ p = [i \in DOMAIN q |-> p[i]]
  BY DEF Marked
<1>0. /\ Len(q) \in Nat /\ DOMAIN q = 1..Len(q) /\ k \in 1..Len(q) /\ Len(q) \in DOMAIN q
      /\ q # <<>>
  OBVIOUS
<1>2. ASSUME NEW i \in DOMAIN q
      PROVE  /\ p[i] \in Write /\ p[i].to = q[i].to
             /\ p[i].applied = (i <= k)
  <2>1. q[i] \in Write /\ p[i] = [q[i] EXCEPT !.applied = i <= k]
    BY DEF Marked
  <2>2. (i <= k) \in BOOLEAN
    BY <1>0
  <2>3. p[i].to = q[i].to /\ p[i].applied = (i <= k)
    BY <2>1, <2>2 DEF Write
  <2>4. p[i] = [to |-> q[i].to, applied |-> (i <= k)] /\ q[i].to \in Profile
    BY <2>1, <2>2 DEF Write
  <2> QED
    BY <2>2, <2>3, <2>4 DEF Write
<1> HIDE DEF p
<1>3. p \in Seq(Write)
  BY <1>1, <1>2, EntrywiseSet
<1>4. Len(p) = Len(q)
  BY <1>0, <1>1, <1>3
<1>5. p # <<>>
  BY <1>0, <1>3, <1>4
<1>6. Last(p).to = Last(q).to /\ Last(p).applied = (Len(q) <= k)
  BY <1>0, <1>2, <1>4 DEF Last
<1>7. Len(q) <= k => k = Len(q)
  BY <1>0
<1>8. Last(p).applied => q[k].to = Last(q).to
  BY <1>6, <1>7 DEF Last
<1> QED
  BY <1>0, <1>3, <1>5, <1>6, <1>8 DEF p

-----------------------------------------------------------------------------
(***************************************************************************)
(* Types.                                                                  *)
(***************************************************************************)
LEMMA InitType == Init => TypeOK
<1> SUFFICES ASSUME Init PROVE TypeOK
  OBVIOUS
<1>1. document \in Profile \cup {NoDoc} /\ account \in Emails
  BY DEF Init
<1>2. label \in [Devices -> Names \cup {Blank, Closed}]
  BY DEF Init
<1>3. editor \in [Devices -> Editor \cup {Closed}]
  BY DEF Init
<1>4. queue \in [Devices -> Seq(Write)] /\ requests \in [Devices -> Seq(Request)]
  BY DEF Init
<1>5. saves \in 0..MaxSaves
  BY ProfileAssumption DEF Init
<1>6. lastSaved \in Profile \cup {NoDoc} /\ strayed \in BOOLEAN
  BY DEF Init
<1> QED
  BY <1>1, <1>2, <1>3, <1>4, <1>5, <1>6 DEF TypeOK

\* What a device sees, unless there is nothing to see, is a profile.
LEMMA ViewType ==
  ASSUME TypeOK, NEW d \in Devices
  PROVE  View(d) \in Profile \cup {NoDoc}
<1>1. document \in Profile \cup {NoDoc} /\ queue[d] \in Seq(Write)
  BY DEF TypeOK
<1>2. CASE document = NoDoc \/ queue[d] = <<>>
  BY <1>1, <1>2 DEF View
<1>3. CASE ~(document = NoDoc \/ queue[d] = <<>>)
  <2>1. Last(queue[d]) \in Write
    BY <1>1, <1>3, LastOfTail
  <2> QED
    BY <2>1, <1>3 DEF View, Write
<1> QED
  BY <1>2, <1>3

\* The values an editor is given.
LEMMA EditorTypes ==
  ASSUME TypeOK, NEW d \in Devices, editor[d] # Closed
  PROVE  /\ editor[d] \in Editor
         /\ \A n \in Names \cup {Blank}, e \in Emails \cup {Blank} :
              [editor[d] EXCEPT !.name = n, !.email = e] \in Editor
         /\ \A a \in BOOLEAN : [editor[d] EXCEPT !.alert = a] \in Editor
         /\ \A a, r \in BOOLEAN :
              [editor[d] EXCEPT !.alert = a, !.resetting = r] \in Editor
         /\ [editor[d] EXCEPT !.heard = NoDoc] \in Editor
         /\ \A p \in Profile :
              [editor[d] EXCEPT !.heard = p, !.name = p.name, !.email = p.email] \in Editor
<1>1. editor[d] \in Editor
  BY DEF TypeOK
<1>2. \A a, r \in BOOLEAN :
        /\ [editor[d] EXCEPT !.alert = a] \in Editor
        /\ [editor[d] EXCEPT !.alert = a, !.resetting = r] \in Editor
  BY <1>1 DEF Editor
<1>3. \A n \in Names \cup {Blank}, e \in Emails \cup {Blank} :
        [editor[d] EXCEPT !.name = n, !.email = e] \in Editor
  BY <1>1 DEF Editor
<1>4. \A p \in Profile :
        [editor[d] EXCEPT !.heard = p, !.name = p.name, !.email = p.email] \in Editor
  BY <1>1 DEF Editor, Profile
<1>5. [editor[d] EXCEPT !.heard = NoDoc] \in Editor
  BY <1>1 DEF Editor
<1> QED
  BY <1>1, <1>2, <1>3, <1>4, <1>5

\* Nothing but the editor of a device, and counters of no interest, is touched.
LEMMA EditType ==
  ASSUME TypeOK, NEW d \in Devices, NEW e \in Editor \cup {Closed}, Edit(d, e),
         queue' \in [Devices -> Seq(Write)], requests' \in [Devices -> Seq(Request)],
         saves' \in 0..MaxSaves, lastSaved' \in Profile \cup {NoDoc},
         strayed' \in BOOLEAN
  PROVE  TypeOK'
<1>1. editor' \in [Devices -> Editor \cup {Closed}]
  BY DEF TypeOK, Edit
<1>2. UNCHANGED <<document, account, label>>
  BY DEF Edit
<1> QED
  BY <1>1, <1>2 DEF TypeOK

LEMMA UserType ==
  ASSUME TypeOK, NEW d \in Devices, UserStep(d)
  PROVE  TypeOK'
<1> DEFINE Rest == /\ queue' \in [Devices -> Seq(Write)]
                   /\ requests' \in [Devices -> Seq(Request)]
                   /\ saves' \in 0..MaxSaves /\ strayed' \in BOOLEAN
                   /\ lastSaved' \in Profile \cup {NoDoc}
<1>1. ASSUME Quiet(d) PROVE Rest
  BY <1>1 DEF Quiet, TypeOK
<1>2. CASE OpenProfile(d)
  <2>1. label' \in [Devices -> Names \cup {Blank, Closed}]
    BY <1>2 DEF OpenProfile, TypeOK
  <2> QED
    BY <2>1, <1>2 DEF OpenProfile, TypeOK
<1>3. CASE OpenEditor(d)
  <2>1. EmptyEditor \in Editor
    BY DEF EmptyEditor, Editor
  <2> QED
    BY <2>1, <1>1, <1>3, EditType DEF OpenEditor
<1>4. CASE CloseEditor(d)
  <2>1. Orphaned(requests[d]) \in Seq(Request)
    BY OrphanedLast DEF TypeOK
  <2>2. requests' \in [Devices -> Seq(Request)]
    BY <2>1, <1>4 DEF CloseEditor, TypeOK
  <2>3. Rest
    BY <2>2, <1>4 DEF CloseEditor, TypeOK
  <2> QED
    BY <2>3, <1>4, EditType DEF CloseEditor
<1>5. ASSUME NEW n \in Names \cup {Blank}, NEW e \in Emails \cup {Blank}, Type(d, n, e)
      PROVE  TypeOK'
  <2>1. [editor[d] EXCEPT !.name = n, !.email = e] \in Editor
    BY <1>5, EditorTypes DEF Type, AtEditor
  <2> QED
    BY <2>1, <1>1, <1>5, EditType DEF Type
<1>6. CASE TapIncomplete(d)
  <2>1. [editor[d] EXCEPT !.alert = TRUE] \in Editor
    BY <1>6, EditorTypes DEF TapIncomplete, AtEditor
  <2> QED
    BY <2>1, <1>1, <1>6, EditType DEF TapIncomplete
<1>7. CASE TapSave(d)
  <2>1. editor[d] \in Editor /\ [editor[d] EXCEPT !.alert = TRUE] \in Editor
    BY <1>7, EditorTypes DEF TapSave, AtEditor
  <2>2. editor[d].name \in Names /\ editor[d].email \in Emails
    BY <2>1, <1>7 DEF TapSave, Filled, Editor
  <2> DEFINE w == [to |-> [name |-> editor[d].name, email |-> editor[d].email],
                   applied |-> FALSE]
             r == [email |-> editor[d].email, live |-> TRUE]
  <2>3. w \in Write /\ r \in Request
    BY <2>2 DEF Write, Profile, Request
  <2>4. /\ queue' = [queue EXCEPT ![d] = Append(queue[d], w)]
        /\ requests' = [requests EXCEPT ![d] = Append(requests[d], r)]
    BY <1>7 DEF TapSave, Save
  <2> HIDE DEF w, r
  <2>5. /\ queue' \in [Devices -> Seq(Write)]
        /\ requests' \in [Devices -> Seq(Request)]
    BY <2>3, <2>4, AppendSet DEF TypeOK
  <2>6. saves' \in 0..MaxSaves
    BY <1>7, ProfileAssumption DEF TapSave, Save, TypeOK
  <2>7. strayed' \in BOOLEAN /\ lastSaved' \in Profile \cup {NoDoc}
    <3>1. lastSaved' = [name |-> editor[d].name, email |-> editor[d].email]
      BY <1>7 DEF TapSave, Save
    <3>2. lastSaved' \in Profile
      BY <2>2, <3>1 DEF Profile
    <3> QED
      BY <1>7, <3>2 DEF TapSave, Save, TypeOK
  <2> QED
    BY <2>1, <2>5, <2>6, <2>7, <1>7, EditType DEF TapSave, Save
<1>8. CASE DismissAlert(d)
  <2>1. [editor[d] EXCEPT !.alert = FALSE] \in Editor
    BY <1>8, EditorTypes DEF DismissAlert
  <2> QED
    BY <2>1, <1>1, <1>8, EditType DEF DismissAlert
<1>9. CASE TapReset(d)
  <2>1. [editor[d] EXCEPT !.alert = TRUE, !.resetting = TRUE] \in Editor
    BY <1>9, EditorTypes DEF TapReset, AtEditor
  <2> QED
    BY <2>1, <1>1, <1>9, EditType DEF TapReset
<1> QED
  BY <1>2, <1>3, <1>4, <1>5, <1>6, <1>7, <1>8, <1>9 DEF UserStep

\* An answered request leaves an editor with or without an alert.
LEMMA AnsweredType ==
  ASSUME TypeOK, NEW d \in Devices, requests[d] # <<>>, NEW shown \in BOOLEAN,
         Answered(d, 1, shown)
  PROVE  /\ requests' = [requests EXCEPT ![d] = Tail(requests[d])]
         /\ Head(requests[d]) \in Request
         /\ requests' \in [Devices -> Seq(Request)]
         /\ editor' \in [Devices -> Editor \cup {Closed}]
<1>1. requests[d] \in Seq(Request)
  BY DEF TypeOK
<1>2. RemoveAt(requests[d], 1) = Tail(requests[d])
  BY <1>1, RemoveAtHead
<1>3. requests' = [requests EXCEPT ![d] = Tail(requests[d])]
  BY <1>2 DEF Answered
<1>4. Head(requests[d]) \in Request /\ Tail(requests[d]) \in Seq(Request)
  BY <1>1
<1>5. requests' \in [Devices -> Seq(Request)]
  BY <1>3, <1>4 DEF TypeOK
<1>6. CASE AtEditor(d)
  <2>1. [editor[d] EXCEPT !.alert = TRUE] \in Editor
    BY <1>6, EditorTypes DEF AtEditor
  <2>2. \/ editor' = editor
        \/ editor' = [editor EXCEPT ![d] = [editor[d] EXCEPT !.alert = TRUE]]
    BY DEF Answered
  <2> QED
    BY <1>3, <1>4, <1>5, <2>1, <2>2 DEF TypeOK
<1>7. CASE ~AtEditor(d)
  <2>1. editor' = editor
    BY <1>7 DEF Answered
  <2> QED
    BY <1>3, <1>4, <1>5, <2>1 DEF TypeOK
<1> QED
  BY <1>6, <1>7

LEMMA AuthType ==
  ASSUME TypeOK, NEW d \in Devices, AuthStep(d)
  PROVE  TypeOK'
<1>1. CASE EmailChanged(d)
  <2>1. requests[d] # <<>> /\ Answered(d, 1, FALSE)
    BY <1>1 DEF EmailChanged
  <2>2. /\ requests' \in [Devices -> Seq(Request)]
        /\ editor' \in [Devices -> Editor \cup {Closed}]
        /\ account' \in Emails
    BY <2>1, <1>1, AnsweredType DEF EmailChanged, Request
  <2> QED
    BY <2>1, <2>2, <1>1 DEF EmailChanged, Answered, TypeOK
<1>2. CASE EmailChangedUnheard(d)
  <2>1. requests[d] # <<>> /\ Answered(d, 1, TRUE)
    BY <1>2 DEF EmailChangedUnheard
  <2>2. /\ requests' \in [Devices -> Seq(Request)]
        /\ editor' \in [Devices -> Editor \cup {Closed}]
        /\ account' \in Emails
    BY <2>1, <1>2, AnsweredType DEF EmailChangedUnheard, Request
  <2> QED
    BY <2>1, <2>2, <1>2 DEF EmailChangedUnheard, Answered, TypeOK
<1>3. CASE EmailRefused(d)
  <2>1. requests[d] # <<>> /\ Answered(d, 1, TRUE)
    BY <1>3 DEF EmailRefused
  <2>2. /\ requests' \in [Devices -> Seq(Request)]
        /\ editor' \in [Devices -> Editor \cup {Closed}]
    BY <2>1, AnsweredType
  <2>3. strayed' \in BOOLEAN
    BY <1>3 DEF EmailRefused, TypeOK
  <2> QED
    BY <2>1, <2>2, <2>3, <1>3 DEF EmailRefused, Answered, TypeOK
<1>4. CASE ResetAnswered(d)
  <2>1. [editor[d] EXCEPT !.resetting = FALSE, !.alert = TRUE] \in Editor
    <3>1. editor[d] # Closed
      BY <1>4 DEF ResetAnswered
    <3>2. editor[d] \in Editor
      BY <3>1, EditorTypes
    <3> QED
      BY <3>2 DEF Editor
  <2>2. Edit(d, [editor[d] EXCEPT !.resetting = FALSE, !.alert = TRUE]) /\ Quiet(d)
    BY <1>4 DEF ResetAnswered
  <2>3. /\ queue' \in [Devices -> Seq(Write)] /\ requests' \in [Devices -> Seq(Request)]
        /\ saves' \in 0..MaxSaves /\ strayed' \in BOOLEAN
        /\ lastSaved' \in Profile \cup {NoDoc}
    BY <2>2 DEF Quiet, TypeOK
  <2> QED
    BY <2>1, <2>2, <2>3, EditType
<1> QED
  BY <1>1, <1>2, <1>3, <1>4 DEF AuthStep

LEMMA FirestoreType ==
  ASSUME TypeOK, NEW d \in Devices, FirestoreStep(d)
  PROVE  TypeOK'
<1>1. CASE LabelSnapshot(d)
  <2>1. View(d).name \in Names
    BY <1>1, ViewType DEF LabelSnapshot, Profile
  <2>2. label' \in [Devices -> Names \cup {Blank, Closed}]
    BY <2>1, <1>1 DEF LabelSnapshot, TypeOK
  <2> QED
    BY <2>2, <1>1 DEF LabelSnapshot, TypeOK
<1>2. CASE FieldsSnapshot(d)
  <2> DEFINE v == View(d)
             e == IF v = NoDoc THEN [editor[d] EXCEPT !.heard = NoDoc]
                  ELSE [editor[d] EXCEPT !.heard = v, !.name = v.name, !.email = v.email]
  <2>1. editor' = [editor EXCEPT ![d] = e] /\ editor[d] # Closed
    BY <1>2 DEF FieldsSnapshot
  <2>2. v \in Profile \cup {NoDoc}
    BY ViewType
  <2>3. e \in Editor
    BY <2>1, <2>2, EditorTypes
  <2> HIDE DEF e
  <2>4. editor' \in [Devices -> Editor \cup {Closed}]
    BY <2>1, <2>3 DEF TypeOK
  <2> QED
    BY <2>4, <1>2 DEF FieldsSnapshot, TypeOK
<1>3. ASSUME NEW k \in DOMAIN queue[d], Apply(d, k) PROVE TypeOK'
  <2>1. queue[d] \in Seq(Write)
    BY DEF TypeOK
  <2>2. queue' = [queue EXCEPT ![d] = Marked(queue[d], k)]
    BY <1>3 DEF Apply, Marked
  <2>3. Marked(queue[d], k) \in Seq(Write)
    BY <2>1, <1>3, MarkedLast
  <2>4. queue' \in [Devices -> Seq(Write)]
    BY <2>2, <2>3 DEF TypeOK
  <2>5. queue[d][k] \in Write
    BY <2>1, <1>3
  <2>6. document' \in Profile
    BY <2>5, <1>3 DEF Apply, Write
  <2> QED
    BY <2>4, <2>6, <1>3 DEF Apply, TypeOK
<1>4. ASSUME Dequeue(d), strayed' \in BOOLEAN PROVE TypeOK'
  <2>1. Tail(queue[d]) \in Seq(Write)
    BY <1>4 DEF Dequeue, TypeOK
  <2>2. queue' \in [Devices -> Seq(Write)]
    BY <2>1, <1>4 DEF Dequeue, TypeOK
  <2> QED
    BY <2>2, <1>4 DEF Dequeue, TypeOK
<1>5. CASE Acknowledge(d)
  BY <1>4, <1>5 DEF Acknowledge, TypeOK
<1>6. CASE Refuse(d)
  BY <1>4, <1>6 DEF Refuse
<1> QED
  BY <1>1, <1>2, <1>3, <1>5, <1>6 DEF FirestoreStep

LEMMA NextType == TypeOK /\ [Next]_vars => TypeOK'
<1> SUFFICES ASSUME TypeOK, [Next]_vars PROVE TypeOK'
  OBVIOUS
<1>1. ASSUME NEW d \in Devices, Kill(d) PROVE TypeOK'
  <2>1. /\ label' \in [Devices -> Names \cup {Blank, Closed}]
        /\ editor' \in [Devices -> Editor \cup {Closed}]
        /\ requests' \in [Devices -> Seq(Request)]
    BY <1>1 DEF Kill, TypeOK
  <2>2. strayed' \in BOOLEAN
    BY <1>1 DEF Kill, TypeOK
  <2> QED
    BY <2>1, <2>2, <1>1 DEF Kill, TypeOK
<1>2. CASE UNCHANGED vars
  BY <1>2 DEF TypeOK, vars
<1>3. ASSUME NEW d \in Devices, UserStep(d) \/ AuthStep(d) \/ FirestoreStep(d) \/ Kill(d)
      PROVE  TypeOK'
  BY <1>1, <1>3, UserType, AuthType, FirestoreType
<1> QED
  BY <1>2, <1>3 DEF Next

-----------------------------------------------------------------------------
(***************************************************************************)
(* Agreement.                                                              *)
(***************************************************************************)
LEMMA InitInStep == Init => InStep
<1> SUFFICES ASSUME Init PROVE InStep
  OBVIOUS
<1>1. \A d \in Devices : queue[d] = <<>> /\ requests[d] = <<>> /\ ~Saving(d)
  BY DEF Init, Saving
<1>2. (document # NoDoc => document.email = account) /\ lastSaved = NoDoc
  BY DEF Init
<1> QED
  BY <1>1, <1>2
     DEF InStep, OneSaver, LastApplied, Agreement, Agreed, WriteLeadsTo, RequestLeadsTo

\* A step after which the writes and requests lead where they led.
LEMMA Unmoved ==
  ASSUME InStep, UNCHANGED <<document, account, queue, lastSaved>>, strayed' = strayed,
         \A d \in Devices :
           /\ requests'[d] = <<>> <=> requests[d] = <<>>
           /\ requests[d] # <<>> => Last(requests'[d]).email = Last(requests[d]).email
  PROVE  InStep'
<1>1. \A d \in Devices :
        /\ Saving(d)' <=> Saving(d)
        /\ WriteLeadsTo(d)' = WriteLeadsTo(d)
        /\ RequestLeadsTo(d)' = RequestLeadsTo(d)
  BY DEF Saving, WriteLeadsTo, RequestLeadsTo
<1>2. \A d \in Devices : Alone(d)' <=> Alone(d)
  BY <1>1 DEF Alone
<1>3. OneSaver => OneSaver'
  BY <1>1, <1>2 DEF OneSaver
<1>4. Agreement => Agreement'
  BY <1>1, <1>2 DEF Agreement, Agreed
<1>5. LastApplied => LastApplied'
  BY DEF LastApplied
<1> QED
  BY <1>3, <1>4, <1>5 DEF InStep

\* A step of the only device that is saving.
LEMMA StepOfOne ==
  ASSUME NEW d \in Devices,
         \A other \in Devices \ {d} :
           queue'[other] = queue[other] /\ requests'[other] = requests[other],
         ~strayed' => Alone(d),
         ~strayed' /\ document' # NoDoc => Agreed(d)',
         ~strayed' /\ document' # NoDoc /\ queue'[d] # <<>> /\ Last(queue'[d]).applied
           => document' = Last(queue'[d]).to
  PROVE  InStep'
<1> SUFFICES ASSUME ~strayed' PROVE OneSaver' /\ LastApplied' /\ Agreement'
  BY DEF InStep
<1>1. \A other \in Devices \ {d} :
        /\ queue'[other] = <<>> /\ requests'[other] = <<>>
        /\ ~Saving(other)'
  BY DEF Alone, Saving
<1>2. OneSaver'
  BY <1>1 DEF OneSaver, Alone
<1>3. LastApplied'
  BY <1>1 DEF LastApplied
<1>4. Agreement'
  <2> SUFFICES ASSUME document' # NoDoc, NEW e \in Devices, Alone(e)'
               PROVE  Agreed(e)'
    BY DEF Agreement
  <2>1. CASE e = d
    BY <2>1
  <2>2. CASE e # d
    <3>1. queue'[d] = <<>> /\ requests'[d] = <<>>
      BY <2>2 DEF Alone, Saving
    <3>2. /\ document'.email = account'
          /\ lastSaved' # NoDoc => document' = lastSaved'
      BY <3>1 DEF Agreed, WriteLeadsTo, RequestLeadsTo
    <3> QED
      BY <1>1, <2>2, <3>2 DEF Agreed, WriteLeadsTo, RequestLeadsTo
  <2> QED
    BY <2>1, <2>2
<1> QED
  BY <1>2, <1>3, <1>4

LEMMA UserInStep ==
  ASSUME Inv, NEW d \in Devices, UserStep(d)
  PROVE  InStep'
<1>1. ASSUME UNCHANGED <<document, account, queue, requests, lastSaved, strayed>> PROVE InStep'
  BY <1>1, Unmoved DEF Inv
<1>2. CASE CloseEditor(d)
  <2>1. /\ requests' = [requests EXCEPT ![d] = Orphaned(requests[d])]
        /\ UNCHANGED <<document, account, queue, lastSaved, strayed>>
    BY <1>2 DEF CloseEditor, Edit
  <2>2. requests \in [Devices -> Seq(Request)]
    BY DEF Inv, TypeOK
  <2>3. /\ Orphaned(requests[d]) = <<>> <=> requests[d] = <<>>
        /\ requests[d] # <<>> =>
             Last(Orphaned(requests[d])).email = Last(requests[d]).email
    BY <2>2, OrphanedLast
  <2>4. \A e \in Devices :
          /\ requests'[e] = <<>> <=> requests[e] = <<>>
          /\ requests[e] # <<>> => Last(requests'[e]).email = Last(requests[e]).email
    BY <2>1, <2>2, <2>3
  <2> QED
    BY <2>1, <2>4, Unmoved DEF Inv
<1>3. CASE TapSave(d)
  <2> DEFINE w == [to |-> [name |-> editor[d].name, email |-> editor[d].email],
                   applied |-> FALSE]
             r == [email |-> editor[d].email, live |-> TRUE]
  <2>1. /\ queue \in [Devices -> Seq(Write)] /\ queue[d] \in Seq(Write)
        /\ requests \in [Devices -> Seq(Request)] /\ requests[d] \in Seq(Request)
    BY DEF Inv, TypeOK
  <2>2. w \in Write /\ r \in Request
    <3>1. editor[d] \in Editor
      BY <1>3 DEF Inv, TypeOK, TapSave, AtEditor
    <3>2. editor[d].name \in Names /\ editor[d].email \in Emails
      BY <3>1, <1>3 DEF TapSave, Filled, Editor
    <3> QED
      BY <3>2 DEF Write, Profile, Request
  <2>3. w.to.email = r.email /\ w.applied = FALSE
    OBVIOUS
  <2>4. /\ queue' = [queue EXCEPT ![d] = Append(queue[d], w)]
        /\ requests' = [requests EXCEPT ![d] = Append(requests[d], r)]
    BY <1>3 DEF TapSave, Save
  <2>5. (~strayed' => Alone(d)) /\ lastSaved' = w.to
    BY <1>3 DEF TapSave, Save, Alone
  <2> HIDE DEF w, r
  <2>6. /\ queue'[d] # <<>> /\ Last(queue'[d]) = w
        /\ requests'[d] # <<>> /\ Last(requests'[d]) = r
    <3>1. queue'[d] = Append(queue[d], w) /\ requests'[d] = Append(requests[d], r)
      BY <2>1, <2>4
    <3>2. Append(queue[d], w) # <<>> /\ Last(Append(queue[d], w)) = w
      BY <2>1, <2>2, LastOfAppend, Zenon
    <3>3. Append(requests[d], r) # <<>> /\ Last(Append(requests[d], r)) = r
      BY <2>1, <2>2, LastOfAppend, Zenon
    <3> QED
      BY <3>1, <3>2, <3>3, Zenon
  <2>7. Agreed(d)'
    BY <2>3, <2>5, <2>6 DEF Agreed, WriteLeadsTo, RequestLeadsTo
  <2>8. \A other \in Devices \ {d} :
          queue'[other] = queue[other] /\ requests'[other] = requests[other]
    BY <2>1, <2>4
  <2>9. ~Last(queue'[d]).applied
    BY <2>3, <2>6
  <2> QED
    BY <2>5, <2>7, <2>8, <2>9, StepOfOne
<1> QED
  BY <1>1, <1>2, <1>3
  DEF UserStep, OpenProfile, OpenEditor, Type, TapIncomplete, DismissAlert, TapReset,
      Edit, Quiet

LEMMA AuthInStep ==
  ASSUME Inv, NEW d \in Devices, AuthStep(d)
  PROVE  InStep'
<1>1. CASE EmailChanged(d)
  <2> DEFINE rs == requests[d]
  <2>1. rs \in Seq(Request) /\ requests \in [Devices -> Seq(Request)] /\ rs # <<>>
    BY <1>1 DEF Inv, TypeOK, EmailChanged
  <2>2. requests' = [requests EXCEPT ![d] = Tail(rs)]
    BY <1>1, AnsweredType DEF Inv, EmailChanged
  <2>3. /\ account' = Head(rs).email
        /\ UNCHANGED <<document, queue, lastSaved, strayed>>
    BY <1>1 DEF EmailChanged, Answered
  <2>4. requests'[d] = Tail(rs)
    BY <2>1, <2>2
  <2>5. RequestLeadsTo(d)' = RequestLeadsTo(d)
    <3>1. RequestLeadsTo(d) = Last(rs).email
      BY <2>1 DEF RequestLeadsTo
    <3>2. RequestLeadsTo(d)' =
            IF Tail(rs) = <<>> THEN Head(rs).email ELSE Last(Tail(rs)).email
      BY <2>3, <2>4 DEF RequestLeadsTo
    <3> HIDE DEF rs
    <3>3. /\ Tail(rs) = <<>> => Last(rs) = Head(rs)
          /\ Tail(rs) # <<>> => Last(Tail(rs)) = Last(rs)
      BY <2>1, LastOfTail
    <3> QED
      BY <3>1, <3>2, <3>3
  <2>6. WriteLeadsTo(d)' = WriteLeadsTo(d)
    BY <2>3 DEF WriteLeadsTo
  <2>7. ~strayed => Alone(d) /\ LastApplied /\ Agreement
    BY <2>1 DEF Inv, InStep, OneSaver, Saving
  <2>8. \A other \in Devices \ {d} :
          queue'[other] = queue[other] /\ requests'[other] = requests[other]
    BY <2>1, <2>2, <2>3
  <2>9. ~strayed' /\ document' # NoDoc => Agreed(d)'
    BY <2>3, <2>5, <2>6, <2>7 DEF Agreement, Agreed
  <2>10. ~strayed' /\ document' # NoDoc /\ queue'[d] # <<>> /\ Last(queue'[d]).applied
           => document' = Last(queue'[d]).to
    BY <2>3, <2>7 DEF LastApplied
  <2> QED
    BY <2>3, <2>7, <2>8, <2>9, <2>10, StepOfOne
<1>2. CASE EmailChangedUnheard(d) \/ EmailRefused(d)
  BY <1>2 DEF EmailChangedUnheard, EmailRefused, InStep
<1>3. CASE ResetAnswered(d)
  <2>1. UNCHANGED <<document, account, queue, requests, lastSaved, strayed>>
    BY <1>3 DEF ResetAnswered, Edit, Quiet
  <2> QED
    BY <2>1, Unmoved DEF Inv
<1> QED
  BY <1>1, <1>2, <1>3 DEF AuthStep

LEMMA FirestoreInStep ==
  ASSUME Inv, NEW d \in Devices, FirestoreStep(d)
  PROVE  InStep'
<1>0. queue \in [Devices -> Seq(Write)] /\ queue[d] \in Seq(Write)
  BY DEF Inv, TypeOK
<1>1. CASE LabelSnapshot(d) \/ FieldsSnapshot(d)
  <2>1. UNCHANGED <<document, account, queue, requests, lastSaved, strayed>>
    BY <1>1 DEF LabelSnapshot, FieldsSnapshot
  <2> QED
    BY <2>1, Unmoved DEF Inv
<1>2. ASSUME NEW k \in DOMAIN queue[d], Apply(d, k) PROVE InStep'
  <2>1. /\ queue' = [queue EXCEPT ![d] = Marked(queue[d], k)]
        /\ document # NoDoc /\ document' = queue[d][k].to
        /\ UNCHANGED <<account, requests, lastSaved, strayed>>
    BY <1>2 DEF Apply, Marked
  <2>2. queue'[d] = Marked(queue[d], k)
    BY <1>0, <2>1
  <2>3. /\ queue'[d] # <<>> /\ queue[d] # <<>>
        /\ Last(queue'[d]).to = Last(queue[d]).to
        /\ Last(queue'[d]).applied => document' = Last(queue'[d]).to
    BY <1>0, <1>2, <2>1, <2>2, MarkedLast
  <2>4. ~strayed => Alone(d) /\ Agreement
    BY <2>3 DEF Inv, InStep, OneSaver, Saving
  <2>5. WriteLeadsTo(d)' = WriteLeadsTo(d) /\ RequestLeadsTo(d)' = RequestLeadsTo(d)
    BY <2>1, <2>3 DEF WriteLeadsTo, RequestLeadsTo
  <2>6. ~strayed' => Agreed(d)'
    BY <2>1, <2>4, <2>5 DEF Agreement, Agreed
  <2>7. \A other \in Devices \ {d} :
          queue'[other] = queue[other] /\ requests'[other] = requests[other]
    BY <1>0, <2>1
  <2> QED
    BY <2>1, <2>3, <2>4, <2>6, <2>7, StepOfOne
<1>3. CASE Acknowledge(d)
  <2> DEFINE q == queue[d]
  <2>1. /\ q # <<>> /\ queue' = [queue EXCEPT ![d] = Tail(q)] /\ Head(q).applied
        /\ UNCHANGED <<document, account, requests, lastSaved, strayed>>
    BY <1>3 DEF Acknowledge, Dequeue
  <2>2. queue'[d] = Tail(q)
    BY <1>0, <2>1
  <2>3. /\ Tail(q) = <<>> => Last(q) = Head(q)
        /\ Tail(q) # <<>> => Last(Tail(q)) = Last(q)
    BY <1>0, <2>1, LastOfTail
  <2>4. ~strayed => Alone(d) /\ Agreement /\ LastApplied
    BY <2>1 DEF Inv, InStep, OneSaver, Saving
  <2>5. RequestLeadsTo(d)' = RequestLeadsTo(d)
    BY <2>1 DEF RequestLeadsTo
  <2>6. ~strayed /\ document # NoDoc => WriteLeadsTo(d)' = WriteLeadsTo(d)
    <3> SUFFICES ASSUME ~strayed, document # NoDoc
                 PROVE  WriteLeadsTo(d)' = WriteLeadsTo(d)
      OBVIOUS
    <3>1. WriteLeadsTo(d) = Last(q).to
      BY <2>1 DEF WriteLeadsTo
    <3>2. CASE Tail(q) = <<>>
      <4>1. document = Last(q).to
        BY <2>1, <2>3, <2>4, <3>2 DEF LastApplied
      <4> QED
        BY <2>1, <2>2, <3>1, <3>2, <4>1 DEF WriteLeadsTo
    <3>3. CASE Tail(q) # <<>>
      BY <2>2, <2>3, <3>1, <3>3 DEF WriteLeadsTo
    <3> QED
      BY <3>2, <3>3
  <2>7. ~strayed' /\ document' # NoDoc => Agreed(d)'
    BY <2>1, <2>4, <2>5, <2>6 DEF Agreement, Agreed
  <2>8. ~strayed' /\ document' # NoDoc /\ queue'[d] # <<>> /\ Last(queue'[d]).applied
          => document' = Last(queue'[d]).to
    BY <2>1, <2>2, <2>3, <2>4 DEF LastApplied
  <2>9. \A other \in Devices \ {d} :
          queue'[other] = queue[other] /\ requests'[other] = requests[other]
    BY <1>0, <2>1
  <2> QED
    BY <2>1, <2>4, <2>7, <2>8, <2>9, StepOfOne
<1>4. CASE Refuse(d)
  BY <1>4 DEF Refuse, InStep
<1> QED
  BY <1>1, <1>2, <1>3, <1>4 DEF FirestoreStep

\* A process that ends takes no request with it, or the step is on record.
LEMMA KillInStep ==
  ASSUME Inv, NEW d \in Devices, Kill(d)
  PROVE  InStep'
<1>1. CASE requests[d] # <<>>
  BY <1>1 DEF Kill, InStep
<1>2. CASE requests[d] = <<>>
  <2>1. requests \in [Devices -> Seq(Request)]
    BY DEF Inv, TypeOK
  <2>2. \A e \in Devices : requests'[e] = requests[e]
    BY <1>2, <2>1 DEF Kill
  <2>3. UNCHANGED <<document, account, queue, lastSaved>>
    BY DEF Kill
  <2>4. strayed' = strayed
    BY <1>2 DEF Kill, Inv, TypeOK
  <2> QED
    BY <2>2, <2>3, <2>4, Unmoved DEF Inv
<1> QED
  BY <1>1, <1>2

LEMMA NextInv == Inv /\ [Next]_vars => Inv'
<1> SUFFICES ASSUME Inv, [Next]_vars PROVE Inv'
  OBVIOUS
<1>1. TypeOK'
  BY NextType DEF Inv
<1>2. CASE UNCHANGED vars
  <2>1. UNCHANGED <<document, account, queue, requests, lastSaved, strayed>>
    BY <1>2 DEF vars
  <2> QED
    BY <1>1, <2>1, Unmoved DEF Inv
<1>3. ASSUME NEW d \in Devices, UserStep(d) \/ AuthStep(d) \/ FirestoreStep(d) \/ Kill(d)
      PROVE  InStep'
  BY <1>3, UserInStep, AuthInStep, FirestoreInStep, KillInStep
<1> QED
  BY <1>1, <1>2, <1>3 DEF Inv, Next

-----------------------------------------------------------------------------
\* Every variable keeps its type, whatever devices save and however often they are
\* restarted; in particular saveBtnTapped never stores an empty name or address.
THEOREM TypesHold == Spec => []TypeOK
<1> QED
  BY InitType, NextType, PTL DEF Spec

\* saveBtnTapped's two halves leave the same address behind, and that of the last tap,
\* however many saves of a device overlap, for any number of devices that read or
\* save in turn.
THEOREM EmailsAgreeHolds == Spec => []EmailsAgree
<1>1. Init => Inv
  BY InitType, InitInStep DEF Inv
<1>2. Inv => EmailsAgree
  <2> SUFFICES ASSUME Inv, ~strayed, document # NoDoc, \A d \in Devices : ~Saving(d)
               PROVE  /\ document.email = account
                      /\ lastSaved # NoDoc => document = lastSaved
    BY DEF EmailsAgree
  <2>1. Agreement
    BY DEF Inv, InStep
  <2>2. ASSUME NEW d \in Devices
        PROVE  document.email = account /\ (lastSaved # NoDoc => document = lastSaved)
    <3>1. Alone(d) /\ queue[d] = <<>> /\ requests[d] = <<>>
      BY DEF Alone, Saving
    <3> QED
      BY <2>1, <3>1 DEF Agreement, Agreed, WriteLeadsTo, RequestLeadsTo
  <2> QED
    BY <2>2, ProfileAssumption
<1> QED
  BY <1>1, <1>2, NextInv, PTL DEF Spec
=============================================================================
