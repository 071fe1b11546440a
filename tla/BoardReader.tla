---------------------------- MODULE BoardReader ----------------------------
(***************************************************************************)
(* What the two public lists promise to the person who reads them.         *)
(*                                                                         *)
(* The board goes from one moment to the next, an announcement at a time.  *)
(* A list is closed, or open and empty, or it shows the announcements of   *)
(* its status, newest first: as they were at one moment if the server was  *)
(* asked, each as it was at a moment of its own if it could not be.        *)
(* Whatever it has shown of an announcement, it never shows it as it was   *)
(* before that, not even after it was closed.                              *)
(***************************************************************************)
EXTENDS Naturals, Sequences

CONSTANTS
  Ids, Texts, Lists,
  NoDoc,     \* there is no document with this id
  Closed     \* a list that is not open

VARIABLES
  past,      \* the states of the board, the last one current
  screen,    \* what each list shows
  source,    \* who has answered: "none", the "server" or the "cache"
  seen       \* the moment each announcement was shown at last

vars == <<past, screen, source, seen>>

Document == [status : Lists, text : Texts]

Empty == [i \in Ids |-> NoDoc]

Init ==
  /\ past = <<Empty>>
  /\ screen = [l \in Lists |-> Closed]
  /\ source = [l \in Lists |-> "none"]
  /\ seen = [i \in Ids |-> 1]

\* An announcement keeps its status and may be deleted; if it comes back, it is as it
\* was posted first.
Change(i, doc) ==
  LET now == past[Len(past)]
      before == {t \in DOMAIN past : past[t][i] # NoDoc}
  IN
  /\ IF now[i] = NoDoc
       THEN before # {} =>
              \E t \in before : /\ \A u \in before : t <= u
                               /\ past[t][i] = doc
       ELSE doc # NoDoc => doc.status = now[i].status
  /\ past' = Append(past, [now EXCEPT ![i] = doc])
  /\ UNCHANGED <<screen, source, seen>>

Open(l) ==
  /\ screen[l] = Closed
  /\ screen' = [screen EXCEPT ![l] = <<>>]
  /\ source' = [source EXCEPT ![l] = "none"]
  /\ UNCHANGED <<past, seen>>

IsListing(entries, docs, l) ==
  /\ {entries[k].id : k \in DOMAIN entries} =
       {i \in Ids : docs[i] # NoDoc /\ docs[i].status = l}
  /\ \A k \in DOMAIN entries :
       /\ entries[k].text = docs[entries[k].id].text
       /\ \A j \in 1..(k - 1) : entries[j].id > entries[k].id

\* An open list shows each of its announcements at a moment that is no earlier than
\* what it has shown of it, and all at the same one if the server has answered.
Show(l, src) ==
  LET mine == {i \in Ids : \E t \in DOMAIN past : past[t][i] # NoDoc /\ past[t][i].status = l}
  IN
  /\ screen[l] # Closed /\ screen'[l] # Closed
  /\ seen' \in [Ids -> DOMAIN past]
  /\ \A i \in Ids : IF i \in mine THEN seen[i] <= seen'[i] ELSE seen[i] = seen'[i]
  /\ src = "server" => \E t \in DOMAIN past : \A i \in mine : seen'[i] = t
  /\ IsListing(screen'[l], [i \in Ids |-> past[seen'[i]][i]], l)
  /\ screen' = [screen EXCEPT ![l] = screen'[l]]
  /\ source' = [source EXCEPT ![l] = src]
  /\ UNCHANGED past

\* Another user, or the end of the process.
CloseAll ==
  /\ screen' = [l \in Lists |-> Closed]
  /\ source' = [l \in Lists |-> "none"]
  /\ UNCHANGED <<past, seen>>

Next ==
  \/ \E i \in Ids : \E doc \in Document \cup {NoDoc} : Change(i, doc)
  \/ \E l \in Lists :
       \/ Open(l)
       \/ \E src \in {"server", "cache"} : Show(l, src)
  \/ CloseAll

Spec == Init /\ [][Next]_vars
=============================================================================
