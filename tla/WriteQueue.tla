----------------------------- MODULE WriteQueue -----------------------------
(***************************************************************************)
(* What Firestore promises of the writes of a device: each account has a   *)
(* queue that survives restarts, the server applies its writes in order,   *)
(* though it may go back to the first ones, and a write leaves the queue   *)
(* from the front, once the server has taken it or has turned it down.     *)
(* All the writes of one account set the same document, and are numbered   *)
(* in the order in which they are made.                                    *)
(***************************************************************************)
EXTENDS Naturals, Sequences

CONSTANTS
  Users,     \* the accounts, signed out among them
  MaxWrites  \* bound on the writes that are made

VARIABLES
  made,      \* how many writes were made
  queue,     \* the writes of each account that are not answered yet
  document,  \* the last write of each account that the server applied
  answers    \* what the application was told of its writes

vars == <<made, queue, document, answers>>

Writes == 1..MaxWrites

\* again: it had been told of the write before.
Told(u, w, outcome) ==
  [user |-> u, write |-> w, outcome |-> outcome, again |-> \E a \in answers : a.write = w]

Init ==
  /\ made = 0
  /\ queue = [u \in Users |-> <<>>]
  /\ document = [u \in Users |-> 0]
  /\ answers = {}

Enqueue(u) ==
  /\ made < MaxWrites
  /\ made' = made + 1
  /\ queue' = [queue EXCEPT ![u] = Append(@, made + 1)]
  /\ UNCHANGED <<document, answers>>

\* The server applies the first write, or the one after what it applied last
\* or after an earlier one.
Apply(u, k) ==
  /\ k > 1 => document[u] >= queue[u][k - 1]
  /\ document' = [document EXCEPT ![u] = queue[u][k]]
  /\ UNCHANGED <<made, queue, answers>>

FirstIsApplied(u) == queue[u] # <<>> /\ document[u] >= Head(queue[u])

\* A write that was restored after a restart has nobody to tell.
Leave(u, outcome) ==
  /\ queue' = [queue EXCEPT ![u] = Tail(@)]
  /\ answers' \in {answers, answers \cup {Told(u, Head(queue[u]), outcome)}}
  /\ UNCHANGED <<made, document>>

Acknowledge(u) == FirstIsApplied(u) /\ Leave(u, "done")

\* The application hears of it, and the process ends before the queue does.
AnnounceEarly(u) ==
  /\ FirstIsApplied(u)
  /\ answers' = answers \cup {Told(u, Head(queue[u]), "done")}
  /\ UNCHANGED <<made, queue, document>>

Refuse(u) == queue[u] # <<>> /\ Leave(u, "refused")

Next ==
  \E u \in Users :
    \/ Enqueue(u)
    \/ \E k \in 1..Len(queue[u]) : Apply(u, k)
    \/ Acknowledge(u)
    \/ AnnounceEarly(u)
    \/ Refuse(u)

Spec == Init /\ [][Next]_vars

-----------------------------------------------------------------------------
\* What the application was told is done is not overwritten by an earlier
\* write of the account that is sent again.
DoneStaysDone ==
  \A a \in answers : a.outcome = "done" => document[a.user] >= a.write

=============================================================================
