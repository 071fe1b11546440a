------------------------ MODULE AnnouncementLives ------------------------
(***************************************************************************)
(* What its owner is promised of an announcement.                          *)
(*                                                                         *)
(* It is made, changed or deleted only as somebody who is signed in to the *)
(* owner's account has ordered.  Each order is carried out, perhaps more   *)
(* than once, or given up.  A deleted announcement can come back only      *)
(* while the order that made it is not settled, and that order is given    *)
(* once.  A device that reports a deletion had the order for it; by then   *)
(* the announcement is gone, or another device has made it once more.      *)
(***************************************************************************)
CONSTANTS
  Devices,
  Account,    \* Account[d]: who is signed in on device d
  Ids,
  Owner,      \* Owner[i]: the account that publishes i
  Texts,
  NoDoc       \* there is no document with this id

VARIABLES
  board,      \* the announcements anyone can read
  posted,     \* the ids that have been on the board
  drawn,      \* the announcements each device has ordered to be made
  revived,    \* those that have been made once more and not deleted since
  orders,     \* the orders of each device that are not settled
  reported    \* the deletion a device reports, if any

vars == <<board, posted, drawn, revived, orders, reported>>

Order == [op : {"create", "update", "delete"}, id : Ids, text : Texts]

Init ==
  /\ board = [i \in Ids |-> NoDoc]
  /\ posted = {}
  /\ drawn = [d \in Devices |-> {}]
  /\ revived = {}
  /\ orders = [d \in Devices |-> {}]
  /\ reported = [d \in Devices |-> {}]

\* The order that makes an announcement.
Announce(d, i, x) ==
  /\ \A e \in Devices : i \notin drawn[e]
  /\ Owner[i] = Account[d]
  /\ drawn' = [drawn EXCEPT ![d] = @ \cup {i}]
  /\ orders' = [orders EXCEPT ![d] = @ \cup {[op |-> "create", id |-> i, text |-> x]}]
  /\ UNCHANGED <<board, posted, revived, reported>>

\* The owner orders a change of something that has been made.
Request(d, o) ==
  /\ o.op \in {"update", "delete"}
  /\ o.id \in posted \cup drawn[d]
  /\ Owner[o.id] = Account[d]
  /\ orders' = [orders EXCEPT ![d] = @ \cup {o}]
  /\ UNCHANGED <<board, posted, drawn, revived, reported>>

Make(o) ==
  /\ o.op = "create"
  /\ board' = [board EXCEPT ![o.id] = [owner |-> Owner[o.id], text |-> o.text]]
  /\ posted' = posted \cup {o.id}
  /\ revived' = IF o.id \in posted /\ board[o.id] = NoDoc THEN revived \cup {o.id} ELSE revived

Change(o) ==
  /\ o.op = "update"
  /\ board[o.id] # NoDoc
  /\ board' = [board EXCEPT ![o.id].text = o.text]
  /\ UNCHANGED <<posted, revived>>

Remove(o) ==
  /\ o.op = "delete"
  /\ board' = [board EXCEPT ![o.id] = NoDoc]
  /\ revived' = revived \ {o.id}
  /\ UNCHANGED posted

CarryOut(d, o) ==
  /\ Make(o) \/ Change(o) \/ Remove(o)
  /\ UNCHANGED <<drawn, orders, reported>>

\* The same change may have been ordered twice.
Settle(d, o) ==
  /\ \/ orders' = [orders EXCEPT ![d] = @ \ {o}]
     \/ o.op # "create" /\ UNCHANGED orders
  /\ \/ UNCHANGED reported
     \/ /\ o.op = "delete"
        /\ board[o.id] = NoDoc \/ (o.id \in revived /\ o.id \notin drawn[d])
        /\ reported' = [reported EXCEPT ![d] = {o.id}]
  /\ UNCHANGED <<board, posted, drawn, revived>>

\* The report is closed, or its process ends.
Dismiss(d) ==
  /\ reported' = [reported EXCEPT ![d] = {}]
  /\ UNCHANGED <<board, posted, drawn, revived, orders>>

Next ==
  \E d \in Devices :
    \/ \E i \in Ids, x \in Texts : Announce(d, i, x)
    \/ \E o \in Order : Request(d, o)
    \/ \E o \in orders[d] : CarryOut(d, o) \/ Settle(d, o)
    \/ Dismiss(d)

Spec == Init /\ [][Next]_vars
=============================================================================
