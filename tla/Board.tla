------------------------------- MODULE Board -------------------------------
(***************************************************************************)
(* What the announcement board promises to the person who publishes.       *)
(*                                                                         *)
(* A submission fixes, once and for all, who submits, what the form says   *)
(* and which photo is chosen.  Later it is either posted, exactly once and *)
(* with those three values, or dropped, and then it is never posted.  The  *)
(* status under which it is posted (missing or founded) is the only thing  *)
(* left open: the code chooses it when the photo has been uploaded, not    *)
(* when the button is tapped.                                              *)
(***************************************************************************)
CONSTANTS Users, Contents, Photos, Statuses, Taps

VARIABLES submission,   \* submission[t]: what tap t asked for and how it fared
          posted        \* the announcements anyone can read

vars == <<submission, posted>>

NoSubmission == [state |-> "none"]

Submission ==
  [state : {"open", "posted", "dropped"},
   by : Users, content : Contents, photo : Photos]

Announcement ==
  [tap : Taps, owner : Users, content : Contents, photo : Photos,
   status : Statuses]

TypeOK == /\ submission \in [Taps -> Submission \cup {NoSubmission}]
          /\ posted \subseteq Announcement

Init == /\ submission = [t \in Taps |-> NoSubmission]
        /\ posted = {}

\* A submission may be dropped as soon as it is made.
Submit(t) ==
  /\ submission[t] = NoSubmission
  /\ \E u \in Users, c \in Contents, p \in Photos, s \in {"open", "dropped"} :
       submission' = [submission EXCEPT ![t] =
         [state |-> s, by |-> u, content |-> c, photo |-> p]]
  /\ UNCHANGED posted

Post(t) ==
  /\ submission[t].state = "open"
  /\ submission' = [submission EXCEPT ![t].state = "posted"]
  /\ \E s \in Statuses :
       posted' = posted \cup
         {[tap |-> t, owner |-> submission[t].by,
           content |-> submission[t].content,
           photo |-> submission[t].photo, status |-> s]}

\* One crash may drop several submissions at once.
Drop(S) ==
  /\ \A t \in S : submission[t].state = "open"
  /\ submission' = [t \in Taps |->
       IF t \in S THEN [submission[t] EXCEPT !.state = "dropped"]
                  ELSE submission[t]]
  /\ UNCHANGED posted

Next == \/ \E t \in Taps : Submit(t) \/ Post(t)
        \/ \E S \in SUBSET Taps : Drop(S)

Spec == Init /\ [][Next]_vars
=============================================================================
