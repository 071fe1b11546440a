------------------------------- MODULE Feeds -------------------------------
(***************************************************************************)
(* The two lists anyone reads, MissingPetsVC and FoundPetsVC, with the     *)
(* queries of Service behind them and the sheet AboutPetController in      *)
(* front, on one device, while other devices change the board.             *)
(*                                                                         *)
(* A query fixes the documents at some moment; its answer waits for the    *)
(* main queue, which downloads the photos one after the other, and only    *)
(* then replaces the rows.  Answers to several refreshes can be under way  *)
(* at once, and outlive the screen that asked.                             *)
(*                                                                         *)
(* Offline, a query is answered from the cache, which all queries of the   *)
(* device share and fill document by document: what it holds was together  *)
(* on the board at no moment, perhaps.                                     *)
(*                                                                         *)
(* Ids are the dates of the announcements: ids and dates are both given    *)
(* when the announcement is made, not when it arrives on the board.  No    *)
(* write of the device's own is under way while a list is fetched.         *)
(***************************************************************************)
EXTENDS Naturals, Sequences, FiniteSets, SequencesExt

CONSTANTS
  Ids, Texts,
  NoDoc,        \* there is no document with this id
  Closed,       \* a screen that is not open
  MaxMoments,   \* bound: the states the board goes through
  MaxAsks       \* bound: the refreshes that are not finished

ASSUME FeedsAssumption ==
  /\ Ids \subseteq Nat /\ IsFiniteSet(Ids)
  /\ MaxMoments \in Nat \ {0}
  /\ MaxAsks \in Nat

VARIABLES
  past,      \* the states of "Missing Animals" on the server, the last one current;
             \* in the first it is empty
  cached,    \* the document cache (on disk): the moment each document is from; an
             \* empty cache is the board of the first moment
  asks,      \* the queries under way of each list: is the screen that asked alive
  answers,   \* the answers in the main queue
  rows,      \* the rows of each list
  source,    \* where they are from (history)
  seen,      \* the latest moment from which its list has shown each document, or
             \* shown that there is none (history)
  about,     \* AboutPetController is in front
  crashes    \* the list whose answer has ended the last process (history)

vars == <<past, cached, asks, answers, rows, source, seen, about, crashes>>

-----------------------------------------------------------------------------
Lists == {"missing", "founded"}

Document == [status : Lists, text : Texts]

Board == [Ids -> Document \cup {NoDoc}]

Moments == DOMAIN past

Now == Len(past)

Row == [id : Ids, text : Texts, photo : {"own", "icon"}]

\* For every document, the moment it is from.
Vintage == [Ids -> Nat]

Sources == {"server", "cache"}

Answer == [list : Lists, at : Vintage, source : Sources, live : BOOLEAN]

\* A screen that is not open is told from every list of rows.
ASSUME ClosedAssumption ==
  Closed \notin Seq(Row) \cup Seq([id : Ids, text : Texts])

Init ==
  /\ past = <<[i \in Ids |-> NoDoc]>>
  /\ cached = [i \in Ids |-> 1]
  /\ asks = [l \in Lists |-> <<>>]
  /\ answers = <<>>
  /\ rows = [l \in Lists |-> Closed]
  /\ source = [l \in Lists |-> "none"]
  /\ seen = [i \in Ids |-> 1]
  /\ about = FALSE
  /\ crashes = {}

-----------------------------------------------------------------------------
\* Each document as it was at its own moment.
Docs(at) == [i \in Ids |-> past[at[i]][i]]

Everywhere(t) == [i \in Ids |-> t]

\* The documents of a query, as a set and in its order: by date, newest first.
Matching(docs, l) == {i \in Ids : docs[i] # NoDoc /\ docs[i].status = l}

\* The announcements of list l, at any moment: they keep their status.
Listed(l) == UNION {Matching(past[t], l) : t \in Moments}

\* Fault: descending: false.
OldestFirst(docs, l) == SetToSortSeq(Matching(docs, l), <)

Listing(docs, l) ==
  LET ids == Matching(docs, l) IN
  CHOOSE q \in [1..Cardinality(ids) -> ids] : \A j, k \in DOMAIN q : j < k => q[j] > q[k]

(***************************************************************************)
(* Other devices.                                                          *)
(***************************************************************************)
\* The board changes, and the device does not hear of it.
Becomes(docs) ==
  /\ Now < MaxMoments
  /\ past' = Append(past, docs)
  /\ UNCHANGED <<cached, asks, answers, rows, source, seen, about, crashes>>

\* addDocument, or its set sent again when the announcement has been deleted.
Post(i, s, x) ==
  LET before == {t \in Moments : past[t][i] # NoDoc} IN
  /\ past[Now][i] = NoDoc
  /\ before # {} =>
       \E t \in before : /\ \A u \in before : t <= u
                        /\ past[t][i] = [status |-> s, text |-> x]
  /\ Becomes([past[Now] EXCEPT ![i] = [status |-> s, text |-> x]])

Update(i, x) ==
  /\ past[Now][i] # NoDoc
  /\ past[Now][i].text # x
  /\ Becomes([past[Now] EXCEPT ![i].text = x])

Delete(i) ==
  /\ past[Now][i] # NoDoc
  /\ Becomes([past[Now] EXCEPT ![i] = NoDoc])

-----------------------------------------------------------------------------
(***************************************************************************)
(* The user.                                                               *)
(***************************************************************************)
Ask(l) ==
  /\ Len(asks["missing"]) + Len(asks["founded"]) + Len(answers) < MaxAsks
  /\ asks' = [asks EXCEPT ![l] = Append(@, TRUE)]

\* The tab is selected for the first time: viewDidLoad fetches.
OpenList(l) ==
  /\ ~about
  /\ rows[l] = Closed
  /\ Ask(l)
  /\ rows' = [rows EXCEPT ![l] = <<>>]
  /\ source' = [source EXCEPT ![l] = "none"]
  /\ crashes' = {}
  /\ UNCHANGED <<past, cached, answers, seen, about>>

\* Pull to refresh: the spinner does not wait for the answer.
Refresh(l) ==
  /\ ~about
  /\ rows[l] # Closed
  /\ Ask(l)
  /\ UNCHANGED <<past, cached, answers, rows, source, seen, about, crashes>>

\* didSelectRowAt: the sheet gets a copy of the row, and no later answer changes it.
SelectRow(l) ==
  /\ ~about
  /\ rows[l] \notin {Closed, <<>>}
  /\ about' = TRUE
  /\ UNCHANGED <<past, cached, asks, answers, rows, source, seen, crashes>>

\* "Назад"
CloseAbout ==
  /\ about
  /\ about' = FALSE
  /\ UNCHANGED <<past, cached, asks, answers, rows, source, seen, crashes>>

-----------------------------------------------------------------------------
(***************************************************************************)
(* Firestore: the queries of one list are one target, and answered in the  *)
(* order they are made.                                                    *)
(***************************************************************************)
Respond(l, at, src) ==
  /\ asks[l] # <<>>
  /\ answers' = Append(answers,
       [list |-> l, at |-> at, source |-> src, live |-> Head(asks[l])])
  /\ asks' = [asks EXCEPT ![l] = Tail(@)]
  /\ UNCHANGED <<past, rows, source, seen, about, crashes>>

\* Fault: what the cache has and the server does not send is left in the cache.
AdditiveFetch(l) ==
  /\ Respond(l, Everywhere(Now), "server")
  /\ cached' = [i \in Ids |-> IF i \in Matching(past[Now], l) THEN Now ELSE cached[i]]

\* The server sends what matches.  What matches in the cache only is looked up before
\* the query is answered (limbo documents).
Fetch(l) ==
  LET learned == Matching(past[Now], l) \cup Matching(Docs(cached), l) IN
  /\ Respond(l, Everywhere(Now), "server")
  /\ cached' = [i \in Ids |-> IF i \in learned THEN Now ELSE cached[i]]

\* Offline: what matches in the cache, nothing if it is empty, and no error either.
FetchCached(l) ==
  /\ Respond(l, cached, "cache")
  /\ UNCHANGED cached

\* Another query of the device brings a document up to date: getMyPetsData, the
\* editor's listener, the acknowledgement of a write of its own.
Learn(i) ==
  /\ cached[i] # Now
  /\ cached' = [cached EXCEPT ![i] = Now]
  /\ UNCHANGED <<past, asks, answers, rows, source, seen, about, crashes>>

\* err # nil: the completion is never called and the rows stay as they are.
FetchFailed(l) ==
  /\ asks[l] # <<>>
  /\ asks' = [asks EXCEPT ![l] = Tail(@)]
  /\ UNCHANGED <<past, cached, answers, rows, source, seen, about, crashes>>

-----------------------------------------------------------------------------
(***************************************************************************)
(* The main queue.  broken: the documents whose photo does not arrive, or  *)
(* is no image.                                                            *)
(***************************************************************************)
\* Fault: no image to fall back on.
BlankPhoto(i, broken) == IF i \in broken THEN "none" ELSE "own"

\* UIImage(data:) ?? UIImage(named: "AppIcon")!
Photo(i, broken) == IF i \in broken THEN "icon" ELSE "own"

RowsOf(a, broken) ==
  LET docs == Docs(a.at)  ids == Listing(docs, a.list) IN
  [k \in DOMAIN ids |->
     [id |-> ids[k], text |-> docs[ids[k]].text, photo |-> Photo(ids[k], broken)]]

Ends ==
  /\ asks' = [l \in Lists |-> <<>>]
  /\ answers' = <<>>
  /\ rows' = [l \in Lists |-> Closed]
  /\ source' = [l \in Lists |-> "none"]
  /\ about' = FALSE
  /\ UNCHANGED <<past, cached, seen>>

\* UIImage(data: imgData)!, in the list of found pets only.
Unwraps(a, broken) == a.list = "founded" /\ broken # {}

Crash(broken) ==
  /\ answers # <<>>
  /\ broken \subseteq Matching(Docs(Head(answers).at), Head(answers).list)
  /\ Unwraps(Head(answers), broken)
  /\ Ends
  /\ crashes' = {Head(answers).list}

\* The k-th answer replaces the rows of the screen that asked.
Deliver(k, broken) ==
  LET a == answers[k] IN
  /\ broken \subseteq Matching(Docs(a.at), a.list)
  /\ ~Unwraps(a, broken)
  /\ answers' = RemoveAt(answers, k)
  /\ IF a.live
       THEN /\ rows' = [rows EXCEPT ![a.list] = RowsOf(a, broken)]
            /\ source' = [source EXCEPT ![a.list] = a.source]
            /\ seen' = [i \in Ids |->
                 IF i \in Listed(a.list) /\ seen[i] < a.at[i] THEN a.at[i] ELSE seen[i]]
       ELSE UNCHANGED <<rows, source, seen>>
  /\ UNCHANGED <<past, cached, asks, about, crashes>>

\* Fault: the photos are downloaded off the main queue.
ShowOvertaking(broken) == \E k \in DOMAIN answers : Deliver(k, broken)

\* The photos are downloaded on the main queue, which waits for them.
Show(broken) == answers # <<>> /\ Deliver(1, broken)

Kill == Ends /\ UNCHANGED crashes

\* Fault: the answers find the new screens, open or not.
SharedReplaceWindow ==
  /\ about' = FALSE
  /\ rows' = [l \in Lists |-> Closed]
  /\ source' = [l \in Lists |-> "none"]
  /\ UNCHANGED <<past, cached, asks, answers, seen, crashes>>

\* The user changes, and SceneDelegate makes a new tab bar.  The old screens get
\* their answers all the same.
ReplaceWindow ==
  /\ about' = FALSE
  /\ rows' = [l \in Lists |-> Closed]
  /\ asks' = [l \in Lists |-> [k \in DOMAIN asks[l] |-> FALSE]]
  /\ answers' = [k \in DOMAIN answers |-> [answers[k] EXCEPT !.live = FALSE]]
  /\ source' = [l \in Lists |-> "none"]
  /\ UNCHANGED <<past, cached, seen, crashes>>

-----------------------------------------------------------------------------
BoardStep ==
  \E i \in Ids :
    \/ \E x \in Texts : Update(i, x) \/ \E s \in Lists : Post(i, s, x)
    \/ Delete(i)

UserStep ==
  \/ \E l \in Lists : OpenList(l) \/ Refresh(l) \/ SelectRow(l)
  \/ CloseAbout

NetworkStep ==
  \/ \E l \in Lists : Fetch(l) \/ FetchCached(l) \/ FetchFailed(l)
  \/ \E i \in Ids : Learn(i)

MainStep ==
  \/ \E broken \in SUBSET Ids : Show(broken) \/ Crash(broken)
  \/ ReplaceWindow

Next == BoardStep \/ UserStep \/ NetworkStep \/ MainStep \/ Kill

Spec == Init /\ [][Next]_vars

-----------------------------------------------------------------------------
\* Every variable has its type; in particular every row has a photo.
TypeOK ==
  /\ past \in Seq(Board)
  /\ cached \in [Ids -> Moments]
  /\ asks \in [Lists -> Seq(BOOLEAN)]
  /\ answers \in Seq(Answer)
  /\ rows \in [Lists -> Seq(Row) \cup {Closed}]
  /\ source \in [Lists -> Sources \cup {"none"}]
  /\ seen \in [Ids -> Moments]
  /\ about \in BOOLEAN
  /\ crashes \subseteq Lists

\* These rows are what docs has for list l, in order.
Shows(rs, docs, l) ==
  /\ {rs[k].id : k \in DOMAIN rs} = Matching(docs, l)
  /\ \A k \in DOMAIN rs :
       /\ rs[k].text = docs[rs[k].id].text
       /\ \A j \in 1..(k - 1) : rs[j].id > rs[k].id

\* A list that has been filled (getMissingPetsData, getFoundedPetsData) shows every
\* announcement of its status once, newest first, each as it was at the latest moment
\* from which the list has ever shown it or shown it gone: neither an answer that was
\* overtaken, nor the cache, nor a restart takes it back.  If the server has answered,
\* it is the board of one moment.
LatestOfEach ==
  \A l \in Lists : source[l] # "none" =>
    /\ Shows(rows[l], Docs(seen), l)
    /\ source[l] = "server" => \E t \in Moments : Shows(rows[l], past[t], l)

\* A photo that does not arrive never ends the process from the list of found pets
\* (Service.getFoundedPetsData), as it never does from that of missing pets, which
\* falls back on the application's icon.
PhotoToUnwrap == "founded" \notin crashes

\* Without photos, cells, cache and queues under way, the lists are what a reader of
\* the board is promised: one moment each, or one for each announcement when there is
\* no network, none of which ever goes back, and nothing appears on a screen that is
\* closed.
Reader ==
  INSTANCE BoardReader WITH
    screen <- [l \in Lists |->
      IF rows[l] = Closed THEN Closed
      ELSE [k \in DOMAIN rows[l] |-> [id |-> rows[l][k].id, text |-> rows[l][k].text]]]

ImplementsReader == Reader!Spec
=============================================================================
