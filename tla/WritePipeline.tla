--------------------------- MODULE WritePipeline ---------------------------
(***************************************************************************)
(* How Firestore carries the writes of a device to the server: the write   *)
(* side of SyncEngine, LocalStore with its persistent mutation queue,      *)
(* RemoteStore with its write pipeline, the write stream, and the          *)
(* credentials the stream is opened with.                                  *)
(*                                                                         *)
(* Everything but Firebase Auth and the server runs on one worker queue,   *)
(* a task at a time, but what a task waits for may be overtaken: a token   *)
(* is asked for in one task and used in a later one, the user changes in   *)
(* Firebase Auth first and on the worker queue later, and a connection may *)
(* break with writes on it of which nobody knows whether they arrived.     *)
(***************************************************************************)
EXTENDS Naturals, Sequences, FiniteSets, SequencesExt

CONSTANTS
  Users,       \* the accounts, User::Unauthenticated() among them
  MaxPending,  \* kMaxPendingWrites
  MaxWrites,   \* bound on the writes that are made
  MaxWaits,    \* bound on the calls of waitForPendingWrites
  MaxFaults    \* bound on what disturbs a connection

ASSUME WritePipelineAssumption ==
  /\ MaxPending \in Nat \ {0}
  /\ {MaxWrites, MaxWaits, MaxFaults} \subseteq Nat

VARIABLES
  \* Firebase Auth and the credentials provider
  auth,       \* the current user of Firebase Auth
  notices,    \* the notifications of a changed user on their way
  tokens,     \* calls of GetToken that are outstanding
  \* the worker queue
  tasks,
  \* SyncEngine
  user,       \* current_user_
  callbacks,  \* mutation_callbacks_
  pending,    \* pending_writes_callbacks_
  \* LocalStore
  queue,      \* the mutation queues in LevelDB
  nextId,     \* next_batch_id_
  \* RemoteStore
  enabled,    \* is_network_enabled_
  pipeline,   \* write_pipeline_
  \* the write stream
  stream,     \* state_
  handshake,  \* handshake_complete_
  idle,       \* the idleness timer runs
  closes,     \* close_count_
  \* the server and the connection to it
  conn,
  document,   \* the last write of each account that the server applied
  applied,    \* the writes the server has applied
  denied,     \* the writes the server has turned down
  \* history
  answers,    \* what the application was told of its writes
  made, waits, faults

authVars == <<auth, notices>>
engineVars == <<user, callbacks, pending>>
storeVars == <<queue, nextId>>
streamVars == <<stream, handshake, idle, closes, conn, tokens>>
serverVars == <<document, applied, denied>>
boundVars == <<made, waits, faults>>

vars == <<authVars, tasks, engineVars, storeVars, enabled, pipeline, streamVars,
          serverVars, answers, boundVars>>

-----------------------------------------------------------------------------
Writes == 1..MaxWrites

\* Two batches on a device may have the same id, at different times.
Batch == [id : Nat \ {0}, write : Writes]

Outcomes == {"done", "refused"}

\* again: it had been told of the write before.
Told(u, w, outcome) ==
  [user |-> u, write |-> w, outcome |-> outcome, again |-> \E a \in answers : a.write = w]

\* A connection carries what the client has sent and the server has not seen,
\* and what the server has answered and the client has not read.  The server
\* ends it when it turns a write down.  What it still applies of a connection
\* that the client gives up counts as applied before: its answers are lost.
NoConn == [user |-> {}, requests |-> <<>>, replies |-> <<>>, ended |-> FALSE]

\* Healthy is Open for ten seconds: nothing modelled here tells them apart.
StreamStates == {"Initial", "Starting", "Open", "Error", "Backoff"}

IsOpen(s) == s = "Open"

IsStarted(s) == s \in {"Starting", "Backoff", "Open"}

CredentialTask(u) == [kind |-> "credential", user |-> {u}, closes |-> 0]

TokenTask(u, n) == [kind |-> "token", user |-> u, closes |-> n]

WritesOf(s) == {s[i].write : i \in DOMAIN s}

IdsOf(s) == {s[i].id : i \in DOMAIN s}

-----------------------------------------------------------------------------
(* LocalStore *)

\* Fault: ids start again at one.
FirstIds(q) == {1}

\* Fault: the largest id is given out again.
LargestIds(q) ==
  LET ids == {0} \cup UNION {IdsOf(q[u]) : u \in Users}
  IN {n \in ids : \A i \in ids : i <= n}

\* LevelDbMutationQueue::Start goes on after the largest id that any account
\* has left in the database.
NextIds(q) ==
  LET ids == UNION {IdsOf(q[u]) : u \in Users}
  IN {n \in 1..nextId : (\A i \in ids : i < n) /\ (n = 1 \/ n - 1 \in ids)}

\* Fault: the newest batch goes.
RemoveNewest(q, id) == Front(q)

\* Fault: the batch stays.
RemoveNothing(q, id) == q

RemoveBatch(q, id) == RemoveAt(q, CHOOSE i \in DOMAIN q : q[i].id = id)

\* Fault: the oldest batch.
LowestUnacknowledgedBatchId(q) == Head(q).id

HighestUnacknowledgedBatchId(q) == Last(q).id

BatchesAfter(q, id) ==
  SubSeq(q, 1 + Cardinality({i \in DOMAIN q : q[i].id <= id}), Len(q))

-----------------------------------------------------------------------------
(* RemoteStore and the write stream *)

\* Fault: without CanAddToWritePipeline.
EndlessRefill(p, q) == p \o BatchesAfter(q, IF p = <<>> THEN 0 ELSE Last(p).id)

Refill(p, q) ==
  LET next == BatchesAfter(q, IF p = <<>> THEN 0 ELSE Last(p).id)
      room == IF MaxPending > Len(p) THEN MaxPending - Len(p) ELSE 0
  IN p \o SubSeq(next, 1, IF Len(next) < room THEN Len(next) ELSE room)

\* Fault: a stream that has failed is not started again.
StartUnlessFailed(s, p, on, n, outstanding) ==
  LET starts == on /\ p # <<>> /\ s = "Initial"
  IN /\ stream' = IF starts THEN "Starting" ELSE s
     /\ tokens' = IF starts THEN outstanding \cup {[closes |-> n, users |-> {auth}]}
                  ELSE outstanding

\* A stream in state s is started if pipeline p needs it and the network is
\* on; after an error it backs off first.  A token asked for is one of a user
\* whom Auth has between the call and the answer.
StartIfNeeded(s, p, on, n, outstanding) ==
  LET needed == on /\ p # <<>>
  IN /\ stream' = CASE needed /\ s = "Initial" -> "Starting"
                    [] needed /\ s = "Error" -> "Backoff"
                    [] OTHER -> s
     /\ tokens' = IF needed /\ s = "Initial"
                    THEN outstanding \cup {[closes |-> n, users |-> {auth}]}
                    ELSE outstanding

\* Fault: the idleness timer runs on when something is sent.
RestlessFillWritePipeline(on, p, q, c) ==
  LET filled == IF on THEN Refill(p, q) ELSE p
      new == SubSeq(filled, Len(p) + 1, Len(filled))
  IN /\ pipeline' = filled
     /\ conn' = IF handshake THEN [c EXCEPT !.requests = @ \o new] ELSE c
     /\ idle' = (idle \/ (on /\ IsOpen(stream) /\ filled = <<>>))
     /\ StartIfNeeded(stream, filled, on, closes, tokens)
     /\ UNCHANGED <<handshake, closes>>

\* FillWritePipeline, on a pipeline p that sends on connection c.
FillWritePipeline(on, p, q, c) ==
  LET filled == IF on THEN Refill(p, q) ELSE p
      new == SubSeq(filled, Len(p) + 1, Len(filled))
      sends == IsOpen(stream) /\ handshake /\ new # <<>>
  IN /\ pipeline' = filled
     /\ conn' = IF sends THEN [c EXCEPT !.requests = @ \o new] ELSE c
     /\ idle' = (~sends /\ (idle \/ (on /\ IsOpen(stream) /\ filled = <<>>)))
     /\ StartIfNeeded(stream, filled, on, closes, tokens)
     /\ UNCHANGED <<handshake, closes>>

\* Fault: the next connection takes itself to be past its handshake.
ForgetfulCloseStream(s, p, on) ==
  /\ closes' = closes + 1
  /\ pipeline' = p
  /\ conn' = NoConn
  /\ idle' = FALSE
  /\ StartIfNeeded(s, p, on, closes + 1, tokens)
  /\ UNCHANGED handshake

\* Close, and then what OnWriteStreamClose makes of state s and pipeline p.
CloseStream(s, p, on) ==
  /\ closes' = closes + 1
  /\ pipeline' = p
  /\ conn' = NoConn
  /\ handshake' = FALSE
  /\ idle' = FALSE
  /\ StartIfNeeded(s, p, on, closes + 1, tokens)

\* DisableNetworkInternal stops the stream and drops the pipeline.
StopNetwork ==
  /\ enabled' = FALSE
  /\ IF IsStarted(stream)
       THEN CloseStream("Initial", <<>>, FALSE)
       ELSE pipeline' = <<>> /\ UNCHANGED streamVars

\* RestartNetwork clears an error, so that the stream starts without delay.
RestartNetwork(q) ==
  LET p == Refill(<<>>, q)
  IN IF IsStarted(stream)
       THEN CloseStream("Initial", p, TRUE)
       ELSE /\ pipeline' = p
            /\ StartIfNeeded("Initial", p, TRUE, closes, tokens)
            /\ UNCHANGED <<handshake, idle, closes, conn>>

-----------------------------------------------------------------------------
(* SyncEngine and the tasks of the worker queue *)

\* Fault: the callback is kept after it was called.
ForgetfulNotifyUser(id, outcome) ==
  LET found == {c \in callbacks[user] : c.id = id}
  IN /\ answers' = answers \cup {Told(user, c.write, outcome) : c \in found}
     /\ UNCHANGED callbacks

\* The callback of a write is found under the current user and the batch id.
NotifyUser(id, outcome) ==
  LET found == {c \in callbacks[user] : c.id = id}
  IN /\ answers' = answers \cup {Told(user, c.write, outcome) : c \in found}
     /\ callbacks' = [callbacks EXCEPT ![user] = @ \ found]

\* Callbacks of waitForPendingWrites are found under the batch id alone.
TriggerPendingWriteCallbacks(id) == pending' = {p \in pending : p.id # id}

Acknowledged(id) ==
  NotifyUser(id, "done") /\ TriggerPendingWriteCallbacks(id)

\* Fault: the status is lost on the way.
RejectedWithoutStatus(id) == Acknowledged(id)

\* Fault: only a success counts as an answer.
RejectedSilently(id) == NotifyUser(id, "refused") /\ UNCHANGED pending

Rejected(id) ==
  NotifyUser(id, "refused") /\ TriggerPendingWriteCallbacks(id)

WriteMutations ==
  LET batch == [id |-> nextId, write |-> made + 1]
      known == \E c \in callbacks[user] : c.id = nextId
      q == Append(queue[user], batch)
  IN /\ made < MaxWrites
     /\ made' = made + 1
     /\ queue' = [queue EXCEPT ![user] = q]
     /\ nextId' = nextId + 1
     /\ callbacks' = IF known THEN callbacks
                     ELSE [callbacks EXCEPT ![user] = @ \cup {batch}]
     /\ FillWritePipeline(enabled, pipeline, q, conn)
     /\ UNCHANGED <<authVars, tasks, user, pending, enabled, serverVars, answers,
                    waits, faults>>

RegisterPendingWritesCallback ==
  /\ waits < MaxWaits
  /\ waits' = waits + 1
  /\ pending' = IF queue[user] = <<>> THEN pending
                ELSE pending \cup {[id |-> HighestUnacknowledgedBatchId(queue[user]),
                                    awaits |-> WritesOf(queue[user])]}
  /\ UNCHANGED <<authVars, tasks, user, callbacks, storeVars, enabled, pipeline,
                 streamVars, serverVars, answers, made, faults>>

HandleCredentialChange ==
  /\ tasks # <<>> /\ Head(tasks).kind = "credential"
  /\ tasks' = Tail(tasks)
  /\ user' \in Head(tasks).user
  /\ pending' = IF user' = user THEN pending ELSE {}
  /\ nextId' \in IF user' = user THEN {nextId} ELSE NextIds(queue)
  /\ IF enabled THEN RestartNetwork(queue[user'])
                ELSE UNCHANGED <<pipeline, streamVars>>
  /\ UNCHANGED <<authVars, callbacks, queue, enabled, serverVars, answers, boundVars>>

\* Fault: a token is used whenever it comes.
ResumeWithAnyToken ==
  LET task == Head(tasks)
  IN /\ tasks # <<>> /\ task.kind = "token"
     /\ tasks' = Tail(tasks)
     /\ IF task.user = {}
          THEN CloseStream("Error", pipeline, enabled)
          ELSE /\ stream' = "Open"
               /\ conn' = [NoConn EXCEPT !.user = task.user]
               /\ UNCHANGED <<pipeline, handshake, idle, closes, tokens>>
     /\ UNCHANGED <<authVars, engineVars, storeVars, enabled, serverVars, answers,
                    boundVars>>

\* A token that was asked for before the last Close is dropped.
ResumeStartWithCredentials ==
  LET task == Head(tasks)
  IN /\ tasks # <<>> /\ task.kind = "token"
     /\ tasks' = Tail(tasks)
     /\ \/ /\ task.closes # closes
           /\ UNCHANGED <<pipeline, streamVars>>
        \/ /\ task.closes = closes /\ task.user = {}
           /\ CloseStream("Error", pipeline, enabled)
        \/ /\ task.closes = closes /\ task.user # {}
           /\ stream' = "Open"
           /\ conn' = [NoConn EXCEPT !.user = task.user]
           /\ UNCHANGED <<pipeline, handshake, idle, closes, tokens>>
     /\ UNCHANGED <<authVars, engineVars, storeVars, enabled, serverVars, answers,
                    boundVars>>

\* Fault: what was sent on the connection before is not sent again.
ForgetfulHandshakeComplete ==
  /\ IsOpen(stream) /\ ~handshake
  /\ handshake' = TRUE
  /\ UNCHANGED <<authVars, tasks, engineVars, storeVars, enabled, pipeline, stream,
                 idle, closes, conn, tokens, serverVars, answers, boundVars>>

OnWriteStreamHandshakeComplete ==
  /\ IsOpen(stream) /\ ~handshake
  /\ handshake' = TRUE
  /\ conn' = [conn EXCEPT !.requests = pipeline]
  /\ idle' = (idle /\ pipeline = <<>>)
  /\ UNCHANGED <<authVars, tasks, engineVars, storeVars, enabled, pipeline, stream,
                 closes, tokens, serverVars, answers, boundVars>>

\* The result is taken to be that of the first batch in the pipeline.
OnWriteStreamMutationResult ==
  LET batch == Head(pipeline)
      q == RemoveBatch(queue[user], batch.id)
  IN /\ handshake /\ conn.replies # <<>>
     /\ Acknowledged(batch.id)
     /\ queue' = [queue EXCEPT ![user] = q]
     /\ FillWritePipeline(enabled, Tail(pipeline), q,
                          [conn EXCEPT !.replies = Tail(@)])
     /\ UNCHANGED <<authVars, tasks, user, nextId, enabled, serverVars, boundVars>>

\* The status of a call that the server has ended: the write it turned down is
\* taken to be the first one in the pipeline.  GrpcStream takes the status as
\* soon as a read or a write fails, and drops the answers it has not read.
HandleWriteError ==
  LET batch == Head(pipeline)
      q == RemoveBatch(queue[user], batch.id)
  IN /\ conn.ended
     /\ conn.replies = <<>> \/ conn.requests # <<>>
     /\ queue' = [queue EXCEPT ![user] = q]
     /\ Rejected(batch.id)
     /\ CloseStream("Initial", Refill(Tail(pipeline), q), enabled)
     /\ UNCHANGED <<authVars, tasks, user, nextId, enabled, serverVars, boundVars>>

BackoffElapsed ==
  /\ stream = "Backoff"
  /\ StartIfNeeded("Initial", pipeline, TRUE, closes, tokens)
  /\ UNCHANGED <<authVars, tasks, engineVars, storeVars, enabled, pipeline,
                 handshake, idle, closes, conn, serverVars, answers, boundVars>>

IdleTimeout ==
  /\ idle
  /\ CloseStream("Initial", pipeline, enabled)
  /\ UNCHANGED <<authVars, tasks, engineVars, storeVars, enabled, serverVars, answers,
                 boundVars>>

EnableNetwork ==
  /\ ~enabled
  /\ enabled' = TRUE
  /\ FillWritePipeline(TRUE, pipeline, queue[user], conn)
  /\ UNCHANGED <<authVars, tasks, engineVars, storeVars, serverVars, answers,
                 boundVars>>

-----------------------------------------------------------------------------
(* The server *)

Apply ==
  LET batch == Head(conn.requests)
  IN /\ conn.requests # <<>> /\ ~conn.ended
     /\ document' = [document EXCEPT ![user] = batch.write]
     /\ applied' = applied \cup {batch.write}
     /\ conn' = [conn EXCEPT !.requests = Tail(@), !.replies = Append(@, batch)]
     /\ UNCHANGED <<authVars, tasks, engineVars, storeVars, enabled, pipeline,
                    stream, handshake, idle, closes, tokens, denied, answers,
                    boundVars>>

Deny ==
  LET batch == Head(conn.requests)
  IN /\ conn.requests # <<>> /\ ~conn.ended
     /\ denied' = denied \cup {batch.write}
     /\ conn' = [conn EXCEPT !.requests = Tail(@), !.ended = TRUE]
     /\ UNCHANGED <<authVars, tasks, engineVars, storeVars, enabled, pipeline,
                    stream, handshake, idle, closes, tokens, document, applied,
                    answers, boundVars>>

-----------------------------------------------------------------------------
(* Firebase Auth and the credentials provider *)

GetToken(t, u) ==
  /\ tokens' = tokens \ {t}
  /\ tasks' = Append(tasks, TokenTask(u, t.closes))
  /\ UNCHANGED <<authVars, engineVars, storeVars, enabled, pipeline, stream,
                 handshake, idle, closes, conn, serverVars, answers, made, waits>>

TokenArrives ==
  /\ \E t \in tokens : \E u \in t.users : GetToken(t, {u})
  /\ UNCHANGED faults

\* The listener of the provider; an outstanding call is made again (once it
\* is answered), so that its answer is for a user Auth has from now on.
AuthStateDidChange ==
  /\ notices # <<>>
  /\ notices' = Tail(notices)
  /\ tasks' = Append(tasks, CredentialTask(Head(notices)))
  /\ tokens' = {[t EXCEPT !.users = {auth}] : t \in tokens}
  /\ UNCHANGED <<auth, engineVars, storeVars, enabled, pipeline, stream, handshake,
                 idle, closes, conn, serverVars, answers, boundVars>>

-----------------------------------------------------------------------------
(* What disturbs a connection, at most MaxFaults times *)

Fault == faults < MaxFaults /\ faults' = faults + 1

\* Somebody signs in or out, or the token of the same user is renewed.
UserChanges(u) ==
  /\ Fault
  /\ auth' = u
  /\ notices' = Append(notices, u)
  /\ tokens' = {[t EXCEPT !.users = @ \cup {u}] : t \in tokens}
  /\ UNCHANGED <<tasks, engineVars, storeVars, enabled, pipeline, stream, handshake,
                 idle, closes, conn, serverVars, answers, made, waits>>

TokenFails ==
  /\ Fault
  /\ \E t \in tokens : GetToken(t, {})

\* The call fails with an error that is not about a write.
ConnectionBreaks ==
  /\ Fault
  /\ IsOpen(stream)
  /\ CloseStream("Error", pipeline, enabled)
  /\ UNCHANGED <<authVars, tasks, engineVars, storeVars, enabled, serverVars, answers,
                 made, waits>>

ConnectivityChanges ==
  /\ Fault
  /\ enabled
  /\ RestartNetwork(queue[user])
  /\ UNCHANGED <<authVars, tasks, engineVars, storeVars, enabled, serverVars, answers,
                 made, waits>>

DisableNetwork ==
  /\ Fault
  /\ StopNetwork
  /\ UNCHANGED <<authVars, tasks, engineVars, storeVars, serverVars, answers, made, waits>>

\* The process ends and is launched again: what LevelDB and Auth hold is kept.
Restart ==
  LET p == Refill(<<>>, queue[auth])
  IN /\ notices' = <<>>
     /\ tasks' = <<>>
     /\ user' = auth
     /\ callbacks' = [u \in Users |-> {}]
     /\ pending' = {}
     /\ nextId' \in NextIds(queue)
     /\ enabled' = TRUE
     /\ pipeline' = p
     /\ StartIfNeeded("Initial", p, TRUE, 0, {})
     /\ handshake' = FALSE
     /\ idle' = FALSE
     /\ closes' = 0
     /\ conn' = NoConn
     /\ UNCHANGED <<auth, queue, made, waits>>

Crash ==
  /\ Fault
  /\ Restart
  /\ UNCHANGED <<serverVars, answers>>

\* HandleSuccessfulWrite tells the application first and only then takes the
\* batch out of the database.
CrashBeforeAcknowledging ==
  /\ Fault
  /\ handshake /\ conn.replies # <<>>
  /\ answers' = answers \cup
       {Told(user, c.write, "done") :
          c \in {d \in callbacks[user] : d.id = Head(pipeline).id}}
  /\ Restart
  /\ UNCHANGED serverVars

-----------------------------------------------------------------------------
Init ==
  /\ auth \in Users
  /\ notices = <<>>
  /\ tokens = {}
  /\ tasks = <<>>
  /\ user = auth
  /\ callbacks = [u \in Users |-> {}]
  /\ pending = {}
  /\ queue = [u \in Users |-> <<>>]
  /\ nextId = 1
  /\ enabled = TRUE
  /\ pipeline = <<>>
  /\ stream = "Initial"
  /\ handshake = FALSE
  /\ idle = FALSE
  /\ closes = 0
  /\ conn = NoConn
  /\ document = [u \in Users |-> 0]
  /\ applied = {}
  /\ denied = {}
  /\ answers = {}
  /\ made = 0 /\ waits = 0 /\ faults = 0

Disturbance ==
  \/ \E u \in Users : UserChanges(u)
  \/ TokenFails
  \/ ConnectionBreaks
  \/ ConnectivityChanges
  \/ DisableNetwork
  \/ Crash
  \/ CrashBeforeAcknowledging

Worker ==
  \/ HandleCredentialChange
  \/ ResumeStartWithCredentials
  \/ OnWriteStreamHandshakeComplete
  \/ OnWriteStreamMutationResult
  \/ HandleWriteError

Timers == BackoffElapsed \/ IdleTimeout

Server == Apply \/ Deny

Credentials == TokenArrives \/ AuthStateDidChange

Next ==
  \/ WriteMutations
  \/ RegisterPendingWritesCallback
  \/ Worker
  \/ Timers
  \/ EnableNetwork
  \/ Server
  \/ Credentials
  \/ Disturbance

Spec == Init /\ [][Next]_vars

\* The worker queue, its timers, the server and Auth get on; nobody has to
\* make a write, to wait, to change the user or to switch the network on.
FairSpec ==
  /\ Spec
  /\ WF_vars(Worker)
  /\ WF_vars(Timers)
  /\ WF_vars(Server)
  /\ WF_vars(Credentials)

-----------------------------------------------------------------------------
(* What holds *)

Batches(u) == {queue[u][i] : i \in DOMAIN queue[u]}

TypeOK ==
  /\ auth \in Users /\ user \in Users
  /\ notices \in Seq(Users)
  /\ tokens \subseteq [closes : Nat, users : SUBSET Users]
  /\ tasks \in Seq([kind : {"credential", "token"}, user : SUBSET Users, closes : Nat])
  /\ callbacks \in [Users -> SUBSET Batch]
  /\ pending \subseteq [id : Nat, awaits : SUBSET Writes]
  /\ queue \in [Users -> Seq(Batch)]
  /\ nextId \in Nat \ {0}
  /\ enabled \in BOOLEAN /\ handshake \in BOOLEAN /\ idle \in BOOLEAN
  /\ pipeline \in Seq(Batch)
  /\ stream \in StreamStates
  /\ closes \in Nat
  /\ conn \in [user : SUBSET Users, requests : Seq(Batch), replies : Seq(Batch),
               ended : BOOLEAN]
  /\ document \in [Users -> 0..MaxWrites]
  /\ applied \subseteq Writes /\ denied \subseteq Writes
  /\ answers \subseteq [user : Users, write : Writes, outcome : Outcomes, again : BOOLEAN]
  /\ made \in 0..MaxWrites /\ waits \in 0..MaxWaits /\ faults \in 0..MaxFaults

\* The pipeline is the front of the current user's queue, and as long as it
\* may be: no write of the queue is passed over, of another user, or left out
\* although there is room (FillWritePipeline, remote_store.cc).
PipelineIsFront ==
  LET n == Len(queue[user])
  IN pipeline = IF enabled
                  THEN SubSeq(queue[user], 1, IF n < MaxPending THEN n ELSE MaxPending)
                  ELSE <<>>

\* What is under way on an open connection is the pipeline, in its order: the
\* front of the pipeline is the batch that the next result is for ("should be
\* correlated to the first write in our write pipeline").
ResultsInStep ==
  IF handshake
    THEN /\ IsOpen(stream)
         /\ ~conn.ended => pipeline = conn.replies \o conn.requests
         /\ IsPrefix(conn.replies, pipeline)
    ELSE conn.requests = <<>> /\ conn.replies = <<>> /\ ~conn.ended

\* A write that waits in a pipeline has a stream on its way, and a stream that
\* is about to be closed as idle is needed by no write (the assertion "stopped
\* gracefully while still needed").
NeededIsStarted ==
  /\ pipeline # <<>> => IsStarted(stream)
  /\ idle <=> IsOpen(stream) /\ pipeline = <<>>

\* A stream that waits for its token has one coming that it will accept, and
\* only such a stream accepts one (the assertion in ResumeStartWithCredentials).
TokenIsComing ==
  stream = "Starting" <=>
    \/ \E t \in tokens : t.closes = closes
    \/ \E i \in DOMAIN tasks : tasks[i].kind = "token" /\ tasks[i].closes = closes

\* The writes of an account are sent with the credentials of that account,
\* unless Auth has changed the user and the worker queue is yet to hear of it.
SentAsTheirUser ==
  IsOpen(stream) /\ conn.user # {user} =>
    notices # <<>> \/ \E i \in DOMAIN tasks : tasks[i].kind = "credential"

\* Ids are given out again after a change of user or a restart, but a batch in
\* the database has its id to itself, ids are in the order of the writes, and
\* a callback is that of the batch whose id it is kept under.
IdsName ==
  /\ \A u \in Users : \A i, j \in DOMAIN queue[u] :
       i < j => queue[u][i].id < queue[u][j].id /\ queue[u][i].write < queue[u][j].write
  /\ \A u \in Users : \A b \in Batches(u) : b.id < nextId
  /\ \A u, v \in Users : \A b \in Batches(u), c \in Batches(v) : b.id = c.id => u = v
  /\ \A u \in Users : callbacks[u] \subseteq Batches(u)

\* waitForPendingWrites is called back once every write that the account had
\* then has left the queue, and not before.
WaitsForThoseBefore ==
  [][\A p \in pending \ pending' :
       (OnWriteStreamMutationResult \/ HandleWriteError) =>
         p.awaits \cap WritesOf(queue'[user]) = {}]_vars

\* An application that is told that a write is done is told so after the
\* server has applied it, and it is told of a write once.
ToldOnceAndTruly ==
  /\ \A a \in answers : a.outcome = "done" => a.write \in applied
  /\ \A a \in answers : ~a.again

\* An application that is told that a write was turned down, "the request
\* itself was the problem so it's not going to succeed if we resend it"
\* (HandleWriteError), is told of a write that the server did turn down.
RefusedWasDenied ==
  \A a \in answers : a.outcome = "refused" => a.write \in denied

\* The server applies the writes of an account in the order in which they were made,
\* over broken connections, refills and restarts: of those that are queued it has
\* applied a front (OnWriteStreamHandshakeComplete sends the whole pipeline again).
\* The other modules take this for granted where they let the server apply a write.
AppliedInOrder ==
  \A u \in Users : \A i, j \in DOMAIN queue[u] :
    i < j /\ queue[u][j].write \in applied => queue[u][i].write \in applied

\* No write gets lost, whatever breaks, ends or changes: it is in the queue of an
\* account, the server has applied it, or the server has turned it down.
NothingLost ==
  \A w \in 1..made :
    \/ \E u \in Users : w \in WritesOf(queue[u])
    \/ w \in applied \cup denied

\* Every write of a user who stays signed in with the network on is answered.
QueueDrains ==
  \A u \in Users : <>[](enabled /\ auth = u) => <>[](queue[u] = <<>>)

\* With the network on, waitForPendingWrites does not wait for ever.
WaitsEnd == <>[]enabled => []<>(pending = {})

\* What the pipeline does to the writes is what is promised of them.
Promise ==
  INSTANCE WriteQueue WITH
    queue <- [u \in Users |-> [i \in DOMAIN queue[u] |-> queue[u][i].write]]

ImplementsPromise == Promise!Spec

\* An application that was told that a write is done does not see the server
\* go back behind it: no earlier write is sent again.
DoneStaysDone == Promise!DoneStaysDone

=============================================================================
