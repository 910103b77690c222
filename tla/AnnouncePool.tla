---------------------------- MODULE AnnouncePool ----------------------------
(***************************************************************************)
(* The download of one sync: downloadNewMessages, announceNewMessages and  *)
(* the progress it reports (internal/imapserver/mailconnector), the bodies *)
(* it fetches through the service's memory of threads (internal/mail), and *)
(* what the parent is told over the control channel (internal/daemon and   *)
(* internal/control).                                                      *)
(*                                                                         *)
(* The folders are downloaded one after the other.  In a folder, at most   *)
(* Concurrency goroutines fetch a body each, put the message on a shared   *)
(* pending list and, when the list is full, send it as a batch; the sync's *)
(* own goroutine sends what is left when they have all returned.  Taking   *)
(* the list and sending it are two steps: the lock is released between     *)
(* them, and the send blocks while the channel is full.                    *)
(***************************************************************************)
EXTENDS Naturals, Sequences, FiniteSets

CONSTANTS
  Task,          \* a message found new in a folder
  Boxes,         \* how many folders there are
  BoxOf,         \* the folder of each task
  Thread,        \* conversations
  ThreadOf,      \* the conversation of each task
  Unparsable,    \* the tasks whose full literal cannot be parsed
  Concurrency,   \* fetchBodyConcurrency
  Batch,         \* messageAnnounceBatch
  UpdateBuffer,  \* updateBufferSize
  MaxFailures,   \* bound on the API calls that fail
  Main,          \* the goroutine that runs Sync
  None           \* no value

ASSUME AnnouncePoolAssumption ==
  /\ IsFiniteSet(Task) /\ Main \notin Task
  /\ Boxes \in Nat /\ BoxOf \in [Task -> 1 .. Boxes]
  /\ ThreadOf \in [Task -> Thread] /\ Unparsable \subseteq Task
  /\ Concurrency \in Nat \ {0} /\ Batch \in Nat \ {0}
  /\ UpdateBuffer \in Nat \ {0} /\ MaxFailures \in Nat

VARIABLES
  phase,      \* where the sync is
  new,        \* work: what the scan found
  requested,  \* the sync was asked for (withRequestedSync)
  box,        \* the folder being downloaded
  stage,      \* where the goroutine of each task is
  body,       \* the literal each message is announced with
  threads,    \* the conversations the service remembers
  pending,    \* messages waiting to fill a batch
  batch,      \* what each goroutine has taken and not yet sent
  channel,    \* the updates channel
  told,       \* history: how often each message was sent over it
  done,       \* progressReporter.done
  parent,     \* what the parent was told last of this sync
  cancelled,  \* the poller was stopped: the context is cancelled
  failures    \* how many API calls have failed

syncVars   == <<phase, new, requested, box>>
workerVars == <<stage, body, threads>>
batchVars  == <<pending, batch, channel, told>>
vars == <<syncVars, workerVars, batchVars, done, parent, cancelled, failures>>

Actor == Task \cup {Main}

Stage == {"waiting", "fetch", "call", "advance", "store", "flush", "send",
          "returned"}

Total == Cardinality(new)

\* The state of every variable has its type.
TypeOK ==
  /\ phase \in {"scan", "download", "flush", "send", "finish", "over"}
  /\ new \subseteq Task /\ requested \in BOOLEAN /\ box \in 0 .. Boxes
  /\ stage \in [Task -> Stage]
  /\ body \in [Task -> {"none", "full", "summary"}]
  /\ threads \subseteq Thread
  /\ pending \subseteq Task /\ batch \in [Actor -> SUBSET Task]
  /\ channel \in Seq(SUBSET Task) /\ Len(channel) <= UpdateBuffer
  /\ told \in [Task -> Nat]
  /\ done \in 0 .. Cardinality(Task)
  /\ parent \in [opened : BOOLEAN, progress : 0 .. Cardinality(Task),
                 closed : {None, "", "list_mailboxes"}]
  /\ cancelled \in BOOLEAN /\ failures \in 0 .. MaxFailures

Init ==
  /\ phase = "scan" /\ new \in SUBSET Task /\ requested \in BOOLEAN
  /\ box = 0
  /\ stage = [t \in Task |-> "waiting"] /\ body = [t \in Task |-> "none"]
  /\ threads = {}
  /\ pending = {} /\ batch = [a \in Actor |-> {}]
  /\ channel = <<>> /\ told = [t \in Task |-> 0]
  /\ done = 0
  /\ parent = [opened |-> FALSE, progress |-> 0, closed |-> None]
  /\ cancelled = FALSE /\ failures = 0

-----------------------------------------------------------------------------
(* What the parent is told.                                                *)

\* newProgressReporter returns nil for a quiet poll with nothing to download.
Reporting == Total > 0 \/ requested

\* OnStarted: the control channel refuses a start that has no total.
Opened == [parent EXCEPT !.opened = Reporting /\ Total > 0]

\* finish: nothing is said when there is no reporter.
Closed(code) == IF Reporting THEN [parent EXCEPT !.closed = code] ELSE parent

\* advance reports the first body, the last one, and those that come when the
\* interval since the last report has passed.
LastNotForced(n) == n = 1
MustReport(n) == n = 1 \/ n = Total

-----------------------------------------------------------------------------
(* The sync's own goroutine.                                               *)

\* ListMailboxes failed: a sync somebody asked for is closed all the same.
ListMailboxesFails ==
  /\ phase = "scan" /\ failures < MaxFailures
  /\ failures' = failures + 1
  /\ new' = {}
  /\ parent' = IF requested THEN [parent EXCEPT !.closed = "list_mailboxes"]
                            ELSE parent
  /\ phase' = "over"
  /\ UNCHANGED <<requested, box, workerVars, batchVars, done, cancelled>>

\* The folders the scan found work in, in order.
Later == {BoxOf[t] : t \in {u \in new : BoxOf[u] > box}}

NextBox ==
  IF Later = {} THEN phase' = "finish" /\ UNCHANGED box
  ELSE /\ phase' = "download"
       /\ box' \in Later /\ \A b \in Later : box' <= b

StartDownload ==
  /\ phase = "scan"
  /\ parent' = Opened
  /\ NextBox
  /\ UNCHANGED <<new, requested, workerVars, batchVars, done, cancelled,
                 failures>>

InBox == {t \in new : BoxOf[t] = box}
Running == {t \in Task : stage[t] \notin {"waiting", "returned"}}

\* group.Go starts a goroutine when fewer than the limit are running.
Go(t) ==
  /\ phase = "download" /\ t \in InBox /\ stage[t] = "waiting"
  /\ Cardinality(Running) < Concurrency
  /\ stage' = [stage EXCEPT ![t] = "fetch"]
  /\ UNCHANGED <<syncVars, body, threads, batchVars, done, parent, cancelled,
                 failures>>

\* group.Wait: every goroutine of the folder has returned.
NotWaited == TRUE
AllReturned == \A t \in InBox : stage[t] = "returned"

Wait ==
  /\ phase = "download" /\ AllReturned
  /\ phase' = "flush"
  /\ UNCHANGED <<new, requested, box, workerVars, batchVars, done, parent,
                 cancelled, failures>>

Finish ==
  /\ phase = "finish"
  /\ parent' = Closed("")
  /\ threads' = {}
  /\ phase' = "over"
  /\ UNCHANGED <<new, requested, box, stage, body, batchVars, done, cancelled,
                 failures>>

-----------------------------------------------------------------------------
(* flush, which a goroutine or the sync itself calls.                      *)

LeavesPending == pending
AfterTaking == {}

Take(a) ==
  /\ batch' = [batch EXCEPT ![a] = pending]
  /\ pending' = AfterTaking
  /\ UNCHANGED <<channel, told>>

Room == Len(channel) < UpdateBuffer

Send(a) ==
  /\ batch[a] # {} /\ Room
  /\ channel' = Append(channel, batch[a])
  /\ told' = [t \in Task |-> IF t \in batch[a] THEN told[t] + 1 ELSE told[t]]
  /\ batch' = [batch EXCEPT ![a] = {}]
  /\ UNCHANGED pending

\* An empty list is not sent.
Sent(a) == Send(a) \/ (batch[a] = {} /\ UNCHANGED batchVars)

MainTakes ==
  /\ phase = "flush" /\ Take(Main)
  /\ phase' = "send"
  /\ UNCHANGED <<new, requested, box, workerVars, done, parent, cancelled,
                 failures>>

MainSends ==
  /\ phase = "send" /\ Sent(Main)
  /\ NextBox
  /\ UNCHANGED <<new, requested, workerVars, done, parent, cancelled, failures>>

-----------------------------------------------------------------------------
(* The goroutine of a task.                                                *)

\* GetMessageLiteral first looks for the conversation among those remembered.
NothingRemembered(t) == FALSE
RememberedThread(t) == ThreadOf[t] \in threads

Lookup(t) ==
  /\ stage[t] = "fetch"
  /\ IF RememberedThread(t)
     THEN /\ body' = [body EXCEPT ![t] = "full"]
          /\ stage' = [stage EXCEPT ![t] = "advance"]
     ELSE /\ stage' = [stage EXCEPT ![t] = "call"]
          /\ UNCHANGED body
  /\ UNCHANGED <<syncVars, threads, batchVars, done, parent, cancelled, failures>>

\* GetThread answers: every message of the conversation is remembered.
Fetched(t) ==
  /\ stage[t] = "call"
  /\ body' = [body EXCEPT ![t] = "full"]
  /\ threads' = threads \cup {ThreadOf[t]}
  /\ stage' = [stage EXCEPT ![t] = "advance"]
  /\ UNCHANGED <<syncVars, batchVars, done, parent, cancelled, failures>>

\* It fails, on its own or because the sync was cancelled: the message is
\* announced with its summary in place of the body.
FetchFails(t) ==
  /\ stage[t] = "call"
  /\ \/ cancelled /\ UNCHANGED failures
     \/ failures < MaxFailures /\ failures' = failures + 1
  /\ body' = [body EXCEPT ![t] = "summary"]
  /\ stage' = [stage EXCEPT ![t] = "advance"]
  /\ UNCHANGED <<syncVars, threads, batchVars, done, parent, cancelled>>

\* progress.advance counts and reports under one lock.
Advance(t) ==
  /\ stage[t] = "advance"
  /\ done' = done + 1
  /\ parent' \in {[parent EXCEPT !.progress = done']}
                 \cup (IF MustReport(done') THEN {} ELSE {parent})
  /\ stage' = [stage EXCEPT ![t] = "store"]
  /\ UNCHANGED <<syncVars, body, threads, batchVars, cancelled, failures>>

\* toIMAPMessage: the summary always parses, the full literal may not.
Parses(t) == body[t] = "full" => t \notin Unparsable

SkipMessage(t) ==
  /\ stage[t] = "store" /\ ~Parses(t)
  /\ stage' = [stage EXCEPT ![t] = "returned"]
  /\ UNCHANGED <<syncVars, body, threads, batchVars, done, parent, cancelled,
                 failures>>

FullLate(p) == Cardinality(p) > Batch
Full(p) == Cardinality(p) >= Batch

Store(t) ==
  /\ stage[t] = "store" /\ Parses(t)
  /\ pending' = pending \cup {t}
  /\ stage' = [stage EXCEPT ![t] = IF Full(pending') THEN "flush"
                                                     ELSE "returned"]
  /\ UNCHANGED <<syncVars, body, threads, batch, channel, told, done, parent,
                 cancelled, failures>>

WorkerTakes(t) ==
  /\ stage[t] = "flush" /\ Take(t)
  /\ stage' = [stage EXCEPT ![t] = "send"]
  /\ UNCHANGED <<syncVars, body, threads, done, parent, cancelled, failures>>

WorkerSends(t) ==
  /\ stage[t] = "send" /\ Sent(t)
  /\ stage' = [stage EXCEPT ![t] = "returned"]
  /\ UNCHANGED <<syncVars, body, threads, done, parent, cancelled, failures>>

-----------------------------------------------------------------------------
(* The rest of the program.                                                *)

\* Gluon reads the next batch.
GluonReads ==
  /\ channel # <<>>
  /\ channel' = Tail(channel)
  /\ UNCHANGED <<syncVars, workerVars, pending, batch, told, done, parent, cancelled,
                 failures>>

\* The poller is stopped while the sync runs: its calls fail from then on.
Cancel ==
  /\ ~cancelled /\ phase # "over"
  /\ cancelled' = TRUE
  /\ UNCHANGED <<syncVars, workerVars, batchVars, done, parent, failures>>

\* The sync has ended and Gluon has read everything.
Ended == phase = "over" /\ channel = <<>> /\ UNCHANGED vars

-----------------------------------------------------------------------------
SyncStep ==
  ListMailboxesFails \/ StartDownload \/ Wait \/ MainTakes \/ MainSends \/ Finish

WorkerStep(t) ==
  \/ Go(t) \/ Lookup(t) \/ Fetched(t) \/ FetchFails(t) \/ Advance(t)
  \/ SkipMessage(t) \/ Store(t) \/ WorkerTakes(t) \/ WorkerSends(t)

Next ==
  \/ SyncStep \/ (\E t \in Task : WorkerStep(t))
  \/ GluonReads \/ Cancel \/ Ended

\* Every goroutine that can go on does, a call is answered or fails (the HTTP
\* client has a timeout), and Gluon keeps reading the channel.
Fairness ==
  /\ WF_vars(SyncStep) /\ \A t \in Task : WF_vars(WorkerStep(t))
  /\ WF_vars(GluonReads)

SafeSpec == Init /\ [][Next]_vars

Spec == SafeSpec /\ Fairness

-----------------------------------------------------------------------------
(* Properties.                                                             *)

Skipped == {t \in new : stage[t] = "returned" /\ ~Parses(t)}

\* The download announces what the scan found, once, folder by folder, and ends:
\* "none lost or duplicated across batches" (sync_test.go:128).
Abstract == INSTANCE Announcing
  WITH skipped <- Skipped, over <- phase = "over"

Implements == Abstract!Spec

\* The list can pass the batch size, because the goroutine that filled it lets
\* go of the lock before it takes it (connector.go:175-181), but each message
\* over is put there by a goroutine that has still to flush: a batch never holds
\* more than Batch + Concurrency - 1 messages.  Nor is any other variable out of
\* its bounds.
BatchBounded ==
  /\ TypeOK
  /\ Cardinality(pending)
       <= Batch - 1 + Cardinality({t \in Task : stage[t] = "flush"})
  /\ \A a \in Actor : Cardinality(batch[a]) <= Batch + Concurrency - 1

\* "Reports reach the parent in order" (progress.go:55), and none follows the
\* one that closes the sync.
ReportsInOrder ==
  [][ parent'.progress # parent.progress =>
        /\ parent'.progress > parent.progress
        /\ parent.closed = None ]_vars

\* "The last one always reports, so the parent is never left short of 100%"
\* (progress.go:52-53): a sync that closes has reported every message it found.
ClosedAtTotal == parent.closed # None => parent.progress = Total

\* A conversation downloaded for one folder is not downloaded again for a later
\* one (connector.go:72-75): only goroutines of the same folder can meet.
ConversationOnce ==
  \A t \in Task : stage[t] = "call" =>
    \A u \in new : BoxOf[u] < BoxOf[t] /\ ThreadOf[u] = ThreadOf[t]
                     => body[u] = "summary"

=============================================================================
