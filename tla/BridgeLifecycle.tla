-------------------------- MODULE BridgeLifecycle --------------------------
(***************************************************************************)
(* One run of the bridge process: daemon.Run starting the IMAP and SMTP    *)
(* services and stopping them, the poller that runs the syncs, Gluon       *)
(* reading the updates channel, the goroutine that serves the control      *)
(* channel, and the parent at its other end.                               *)
(*                                                                         *)
(* Run is a program of named steps; "todo" holds those it has still to     *)
(* take, and an error replaces them by the steps of its error path.  What  *)
(* a sync does is module MailSync; here it is the sends that can block: of *)
(* an update, and of a report to the parent.                               *)
(***************************************************************************)
EXTENDS Naturals, Sequences

CONSTANTS
  UpdateBuffer,   \* capacity of the updates channel
  SocketBuffer,   \* messages the control socket takes before a write blocks
  MaxSends,       \* bound on the sends of one sync
  MaxRequests,    \* bound on the resync requests of the parent
  MaxStartFailures \* bound on the services that fail to start: 0 or 1

ASSUME BridgeLifecycleAssumption ==
  /\ UpdateBuffer \in Nat \ {0} /\ SocketBuffer \in Nat \ {0}
  /\ MaxSends \in Nat /\ MaxRequests \in Nat
  /\ MaxStartFailures \in {0, 1}

VARIABLES
  todo,       \* the steps Run has still to take
  ctxDone,    \* the signal came: Run's context is cancelled
  imap,       \* the IMAP service: "none", "serving" or "closed"
  pollerRef,  \* IMAPServer.poller is set
  smtp,       \* the SMTP service: "none", "serving" or "stopped"
  startFailures, \* how many services have failed to start
  poller,     \* the poller's goroutine: "none", "idle", running a sync that was
              \* "requested" or "timed", or "done"
  stopped,    \* the poller's context is cancelled
  reset,      \* a token in Poller.reset
  tick,       \* a tick waits in the ticker's channel
  sends,      \* what the running sync has still to send
  updates,    \* how many updates the channel holds
  closed,     \* the updates channel is closed
  crashed,    \* the process died of a panic
  serve,      \* the Serve goroutine: "none", "reading", "calling", "ended"
  requests,   \* resync requests the parent has written, not yet read
  sent,       \* how many the parent has written in all
  asked,      \* how many of them Serve has taken up
  covered,    \* how many of those a sync has started after
  parent,     \* the parent: "waiting", "reading", "stalled" or "gone"
  reports,    \* messages in the socket towards the parent
  readySent,  \* SendReady has been written
  early       \* history: a requested sync reported before SendReady

runVars    == <<todo, ctxDone, imap, pollerRef, smtp, startFailures>>
pollerVars == <<poller, stopped, reset, tick, sends, covered>>
gluonVars  == <<updates, closed, crashed>>
serveVars  == <<serve, requests, sent, asked>>
parentVars == <<parent, reports, readySent, early>>
vars == <<runVars, pollerVars, gluonVars, serveVars, parentVars>>

-----------------------------------------------------------------------------
(* The steps of Run.                                                       *)

\* IMAPServer.Close.
GluonBeforePoller ==
  <<"takeDown", "closeListener", "closeGluon", "stopPoller", "joinPoller",
    "stopServing">>
CloseIMAP ==
  <<"takeDown", "stopPoller", "joinPoller", "closeListener", "closeGluon",
    "stopServing">>

\* Run, when nothing fails.
ResyncBeforeReady ==
  <<"session", "startIMAP", "startSMTP", "resync", "sendReady", "serve",
    "wait">> \o CloseIMAP \o <<"stopSMTP", "closeControl">>
Run ==
  <<"session", "startIMAP", "startSMTP", "sendReady", "resync", "serve",
    "wait">> \o CloseIMAP \o <<"stopSMTP", "closeControl">>

\* Its error paths.
AfterIMAPFails == <<"sendError", "closeControl">>
ServicesLeftOpen == <<"sendError", "closeControl">>
AfterSMTPFails == CloseIMAP \o <<"sendError", "closeControl">>
AfterReadyFails == <<"stopSMTP">> \o CloseIMAP \o <<"closeControl">>

Steps == {Run[i] : i \in 1 .. Len(Run)} \cup {"sendError"}

\* The state of every variable has its type.
TypeOK ==
  /\ todo \in Seq(Steps) /\ ctxDone \in BOOLEAN
  /\ imap \in {"none", "serving", "closed"} /\ pollerRef \in BOOLEAN
  /\ smtp \in {"none", "serving", "stopped"}
  /\ startFailures \in 0 .. MaxStartFailures
  /\ poller \in {"none", "idle", "requested", "timed", "done"} /\ stopped \in BOOLEAN
  /\ reset \in BOOLEAN /\ tick \in BOOLEAN
  /\ sends \in Seq({"update", "report"}) /\ Len(sends) <= MaxSends
  /\ updates \in 0 .. UpdateBuffer /\ closed \in BOOLEAN /\ crashed \in BOOLEAN
  /\ serve \in {"none", "reading", "calling", "ended"}
  /\ requests \in 0 .. MaxRequests /\ sent \in 0 .. MaxRequests
  /\ asked \in 0 .. MaxRequests + 1 /\ covered \in 0 .. MaxRequests + 1
  /\ parent \in {"waiting", "reading", "stalled", "gone"}
  /\ reports \in 0 .. SocketBuffer
  /\ readySent \in BOOLEAN /\ early \in BOOLEAN

Init ==
  /\ todo = Run /\ ctxDone = FALSE
  /\ imap = "none" /\ pollerRef = FALSE /\ smtp = "none" /\ startFailures = 0
  /\ poller = "none" /\ stopped = FALSE /\ reset = FALSE /\ tick = FALSE
  /\ sends = <<>>
  /\ updates = 0 /\ closed = FALSE /\ crashed = FALSE
  /\ serve = "none" /\ requests = 0 /\ sent = 0 /\ asked = 0 /\ covered = 0
  /\ parent = "waiting" /\ reports = 0 /\ readySent = FALSE /\ early = FALSE

\* The next step of Run is s, and it succeeds.
At(s) == ~crashed /\ todo # <<>> /\ Head(todo) = s
Step(s) == At(s) /\ todo' = Tail(todo)

\* A service does not start: its port is taken, or its state cannot be read.
StartFails ==
  /\ startFailures < MaxStartFailures
  /\ startFailures' = startFailures + 1

-----------------------------------------------------------------------------
(* Writing to the control socket.  With no deadline (context.Background),  *)
(* a write blocks while the socket is full; when the parent has gone it    *)
(* fails at once.                                                          *)

FullSocketWrites == parent = "gone" \/ reports <= SocketBuffer
CanWrite == parent = "gone" \/ reports < SocketBuffer
Written == reports' = IF parent = "gone" THEN reports ELSE reports + 1

-----------------------------------------------------------------------------
(* Poller.Resync, which never blocks: a token is put where there is none.  *)

OnlyWhenIdle == reset' = (reset \/ poller = "idle")
PutToken == reset' = TRUE

-----------------------------------------------------------------------------
(* Run.                                                                    *)

\* ReceiveStartSession: the parent sends the session, or hangs up, or the
\* startup deadline passes.
ReceiveSession ==
  /\ \/ Step("session") /\ parent = "waiting" /\ parent' = "reading"
     \/ At("session") /\ todo' = <<"closeControl">> /\ UNCHANGED parent
  /\ UNCHANGED <<ctxDone, imap, pollerRef, smtp, startFailures, pollerVars,
                 gluonVars, serveVars, reports, readySent, early>>

\* imapserver.Start: the listener is up and the poller runs when it returns.
StartIMAP ==
  /\ Step("startIMAP")
  /\ imap' = "serving" /\ pollerRef' = TRUE /\ poller' = "idle"
  /\ UNCHANGED <<ctxDone, smtp, startFailures, stopped, reset, tick, sends,
                 covered, gluonVars, serveVars, parentVars>>

StartIMAPFails ==
  /\ At("startIMAP") /\ StartFails /\ todo' = AfterIMAPFails
  /\ UNCHANGED <<ctxDone, imap, pollerRef, smtp, pollerVars, gluonVars, serveVars,
                 parentVars>>

StartSMTP ==
  /\ Step("startSMTP") /\ smtp' = "serving"
  /\ UNCHANGED <<ctxDone, imap, pollerRef, startFailures, pollerVars, gluonVars,
                 serveVars, parentVars>>

StartSMTPFails ==
  /\ At("startSMTP") /\ StartFails /\ todo' = AfterSMTPFails
  /\ UNCHANGED <<ctxDone, imap, pollerRef, smtp, pollerVars, gluonVars, serveVars,
                 parentVars>>

SendReady ==
  /\ CanWrite /\ Written
  /\ \/ Step("sendReady") /\ parent # "gone" /\ readySent' = TRUE
     \/ /\ At("sendReady") /\ parent = "gone"
        /\ todo' = AfterReadyFails /\ UNCHANGED readySent
  /\ UNCHANGED <<ctxDone, imap, pollerRef, smtp, startFailures, pollerVars,
                 gluonVars, serveVars, parent, early>>

\* The first sync is a request like the parent's.
FirstResync ==
  /\ Step("resync") /\ PutToken
  /\ asked' = asked + 1
  /\ UNCHANGED <<ctxDone, imap, pollerRef, smtp, startFailures, poller, stopped,
                 tick, sends, covered, gluonVars, serve, requests, sent,
                 parentVars>>

StartServe ==
  /\ Step("serve") /\ serve' = "reading"
  /\ UNCHANGED <<ctxDone, imap, pollerRef, smtp, startFailures, pollerVars,
                 gluonVars, requests, sent, asked, parentVars>>

WaitForSignal ==
  /\ Step("wait") /\ ctxDone
  /\ UNCHANGED <<ctxDone, imap, pollerRef, smtp, startFailures, pollerVars,
                 gluonVars, serveVars, parentVars>>

SendError ==
  /\ Step("sendError") /\ CanWrite /\ Written
  /\ UNCHANGED <<ctxDone, imap, pollerRef, smtp, startFailures, pollerVars,
                 gluonVars, serveVars, parent, readySent, early>>

\* Close takes the poller out of the server under its lock, then stops it.
TakeDown ==
  /\ Step("takeDown") /\ pollerRef' = FALSE
  /\ UNCHANGED <<ctxDone, imap, smtp, startFailures, pollerVars, gluonVars,
                 serveVars, parentVars>>

CancelForgotten == stopped
Cancelled == TRUE

StopPoller ==
  /\ Step("stopPoller") /\ stopped' = Cancelled
  /\ UNCHANGED <<ctxDone, imap, pollerRef, smtp, startFailures, poller, reset, tick,
                 sends, covered, gluonVars, serveVars, parentVars>>

JoinPoller ==
  /\ Step("joinPoller") /\ poller = "done"
  /\ UNCHANGED <<ctxDone, imap, pollerRef, smtp, startFailures, pollerVars,
                 gluonVars, serveVars, parentVars>>

CloseListener ==
  /\ Step("closeListener")
  /\ UNCHANGED <<ctxDone, imap, pollerRef, smtp, startFailures, pollerVars,
                 gluonVars, serveVars, parentVars>>

\* Gluon stops reading and closes its connector, which closes the channel.
CloseGluon ==
  /\ Step("closeGluon") /\ closed' = TRUE
  /\ UNCHANGED <<ctxDone, imap, pollerRef, smtp, startFailures, pollerVars,
                 updates, crashed, serveVars, parentVars>>

StopServing ==
  /\ Step("stopServing") /\ imap' = "closed"
  /\ UNCHANGED <<ctxDone, pollerRef, smtp, startFailures, pollerVars, gluonVars,
                 serveVars, parentVars>>

\* Shutdown waits for SMTP clients at most until its deadline.
StopSMTP ==
  /\ Step("stopSMTP") /\ smtp' = "stopped"
  /\ UNCHANGED <<ctxDone, imap, pollerRef, startFailures, pollerVars, gluonVars,
                 serveVars, parentVars>>

\* Run returns, and the process exits with it.
CloseControl ==
  /\ Step("closeControl")
  /\ UNCHANGED <<ctxDone, imap, pollerRef, smtp, startFailures, pollerVars,
                 gluonVars, serveVars, parentVars>>

RunStep ==
  \/ ReceiveSession \/ StartIMAP \/ StartIMAPFails \/ StartSMTP \/ StartSMTPFails
  \/ SendReady \/ FirstResync \/ StartServe \/ WaitForSignal \/ SendError
  \/ TakeDown \/ StopPoller \/ JoinPoller \/ CloseListener \/ CloseGluon
  \/ StopServing \/ StopSMTP \/ CloseControl

Running == ~crashed /\ todo # <<>>

-----------------------------------------------------------------------------
(* The poller.                                                             *)

Syncing == poller \in {"requested", "timed"}

\* The interval passes: a ticker holds one tick.
Tick ==
  /\ Running /\ (poller = "idle" \/ Syncing) /\ ~tick
  /\ tick' = TRUE
  /\ UNCHANGED <<runVars, poller, stopped, reset, sends, covered, gluonVars,
                 serveVars, parentVars>>

SendsOf(n) == UNION {[1 .. k -> {"update", "report"}] : k \in 0 .. n}

\* A sync starts: it reads an account newer than every request made so far.
BeginSync(kind) ==
  /\ poller' = kind /\ covered' = asked
  /\ sends' \in SendsOf(MaxSends)

\* select takes any case that is ready: the end, a request or a tick.
PollerEnds ==
  /\ Running /\ poller = "idle" /\ stopped
  /\ poller' = "done"
  /\ UNCHANGED <<runVars, stopped, reset, tick, sends, covered, gluonVars,
                 serveVars, parentVars>>

RequestedSync ==
  /\ Running /\ poller = "idle" /\ reset
  /\ BeginSync("requested") /\ reset' = FALSE
  /\ UNCHANGED <<runVars, stopped, tick, gluonVars, serveVars, parentVars>>

TimedSync ==
  /\ Running /\ poller = "idle" /\ tick
  /\ BeginSync("timed") /\ tick' = FALSE
  /\ UNCHANGED <<runVars, stopped, reset, gluonVars, serveVars, parentVars>>

\* The sync sends an update: it waits for room, and panics on a closed channel.
SyncSendsUpdate ==
  /\ Running /\ sends # <<>> /\ Head(sends) = "update"
  /\ IF closed
     THEN crashed' = TRUE /\ UNCHANGED <<sends, updates>>
     ELSE /\ updates < UpdateBuffer
          /\ updates' = updates + 1 /\ sends' = Tail(sends)
          /\ UNCHANGED crashed
  /\ UNCHANGED <<runVars, poller, stopped, reset, tick, covered, closed,
                 serveVars, parentVars>>

\* The sync reports to the parent; a failed write is logged and forgotten.
SyncReports ==
  /\ Running /\ sends # <<>> /\ Head(sends) = "report"
  /\ CanWrite /\ Written
  /\ early' = (early \/ (poller = "requested" /\ ~readySent))
  /\ sends' = Tail(sends)
  /\ UNCHANGED <<runVars, poller, stopped, reset, tick, covered, gluonVars,
                 serveVars, parent, readySent>>

\* A requested sync restarts the interval, and with it drops a waiting tick.
SyncEnds ==
  /\ Running /\ Syncing /\ sends = <<>>
  /\ poller' = "idle"
  /\ tick' = (tick /\ poller = "timed")
  /\ UNCHANGED <<runVars, stopped, reset, sends, covered, gluonVars, serveVars,
                 parentVars>>

SyncGoesOn == SyncSendsUpdate \/ SyncReports \/ SyncEnds

GluonReads ==
  /\ Running /\ updates > 0 /\ ~closed
  /\ updates' = updates - 1
  /\ UNCHANGED <<runVars, pollerVars, closed, crashed, serveVars, parentVars>>

-----------------------------------------------------------------------------
(* The control channel.                                                    *)

\* Serve reads a resync request and calls IMAPServer.Resync, which takes the
\* poller out of the server under its lock.
ServeReads ==
  /\ Running /\ serve = "reading" /\ requests > 0
  /\ requests' = requests - 1
  /\ IF pollerRef THEN serve' = "calling" /\ asked' = asked + 1
                  ELSE UNCHANGED <<serve, asked>>
  /\ UNCHANGED <<runVars, pollerVars, gluonVars, sent, parentVars>>

\* Poller.Resync: the token goes in, or one is there already.
ServeCalls ==
  /\ Running /\ serve = "calling"
  /\ PutToken
  /\ serve' = "reading"
  /\ UNCHANGED <<runVars, poller, stopped, tick, sends, covered, gluonVars,
                 requests, sent, asked, parentVars>>

\* The connection is gone, the context was cancelled, or the parent sent
\* something that does not decode: Serve returns, and only logs why.
ServeEnds ==
  /\ Running /\ serve = "reading"
  /\ serve' = "ended"
  /\ UNCHANGED <<runVars, pollerVars, gluonVars, requests, sent, asked,
                 parentVars>>

ParentAsks ==
  /\ Running /\ parent = "reading" /\ readySent /\ sent < MaxRequests
  /\ sent' = sent + 1 /\ requests' = requests + 1
  /\ UNCHANGED <<runVars, pollerVars, gluonVars, serve, asked, parentVars>>

ParentReads ==
  /\ parent = "reading" /\ reports > 0
  /\ reports' = reports - 1
  /\ UNCHANGED <<runVars, pollerVars, gluonVars, serveVars, parent, readySent,
                 early>>

ParentStops ==
  /\ parent = "reading"
  /\ parent' = "stalled"
  /\ UNCHANGED <<runVars, pollerVars, gluonVars, serveVars, reports, readySent,
                 early>>

ParentHangsUp ==
  /\ parent # "gone"
  /\ parent' = "gone" /\ reports' = 0
  /\ UNCHANGED <<runVars, pollerVars, gluonVars, serveVars, readySent, early>>

Signal ==
  /\ Running /\ ~ctxDone
  /\ ctxDone' = TRUE
  /\ UNCHANGED <<todo, imap, pollerRef, smtp, startFailures, pollerVars, gluonVars,
                 serveVars, parentVars>>

\* Run has returned, or the process died.
Exited == ~Running /\ UNCHANGED vars

-----------------------------------------------------------------------------
Next ==
  \/ RunStep
  \/ Tick \/ PollerEnds \/ RequestedSync \/ TimedSync \/ SyncGoesOn
  \/ GluonReads \/ ServeReads \/ ServeCalls \/ ServeEnds
  \/ ParentAsks \/ ParentReads \/ ParentStops \/ ParentHangsUp
  \/ Signal \/ Exited

\* Each goroutine that can go on does; select is random among the cases that
\* are ready, so one that is ready again and again is taken; the lock on writes
\* to the socket is handed to whoever waits longest; Gluon reads its channel, and
\* a parent that is reading goes on reading.
Fairness ==
  /\ SF_vars(RunStep) /\ SF_vars(SyncGoesOn)
  /\ SF_vars(PollerEnds) /\ SF_vars(RequestedSync) /\ WF_vars(TimedSync)
  /\ WF_vars(GluonReads) /\ WF_vars(ServeCalls) /\ WF_vars(ParentReads)

SafeSpec == Init /\ [][Next]_vars

Spec == SafeSpec /\ Fairness

-----------------------------------------------------------------------------
(* Properties.                                                             *)

\* No sync sends on the channel Gluon's connector has closed: Close stops the
\* poller, and waits for the cycle in flight, before it closes Gluon
\* (server.go:247-254, poll.go:76).
NeverPanics == ~crashed

\* A resync the parent asked for is not lost: until a sync has started after it,
\* the token that will start one is there (poll.go:35-37).
RequestsKept == asked > covered => reset \/ serve = "calling"

\* "The first sync runs now that the parent knows the bridge is up, so the
\* progress it reports arrives after the readiness it belongs to"
\* (daemon.go:91-92).  A timed sync may still come first, where starting takes
\* longer than the interval.
ReadyFirst == ~early

\* Run "shuts down every started service before returning" (daemon.go:33-34),
\* whichever path it returns by.
NothingLeftRunning ==
  todo = <<>> /\ ~crashed => /\ imap # "serving" /\ smtp # "serving"
                             /\ poller \in {"none", "done"}
                             /\ imap = "closed" => closed

\* Once the signal came, Run returns: the poller's cycle ends and Gluon keeps
\* taking what it sends until then.  A parent that stalls can prevent it.
ShutdownCompletes == ctxDone ~> (todo = <<>> \/ parent = "stalled")

\* Every request gets a sync that starts after it, unless the bridge is being
\* stopped: "one sync leaves the account up to date for all of them"
\* (poll.go:37).
RequestsAnswered ==
  \A n \in 1 .. MaxRequests + 1 : asked >= n ~> (covered >= n \/ stopped \/ parent = "stalled")

-----------------------------------------------------------------------------
(* What a comment says, and the code does not do.                          *)

\* A deadline "prevents a read or write from waiting forever after a peer stops
\* making progress" (control/frame.go:129), so that Run always returns.
AlwaysReturns == ctxDone ~> todo = <<>>

=============================================================================
