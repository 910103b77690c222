------------------------------ MODULE MailSync ------------------------------
(***************************************************************************)
(* The mail connector of internal/imapserver/mailconnector: the sync that  *)
(* brings Gluon, the local IMAP server, in line with the remote account.   *)
(*                                                                         *)
(* Four parties share state.  The account changes on its own (the web      *)
(* client, arriving mail).  Sync lists every folder, compares what it      *)
(* reads with what it remembers, and sends updates over a bounded channel. *)
(* Gluon applies the updates in order.  IMAP clients, through Gluon, write *)
(* to the account with the connector's mutations, one API call per         *)
(* message, and Gluon changes its own view only when all calls succeeded.  *)
(*                                                                         *)
(* One flag ("read") stands for the three a messageState holds.  Reading   *)
(* one folder is one step: paging is not modelled here.  A batch of new    *)
(* messages is announced one message at a time: the batching, and the      *)
(* goroutines that fetch the bodies, are module AnnouncePool.              *)
(***************************************************************************)
EXTENDS Naturals, Sequences

CONSTANTS
  Message,      \* email ids
  Mailbox,      \* the account's folders
  Untyped,      \* the folders whose Type the API leaves empty
  Placement,    \* the sets of folders a message can be in
  Erasing,      \* drafts and trash: expunging there deletes for good
  Trash,        \* where expunging moves mail from any other folder
  Unparsable,   \* messages whose literal cannot be parsed
  NoState,      \* a message that is not there
  NoOp,         \* no client operation in progress
  UpdateBuffer  \* capacity of the updates channel

\* Bounds on the environment, whether mail may change folder in mid-scan, and
\* the operations IMAP clients perform.
CONSTANTS MaxWebChanges, MaxClientOps, MaxFailures, MaxRestarts,
          MovesDuringScan, ClientKind

State == [in : SUBSET Mailbox, read : BOOLEAN]

ASSUME MailSyncAssumption ==
  /\ Untyped \subseteq Mailbox /\ Erasing \subseteq Mailbox
  /\ Trash \in Erasing /\ Unparsable \subseteq Message
  /\ Placement \subseteq (SUBSET Mailbox) \ {{}}
  /\ {Trash} \in Placement
  /\ NoState \notin State
  /\ UpdateBuffer \in Nat \ {0}
  /\ MaxWebChanges \in Nat /\ MaxClientOps \in Nat
  /\ MaxFailures \in Nat /\ MaxRestarts \in Nat
  /\ MovesDuringScan \in BOOLEAN
  /\ ClientKind \subseteq {"seen", "move", "copy", "remove"}

\* An IMAP operation in progress: the messages it names, those whose API call
\* is still to be made, and its arguments.
ClientOp == [kind : {"seen", "move", "copy", "remove"},
             ids : SUBSET Message, todo : SUBSET Message,
             from : Mailbox, to : Mailbox, read : BOOLEAN]

ASSUME NoOpAssumption == NoOp \notin ClientOp

VARIABLES
  server,       \* the account: what the API answers for each message
  gluon,        \* what Gluon's database holds for each message
  gluonBoxes,   \* the folders Gluon knows
  queue,        \* the updates channel
  messages,     \* c.messages: what the last sync saw of a message
  mailboxTypes, \* c.mailboxTypes: the folders whose type has been learnt
  phase,        \* where Sync is: "idle", "scan", "download" or "delete"
  toScan,       \* folders this sync has still to list
  listing,      \* the folder announced but not yet listed, if any
  seen,         \* what this sync read of each message
  work,         \* per folder, the new messages still to download
  complete,     \* every folder answered so far
  outbox,       \* updates computed, not yet accepted by the channel
  clientOp,     \* the IMAP operation Gluon is carrying out, or NoOp
  used,         \* how much of each bound the environment has used
  clean,        \* history: nothing disturbed the current or last cycle
  gone          \* history: messages absent at some point of this cycle

syncVars   == <<phase, toScan, listing, seen, work, complete, outbox>>
memoryVars == <<messages, mailboxTypes>>
gluonVars  == <<gluon, gluonBoxes>>
vars == <<server, gluonVars, queue, memoryVars, syncVars, clientOp, used,
          clean, gone>>

Some(S) == [Message -> S \cup {NoState}]
Nothing == [m \in Message |-> NoState]

Update ==
       [type : {"mailbox"}, box : Mailbox]
  \cup [type : {"created"}, id : Message, box : Mailbox, read : BOOLEAN]
  \cup [type : {"updated"}, id : Message, in : SUBSET Mailbox, read : BOOLEAN]
  \cup [type : {"deleted"}, id : Message]

Work == [box : Mailbox, new : SUBSET [id : Message, read : BOOLEAN]]

Used == [web : 0 .. MaxWebChanges, client : 0 .. MaxClientOps,
         failures : 0 .. MaxFailures, restarts : 0 .. MaxRestarts]

\* The state of every variable has its type, and the channel never holds more
\* than its capacity (connector.go:25, make(chan imap.Update, updateBufferSize)).
TypeOK ==
  /\ server \in Some(State) /\ gluon \in Some(State)
  /\ gluonBoxes \subseteq Mailbox
  /\ queue \in Seq(Update) /\ Len(queue) <= UpdateBuffer
  /\ messages \in Some(State) /\ mailboxTypes \subseteq Mailbox
  /\ phase \in {"idle", "scan", "download", "delete"}
  /\ toScan \subseteq Mailbox /\ listing \subseteq Mailbox
  /\ seen \in Some(State)
  /\ work \in Seq(Work)
  /\ complete \in BOOLEAN
  /\ outbox \subseteq Update
  /\ clientOp \in ClientOp \cup {NoOp}
  /\ used \in Used
  /\ clean \in BOOLEAN /\ gone \subseteq Message

Reachable == {[in |-> p, read |-> r] : p \in Placement, r \in BOOLEAN}

\* New: a connector that remembers nothing, serving a Gluon user of its own.
ConnectorInit ==
  /\ gluon = Nothing /\ gluonBoxes = {}
  /\ queue = <<>>
  /\ messages = Nothing /\ mailboxTypes = {}
  /\ phase = "idle" /\ toScan = {} /\ listing = {} /\ seen = Nothing
  /\ work = <<>> /\ complete = TRUE /\ outbox = {}
  /\ clientOp = NoOp
  /\ clean = FALSE /\ gone = {}

Init ==
  /\ server \in [Message -> Reachable \cup {NoState}]
  /\ ConnectorInit
  /\ used = [web |-> 0, client |-> 0, failures |-> 0, restarts |-> 0]

-----------------------------------------------------------------------------
(* The channel.  A send blocks while it is full.                           *)

Room == Len(queue) < UpdateBuffer

Send(u) == Room /\ queue' = Append(queue, u)

Fail == /\ used.failures < MaxFailures
        /\ used' = [used EXCEPT !.failures = @ + 1]

-----------------------------------------------------------------------------
(* Sync.                                                                   *)

\* Sync begins: the folders are known, nothing has been read of them yet.
StartSync ==
  /\ phase = "idle"
  /\ phase' = "scan" /\ toScan' = Mailbox
  /\ clean' = (clientOp = NoOp)
  /\ gone' = {m \in Message : server[m] = NoState}
  /\ UNCHANGED <<server, gluonVars, queue, memoryVars, listing, seen, work,
                 complete, outbox, clientOp, used>>

\* ListMailboxes failed: the sync ends before it began.
ListMailboxesFails ==
  /\ phase = "idle" /\ Fail
  /\ UNCHANGED <<server, gluonVars, queue, memoryVars, syncVars, clientOp,
                 clean, gone>>

\* scanMailbox announces a folder it has not met, then learns its type.
NoMailboxIsKnown(mb) == FALSE
KnownMailbox(mb) == mb \in mailboxTypes

\* The swapped order: the type is learnt first, so no folder is ever new.
AnnounceMailboxAfterLearning(mb) ==
  /\ phase = "scan" /\ listing = {} /\ outbox = {} /\ mb \in toScan
  /\ mailboxTypes' = mailboxTypes \cup ({mb} \ Untyped)
  /\ \/ mb \in mailboxTypes' /\ UNCHANGED queue
     \/ mb \notin mailboxTypes' /\ Send([type |-> "mailbox", box |-> mb])
  /\ listing' = {mb} /\ toScan' = toScan \ {mb}
  /\ UNCHANGED <<server, gluonVars, messages, phase, seen, work, complete,
                 outbox, clientOp, used, clean, gone>>

AnnounceMailbox(mb) ==
  /\ phase = "scan" /\ listing = {} /\ outbox = {} /\ mb \in toScan
  /\ \/ KnownMailbox(mb) /\ UNCHANGED queue
     \/ ~KnownMailbox(mb) /\ Send([type |-> "mailbox", box |-> mb])
  /\ mailboxTypes' = mailboxTypes \cup ({mb} \ Untyped)
  /\ listing' = {mb} /\ toScan' = toScan \ {mb}
  /\ UNCHANGED <<server, gluonVars, messages, phase, seen, work, complete,
                 outbox, clientOp, used, clean, gone>>

\* What the API lists for a folder: with no type there is no filter.
Listed(mb) ==
  {m \in Message : server[m] # NoState
                   /\ (mb \in Untyped \/ mb \in server[m].in)}

IsKnown(m) == messages[m] # NoState
SameFolders(s, t) == s.in = t.in
SameAs(s, t) == s.in = t.in /\ s.read = t.read

\* The part of ListAllEmails and scanMailbox that follows the announcement: one
\* listing, the changed messages to send, the new ones to download later.
ListMailbox(mb) ==
  LET listed  == Listed(mb)
      new     == {m \in listed : ~IsKnown(m)}
      changed == {m \in listed \ new : ~SameAs(messages[m], server[m])}
  IN
  /\ mb \in listing
  /\ listing' = {}
  /\ seen' = [m \in Message |-> IF m \in listed THEN server[m] ELSE seen[m]]
  /\ outbox' = {[type |-> "updated", id |-> m, in |-> server[m].in,
                 read |-> server[m].read] : m \in changed}
  /\ work' = IF new = {} THEN work
             ELSE Append(work,
                    [box |-> mb,
                     new |-> {[id |-> m, read |-> server[m].read] : m \in new}])
  /\ UNCHANGED <<server, gluonVars, queue, memoryVars, phase, toScan, complete,
                 clientOp, used, clean, gone>>

\* The listing failed: the folder is skipped and the sync goes on without it.
ListMailboxFails(mb) ==
  /\ mb \in listing /\ Fail
  /\ listing' = {} /\ complete' = FALSE /\ clean' = FALSE
  /\ UNCHANGED <<server, gluonVars, queue, memoryVars, phase, toScan, seen,
                 work, outbox, clientOp, gone>>

\* The channel accepts one of the updates a scan or a forget has to send.
SendUpdate ==
  \E u \in outbox :
    /\ Send(u)
    /\ outbox' = outbox \ {u}
    /\ UNCHANGED <<server, gluonVars, memoryVars, phase, toScan, listing, seen,
                   work, complete, clientOp, used, clean, gone>>

StartDownload ==
  /\ phase = "scan" /\ toScan = {} /\ listing = {} /\ outbox = {}
  /\ phase' = "download"
  /\ UNCHANGED <<server, gluonVars, queue, memoryVars, toScan, listing, seen,
                 work, complete, outbox, clientOp, used, clean, gone>>

\* announceNewMessages: one message of the folder being downloaded is announced
\* in that folder, or skipped when its literal cannot be parsed.
AnnounceMessage ==
  /\ phase = "download" /\ work # <<>>
  /\ \E s \in Head(work).new :
       LET rest == Head(work).new \ {s} IN
       /\ IF s.id \in Unparsable
          THEN UNCHANGED queue
          ELSE Send([type |-> "created", id |-> s.id, box |-> Head(work).box,
                     read |-> s.read])
       /\ work' = IF rest = {} THEN Tail(work)
                  ELSE <<[Head(work) EXCEPT !.new = rest]>> \o Tail(work)
  /\ UNCHANGED <<server, gluonVars, memoryVars, phase, toScan, listing, seen,
                 complete, outbox, clientOp, used, clean, gone>>

\* rememberMessages: what this sync read, over what earlier ones did.
ReplacedBySeen == seen
Remembered ==
  [m \in Message |-> IF seen[m] # NoState THEN seen[m] ELSE messages[m]]

\* missingMessages, which only a sync that every folder answered looks for.
MissingAlways == {m \in Message : IsKnown(m) /\ seen[m] = NoState}
Missing == IF complete
           THEN {m \in Message : IsKnown(m) /\ seen[m] = NoState}
           ELSE {}

\* Every folder's messages are downloaded and announced (group.Wait).
DownloadNotAwaited == TRUE
Downloaded == work = <<>>

RememberMessages ==
  /\ phase = "download" /\ Downloaded
  /\ messages' = Remembered
  /\ outbox' = {[type |-> "deleted", id |-> m] : m \in Missing}
  /\ phase' = "delete"
  /\ UNCHANGED <<server, gluonVars, queue, mailboxTypes, toScan, listing, seen,
                 work, complete, clientOp, used, clean, gone>>

\* forgetMessages, once every deletion was sent: the sync is over.
ForgottenNever == messages
Forgotten ==
  [m \in Message |-> IF complete /\ seen[m] = NoState THEN NoState
                                                     ELSE messages[m]]

ForgetMessages ==
  /\ phase = "delete" /\ outbox = {}
  /\ messages' = Forgotten
  /\ phase' = "idle" /\ seen' = Nothing /\ complete' = TRUE /\ gone' = {}
  /\ UNCHANGED <<server, gluonVars, queue, mailboxTypes, toScan, listing, work,
                 outbox, clientOp, used, clean>>

-----------------------------------------------------------------------------
(* Gluon, as the connector relies on it.                                   *)

\* A created message is stored once: for an id Gluon holds already, the folder
\* is added and nothing else changes.  An update replaces folders and flags.
Applied(u) ==
  CASE u.type = "created" ->
         IF gluon[u.id] = NoState
         THEN [gluon EXCEPT ![u.id] = [in |-> {u.box} \cap gluonBoxes,
                                       read |-> u.read]]
         ELSE [gluon EXCEPT ![u.id].in = @ \cup ({u.box} \cap gluonBoxes)]
    [] u.type = "updated" ->
         IF gluon[u.id] = NoState THEN gluon
         ELSE [gluon EXCEPT ![u.id] = [in |-> u.in \cap gluonBoxes,
                                       read |-> u.read]]
    [] u.type = "deleted" -> [gluon EXCEPT ![u.id] = NoState]
    [] OTHER -> gluon

GluonApply ==
  /\ queue # <<>>
  /\ gluon' = Applied(Head(queue))
  /\ gluonBoxes' = IF Head(queue).type = "mailbox"
                   THEN gluonBoxes \cup {Head(queue).box} ELSE gluonBoxes
  /\ queue' = Tail(queue)
  /\ UNCHANGED <<server, memoryVars, syncVars, clientOp, used, clean, gone>>

-----------------------------------------------------------------------------
(* The account changes.                                                    *)

\* A change of folder while a scan runs, where the run excludes it.
MoveExcluded(m, s) ==
  /\ phase = "scan" /\ ~MovesDuringScan
  /\ s # NoState
  /\ IF server[m] = NoState
     THEN IsKnown(m) \/ seen[m] # NoState \/ gluon[m] # NoState
     ELSE s.in # server[m].in

ServerBecomes(m, s) ==
  /\ ~MoveExcluded(m, s)
  /\ server' = [server EXCEPT ![m] = s]
  /\ gone' = IF s = NoState /\ phase # "idle" THEN gone \cup {m} ELSE gone
  /\ clean' = FALSE

WebChange(m) ==
  \E s \in (Reachable \cup {NoState}) \ {server[m]} :
    /\ used.web < MaxWebChanges
    /\ used' = [used EXCEPT !.web = @ + 1]
    /\ ServerBecomes(m, s)
    /\ UNCHANGED <<gluonVars, queue, memoryVars, syncVars, clientOp>>

-----------------------------------------------------------------------------
(* IMAP clients.  Gluon asks the connector, which makes one API call per   *)
(* message and stops at the first error; Gluon changes its own view only   *)
(* when the connector reported no error.                                   *)

\* The folder an operation names must be one whose type the sync has learnt:
\* mailboxTypeOf answers an error otherwise, and nothing happens.
Allowed(op) ==
  /\ op.ids # {} /\ op.todo = op.ids
  /\ \A m \in op.ids : gluon[m] # NoState
  /\ op.kind \in {"move", "remove"} => \A m \in op.ids : op.from \in gluon[m].in
  /\ op.kind \in {"move", "copy"} => op.to \in mailboxTypes
  /\ op.kind = "remove" => op.from \in mailboxTypes

\* Fields a kind of operation does not have are fixed.
Canonical(op) ==
  /\ op.kind = "seen" => op.from = Trash /\ op.to = Trash
  /\ op.kind = "move" => ~op.read /\ op.from # op.to
  /\ op.kind = "copy" => ~op.read /\ op.from = Trash
  /\ op.kind = "remove" => ~op.read /\ op.to = Trash

StartClientOp ==
  /\ clientOp = NoOp /\ used.client < MaxClientOps
  /\ used' = [used EXCEPT !.client = @ + 1]
  /\ \E k \in ClientKind, S \in SUBSET Message,
        f \in Mailbox, t \in Mailbox, r \in BOOLEAN :
       LET op == [kind |-> k, ids |-> S, todo |-> S, from |-> f, to |-> t,
                  read |-> r]
       IN Allowed(op) /\ Canonical(op) /\ clientOp' = op
  /\ clean' = FALSE
  /\ UNCHANGED <<server, gluonVars, queue, memoryVars, syncVars, gone>>

\* What one API call does to a message: MarkRead, Move, or Delete.
ApiEffect(op, s) ==
  CASE op.kind = "seen" -> [s EXCEPT !.read = op.read]
    [] op.kind \in {"move", "copy"} -> [s EXCEPT !.in = {op.to}]
    [] op.kind = "remove" /\ op.from \in Erasing -> NoState
    [] OTHER -> [s EXCEPT !.in = {Trash}]

ApiCall ==
  /\ clientOp # NoOp
  /\ \E m \in clientOp.todo :
       /\ server[m] # NoState
       /\ ServerBecomes(m, ApiEffect(clientOp, server[m]))
       /\ clientOp' = [clientOp EXCEPT !.todo = @ \ {m}]
  /\ UNCHANGED <<gluonVars, queue, memoryVars, syncVars, used>>

\* A call fails, because the message is gone or the API did: the calls already
\* made stand, the rest are not made, and Gluon reports the error.
ClientOpFails ==
  /\ clientOp # NoOp
  /\ \E m \in clientOp.todo :
       \/ server[m] = NoState /\ UNCHANGED used
       \/ server[m] # NoState /\ Fail
  /\ clientOp' = NoOp /\ clean' = FALSE
  /\ UNCHANGED <<server, gluonVars, queue, memoryVars, syncVars, gone>>

\* What Gluon then does to its own view of a message it still holds.
LocalEffect(op, g) ==
  CASE op.kind = "seen" -> [g EXCEPT !.read = op.read]
    [] op.kind = "move" -> [g EXCEPT !.in = (@ \ {op.from}) \cup {op.to}]
    [] op.kind = "copy" -> [g EXCEPT !.in = @ \cup {op.to}]
    [] OTHER -> [g EXCEPT !.in = @ \ {op.from}]

ClientOpDone ==
  /\ clientOp # NoOp /\ clientOp.todo = {}
  /\ gluon' = [m \in Message |->
                 IF m \in clientOp.ids /\ gluon[m] # NoState
                 THEN LocalEffect(clientOp, gluon[m]) ELSE gluon[m]]
  /\ clientOp' = NoOp /\ clean' = FALSE
  /\ UNCHANGED <<server, gluonBoxes, queue, memoryVars, syncVars, used, gone>>

-----------------------------------------------------------------------------
(* The bridge stops, at any point, and is started again.                   *)

Restart ==
  /\ used.restarts < MaxRestarts
  /\ used' = [used EXCEPT !.restarts = @ + 1]
  /\ gluon' = Nothing /\ gluonBoxes' = {}
  /\ queue' = <<>>
  /\ messages' = Nothing /\ mailboxTypes' = {}
  /\ phase' = "idle" /\ toScan' = {} /\ listing' = {} /\ seen' = Nothing
  /\ work' = <<>> /\ complete' = TRUE /\ outbox' = {}
  /\ clientOp' = NoOp
  /\ clean' = FALSE /\ gone' = {}
  /\ UNCHANGED server

-----------------------------------------------------------------------------
Sync ==
  \/ StartSync \/ ListMailboxesFails
  \/ \E mb \in Mailbox : \/ AnnounceMailbox(mb)
                         \/ ListMailbox(mb)
                         \/ ListMailboxFails(mb)
  \/ SendUpdate \/ StartDownload \/ AnnounceMessage
  \/ RememberMessages \/ ForgetMessages

Client == StartClientOp \/ ApiCall \/ ClientOpFails \/ ClientOpDone

Next ==
  \/ Sync \/ GluonApply \/ Client \/ Restart
  \/ \E m \in Message : WebChange(m)

\* The poller starts a sync again and again (poll.go:55), the sync goes on while
\* the channel takes updates, and Gluon keeps reading it.  A client's operation
\* ends.  Nothing is assumed of the account, of failures, or of restarts.
Fairness ==
  /\ WF_vars(Sync) /\ WF_vars(GluonApply)
  /\ WF_vars(ApiCall \/ ClientOpFails \/ ClientOpDone)

Spec == Init /\ [][Next]_vars

FairSpec == Spec /\ Fairness

-----------------------------------------------------------------------------
(* Properties.                                                             *)

\* A folder is announced to Gluon before any message is announced in it: Gluon
\* drops, without a word, a folder it does not know (connector.go:201-202,
\* scanMailbox announcing first, and 157, the message sent later).
FolderFirst ==
  \A i \in 1 .. Len(queue) :
    queue[i].type = "created" =>
      \/ queue[i].box \in gluonBoxes
      \/ \E j \in 1 .. i - 1 :
           queue[j].type = "mailbox" /\ queue[j].box = queue[i].box

\* "A folder is announced once" (connector.go:199).
FolderAnnouncedOnce ==
  queue # <<>> /\ Head(queue).type = "mailbox"
    => Head(queue).box \notin gluonBoxes

Creates(u, m) == u.type = "created" /\ u.id = m
Deletes(u, m) == u.type = "deleted" /\ u.id = m

\* Once the channel is drained, Gluon holds message m.
WillHave(m) ==
  \/ /\ gluon[m] # NoState
     /\ \A i \in 1 .. Len(queue) : ~Deletes(queue[i], m)
  \/ \E i \in 1 .. Len(queue) :
       /\ Creates(queue[i], m)
       /\ \A j \in i + 1 .. Len(queue) : ~Deletes(queue[j], m)

\* A message the sync found gone, while it is telling Gluon so.
Leaving(m) == phase = "delete" /\ complete /\ seen[m] = NoState

\* What the connector remembers, Gluon has or is about to be told: a message
\* remembered too early would never be announced (connector.go:103-107, the
\* download before rememberMessages).  A message on its way out is excepted.
RememberedIsTold ==
  \A m \in Message \ Unparsable : IsKnown(m) /\ ~Leaving(m) => WillHave(m)

\* "Deletions are only safe when every folder answered" (connector.go:109): a
\* deletion is only ever sent for a message that was out of the account at some
\* point of the cycle.
NoFalseDelete ==
  phase = "delete" =>
    \A m \in Message : [type |-> "deleted", id |-> m] \in outbox => m \in gone

\* "announceNewMessages announces messages Gluon has never seen"
\* (connector.go:132): a second announcement would be stored in two folders, or
\* lose its flags.
NewToGluon ==
  queue # <<>> /\ Head(queue).type = "created"
    => gluon[Head(queue).id] = NoState

InLine == \A m \in Message \ Unparsable : gluon[m] = server[m]

\* "Sync brings Gluon in line with the account" (connector.go:69): after a cycle
\* that every folder answered and nothing disturbed, and once Gluon has taken
\* the updates, its view is the account's.
QuietSyncInLine == clean /\ phase = "idle" /\ queue = <<>> => InLine

\* The changes of the account and the failures are finite, so the local view ends
\* up equal to the account's and stays so (poll.go:55-66, the poller's loop).
EventuallyInLine == <>[]InLine

=============================================================================
