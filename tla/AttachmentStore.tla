--------------------------- MODULE AttachmentStore ---------------------------
(***************************************************************************)
(* The store of internal/imapserver/attachmentstore, between Gluon and its *)
(* own store of literals.  The sync stores a message with its attachments  *)
(* declared and filled with padding; the first client to open the message  *)
(* has them downloaded, and the completed literal replaces the stored one. *)
(*                                                                         *)
(* Gluon calls Get from one goroutine per client session, so two sessions  *)
(* may open the same message at once.  The lock guards only the set of     *)
(* resolved messages, never a whole Get.                                   *)
(*                                                                         *)
(* A literal is the set of the attachments whose bytes it carries.  The    *)
(* process's restart is not modelled: each start makes a new Gluon user,   *)
(* with a store of its own (see MailSync).                                 *)
(***************************************************************************)
EXTENDS Naturals

CONSTANTS
  Message,     \* Gluon's internal ids, never used twice
  Attachment,
  Carries,     \* the attachments of each message
  NotOurs,     \* messages a client appended: no account id in their Message-ID
  Reader,      \* the client sessions
  NoMessage,   \* the session opens no message
  MaxFailures  \* bound on the calls that fail

ASSUME AttachmentStoreAssumption ==
  /\ Carries \in [Message -> SUBSET Attachment]
  /\ NotOurs \subseteq Message
  /\ NoMessage \notin Message
  /\ MaxFailures \in Nat

VARIABLES
  files,     \* inner: the messages that have a literal
  stored,    \* inner: their literals
  life,      \* what Gluon does with a message
  resolved,  \* s.resolved
  at,        \* where the Get of each session stands
  msg,       \* the message it reads
  literal,   \* its local variable literal, then complete: what it will return
  left,      \* the attachments DownloadAttachments has still to ask for
  blobs,     \* the attachments it has
  failures,  \* how many calls have failed
  failed,    \* history: a call of this Get failed
  again,     \* history: the message was resolved when this Get began
  spoiled    \* history: messages completed but for an attachment, or not stored

getVars == <<at, msg, literal, left, blobs, failed, again>>
innerVars == <<files, stored>>
vars == <<innerVars, life, resolved, getVars, failures, spoiled>>

Place == {"idle", "check", "thread", "download", "store", "mark", "returned"}

\* The state of every variable has its type.
TypeOK ==
  /\ files \subseteq Message
  /\ stored \in [Message -> SUBSET Attachment]
  /\ life \in [Message -> {"unknown", "kept", "deleting", "deleted"}]
  /\ resolved \subseteq Message
  /\ at \in [Reader -> Place]
  /\ msg \in [Reader -> Message \cup {NoMessage}]
  /\ \A r \in Reader : at[r] # "idle" => msg[r] # NoMessage
  /\ literal \in [Reader -> SUBSET Attachment]
  /\ \A r \in Reader : left[r] # {} => at[r] = "download"
  /\ left \in [Reader -> SUBSET Attachment]
  /\ blobs \in [Reader -> SUBSET Attachment]
  /\ failures \in 0 .. MaxFailures
  /\ failed \in [Reader -> BOOLEAN] /\ again \in [Reader -> BOOLEAN]
  /\ spoiled \subseteq Message

Init ==
  /\ files = {} /\ stored = [m \in Message |-> {}]
  /\ life = [m \in Message |-> "unknown"]
  /\ resolved = {}
  /\ at = [r \in Reader |-> "idle"] /\ msg = [r \in Reader |-> NoMessage]
  /\ literal = [r \in Reader |-> {}]
  /\ left = [r \in Reader |-> {}] /\ blobs = [r \in Reader |-> {}]
  /\ failures = 0
  /\ failed = [r \in Reader |-> FALSE] /\ again = [r \in Reader |-> FALSE]
  /\ spoiled = {}

Whole(m) == Carries[m]

-----------------------------------------------------------------------------
(* Get.                                                                    *)

Goes(r, place) == at' = [at EXCEPT ![r] = place]

Fails(r) ==
  /\ failures < MaxFailures
  /\ failures' = failures + 1 /\ failed' = [failed EXCEPT ![r] = TRUE]

\* The literal is read before anything else is looked at.
Read(r, m) ==
  /\ at[r] = "idle" /\ m \in files
  /\ Goes(r, "check")
  /\ msg' = [msg EXCEPT ![r] = m]
  /\ literal' = [literal EXCEPT ![r] = stored[m]]
  /\ failed' = [failed EXCEPT ![r] = FALSE]
  /\ again' = [again EXCEPT ![r] = m \in resolved]
  /\ UNCHANGED <<innerVars, life, resolved, left, blobs, failures, spoiled>>

\* The swapped order: the message is marked before it is completed.
CheckMarksFirst(r) ==
  /\ at[r] = "check"
  /\ Goes(r, IF msg[r] \in resolved THEN "returned"
             ELSE IF msg[r] \in NotOurs THEN "mark" ELSE "thread")
  /\ resolved' = resolved \cup {msg[r]}
  /\ UNCHANGED <<innerVars, life, msg, literal, left, blobs, failures, failed,
                 again, spoiled>>

\* isResolved, then emailIDOf: there is nothing to complete, or there may be.
Check(r) ==
  /\ at[r] = "check"
  /\ \/ msg[r] \in resolved /\ Goes(r, "returned")
     \/ msg[r] \notin resolved /\ msg[r] \in NotOurs /\ Goes(r, "mark")
     \/ msg[r] \notin resolved /\ msg[r] \notin NotOurs /\ Goes(r, "thread")
  /\ UNCHANGED <<innerVars, life, resolved, msg, literal, left, blobs, failures,
                 failed, again, spoiled>>

\* rawEmail answers: a message without attachments is complete as it is stored.
Thread(r) ==
  /\ at[r] = "thread"
  /\ left' = [left EXCEPT ![r] = Carries[msg[r]]]
  /\ blobs' = [blobs EXCEPT ![r] = {}]
  /\ Goes(r, IF Carries[msg[r]] = {} THEN "store" ELSE "download")
  /\ UNCHANGED <<innerVars, life, resolved, msg, literal, failures, failed,
                 again, spoiled>>

\* The thread is not answered, or it cannot be decrypted, or the rebuilt message
\* cannot take Gluon's header: the literal is served as it was stored.
AfterFailedResolveMarks == "mark"
AfterFailedResolve == "returned"

ResolveFails(r) ==
  /\ at[r] \in {"thread", "download"} /\ left[r] = {} /\ Fails(r)
  /\ Goes(r, AfterFailedResolve)
  /\ UNCHANGED <<innerVars, life, resolved, msg, literal, left, blobs, again,
                 spoiled>>

\* One attachment travels.
Download(r) ==
  /\ at[r] = "download"
  /\ \E a \in left[r] :
       /\ left' = [left EXCEPT ![r] = @ \ {a}]
       /\ blobs' = [blobs EXCEPT ![r] = @ \cup {a}]
  /\ UNCHANGED <<innerVars, life, resolved, at, msg, literal, failures, failed,
                 again, spoiled>>

\* One attachment does not come, or cannot be decrypted: the others go on.
DownloadFails(r) ==
  /\ at[r] = "download" /\ Fails(r)
  /\ \E a \in left[r] : left' = [left EXCEPT ![r] = @ \ {a}]
  /\ spoiled' = spoiled \cup {msg[r]}
  /\ UNCHANGED <<innerVars, life, resolved, at, msg, literal, blobs, again>>

\* BuildLiteralWithAttachments: what did not come stays padding.
Build(r) ==
  /\ at[r] = "download" /\ left[r] = {}
  /\ literal' = [literal EXCEPT ![r] = blobs[r]]
  /\ Goes(r, "store")
  /\ UNCHANGED <<innerVars, life, resolved, msg, left, blobs, failures, failed,
                 again, spoiled>>

\* The completed literal replaces the stored one.
Put(m, l) ==
  files' = files \cup {m} /\ stored' = [stored EXCEPT ![m] = l]

Store(r) ==
  /\ at[r] = "store"
  /\ Put(msg[r], literal[r])
  /\ Goes(r, "mark")
  /\ UNCHANGED <<life, resolved, msg, literal, left, blobs, failures, failed,
                 again, spoiled>>

\* It could not be stored: that is logged, and Get goes on.
StoreFails(r) ==
  /\ at[r] = "store" /\ Fails(r)
  /\ spoiled' = spoiled \cup {msg[r]}
  /\ Goes(r, "mark")
  /\ UNCHANGED <<innerVars, life, resolved, msg, literal, left, blobs, again>>

\* markResolved, and the literal is returned.
Mark(r) ==
  /\ at[r] = "mark"
  /\ resolved' = resolved \cup {msg[r]}
  /\ Goes(r, "returned")
  /\ UNCHANGED <<innerVars, life, msg, literal, left, blobs, failures, failed,
                 again, spoiled>>

\* The client has the literal, and may ask again.
Return(r) ==
  /\ at[r] = "returned"
  /\ Goes(r, "idle") /\ msg' = [msg EXCEPT ![r] = NoMessage]
  /\ literal' = [literal EXCEPT ![r] = {}] /\ blobs' = [blobs EXCEPT ![r] = {}]
  /\ failed' = [failed EXCEPT ![r] = FALSE]
  /\ again' = [again EXCEPT ![r] = FALSE]
  /\ UNCHANGED <<innerVars, life, resolved, left, failures, spoiled>>

-----------------------------------------------------------------------------
(* Gluon's other calls.                                                    *)

\* Set: the sync announced a message, or a client appended one.
Set(m) ==
  /\ life[m] = "unknown"
  /\ life' = [life EXCEPT ![m] = "kept"]
  /\ resolved' = resolved \ {m}
  /\ Put(m, IF m \in NotOurs THEN Whole(m) ELSE {})
  /\ UNCHANGED <<getVars, failures, spoiled>>

\* Delete forgets that the message was complete, then removes it.
Forget(m) ==
  /\ life[m] = "kept"
  /\ life' = [life EXCEPT ![m] = "deleting"]
  /\ resolved' = resolved \ {m}
  /\ UNCHANGED <<innerVars, getVars, failures, spoiled>>

Remove(m) ==
  /\ life[m] = "deleting"
  /\ life' = [life EXCEPT ![m] = "deleted"]
  /\ files' = files \ {m} /\ stored' = [stored EXCEPT ![m] = {}]
  /\ UNCHANGED <<resolved, getVars, failures, spoiled>>

-----------------------------------------------------------------------------
Get(r) ==
  \/ \E m \in Message : Read(r, m)
  \/ Check(r) \/ Thread(r) \/ ResolveFails(r) \/ Download(r) \/ DownloadFails(r)
  \/ Build(r) \/ Store(r) \/ StoreFails(r) \/ Mark(r) \/ Return(r)

Gluon(m) == Set(m) \/ Forget(m) \/ Remove(m)

\* Every message has come and gone, and nobody asks for any.
Ended ==
  /\ \A m \in Message : life[m] = "deleted"
  /\ \A r \in Reader : at[r] = "idle"
  /\ UNCHANGED vars

Next == (\E r \in Reader : Get(r)) \/ (\E m \in Message : Gluon(m)) \/ Ended

Spec == Init /\ [][Next]_vars

-----------------------------------------------------------------------------
(* Properties.                                                             *)

\* A message marked complete is stored complete: whatever readers do at once,
\* and however often asking for the message failed as a whole, unless one of its
\* attachments or its storing failed (store.go:79-84).
KeptWhole ==
  \A m \in resolved \ spoiled : life[m] = "kept" => stored[m] = Whole(m)

\* A client that opens a message already completed gets all of it, whatever
\* other sessions do meanwhile (store.go:57-59).
OpenedAgainIsWhole ==
  \A r \in Reader :
    at[r] = "returned" /\ again[r] /\ msg[r] \notin spoiled
      => literal[r] = Whole(msg[r]) \/ life[msg[r]] # "kept"

-----------------------------------------------------------------------------
(* What a comment says, and the code does not do.                          *)

\* "Get returns a message, downloading its attachments the first time it is
\* asked for"; only "a message that cannot be completed is served as it was
\* stored" (store.go:41-50).
ServedWhole ==
  \A r \in Reader :
    at[r] = "returned" /\ ~failed[r] => literal[r] = Whole(msg[r])

=============================================================================
