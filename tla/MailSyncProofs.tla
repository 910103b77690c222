-------------------------- MODULE MailSyncProofs --------------------------
(***************************************************************************)
(* Theorems about MailSync, for any messages, folders, channel capacity    *)
(* and bounds: the types; folders before their messages; what is           *)
(* remembered was told; nothing in the account is reported deleted; a      *)
(* folder is announced once; a message announced is new to Gluon; and a    *)
(* sync nobody disturbs leaves Gluon with the account's view.              *)
(***************************************************************************)
EXTENDS MailSync, TLAPS

(***************************************************************************)
(* Types.                                                                  *)
(***************************************************************************)

LEMMA InitTypeOK == Init => TypeOK
<1>1. Reachable \subseteq State
  BY MailSyncAssumption DEF Reachable, State
<1>2. Nothing \in Some(State)
  BY DEF Nothing, Some
<1>3. <<>> \in Seq(Update) /\ Len(<<>>) <= UpdateBuffer /\ <<>> \in Seq(Work)
  BY MailSyncAssumption
<1>4. Init => server \in Some(State) /\ used \in Used
  BY <1>1, MailSyncAssumption DEF Init, Some, Used
<1>. QED
  BY <1>2, <1>3, <1>4 DEF Init, ConnectorInit, TypeOK

\* A send keeps the channel within its capacity.
LEMMA SendTypeOK ==
  ASSUME TypeOK, NEW u \in Update, Send(u)
  PROVE  queue' \in Seq(Update) /\ Len(queue') <= UpdateBuffer
<1>1. /\ queue \in Seq(Update) /\ Len(queue) < UpdateBuffer
      /\ queue' = Append(queue, u)
  BY DEF TypeOK, Send, Room
<1>. HIDE DEF Update
<1>2. queue' \in Seq(Update) /\ Len(queue') = Len(queue) + 1
  BY <1>1
<1>3. Len(queue) \in Nat
  BY <1>1
<1>. QED
  BY <1>1, <1>2, <1>3, MailSyncAssumption

LEMMA FailTypeOK ==
  ASSUME TypeOK, Fail
  PROVE  used' \in Used
<1>1. used \in Used /\ used.failures + 1 \in 0 .. MaxFailures
  BY MailSyncAssumption DEF TypeOK, Fail, Used
<1>. QED
  BY <1>1 DEF Fail, Used

LEMMA ServerBecomesTypeOK ==
  ASSUME TypeOK, NEW m \in Message, NEW s \in State \cup {NoState},
         ServerBecomes(m, s)
  PROVE  /\ server' \in Some(State) /\ clean' \in BOOLEAN
         /\ gone' \subseteq Message
BY DEF TypeOK, ServerBecomes, Some

\* What one API call makes of a message, and Gluon of its copy, are states.
LEMMA EffectsTypeOK ==
  ASSUME NEW op \in ClientOp, NEW s \in State
  PROVE  /\ ApiEffect(op, s) \in State \cup {NoState}
         /\ LocalEffect(op, s) \in State
BY MailSyncAssumption DEF ClientOp, State, ApiEffect, LocalEffect

LEMMA SyncTypeOK == TypeOK /\ Sync => TypeOK'
<1>. SUFFICES ASSUME TypeOK, Sync PROVE TypeOK'
  OBVIOUS
<1>1. CASE StartSync
  BY <1>1 DEF StartSync, TypeOK, gluonVars, memoryVars
<1>2. CASE ListMailboxesFails
  BY <1>2, FailTypeOK
  DEF ListMailboxesFails, TypeOK, gluonVars, memoryVars, syncVars
<1>3. ASSUME NEW mb \in Mailbox, AnnounceMailbox(mb) PROVE TypeOK'
  <2>1. [type |-> "mailbox", box |-> mb] \in Update
    BY DEF Update
  <2>2. queue' \in Seq(Update) /\ Len(queue') <= UpdateBuffer
    BY <1>3, <2>1, SendTypeOK DEF AnnounceMailbox, TypeOK
  <2>. QED
    BY <1>3, <2>2 DEF AnnounceMailbox, TypeOK, gluonVars
<1>4. ASSUME NEW mb \in Mailbox, ListMailbox(mb) PROVE TypeOK'
  <2>. DEFINE new == {m \in Listed(mb) : ~IsKnown(m)}
              items == {[id |-> m, read |-> server[m].read] : m \in new}
  <2>1. \A m \in Listed(mb) : m \in Message /\ server[m] \in State
    BY DEF Listed, TypeOK, Some
  <2>2. items \subseteq [id : Message, read : BOOLEAN]
    BY <2>1 DEF State
  <2>3. work' \in Seq(Work)
    <3>. DEFINE w == [box |-> mb, new |-> items]
    <3>1. w \in Work
      BY <2>2 DEF Work
    <3>2. work' = work \/ work' = Append(work, w)
      BY <1>4 DEF ListMailbox
    <3>3. work \in Seq(Work)
      BY DEF TypeOK
    <3>. HIDE DEF w
    <3>. QED
      BY <3>1, <3>2, <3>3
  <2>4. outbox' \subseteq Update
    BY <1>4, <2>1 DEF ListMailbox, Update, State
  <2>5. seen' \in Some(State)
    BY <1>4, <2>1 DEF ListMailbox, TypeOK, Some
  <2>. QED
    BY <1>4, <2>3, <2>4, <2>5 DEF ListMailbox, TypeOK, gluonVars, memoryVars
<1>5. ASSUME NEW mb \in Mailbox, ListMailboxFails(mb) PROVE TypeOK'
  BY <1>5, FailTypeOK DEF ListMailboxFails, TypeOK, gluonVars, memoryVars
<1>6. CASE SendUpdate
  BY <1>6, SendTypeOK DEF SendUpdate, TypeOK, gluonVars, memoryVars
<1>7. CASE StartDownload
  BY <1>7 DEF StartDownload, TypeOK, gluonVars, memoryVars
<1>8. CASE AnnounceMessage
  <2>1. Head(work) \in Work /\ Tail(work) \in Seq(Work)
    BY <1>8 DEF AnnounceMessage, TypeOK
  <2>2. PICK s \in Head(work).new :
          /\ \/ UNCHANGED queue
             \/ Send([type |-> "created", id |-> s.id, box |-> Head(work).box,
                      read |-> s.read])
          /\ work' = IF Head(work).new \ {s} = {} THEN Tail(work)
                     ELSE <<[Head(work) EXCEPT !.new = Head(work).new \ {s}]>>
                          \o Tail(work)
    BY <1>8 DEF AnnounceMessage
  <2>3. [type |-> "created", id |-> s.id, box |-> Head(work).box,
         read |-> s.read] \in Update
    BY <2>1 DEF Work, Update
  <2>4. queue' \in Seq(Update) /\ Len(queue') <= UpdateBuffer
    BY <2>2, <2>3, SendTypeOK DEF TypeOK
  <2>5. work' \in Seq(Work)
    <3>. DEFINE w == [Head(work) EXCEPT !.new = Head(work).new \ {s}]
    <3>1. w \in Work
      BY <2>1 DEF Work
    <3>2. work' = Tail(work) \/ work' = <<w>> \o Tail(work)
      BY <2>2
    <3>. HIDE DEF w
    <3>3. <<w>> \in Seq(Work)
      BY <3>1
    <3>4. <<w>> \o Tail(work) \in Seq(Work)
      BY <2>1, <3>3
    <3>. QED
      BY <2>1, <3>2, <3>4
  <2>. QED
    BY <1>8, <2>4, <2>5 DEF AnnounceMessage, TypeOK, gluonVars, memoryVars
<1>9. CASE RememberMessages
  <2>1. messages' \in Some(State)
    BY <1>9 DEF RememberMessages, Remembered, TypeOK, Some
  <2>2. outbox' \subseteq Update
    BY <1>9 DEF RememberMessages, Missing, Update
  <2>. QED
    BY <1>9, <2>1, <2>2 DEF RememberMessages, TypeOK, gluonVars
<1>10. CASE ForgetMessages
  BY <1>10 DEF ForgetMessages, Forgotten, TypeOK, gluonVars, Some, Nothing
<1>. QED
  BY <1>1, <1>2, <1>3, <1>4, <1>5, <1>6, <1>7, <1>8, <1>9, <1>10 DEF Sync

\* Gluon's database holds states whatever update it applies.
LEMMA AppliedTypeOK ==
  ASSUME TypeOK, NEW u \in Update
  PROVE  Applied(u) \in Some(State)
<1>1. CASE u.type = "created"
  <2>1. u.id \in Message /\ u.box \in Mailbox /\ u.read \in BOOLEAN
    BY <1>1 DEF Update
  <2>2. gluon \in [Message -> State \cup {NoState}]
    BY DEF TypeOK, Some
  <2>3. CASE gluon[u.id] = NoState
    <3>1. Applied(u) = [gluon EXCEPT ![u.id] =
                          [in |-> {u.box} \cap gluonBoxes, read |-> u.read]]
      BY <1>1, <2>3 DEF Applied
    <3>2. [in |-> {u.box} \cap gluonBoxes, read |-> u.read] \in State
      BY <2>1 DEF State
    <3>. QED
      BY <2>2, <3>1, <3>2 DEF Some
  <2>4. CASE gluon[u.id] # NoState
    <3>. DEFINE now == [gluon[u.id] EXCEPT
                          !.in = gluon[u.id].in \cup ({u.box} \cap gluonBoxes)]
    <3>1. Applied(u) = [gluon EXCEPT ![u.id] = now]
      BY <1>1, <2>4 DEF Applied
    <3>2. gluon[u.id] \in State
      BY <2>1, <2>2, <2>4
    <3>3. now \in State
      BY <2>1, <3>2 DEF State
    <3>. HIDE DEF now
    <3>. QED
      BY <2>2, <3>1, <3>3 DEF Some
  <2>. QED
    BY <2>3, <2>4
<1>2. CASE u.type = "updated"
  <2>1. u.id \in Message /\ u.in \subseteq Mailbox /\ u.read \in BOOLEAN
    BY <1>2 DEF Update
  <2>. QED
    BY <1>2, <2>1 DEF Applied, TypeOK, Some, State
<1>3. CASE u.type = "deleted"
  <2>1. u.id \in Message
    BY <1>3 DEF Update
  <2>. QED
    BY <1>3, <2>1 DEF Applied, TypeOK, Some, State
<1>4. CASE u.type = "mailbox"
  BY <1>4 DEF Applied, TypeOK
<1>. QED
  BY <1>1, <1>2, <1>3, <1>4 DEF Update

LEMMA GluonApplyTypeOK == TypeOK /\ GluonApply => TypeOK'
<1>. SUFFICES ASSUME TypeOK, GluonApply PROVE TypeOK'
  OBVIOUS
<1>1. Head(queue) \in Update /\ Tail(queue) \in Seq(Update)
      /\ Len(Tail(queue)) <= UpdateBuffer
  BY MailSyncAssumption DEF GluonApply, TypeOK
<1>2. gluon' \in Some(State)
  BY <1>1, AppliedTypeOK DEF GluonApply
<1>3. gluonBoxes' \subseteq Mailbox
  BY <1>1 DEF GluonApply, TypeOK, Update
<1>. QED
  BY <1>1, <1>2, <1>3 DEF GluonApply, TypeOK, memoryVars, syncVars

LEMMA WebChangeTypeOK ==
  ASSUME TypeOK, NEW m \in Message, WebChange(m)
  PROVE  TypeOK'
<1>1. PICK s \in Reachable \cup {NoState} :
        /\ used.web < MaxWebChanges
        /\ used' = [used EXCEPT !.web = used.web + 1]
        /\ ServerBecomes(m, s)
        /\ UNCHANGED <<gluonVars, queue, memoryVars, syncVars, clientOp>>
  BY DEF WebChange
<1>2. s \in State \cup {NoState}
  BY MailSyncAssumption DEF Reachable, State
<1>3. used' \in Used
  <2>1. used \in Used /\ used.web + 1 \in 0 .. MaxWebChanges
    BY <1>1, MailSyncAssumption DEF TypeOK, Used
  <2>. QED
    BY <1>1, <2>1 DEF Used
<1>. QED
  <2>1. server' \in Some(State) /\ clean' \in BOOLEAN /\ gone' \subseteq Message
    BY <1>1, <1>2, ServerBecomesTypeOK
  <2>. QED
    BY <1>1, <1>3, <2>1 DEF TypeOK, gluonVars, memoryVars, syncVars

LEMMA ClientTypeOK == TypeOK /\ Client => TypeOK'
<1>. SUFFICES ASSUME TypeOK, Client PROVE TypeOK'
  OBVIOUS
<1>1. CASE StartClientOp
  <2>1. clientOp' \in ClientOp
    BY <1>1, MailSyncAssumption DEF StartClientOp, ClientOp
  <2>2. used' \in Used
    <3>1. MaxClientOps \in Nat
      BY MailSyncAssumption
    <3>2. used \in Used /\ used.client < MaxClientOps
      BY <1>1 DEF StartClientOp, TypeOK
    <3>3. used.client + 1 \in 0 .. MaxClientOps
      BY <3>1, <3>2 DEF Used
    <3>. QED
      BY <1>1, <3>2, <3>3 DEF StartClientOp, Used
  <2>. QED
    BY <1>1, <2>1, <2>2
    DEF StartClientOp, TypeOK, gluonVars, memoryVars, syncVars
<1>2. CASE ApiCall
  <2>1. clientOp \in ClientOp
    BY <1>2 DEF ApiCall, TypeOK
  <2>2. PICK m \in clientOp.todo :
          /\ server[m] # NoState
          /\ ServerBecomes(m, ApiEffect(clientOp, server[m]))
          /\ clientOp' = [clientOp EXCEPT !.todo = clientOp.todo \ {m}]
    BY <1>2 DEF ApiCall
  <2>3. m \in Message /\ server[m] \in State
    BY <2>1, <2>2 DEF ClientOp, TypeOK, Some
  <2>4. ApiEffect(clientOp, server[m]) \in State \cup {NoState}
    BY <2>1, <2>3, EffectsTypeOK
  <2>5. clientOp' \in ClientOp
    BY <2>1, <2>2 DEF ClientOp
  <2>. QED
    BY <1>2, <2>2, <2>3, <2>4, <2>5, ServerBecomesTypeOK
    DEF ApiCall, TypeOK, gluonVars, memoryVars, syncVars
<1>3. CASE ClientOpFails
  <2>1. used' \in Used
    BY <1>3, FailTypeOK DEF ClientOpFails, TypeOK
  <2>. QED
    BY <1>3, <2>1 DEF ClientOpFails, TypeOK, gluonVars, memoryVars, syncVars
<1>4. CASE ClientOpDone
  <2>1. gluon' \in Some(State)
    BY <1>4, EffectsTypeOK DEF ClientOpDone, TypeOK, Some
  <2>. QED
    BY <1>4, <2>1 DEF ClientOpDone, TypeOK, memoryVars, syncVars
<1>. QED
  BY <1>1, <1>2, <1>3, <1>4 DEF Client

LEMMA RestartTypeOK == TypeOK /\ Restart => TypeOK'
<1>. SUFFICES ASSUME TypeOK, Restart PROVE TypeOK'
  OBVIOUS
<1>1. used' \in Used
  <2>1. used \in Used /\ used.restarts + 1 \in 0 .. MaxRestarts
    BY MailSyncAssumption DEF Restart, TypeOK, Used
  <2>. QED
    BY <2>1 DEF Restart, Used
<1>2. Nothing \in Some(State)
  BY DEF Nothing, Some
<1>3. <<>> \in Seq(Update) /\ Len(<<>>) <= UpdateBuffer /\ <<>> \in Seq(Work)
  BY MailSyncAssumption
<1>. QED
  BY <1>1, <1>2, <1>3 DEF Restart, TypeOK

LEMMA NextTypeOK == TypeOK /\ [Next]_vars => TypeOK'
<1>1. CASE UNCHANGED vars
  BY <1>1 DEF vars, gluonVars, memoryVars, syncVars, TypeOK
<1>2. CASE Next
  BY <1>2, SyncTypeOK, GluonApplyTypeOK, WebChangeTypeOK, ClientTypeOK,
     RestartTypeOK DEF Next
<1>. QED
  BY <1>1, <1>2

\* Every variable keeps its type, and the updates channel never holds more than
\* it was made for (connector.go:25).
THEOREM TypeCorrect == Spec => []TypeOK
BY InitTypeOK, NextTypeOK, PTL DEF Spec

(***************************************************************************)
(* A folder is announced before its messages.                              *)
(***************************************************************************)

\* The folders Gluon knows, and those whose announcement is in the channel.
Announced ==
  gluonBoxes \cup
  {queue[i].box : i \in {j \in 1 .. Len(queue) : queue[j].type = "mailbox"}}

\* The inductive strengthening of FolderFirst: every folder the connector
\* counts on being known was announced.
FolderInv ==
  /\ FolderFirst
  /\ mailboxTypes \cup listing \subseteq Announced
  /\ \A i \in 1 .. Len(work) : work[i].box \in Announced
  /\ \A u \in outbox : u.type \in {"updated", "deleted"}

\* A send leaves what was announced announced, and keeps folders first when the
\* update sent creates no message in an unannounced folder.
LEMMA SendFolder ==
  ASSUME TypeOK, NEW u \in Update, Send(u), gluonBoxes' = gluonBoxes
  PROVE  /\ Announced \subseteq Announced'
         /\ u.type = "mailbox" => u.box \in Announced'
         /\ FolderFirst /\ (u.type = "created" => u.box \in Announced)
              => FolderFirst'
<1>1. queue \in Seq(Update) /\ queue' = Append(queue, u)
  BY DEF TypeOK, Send
<1>2. /\ Len(queue') = Len(queue) + 1 /\ Len(queue) \in Nat
      /\ \A i \in 1 .. Len(queue) : queue'[i] = queue[i]
      /\ queue'[Len(queue) + 1] = u
  BY <1>1
<1>. HIDE DEF Update
<1>3. Announced \subseteq Announced'
  BY <1>2 DEF Announced
<1>4. u.type = "mailbox" => u.box \in Announced'
  BY <1>2 DEF Announced
<1>5. ASSUME FolderFirst, u.type = "created" => u.box \in Announced
      PROVE  FolderFirst'
  <2>. SUFFICES ASSUME NEW i \in 1 .. Len(queue'), queue'[i].type = "created"
                PROVE  \/ queue'[i].box \in gluonBoxes'
                       \/ \E j \in 1 .. i - 1 :
                            /\ queue'[j].type = "mailbox"
                            /\ queue'[j].box = queue'[i].box
    BY DEF FolderFirst
  <2>1. CASE i \in 1 .. Len(queue)
    BY <1>2, <1>5, <2>1 DEF FolderFirst
  <2>2. CASE i = Len(queue) + 1
    BY <1>2, <1>5, <2>2 DEF Announced
  <2>. QED
    BY <1>2, <2>1, <2>2
<1>. QED
  BY <1>3, <1>4, <1>5

\* Gluon taking an update from the channel disturbs neither.
LEMMA ApplyFolder ==
  ASSUME TypeOK, GluonApply
  PROVE  /\ Announced \subseteq Announced'
         /\ FolderFirst => FolderFirst'
<1>1. /\ queue \in Seq(Update) /\ queue # <<>> /\ queue' = Tail(queue)
      /\ gluonBoxes \subseteq gluonBoxes'
      /\ queue[1].type = "mailbox" => queue[1].box \in gluonBoxes'
  BY DEF TypeOK, GluonApply
<1>2. /\ Len(queue') = Len(queue) - 1 /\ Len(queue) \in Nat \ {0}
      /\ \A i \in 1 .. Len(queue') : queue'[i] = queue[i + 1]
  BY <1>1
<1>3. ASSUME NEW mb, mb \in Announced
      PROVE  mb \in Announced'
  <2>1. CASE mb \in gluonBoxes
    BY <1>1, <2>1 DEF Announced
  <2>2. CASE mb \notin gluonBoxes
    <3>1. PICK i \in 1 .. Len(queue) :
            queue[i].type = "mailbox" /\ queue[i].box = mb
      BY <1>3, <2>2 DEF Announced
    <3>2. CASE i = 1
      BY <1>1, <3>1, <3>2 DEF Announced
    <3>3. CASE i # 1
      <4>1. i - 1 \in 1 .. Len(queue') /\ queue'[i - 1] = queue[i]
        BY <1>2, <3>3
      <4>. QED
        BY <3>1, <4>1 DEF Announced
    <3>. QED
      BY <3>2, <3>3
  <2>. QED
    BY <2>1, <2>2
<1>4. ASSUME FolderFirst
      PROVE  FolderFirst'
  <2>. SUFFICES ASSUME NEW i \in 1 .. Len(queue'), queue'[i].type = "created"
                PROVE  \/ queue'[i].box \in gluonBoxes'
                       \/ \E j \in 1 .. i - 1 :
                            /\ queue'[j].type = "mailbox"
                            /\ queue'[j].box = queue'[i].box
    BY DEF FolderFirst
  <2>1. /\ i + 1 \in 1 .. Len(queue) /\ queue[i + 1] = queue'[i]
        /\ (i + 1) - 1 = i
    BY <1>2
  <2>2. CASE queue[i + 1].box \in gluonBoxes
    BY <1>1, <2>1, <2>2
  <2>3. CASE queue[i + 1].box \notin gluonBoxes
    <3>1. PICK j \in 1 .. i : /\ queue[j].type = "mailbox"
                              /\ queue[j].box = queue[i + 1].box
      BY <1>4, <2>1, <2>3 DEF FolderFirst
    <3>2. CASE j = 1
      BY <1>1, <2>1, <3>1, <3>2
    <3>3. CASE j # 1
      <4>1. j - 1 \in 1 .. i - 1 /\ queue'[j - 1] = queue[j]
        BY <1>2, <3>3
      <4>. QED
        BY <2>1, <3>1, <4>1
    <3>. QED
      BY <3>2, <3>3
  <2>. QED
    BY <2>2, <2>3
<1>. QED
  BY <1>3, <1>4

LEMMA InitFolderInv == Init => FolderInv
BY DEF Init, ConnectorInit, FolderInv, FolderFirst

LEMMA SyncFolderInv == TypeOK /\ FolderInv /\ Sync => FolderInv'
<1>. SUFFICES ASSUME TypeOK, FolderInv, Sync PROVE FolderInv'
  OBVIOUS
<1>a. ASSUME UNCHANGED <<gluonBoxes, queue>>
      PROVE  /\ FolderFirst' /\ Announced \subseteq Announced'
  BY <1>a DEF FolderInv, FolderFirst, Announced
<1>1. CASE StartSync
  BY <1>1, <1>a DEF StartSync, FolderInv, gluonVars, memoryVars
<1>2. CASE ListMailboxesFails
  BY <1>2, <1>a DEF ListMailboxesFails, FolderInv, gluonVars, memoryVars,
       syncVars
<1>3. ASSUME NEW mb \in Mailbox, AnnounceMailbox(mb) PROVE FolderInv'
  <2>. DEFINE u == [type |-> "mailbox", box |-> mb]
  <2>1. u \in Update /\ u.type = "mailbox" /\ u.box = mb
    BY DEF Update
  <2>2. /\ FolderFirst'
        /\ Announced \subseteq Announced'
        /\ mb \in Announced'
    <3>1. CASE KnownMailbox(mb) /\ UNCHANGED queue
      BY <1>3, <1>a, <3>1
      DEF AnnounceMailbox, KnownMailbox, FolderInv, gluonVars
    <3>2. CASE Send(u)
      BY <1>3, <2>1, <3>2, SendFolder DEF AnnounceMailbox, FolderInv, gluonVars
    <3>. QED
      BY <1>3, <3>1, <3>2 DEF AnnounceMailbox
  <2>. QED
    BY <1>3, <2>2 DEF AnnounceMailbox, FolderInv
<1>4. ASSUME NEW mb \in Mailbox, ListMailbox(mb) PROVE FolderInv'
  <2>. DEFINE w(N) == [box |-> mb, new |-> N]
  <2>1. FolderFirst' /\ Announced \subseteq Announced'
    BY <1>4, <1>a DEF ListMailbox, gluonVars
  <2>2. PICK N : work' = work \/ work' = Append(work, w(N))
    BY <1>4 DEF ListMailbox
  <2>3. \A i \in 1 .. Len(work') :
          \/ i \in 1 .. Len(work) /\ work'[i] = work[i]
          \/ work'[i] = w(N)
    <3>1. work \in Seq(Work)
      BY DEF TypeOK
    <3>. QED
      BY <2>2, <3>1
  <2>4. mb \in Announced /\ w(N).box = mb
    BY <1>4 DEF ListMailbox, FolderInv
  <2>5. \A i \in 1 .. Len(work') : work'[i].box \in Announced'
    BY <2>1, <2>3, <2>4 DEF FolderInv
  <2>6. \A v \in outbox' : v.type \in {"updated", "deleted"}
    BY <1>4 DEF ListMailbox
  <2>7. mailboxTypes' = mailboxTypes /\ listing' = {}
    BY <1>4 DEF ListMailbox, memoryVars
  <2>. QED
    BY <2>1, <2>5, <2>6, <2>7 DEF FolderInv
<1>5. ASSUME NEW mb \in Mailbox, ListMailboxFails(mb) PROVE FolderInv'
  BY <1>5, <1>a DEF ListMailboxFails, FolderInv, gluonVars, memoryVars
<1>6. CASE SendUpdate
  <2>1. PICK u \in outbox : Send(u) /\ outbox' = outbox \ {u}
    BY <1>6 DEF SendUpdate
  <2>2. u \in Update /\ u.type # "created"
    BY DEF TypeOK, FolderInv
  <2>3. FolderFirst' /\ Announced \subseteq Announced'
    BY <1>6, <2>1, <2>2, SendFolder DEF SendUpdate, FolderInv, gluonVars
  <2>. QED
    BY <1>6, <2>1, <2>3 DEF SendUpdate, FolderInv, memoryVars
<1>7. CASE StartDownload
  BY <1>7, <1>a DEF StartDownload, FolderInv, gluonVars, memoryVars
<1>8. CASE AnnounceMessage
  <2>. DEFINE u(s) == [type |-> "created", id |-> s.id, box |-> Head(work).box,
                       read |-> s.read]
  <2>1. work \in Seq(Work) /\ work # <<>>
        /\ Head(work) = work[1] /\ 1 \in 1 .. Len(work)
    BY <1>8 DEF AnnounceMessage, TypeOK
  <2>2. PICK s \in Head(work).new :
          /\ UNCHANGED queue \/ Send(u(s))
          /\ \/ work' = Tail(work)
             \/ work' = <<[Head(work) EXCEPT !.new = Head(work).new \ {s}]>>
                        \o Tail(work)
    BY <1>8 DEF AnnounceMessage
  <2>3. u(s) \in Update /\ u(s).box = work[1].box
    <3>1. Head(work) \in Work
      BY <2>1
    <3>2. s \in [id : Message, read : BOOLEAN] /\ Head(work).box \in Mailbox
      BY <3>1 DEF Work
    <3>. QED
      BY <2>1, <3>2 DEF Update
  <2>4. FolderFirst' /\ Announced \subseteq Announced'
    <3>1. CASE UNCHANGED queue
      BY <1>8, <1>a, <3>1 DEF AnnounceMessage, gluonVars
    <3>2. CASE Send(u(s))
      <4>1. u(s).box \in Announced
        BY <2>1, <2>3 DEF FolderInv
      <4>. QED
        BY <1>8, <2>3, <3>2, <4>1, SendFolder
        DEF AnnounceMessage, FolderInv, gluonVars
    <3>. QED
      BY <2>2, <3>1, <3>2
  <2>5. \A i \in 1 .. Len(work') :
          \E j \in 1 .. Len(work) : work'[i].box = work[j].box
    <3>. DEFINE w == [Head(work) EXCEPT !.new = Head(work).new \ {s}]
    <3>1. CASE work' = Tail(work)
      <4>1. \A i \in 1 .. Len(work') : /\ work'[i] = work[i + 1]
                                      /\ i + 1 \in 1 .. Len(work)
        BY <2>1, <3>1
      <4>. QED
        BY <4>1
    <3>2. CASE work' = <<w>> \o Tail(work)
      <4>1. w.box = work[1].box
        BY <2>1 DEF Work
      <4>. HIDE DEF w
      <4>2. Tail(work) \in Seq(Work) /\ Len(Tail(work)) = Len(work) - 1
            /\ Len(work) \in Nat
            /\ \A i \in 1 .. Len(Tail(work)) : Tail(work)[i] = work[i + 1]
        BY <2>1
      <4>3. /\ Len(work') = Len(work)
            /\ work'[1] = w
            /\ \A i \in 2 .. Len(work) : work'[i] = Tail(work)[i - 1]
        BY <3>2, <4>2
      <4>4. \A i \in 2 .. Len(work) : work'[i] = work[i]
        BY <4>2, <4>3
      <4>. QED
        BY <2>1, <4>1, <4>3, <4>4
    <3>. QED
      BY <2>2, <3>1, <3>2
  <2>6. \A i \in 1 .. Len(work') : work'[i].box \in Announced'
    BY <2>4, <2>5 DEF FolderInv
  <2>. QED
    BY <1>8, <2>4, <2>6 DEF AnnounceMessage, FolderInv, memoryVars
<1>9. CASE RememberMessages
  BY <1>9, <1>a DEF RememberMessages, FolderInv, gluonVars
<1>10. CASE ForgetMessages
  BY <1>10, <1>a DEF ForgetMessages, FolderInv, gluonVars
<1>. QED
  BY <1>1, <1>2, <1>3, <1>4, <1>5, <1>6, <1>7, <1>8, <1>9, <1>10 DEF Sync

LEMMA NextFolderInv == TypeOK /\ FolderInv /\ [Next]_vars => FolderInv'
<1>. SUFFICES ASSUME TypeOK, FolderInv, [Next]_vars PROVE FolderInv'
  OBVIOUS
<1>1. CASE Sync
  BY <1>1, SyncFolderInv
<1>2. CASE GluonApply
  BY <1>2, ApplyFolder DEF GluonApply, FolderInv, memoryVars, syncVars
<1>3. CASE Restart
  BY <1>3 DEF Restart, FolderInv, FolderFirst
<1>4. ASSUME UNCHANGED <<gluonBoxes, queue, memoryVars, syncVars>>
      PROVE  FolderInv'
  BY <1>4 DEF FolderInv, FolderFirst, Announced, memoryVars, syncVars
<1>5. CASE Client
  BY <1>4, <1>5
  DEF Client, StartClientOp, ApiCall, ClientOpFails, ClientOpDone, gluonVars
<1>6. ASSUME NEW m \in Message, WebChange(m) PROVE FolderInv'
  BY <1>4, <1>6 DEF WebChange, gluonVars
<1>7. CASE UNCHANGED vars
  BY <1>4, <1>7 DEF vars, gluonVars
<1>. QED
  BY <1>1, <1>2, <1>3, <1>5, <1>6, <1>7 DEF Next

\* No message is ever announced to Gluon before the folder it is announced in
\* (connector.go:198-204): Gluon would store the message in no folder at all.
THEOREM FoldersAnnouncedFirst == Spec => []FolderFirst
<1>1. FolderInv => FolderFirst
  BY DEF FolderInv
<1>. QED
  BY <1>1, InitTypeOK, NextTypeOK, InitFolderInv, NextFolderInv, PTL DEF Spec

(***************************************************************************)
(* What is remembered was told.                                            *)
(***************************************************************************)

\* The message waits to be downloaded and announced.
ToAnnounce(m) ==
  \E i \in 1 .. Len(work) : \E s \in work[i].new : s.id = m

\* The inductive strengthening of RememberedIsTold: during a sync, what was
\* seen is told or waits to be; a deletion is only sent for a message leaving.
ToldInv ==
  /\ RememberedIsTold
  /\ phase # "idle" =>
       \A m \in Message \ Unparsable :
         seen[m] # NoState => WillHave(m) \/ ToAnnounce(m)
  /\ phase = "idle" => seen = Nothing
  /\ phase = "delete" => work = <<>>
  /\ listing # {} => phase = "scan"
  /\ \A u \in outbox : u.type = "deleted" => Leaving(u.id)

\* A send keeps what Gluon will have, a deletion's own message apart, and adds
\* the message it creates.
LEMMA SendTold ==
  ASSUME TypeOK, NEW u \in Update, Send(u), gluon' = gluon, NEW m \in Message
  PROVE  /\ WillHave(m) /\ ~Deletes(u, m) => WillHave(m)'
         /\ Creates(u, m) => WillHave(m)'
<1>1. queue \in Seq(Update) /\ queue' = Append(queue, u)
  BY DEF TypeOK, Send
<1>2. /\ Len(queue') = Len(queue) + 1 /\ Len(queue) \in Nat
      /\ \A i \in 1 .. Len(queue) : queue'[i] = queue[i]
      /\ queue'[Len(queue) + 1] = u
  BY <1>1
<1>. HIDE DEF Update
<1>3. ASSUME WillHave(m), ~Deletes(u, m)
      PROVE  WillHave(m)'
  <2>0. \A j \in 1 .. Len(queue') :
          \/ j \in 1 .. Len(queue) /\ queue'[j] = queue[j]
          \/ j = Len(queue) + 1 /\ queue'[j] = u
    BY <1>2
  <2>1. CASE /\ gluon[m] # NoState
             /\ \A i \in 1 .. Len(queue) : ~Deletes(queue[i], m)
    <3>1. \A i \in 1 .. Len(queue') : ~Deletes(queue'[i], m)
      BY <1>3, <2>0, <2>1
    <3>. QED
      BY <2>1, <3>1 DEF WillHave, Deletes
  <2>2. ASSUME NEW i \in 1 .. Len(queue), Creates(queue[i], m),
               \A j \in i + 1 .. Len(queue) : ~Deletes(queue[j], m)
        PROVE  WillHave(m)'
    <3>1. i \in 1 .. Len(queue') /\ Creates(queue'[i], m)
      BY <1>2, <2>2
    <3>2. \A j \in i + 1 .. Len(queue') : ~Deletes(queue'[j], m)
      <4>1. SUFFICES ASSUME NEW j \in i + 1 .. Len(queue')
                     PROVE  ~Deletes(queue'[j], m)
        OBVIOUS
      <4>2. \/ j \in i + 1 .. Len(queue) /\ queue'[j] = queue[j]
            \/ queue'[j] = u
        BY <1>2
      <4>. QED
        BY <1>3, <2>2, <4>2
    <3>. QED
      BY <3>1, <3>2 DEF WillHave, Creates, Deletes
  <2>. QED
    BY <1>3, <2>1, <2>2 DEF WillHave
<1>4. ASSUME Creates(u, m)
      PROVE  WillHave(m)'
  <2>1. /\ Len(queue) + 1 \in 1 .. Len(queue')
        /\ Creates(queue'[Len(queue) + 1], m)
        /\ (Len(queue) + 1) + 1 .. Len(queue') = {}
    BY <1>2, <1>4
  <2>. QED
    BY <2>1 DEF WillHave, Creates, Deletes
<1>. QED
  BY <1>3, <1>4

\* What an update that does not delete a message leaves of it.
LEMMA AppliedHas ==
  ASSUME TypeOK, NEW u \in Update, NEW m \in Message,
         \/ gluon[m] # NoState /\ ~Deletes(u, m)
         \/ Creates(u, m)
  PROVE  Applied(u)[m] # NoState
<1>. DEFINE box  == {u.box} \cap gluonBoxes
            made == [in |-> box, read |-> u.read]
            more == [gluon[u.id] EXCEPT !.in = gluon[u.id].in \cup box]
            told == [in |-> u.in \cap gluonBoxes, read |-> u.read]
<1>1. gluon \in [Message -> State \cup {NoState}] /\ NoState \notin State
  BY MailSyncAssumption DEF TypeOK, Some
<1>2. CASE u.type = "created"
  <2>1. u.id \in Message /\ u.box \in Mailbox /\ u.read \in BOOLEAN
    BY <1>2 DEF Update
  <2>2. CASE gluon[u.id] = NoState
    <3>1. Applied(u) = [gluon EXCEPT ![u.id] = made]
      BY <1>2, <2>2 DEF Applied
    <3>2. made \in State
      BY <2>1 DEF State
    <3>. HIDE DEF made
    <3>. QED
      BY <1>1, <2>1, <3>1, <3>2 DEF Creates
  <2>3. CASE gluon[u.id] # NoState
    <3>1. Applied(u) = [gluon EXCEPT ![u.id] = more]
      BY <1>2, <2>3 DEF Applied
    <3>2. gluon[u.id] \in State
      BY <1>1, <2>1, <2>3
    <3>3. more \in State
      BY <2>1, <3>2 DEF State
    <3>. HIDE DEF more
    <3>. QED
      BY <1>1, <2>1, <3>1, <3>3 DEF Creates
  <2>. QED
    BY <2>2, <2>3
<1>3. CASE u.type = "updated"
  <2>1. u.id \in Message /\ u.in \subseteq Mailbox /\ u.read \in BOOLEAN
    BY <1>3 DEF Update
  <2>2. gluon[m] # NoState
    BY <1>3 DEF Creates
  <2>3. Applied(u) = gluon \/ Applied(u) = [gluon EXCEPT ![u.id] = told]
    BY <1>3 DEF Applied
  <2>4. told \in State
    BY <2>1 DEF State
  <2>. HIDE DEF told
  <2>. QED
    BY <1>1, <2>1, <2>2, <2>3, <2>4
<1>4. CASE u.type = "deleted"
  <2>1. u.id \in Message /\ u.id # m /\ gluon[m] # NoState
    BY <1>4 DEF Update, Creates, Deletes
  <2>2. Applied(u) = [gluon EXCEPT ![u.id] = NoState]
    BY <1>4 DEF Applied
  <2>. QED
    BY <1>1, <2>1, <2>2
<1>5. CASE u.type = "mailbox"
  BY <1>5 DEF Applied, Creates
<1>. QED
  BY <1>2, <1>3, <1>4, <1>5 DEF Update

\* Applying an update changes where a message is told, not that it is.
LEMMA ApplyTold ==
  ASSUME TypeOK, GluonApply, NEW m \in Message, WillHave(m)
  PROVE  WillHave(m)'
<1>1. /\ queue \in Seq(Update) /\ queue # <<>> /\ queue' = Tail(queue)
      /\ Head(queue) = queue[1] /\ gluon' = Applied(queue[1])
      /\ queue[1] \in Update /\ gluon \in Some(State)
  BY DEF TypeOK, GluonApply
<1>2. /\ Len(queue') = Len(queue) - 1 /\ Len(queue) \in Nat \ {0}
      /\ \A i \in 1 .. Len(queue') : queue'[i] = queue[i + 1]
  BY <1>1
<1>3. ASSUME gluon[m] # NoState, ~Deletes(queue[1], m)
      PROVE  gluon'[m] # NoState
  BY <1>1, <1>3, AppliedHas
<1>4. ASSUME Creates(queue[1], m)
      PROVE  gluon'[m] # NoState
  BY <1>1, <1>4, AppliedHas
<1>. HIDE DEF Update
<1>5. ASSUME gluon'[m] # NoState,
             \A j \in 2 .. Len(queue) : ~Deletes(queue[j], m)
      PROVE  WillHave(m)'
  <2>1. \A i \in 1 .. Len(queue') : ~Deletes(queue'[i], m)
    BY <1>2, <1>5
  <2>. QED
    BY <1>5, <2>1 DEF WillHave, Deletes
<1>6. CASE /\ gluon[m] # NoState
           /\ \A i \in 1 .. Len(queue) : ~Deletes(queue[i], m)
  <2>1. /\ ~Deletes(queue[1], m)
        /\ \A j \in 2 .. Len(queue) : ~Deletes(queue[j], m)
    BY <1>2, <1>6
  <2>. QED
    BY <1>3, <1>5, <1>6, <2>1
<1>7. ASSUME NEW i \in 1 .. Len(queue), Creates(queue[i], m),
             \A j \in i + 1 .. Len(queue) : ~Deletes(queue[j], m)
      PROVE  WillHave(m)'
  <2>1. CASE i = 1
    <3>1. \A j \in 2 .. Len(queue) : ~Deletes(queue[j], m)
      BY <1>7, <2>1
    <3>. QED
      BY <1>4, <1>5, <1>7, <2>1, <3>1
  <2>2. CASE i # 1
    <3>1. i - 1 \in 1 .. Len(queue') /\ Creates(queue'[i - 1], m)
      BY <1>2, <1>7, <2>2
    <3>2. \A j \in (i - 1) + 1 .. Len(queue') : ~Deletes(queue'[j], m)
      BY <1>2, <1>7, <2>2
    <3>. QED
      BY <3>1, <3>2 DEF WillHave, Creates, Deletes
  <2>. QED
    BY <2>1, <2>2
<1>. QED
  BY <1>6, <1>7 DEF WillHave

\* Steps that leave the channel alone and take nothing from Gluon.
LEMMA KeepTold ==
  ASSUME UNCHANGED queue, NEW m \in Message,
         gluon[m] # NoState => gluon'[m] # NoState, WillHave(m)
  PROVE  WillHave(m)'
BY DEF WillHave, Creates, Deletes

\* The announcement of a new message in its folder.
Tells(u, mb, s) ==
  u.type = "created" /\ u.id = s.id /\ u.box = mb /\ u.read = s.read

\* Announcing a message takes it, and nothing else, from what waits.
LEMMA WorkShrinks ==
  ASSUME TypeOK, AnnounceMessage
  PROVE  \E s \in work[1].new, d \in {0, 1} :
           /\ 1 \in 1 .. Len(work) /\ s.id \in Message
           /\ \/ UNCHANGED queue /\ s.id \in Unparsable
              \/ \E u \in Update : Tells(u, work[1].box, s) /\ Send(u)
           /\ \A m : ToAnnounce(m) /\ m # s.id => ToAnnounce(m)'
           /\ \A i \in 1 .. Len(work') :
                /\ i + d \in 1 .. Len(work)
                /\ work'[i].new \subseteq work[i + d].new
                /\ work'[i].box = work[i + d].box
                /\ i + d = 1 => s \notin work'[i].new
<1>. DEFINE u(s) == [type |-> "created", id |-> s.id, box |-> Head(work).box,
                     read |-> s.read]
            v(s) == [Head(work) EXCEPT !.new = Head(work).new \ {s}]
<1>1. work \in Seq(Work) /\ work # <<>> /\ Head(work) \in Work
      /\ Head(work) = work[1] /\ Tail(work) \in Seq(Work)
      /\ Len(Tail(work)) = Len(work) - 1 /\ Len(work) \in Nat \ {0}
      /\ \A i \in 1 .. Len(Tail(work)) : Tail(work)[i] = work[i + 1]
  BY DEF AnnounceMessage, TypeOK
<1>2. PICK s \in Head(work).new :
        /\ \/ UNCHANGED queue /\ s.id \in Unparsable
           \/ Send(u(s))
        /\ \/ work' = Tail(work) /\ Head(work).new \ {s} = {}
           \/ work' = <<v(s)>> \o Tail(work)
  BY DEF AnnounceMessage
<1>3. s.id \in Message /\ u(s) \in Update
  <2>1. s \in [id : Message, read : BOOLEAN] /\ Head(work).box \in Mailbox
    BY <1>1 DEF Work
  <2>. QED
    BY <2>1 DEF Update
<1>4. v(s).new = work[1].new \ {s} /\ v(s).box = work[1].box
  BY <1>1 DEF Work
<1>5. \/ UNCHANGED queue /\ s.id \in Unparsable
      \/ \E x \in Update : Tells(x, work[1].box, s) /\ Send(x)
  <2>1. Tells(u(s), work[1].box, s)
    BY <1>1 DEF Tells
  <2>. HIDE DEF u
  <2>. QED
    BY <1>2, <1>3, <2>1
<1>. HIDE DEF v, u
<1>. DEFINE Rest(d) ==
              /\ \A m : ToAnnounce(m) /\ m # s.id => ToAnnounce(m)'
              /\ \A i \in 1 .. Len(work') :
                   /\ i + d \in 1 .. Len(work)
                   /\ work'[i].new \subseteq work[i + d].new
                   /\ work'[i].box = work[i + d].box
                   /\ i + d = 1 => s \notin work'[i].new
<1>6. ASSUME work' = Tail(work), Head(work).new \ {s} = {}
      PROVE  Rest(1)
  <2>1. \A i \in 1 .. Len(work') :
          /\ i + 1 \in 1 .. Len(work) /\ work'[i] = work[i + 1] /\ i + 1 # 1
    BY <1>1, <1>6
  <2>2. ASSUME NEW m, ToAnnounce(m), m # s.id
        PROVE  ToAnnounce(m)'
    <3>1. PICK i \in 1 .. Len(work) : \E t \in work[i].new : t.id = m
      BY <2>2 DEF ToAnnounce
    <3>2. i # 1
      BY <1>1, <1>6, <2>2, <3>1
    <3>3. i - 1 \in 1 .. Len(work') /\ work'[i - 1] = work[i]
      BY <1>1, <1>6, <3>2
    <3>. QED
      BY <3>1, <3>3 DEF ToAnnounce
  <2>. QED
    BY <2>1, <2>2
<1>7. ASSUME work' = <<v(s)>> \o Tail(work)
      PROVE  Rest(0)
  <2>1. Len(<<v(s)>>) = 1 /\ <<v(s)>>[1] = v(s)
    OBVIOUS
  <2>2. /\ Len(work') = Len(work) /\ work'[1] = v(s)
        /\ \A i \in 2 .. Len(work) : work'[i] = Tail(work)[i - 1]
    BY <1>1, <1>7, <2>1
  <2>3. ASSUME NEW i \in 1 .. Len(work)
        PROVE  /\ i + 0 = i
               /\ \/ i = 1 /\ work'[i].new = work[1].new \ {s}
                     /\ work'[i].box = work[1].box
                  \/ i # 1 /\ work'[i] = work[i]
    <3>1. CASE i = 1
      BY <1>4, <2>2, <3>1
    <3>2. CASE i # 1
      <4>1. i \in 2 .. Len(work) /\ i - 1 \in 1 .. Len(Tail(work))
        BY <1>1, <3>2
      <4>2. Tail(work)[i - 1] = work[(i - 1) + 1] /\ (i - 1) + 1 = i
        BY <1>1, <4>1
      <4>3. work'[i] = Tail(work)[i - 1]
        BY <2>2, <4>1
      <4>4. i + 0 = i
        BY <4>1
      <4>. QED
        BY <3>2, <4>2, <4>3, <4>4
    <3>. QED
      BY <3>1, <3>2
  <2>4. \A m : ToAnnounce(m) /\ m # s.id => ToAnnounce(m)'
    BY <2>2, <2>3 DEF ToAnnounce
  <2>5. \A i \in 1 .. Len(work') :
          /\ i + 0 = i /\ i \in 1 .. Len(work)
          /\ work'[i].new \subseteq work[i].new
          /\ work'[i].box = work[i].box
          /\ i = 1 => s \notin work'[i].new
    BY <2>2, <2>3
  <2>. QED
    BY <2>4, <2>5
<1>8. PICK d \in {0, 1} : Rest(d)
  <2>. HIDE DEF Rest
  <2>. QED
    BY <1>2, <1>6, <1>7
<1>9. s \in work[1].new /\ 1 \in 1 .. Len(work)
  BY <1>1, <1>2
<1>. QED
  BY <1>3, <1>5, <1>8, <1>9, Zenon

LEMMA InitToldInv == Init => ToldInv
BY DEF Init, ConnectorInit, ToldInv, RememberedIsTold, IsKnown, Nothing

LEMMA SyncToldInv == TypeOK /\ ToldInv /\ Sync => ToldInv'
<1>. SUFFICES ASSUME TypeOK, ToldInv, Sync PROVE ToldInv'
  OBVIOUS
<1>a. ASSUME UNCHANGED <<gluon, queue>>
      PROVE  \A m \in Message : WillHave(m) => WillHave(m)'
  BY <1>a, KeepTold
<1>1. CASE StartSync
  BY <1>1, <1>a
  DEF StartSync, ToldInv, RememberedIsTold, IsKnown, Leaving, ToAnnounce,
      Nothing, gluonVars, memoryVars
<1>2. CASE ListMailboxesFails
  BY <1>2, <1>a
  DEF ListMailboxesFails, ToldInv, RememberedIsTold, IsKnown, Leaving,
      ToAnnounce, gluonVars, memoryVars, syncVars
<1>3. ASSUME NEW mb \in Mailbox, AnnounceMailbox(mb) PROVE ToldInv'
  <2>. DEFINE u == [type |-> "mailbox", box |-> mb]
  <2>1. u \in Update /\ \A m : ~Deletes(u, m)
    BY DEF Update, Deletes
  <2>2. \A m \in Message : WillHave(m) => WillHave(m)'
    <3>1. UNCHANGED queue \/ Send(u)
      BY <1>3 DEF AnnounceMailbox
    <3>. QED
      BY <1>3, <1>a, <2>1, <3>1, SendTold DEF AnnounceMailbox, gluonVars
  <2>. QED
    BY <1>3, <2>2
    DEF AnnounceMailbox, ToldInv, RememberedIsTold, IsKnown, Leaving, ToAnnounce
<1>4. ASSUME NEW mb \in Mailbox, ListMailbox(mb) PROVE ToldInv'
  <2>. DEFINE new == {m \in Listed(mb) : ~IsKnown(m)}
              w == [box |-> mb,
                    new |-> {[id |-> m, read |-> server[m].read] : m \in new}]
  <2>1. \A m \in Message : WillHave(m) => WillHave(m)'
    BY <1>4, <1>a DEF ListMailbox, gluonVars
  <2>2. work \in Seq(Work)
        /\ work' = IF new = {} THEN work ELSE Append(work, w)
    BY <1>4 DEF ListMailbox, TypeOK
  <2>3. phase = "scan" /\ phase' = phase /\ messages' = messages
    BY <1>4 DEF ListMailbox, ToldInv, memoryVars
  <2>4. \A m : ToAnnounce(m) => ToAnnounce(m)'
    BY <2>2 DEF ToAnnounce
  <2>5. ASSUME NEW m \in new
        PROVE  ToAnnounce(m)'
    <3>1. [id |-> m, read |-> server[m].read] \in w.new
      OBVIOUS
    <3>2. work' = Append(work, w)
      BY <2>2
    <3>. HIDE DEF w
    <3>3. Len(work') \in 1 .. Len(work') /\ work'[Len(work')] = w
      BY <2>2, <3>2
    <3>. QED
      BY <3>1, <3>3 DEF ToAnnounce
  <2>6. ASSUME NEW m \in Message \ Unparsable, seen'[m] # NoState
        PROVE  WillHave(m)' \/ ToAnnounce(m)'
    <3>1. CASE m \in new
      BY <2>5, <3>1
    <3>2. CASE m \in Listed(mb) /\ IsKnown(m)
      BY <2>1, <2>3, <3>2 DEF ToldInv, RememberedIsTold, Leaving
    <3>3. CASE m \notin Listed(mb)
      <4>1. seen[m] # NoState
        BY <1>4, <2>6, <3>3 DEF ListMailbox
      <4>. QED
        BY <2>1, <2>3, <2>4, <4>1 DEF ToldInv
    <3>. QED
      BY <3>1, <3>2, <3>3
  <2>7. RememberedIsTold'
    BY <2>1, <2>3 DEF ToldInv, RememberedIsTold, IsKnown, Leaving
  <2>8. listing' = {} /\ \A v \in outbox' : v.type = "updated"
    BY <1>4 DEF ListMailbox
  <2>. QED
    BY <2>3, <2>6, <2>7, <2>8 DEF ToldInv
<1>5. ASSUME NEW mb \in Mailbox, ListMailboxFails(mb) PROVE ToldInv'
  <2>1. phase = "scan"
    BY <1>5 DEF ListMailboxFails, ToldInv
  <2>. QED
    BY <1>5, <1>a, <2>1
    DEF ListMailboxFails, ToldInv, RememberedIsTold, IsKnown, Leaving,
        ToAnnounce, gluonVars, memoryVars
<1>6. CASE SendUpdate
  <2>1. PICK u \in outbox : Send(u) /\ outbox' = outbox \ {u}
    BY <1>6 DEF SendUpdate
  <2>2. u \in Update
    BY DEF TypeOK
  <2>3. \A m \in Message : WillHave(m) /\ ~Deletes(u, m) => WillHave(m)'
    BY <1>6, <2>1, <2>2, SendTold DEF SendUpdate, gluonVars
  <2>4. \A m \in Message : Deletes(u, m) => Leaving(m)
    BY DEF ToldInv, Deletes
  <2>5. UNCHANGED <<messages, phase, complete, seen, work, listing>>
    BY <1>6 DEF SendUpdate, memoryVars
  <2>6. RememberedIsTold'
    BY <2>3, <2>4, <2>5 DEF ToldInv, RememberedIsTold, IsKnown, Leaving
  <2>7. ASSUME NEW m \in Message \ Unparsable, phase # "idle",
               seen[m] # NoState
        PROVE  WillHave(m)' \/ ToAnnounce(m)
    BY <2>3, <2>4, <2>7 DEF ToldInv, Leaving
  <2>. QED
    BY <2>1, <2>5, <2>6, <2>7 DEF ToldInv, ToAnnounce, Leaving
<1>7. CASE StartDownload
  BY <1>7, <1>a
  DEF StartDownload, ToldInv, RememberedIsTold, IsKnown, Leaving, ToAnnounce,
      gluonVars, memoryVars
<1>8. CASE AnnounceMessage
  <2>1. PICK s \in work[1].new :
          /\ s.id \in Message
          /\ \/ UNCHANGED queue /\ s.id \in Unparsable
             \/ \E u \in Update : Tells(u, work[1].box, s) /\ Send(u)
          /\ \A m : ToAnnounce(m) /\ m # s.id => ToAnnounce(m)'
    BY <1>8, WorkShrinks
  <2>2. UNCHANGED <<gluon, messages, phase, seen, complete, outbox, listing>>
        /\ phase = "download"
    BY <1>8 DEF AnnounceMessage, gluonVars, memoryVars
  <2>3. ASSUME NEW u \in Update, Tells(u, work[1].box, s), Send(u)
        PROVE  /\ \A m \in Message : WillHave(m) => WillHave(m)'
               /\ WillHave(s.id)'
    <3>1. Creates(u, s.id) /\ \A m : ~Deletes(u, m)
      BY <2>3 DEF Tells, Creates, Deletes
    <3>. QED
      BY <2>1, <2>2, <2>3, <3>1, SendTold
  <2>4. /\ \A m \in Message : WillHave(m) => WillHave(m)'
        /\ s.id \notin Unparsable => WillHave(s.id)'
    BY <1>a, <2>1, <2>2, <2>3
  <2>5. RememberedIsTold'
    BY <2>2, <2>4 DEF ToldInv, RememberedIsTold, IsKnown, Leaving
  <2>6. \A m \in Message \ Unparsable :
          seen[m] # NoState => WillHave(m)' \/ ToAnnounce(m)'
    BY <2>1, <2>2, <2>4 DEF ToldInv
  <2>. QED
    BY <2>2, <2>5, <2>6 DEF ToldInv, Leaving
<1>9. CASE RememberMessages
  <2>1. \A m \in Message : WillHave(m) => WillHave(m)'
    BY <1>9, <1>a DEF RememberMessages, gluonVars
  <2>2. /\ phase = "download" /\ phase' = "delete" /\ work = <<>>
        /\ work' = work /\ seen' = seen /\ complete' = complete
        /\ listing' = listing /\ messages' = Remembered
    BY <1>9 DEF RememberMessages, Downloaded
  <2>3. \A m \in Message \ Unparsable : seen[m] # NoState => WillHave(m)
    BY <2>2 DEF ToldInv, ToAnnounce
  <2>4. ASSUME NEW m \in Message \ Unparsable, messages'[m] # NoState,
               ~(complete /\ seen[m] = NoState)
        PROVE  WillHave(m)
    BY <2>2, <2>3, <2>4
    DEF Remembered, ToldInv, RememberedIsTold, IsKnown, Leaving
  <2>5. RememberedIsTold'
    BY <2>1, <2>2, <2>4 DEF RememberedIsTold, IsKnown, Leaving
  <2>6. \A v \in outbox' : Leaving(v.id)'
    BY <1>9, <2>2 DEF RememberMessages, Missing, Leaving
  <2>. QED
    BY <2>1, <2>2, <2>3, <2>5, <2>6 DEF ToldInv
<1>10. CASE ForgetMessages
  <2>1. \A m \in Message : WillHave(m) => WillHave(m)'
    BY <1>10, <1>a DEF ForgetMessages, gluonVars
  <2>2. RememberedIsTold'
    BY <1>10, <2>1
    DEF ForgetMessages, Forgotten, ToldInv, RememberedIsTold, IsKnown, Leaving
  <2>. QED
    BY <1>10, <2>2 DEF ForgetMessages, ToldInv
<1>. QED
  BY <1>1, <1>2, <1>3, <1>4, <1>5, <1>6, <1>7, <1>8, <1>9, <1>10 DEF Sync

LEMMA NextToldInv == TypeOK /\ ToldInv /\ [Next]_vars => ToldInv'
<1>. SUFFICES ASSUME TypeOK, ToldInv, [Next]_vars PROVE ToldInv'
  OBVIOUS
<1>a. ASSUME UNCHANGED <<messages, phase, seen, work, complete, outbox,
                         listing>>,
             \A m \in Message : WillHave(m) => WillHave(m)'
      PROVE  ToldInv'
  BY <1>a DEF ToldInv, RememberedIsTold, IsKnown, Leaving, ToAnnounce
<1>1. CASE Sync
  BY <1>1, SyncToldInv
<1>2. CASE GluonApply
  BY <1>2, <1>a, ApplyTold DEF GluonApply, memoryVars, syncVars
<1>3. CASE Restart
  BY <1>3
  DEF Restart, ToldInv, RememberedIsTold, IsKnown, Nothing
<1>4. ASSUME UNCHANGED <<gluon, queue, memoryVars, syncVars>>
      PROVE  ToldInv'
  BY <1>4, <1>a, KeepTold DEF memoryVars, syncVars
<1>5. CASE Client
  <2>1. CASE ClientOpDone
    <3>1. \A m \in Message : gluon[m] # NoState => gluon'[m] # NoState
      BY <2>1, EffectsTypeOK, MailSyncAssumption
      DEF ClientOpDone, TypeOK, Some
    <3>2. \A m \in Message : WillHave(m) => WillHave(m)'
      BY <2>1, <3>1, KeepTold DEF ClientOpDone
    <3>. QED
      BY <1>a, <2>1, <3>2 DEF ClientOpDone, memoryVars, syncVars
  <2>. QED
    BY <1>4, <1>5, <2>1
    DEF Client, StartClientOp, ApiCall, ClientOpFails, gluonVars
<1>6. ASSUME NEW m \in Message, WebChange(m) PROVE ToldInv'
  BY <1>4, <1>6 DEF WebChange, gluonVars
<1>7. CASE UNCHANGED vars
  BY <1>4, <1>7 DEF vars, gluonVars
<1>. QED
  BY <1>1, <1>2, <1>3, <1>5, <1>6, <1>7 DEF Next

\* Whatever the account, the clients, the failures and the restarts do, and in
\* any interleaving, a message the connector remembers is one Gluon holds or is
\* about to be told of (connector.go:103-107).
THEOREM RememberedMessagesAreTold == Spec => []RememberedIsTold
<1>1. ToldInv => RememberedIsTold
  BY DEF ToldInv
<1>. QED
  BY <1>1, InitTypeOK, NextTypeOK, InitToldInv, NextToldInv, PTL DEF Spec


(***************************************************************************)
(* A deletion is of a message that was out of the account.                 *)
(***************************************************************************)

\* The message is in a folder this sync has still to read.
ToBeListed(m) ==
  server[m] # NoState /\ server[m].in \cap (toScan \cup listing) # {}

\* What NoFalseDelete needs of a sync that every folder has answered so far:
\* each message was read, was out of the account, or is in a folder not read yet.
ScanInv ==
  /\ toScan \cap listing = {} /\ \A a, b \in listing : a = b
  /\ phase # "scan" => toScan = {} /\ listing = {}
  /\ phase = "idle" => complete
  /\ \A m \in Message : server[m] # NoState => server[m].in # {}
  /\ phase # "idle" =>
       \A m \in Message :
         /\ server[m] = NoState => m \in gone
         /\ complete => seen[m] # NoState \/ m \in gone \/ ToBeListed(m)

LEMMA InitScanInv == Init => ScanInv
<1>1. \A s \in Reachable : s.in # {}
  BY MailSyncAssumption DEF Reachable
<1>. QED
  BY <1>1 DEF Init, ConnectorInit, ScanInv

\* A change of the account while no scan runs, or one that moves nothing.
LEMMA ServerBecomesScanInv ==
  ASSUME ~MovesDuringScan, TypeOK, ScanInv,
         NEW m \in Message, NEW s \in State \cup {NoState},
         s # NoState => s.in # {}, ServerBecomes(m, s),
         UNCHANGED <<toScan, listing, phase, complete, seen>>
  PROVE  ScanInv'
<1>1. /\ server' = [server EXCEPT ![m] = s]
      /\ gone \subseteq gone'
      /\ s = NoState /\ phase # "idle" => m \in gone'
  BY DEF ServerBecomes
<1>2. \A n \in Message : server'[n] = IF n = m THEN s ELSE server[n]
  BY <1>1 DEF TypeOK, Some
<1>3. phase = "scan" /\ s # NoState /\ server[m] # NoState
        => s.in = server[m].in
  BY DEF ServerBecomes, MoveExcluded
<1>4. ASSUME NEW n \in Message, phase # "idle", complete
      PROVE  seen[n] # NoState \/ n \in gone' \/ ToBeListed(n)'
  <2>1. CASE n # m
    BY <1>1, <1>2, <1>4, <2>1 DEF ScanInv, ToBeListed
  <2>2. CASE n = m /\ (s = NoState \/ server[m] = NoState)
    BY <1>1, <1>4, <2>2 DEF ScanInv
  <2>3. CASE n = m /\ s # NoState /\ server[m] # NoState
    <3>1. seen[m] # NoState \/ m \in gone \/ ToBeListed(m)
      BY <1>4, <2>3 DEF ScanInv
    <3>2. ToBeListed(m) => s.in = server[m].in
      BY <1>3, <2>3 DEF ScanInv, ToBeListed
    <3>. QED
      BY <1>1, <1>2, <2>3, <3>1, <3>2 DEF ToBeListed
  <2>. QED
    BY <2>1, <2>2, <2>3
<1>5. ASSUME NEW n \in Message
      PROVE  /\ server'[n] # NoState => server'[n].in # {}
             /\ phase # "idle" /\ server'[n] = NoState => n \in gone'
  BY <1>1, <1>2 DEF ScanInv
<1>. QED
  BY <1>4, <1>5 DEF ScanInv

LEMMA SyncScanInv ==
  ASSUME TypeOK, ScanInv, Sync
  PROVE  ScanInv'
<1>a. ASSUME UNCHANGED <<server, toScan, listing, phase, complete, seen, gone>>
      PROVE  ScanInv'
  BY <1>a DEF ScanInv, ToBeListed
<1>1. CASE StartSync
  <2>1. ASSUME NEW m \in Message, server[m] # NoState
        PROVE  server[m].in \cap Mailbox # {}
    <3>1. server[m].in \subseteq Mailbox /\ server[m].in # {}
      BY <2>1 DEF TypeOK, Some, State, ScanInv
    <3>. QED
      BY <3>1
  <2>2. listing = {}
    BY <1>1 DEF StartSync, ScanInv
  <2>. QED
    BY <1>1, <2>1, <2>2 DEF StartSync, ScanInv, ToBeListed
<1>2. CASE ListMailboxesFails
  BY <1>2, <1>a DEF ListMailboxesFails, syncVars
<1>3. ASSUME NEW mb \in Mailbox, AnnounceMailbox(mb) PROVE ScanInv'
  <2>1. /\ listing = {} /\ mb \in toScan /\ phase = "scan"
        /\ listing' = {mb} /\ toScan' = toScan \ {mb}
        /\ UNCHANGED <<server, phase, complete, seen, gone>>
    BY <1>3 DEF AnnounceMailbox
  <2>2. toScan' \cup listing' = toScan \cup listing
    BY <2>1
  <2>. QED
    BY <2>1, <2>2 DEF ScanInv, ToBeListed
<1>4. ASSUME NEW mb \in Mailbox, ListMailbox(mb) PROVE ScanInv'
  <2>1. /\ mb \in listing /\ listing' = {}
        /\ UNCHANGED <<server, phase, complete, toScan, gone>>
        /\ \A m \in Message :
             seen'[m] = IF m \in Listed(mb) THEN server[m] ELSE seen[m]
    BY <1>4 DEF ListMailbox
  <2>2. listing = {mb} /\ phase = "scan"
    BY <2>1 DEF ScanInv
  <2>3. ASSUME NEW m \in Message, complete
        PROVE  seen'[m] # NoState \/ m \in gone' \/ ToBeListed(m)'
    <3>1. CASE m \in Listed(mb)
      BY <2>1, <3>1 DEF Listed
    <3>2. CASE m \notin Listed(mb)
      <4>1. seen[m] # NoState \/ m \in gone \/ ToBeListed(m)
        BY <2>2, <2>3 DEF ScanInv
      <4>2. server[m] # NoState => mb \notin server[m].in
        BY <3>2 DEF Listed
      <4>. QED
        BY <2>1, <2>2, <3>2, <4>1, <4>2 DEF ToBeListed
    <3>. QED
      BY <3>1, <3>2
  <2>. QED
    BY <2>1, <2>2, <2>3 DEF ScanInv
<1>5. ASSUME NEW mb \in Mailbox, ListMailboxFails(mb) PROVE ScanInv'
  BY <1>5 DEF ListMailboxFails, ScanInv
<1>6. CASE SendUpdate \/ AnnounceMessage
  BY <1>6, <1>a DEF SendUpdate, AnnounceMessage
<1>7. CASE StartDownload
  BY <1>7 DEF StartDownload, ScanInv, ToBeListed
<1>8. CASE RememberMessages
  BY <1>8 DEF RememberMessages, ScanInv, ToBeListed
<1>9. CASE ForgetMessages
  BY <1>9 DEF ForgetMessages, ScanInv
<1>. QED
  BY <1>1, <1>2, <1>3, <1>4, <1>5, <1>6, <1>7, <1>8, <1>9 DEF Sync

LEMMA NextScanInv ==
  ASSUME ~MovesDuringScan, TypeOK, ScanInv, [Next]_vars
  PROVE  ScanInv'
<1>a. ASSUME UNCHANGED <<server, syncVars, gone>>
      PROVE  ScanInv'
  BY <1>a DEF ScanInv, ToBeListed, syncVars
<1>1. CASE Sync
  BY <1>1, SyncScanInv
<1>2. CASE GluonApply \/ StartClientOp \/ ClientOpFails \/ ClientOpDone
  BY <1>2, <1>a DEF GluonApply, StartClientOp, ClientOpFails, ClientOpDone
<1>3. CASE ApiCall
  <2>1. clientOp \in ClientOp
    BY <1>3 DEF ApiCall, TypeOK
  <2>2. PICK m \in clientOp.todo :
          /\ server[m] # NoState
          /\ ServerBecomes(m, ApiEffect(clientOp, server[m]))
    BY <1>3 DEF ApiCall
  <2>. DEFINE s == ApiEffect(clientOp, server[m])
  <2>3. m \in Message /\ server[m] \in State /\ server[m].in # {}
    BY <2>1, <2>2 DEF ClientOp, TypeOK, Some, ScanInv
  <2>4. s \in State \cup {NoState}
    BY <2>1, <2>3, EffectsTypeOK
  <2>5. s # NoState => s.in # {}
    BY <2>3 DEF ApiEffect, State
  <2>. HIDE DEF s
  <2>. QED
    BY <1>3, <2>2, <2>3, <2>4, <2>5, ServerBecomesScanInv
    DEF ApiCall, syncVars, s
<1>4. CASE Restart
  BY <1>4 DEF Restart, ScanInv
<1>5. ASSUME NEW m \in Message, WebChange(m) PROVE ScanInv'
  <2>1. PICK s \in Reachable \cup {NoState} : ServerBecomes(m, s)
    BY <1>5 DEF WebChange
  <2>2. s \in State \cup {NoState} /\ (s # NoState => s.in # {})
    BY MailSyncAssumption DEF Reachable, State
  <2>. QED
    BY <1>5, <2>1, <2>2, ServerBecomesScanInv DEF WebChange, syncVars
<1>6. CASE UNCHANGED vars
  BY <1>6, <1>a DEF vars
<1>. QED
  BY <1>1, <1>2, <1>3, <1>4, <1>5, <1>6 DEF Next, Client

\* While mail moves between no folders in mid-scan, a deletion is only ever
\* sent for a message that was out of the account in this cycle, whatever fails
\* and whatever else the account and the clients do (connector.go:109).
THEOREM NothingFalselyDeleted ==
  ASSUME ~MovesDuringScan
  PROVE  Spec => []NoFalseDelete
<1>1. ToldInv /\ ScanInv => NoFalseDelete
  BY DEF ToldInv, ScanInv, NoFalseDelete, Leaving, ToBeListed
<1>2. TypeOK /\ ScanInv /\ [Next]_vars => ScanInv'
  BY NextScanInv
<1>. QED
  BY <1>1, <1>2, InitTypeOK, NextTypeOK, InitToldInv, NextToldInv, InitScanInv,
     PTL DEF Spec

(***************************************************************************)
(* A folder is announced once.                                             *)
(***************************************************************************)

\* Where every folder has a type, the folders Gluon knows or is about to be
\* told of are folders whose type was learnt, each announced once.
OnceInv ==
  /\ gluonBoxes \subseteq mailboxTypes
  /\ \A i \in 1 .. Len(queue) : queue[i].type = "mailbox" =>
       /\ queue[i].box \in mailboxTypes \ gluonBoxes
       /\ \A j \in 1 .. Len(queue) :
            queue[j].type = "mailbox" /\ queue[j].box = queue[i].box => i = j

LEMMA SendOnce ==
  ASSUME TypeOK, OnceInv, NEW u \in Update, Send(u), gluonBoxes' = gluonBoxes,
         mailboxTypes \subseteq mailboxTypes',
         u.type = "mailbox" => u.box \in mailboxTypes' \ mailboxTypes
  PROVE  OnceInv'
<1>1. queue \in Seq(Update) /\ queue' = Append(queue, u)
  BY DEF TypeOK, Send
<1>2. /\ Len(queue') = Len(queue) + 1 /\ Len(queue) \in Nat
      /\ \A i \in 1 .. Len(queue) : queue'[i] = queue[i]
      /\ queue'[Len(queue) + 1] = u
  BY <1>1
<1>. HIDE DEF Update
<1>3. \A i \in 1 .. Len(queue') :
        \/ i \in 1 .. Len(queue) /\ queue'[i] = queue[i]
        \/ i = Len(queue) + 1 /\ queue'[i] = u
  BY <1>2
<1>4. ASSUME NEW i \in 1 .. Len(queue'), queue'[i].type = "mailbox"
      PROVE  queue'[i].box \in mailboxTypes' \ gluonBoxes'
  BY <1>3, <1>4 DEF OnceInv
<1>5. ASSUME NEW i \in 1 .. Len(queue'), NEW j \in 1 .. Len(queue'),
             queue'[i].type = "mailbox", queue'[j].type = "mailbox",
             queue'[i].box = queue'[j].box
      PROVE  i = j
  BY <1>3, <1>5 DEF OnceInv
<1>. QED
  BY <1>4, <1>5 DEF OnceInv

LEMMA ApplyOnce ==
  ASSUME TypeOK, OnceInv, GluonApply
  PROVE  OnceInv'
<1>0. /\ queue \in Seq(Update) /\ queue # <<>> /\ queue' = Tail(queue)
      /\ Head(queue) = queue[1]
  BY DEF TypeOK, GluonApply
<1>. HIDE DEF Update
<1>1. /\ queue \in Seq(Update) /\ queue # <<>> /\ queue' = Tail(queue)
      /\ mailboxTypes' = mailboxTypes
      /\ gluonBoxes' = IF queue[1].type = "mailbox"
                       THEN gluonBoxes \cup {queue[1].box} ELSE gluonBoxes
  BY <1>0 DEF GluonApply, memoryVars
<1>2. /\ Len(queue') = Len(queue) - 1 /\ Len(queue) \in Nat \ {0}
      /\ \A i \in 1 .. Len(queue') : queue'[i] = queue[i + 1]
  BY <1>1
<1>3. \A i \in 1 .. Len(queue') : i + 1 \in 2 .. Len(queue)
  BY <1>2
<1>4. ASSUME NEW i \in 2 .. Len(queue), queue[i].type = "mailbox"
      PROVE  queue[i].box \in mailboxTypes' \ gluonBoxes'
  <2>1. 1 \in 1 .. Len(queue) /\ i \in 1 .. Len(queue) /\ i # 1
    BY <1>2
  <2>. QED
    BY <1>1, <1>4, <2>1 DEF OnceInv
<1>5. gluonBoxes' \subseteq mailboxTypes'
  BY <1>1, <1>2 DEF OnceInv
<1>6. ASSUME NEW i \in 1 .. Len(queue'), NEW j \in 1 .. Len(queue'),
             queue'[i].type = "mailbox", queue'[j].type = "mailbox",
             queue'[i].box = queue'[j].box
      PROVE  i = j
  <2>1. i + 1 \in 1 .. Len(queue) /\ j + 1 \in 1 .. Len(queue)
    BY <1>2
  <2>2. i + 1 = j + 1
    BY <1>2, <1>6, <2>1 DEF OnceInv
  <2>. QED
    BY <1>2, <2>2
<1>7. \A i \in 1 .. Len(queue') :
        queue'[i].type = "mailbox" => queue'[i].box \in mailboxTypes' \ gluonBoxes'
  BY <1>2, <1>3, <1>4
<1>. QED
  BY <1>5, <1>6, <1>7 DEF OnceInv

LEMMA NextOnceInv ==
  ASSUME Untyped = {}, TypeOK, FolderInv, OnceInv, [Next]_vars
  PROVE  OnceInv'
<1>a. ASSUME UNCHANGED <<gluonBoxes, queue, mailboxTypes>>
      PROVE  OnceInv'
  BY <1>a DEF OnceInv
<1>1. ASSUME NEW mb \in Mailbox, AnnounceMailbox(mb) PROVE OnceInv'
  <2>. DEFINE u == [type |-> "mailbox", box |-> mb]
  <2>1. u \in Update /\ u.box = mb
    BY DEF Update
  <2>2. /\ mailboxTypes' = mailboxTypes \cup {mb} /\ gluonBoxes' = gluonBoxes
        /\ \/ mb \in mailboxTypes /\ UNCHANGED queue
           \/ mb \notin mailboxTypes /\ Send(u)
    BY <1>1 DEF AnnounceMailbox, KnownMailbox, gluonVars
  <2>3. CASE mb \in mailboxTypes /\ UNCHANGED queue
    <3>1. mailboxTypes' = mailboxTypes
      BY <2>2, <2>3
    <3>. QED
      BY <1>a, <2>2, <2>3, <3>1
  <2>4. CASE mb \notin mailboxTypes /\ Send(u)
    BY <2>1, <2>2, <2>4, SendOnce
  <2>. QED
    BY <2>2, <2>3, <2>4
<1>2. CASE SendUpdate
  <2>1. PICK u \in outbox : Send(u)
    BY <1>2 DEF SendUpdate
  <2>2. u \in Update /\ u.type # "mailbox"
    BY DEF TypeOK, FolderInv
  <2>. QED
    BY <1>2, <2>1, <2>2, SendOnce DEF SendUpdate, gluonVars, memoryVars
<1>3. CASE AnnounceMessage
  <2>. DEFINE u(s) == [type |-> "created", id |-> s.id, box |-> Head(work).box,
                       read |-> s.read]
  <2>1. PICK s \in Head(work).new : UNCHANGED queue \/ Send(u(s))
    BY <1>3 DEF AnnounceMessage
  <2>2. u(s) \in Update /\ u(s).type # "mailbox"
    <3>1. Head(work) \in Work
      BY <1>3 DEF AnnounceMessage, TypeOK
    <3>2. s \in [id : Message, read : BOOLEAN] /\ Head(work).box \in Mailbox
      BY <3>1 DEF Work
    <3>. QED
      BY <3>2 DEF Update
  <2>3. UNCHANGED <<gluonBoxes, mailboxTypes>>
    BY <1>3 DEF AnnounceMessage, gluonVars, memoryVars
  <2>. QED
    BY <1>a, <2>1, <2>2, <2>3, SendOnce
<1>4. CASE GluonApply
  BY <1>4, ApplyOnce
<1>5. CASE Restart
  BY <1>5 DEF Restart, OnceInv
<1>6. CASE Client
  BY <1>6, <1>a
  DEF Client, StartClientOp, ApiCall, ClientOpFails, ClientOpDone, gluonVars,
      memoryVars
<1>7. ASSUME NEW m \in Message, WebChange(m) PROVE OnceInv'
  BY <1>7, <1>a DEF WebChange, gluonVars, memoryVars
<1>8. ASSUME NEW mb \in Mailbox, ListMailbox(mb) \/ ListMailboxFails(mb)
      PROVE  OnceInv'
  BY <1>8, <1>a DEF ListMailbox, ListMailboxFails, gluonVars, memoryVars
<1>9. CASE \/ StartSync \/ ListMailboxesFails \/ StartDownload
           \/ RememberMessages \/ ForgetMessages \/ UNCHANGED vars
  BY <1>9, <1>a
  DEF StartSync, ListMailboxesFails, StartDownload, RememberMessages,
      ForgetMessages, vars, gluonVars, memoryVars
<1>. QED
  BY <1>1, <1>2, <1>3, <1>4, <1>5, <1>6, <1>7, <1>8, <1>9 DEF Next, Sync

\* A folder whose type the API names is announced to Gluon once in the life of
\* the bridge, in whatever order and however often the syncs meet it
\* (connector.go:199-204).
THEOREM FoldersAnnouncedOnce ==
  ASSUME Untyped = {}
  PROVE  Spec => []FolderAnnouncedOnce
<1>1. TypeOK /\ OnceInv => FolderAnnouncedOnce
  BY DEF TypeOK, OnceInv, FolderAnnouncedOnce
<1>2. TypeOK /\ FolderInv /\ OnceInv /\ [Next]_vars => OnceInv'
  BY NextOnceInv
<1>3. Init => OnceInv
  BY DEF Init, ConnectorInit, OnceInv
<1>. QED
  BY <1>1, <1>2, <1>3, InitTypeOK, NextTypeOK, InitFolderInv, NextFolderInv,
     PTL DEF Spec

(***************************************************************************)
(* A message is announced to Gluon when Gluon does not have it.            *)
(***************************************************************************)

\* When Gluon comes to update i of the channel, it does not hold message m.
LackBefore(i, m) ==
  \/ gluon[m] = NoState /\ \A j \in 1 .. i - 1 : ~Creates(queue[j], m)
  \/ \E k \in 1 .. i - 1 :
       /\ Deletes(queue[k], m)
       /\ \A j \in k + 1 .. i - 1 : ~Creates(queue[j], m)

\* Once the channel is drained, Gluon does not hold message m.
WillLack(m) == LackBefore(Len(queue) + 1, m)

\* A message this sync has read is in no folder still to be read: no folder
\* lists it a second time.
ReadOnce ==
  /\ \A m \in Message :
       server[m] # NoState => \A a, b \in server[m].in : a = b
  /\ \A m \in Message : seen[m] # NoState => ~ToBeListed(m)

\* A message waits once at most to be announced, and was read.
WorkOnce ==
  /\ \A i, j \in 1 .. Len(work) : \A s \in work[i].new, t \in work[j].new :
       s.id = t.id => i = j /\ s = t
  /\ \A m \in Message : ToAnnounce(m) => seen[m] # NoState

\* The inductive strengthening of NewToGluon: what Gluon is told of, waits to be
\* told of, or has not been read by this sync nor by an earlier one, it lacks.
LackInv ==
  /\ \A i \in 1 .. Len(queue) :
       queue[i].type = "created" => LackBefore(i, queue[i].id)
  /\ \A m \in Message :
       /\ ToAnnounce(m) => WillLack(m)
       /\ ~IsKnown(m) /\ seen[m] = NoState => WillLack(m)
       /\ phase = "delete" /\ seen[m] # NoState => IsKnown(m)
       /\ Leaving(m) =>
            [type |-> "deleted", id |-> m] \in outbox \/ WillLack(m)

NewInv == ReadOnce /\ WorkOnce /\ LackInv

\* A send leaves as it was what Gluon lacks at each update sent before it.
LEMMA SendLack ==
  ASSUME TypeOK, NEW u \in Update, Send(u), gluon' = gluon, NEW m \in Message
  PROVE  /\ \A i \in 1 .. Len(queue) + 1 : LackBefore(i, m) => LackBefore(i, m)'
         /\ WillLack(m) /\ ~Creates(u, m) => WillLack(m)'
         /\ Deletes(u, m) => WillLack(m)'
<1>1. queue \in Seq(Update) /\ queue' = Append(queue, u)
  BY DEF TypeOK, Send
<1>2. /\ Len(queue') = Len(queue) + 1 /\ Len(queue) \in Nat
      /\ \A i \in 1 .. Len(queue) : queue'[i] = queue[i]
      /\ queue'[Len(queue) + 1] = u
  BY <1>1
<1>. HIDE DEF Update
<1>3. ASSUME NEW i \in 1 .. Len(queue) + 1, LackBefore(i, m)
      PROVE  LackBefore(i, m)'
  <2>1. \A j \in 1 .. i - 1 : queue'[j] = queue[j]
    BY <1>2
  <2>2. CASE gluon[m] = NoState /\ \A j \in 1 .. i - 1 : ~Creates(queue[j], m)
    BY <2>1, <2>2 DEF LackBefore, Creates
  <2>3. ASSUME NEW k \in 1 .. i - 1, Deletes(queue[k], m),
               \A j \in k + 1 .. i - 1 : ~Creates(queue[j], m)
        PROVE  LackBefore(i, m)'
    <3>1. \A j \in k + 1 .. i - 1 : j \in 1 .. i - 1
      OBVIOUS
    <3>2. /\ Deletes(queue'[k], m)
          /\ \A j \in k + 1 .. i - 1 : ~Creates(queue'[j], m)
      BY <2>1, <2>3, <3>1
    <3>. QED
      BY <3>2 DEF LackBefore, Creates, Deletes
  <2>. QED
    BY <1>3, <2>2, <2>3 DEF LackBefore
<1>n. PICK n \in Nat : n = Len(queue) + 1
  BY <1>2
<1>4. /\ n \in 1 .. n /\ (n + 1) - 1 = n /\ Len(queue') + 1 = n + 1
      /\ \A j \in 1 .. n : j \in 1 .. n - 1 \/ j = n
  BY <1>2, <1>n
<1>5. ASSUME WillLack(m), ~Creates(u, m)
      PROVE  WillLack(m)'
  <2>1. LackBefore(n, m)'
    BY <1>2, <1>n, <1>3, <1>5 DEF WillLack
  <2>2. ~Creates(queue'[n], m)
    BY <1>2, <1>n, <1>5
  <2>3. CASE gluon'[m] = NoState
             /\ \A j \in 1 .. n - 1 : ~Creates(queue'[j], m)
    <3>1. \A j \in 1 .. (n + 1) - 1 : ~Creates(queue'[j], m)
      BY <1>2, <1>n, <2>2, <2>3
    <3>. QED
      BY <1>2, <1>n, <2>3, <3>1 DEF WillLack, LackBefore, Creates
  <2>4. ASSUME NEW k \in 1 .. n - 1, Deletes(queue'[k], m),
               \A j \in k + 1 .. n - 1 : ~Creates(queue'[j], m)
        PROVE  WillLack(m)'
    <3>1. k \in 1 .. (n + 1) - 1
          /\ \A j \in k + 1 .. (n + 1) - 1 : ~Creates(queue'[j], m)
      BY <1>2, <1>n, <2>2, <2>4
    <3>. QED
      BY <1>2, <1>n, <2>4, <3>1 DEF WillLack, LackBefore, Creates, Deletes
  <2>. QED
    BY <1>2, <1>n, <2>1, <2>3, <2>4 DEF LackBefore, Creates, Deletes
<1>6. ASSUME Deletes(u, m)
      PROVE  WillLack(m)'
  <2>1. /\ n \in 1 .. (n + 1) - 1 /\ Deletes(queue'[n], m)
        /\ n + 1 .. (n + 1) - 1 = {}
    BY <1>2, <1>n, <1>6
  <2>. QED
    BY <1>2, <1>n, <2>1 DEF WillLack, LackBefore, Creates, Deletes
<1>. QED
  BY <1>3, <1>5, <1>6

\* What Gluon does not hold and is not told of, it does not hold afterwards; nor
\* what it is told to delete.
LEMMA AppliedLacks ==
  ASSUME TypeOK, NEW u \in Update, NEW m \in Message,
         \/ gluon[m] = NoState /\ ~Creates(u, m)
         \/ Deletes(u, m)
  PROVE  Applied(u)[m] = NoState
<1>1. gluon \in [Message -> State \cup {NoState}]
  BY DEF TypeOK, Some
<1>2. CASE u.type = "created"
  <2>1. u.id # m /\ u.id \in Message
    BY <1>2 DEF Update, Creates, Deletes
  <2>2. gluon[m] = NoState
    BY <1>2 DEF Deletes
  <2>. QED
    BY <1>1, <1>2, <2>1, <2>2 DEF Applied
<1>3. CASE u.type = "updated"
  <2>1. gluon[m] = NoState /\ u.id \in Message
    BY <1>3 DEF Update, Deletes
  <2>. QED
    BY <1>1, <1>3, <2>1 DEF Applied
<1>4. CASE u.type = "deleted"
  <2>1. Applied(u) = [gluon EXCEPT ![u.id] = NoState]
    BY <1>4 DEF Applied
  <2>. QED
    BY <1>1, <1>4, <2>1 DEF Deletes
<1>5. CASE u.type = "mailbox"
  BY <1>5 DEF Applied, Deletes
<1>. QED
  BY <1>2, <1>3, <1>4, <1>5 DEF Update

\* Applying an update changes where a message is lacked, not that it is.
LEMMA ApplyLack ==
  ASSUME TypeOK, GluonApply, NEW m \in Message, NEW i \in 1 .. Len(queue),
         LackBefore(i + 1, m)
  PROVE  LackBefore(i, m)'
<1>1. /\ queue \in Seq(Update) /\ queue # <<>> /\ queue' = Tail(queue)
      /\ Head(queue) = queue[1] /\ gluon' = Applied(queue[1])
      /\ queue[1] \in Update
  BY DEF TypeOK, GluonApply
<1>2. /\ Len(queue') = Len(queue) - 1 /\ Len(queue) \in Nat \ {0}
      /\ \A j \in 1 .. Len(queue') : queue'[j] = queue[j + 1]
  BY <1>1
<1>3. /\ i \in Nat \ {0} /\ (i + 1) - 1 = i /\ 1 \in 1 .. i
      /\ \A j \in 1 .. i - 1 : queue'[j] = queue[j + 1] /\ j + 1 \in 2 .. i
  BY <1>2
<1>4. ASSUME gluon'[m] = NoState, \A j \in 2 .. i : ~Creates(queue[j], m)
      PROVE  LackBefore(i, m)'
  <2>1. \A j \in 1 .. i - 1 : ~Creates(queue'[j], m)
    BY <1>3, <1>4
  <2>. QED
    BY <1>4, <2>1 DEF LackBefore, Creates
<1>5. CASE gluon[m] = NoState /\ \A j \in 1 .. i : ~Creates(queue[j], m)
  <2>1. ~Creates(queue[1], m) /\ \A j \in 2 .. i : ~Creates(queue[j], m)
    BY <1>3, <1>5
  <2>2. gluon'[m] = NoState
    BY <1>1, <1>5, <2>1, AppliedLacks
  <2>. QED
    BY <1>4, <2>1, <2>2
<1>6. ASSUME NEW k \in 1 .. i, Deletes(queue[k], m),
             \A j \in k + 1 .. i : ~Creates(queue[j], m)
      PROVE  LackBefore(i, m)'
  <2>1. CASE k = 1
    <3>1. gluon'[m] = NoState
      BY <1>1, <1>6, <2>1, AppliedLacks
    <3>2. \A j \in 2 .. i : ~Creates(queue[j], m)
      BY <1>6, <2>1
    <3>. QED
      BY <1>4, <3>1, <3>2
  <2>2. CASE k # 1
    <3>1. k - 1 \in 1 .. i - 1 /\ queue'[k - 1] = queue[k]
      BY <1>2, <1>3, <2>2
    <3>2. ASSUME NEW j \in (k - 1) + 1 .. i - 1
          PROVE  ~Creates(queue'[j], m)
      <4>1. j \in 1 .. i - 1 /\ j + 1 \in k + 1 .. i
        BY <1>3
      <4>. QED
        BY <1>3, <1>6, <4>1
    <3>. QED
      BY <1>6, <3>1, <3>2 DEF LackBefore, Creates, Deletes
  <2>. QED
    BY <2>1, <2>2
<1>. QED
  BY <1>3, <1>5, <1>6 DEF LackBefore

\* Steps that leave the channel alone and add nothing to Gluon.
LEMMA KeepLack ==
  ASSUME UNCHANGED queue, NEW m \in Message,
         gluon[m] = NoState => gluon'[m] = NoState
  PROVE  /\ \A i : LackBefore(i, m) => LackBefore(i, m)'
         /\ WillLack(m) => WillLack(m)'
BY DEF LackBefore, WillLack, Creates, Deletes

\* A change of the account while no scan runs, or one that moves nothing.
LEMMA ServerBecomesReadOnce ==
  ASSUME ~MovesDuringScan, TypeOK, ScanInv, ReadOnce,
         NEW m \in Message, NEW s \in State \cup {NoState},
         s # NoState => \A a, b \in s.in : a = b, ServerBecomes(m, s),
         UNCHANGED <<toScan, listing, phase, seen>>
  PROVE  ReadOnce'
<1>1. \A n \in Message : server'[n] = IF n = m THEN s ELSE server[n]
  BY DEF ServerBecomes, TypeOK, Some
<1>2. ASSUME phase = "scan", s # NoState, seen[m] # NoState
      PROVE  server[m] # NoState /\ s.in = server[m].in
  BY <1>2 DEF ServerBecomes, MoveExcluded
<1>3. ASSUME NEW n \in Message, seen[n] # NoState
      PROVE  ~ToBeListed(n)'
  <2>1. CASE phase # "scan"
    BY <2>1 DEF ScanInv, ToBeListed
  <2>2. CASE phase = "scan" /\ n = m /\ s # NoState
    BY <1>1, <1>2, <1>3, <2>2 DEF ReadOnce, ToBeListed
  <2>3. CASE n # m \/ s = NoState
    BY <1>1, <1>3, <2>3 DEF ReadOnce, ToBeListed
  <2>. QED
    BY <2>1, <2>2, <2>3
<1>. QED
  BY <1>1, <1>3 DEF ReadOnce

LEMMA SyncReadOnce ==
  ASSUME Untyped = {}, TypeOK, ToldInv, ScanInv, ReadOnce, Sync
  PROVE  ReadOnce'
<1>a. ASSUME UNCHANGED <<server, toScan, listing, seen>>
      PROVE  ReadOnce'
  BY <1>a DEF ReadOnce, ToBeListed
<1>1. CASE StartSync
  BY <1>1 DEF StartSync, ToldInv, Nothing, ReadOnce
<1>2. CASE ListMailboxesFails
  BY <1>2, <1>a DEF ListMailboxesFails, syncVars
<1>3. ASSUME NEW mb \in Mailbox, AnnounceMailbox(mb) PROVE ReadOnce'
  <2>1. /\ listing = {} /\ mb \in toScan
        /\ listing' = {mb} /\ toScan' = toScan \ {mb}
        /\ UNCHANGED <<server, seen>>
    BY <1>3 DEF AnnounceMailbox
  <2>2. toScan' \cup listing' = toScan \cup listing
    BY <2>1
  <2>. QED
    BY <2>1, <2>2 DEF ReadOnce, ToBeListed
<1>4. ASSUME NEW mb \in Mailbox, ListMailbox(mb) PROVE ReadOnce'
  <2>1. /\ mb \in listing /\ listing' = {} /\ mb \notin toScan
        /\ UNCHANGED <<server, toScan>>
        /\ \A m \in Message :
             seen'[m] = IF m \in Listed(mb) THEN server[m] ELSE seen[m]
    BY <1>4 DEF ListMailbox, ScanInv
  <2>2. ASSUME NEW m \in Message, seen'[m] # NoState
        PROVE  ~ToBeListed(m)'
    <3>1. CASE m \in Listed(mb)
      <4>1. server[m] # NoState /\ mb \in server[m].in
        BY <3>1 DEF Listed
      <4>2. \A a \in server[m].in : a = mb
        BY <4>1 DEF ReadOnce
      <4>. QED
        BY <2>1, <4>2 DEF ToBeListed
    <3>2. CASE m \notin Listed(mb)
      BY <2>1, <2>2, <3>2 DEF ReadOnce, ToBeListed
    <3>. QED
      BY <3>1, <3>2
  <2>. QED
    BY <2>1, <2>2 DEF ReadOnce
<1>5. ASSUME NEW mb \in Mailbox, ListMailboxFails(mb) PROVE ReadOnce'
  BY <1>5 DEF ListMailboxFails, ReadOnce, ToBeListed
<1>6. CASE SendUpdate \/ AnnounceMessage \/ StartDownload \/ RememberMessages
  BY <1>6, <1>a DEF SendUpdate, AnnounceMessage, StartDownload, RememberMessages
<1>7. CASE ForgetMessages
  BY <1>7 DEF ForgetMessages, ReadOnce, Nothing
<1>. QED
  BY <1>1, <1>2, <1>3, <1>4, <1>5, <1>6, <1>7 DEF Sync

\* The messages a listing finds are in no folder read before.
LEMMA ListedUnread ==
  ASSUME Untyped = {}, TypeOK, ReadOnce, NEW mb \in listing, NEW m \in Listed(mb)
  PROVE  m \in Message /\ seen[m] = NoState /\ server[m] # NoState
BY DEF Listed, ReadOnce, ToBeListed

LEMMA ListWorkOnce ==
  ASSUME Untyped = {}, TypeOK, ReadOnce, WorkOnce,
         NEW mb \in Mailbox, ListMailbox(mb)
  PROVE  /\ WorkOnce'
         /\ \A m : ToAnnounce(m)' =>
              ToAnnounce(m) \/ (m \in Listed(mb) /\ ~IsKnown(m))
<1>. DEFINE new == {m \in Listed(mb) : ~IsKnown(m)}
            w == [box |-> mb,
                  new |-> {[id |-> m, read |-> server[m].read] : m \in new}]
<1>1. /\ work \in Seq(Work) /\ mb \in listing
      /\ work' = work \/ work' = Append(work, w)
      /\ \A m \in Message :
           seen'[m] = IF m \in Listed(mb) THEN server[m] ELSE seen[m]
  BY DEF TypeOK, ListMailbox
<1>2. \A m \in new : m \in Message /\ seen[m] = NoState /\ server[m] # NoState
  BY <1>1, ListedUnread
<1>3. /\ \A s \in w.new : s.id \in new
      /\ \A s, t \in w.new : s.id = t.id => s = t
  OBVIOUS
<1>4. ASSUME NEW i \in 1 .. Len(work), NEW s \in work[i].new
      PROVE  ToAnnounce(s.id) /\ s.id \in Message /\ seen[s.id] # NoState
  <2>1. ToAnnounce(s.id)
    BY DEF ToAnnounce
  <2>2. s.id \in Message
    <3>1. work[i] \in Work
      BY <1>1
    <3>. QED
      BY <3>1 DEF Work
  <2>. QED
    BY <2>1, <2>2 DEF WorkOnce
<1>. HIDE DEF w, new
<1>5. \A i \in 1 .. Len(work') :
        \/ i \in 1 .. Len(work) /\ work'[i] = work[i]
        \/ i = Len(work) + 1 /\ work'[i] = w
  BY <1>1
<1>6. ASSUME NEW i \in 1 .. Len(work'), NEW j \in 1 .. Len(work'),
             NEW s \in work'[i].new, NEW t \in work'[j].new, s.id = t.id
      PROVE  i = j /\ s = t
  <2>1. CASE i \in 1 .. Len(work) /\ j \in 1 .. Len(work)
             /\ work'[i] = work[i] /\ work'[j] = work[j]
    BY <1>6, <2>1 DEF WorkOnce
  <2>2. CASE /\ work'[i] = w /\ work'[j] = w
             /\ i = Len(work) + 1 /\ j = Len(work) + 1
    BY <1>3, <1>6, <2>2
  <2>3. CASE work'[i] = w /\ j \in 1 .. Len(work) /\ work'[j] = work[j]
    BY <1>2, <1>3, <1>4, <1>6, <2>3
  <2>4. CASE work'[j] = w /\ i \in 1 .. Len(work) /\ work'[i] = work[i]
    BY <1>2, <1>3, <1>4, <1>6, <2>4
  <2>. QED
    BY <1>5, <2>1, <2>2, <2>3, <2>4
<1>7. ASSUME NEW m, ToAnnounce(m)'
      PROVE  ToAnnounce(m) \/ m \in new
  <2>1. PICK i \in 1 .. Len(work') : \E s \in work'[i].new : s.id = m
    BY <1>7 DEF ToAnnounce
  <2>. QED
    BY <1>3, <1>5, <2>1 DEF ToAnnounce
<1>8. ASSUME NEW m \in Message, ToAnnounce(m)'
      PROVE  seen'[m] # NoState
  <2>1. m \in Listed(mb) => server[m] # NoState
    BY DEF Listed
  <2>2. m \in new => m \in Listed(mb)
    BY DEF new
  <2>. QED
    BY <1>1, <1>7, <1>8, <2>1, <2>2 DEF WorkOnce
<1>9. WorkOnce'
  BY <1>6, <1>8 DEF WorkOnce
<1>. QED
  BY <1>7, <1>9 DEF new

LEMMA AnnounceWorkOnce ==
  ASSUME TypeOK, WorkOnce, AnnounceMessage
  PROVE  /\ WorkOnce'
         /\ \E n \in Message :
              /\ ToAnnounce(n) /\ ~ToAnnounce(n)'
              /\ \A m : ToAnnounce(m)' => ToAnnounce(m)
              /\ \/ UNCHANGED queue
                 \/ \E u \in Update :
                      u.type = "created" /\ u.id = n /\ Send(u)
<1>1. PICK s \in work[1].new, d \in {0, 1} :
        /\ 1 \in 1 .. Len(work) /\ s.id \in Message
        /\ \/ UNCHANGED queue /\ s.id \in Unparsable
           \/ \E u \in Update : Tells(u, work[1].box, s) /\ Send(u)
        /\ \A m : ToAnnounce(m) /\ m # s.id => ToAnnounce(m)'
        /\ \A i \in 1 .. Len(work') :
             /\ i + d \in 1 .. Len(work)
             /\ work'[i].new \subseteq work[i + d].new
             /\ work'[i].box = work[i + d].box
             /\ i + d = 1 => s \notin work'[i].new
  BY WorkShrinks
<1>2. \A m : ToAnnounce(m)' => ToAnnounce(m)
  BY <1>1 DEF ToAnnounce
<1>3. ToAnnounce(s.id)
  BY <1>1 DEF ToAnnounce
<1>4. ASSUME NEW i \in 1 .. Len(work'), NEW t \in work'[i].new, t.id = s.id
      PROVE  FALSE
  <2>1. i + d \in 1 .. Len(work) /\ t \in work[i + d].new
    BY <1>1
  <2>2. i + d = 1 /\ t = s
    BY <1>1, <1>4, <2>1 DEF WorkOnce
  <2>. QED
    BY <1>1, <2>2
<1>5. ~ToAnnounce(s.id)'
  BY <1>4 DEF ToAnnounce
<1>6. ASSUME NEW i \in 1 .. Len(work'), NEW j \in 1 .. Len(work'),
             NEW a \in work'[i].new, NEW b \in work'[j].new, a.id = b.id
      PROVE  i = j /\ a = b
  <2>1. /\ i + d \in 1 .. Len(work) /\ a \in work[i + d].new
        /\ j + d \in 1 .. Len(work) /\ b \in work[j + d].new
    BY <1>1
  <2>2. i + d = j + d /\ a = b
    BY <1>6, <2>1 DEF WorkOnce
  <2>. QED
    BY <2>2
<1>7. seen' = seen
  BY DEF AnnounceMessage
<1>8. WorkOnce'
  BY <1>2, <1>6, <1>7 DEF WorkOnce
<1>. QED
  BY <1>1, <1>2, <1>3, <1>5, <1>8 DEF Tells

\* A step that leaves the channel alone keeps LackInv when it keeps what Gluon
\* lacks and adds no message to those it speaks of.
LEMMA QuietLackInv ==
  ASSUME TypeOK, LackInv, UNCHANGED queue,
         \A m \in Message : gluon[m] = NoState => gluon'[m] = NoState,
         \A m \in Message :
           /\ ToAnnounce(m)' => WillLack(m)
           /\ ~IsKnown(m)' /\ seen'[m] = NoState => WillLack(m)
           /\ phase' = "delete" /\ seen'[m] # NoState => IsKnown(m)'
           /\ Leaving(m)' =>
                [type |-> "deleted", id |-> m] \in outbox' \/ WillLack(m)
  PROVE  LackInv'
<1>1. \A m \in Message : /\ \A i : LackBefore(i, m) => LackBefore(i, m)'
                         /\ WillLack(m) => WillLack(m)'
  BY KeepLack
<1>2. ASSUME NEW i \in 1 .. Len(queue'), queue'[i].type = "created"
      PROVE  LackBefore(i, queue[i].id)'
  <2>1. i \in 1 .. Len(queue) /\ queue[i] \in Update /\ queue'[i] = queue[i]
    BY DEF TypeOK
  <2>2. queue[i].id \in Message
    BY <1>2, <2>1 DEF Update
  <2>3. LackBefore(i, queue[i].id)
    BY <1>2, <2>1 DEF LackInv
  <2>4. PICK n \in Message : n = queue[i].id
    BY <2>2
  <2>5. LackBefore(i, n)'
    BY <1>1, <2>3, <2>4
  <2>6. queue'[i].id = n
    BY <2>1, <2>4
  <2>. QED
    BY <2>5, <2>6 DEF LackBefore
<1>. QED
  BY <1>1, <1>2 DEF LackInv

\* A send keeps LackInv when Gluon lacks what is sent to be created.
LEMMA SendLackInv ==
  ASSUME TypeOK, LackInv, NEW u \in Update, Send(u), gluon' = gluon,
         u.type = "created" => WillLack(u.id),
         \A m \in Message :
           /\ ToAnnounce(m)' => WillLack(m) /\ ~Creates(u, m)
           /\ ~IsKnown(m)' /\ seen'[m] = NoState => WillLack(m) /\ ~Creates(u, m)
           /\ phase' = "delete" /\ seen'[m] # NoState => IsKnown(m)'
           /\ Leaving(m)' => \/ [type |-> "deleted", id |-> m] \in outbox'
                             \/ WillLack(m) /\ ~Creates(u, m)
                             \/ Deletes(u, m)
  PROVE  LackInv'
<1>1. queue \in Seq(Update) /\ queue' = Append(queue, u)
  BY DEF TypeOK, Send
<1>2. /\ Len(queue') = Len(queue) + 1 /\ Len(queue) \in Nat
      /\ \A i \in 1 .. Len(queue) : queue'[i] = queue[i] /\ queue[i] \in Update
      /\ queue'[Len(queue) + 1] = u
  BY <1>1
<1>3. \A m \in Message :
        /\ \A i \in 1 .. Len(queue) + 1 : LackBefore(i, m) => LackBefore(i, m)'
        /\ WillLack(m) /\ ~Creates(u, m) => WillLack(m)'
        /\ Deletes(u, m) => WillLack(m)'
  BY SendLack
<1>4. ASSUME NEW i \in 1 .. Len(queue'), queue'[i].type = "created"
      PROVE  LackBefore(i, queue[i].id)'
  <2>1. \/ i \in 1 .. Len(queue) /\ queue'[i] = queue[i] /\ queue[i] \in Update
        \/ i = Len(queue) + 1 /\ queue'[i] = u
    BY <1>2
  <2>2. queue'[i].id \in Message
    BY <1>4, <2>1 DEF Update
  <2>3. i \in 1 .. Len(queue) + 1 /\ LackBefore(i, queue'[i].id)
    BY <1>2, <1>4, <2>1 DEF LackInv, WillLack
  <2>4. PICK n \in Message : n = queue'[i].id
    BY <2>2
  <2>5. LackBefore(i, n)'
    BY <1>3, <2>3, <2>4
  <2>. QED
    BY <2>4, <2>5 DEF LackBefore
<1>. QED
  BY <1>3, <1>4 DEF LackInv

LEMMA SyncNewInv ==
  ASSUME Untyped = {}, TypeOK, FolderInv, ToldInv, ScanInv, NewInv, Sync
  PROVE  NewInv'
<1>r. ReadOnce'
  BY SyncReadOnce DEF NewInv
<1>. SUFFICES WorkOnce' /\ LackInv'
  BY <1>r DEF NewInv
<1>i. ReadOnce /\ WorkOnce /\ LackInv
  BY DEF NewInv
<1>w. ASSUME UNCHANGED <<work, seen>>
      PROVE  WorkOnce' /\ \A m : ToAnnounce(m)' = ToAnnounce(m)
  BY <1>i, <1>w DEF WorkOnce, ToAnnounce
\* Steps that change neither what was read nor what is remembered.
<1>q. ASSUME UNCHANGED <<gluon, queue, messages, seen, work>>,
             phase' # "delete"
      PROVE  LackInv'
  <2>1. \A m \in Message :
          /\ ToAnnounce(m)' => WillLack(m)
          /\ ~IsKnown(m)' /\ seen'[m] = NoState => WillLack(m)
          /\ ~Leaving(m)'
    BY <1>i, <1>q, <1>w DEF LackInv, IsKnown, Leaving
  <2>. QED
    BY <1>i, <1>q, <2>1, QuietLackInv
<1>1. CASE StartSync \/ StartDownload
  BY <1>1, <1>q, <1>w DEF StartSync, StartDownload, gluonVars, memoryVars
<1>2. CASE ListMailboxesFails
  BY <1>2, <1>q, <1>w
  DEF ListMailboxesFails, gluonVars, memoryVars, syncVars
<1>3. ASSUME NEW mb \in Mailbox, AnnounceMailbox(mb)
      PROVE  WorkOnce' /\ LackInv'
  <2>. DEFINE u == [type |-> "mailbox", box |-> mb]
  <2>1. /\ UNCHANGED <<gluon, messages, seen, work, phase>> /\ phase = "scan"
        /\ UNCHANGED queue \/ Send(u)
    BY <1>3 DEF AnnounceMailbox, gluonVars
  <2>2. u \in Update /\ u.type = "mailbox" /\ \A m : ~Creates(u, m)
    BY DEF Update, Creates
  <2>. HIDE DEF u
  <2>3. \A m \in Message :
          /\ ToAnnounce(m)' => WillLack(m)
          /\ ~IsKnown(m)' /\ seen'[m] = NoState => WillLack(m)
          /\ ~Leaving(m)' /\ phase' # "delete" /\ ~Creates(u, m)
    BY <1>i, <1>w, <2>1, <2>2 DEF LackInv, IsKnown, Leaving
  <2>4. CASE Send(u)
    <3>1. u \in Update /\ gluon' = gluon
          /\ (u.type = "created" => WillLack(u.id))
      BY <2>1, <2>2
    <3>2. \A m \in Message :
            /\ ToAnnounce(m)' => WillLack(m) /\ ~Creates(u, m)
            /\ ~IsKnown(m)' /\ seen'[m] = NoState
                 => WillLack(m) /\ ~Creates(u, m)
            /\ phase' = "delete" /\ seen'[m] # NoState => IsKnown(m)'
            /\ ~Leaving(m)'
      BY <2>3
    <3>3. LackInv'
      BY <1>i, <2>4, <3>1, <3>2, SendLackInv
    <3>. QED
      BY <1>w, <2>1, <3>3
  <2>. QED
    BY <1>q, <1>w, <2>1, <2>4
<1>4. ASSUME NEW mb \in Mailbox, ListMailbox(mb)
      PROVE  WorkOnce' /\ LackInv'
  <2>1. /\ UNCHANGED <<gluon, messages, queue, phase>>
        /\ mb \in listing /\ phase = "scan"
        /\ \A m \in Message :
             seen'[m] = IF m \in Listed(mb) THEN server[m] ELSE seen[m]
    BY <1>4 DEF ListMailbox, gluonVars, memoryVars, ScanInv
  <2>2. /\ WorkOnce'
        /\ \A m : ToAnnounce(m)' =>
             ToAnnounce(m) \/ (m \in Listed(mb) /\ ~IsKnown(m))
    BY <1>4, <1>i, ListWorkOnce
  <2>3. ASSUME NEW m \in Message
        PROVE  /\ ToAnnounce(m)' => WillLack(m)
               /\ ~IsKnown(m)' /\ seen'[m] = NoState => WillLack(m)
               /\ ~Leaving(m)' /\ phase' # "delete"
    <3>1. m \in Listed(mb) => seen[m] = NoState /\ server[m] # NoState
      BY <1>i, <2>1, ListedUnread
    <3>2. ToAnnounce(m)' => WillLack(m)
      BY <1>i, <2>2, <3>1 DEF LackInv
    <3>3. ~IsKnown(m)' /\ seen'[m] = NoState => WillLack(m)
      BY <1>i, <2>1, <3>1 DEF LackInv, IsKnown
    <3>. QED
      BY <2>1, <3>2, <3>3 DEF Leaving
  <2>4. LackInv'
    BY <1>i, <2>1, <2>3, QuietLackInv
  <2>. QED
    BY <2>2, <2>4
<1>5. ASSUME NEW mb \in Mailbox, ListMailboxFails(mb)
      PROVE  WorkOnce' /\ LackInv'
  <2>1. phase = "scan"
    BY <1>5 DEF ListMailboxFails, ScanInv
  <2>. QED
    BY <1>5, <1>q, <1>w, <2>1 DEF ListMailboxFails, gluonVars, memoryVars
<1>6. CASE SendUpdate
  <2>1. PICK u \in outbox : Send(u) /\ outbox' = outbox \ {u}
    BY <1>6 DEF SendUpdate
  <2>2. u \in Update /\ u.type \in {"updated", "deleted"}
    BY DEF TypeOK, FolderInv
  <2>3. UNCHANGED <<gluon, messages, seen, work, phase, complete>>
    BY <1>6 DEF SendUpdate, gluonVars, memoryVars
  <2>4. ASSUME NEW m \in Message
        PROVE  /\ ToAnnounce(m)' => WillLack(m)
               /\ ~IsKnown(m)' /\ seen'[m] = NoState => WillLack(m)
               /\ phase' = "delete" /\ seen'[m] # NoState => IsKnown(m)'
               /\ Leaving(m)' =>
                    \/ [type |-> "deleted", id |-> m] \in outbox'
                    \/ WillLack(m) \/ Deletes(u, m)
               /\ ~Creates(u, m)
    <3>1. ToAnnounce(m)' = ToAnnounce(m) /\ IsKnown(m)' = IsKnown(m)
          /\ Leaving(m)' = Leaving(m)
      BY <1>w, <2>3 DEF IsKnown, Leaving
    <3>2. /\ Leaving(m) => [type |-> "deleted", id |-> m] \in outbox
                             \/ WillLack(m)
          /\ ToAnnounce(m) => WillLack(m)
          /\ ~IsKnown(m) /\ seen[m] = NoState => WillLack(m)
          /\ phase = "delete" /\ seen[m] # NoState => IsKnown(m)
      BY <1>i DEF LackInv
    <3>3. [type |-> "deleted", id |-> m] = u => Deletes(u, m)
      BY DEF Deletes
    <3>4. ~Creates(u, m)
      BY <2>2 DEF Creates
    <3>. QED
      BY <2>1, <2>3, <3>1, <3>2, <3>3, <3>4
  <2>5. LackInv'
    BY <1>i, <2>1, <2>2, <2>3, <2>4, SendLackInv
  <2>. QED
    BY <1>w, <2>3, <2>5
<1>7. CASE AnnounceMessage
  <2>1. /\ UNCHANGED <<gluon, messages, seen, phase>> /\ phase = "download"
    BY <1>7 DEF AnnounceMessage, gluonVars, memoryVars
  <2>2. WorkOnce'
    BY <1>7, <1>i, AnnounceWorkOnce
  <2>3. PICK n \in Message :
          /\ ToAnnounce(n) /\ ~ToAnnounce(n)'
          /\ \A m : ToAnnounce(m)' => ToAnnounce(m)
          /\ \/ UNCHANGED queue
             \/ \E u \in Update : u.type = "created" /\ u.id = n /\ Send(u)
    BY <1>7, <1>i, AnnounceWorkOnce
  <2>4. \A m \in Message :
          /\ ToAnnounce(m)' => WillLack(m) /\ m # n
          /\ ~IsKnown(m)' /\ seen'[m] = NoState => WillLack(m) /\ m # n
          /\ ~Leaving(m)' /\ phase' # "delete"
    BY <1>i, <2>1, <2>3 DEF LackInv, WorkOnce, IsKnown, Leaving
  <2>5. CASE UNCHANGED queue
    BY <1>i, <2>1, <2>2, <2>4, <2>5, QuietLackInv
  <2>6. ASSUME NEW u \in Update, u.type = "created", u.id = n, Send(u)
        PROVE  LackInv'
    <3>1. WillLack(u.id) /\ \A m \in Message : m # n => ~Creates(u, m)
      BY <1>i, <2>3, <2>6 DEF LackInv, Creates
    <3>. QED
      BY <1>i, <2>1, <2>4, <2>6, <3>1, SendLackInv
  <2>. QED
    BY <2>2, <2>3, <2>5, <2>6
<1>8. CASE RememberMessages
  <2>1. /\ UNCHANGED <<gluon, queue, seen, work, complete>>
        /\ phase' = "delete" /\ messages' = Remembered
        /\ outbox' = {[type |-> "deleted", id |-> m] : m \in Missing}
    BY <1>8 DEF RememberMessages, gluonVars
  <2>2. ASSUME NEW m \in Message
        PROVE  /\ ToAnnounce(m)' => WillLack(m)
               /\ ~IsKnown(m)' /\ seen'[m] = NoState => WillLack(m)
               /\ seen'[m] # NoState => IsKnown(m)'
               /\ Leaving(m)' =>
                    [type |-> "deleted", id |-> m] \in outbox' \/ WillLack(m)
    <3>1. /\ messages'[m] = IF seen[m] # NoState THEN seen[m] ELSE messages[m]
          /\ ToAnnounce(m)' = ToAnnounce(m)
      BY <1>w, <2>1 DEF Remembered
    <3>2. Leaving(m)' /\ IsKnown(m) => m \in Missing
      BY <2>1 DEF Leaving, Missing
    <3>. QED
      BY <1>i, <2>1, <3>1, <3>2 DEF LackInv, IsKnown, Leaving
  <2>3. LackInv'
    BY <1>i, <2>1, <2>2, QuietLackInv
  <2>. QED
    BY <1>w, <2>1, <2>3
<1>9. CASE ForgetMessages
  <2>1. /\ UNCHANGED <<gluon, queue, work>> /\ work = <<>> /\ outbox = {}
        /\ phase = "delete" /\ phase' = "idle"
        /\ seen' = Nothing /\ messages' = Forgotten
    BY <1>9 DEF ForgetMessages, gluonVars, ToldInv
  <2>2. \A m : ~ToAnnounce(m)'
    BY <2>1 DEF ToAnnounce
  <2>3. ASSUME NEW m \in Message, ~IsKnown(m)'
        PROVE  WillLack(m)
    <3>1. messages'[m] = IF complete /\ seen[m] = NoState THEN NoState
                                                          ELSE messages[m]
      BY <2>1 DEF Forgotten
    <3>. QED
      BY <1>i, <2>1, <2>3, <3>1 DEF LackInv, IsKnown, Leaving
  <2>4. LackInv'
    BY <1>i, <2>1, <2>2, <2>3, QuietLackInv DEF Leaving
  <2>5. WorkOnce'
    BY <2>1, <2>2 DEF WorkOnce
  <2>. QED
    BY <2>4, <2>5
<1>. QED
  BY <1>1, <1>2, <1>3, <1>4, <1>5, <1>6, <1>7, <1>8, <1>9 DEF Sync

LEMMA ApplyNewInv ==
  ASSUME TypeOK, NewInv, GluonApply
  PROVE  NewInv'
<1>1. /\ queue \in Seq(Update) /\ queue # <<>> /\ queue' = Tail(queue)
      /\ UNCHANGED <<server, messages, phase, toScan, listing, seen, work,
                     complete, outbox>>
  BY DEF TypeOK, GluonApply, memoryVars, syncVars
<1>2. /\ Len(queue') = Len(queue) - 1 /\ Len(queue) \in Nat \ {0}
      /\ \A j \in 1 .. Len(queue') : /\ queue'[j] = queue[j + 1]
                                    /\ j + 1 \in 1 .. Len(queue)
                                    /\ j \in 1 .. Len(queue)
  BY <1>1
<1>3. \A m \in Message, i \in 1 .. Len(queue) :
        LackBefore(i + 1, m) => LackBefore(i, m)'
  BY ApplyLack
<1>4. Len(queue) \in 1 .. Len(queue) /\ Len(queue') + 1 = Len(queue)
  BY <1>2
<1>n. PICK n \in Nat : n = Len(queue)
  BY <1>2
<1>5. \A m \in Message : WillLack(m) => WillLack(m)'
  <2>1. \A m \in Message : LackBefore(n + 1, m) => LackBefore(n, m)'
    BY <1>3, <1>4, <1>n
  <2>2. Len(queue)' + 1 = n
    BY <1>4, <1>n
  <2>. QED
    BY <1>n, <2>1, <2>2 DEF WillLack
<1>6. ASSUME NEW i \in 1 .. Len(queue'), queue'[i].type = "created"
      PROVE  LackBefore(i, queue[i].id)'
  <2>1. queue[i + 1] \in Update /\ queue[i + 1].type = "created"
    BY <1>1, <1>2, <1>6
  <2>2. PICK m \in Message : m = queue[i + 1].id
    BY <2>1 DEF Update
  <2>3. LackBefore(i + 1, m)
    BY <1>2, <2>1, <2>2 DEF NewInv, LackInv
  <2>4. LackBefore(i, m)'
    BY <1>2, <1>3, <2>3
  <2>5. queue'[i].id = m
    BY <1>2, <2>2
  <2>. QED
    BY <2>4, <2>5 DEF LackBefore
<1>. QED
  <2>1. LackInv'
    BY <1>1, <1>5, <1>6 DEF NewInv, LackInv, ToAnnounce, IsKnown, Leaving
  <2>2. ReadOnce' /\ WorkOnce'
    BY <1>1 DEF NewInv, ReadOnce, ToBeListed, WorkOnce, ToAnnounce
  <2>. QED
    BY <2>1, <2>2 DEF NewInv

LEMMA InitNewInv ==
  ASSUME \A p \in Placement : \A a, b \in p : a = b, Init
  PROVE  NewInv
<1>1. \A s \in Reachable : \A a, b \in s.in : a = b
  BY DEF Reachable
<1>2. ReadOnce
  BY <1>1 DEF Init, ConnectorInit, ReadOnce, Nothing
<1>3. WorkOnce
  BY DEF Init, ConnectorInit, WorkOnce, ToAnnounce
<1>4. ASSUME NEW m \in Message
      PROVE  WillLack(m)
  <2>1. gluon[m] = NoState /\ queue = <<>>
    BY DEF Init, ConnectorInit, Nothing
  <2>2. Len(queue) = 0 /\ 1 .. (0 + 1) - 1 = {}
    BY <2>1
  <2>. QED
    BY <2>1, <2>2 DEF WillLack, LackBefore
<1>5. LackInv
  BY <1>4 DEF Init, ConnectorInit, LackInv, Leaving, Nothing
<1>. QED
  BY <1>2, <1>3, <1>5 DEF NewInv

LEMMA NextNewInv ==
  ASSUME ~MovesDuringScan, Untyped = {},
         \A p \in Placement : \A a, b \in p : a = b,
         TypeOK, FolderInv, ToldInv, ScanInv, NewInv, [Next]_vars
  PROVE  NewInv'
\* A step of the account or of a client: what the sync knows stays.
<1>a. ASSUME ReadOnce', UNCHANGED <<queue, memoryVars, syncVars>>,
             \A m \in Message : gluon[m] = NoState => gluon'[m] = NoState
      PROVE  NewInv'
  <2>1. WorkOnce' /\ LackInv
    BY <1>a DEF NewInv, WorkOnce, ToAnnounce, syncVars
  <2>2. LackInv'
    BY <1>a, <2>1, QuietLackInv
    DEF LackInv, ToAnnounce, IsKnown, Leaving, memoryVars, syncVars
  <2>. QED
    BY <1>a, <2>1, <2>2 DEF NewInv
<1>b. UNCHANGED <<server, syncVars>> => ReadOnce'
  BY DEF NewInv, ReadOnce, ToBeListed, syncVars
<1>1. CASE Sync
  BY <1>1, SyncNewInv
<1>2. CASE GluonApply
  BY <1>2, ApplyNewInv
<1>3. CASE StartClientOp \/ ClientOpFails \/ UNCHANGED vars
  BY <1>3, <1>a, <1>b DEF StartClientOp, ClientOpFails, vars, gluonVars
<1>4. CASE ClientOpDone
  <2>1. \A m \in Message : gluon[m] = NoState => gluon'[m] = NoState
    BY <1>4 DEF ClientOpDone
  <2>. QED
    BY <1>4, <1>a, <1>b, <2>1 DEF ClientOpDone
<1>5. CASE ApiCall
  <2>1. clientOp \in ClientOp
    BY <1>5 DEF ApiCall, TypeOK
  <2>2. PICK m \in clientOp.todo :
          /\ server[m] # NoState
          /\ ServerBecomes(m, ApiEffect(clientOp, server[m]))
    BY <1>5 DEF ApiCall
  <2>. DEFINE s == ApiEffect(clientOp, server[m])
  <2>3. m \in Message /\ server[m] \in State
        /\ \A a, b \in server[m].in : a = b
    BY <2>1, <2>2 DEF ClientOp, TypeOK, Some, NewInv, ReadOnce
  <2>4. s \in State \cup {NoState}
    BY <2>1, <2>3, EffectsTypeOK
  <2>5. s # NoState => \A a, b \in s.in : a = b
    BY <2>3 DEF ApiEffect, State
  <2>. HIDE DEF s
  <2>6. ServerBecomes(m, s) /\ UNCHANGED <<toScan, listing, phase, seen>>
    BY <1>5, <2>2 DEF s, ApiCall, syncVars
  <2>7. ReadOnce'
    BY <2>3, <2>4, <2>5, <2>6, ServerBecomesReadOnce DEF NewInv
  <2>. QED
    BY <1>5, <1>a, <2>7 DEF ApiCall, gluonVars
<1>6. ASSUME NEW m \in Message, WebChange(m) PROVE NewInv'
  <2>1. PICK s \in Reachable \cup {NoState} : ServerBecomes(m, s)
    BY <1>6 DEF WebChange
  <2>2. s \in State \cup {NoState}
    BY MailSyncAssumption DEF Reachable, State
  <2>3. s # NoState => \A a, b \in s.in : a = b
    BY DEF Reachable
  <2>4. ReadOnce'
    BY <1>6, <2>1, <2>2, <2>3, ServerBecomesReadOnce
    DEF NewInv, WebChange, syncVars
  <2>. QED
    BY <1>6, <1>a, <2>4 DEF WebChange, gluonVars
<1>7. CASE Restart
  <2>1. ReadOnce' /\ WorkOnce'
    BY <1>7 DEF Restart, NewInv, ReadOnce, WorkOnce, ToAnnounce, Nothing
  <2>2. ASSUME NEW m \in Message
        PROVE  WillLack(m)'
    <3>1. gluon'[m] = NoState /\ queue' = <<>>
      BY <1>7 DEF Restart, Nothing
    <3>2. Len(queue') = 0 /\ 1 .. (0 + 1) - 1 = {}
      BY <3>1
    <3>. QED
      BY <3>1, <3>2 DEF WillLack, LackBefore
  <2>3. LackInv'
    BY <1>7, <2>2 DEF Restart, LackInv, Leaving, Nothing
  <2>. QED
    BY <2>1, <2>3 DEF NewInv
<1>. QED
  BY <1>1, <1>2, <1>3, <1>4, <1>5, <1>6, <1>7 DEF Next, Client

LEMMA NewInvAnnouncesNew == TypeOK /\ NewInv => NewToGluon
<1>. SUFFICES ASSUME TypeOK, NewInv, queue # <<>>, Head(queue).type = "created"
              PROVE  gluon[Head(queue).id] = NoState
  BY DEF NewToGluon
<1>1. Head(queue) = queue[1] /\ 1 \in 1 .. Len(queue) /\ 1 .. 1 - 1 = {}
  BY DEF TypeOK
<1>. QED
  BY <1>1 DEF NewInv, LackInv, LackBefore

\* Where every folder has a type, a message is in one folder at a time and mail
\* moves between none in mid-scan, Gluon is told to create a message only when
\* it does not hold it, whatever fails, restarts, disappears or comes back
\* (connector.go:132).
THEOREM AnnouncedIsNew ==
  ASSUME ~MovesDuringScan, Untyped = {},
         \A p \in Placement : \A a, b \in p : a = b
  PROVE  Spec => []NewToGluon
<1>1. TypeOK /\ ScanInv /\ [Next]_vars => ScanInv'
  BY NextScanInv
<1>2. TypeOK /\ FolderInv /\ ToldInv /\ ScanInv /\ NewInv /\ [Next]_vars
        => NewInv'
  BY NextNewInv
<1>3. Init => NewInv
  BY InitNewInv
<1>. QED
  BY <1>1, <1>2, <1>3, NewInvAnnouncesNew, InitTypeOK, NextTypeOK, InitFolderInv,
     NextFolderInv, InitToldInv, NextToldInv, InitScanInv, PTL DEF Spec

(***************************************************************************)
(* An undisturbed sync brings Gluon in line.                               *)
(***************************************************************************)

\* Update u is of message m, and the state it asks for.
About(u, m) == u.type # "mailbox" /\ u.id = m

Says(u) ==
  CASE u.type = "created" -> [in |-> {u.box}, read |-> u.read]
    [] u.type = "updated" -> [in |-> u.in, read |-> u.read]
    [] OTHER -> NoState

\* Once the channel is drained, Gluon holds m in state s.
WillBe(m, s) ==
  \/ gluon[m] = s /\ \A i \in 1 .. Len(queue) : ~About(queue[i], m)
  \/ \E i \in 1 .. Len(queue) :
       /\ About(queue[i], m) /\ Says(queue[i]) = s
       /\ \A j \in i + 1 .. Len(queue) : ~About(queue[j], m)

\* When Gluon comes to update i of the channel, it knows folder mb.
AnnouncedBefore(i, mb) ==
  \/ mb \in gluonBoxes
  \/ \E j \in 1 .. i - 1 : queue[j].type = "mailbox" /\ queue[j].box = mb

\* A message is put only in folders Gluon knows.
UpdateFirst ==
  \A i \in 1 .. Len(queue) : queue[i].type = "updated" =>
    \A mb \in queue[i].in : AnnouncedBefore(i, mb)

\* The update that tells Gluon what this sync read of a message.
Correction(m) ==
  [type |-> "updated", id |-> m, in |-> seen[m].in, read |-> seen[m].read]

\* What waits to be sent says what was read.
WaitingInv ==
  /\ listing # {} \/ phase \in {"idle", "download"} => outbox = {}
  /\ \A u \in outbox : u.type = "updated" =>
       /\ phase = "scan" /\ seen[u.id] # NoState /\ u = Correction(u.id)
       /\ u.in \subseteq Announced
  /\ \A i \in 1 .. Len(work) : \A s \in work[i].new :
       seen[s.id] = [in |-> {work[i].box}, read |-> s.read]
  /\ \A m \in Message : phase = "delete" /\ seen[m] # NoState
       => messages[m] = seen[m]

\* Gluon will hold what this sync read of a message or is about to tell, and what
\* the connector remembers of one it has not read.
InMemory(m) ==
  /\ IsKnown(m) /\ seen[m] = NoState /\ ~Leaving(m) => WillBe(m, messages[m])
  /\ seen[m] # NoState =>
       ToAnnounce(m) \/ Correction(m) \in outbox \/ WillBe(m, seen[m])

\* A client's operation has changed the message, or will not.
Settled(m) == used.client # 0 /\ (clientOp = NoOp \/ m \notin clientOp.todo)

\* The connector is to remember what the message was before the operation: the
\* next listing finds it changed.
Behind(m) == Settled(m) /\ Remembered[m] \notin {NoState, server[m]}

MemoryInv == \A m \in Message \ Unparsable : InMemory(m) \/ Behind(m)

\* The account holds the effect of each call an operation has made.
CarriedOut ==
  clientOp # NoOp =>
    /\ used.client # 0
    /\ \A m \in clientOp.ids \ clientOp.todo :
         server[m] # NoState => ApiEffect(clientOp, server[m]) = server[m]

\* What an undisturbed cycle read is what the account holds.
CleanInv ==
  clean =>
    /\ phase # "idle" =>
         /\ complete
         /\ \A m \in gone : server[m] = NoState
         /\ \A m \in Message : seen[m] # NoState => seen[m] = server[m]
    /\ phase = "idle" => \A m \in Message : messages[m] = server[m]

\* The inductive strengthening of QuietSyncInLine.
LineInv ==
  /\ UpdateFirst /\ WaitingInv /\ MemoryInv /\ CleanInv /\ CarriedOut
  /\ clean => clientOp = NoOp

\* A send adds a folder announced, and takes none away.
LEMMA SendBefore ==
  ASSUME TypeOK, UpdateFirst, NEW u \in Update, Send(u),
         gluonBoxes' = gluonBoxes,
         u.type = "updated" => u.in \subseteq Announced
  PROVE  UpdateFirst'
<1>1. queue \in Seq(Update) /\ queue' = Append(queue, u)
  BY DEF TypeOK, Send
<1>2. /\ Len(queue') = Len(queue) + 1 /\ Len(queue) \in Nat
      /\ \A i \in 1 .. Len(queue) : queue'[i] = queue[i]
      /\ queue'[Len(queue) + 1] = u
  BY <1>1
<1>. HIDE DEF Update
<1>3. ASSUME NEW i \in 1 .. Len(queue) + 1, NEW mb, AnnouncedBefore(i, mb)
      PROVE  AnnouncedBefore(i, mb)'
  <2>1. \A j \in 1 .. i - 1 : queue'[j] = queue[j]
    BY <1>2
  <2>. QED
    BY <1>3, <2>1 DEF AnnouncedBefore
<1>4. \A mb \in Announced : AnnouncedBefore(Len(queue) + 1, mb)
  BY <1>2 DEF Announced, AnnouncedBefore
<1>5. ASSUME NEW i \in 1 .. Len(queue'), queue'[i].type = "updated",
             NEW mb \in queue'[i].in
      PROVE  AnnouncedBefore(i, mb)'
  <2>1. \/ i \in 1 .. Len(queue) /\ queue'[i] = queue[i]
        \/ i = Len(queue) + 1 /\ queue'[i] = u
    BY <1>2
  <2>2. i \in 1 .. Len(queue) + 1 /\ AnnouncedBefore(i, mb)
    BY <1>2, <1>4, <1>5, <2>1 DEF UpdateFirst
  <2>. QED
    BY <1>3, <2>2
<1>. QED
  BY <1>5 DEF UpdateFirst

LEMMA ApplyBefore ==
  ASSUME TypeOK, UpdateFirst, GluonApply
  PROVE  UpdateFirst'
<1>1. /\ queue \in Seq(Update) /\ queue # <<>> /\ queue' = Tail(queue)
      /\ gluonBoxes \subseteq gluonBoxes'
      /\ queue[1].type = "mailbox" => queue[1].box \in gluonBoxes'
  BY DEF TypeOK, GluonApply
<1>. HIDE DEF Update
<1>2. /\ Len(queue') = Len(queue) - 1 /\ Len(queue) \in Nat \ {0}
      /\ \A i \in 1 .. Len(queue') : queue'[i] = queue[i + 1]
  BY <1>1
<1>3. ASSUME NEW i \in 1 .. Len(queue'), queue'[i].type = "updated",
             NEW mb \in queue'[i].in
      PROVE  AnnouncedBefore(i, mb)'
  <2>1. /\ i + 1 \in 1 .. Len(queue) /\ queue'[i] = queue[i + 1]
        /\ (i + 1) - 1 = i
    BY <1>2
  <2>2. AnnouncedBefore(i + 1, mb)
    BY <1>3, <2>1 DEF UpdateFirst
  <2>3. CASE mb \in gluonBoxes
    BY <1>1, <2>3 DEF AnnouncedBefore
  <2>4. ASSUME NEW j \in 1 .. i, queue[j].type = "mailbox", queue[j].box = mb
        PROVE  AnnouncedBefore(i, mb)'
    <3>1. CASE j = 1
      BY <1>1, <2>4, <3>1 DEF AnnouncedBefore
    <3>2. CASE j # 1
      <4>1. j - 1 \in 1 .. i - 1 /\ queue'[j - 1] = queue[j]
        BY <1>2, <3>2
      <4>. QED
        BY <2>4, <4>1 DEF AnnouncedBefore
    <3>. QED
      BY <3>1, <3>2
  <2>. QED
    BY <2>1, <2>2, <2>3, <2>4 DEF AnnouncedBefore
<1>. QED
  BY <1>3 DEF UpdateFirst

\* A send settles the message it is about, and no other.
LEMMA SendWill ==
  ASSUME TypeOK, NEW u \in Update, Send(u), gluon' = gluon,
         NEW m \in Message, NEW s
  PROVE  /\ WillBe(m, s) /\ ~About(u, m) => WillBe(m, s)'
         /\ About(u, m) /\ Says(u) = s => WillBe(m, s)'
<1>1. queue \in Seq(Update) /\ queue' = Append(queue, u)
  BY DEF TypeOK, Send
<1>2. /\ Len(queue') = Len(queue) + 1 /\ Len(queue) \in Nat
      /\ \A i \in 1 .. Len(queue) : queue'[i] = queue[i]
      /\ queue'[Len(queue) + 1] = u
  BY <1>1
<1>. HIDE DEF Update
<1>3. \A i \in 1 .. Len(queue') :
        \/ i \in 1 .. Len(queue) /\ queue'[i] = queue[i]
        \/ i = Len(queue) + 1 /\ queue'[i] = u
  BY <1>2
<1>4. ASSUME WillBe(m, s), ~About(u, m)
      PROVE  WillBe(m, s)'
  <2>1. CASE gluon[m] = s /\ \A i \in 1 .. Len(queue) : ~About(queue[i], m)
    <3>1. \A i \in 1 .. Len(queue') : ~About(queue'[i], m)
      BY <1>3, <1>4, <2>1
    <3>. QED
      BY <2>1, <3>1 DEF WillBe, About
  <2>2. ASSUME NEW i \in 1 .. Len(queue), About(queue[i], m),
               Says(queue[i]) = s,
               \A j \in i + 1 .. Len(queue) : ~About(queue[j], m)
        PROVE  WillBe(m, s)'
    <3>1. i \in 1 .. Len(queue') /\ queue'[i] = queue[i]
      BY <1>2
    <3>2. ASSUME NEW j \in i + 1 .. Len(queue')
          PROVE  ~About(queue'[j], m)
      <4>1. \/ j \in i + 1 .. Len(queue) /\ queue'[j] = queue[j]
            \/ queue'[j] = u
        BY <1>2
      <4>. QED
        BY <1>4, <2>2, <4>1
    <3>. QED
      BY <2>2, <3>1, <3>2 DEF WillBe, About, Says
  <2>. QED
    BY <1>4, <2>1, <2>2 DEF WillBe
<1>5. ASSUME About(u, m), Says(u) = s
      PROVE  WillBe(m, s)'
  <2>1. /\ Len(queue) + 1 \in 1 .. Len(queue')
        /\ (Len(queue) + 1) + 1 .. Len(queue') = {}
        /\ About(queue'[Len(queue) + 1], m)
        /\ Says(queue'[Len(queue) + 1]) = s
    BY <1>2, <1>5
  <2>. QED
    BY <2>1 DEF WillBe, About, Says
<1>. QED
  BY <1>4, <1>5

\* What Gluon makes of an update: nothing of another message's, and of one that
\* is due what it says.
LEMMA AppliedSays ==
  ASSUME TypeOK, NEW u \in Update, NEW m \in Message
  PROVE  /\ ~About(u, m) => Applied(u)[m] = gluon[m]
         /\ About(u, m) /\ u.type = "created" /\ gluon[m] = NoState
              /\ u.box \in gluonBoxes => Applied(u)[m] = Says(u)
         /\ About(u, m) /\ u.type = "updated" /\ gluon[m] # NoState
              /\ u.in \subseteq gluonBoxes => Applied(u)[m] = Says(u)
<1>1. gluon \in [Message -> State \cup {NoState}]
  BY DEF TypeOK, Some
<1>2. CASE u.type = "created"
  <2>1. u.id \in Message
    BY <1>2 DEF Update
  <2>2. ASSUME u.id # m
        PROVE  Applied(u)[m] = gluon[m]
    BY <1>1, <1>2, <2>1, <2>2 DEF Applied
  <2>3. ASSUME u.id = m, gluon[m] = NoState, u.box \in gluonBoxes
        PROVE  Applied(u)[m] = Says(u)
    <3>1. {u.box} \cap gluonBoxes = {u.box}
      BY <2>3
    <3>2. Applied(u) = [gluon EXCEPT ![m] = [in |-> {u.box}, read |-> u.read]]
      BY <1>2, <2>3, <3>1 DEF Applied
    <3>. QED
      BY <1>1, <1>2, <3>2 DEF Says
  <2>. QED
    BY <1>2, <2>2, <2>3 DEF About
<1>3. CASE u.type = "updated"
  <2>1. u.id \in Message
    BY <1>3 DEF Update
  <2>2. ASSUME u.id # m
        PROVE  Applied(u)[m] = gluon[m]
    BY <1>1, <1>3, <2>1, <2>2 DEF Applied
  <2>3. ASSUME u.id = m, gluon[m] # NoState, u.in \subseteq gluonBoxes
        PROVE  Applied(u)[m] = Says(u)
    <3>1. u.in \cap gluonBoxes = u.in
      BY <2>3
    <3>2. Applied(u) = [gluon EXCEPT ![m] = [in |-> u.in, read |-> u.read]]
      BY <1>3, <2>3, <3>1 DEF Applied
    <3>. QED
      BY <1>1, <1>3, <3>2 DEF Says
  <2>. QED
    BY <1>3, <2>2, <2>3 DEF About
<1>4. CASE u.type = "deleted"
  BY <1>1, <1>4 DEF Update, About, Applied
<1>5. CASE u.type = "mailbox"
  BY <1>5 DEF About, Applied
<1>. QED
  BY <1>2, <1>3, <1>4, <1>5 DEF Update

\* Applying an update changes how far Gluon is from a message's last state, not
\* that state.
LEMMA ApplyWill ==
  ASSUME TypeOK, FolderFirst, UpdateFirst, NewToGluon, GluonApply,
         NEW m \in Message, NEW s \in State, WillBe(m, s), WillHave(m)
  PROVE  WillBe(m, s)'
<1>1. /\ queue \in Seq(Update) /\ queue # <<>> /\ queue' = Tail(queue)
      /\ Head(queue) = queue[1] /\ gluon' = Applied(queue[1])
      /\ queue[1] \in Update
  BY DEF TypeOK, GluonApply
<1>2. /\ Len(queue') = Len(queue) - 1 /\ Len(queue) \in Nat \ {0}
      /\ \A j \in 1 .. Len(queue') : queue'[j] = queue[j + 1]
      /\ 1 \in 1 .. Len(queue) /\ 1 .. 1 - 1 = {}
  BY <1>1
<1>3. ASSUME gluon'[m] = s, \A j \in 2 .. Len(queue) : ~About(queue[j], m)
      PROVE  WillBe(m, s)'
  <2>1. \A j \in 1 .. Len(queue') : ~About(queue'[j], m)
    BY <1>2, <1>3
  <2>. QED
    BY <1>3, <2>1 DEF WillBe, About
<1>4. CASE gluon[m] = s /\ \A i \in 1 .. Len(queue) : ~About(queue[i], m)
  <2>1. ~About(queue[1], m) /\ \A j \in 2 .. Len(queue) : ~About(queue[j], m)
    BY <1>2, <1>4
  <2>. QED
    BY <1>1, <1>3, <1>4, <2>1, AppliedSays
<1>5. ASSUME NEW i \in 1 .. Len(queue), About(queue[i], m),
             Says(queue[i]) = s,
             \A j \in i + 1 .. Len(queue) : ~About(queue[j], m)
      PROVE  WillBe(m, s)'
  <2>1. CASE i = 1
    <3>. DEFINE u == queue[1]
    <3>1. \A j \in 2 .. Len(queue) : ~About(queue[j], m)
      BY <1>5, <2>1
    <3>2. u.type = "created" => gluon[m] = NoState /\ u.box \in gluonBoxes
      BY <1>1, <1>2, <1>5, <2>1 DEF NewToGluon, FolderFirst, About
    <3>3. u.type = "updated" => u.in \subseteq gluonBoxes
      BY <1>2 DEF UpdateFirst, AnnouncedBefore
    <3>4. u.type = "updated" => gluon[m] # NoState
      <4>1. \A j \in 2 .. Len(queue) : ~Creates(queue[j], m)
        BY <3>1 DEF Creates, About
      <4>2. \A j \in 1 .. Len(queue) : j = 1 \/ j \in 2 .. Len(queue)
        BY <1>2
      <4>. QED
        BY <4>1, <4>2 DEF WillHave, Creates
    <3>5. u.type \in {"created", "updated"}
      BY <1>1, <1>5, <2>1, MailSyncAssumption DEF Says, About, Update
    <3>6. gluon'[m] = s
      <4>. HIDE DEF u
      <4>1. About(u, m) /\ Says(u) = s /\ u \in Update /\ gluon' = Applied(u)
        BY <1>1, <1>5, <2>1 DEF u
      <4>. QED
        BY <3>2, <3>3, <3>4, <3>5, <4>1, AppliedSays
    <3>. QED
      BY <1>3, <3>1, <3>6
  <2>2. CASE i # 1
    <3>1. i - 1 \in 1 .. Len(queue') /\ queue'[i - 1] = queue[i]
      BY <1>2, <2>2
    <3>2. ASSUME NEW j \in (i - 1) + 1 .. Len(queue')
          PROVE  ~About(queue'[j], m)
      <4>1. j + 1 \in i + 1 .. Len(queue) /\ queue'[j] = queue[j + 1]
        BY <1>2, <2>2
      <4>. QED
        BY <1>5, <4>1
    <3>. QED
      BY <1>5, <3>1, <3>2 DEF WillBe, About, Says
  <2>. QED
    BY <2>1, <2>2
<1>. QED
  BY <1>4, <1>5 DEF WillBe

\* A sync changes neither the account nor what clients do.
LEMMA SyncLeavesClients ==
  ASSUME TypeOK, Sync
  PROVE  /\ UNCHANGED <<server, clientOp>> /\ used'.client = used.client
         /\ clean' => clean \/ clientOp = NoOp
<1>1. Fail => used'.client = used.client
  BY DEF Fail, TypeOK, Used
<1>2. CASE StartSync
  <2>1. UNCHANGED <<server, clientOp, used>> /\ clean' = (clientOp = NoOp)
    BY <1>2 DEF StartSync
  <2>. QED
    BY <2>1
<1>3. CASE ListMailboxesFails
  <2>1. UNCHANGED <<server, clientOp, clean>> /\ Fail
    BY <1>3 DEF ListMailboxesFails
  <2>. QED
    BY <1>1, <2>1
<1>4. ASSUME NEW mb \in Mailbox, AnnounceMailbox(mb)
      PROVE  UNCHANGED <<server, clientOp, used, clean>>
  BY <1>4 DEF AnnounceMailbox
<1>5. ASSUME NEW mb \in Mailbox, ListMailbox(mb)
      PROVE  UNCHANGED <<server, clientOp, used, clean>>
  BY <1>5 DEF ListMailbox
<1>6. ASSUME NEW mb \in Mailbox, ListMailboxFails(mb)
      PROVE  UNCHANGED <<server, clientOp>> /\ used'.client = used.client /\ ~clean'
  BY <1>1, <1>6 DEF ListMailboxFails
<1>7. CASE SendUpdate \/ StartDownload \/ AnnounceMessage
  BY <1>7 DEF SendUpdate, StartDownload, AnnounceMessage
<1>8. CASE RememberMessages \/ ForgetMessages
  BY <1>8 DEF RememberMessages, ForgetMessages
<1>. QED
  BY <1>2, <1>3, <1>4, <1>5, <1>6, <1>7, <1>8 DEF Sync

\* Steps that neither read, remember nor forget, and keep what Gluon will hold.
LEMMA KeepMemory ==
  ASSUME UNCHANGED <<messages, seen, outbox, work>>,
         \/ phase # "delete" /\ phase' # "delete"
         \/ UNCHANGED <<phase, complete>>,
         \A m \in Message : \A s : WillBe(m, s) => WillBe(m, s)'
  PROVE  \A m \in Message \ Unparsable : InMemory(m) => InMemory(m)'
<1>1. ASSUME NEW m \in Message \ Unparsable
      PROVE  /\ IsKnown(m)' = IsKnown(m)
             /\ Leaving(m)' = Leaving(m)
             /\ ToAnnounce(m)' = ToAnnounce(m)
             /\ Correction(m)' = Correction(m)
  BY DEF IsKnown, Leaving, ToAnnounce, Correction
<1>. QED
  BY <1>1 DEF InMemory

\* Nor do they bring the connector up to date, where the account stays as it is.
LEMMA KeepBehind ==
  ASSUME NEW m \in Message \ Unparsable, Behind(m),
         UNCHANGED <<server, clientOp>>, used'.client = used.client,
         Remembered'[m] = Remembered[m]
  PROVE  Behind(m)'
BY DEF Behind, Settled

\* What a listing finds is in that folder alone.
LEMMA ListedHere ==
  ASSUME Untyped = {}, TypeOK, ReadOnce, NEW mb \in Mailbox, NEW m \in Listed(mb)
  PROVE  server[m] = [in |-> {mb}, read |-> server[m].read]
<1>1. server[m] \in State /\ mb \in server[m].in
  BY DEF Listed, TypeOK, Some
<1>2. server[m].in = {mb}
  BY <1>1 DEF Listed, ReadOnce
<1>. QED
  BY <1>1, <1>2 DEF State

LEMMA SyncUpdateFirst ==
  ASSUME TypeOK, FolderInv, UpdateFirst, WaitingInv, Sync
  PROVE  UpdateFirst'
<1>a. ASSUME UNCHANGED <<gluonBoxes, queue>>
      PROVE  UpdateFirst'
  BY <1>a DEF UpdateFirst, AnnouncedBefore
<1>1. ASSUME NEW mb \in Mailbox, AnnounceMailbox(mb) PROVE UpdateFirst'
  <2>. DEFINE u == [type |-> "mailbox", box |-> mb]
  <2>1. u \in Update /\ u.type # "updated"
    BY DEF Update
  <2>2. gluonBoxes' = gluonBoxes /\ (UNCHANGED queue \/ Send(u))
    BY <1>1 DEF AnnounceMailbox, gluonVars
  <2>. QED
    BY <1>a, <2>1, <2>2, SendBefore
<1>2. CASE SendUpdate
  <2>1. PICK u \in outbox : Send(u)
    BY <1>2 DEF SendUpdate
  <2>2. u \in Update /\ (u.type = "updated" => u.in \subseteq Announced)
    BY DEF TypeOK, WaitingInv
  <2>. QED
    BY <1>2, <2>1, <2>2, SendBefore DEF SendUpdate, gluonVars
<1>3. CASE AnnounceMessage
  <2>1. \/ UNCHANGED queue
        \/ \E u \in Update : u.type = "created" /\ Send(u)
    BY <1>3, WorkShrinks DEF Tells
  <2>. QED
    BY <1>3, <1>a, <2>1, SendBefore DEF AnnounceMessage, gluonVars
<1>4. ASSUME NEW mb \in Mailbox, ListMailbox(mb) \/ ListMailboxFails(mb)
      PROVE  UpdateFirst'
  BY <1>4, <1>a DEF ListMailbox, ListMailboxFails, gluonVars
<1>5. CASE \/ StartSync \/ ListMailboxesFails \/ StartDownload
           \/ RememberMessages \/ ForgetMessages
  BY <1>5, <1>a DEF StartSync, ListMailboxesFails, StartDownload,
     RememberMessages, ForgetMessages, gluonVars
<1>. QED
  BY <1>1, <1>2, <1>3, <1>4, <1>5 DEF Sync

LEMMA SyncWaitingInv ==
  ASSUME Untyped = {}, TypeOK, FolderInv, ToldInv, ScanInv, NewInv, WaitingInv,
         Sync
  PROVE  WaitingInv'
<1>i. ReadOnce /\ WorkOnce
  BY DEF NewInv
<1>1. CASE StartSync \/ StartDownload
  BY <1>1 DEF StartSync, StartDownload, WaitingInv, memoryVars
<1>2. CASE ListMailboxesFails
  BY <1>2
  DEF ListMailboxesFails, WaitingInv, gluonVars, memoryVars, syncVars
<1>3. ASSUME NEW mb \in Mailbox, AnnounceMailbox(mb) PROVE WaitingInv'
  BY <1>3 DEF AnnounceMailbox, WaitingInv
<1>4. ASSUME NEW mb \in Mailbox, ListMailbox(mb) PROVE WaitingInv'
  <2>. DEFINE new == {m \in Listed(mb) : ~IsKnown(m)}
              w == [box |-> mb,
                    new |-> {[id |-> m, read |-> server[m].read] : m \in new}]
  <2>1. /\ work \in Seq(Work) /\ mb \in listing /\ phase = "scan"
        /\ work' = work \/ work' = Append(work, w)
        /\ \A m \in Message :
             seen'[m] = IF m \in Listed(mb) THEN server[m] ELSE seen[m]
        /\ UNCHANGED <<gluonBoxes, queue, phase>> /\ listing' = {}
    BY <1>4 DEF TypeOK, ListMailbox, ScanInv, gluonVars
  <2>2. \A m \in Listed(mb) :
          /\ m \in Message /\ seen[m] = NoState /\ server[m] # NoState
          /\ server[m] = [in |-> {mb}, read |-> server[m].read]
    BY <1>i, <2>1, ListedUnread, ListedHere
  <2>3. mb \in Announced /\ Announced' = Announced
    BY <2>1 DEF FolderInv, Announced
  <2>4. \A u \in outbox' : \E m \in Listed(mb) :
          u = [type |-> "updated", id |-> m, in |-> server[m].in,
               read |-> server[m].read]
    BY <1>4 DEF ListMailbox
  <2>5. ASSUME NEW u \in outbox'
        PROVE  /\ seen'[u.id] # NoState /\ u = Correction(u.id)'
               /\ u.in \subseteq Announced'
    <3>1. PICK m \in Listed(mb) :
            u = [type |-> "updated", id |-> m, in |-> server[m].in,
                 read |-> server[m].read]
      BY <2>4
    <3>2. u.id = m /\ u.in = server[m].in
      BY <3>1
    <3>0. PICK r : server[m] = [in |-> {mb}, read |-> r]
      BY <2>2
    <3>3. seen'[m] = server[m] /\ server[m] # NoState /\ server[m].in = {mb}
      BY <2>1, <2>2, <3>0
    <3>. QED
      BY <2>3, <3>1, <3>2, <3>3 DEF Correction
  <2>6. ASSUME NEW i \in 1 .. Len(work), NEW s \in work[i].new
        PROVE  seen'[s.id] = [in |-> {work[i].box}, read |-> s.read]
    <3>1. work[i] \in Work
      BY <2>1
    <3>2. s.id \in Message /\ ToAnnounce(s.id)
      BY <3>1 DEF Work, ToAnnounce
    <3>3. s.id \notin Listed(mb)
      BY <1>i, <2>2, <3>2 DEF WorkOnce
    <3>. QED
      BY <2>1, <3>2, <3>3 DEF WaitingInv
  <2>7. ASSUME NEW s \in w.new
        PROVE  seen'[s.id] = [in |-> {w.box}, read |-> s.read]
    <3>1. PICK m \in new : s = [id |-> m, read |-> server[m].read]
      OBVIOUS
    <3>2. s.id = m /\ s.read = server[m].read /\ w.box = mb
      BY <3>1
    <3>3. /\ seen'[m] = server[m]
          /\ server[m] = [in |-> {mb}, read |-> server[m].read]
      BY <2>1, <2>2
    <3>. QED
      BY <3>2, <3>3
  <2>. HIDE DEF w, new
  <2>8. \A i \in 1 .. Len(work') :
          \/ i \in 1 .. Len(work) /\ work'[i] = work[i]
          \/ work'[i] = w
    BY <2>1
  <2>9. \A i \in 1 .. Len(work') : \A s \in work'[i].new :
          seen'[s.id] = [in |-> {work'[i].box}, read |-> s.read]
    BY <2>6, <2>7, <2>8
  <2>. QED
    BY <2>1, <2>5, <2>9 DEF WaitingInv
<1>5. ASSUME NEW mb \in Mailbox, ListMailboxFails(mb) PROVE WaitingInv'
  BY <1>5 DEF ListMailboxFails, WaitingInv, ScanInv, memoryVars
<1>6. CASE SendUpdate
  <2>1. PICK u \in outbox : Send(u) /\ outbox' = outbox \ {u}
    BY <1>6 DEF SendUpdate
  <2>2. u \in Update /\ Announced \subseteq Announced'
    BY <1>6, <2>1, SendFolder DEF SendUpdate, TypeOK, gluonVars
  <2>3. UNCHANGED <<phase, listing, seen, work, messages>>
    BY <1>6 DEF SendUpdate, memoryVars
  <2>4. \A v \in outbox' : v.type = "updated" =>
          /\ phase' = "scan" /\ seen'[v.id] # NoState /\ v = Correction(v.id)'
          /\ v.in \subseteq Announced'
    BY <2>1, <2>2, <2>3 DEF WaitingInv, Correction
  <2>5. listing' # {} \/ phase' \in {"idle", "download"} => outbox' = {}
    BY <2>1, <2>3 DEF WaitingInv
  <2>. QED
    BY <2>3, <2>4, <2>5 DEF WaitingInv
<1>7. CASE AnnounceMessage
  <2>1. PICK d \in {0, 1} : \A i \in 1 .. Len(work') :
          /\ i + d \in 1 .. Len(work)
          /\ work'[i].new \subseteq work[i + d].new
          /\ work'[i].box = work[i + d].box
    BY <1>7, WorkShrinks
  <2>2. UNCHANGED <<phase, listing, seen, messages, outbox>>
        /\ phase = "download"
    BY <1>7 DEF AnnounceMessage, memoryVars
  <2>3. \A i \in 1 .. Len(work') : \A s \in work'[i].new :
          seen'[s.id] = [in |-> {work'[i].box}, read |-> s.read]
    BY <2>1, <2>2 DEF WaitingInv
  <2>. QED
    BY <2>2, <2>3 DEF WaitingInv
<1>8. CASE RememberMessages
  <2>1. /\ phase = "download" /\ phase' = "delete" /\ work' = <<>>
        /\ seen' = seen /\ messages' = Remembered /\ listing' = {}
        /\ \A u \in outbox' : u.type = "deleted"
    BY <1>8 DEF RememberMessages, Downloaded, ScanInv
  <2>2. \A m \in Message : seen'[m] # NoState => messages'[m] = seen'[m]
    BY <2>1 DEF Remembered
  <2>. QED
    BY <2>1, <2>2 DEF WaitingInv
<1>9. CASE ForgetMessages
  <2>1. phase' = "idle" /\ outbox' = {} /\ work' = <<>>
    BY <1>9 DEF ForgetMessages, ToldInv
  <2>. QED
    BY <2>1 DEF WaitingInv
<1>. QED
  BY <1>1, <1>2, <1>3, <1>4, <1>5, <1>6, <1>7, <1>8, <1>9 DEF Sync

LEMMA SyncCleanInv ==
  ASSUME TypeOK, ToldInv, ScanInv, LineInv, Sync
  PROVE  CleanInv'
<1>i. CleanInv /\ (clean => clientOp = NoOp)
  BY DEF LineInv
<1>a. ASSUME UNCHANGED <<server, messages, seen, complete, clean, gone>>,
             phase # "idle", phase' # "idle"
      PROVE  CleanInv'
  BY <1>a, <1>i DEF CleanInv
<1>1. CASE StartSync
  BY <1>1 DEF StartSync, ToldInv, Nothing, ScanInv, CleanInv
<1>2. CASE ListMailboxesFails
  BY <1>2, <1>i DEF ListMailboxesFails, CleanInv, memoryVars, syncVars
<1>3. ASSUME NEW mb \in Mailbox, AnnounceMailbox(mb) PROVE CleanInv'
  BY <1>3, <1>a DEF AnnounceMailbox
<1>4. ASSUME NEW mb \in Mailbox, ListMailbox(mb) PROVE CleanInv'
  <2>1. /\ phase = "scan"
        /\ UNCHANGED <<server, phase, complete, clean, gone>>
        /\ \A m \in Message :
             seen'[m] = IF m \in Listed(mb) THEN server[m] ELSE seen[m]
    BY <1>4 DEF ListMailbox, ScanInv
  <2>. QED
    BY <1>i, <2>1 DEF CleanInv
<1>5. ASSUME NEW mb \in Mailbox, ListMailboxFails(mb) PROVE CleanInv'
  BY <1>5 DEF ListMailboxFails, CleanInv
<1>6. CASE SendUpdate
  <2>1. phase # "idle"
    BY <1>6 DEF SendUpdate, LineInv, WaitingInv
  <2>. QED
    BY <1>6, <1>a, <2>1 DEF SendUpdate, memoryVars
<1>7. CASE StartDownload \/ AnnounceMessage
  BY <1>7, <1>a DEF StartDownload, AnnounceMessage, memoryVars
<1>8. CASE RememberMessages
  BY <1>8, <1>i DEF RememberMessages, CleanInv
<1>9. CASE ForgetMessages
  <2>1. /\ phase = "delete" /\ phase' = "idle" /\ messages' = Forgotten
        /\ UNCHANGED <<server, clean>>
    BY <1>9 DEF ForgetMessages
  <2>2. ASSUME clean, NEW m \in Message
        PROVE  messages'[m] = server[m]
    <3>1. complete /\ (seen[m] # NoState => messages[m] = server[m])
      BY <1>i, <2>1, <2>2 DEF CleanInv, LineInv, WaitingInv
    <3>2. seen[m] = NoState => server[m] = NoState
      BY <1>i, <2>1, <2>2, <3>1 DEF ScanInv, ToBeListed, CleanInv
    <3>. QED
      BY <2>1, <3>1, <3>2 DEF Forgotten
  <2>. QED
    BY <2>1, <2>2 DEF CleanInv
<1>. QED
  BY <1>1, <1>2, <1>3, <1>4, <1>5, <1>6, <1>7, <1>8, <1>9 DEF Sync

\* What it has told it remembers, and what it remembers it has told.
LEMMA SyncInMemory ==
  ASSUME Untyped = {}, TypeOK, FolderInv, ToldInv, ScanInv, NewInv, WaitingInv,
         Sync
  PROVE  \A m \in Message \ Unparsable : InMemory(m) => InMemory(m)'
<1>. DEFINE Kept == \A m \in Message \ Unparsable : InMemory(m) => InMemory(m)'
<1>i. ReadOnce /\ WorkOnce
  BY DEF NewInv
<1>a. ASSUME UNCHANGED <<gluon, queue>>
      PROVE  \A m \in Message : \A s : WillBe(m, s) => WillBe(m, s)'
  BY <1>a DEF WillBe, About, Says
<1>1. CASE StartSync \/ StartDownload
  BY <1>1, <1>a, KeepMemory DEF StartSync, StartDownload, gluonVars, memoryVars
<1>2. CASE ListMailboxesFails
  BY <1>2, <1>a, KeepMemory
  DEF ListMailboxesFails, gluonVars, memoryVars, syncVars
<1>3. ASSUME NEW mb \in Mailbox, AnnounceMailbox(mb) PROVE Kept
  <2>. DEFINE u == [type |-> "mailbox", box |-> mb]
  <2>1. u \in Update /\ \A m : ~About(u, m)
    BY DEF Update, About
  <2>2. /\ UNCHANGED <<gluon, messages, seen, work, phase, complete, outbox>>
        /\ UNCHANGED queue \/ Send(u)
    BY <1>3 DEF AnnounceMailbox, gluonVars
  <2>. HIDE DEF u
  <2>3. \A m \in Message : \A s : WillBe(m, s) => WillBe(m, s)'
    BY <1>a, <2>1, <2>2, SendWill
  <2>. QED
    BY <2>2, <2>3, KeepMemory
<1>4. ASSUME NEW mb \in Mailbox, ListMailbox(mb) PROVE Kept
  <2>. DEFINE new == {m \in Listed(mb) : ~IsKnown(m)}
              w == [box |-> mb,
                    new |-> {[id |-> m, read |-> server[m].read] : m \in new}]
  <2>1. /\ work \in Seq(Work) /\ mb \in listing
        /\ phase = "scan" /\ phase' = "scan" /\ outbox = {}
        /\ work' = IF new = {} THEN work ELSE Append(work, w)
        /\ \A m \in Message :
             seen'[m] = IF m \in Listed(mb) THEN server[m] ELSE seen[m]
        /\ UNCHANGED <<gluon, queue, messages>>
        /\ \A m \in Listed(mb) : IsKnown(m) /\ ~SameAs(messages[m], server[m]) =>
             [type |-> "updated", id |-> m, in |-> server[m].in,
              read |-> server[m].read] \in outbox'
    BY <1>4 DEF TypeOK, ListMailbox, ScanInv, WaitingInv, gluonVars, memoryVars
  <2>2. \A m \in Message : \A s : WillBe(m, s) => WillBe(m, s)'
    BY <1>a, <2>1
  <2>3. \A m : ToAnnounce(m) => ToAnnounce(m)'
    BY <2>1 DEF ToAnnounce
  <2>4. ASSUME NEW m \in new
        PROVE  ToAnnounce(m)'
    <3>1. [id |-> m, read |-> server[m].read] \in w.new
      OBVIOUS
    <3>2. work' = Append(work, w)
      BY <2>1
    <3>. HIDE DEF w
    <3>3. Len(work') \in 1 .. Len(work') /\ work'[Len(work')] = w
      BY <2>1, <3>2
    <3>. QED
      BY <3>1, <3>3 DEF ToAnnounce
  <2>5. ASSUME NEW m \in Message \ Unparsable, InMemory(m), m \in Listed(mb),
               IsKnown(m)
        PROVE  Correction(m)' \in outbox' \/ WillBe(m, seen[m])'
    <3>1. seen[m] = NoState /\ seen'[m] = server[m]
      BY <1>i, <2>1, <2>5, ListedUnread
    <3>2. CASE SameAs(messages[m], server[m])
      <4>1. messages[m] \in State /\ server[m] \in State
        BY <2>5 DEF IsKnown, Listed, TypeOK, Some
      <4>2. messages[m] = server[m]
        BY <3>2, <4>1 DEF SameAs, State
      <4>3. WillBe(m, server[m])
        BY <2>1, <2>5, <3>1, <4>2 DEF InMemory, Leaving
      <4>4. PICK s : s = server[m]
        OBVIOUS
      <4>5. WillBe(m, s)'
        BY <2>2, <4>3, <4>4
      <4>. QED
        BY <3>1, <4>4, <4>5 DEF WillBe
    <3>3. CASE ~SameAs(messages[m], server[m])
      BY <2>1, <2>5, <3>1, <3>3 DEF Correction
    <3>. QED
      BY <3>2, <3>3
  <2>6. ASSUME NEW m \in Message \ Unparsable, InMemory(m), m \notin Listed(mb)
        PROVE  /\ IsKnown(m)' /\ seen'[m] = NoState => WillBe(m, messages[m])'
               /\ seen'[m] # NoState => ToAnnounce(m)' \/ WillBe(m, seen[m])'
    <3>1. PICK s, t : s = messages[m] /\ t = seen[m]
      OBVIOUS
    <3>2. messages'[m] = s /\ seen'[m] = t /\ IsKnown(m)' = IsKnown(m)
      BY <2>1, <2>6, <3>1 DEF IsKnown
    <3>3. /\ IsKnown(m) /\ t = NoState => WillBe(m, s)
          /\ t # NoState => ToAnnounce(m) \/ WillBe(m, t)
      BY <2>6, <2>1, <3>1 DEF InMemory, Leaving
    <3>4. /\ IsKnown(m) /\ t = NoState => WillBe(m, s)'
          /\ t # NoState => ToAnnounce(m)' \/ WillBe(m, t)'
      BY <2>2, <2>3, <3>3
    <3>. QED
      BY <3>2, <3>4 DEF WillBe
  <2>7. \A m \in Listed(mb) : m \in Message /\ seen'[m] # NoState
    BY <2>1 DEF Listed
  <2>. QED
    BY <2>1, <2>4, <2>5, <2>6, <2>7 DEF InMemory
<1>5. ASSUME NEW mb \in Mailbox, ListMailboxFails(mb) PROVE Kept
  <2>1. phase = "scan"
    BY <1>5 DEF ListMailboxFails, ScanInv
  <2>. QED
    BY <1>5, <1>a, <2>1, KeepMemory DEF ListMailboxFails, gluonVars, memoryVars
<1>6. CASE SendUpdate
  <2>1. PICK u \in outbox : Send(u) /\ outbox' = outbox \ {u}
    BY <1>6 DEF SendUpdate
  <2>2. u \in Update /\ u.type \in {"updated", "deleted"}
    BY DEF TypeOK, FolderInv
  <2>3. UNCHANGED <<gluon, messages, seen, work, phase, complete>>
    BY <1>6 DEF SendUpdate, gluonVars, memoryVars
  <2>4. \A m \in Message : \A s :
          /\ WillBe(m, s) /\ ~About(u, m) => WillBe(m, s)'
          /\ About(u, m) /\ Says(u) = s => WillBe(m, s)'
    BY <2>1, <2>2, <2>3, SendWill
  <2>5. ASSUME NEW m \in Message, About(u, m)
        PROVE  \/ u = Correction(m) /\ seen[m] # NoState /\ Says(u) = seen[m]
               \/ Leaving(m)
    <3>1. CASE u.type = "deleted"
      BY <2>5, <3>1 DEF ToldInv, About
    <3>2. CASE u.type = "updated"
      <4>1. u = Correction(m) /\ seen[m] # NoState
        BY <2>5, <3>2 DEF WaitingInv, About
      <4>2. seen[m] \in State
        BY <4>1 DEF TypeOK, Some
      <4>3. Says(u) = [in |-> seen[m].in, read |-> seen[m].read]
        BY <4>1 DEF Says, Correction
      <4>. QED
        BY <4>1, <4>2, <4>3 DEF State
    <3>. QED
      BY <2>2, <3>1, <3>2
  <2>6. ASSUME NEW m \in Message \ Unparsable, InMemory(m)
        PROVE  /\ IsKnown(m)' /\ seen'[m] = NoState /\ ~Leaving(m)'
                    => WillBe(m, messages[m])'
               /\ seen'[m] # NoState =>
                    \/ ToAnnounce(m)' \/ Correction(m)' \in outbox'
                    \/ WillBe(m, seen[m])'
    <3>1. PICK s, t : s = messages[m] /\ t = seen[m]
      OBVIOUS
    <3>2. /\ messages'[m] = s /\ seen'[m] = t /\ IsKnown(m)' = IsKnown(m)
          /\ Leaving(m)' = Leaving(m) /\ ToAnnounce(m)' = ToAnnounce(m)
          /\ Correction(m)' = Correction(m)
      BY <2>3, <3>1 DEF IsKnown, Leaving, ToAnnounce, Correction
    <3>3. /\ IsKnown(m) /\ t = NoState /\ ~Leaving(m) => WillBe(m, s)
          /\ t # NoState =>
               ToAnnounce(m) \/ Correction(m) \in outbox \/ WillBe(m, t)
      BY <2>6, <3>1 DEF InMemory
    <3>4. About(u, m) => (u = Correction(m) /\ t # NoState /\ Says(u) = t)
                         \/ (Leaving(m) /\ t = NoState)
      BY <2>5, <3>1 DEF Leaving
    <3>5. CASE About(u, m)
      <4>1. t # NoState => WillBe(m, t)'
        BY <2>4, <3>4, <3>5
      <4>2. IsKnown(m) /\ t = NoState => Leaving(m)
        BY <3>4, <3>5
      <4>. QED
        BY <3>2, <4>1, <4>2 DEF WillBe
    <3>6. CASE ~About(u, m)
      <4>1. Correction(m) # u
        BY <3>6 DEF About, Correction
      <4>2. /\ IsKnown(m) /\ t = NoState /\ ~Leaving(m) => WillBe(m, s)'
            /\ t # NoState =>
                 ToAnnounce(m) \/ Correction(m) \in outbox' \/ WillBe(m, t)'
        BY <2>1, <2>4, <3>3, <3>6, <4>1
      <4>. QED
        BY <3>2, <4>2 DEF WillBe
    <3>. QED
      BY <3>5, <3>6
  <2>. QED
    BY <2>6 DEF InMemory
<1>7. CASE AnnounceMessage
  <2>1. PICK n \in work[1].new :
          /\ 1 \in 1 .. Len(work) /\ n.id \in Message
          /\ \/ UNCHANGED queue /\ n.id \in Unparsable
             \/ \E u \in Update : Tells(u, work[1].box, n) /\ Send(u)
          /\ \A m : ToAnnounce(m) /\ m # n.id => ToAnnounce(m)'
    BY <1>7, WorkShrinks
  <2>2. UNCHANGED <<gluon, messages, seen, phase, complete, outbox>>
        /\ phase = "download" /\ outbox = {}
    BY <1>7 DEF AnnounceMessage, WaitingInv, gluonVars, memoryVars
  <2>3. seen[n.id] = [in |-> {work[1].box}, read |-> n.read]
        /\ seen[n.id] # NoState
    <3>1. ToAnnounce(n.id)
      BY <2>1 DEF ToAnnounce
    <3>. QED
      BY <1>i, <2>1, <3>1 DEF WaitingInv, WorkOnce
  <2>4. ASSUME NEW u \in Update, Tells(u, work[1].box, n), Send(u)
        PROVE  /\ \A m \in Message : \A s : m # n.id /\ WillBe(m, s) => WillBe(m, s)'
               /\ \A s : s = seen[n.id] => WillBe(n.id, s)'
    <3>1. About(u, n.id) /\ \A m : m # n.id => ~About(u, m)
      BY <2>4 DEF Tells, About
    <3>2. Says(u) = seen[n.id]
      BY <2>3, <2>4 DEF Tells, Says
    <3>. QED
      BY <2>1, <2>2, <2>4, <3>1, <3>2, SendWill
  <2>5. /\ \A m \in Message : \A s : m # n.id /\ WillBe(m, s) => WillBe(m, s)'
        /\ n.id \notin Unparsable =>
             \A s : s = seen[n.id] => WillBe(n.id, s)'
    BY <1>a, <2>1, <2>2, <2>4
  <2>6. ASSUME NEW m \in Message \ Unparsable, InMemory(m)
        PROVE  /\ IsKnown(m)' /\ seen'[m] = NoState /\ ~Leaving(m)'
                    => WillBe(m, messages[m])'
               /\ seen'[m] # NoState => ToAnnounce(m)' \/ WillBe(m, seen[m])'
    <3>1. PICK s, t : s = messages[m] /\ t = seen[m]
      OBVIOUS
    <3>2. /\ messages'[m] = s /\ seen'[m] = t /\ IsKnown(m)' = IsKnown(m)
      BY <2>2, <3>1 DEF IsKnown
    <3>3. /\ IsKnown(m) /\ t = NoState => WillBe(m, s)
          /\ t # NoState => ToAnnounce(m) \/ WillBe(m, t)
      BY <2>6, <2>2, <3>1 DEF InMemory, Leaving
    <3>4. CASE m = n.id
      <4>1. t # NoState /\ WillBe(m, t)'
        BY <2>3, <2>5, <3>1, <3>4
      <4>. QED
        BY <3>2, <4>1 DEF WillBe
    <3>5. CASE m # n.id
      <4>1. /\ IsKnown(m) /\ t = NoState => WillBe(m, s)'
            /\ t # NoState => ToAnnounce(m)' \/ WillBe(m, t)'
        BY <2>1, <2>5, <3>3, <3>5
      <4>. QED
        BY <3>2, <4>1 DEF WillBe
    <3>. QED
      BY <3>4, <3>5
  <2>. QED
    BY <2>6 DEF InMemory
<1>8. CASE RememberMessages
  <2>1. /\ UNCHANGED <<gluon, queue, seen, complete>>
        /\ phase = "download" /\ phase' = "delete" /\ messages' = Remembered
        /\ work = <<>> /\ outbox = {}
    BY <1>8 DEF RememberMessages, Downloaded, WaitingInv, gluonVars
  <2>2. ASSUME NEW m \in Message \ Unparsable, InMemory(m)
        PROVE  /\ IsKnown(m)' /\ seen'[m] = NoState /\ ~Leaving(m)'
                    => WillBe(m, messages[m])'
               /\ seen'[m] # NoState => WillBe(m, seen[m])'
    <3>1. PICK s, t : s = messages[m] /\ t = seen[m]
      OBVIOUS
    <3>2. /\ messages'[m] = (IF t # NoState THEN t ELSE s) /\ seen'[m] = t
      BY <2>1, <3>1 DEF Remembered
    <3>3. /\ s # NoState /\ t = NoState => WillBe(m, s)
          /\ t # NoState => WillBe(m, t)
      BY <2>2, <2>1, <3>1 DEF InMemory, IsKnown, Leaving, ToAnnounce
    <3>4. /\ s # NoState /\ t = NoState => WillBe(m, s)'
          /\ t # NoState => WillBe(m, t)'
      BY <1>a, <2>1, <3>3
    <3>. QED
      BY <3>2, <3>4 DEF WillBe, IsKnown
  <2>. QED
    BY <2>2 DEF InMemory
<1>9. CASE ForgetMessages
  <2>1. /\ UNCHANGED <<gluon, queue>> /\ work = <<>> /\ outbox = {}
        /\ phase = "delete" /\ phase' = "idle"
        /\ seen' = Nothing /\ messages' = Forgotten
    BY <1>9 DEF ForgetMessages, gluonVars, ToldInv
  <2>2. ASSUME NEW m \in Message \ Unparsable, InMemory(m), IsKnown(m)'
        PROVE  WillBe(m, messages[m])'
    <3>1. PICK s, t : s = messages[m] /\ t = seen[m]
      OBVIOUS
    <3>2. /\ ~(complete /\ t = NoState) /\ messages'[m] = s /\ s # NoState
      BY <2>1, <2>2, <3>1 DEF Forgotten, IsKnown
    <3>3. t # NoState => t = s
      BY <2>1, <3>1 DEF WaitingInv
    <3>4. WillBe(m, s)
      BY <2>2, <2>1, <3>1, <3>2, <3>3 DEF InMemory, IsKnown, Leaving, ToAnnounce
    <3>5. WillBe(m, s)'
      BY <1>a, <2>1, <3>4
    <3>. QED
      BY <3>2, <3>5 DEF WillBe
  <2>. QED
    BY <2>1, <2>2 DEF InMemory, Nothing
<1>. QED
  BY <1>1, <1>2, <1>3, <1>4, <1>5, <1>6, <1>7, <1>8, <1>9 DEF Sync

\* A listing that finds a message the connector is behind with corrects it.
LEMMA SyncBehind ==
  ASSUME Untyped = {}, TypeOK, ToldInv, ScanInv, NewInv, WaitingInv, Sync,
         NEW m \in Message \ Unparsable, Behind(m)
  PROVE  InMemory(m)' \/ Behind(m)'
<1>i. /\ ReadOnce /\ UNCHANGED <<server, clientOp>>
      /\ used'.client = used.client
  BY SyncLeavesClients DEF NewInv
<1>a. ASSUME seen'[m] = seen[m], messages'[m] = messages[m]
      PROVE  Behind(m)'
  BY <1>a, <1>i, KeepBehind DEF Remembered
<1>1. CASE StartSync
  <2>1. UNCHANGED <<seen, messages>>
    BY <1>1 DEF StartSync, memoryVars
  <2>. QED
    BY <1>a, <2>1
<1>2. CASE ListMailboxesFails \/ SendUpdate \/ StartDownload \/ AnnounceMessage
  <2>1. UNCHANGED <<seen, messages>>
    BY <1>2 DEF ListMailboxesFails, SendUpdate, StartDownload, AnnounceMessage,
       memoryVars, syncVars
  <2>. QED
    BY <1>a, <2>1
<1>3. ASSUME NEW mb \in Mailbox, AnnounceMailbox(mb) \/ ListMailboxFails(mb)
      PROVE  Behind(m)'
  <2>1. UNCHANGED <<seen, messages>>
    BY <1>3 DEF AnnounceMailbox, ListMailboxFails, memoryVars
  <2>. QED
    BY <1>a, <2>1
<1>4. ASSUME NEW mb \in Mailbox, ListMailbox(mb)
      PROVE  InMemory(m)' \/ Behind(m)'
  <2>1. /\ mb \in listing
        /\ seen'[m] = IF m \in Listed(mb) THEN server[m] ELSE seen[m]
        /\ UNCHANGED messages
        /\ m \in Listed(mb) /\ IsKnown(m) /\ ~SameAs(messages[m], server[m]) =>
             [type |-> "updated", id |-> m, in |-> server[m].in,
              read |-> server[m].read] \in outbox'
    BY <1>4 DEF ListMailbox, memoryVars
  <2>2. CASE m \in Listed(mb)
    <3>1. seen[m] = NoState /\ server[m] # NoState
      BY <1>i, <2>1, <2>2, ListedUnread
    <3>2. messages[m] \notin {NoState, server[m]}
      BY <3>1 DEF Behind, Remembered
    <3>3. messages[m] \in State /\ server[m] \in State
      BY <3>1, <3>2 DEF TypeOK, Some
    <3>4. IsKnown(m) /\ ~SameAs(messages[m], server[m])
      BY <3>2, <3>3 DEF IsKnown, SameAs, State
    <3>5. Correction(m)' \in outbox' /\ seen'[m] # NoState
      BY <2>1, <2>2, <3>1, <3>4 DEF Correction
    <3>. QED
      BY <3>5 DEF InMemory
  <2>3. CASE m \notin Listed(mb)
    BY <1>a, <2>1, <2>3
  <2>. QED
    BY <2>2, <2>3
<1>5. CASE RememberMessages
  <2>1. seen' = seen /\ messages' = Remembered
    BY <1>5 DEF RememberMessages
  <2>2. Remembered'[m] = Remembered[m]
    BY <2>1 DEF Remembered
  <2>. QED
    BY <1>i, <2>2, KeepBehind
<1>6. CASE ForgetMessages
  <2>1. phase = "delete" /\ seen' = Nothing /\ messages' = Forgotten
    BY <1>6 DEF ForgetMessages
  <2>2. seen[m] # NoState => messages[m] = seen[m]
    BY <2>1 DEF WaitingInv
  <2>3. CASE complete /\ seen[m] = NoState
    <3>1. messages'[m] = NoState /\ seen'[m] = NoState
      BY <2>1, <2>3 DEF Forgotten, Nothing
    <3>. QED
      BY <3>1 DEF InMemory, IsKnown
  <2>4. CASE ~(complete /\ seen[m] = NoState)
    <3>1. Remembered'[m] = Remembered[m]
      BY <2>1, <2>2, <2>4 DEF Remembered, Forgotten, Nothing
    <3>. QED
      BY <1>i, <3>1, KeepBehind
  <2>. QED
    BY <2>3, <2>4
<1>. QED
  BY <1>1, <1>2, <1>3, <1>4, <1>5, <1>6 DEF Sync

LEMMA SyncMemoryInv ==
  ASSUME Untyped = {}, TypeOK, FolderInv, ToldInv, ScanInv, NewInv, WaitingInv,
         MemoryInv, Sync
  PROVE  MemoryInv'
BY SyncInMemory, SyncBehind DEF MemoryInv

LEMMA ApplyMemoryInv ==
  ASSUME TypeOK, FolderInv, ToldInv, NewInv, UpdateFirst, MemoryInv, GluonApply
  PROVE  MemoryInv'
<1>1. /\ UNCHANGED <<messages, phase, seen, work, complete, outbox>>
      /\ UNCHANGED <<server, clientOp, used>>
  BY DEF GluonApply, memoryVars, syncVars
<1>2. \A m \in Message, s \in State :
        WillBe(m, s) /\ WillHave(m) => WillBe(m, s)'
  BY NewInvAnnouncesNew, ApplyWill DEF FolderInv
<1>3. ASSUME NEW m \in Message \ Unparsable, InMemory(m)
      PROVE  /\ IsKnown(m)' /\ seen'[m] = NoState /\ ~Leaving(m)'
                  => WillBe(m, messages[m])'
             /\ seen'[m] # NoState =>
                  \/ ToAnnounce(m)' \/ Correction(m)' \in outbox'
                  \/ WillBe(m, seen[m])'
  <2>1. PICK s, t : s = messages[m] /\ t = seen[m]
    OBVIOUS
  <2>2. /\ messages'[m] = s /\ seen'[m] = t /\ IsKnown(m)' = IsKnown(m)
        /\ Leaving(m)' = Leaving(m) /\ ToAnnounce(m)' = ToAnnounce(m)
        /\ Correction(m)' = Correction(m)
    BY <1>1, <2>1 DEF IsKnown, Leaving, ToAnnounce, Correction
  <2>3. /\ s \in State \cup {NoState} /\ t \in State \cup {NoState}
        /\ IsKnown(m) => s # NoState
    BY <2>1 DEF TypeOK, Some, IsKnown
  <2>4. t # NoState => WillHave(m) \/ ToAnnounce(m)
    BY <2>1 DEF ToldInv, Nothing
  <2>5. IsKnown(m) /\ ~Leaving(m) => WillHave(m)
    BY DEF ToldInv, RememberedIsTold
  <2>6. /\ IsKnown(m) /\ t = NoState /\ ~Leaving(m) => WillBe(m, s)
        /\ t # NoState =>
             ToAnnounce(m) \/ Correction(m) \in outbox \/ WillBe(m, t)
    BY <1>3, <2>1 DEF InMemory
  <2>7. /\ IsKnown(m) /\ t = NoState /\ ~Leaving(m) => WillBe(m, s)'
        /\ t # NoState =>
             ToAnnounce(m) \/ Correction(m) \in outbox \/ WillBe(m, t)'
    BY <1>2, <2>3, <2>4, <2>5, <2>6
  <2>. QED
    BY <1>1, <2>2, <2>7 DEF WillBe
<1>4. ASSUME NEW m \in Message \ Unparsable, Behind(m) PROVE Behind(m)'
  <2>1. Remembered'[m] = Remembered[m]
    BY <1>1 DEF Remembered
  <2>. QED
    BY <1>1, <1>4, <2>1, KeepBehind
<1>. QED
  BY <1>3, <1>4 DEF MemoryInv, InMemory

LEMMA InitLineInv == Init => LineInv
<1>. SUFFICES ASSUME Init PROVE LineInv
  OBVIOUS
<1>1. UpdateFirst /\ WaitingInv
  BY DEF Init, ConnectorInit, UpdateFirst, WaitingInv
<1>2. MemoryInv
  BY DEF Init, ConnectorInit, MemoryInv, InMemory, IsKnown, Nothing
<1>. QED
  BY <1>1, <1>2 DEF Init, ConnectorInit, LineInv, CleanInv, CarriedOut

\* What Gluon then does to a message is what the call did to it in the account.
LEMMA EffectsAgree ==
  ASSUME NEW op \in ClientOp, NEW s \in State, ApiEffect(op, s) = s
  PROVE  LocalEffect(op, s) = s
<1>. HIDE DEF State
<1>n. s # NoState /\ Trash \in Erasing
  BY MailSyncAssumption
<1>s. \E i, r : s = [in |-> i, read |-> r]
  BY DEF State
<1>1. CASE op.kind = "seen"
  <2>1. [s EXCEPT !.read = op.read] = s
    BY <1>1 DEF ApiEffect
  <2>. QED
    BY <1>1, <2>1 DEF LocalEffect
<1>2. CASE op.kind \in {"move", "copy"}
  <2>1. [s EXCEPT !.in = {op.to}] = s
    BY <1>2 DEF ApiEffect
  <2>2. s.in = {op.to}
    BY <1>s, <2>1
  <2>3. (s.in \ {op.from}) \cup {op.to} = s.in /\ s.in \cup {op.to} = s.in
    BY <2>2
  <2>4. LocalEffect(op, s) = [s EXCEPT !.in = s.in]
    BY <1>2, <2>3 DEF LocalEffect
  <2>. QED
    BY <1>s, <2>4
<1>3. CASE op.kind = "remove"
  <2>1. op.from \notin Erasing /\ [s EXCEPT !.in = {Trash}] = s
    BY <1>3, <1>n DEF ApiEffect
  <2>2. s.in = {Trash} /\ op.from # Trash
    BY <1>n, <1>s, <2>1
  <2>3. s.in \ {op.from} = s.in
    BY <2>2
  <2>4. LocalEffect(op, s) = [s EXCEPT !.in = s.in]
    BY <1>3, <2>3 DEF LocalEffect
  <2>. QED
    BY <1>s, <2>4
<1>. QED
  BY <1>1, <1>2, <1>3 DEF ClientOp

\* The one operation changes the account and then Gluon, call by call, whatever a
\* sync reads and tells meanwhile.
LEMMA ClientMemoryInv ==
  ASSUME MaxClientOps <= 1, TypeOK, MemoryInv, CarriedOut, Client
  PROVE  MemoryInv' /\ CarriedOut'
<1>1. UNCHANGED <<queue, memoryVars, syncVars>>
  BY DEF Client, StartClientOp, ApiCall, ClientOpFails, ClientOpDone
<1>2. \A m : /\ IsKnown(m)' = IsKnown(m) /\ Leaving(m)' = Leaving(m)
             /\ ToAnnounce(m)' = ToAnnounce(m) /\ Correction(m)' = Correction(m)
             /\ Remembered' = Remembered
  BY <1>1 DEF IsKnown, Leaving, ToAnnounce, Correction, Remembered, memoryVars,
     syncVars
<1>3. ASSUME NEW m \in Message, gluon'[m] = gluon[m], InMemory(m)
      PROVE  InMemory(m)'
  <2>1. \A s : WillBe(m, s) => WillBe(m, s)'
    BY <1>1, <1>3 DEF WillBe, About, Says
  <2>2. /\ messages'[m] = messages[m] /\ seen'[m] = seen[m]
        /\ outbox' = outbox
    BY <1>1 DEF memoryVars, syncVars
  <2>. QED
    BY <1>2, <1>3, <2>1, <2>2 DEF InMemory, WillBe
<1>4. CASE StartClientOp
  <2>1. /\ clientOp' # NoOp /\ clientOp'.ids \ clientOp'.todo = {}
        /\ gluon' = gluon
    <3>1. clientOp' \in ClientOp
      BY <1>4, MailSyncAssumption DEF StartClientOp, ClientOp
    <3>2. clientOp'.todo = clientOp'.ids
      BY <1>4 DEF StartClientOp
    <3>. QED
      BY <1>4, <3>1, <3>2, NoOpAssumption DEF StartClientOp, gluonVars
  <2>2. used.client \in Nat /\ used.client < 1 /\ used'.client = used.client + 1
    BY <1>4, MailSyncAssumption DEF StartClientOp, TypeOK, Used
  <2>3. CarriedOut'
    BY <2>1, <2>2 DEF CarriedOut
  <2>4. \A m \in Message \ Unparsable : InMemory(m)
    BY <2>2 DEF MemoryInv, Behind, Settled
  <2>. QED
    BY <1>3, <2>1, <2>3, <2>4 DEF MemoryInv
<1>5. CASE ApiCall
  <2>1. clientOp \in ClientOp /\ clientOp # NoOp
    BY <1>5 DEF ApiCall, TypeOK
  <2>2. PICK n \in clientOp.todo :
          /\ server[n] # NoState
          /\ ServerBecomes(n, ApiEffect(clientOp, server[n]))
          /\ clientOp' = [clientOp EXCEPT !.todo = @ \ {n}]
    BY <1>5 DEF ApiCall
  <2>3. /\ clientOp'.todo = clientOp.todo \ {n} /\ clientOp'.ids = clientOp.ids
        /\ clientOp'.kind = clientOp.kind /\ clientOp'.read = clientOp.read
        /\ clientOp'.from = clientOp.from /\ clientOp'.to = clientOp.to
        /\ clientOp' # NoOp
    BY <2>1, <2>2, NoOpAssumption DEF ClientOp
  <2>4. n \in Message /\ server[n] \in State /\ gluon' = gluon /\ used' = used
    BY <1>5, <2>1, <2>2 DEF ClientOp, TypeOK, Some, ApiCall, gluonVars
  <2>5. /\ server'[n] = ApiEffect(clientOp, server[n])
        /\ \A m \in Message : m # n => server'[m] = server[m]
    BY <2>2, <2>4 DEF ServerBecomes, TypeOK, Some
  <2>6. \A s : ApiEffect(clientOp', s) = ApiEffect(clientOp, s)
    BY <2>3 DEF ApiEffect
  <2>7. ASSUME server'[n] # NoState
        PROVE  ApiEffect(clientOp, server'[n]) = server'[n]
    BY <2>1, <2>4, <2>5, <2>7 DEF ApiEffect, State, ClientOp
  <2>8. CarriedOut'
    <3>1. ASSUME NEW m \in clientOp'.ids \ clientOp'.todo, server'[m] # NoState
          PROVE  ApiEffect(clientOp', server'[m]) = server'[m]
      <4>1. CASE m = n
        BY <2>6, <2>7, <3>1, <4>1
      <4>2. CASE m # n
        <5>1. m \in Message /\ m \in clientOp.ids \ clientOp.todo
          BY <2>1, <2>3, <3>1, <4>2 DEF ClientOp
        <5>. QED
          BY <2>1, <2>5, <2>6, <3>1, <4>2, <5>1 DEF CarriedOut
      <4>. QED
        BY <4>1, <4>2
    <3>. QED
      BY <2>1, <2>4, <3>1 DEF CarriedOut
  <2>9. ASSUME NEW m \in Message \ Unparsable
        PROVE  InMemory(m)' \/ Behind(m)'
    <3>1. CASE InMemory(m)
      BY <1>3, <2>4, <3>1
    <3>2. CASE Behind(m)
      <4>1. m # n /\ m \notin clientOp'.todo
        BY <2>1, <2>2, <2>3, <3>2 DEF Behind, Settled
      <4>. QED
        BY <1>2, <2>4, <2>5, <3>2, <4>1 DEF Behind, Settled
    <3>. QED
      BY <3>1, <3>2 DEF MemoryInv
  <2>. QED
    BY <2>8, <2>9 DEF MemoryInv
<1>6. CASE ClientOpFails
  <2>1. /\ clientOp' = NoOp /\ used'.client = used.client /\ used.client # 0
        /\ gluon' = gluon /\ server' = server
    BY <1>6 DEF ClientOpFails, CarriedOut, Fail, TypeOK, Used, gluonVars
  <2>2. \A m \in Message \ Unparsable : Behind(m) => Behind(m)'
    BY <1>2, <2>1 DEF Behind, Settled
  <2>. QED
    BY <1>3, <2>1, <2>2 DEF MemoryInv, CarriedOut
<1>7. CASE ClientOpDone
  <2>1. /\ clientOp \in ClientOp /\ clientOp # NoOp /\ clientOp.todo = {}
        /\ clientOp' = NoOp /\ used' = used /\ used.client # 0
        /\ server' = server
    BY <1>7 DEF ClientOpDone, CarriedOut, TypeOK
  <2>2. \A m \in Message :
          gluon'[m] = IF m \in clientOp.ids /\ gluon[m] # NoState
                      THEN LocalEffect(clientOp, gluon[m]) ELSE gluon[m]
    BY <1>7 DEF ClientOpDone
  <2>3. ASSUME NEW m \in Message \ Unparsable, ~Behind(m), InMemory(m)
        PROVE  InMemory(m)' \/ Behind(m)'
    <3>1. CASE Remembered[m] \notin {NoState, server[m]}
      BY <1>2, <2>1, <3>1 DEF Behind, Settled
    <3>2. CASE Remembered[m] = NoState
      <4>1. seen[m] = NoState /\ ~IsKnown(m)
        BY <3>2 DEF Remembered, IsKnown
      <4>2. seen'[m] = NoState /\ ~IsKnown(m)'
        BY <1>1, <1>2, <4>1 DEF syncVars
      <4>. QED
        BY <4>2 DEF InMemory
    <3>3. CASE Remembered[m] = server[m] /\ server[m] # NoState
      <4>. DEFINE v == server[m]
      <4>1. WillBe(m, v) => WillBe(m, v)'
        <5>1. CASE gluon[m] = v
          <6>1. gluon'[m] = v
            <7>1. CASE m \in clientOp.ids
              <8>1. v \in State /\ ApiEffect(clientOp, v) = v
                BY <2>1, <3>3, <7>1 DEF CarriedOut, TypeOK, Some
              <8>. QED
                BY <2>1, <2>2, <3>3, <5>1, <7>1, <8>1, EffectsAgree
            <7>2. CASE m \notin clientOp.ids
              BY <2>2, <5>1, <7>2
            <7>. QED
              BY <7>1, <7>2
          <6>. QED
            BY <1>1, <2>1, <5>1, <6>1 DEF WillBe, About, Says
        <5>2. CASE gluon[m] # v
          BY <1>1, <2>1, <5>2 DEF WillBe, About, Says
        <5>. QED
          BY <5>1, <5>2
      <4>2. PICK s : s = v
        OBVIOUS
      <4>3. WillBe(m, s) => WillBe(m, s)'
        BY <2>1, <4>1, <4>2 DEF WillBe
      <4>4. /\ IsKnown(m) /\ seen[m] = NoState => messages[m] = s
            /\ seen[m] # NoState => seen[m] = s
            /\ messages'[m] = messages[m] /\ seen'[m] = seen[m]
            /\ outbox' = outbox
        BY <1>1, <3>3, <4>2 DEF Remembered, IsKnown, memoryVars, syncVars
      <4>5. InMemory(m)'
        BY <1>2, <2>3, <4>3, <4>4 DEF InMemory, WillBe
      <4>. QED
        BY <4>5
    <3>. QED
      BY <3>1, <3>2, <3>3
  <2>4. \A m \in Message \ Unparsable : Behind(m) => Behind(m)'
    BY <1>2, <2>1 DEF Behind, Settled
  <2>. QED
    BY <2>1, <2>3, <2>4 DEF MemoryInv, CarriedOut
<1>. QED
  BY <1>4, <1>5, <1>6, <1>7 DEF Client

\* From the start of a client's operation on, nobody else changes the account.
ClientsLast == used.client # 0 => used'.web = used.web

LEMMA NextLineInv ==
  ASSUME ~MovesDuringScan, Untyped = {}, MaxClientOps <= 1,
         TypeOK, FolderInv, ToldInv, ScanInv, NewInv, LineInv, [Next]_vars,
         [ClientsLast]_vars
  PROVE  LineInv'
<1>i. /\ UpdateFirst /\ WaitingInv /\ MemoryInv /\ CleanInv /\ CarriedOut
      /\ clean => clientOp = NoOp
  BY DEF LineInv
<1>1. CASE Sync
  <2>1. UpdateFirst' /\ WaitingInv' /\ MemoryInv' /\ CleanInv'
    BY <1>1, <1>i, SyncUpdateFirst, SyncWaitingInv, SyncMemoryInv, SyncCleanInv
  <2>2. CarriedOut' /\ (clean' => clientOp' = NoOp)
    BY <1>1, <1>i, SyncLeavesClients DEF CarriedOut
  <2>. QED
    BY <2>1, <2>2 DEF LineInv
<1>2. CASE GluonApply
  <2>1. UpdateFirst' /\ MemoryInv' /\ Announced \subseteq Announced'
    BY <1>2, <1>i, ApplyBefore, ApplyMemoryInv, ApplyFolder
  <2>2. UNCHANGED <<server, memoryVars, syncVars, clientOp, used, clean, gone>>
    BY <1>2 DEF GluonApply
  <2>3. WaitingInv'
    BY <1>i, <2>1, <2>2 DEF WaitingInv, Correction, memoryVars, syncVars
  <2>4. CleanInv'
    BY <1>i, <2>2 DEF CleanInv, memoryVars, syncVars
  <2>5. CarriedOut' /\ (clean' => clientOp' = NoOp)
    BY <1>i, <2>2 DEF CarriedOut
  <2>. QED
    BY <2>1, <2>3, <2>4, <2>5 DEF LineInv
<1>3. CASE Restart
  <2>1. UpdateFirst' /\ WaitingInv'
    BY <1>3 DEF Restart, UpdateFirst, WaitingInv
  <2>2. MemoryInv' /\ CleanInv' /\ CarriedOut' /\ (clean' => clientOp' = NoOp)
    BY <1>3
    DEF Restart, MemoryInv, InMemory, CleanInv, CarriedOut, IsKnown, Nothing
  <2>. QED
    BY <2>1, <2>2 DEF LineInv
<1>4. ASSUME UNCHANGED <<gluonBoxes, queue, memoryVars, syncVars>>,
             ~clean' \/ UNCHANGED <<server, clean, gone>>,
             MemoryInv', CarriedOut', clean' => clientOp' = NoOp
      PROVE  LineInv'
  <2>1. UpdateFirst' /\ WaitingInv'
    BY <1>4, <1>i DEF UpdateFirst, AnnouncedBefore, WaitingInv, Correction,
       Announced, memoryVars, syncVars
  <2>2. CleanInv'
    BY <1>4, <1>i DEF CleanInv, memoryVars, syncVars
  <2>. QED
    BY <1>4, <2>1, <2>2 DEF LineInv
<1>5. CASE Client
  <2>1. /\ UNCHANGED <<gluonBoxes, queue, memoryVars, syncVars>> /\ ~clean'
    BY <1>5 DEF Client, StartClientOp, ApiCall, ClientOpFails, ClientOpDone,
       ServerBecomes, gluonVars
  <2>. QED
    BY <1>4, <1>5, <1>i, <2>1, ClientMemoryInv
<1>6. ASSUME NEW n \in Message, WebChange(n) PROVE LineInv'
  <2>1. /\ UNCHANGED <<gluonVars, queue, memoryVars, syncVars, clientOp>>
        /\ used'.client = used.client /\ used'.web = used.web + 1
        /\ used.web \in Nat /\ ~clean'
    BY <1>6, MailSyncAssumption DEF WebChange, ServerBecomes, TypeOK, Used
  <2>2. used.client = 0
    BY <2>1 DEF ClientsLast, vars
  <2>3. clientOp = NoOp /\ \A m \in Message \ Unparsable : InMemory(m)
    BY <1>i, <2>2 DEF CarriedOut, MemoryInv, Behind, Settled
  <2>4. \A m \in Message : \A s : WillBe(m, s) => WillBe(m, s)'
    BY <2>1 DEF WillBe, About, Says, gluonVars
  <2>5. \A m \in Message \ Unparsable : InMemory(m)'
    BY <2>1, <2>3, <2>4, KeepMemory DEF memoryVars, syncVars
  <2>. QED
    BY <1>4, <2>1, <2>3, <2>5 DEF MemoryInv, CarriedOut, gluonVars
<1>7. CASE UNCHANGED vars
  <2>1. /\ UNCHANGED <<gluonVars, queue, memoryVars, syncVars>>
        /\ UNCHANGED <<server, clientOp, used, clean, gone>>
    BY <1>7 DEF vars
  <2>2. \A m \in Message : \A s : WillBe(m, s) => WillBe(m, s)'
    BY <2>1 DEF WillBe, About, Says, gluonVars
  <2>3. \A m \in Message \ Unparsable : InMemory(m) => InMemory(m)'
    BY <2>1, <2>2, KeepMemory DEF memoryVars, syncVars
  <2>4. \A m \in Message \ Unparsable : Behind(m) => Behind(m)'
    <3>1. Remembered' = Remembered
      BY <2>1 DEF Remembered, memoryVars, syncVars
    <3>. QED
      BY <2>1, <3>1, KeepBehind
  <2>5. MemoryInv' /\ CarriedOut'
    BY <1>i, <2>1, <2>3, <2>4 DEF MemoryInv, CarriedOut
  <2>. QED
    BY <1>4, <1>i, <2>1, <2>5 DEF gluonVars
<1>. QED
  BY <1>1, <1>2, <1>3, <1>5, <1>6, <1>7 DEF Next

LEMMA LineInvInLine ==
  ASSUME TypeOK, ToldInv, NewInv, LineInv
  PROVE  QuietSyncInLine
<1>. SUFFICES ASSUME clean, phase = "idle", queue = <<>>,
                     NEW m \in Message \ Unparsable
              PROVE  gluon[m] = server[m]
  BY DEF QuietSyncInLine, InLine
<1>1. /\ seen[m] = NoState /\ outbox = {} /\ messages[m] = server[m]
      /\ ~Leaving(m)
  BY DEF ToldInv, Nothing, LineInv, WaitingInv, CleanInv, Leaving
<1>2. Len(queue) = 0 /\ 1 .. 0 = {} /\ 1 .. (0 + 1) - 1 = {}
  OBVIOUS
<1>3. CASE IsKnown(m)
  <2>1. InMemory(m)
    BY <1>1 DEF LineInv, MemoryInv, Behind, Remembered
  <2>2. WillBe(m, messages[m])
    BY <1>1, <1>3, <2>1 DEF InMemory
  <2>. QED
    BY <1>1, <1>2, <2>2 DEF WillBe
<1>4. CASE ~IsKnown(m)
  <2>1. WillLack(m)
    BY <1>1, <1>4 DEF NewInv, LackInv
  <2>. QED
    BY <1>1, <1>2, <1>4, <2>1 DEF WillLack, LackBefore, IsKnown
<1>. QED
  BY <1>3, <1>4

\* Every folder has a type, a message is in one folder at a time, and mail moves
\* between none in mid-scan: a cycle that every folder answered and nothing
\* disturbed leaves Gluon, once it has taken the updates, with the account's view,
\* whatever changes, failures and restarts went before, where a client's
\* operation was the last change (connector.go:69-119, mutations.go:18-101). A
\* sync may have read and told any of its messages before Gluon changed them.
THEOREM QuietSyncAfterAnOperation ==
  ASSUME ~MovesDuringScan, Untyped = {}, MaxClientOps <= 1,
         \A p \in Placement : \A a, b \in p : a = b
  PROVE  Spec /\ [][ClientsLast]_vars => []QuietSyncInLine
<1>1. TypeOK /\ ToldInv /\ NewInv /\ LineInv => QuietSyncInLine
  BY LineInvInLine
<1>2. TypeOK /\ ScanInv /\ [Next]_vars => ScanInv'
  BY NextScanInv
<1>3. TypeOK /\ FolderInv /\ ToldInv /\ ScanInv /\ NewInv /\ [Next]_vars
        => NewInv'
  BY NextNewInv
<1>4. Init => NewInv
  BY InitNewInv
<1>5. TypeOK /\ FolderInv /\ ToldInv /\ ScanInv /\ NewInv /\ LineInv
        /\ [Next]_vars /\ [ClientsLast]_vars => LineInv'
  BY NextLineInv
<1>. QED
  BY <1>1, <1>2, <1>3, <1>4, <1>5, InitTypeOK, NextTypeOK, InitFolderInv,
     NextFolderInv, InitToldInv, NextToldInv, InitScanInv, InitLineInv,
     PTL DEF Spec

\* So does it where IMAP clients only read, whoever else changes the account and
\* when (connector.go:69-119).
THEOREM QuietSyncBringsInLine ==
  ASSUME ~MovesDuringScan, Untyped = {}, MaxClientOps = 0,
         \A p \in Placement : \A a, b \in p : a = b
  PROVE  Spec => []QuietSyncInLine
<1>1. TypeOK => [ClientsLast]_vars
  <2>1. TypeOK => used.client \in 0 .. 0
    BY DEF TypeOK, Used
  <2>. QED
    BY <2>1 DEF ClientsLast
<1>2. Spec /\ [][ClientsLast]_vars => []QuietSyncInLine
  BY QuietSyncAfterAnOperation
<1>. QED
  BY <1>1, <1>2, TypeCorrect, PTL

\* And where one operation of a client, of any kind and on any messages, is all that
\* changes the account, failing or not (mutations.go:18-101).
THEOREM QuietSyncAfterOnlyClients ==
  ASSUME ~MovesDuringScan, Untyped = {}, MaxClientOps <= 1, MaxWebChanges = 0,
         \A p \in Placement : \A a, b \in p : a = b
  PROVE  Spec => []QuietSyncInLine
<1>1. TypeOK /\ TypeOK' => [ClientsLast]_vars
  BY DEF TypeOK, Used, ClientsLast
<1>2. Spec /\ [][ClientsLast]_vars => []QuietSyncInLine
  BY QuietSyncAfterAnOperation
<1>. QED
  BY <1>1, <1>2, TypeCorrect, PTL

=============================================================================
