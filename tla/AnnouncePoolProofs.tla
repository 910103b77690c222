------------------------- MODULE AnnouncePoolProofs -------------------------
(***************************************************************************)
(* The download of one sync, for any messages, folders, conversations, any *)
(* number of goroutines and any size of a batch: however the goroutines    *)
(* interleave and whichever calls fail, each message found is announced    *)
(* once or skipped, folder by folder, batches stay bounded, and the parent *)
(* is told of every message before the sync closes.                        *)
(***************************************************************************)
EXTENDS AnnouncePool, FiniteSetTheorems, TLAPS

\* Stored by its goroutine and not yet sent.
Held(t) == t \in pending \/ \E a \in Actor : t \in batch[a]

\* Past the store: a message that does not parse only gets there by returning.
Stored(t) == stage[t] \in {"flush", "send", "returned"} /\ Parses(t)

\* A message that parses is, once stored, in one place: the pending list, the
\* hands of one goroutine, or Gluon's.
PlaceInv ==
  /\ \A t \in Task : Stored(t) <=> Held(t) \/ told[t] = 1
  /\ \A t \in Task : told[t] \in {0, 1} /\ (told[t] = 1 => ~Held(t))
  /\ \A t \in pending, a \in Actor : t \notin batch[a]
  /\ \A a, b \in Actor : a # b => \A t \in batch[a] : t \notin batch[b]
  /\ \A t \in Task : stage[t] \in {"flush", "send"} => Parses(t)
  /\ \A t \in Task : batch[t] # {} => stage[t] = "send"
  /\ batch[Main] # {} => phase = "send"

\* Done with: announced, or given up.
Settled(t) == stage[t] = "returned" /\ (Parses(t) => told[t] = 1)

\* The folders are taken in order, and nothing of one is left when the next is
\* begun.
OrderInv ==
  /\ \A t \in Task : stage[t] # "waiting" => t \in new /\ BoxOf[t] <= box
  /\ phase = "scan" => box = 0
  /\ \A t \in new : BoxOf[t] < box => Settled(t)
  /\ phase \in {"flush", "send"} => AllReturned
  /\ phase = "send" => pending = {}
  /\ phase \in {"finish", "over"} => \A t \in new : Settled(t)

\* The tasks progress.advance has counted.
Counted == {t \in Task : stage[t] \in {"store", "flush", "send", "returned"}}

CountInv ==
  /\ done = Cardinality(Counted)
  /\ parent.progress <= done
  /\ done = Total => parent.progress = Total
  /\ parent.closed # None => phase = "over"

Flushing == {t \in Task : stage[t] = "flush"}

BoundInv ==
  /\ Cardinality(Running) <= Concurrency
  /\ Cardinality(pending) <= Batch - 1 + Cardinality(Flushing)
  /\ \A a \in Actor : Cardinality(batch[a]) <= Batch + Concurrency - 1

\* A conversation downloaded is remembered until the sync ends.
ThreadInv ==
  /\ \A t \in Task : body[t] = "none" <=> stage[t] \in {"waiting", "fetch", "call"}
  /\ phase # "over" => \A t \in Task : body[t] = "full" => ThreadOf[t] \in threads
  /\ ConversationOnce

Inv == TypeOK /\ PlaceInv /\ OrderInv /\ CountInv /\ BoundInv /\ ThreadInv

-----------------------------------------------------------------------------
(* Types.                                                                  *)

\* The type invariant in parts.
Places ==
  /\ stage \in [Task -> Stage] /\ body \in [Task -> {"none", "full", "summary"}]
  /\ pending \subseteq Task /\ batch \in [Actor -> SUBSET Task]
  /\ told \in [Task -> Nat]

Folders ==
  /\ phase \in {"scan", "download", "flush", "send", "finish", "over"}
  /\ new \subseteq Task /\ box \in 0 .. Boxes

Channel == channel \in Seq(SUBSET Task) /\ Len(channel) <= UpdateBuffer

Progress ==
  /\ done \in 0 .. Cardinality(Task)
  /\ parent \in [opened : BOOLEAN, progress : 0 .. Cardinality(Task),
                 closed : {None, "", "list_mailboxes"}]

Others ==
  /\ requested \in BOOLEAN /\ threads \subseteq Thread
  /\ cancelled \in BOOLEAN /\ failures \in 0 .. MaxFailures

LEMMA Types == TypeOK <=> Places /\ Folders /\ Channel /\ Progress /\ Others
BY DEF TypeOK, Places, Folders, Channel, Progress, Others

LEMMA TypesNext ==
  ASSUME Places', Folders', Channel', Progress', Others' PROVE TypeOK'
BY DEF TypeOK, Places, Folders, Channel, Progress, Others

\* The folder of a task, and which come before it.
LEMMA FolderIs ==
  /\ \A t \in Task : BoxOf[t] \in 1 .. Boxes /\ BoxOf[t] \in Nat /\ BoxOf[t] > 0
  /\ Boxes \in Nat
BY AnnouncePoolAssumption

LEMMA FiniteTasks ==
  ASSUME NEW S \in SUBSET Task
  PROVE  /\ IsFiniteSet(S) /\ Cardinality(S) \in Nat
         /\ Cardinality(S) <= Cardinality(Task) /\ Cardinality(Task) \in Nat
BY AnnouncePoolAssumption, FS_Subset, FS_CardinalityType

LEMMA ActorIs == (\A t \in Task : t \in Actor /\ t # Main) /\ Main \in Actor
BY AnnouncePoolAssumption DEF Actor

\* What a step of one task's goroutine leaves where it is.
LEMMA StageMoves ==
  ASSUME Places, NEW t \in Task, NEW s \in Stage, stage' = [stage EXCEPT ![t] = s]
  PROVE  /\ stage' \in [Task -> Stage] /\ stage'[t] = s
         /\ \A u \in Task : u # t => stage'[u] = stage[u]
BY DEF Places

\* Where the next folder is.
LEMMA NextBoxIs ==
  ASSUME Folders, NextBox, UNCHANGED new
  PROVE  /\ box' \in 0 .. Boxes /\ box <= box' /\ phase' \in {"finish", "download"}
         /\ phase' = "finish" => \A t \in new : BoxOf[t] <= box
         /\ phase' = "download" =>
              \A t \in new : BoxOf[t] < box' => BoxOf[t] <= box
<1>1. CASE Later = {}
  BY <1>1, FolderIs DEF Folders, NextBox, Later
<1>2. CASE Later # {}
  <2>1. phase' = "download" /\ box' \in Later /\ \A b \in Later : box' <= b
    BY <1>2 DEF NextBox
  <2>2. PICK u \in new : BoxOf[u] > box /\ box' = BoxOf[u]
    BY <2>1 DEF Later
  <2>3. box' \in 1 .. Boxes /\ box < box'
    BY <2>2, FolderIs DEF Folders
  <2>4. ASSUME NEW t \in new, BoxOf[t] < box' PROVE BoxOf[t] <= box
    <3>. SUFFICES ASSUME BoxOf[t] > box PROVE FALSE
      BY FolderIs DEF Folders
    <3>1. BoxOf[t] \in Later
      BY DEF Later
    <3>. QED
      BY <2>1, <2>3, <2>4, <3>1, FolderIs DEF Folders
  <2>. QED
    BY <2>1, <2>3, <2>4, FolderIs DEF Folders
<1>. QED
  BY <1>1, <1>2

-----------------------------------------------------------------------------
(* Where a message is.                                                     *)

\* Nothing moves: the pending list, the batches and the channel stay, and no
\* goroutine passes the store.
LEMMA PlacesStay ==
  ASSUME Inv, UNCHANGED <<pending, batch, told>>, Places',
         \A t \in Task : stage'[t] \in {"flush", "send"}
                         <=> stage[t] \in {"flush", "send"},
         \A t \in Task : batch[t] # {} => stage'[t] = stage[t],
         \A t \in Task : Stored(t)' <=> Stored(t),
         \A t \in Task : stage[t] \in {"flush", "send"} => body'[t] = body[t],
         phase' # phase => phase # "send"
  PROVE  PlaceInv'
<1>1. \A t \in Task : Held(t)' <=> Held(t)
  BY DEF Held
<1>. QED
  BY <1>1, ActorIs DEF Inv, PlaceInv, Parses

\* flush takes the list: what was pending is in the hands of a goroutine that
\* had nothing.
LEMMA TakeMoves ==
  ASSUME Inv, NEW a \in Actor, Take(a), batch[a] = {}
  PROVE  /\ \A t \in Task : Held(t)' <=> Held(t)
         /\ pending' = {} /\ batch' \in [Actor -> SUBSET Task]
         /\ batch'[a] = pending /\ \A b \in Actor : b # a => batch'[b] = batch[b]
         /\ \A b, c \in Actor : b # c => \A t \in batch'[b] : t \notin batch'[c]
         /\ told' = told
<1>1. /\ pending' = {} /\ told' = told
      /\ batch' \in [Actor -> SUBSET Task] /\ batch'[a] = pending
      /\ \A b \in Actor : b # a => batch'[b] = batch[b]
  BY Types DEF Inv, Take, AfterTaking, Places
<1>2. \A t \in Task : Held(t)' <=> Held(t)
  BY <1>1 DEF Held
<1>3. ASSUME NEW b \in Actor, NEW c \in Actor, b # c, NEW t \in batch'[b]
      PROVE  t \notin batch'[c]
  BY <1>1, <1>3 DEF Inv, PlaceInv
<1>. QED
  BY <1>1, <1>2, <1>3

\* The send: what was in the hands of a goroutine has been announced.
LEMMA SendMoves ==
  ASSUME Inv, NEW a \in Actor, Sent(a)
  PROVE  /\ batch' \in [Actor -> SUBSET Task] /\ batch'[a] = {}
         /\ \A b \in Actor : b # a => batch'[b] = batch[b]
         /\ pending' = pending /\ told' \in [Task -> Nat]
         /\ \A t \in Task : told'[t] = IF t \in batch[a] THEN told[t] + 1 ELSE told[t]
         /\ \A t \in batch[a] : told[t] = 0
<1>1. \A t \in batch[a] : told[t] = 0
  BY Types DEF Inv, PlaceInv, Held, Places
<1>2. CASE Send(a)
  BY <1>1, <1>2, Types DEF Send, Inv, Places
<1>3. CASE batch[a] = {} /\ UNCHANGED batchVars
  BY <1>3, Types DEF batchVars, Inv, Places
<1>. QED
  BY <1>1, <1>2, <1>3 DEF Sent

LEMMA SendPlaces ==
  ASSUME Inv, NEW a \in Actor, Sent(a)
  PROVE  /\ \A t \in Task : Held(t)' \/ told'[t] = 1 <=> Held(t) \/ told[t] = 1
         /\ \A t \in Task : told'[t] \in {0, 1} /\ (told'[t] = 1 => ~Held(t)')
         /\ \A t \in pending', b \in Actor : t \notin batch'[b]
         /\ \A b, c \in Actor : b # c => \A t \in batch'[b] : t \notin batch'[c]
<1>1. \A b \in Actor : batch'[b] = IF b = a THEN {} ELSE batch[b]
  BY SendMoves
<1>2. \A t \in Task : Held(t)' <=> Held(t) /\ t \notin batch[a]
  BY <1>1, SendMoves DEF Held, Inv, PlaceInv
<1>3. \A t \in Task : t \in batch[a] => Held(t)
  BY DEF Held
<1>4. \A t \in Task : told'[t] = IF t \in batch[a] THEN 1 ELSE told[t]
  BY SendMoves
<1>5. \A t \in Task : Held(t)' \/ told'[t] = 1 <=> Held(t) \/ told[t] = 1
  BY <1>2, <1>3, <1>4
<1>6. \A t \in Task : told'[t] \in {0, 1} /\ (told'[t] = 1 => ~Held(t)')
  BY <1>2, <1>4 DEF Inv, PlaceInv
<1>7. \A t \in pending', b \in Actor : t \notin batch'[b]
  BY <1>1, SendMoves DEF Inv, PlaceInv
<1>8. \A b, c \in Actor : b # c => \A t \in batch'[b] : t \notin batch'[c]
  BY <1>1 DEF Inv, PlaceInv
<1>. QED
  BY <1>5, <1>6, <1>7, <1>8

LEMMA StoreKeepsPlaces == ASSUME Inv, NEW t \in Task, Store(t) PROVE PlaceInv'
<1>1. Places
  BY Types DEF Inv
<1>2. ~Stored(t) /\ Parses(t) /\ batch[t] = {}
  BY DEF Store, Stored, Inv, PlaceInv
<1>3. ~Held(t) /\ told[t] = 0
  BY <1>2 DEF Inv, PlaceInv
<1>4. /\ pending' = pending \cup {t} /\ UNCHANGED <<batch, told, body, phase>>
      /\ stage'[t] \in {"flush", "returned"}
      /\ \A u \in Task : u # t => stage'[u] = stage[u]
  BY <1>1 DEF Store, Places, syncVars
<1>5. \A u \in Task : Held(u)' <=> Held(u) \/ u = t
  BY <1>4 DEF Held
<1>6. \A u \in Task : Stored(u)' <=> Stored(u) \/ u = t
  BY <1>2, <1>4 DEF Stored, Parses
<1>7. \A u \in pending', a \in Actor : u \notin batch'[a]
  BY <1>3, <1>4 DEF Held, Inv, PlaceInv
<1>8. \A u \in Task : stage'[u] \in {"flush", "send"} => Parses(u)'
  BY <1>2, <1>4 DEF Inv, PlaceInv, Parses
<1>9. \A u \in Task : batch'[u] # {} => stage'[u] = "send"
  BY <1>2, <1>4 DEF Inv, PlaceInv
<1>. QED
  BY <1>3, <1>4, <1>5, <1>6, <1>7, <1>8, <1>9 DEF Inv, PlaceInv

LEMMA TakesKeepsPlaces ==
  ASSUME Inv, NEW t \in Task, WorkerTakes(t) PROVE PlaceInv'
<1>1. Places
  BY Types DEF Inv
<1>2. t \in Actor /\ t # Main /\ batch[t] = {} /\ Take(t) /\ stage[t] = "flush"
  BY ActorIs DEF WorkerTakes, Inv, PlaceInv
<1>3. UNCHANGED <<body, phase>> /\ stage'[t] = "send"
      /\ \A u \in Task : u # t => stage'[u] = stage[u]
  BY <1>1 DEF WorkerTakes, Places, syncVars
<1>4. \A u \in Task : Stored(u)' <=> Stored(u)
  BY <1>2, <1>3 DEF Stored, Parses
<1>5. \A u \in Task : stage'[u] \in {"flush", "send"} => Parses(u)'
  BY <1>2, <1>3 DEF Inv, PlaceInv, Parses
<1>6. \A u \in Task : batch'[u] # {} => stage'[u] = "send"
  BY <1>2, <1>3, TakeMoves, ActorIs DEF Inv, PlaceInv
<1>7. batch'[Main] # {} => phase' = "send"
  BY <1>2, <1>3, TakeMoves, ActorIs DEF Inv, PlaceInv
<1>. QED
  BY <1>2, <1>4, <1>5, <1>6, <1>7, TakeMoves DEF Inv, PlaceInv

LEMMA SendsKeepsPlaces ==
  ASSUME Inv, NEW t \in Task, WorkerSends(t) PROVE PlaceInv'
<1>1. Places
  BY Types DEF Inv
<1>2. t \in Actor /\ t # Main /\ Sent(t) /\ stage[t] = "send"
  BY ActorIs DEF WorkerSends
<1>3. UNCHANGED <<body, phase>> /\ stage'[t] = "returned"
      /\ \A u \in Task : u # t => stage'[u] = stage[u]
  BY <1>1 DEF WorkerSends, Places, syncVars
<1>4. \A u \in Task : Stored(u)' <=> Stored(u)
  BY <1>2, <1>3 DEF Stored, Parses
<1>5. \A u \in Task : stage'[u] \in {"flush", "send"} => Parses(u)'
  BY <1>2, <1>3 DEF Inv, PlaceInv, Parses
<1>6. \A u \in Task : batch'[u] # {} => stage'[u] = "send"
  BY <1>2, <1>3, SendMoves, ActorIs DEF Inv, PlaceInv
<1>7. batch'[Main] # {} => phase' = "send"
  BY <1>2, <1>3, SendMoves, ActorIs DEF Inv, PlaceInv
<1>. QED
  BY <1>2, <1>4, <1>5, <1>6, <1>7, SendPlaces DEF Inv, PlaceInv

LEMMA MainTakesKeepsPlaces == ASSUME Inv, MainTakes PROVE PlaceInv'
<1>1. Main \in Actor /\ batch[Main] = {} /\ Take(Main)
  BY ActorIs DEF MainTakes, Inv, PlaceInv
<1>2. UNCHANGED <<stage, body>> /\ phase' = "send"
  BY DEF MainTakes, workerVars
<1>3. \A u \in Task : Stored(u)' <=> Stored(u)
  BY <1>2 DEF Stored, Parses
<1>4. \A u \in Task : stage'[u] \in {"flush", "send"} => Parses(u)'
  BY <1>2 DEF Inv, PlaceInv, Parses
<1>5. \A u \in Task : batch'[u] # {} => stage'[u] = "send"
  BY <1>1, <1>2, TakeMoves, ActorIs DEF Inv, PlaceInv
<1>. QED
  BY <1>1, <1>2, <1>3, <1>4, <1>5, TakeMoves DEF Inv, PlaceInv

LEMMA MainSendsKeepsPlaces == ASSUME Inv, MainSends PROVE PlaceInv'
<1>1. Main \in Actor /\ Sent(Main) /\ UNCHANGED <<stage, body>>
  BY ActorIs DEF MainSends, workerVars
<1>2. \A u \in Task : Stored(u)' <=> Stored(u)
  BY <1>1 DEF Stored, Parses
<1>3. \A u \in Task : stage'[u] \in {"flush", "send"} => Parses(u)'
  BY <1>1 DEF Inv, PlaceInv, Parses
<1>4. \A u \in Task : batch'[u] # {} => stage'[u] = "send"
  BY <1>1, SendMoves, ActorIs DEF Inv, PlaceInv
<1>5. batch'[Main] = {}
  BY <1>1, SendMoves
<1>. QED
  BY <1>1, <1>2, <1>3, <1>4, <1>5, SendPlaces DEF Inv, PlaceInv

\* The steps of a goroutine that move no message.
LEMMA WorkerKeepsPlaces ==
  ASSUME Inv, NEW t \in Task,
         Go(t) \/ Lookup(t) \/ Fetched(t) \/ FetchFails(t) \/ Advance(t) \/ SkipMessage(t)
  PROVE  Places' /\ PlaceInv'
<1>. USE DEF syncVars, batchVars
<1>1. Places /\ UNCHANGED <<pending, batch, told, phase>>
  BY Types DEF Inv, Go, Lookup, Fetched, FetchFails, Advance, SkipMessage
<1>2. /\ stage' \in [Task -> Stage]
      /\ \A u \in Task : u # t => stage'[u] = stage[u]
      /\ stage[t] \notin {"flush", "send"} /\ stage'[t] \notin {"flush", "send"}
  BY <1>1 DEF Go, Lookup, Fetched, FetchFails, Advance, SkipMessage, Places, Stage
<1>3. /\ body' \in [Task -> {"none", "full", "summary"}]
      /\ \A u \in Task : u # t => body'[u] = body[u]
  BY <1>1 DEF Go, Lookup, Fetched, FetchFails, Advance, SkipMessage, Places
<1>4. ~Stored(t) /\ ~Stored(t)'
  <2>1. CASE SkipMessage(t)
    BY <2>1 DEF SkipMessage, Stored, Parses
  <2>2. CASE Go(t) \/ Lookup(t) \/ Fetched(t) \/ FetchFails(t) \/ Advance(t)
    BY <1>1, <2>2 DEF Go, Lookup, Fetched, FetchFails, Advance, Stored, Places
  <2>. QED
    BY <2>1, <2>2
<1>5. \A u \in Task : Stored(u)' <=> Stored(u)
  BY <1>2, <1>3, <1>4 DEF Stored, Parses
<1>6. \A u \in Task : batch[u] # {} => stage'[u] = stage[u]
  BY <1>2 DEF Inv, PlaceInv
<1>7. Places'
  BY <1>1, <1>2, <1>3 DEF Places
<1>. QED
  BY <1>1, <1>2, <1>3, <1>5, <1>6, <1>7, PlacesStay

\* Nor do these.
LEMMA OthersKeepPlaces ==
  ASSUME Inv,
         \/ ListMailboxesFails \/ StartDownload \/ Wait \/ Finish
         \/ GluonReads \/ Cancel \/ UNCHANGED vars
  PROVE  Places' /\ PlaceInv'
<1>. USE DEF vars, syncVars, workerVars, batchVars
<1>1. Places /\ UNCHANGED <<stage, body, pending, batch, told>>
  BY Types DEF Inv, ListMailboxesFails, StartDownload, Wait, Finish, GluonReads, Cancel
<1>2. phase' # phase => phase # "send"
  BY DEF ListMailboxesFails, StartDownload, Wait, Finish, GluonReads, Cancel
<1>3. \A u \in Task : Stored(u)' <=> Stored(u)
  BY <1>1 DEF Stored, Parses
<1>4. Places'
  BY <1>1 DEF Places
<1>. QED
  BY <1>1, <1>2, <1>3, <1>4, PlacesStay

\* The types of the steps that move one.
LEMMA MoversKeepTypes ==
  ASSUME Inv,
         \/ MainTakes \/ MainSends
         \/ \E t \in Task : Store(t) \/ WorkerTakes(t) \/ WorkerSends(t)
  PROVE  Places'
<1>1. Places
  BY Types DEF Inv
<1>2. ASSUME NEW a \in Actor, batch[a] = {}, Take(a)
      PROVE  /\ pending' \subseteq Task /\ batch' \in [Actor -> SUBSET Task]
             /\ told' \in [Task -> Nat]
  BY <1>1, <1>2, TakeMoves DEF Places
<1>3. ASSUME NEW a \in Actor, Sent(a)
      PROVE  /\ pending' \subseteq Task /\ batch' \in [Actor -> SUBSET Task]
             /\ told' \in [Task -> Nat]
  BY <1>1, <1>3, SendMoves DEF Places
<1>4. CASE MainTakes \/ MainSends
  BY <1>1, <1>2, <1>3, <1>4, ActorIs
     DEF MainTakes, MainSends, workerVars, Places, Inv, PlaceInv
<1>5. ASSUME NEW t \in Task, Store(t) PROVE Places'
  BY <1>1, <1>5 DEF Store, Places, Stage
<1>6. ASSUME NEW t \in Task, WorkerTakes(t) PROVE Places'
  <2>1. batch[t] = {} /\ Take(t) /\ t \in Actor
    BY <1>6, ActorIs DEF WorkerTakes, Inv, PlaceInv
  <2>2. stage' \in [Task -> Stage] /\ body' = body
    BY <1>1, <1>6 DEF WorkerTakes, Places, Stage
  <2>. QED
    BY <1>1, <1>2, <2>1, <2>2 DEF Places
<1>7. ASSUME NEW t \in Task, WorkerSends(t) PROVE Places'
  <2>1. stage' \in [Task -> Stage] /\ body' = body /\ Sent(t) /\ t \in Actor
    BY <1>1, <1>7, ActorIs DEF WorkerSends, Places, Stage
  <2>. QED
    BY <1>1, <1>3, <2>1 DEF Places
<1>. QED
  BY <1>4, <1>5, <1>6, <1>7

LEMMA PlacesKept == Inv /\ [Next]_vars => Places' /\ PlaceInv'
<1>. SUFFICES ASSUME Inv, [Next]_vars PROVE Places' /\ PlaceInv'
  OBVIOUS
<1>1. ASSUME NEW t \in Task, WorkerStep(t) PROVE Places' /\ PlaceInv'
  BY <1>1, WorkerKeepsPlaces, MoversKeepTypes, StoreKeepsPlaces, TakesKeepsPlaces,
     SendsKeepsPlaces DEF WorkerStep
<1>2. CASE SyncStep
  BY <1>2, OthersKeepPlaces, MoversKeepTypes, MainTakesKeepsPlaces,
     MainSendsKeepsPlaces DEF SyncStep
<1>3. CASE GluonReads \/ Cancel \/ Ended \/ UNCHANGED vars
  BY <1>3, OthersKeepPlaces DEF Ended
<1>. QED
  BY <1>1, <1>2, <1>3 DEF Next

-----------------------------------------------------------------------------
(* The order of the folders.                                               *)

LEMMA FoldersKept == Inv /\ [Next]_vars => Folders'
<1>. SUFFICES ASSUME Inv, [Next]_vars PROVE Folders'
  OBVIOUS
<1>1. Folders
  BY Types DEF Inv
<1>2. ASSUME NEW t \in Task, WorkerStep(t) PROVE Folders'
  BY <1>1, <1>2 DEF WorkerStep, Go, Lookup, Fetched, FetchFails, Advance, SkipMessage,
     Store, WorkerTakes, WorkerSends, syncVars, Folders
<1>3. CASE StartDownload \/ MainSends
  BY <1>1, <1>3, NextBoxIs DEF StartDownload, MainSends, Folders
<1>4. CASE ListMailboxesFails \/ Wait \/ MainTakes \/ Finish
  BY <1>1, <1>4 DEF ListMailboxesFails, Wait, MainTakes, Finish, Folders
<1>5. CASE GluonReads \/ Cancel \/ Ended \/ UNCHANGED vars
  BY <1>1, <1>5 DEF GluonReads, Cancel, Ended, vars, syncVars, Folders
<1>. QED
  BY <1>2, <1>3, <1>4, <1>5 DEF Next, SyncStep

\* A settled task stays so: its goroutine has returned, and what it announced
\* stays announced.
LEMMA SettledStays ==
  ASSUME Inv, [Next]_vars, NEW u \in Task, Settled(u) PROVE Settled(u)'
<1>1. Places /\ stage[u] = "returned"
  BY Types DEF Inv, Settled
<1>2. stage'[u] = "returned" /\ body'[u] = body[u]
  <2>1. ASSUME NEW t \in Task, WorkerStep(t)
        PROVE  stage'[u] = "returned" /\ body'[u] = body[u]
    BY <1>1, <2>1 DEF WorkerStep, Go, Lookup, Fetched, FetchFails, Advance, SkipMessage,
       Store, WorkerTakes, WorkerSends, Places
  <2>2. CASE \/ SyncStep \/ GluonReads \/ Cancel \/ Ended \/ UNCHANGED vars
    BY <1>1, <2>2 DEF SyncStep, ListMailboxesFails, StartDownload, Wait, MainTakes,
       MainSends, Finish, GluonReads, Cancel, Ended, vars, workerVars
  <2>. QED
    BY <2>1, <2>2 DEF Next
<1>3. Parses(u)' <=> Parses(u)
  BY <1>2 DEF Parses
<1>4. ASSUME Parses(u) PROVE told'[u] = 1
  <2>1. told[u] = 1 /\ ~Held(u)
    BY <1>4 DEF Settled, Inv, PlaceInv
  <2>2. ASSUME NEW a \in Actor, Sent(a) PROVE told'[u] = 1
    BY <2>1, <2>2, SendMoves DEF Held
  <2>3. CASE \E t \in Task : WorkerSends(t)
    BY <2>2, <2>3, ActorIs DEF WorkerSends
  <2>4. CASE MainSends
    BY <2>2, <2>4, ActorIs DEF MainSends
  <2>5. CASE \E t \in Task : WorkerStep(t) /\ ~WorkerSends(t)
    BY <2>1, <2>5 DEF WorkerStep, Go, Lookup, Fetched, FetchFails, Advance, SkipMessage,
       Store, WorkerTakes, Take, batchVars
  <2>6. CASE \/ SyncStep /\ ~MainSends
             \/ GluonReads \/ Cancel \/ Ended \/ UNCHANGED vars
    BY <2>1, <2>6 DEF SyncStep, ListMailboxesFails, StartDownload, Wait, MainTakes,
       Finish, GluonReads, Cancel, Ended, vars, batchVars, Take
  <2>. QED
    BY <2>3, <2>4, <2>5, <2>6 DEF Next
<1>. QED
  BY <1>2, <1>3, <1>4 DEF Settled

\* Only in the folder being downloaded does a goroutine run.
LEMMA WorkersDownload ==
  ASSUME Inv, NEW t \in Task, WorkerStep(t)
  PROVE  phase = "download" /\ t \in new /\ BoxOf[t] = box
<1>1. stage[t] # "returned" /\ (stage[t] = "waiting" => Go(t))
  BY DEF WorkerStep, Go, Lookup, Fetched, FetchFails, Advance, SkipMessage, Store,
     WorkerTakes, WorkerSends
<1>2. CASE stage[t] = "waiting"
  BY <1>1, <1>2 DEF Go, InBox
<1>3. CASE stage[t] # "waiting"
  <2>1. t \in new /\ BoxOf[t] <= box /\ ~Settled(t)
    BY <1>1, <1>3 DEF Inv, OrderInv, Settled
  <2>2. BoxOf[t] = box
    BY <2>1, FolderIs, Types DEF Inv, OrderInv, Folders
  <2>3. t \in InBox /\ phase # "scan"
    BY <2>1, <2>2, FolderIs DEF InBox, Inv, OrderInv
  <2>. QED
    BY <1>1, <2>1, <2>2, <2>3, Types DEF Inv, OrderInv, AllReturned, Folders
<1>. QED
  BY <1>2, <1>3

LEMMA WorkerKeepsOrder == ASSUME Inv, NEW t \in Task, WorkerStep(t) PROVE OrderInv'
<1>1. phase = "download" /\ t \in new /\ BoxOf[t] = box /\ Places
  BY WorkersDownload, Types DEF Inv
<1>2. UNCHANGED <<phase, new, box>> /\ \A u \in Task : u # t => stage'[u] = stage[u]
  BY <1>1 DEF WorkerStep, Go, Lookup, Fetched, FetchFails, Advance, SkipMessage, Store,
     WorkerTakes, WorkerSends, syncVars, Places
<1>3. \A u \in Task : stage'[u] # "waiting" => u \in new' /\ BoxOf[u] <= box'
  BY <1>1, <1>2, FolderIs DEF Inv, OrderInv
<1>4. \A u \in new' : BoxOf[u] < box' => Settled(u)'
  BY <1>2, SettledStays, Types DEF Inv, OrderInv, Folders, Next
<1>. QED
  BY <1>1, <1>2, <1>3, <1>4 DEF OrderInv

\* Before the download every task waits.
LEMMA AllWait ==
  ASSUME Inv, phase = "scan"
  PROVE  \A t \in Task : stage[t] = "waiting" /\ ~Held(t) /\ told[t] = 0 /\ ~Settled(t)
<1>1. \A t \in Task : stage[t] = "waiting"
  BY FolderIs DEF Inv, OrderInv
<1>. QED
  BY <1>1 DEF Inv, PlaceInv, Stored, Settled

\* When the sync sends what is left of a folder, all of the folder is settled.
LEMMA FolderSettled ==
  ASSUME Inv, MainSends, NEW t \in new, BoxOf[t] <= box
  PROVE  Settled(t)'
<1>1. t \in Task /\ Places
  BY Types DEF Inv, Folders
<1>2. CASE BoxOf[t] < box
  BY <1>1, <1>2, SettledStays DEF Inv, OrderInv, Next, SyncStep
<1>3. CASE BoxOf[t] = box
  <2>1. \A u \in Task : stage[u] # "send"
    <3>1. phase = "send" /\ AllReturned
      BY DEF MainSends, Inv, OrderInv
    <3>. SUFFICES ASSUME NEW u \in Task, stage[u] = "send" PROVE FALSE
      OBVIOUS
    <3>2. u \in new /\ BoxOf[u] <= box /\ ~Settled(u)
      BY DEF Inv, OrderInv, Settled
    <3>3. u \in InBox
      BY <3>2, FolderIs, Types DEF Inv, OrderInv, Folders, InBox
    <3>. QED
      BY <3>1, <3>3 DEF AllReturned
  <2>2. stage[t] = "returned" /\ pending = {} /\ \A u \in Task : batch[u] = {}
    BY <1>1, <1>3, <2>1 DEF MainSends, Inv, OrderInv, AllReturned, InBox, PlaceInv
  <2>3. /\ UNCHANGED <<stage, body>> /\ Main \in Actor /\ Sent(Main)
    BY ActorIs DEF MainSends, workerVars
  <2>4. ASSUME Parses(t) PROVE told'[t] = 1
    <3>1. Held(t) \/ told[t] = 1
      BY <1>1, <2>2, <2>4 DEF Inv, PlaceInv, Stored
    <3>2. t \in batch[Main] \/ told[t] = 1
      BY <2>2, <3>1 DEF Held, Actor
    <3>3. told[t] = 1 => t \notin batch[Main]
      BY <1>1, <2>3 DEF Inv, PlaceInv, Held
    <3>. QED
      BY <1>1, <2>3, <3>2, <3>3, SendMoves
  <2>. QED
    BY <2>2, <2>3, <2>4 DEF Settled, Parses
<1>. QED
  BY <1>1, <1>2, <1>3, FolderIs, Types DEF Inv, Folders

LEMMA MainKeepsOrder == ASSUME Inv, SyncStep PROVE OrderInv'
<1>. USE DEF workerVars
<1>1. Folders
  BY Types DEF Inv
<1>2. CASE ListMailboxesFails
  <2>1. \A t \in Task : stage'[t] = "waiting"
    BY <1>2, AllWait DEF ListMailboxesFails
  <2>. QED
    BY <1>2, <2>1 DEF ListMailboxesFails, OrderInv
<1>3. CASE StartDownload
  <2>1. \A t \in Task : stage'[t] = "waiting"
    BY <1>3, AllWait DEF StartDownload
  <2>2. box = 0 /\ NextBox /\ new' = new
    BY <1>3 DEF StartDownload, Inv, OrderInv
  <2>3. \A t \in new : ~(BoxOf[t] <= box)
    BY <1>1, <2>2, FolderIs DEF Folders
  <2>. QED
    BY <1>1, <2>1, <2>2, <2>3, NextBoxIs DEF OrderInv
<1>4. CASE Wait
  <2>1. AllReturned' /\ \A t \in Task : Settled(t)' <=> Settled(t)
    BY <1>4 DEF Wait, AllReturned, InBox, Settled, Parses, batchVars
  <2>. QED
    BY <1>1, <1>4, <2>1 DEF Wait, Inv, OrderInv, Folders
<1>5. CASE MainTakes
  <2>1. AllReturned' /\ pending' = {} /\ \A t \in Task : Settled(t)' <=> Settled(t)
    BY <1>5 DEF MainTakes, Take, AfterTaking, AllReturned, InBox, Settled, Parses, Inv,
       OrderInv
  <2>. QED
    BY <1>1, <1>5, <2>1 DEF MainTakes, Inv, OrderInv, Folders
<1>6. CASE MainSends
  <2>1. \A t \in new : BoxOf[t] <= box => Settled(t)'
    BY <1>6, FolderSettled
  <2>2. NextBox /\ UNCHANGED <<new, stage>>
    BY <1>6 DEF MainSends
  <2>3. \A t \in Task : stage'[t] # "waiting" => t \in new' /\ BoxOf[t] <= box'
    BY <1>1, <2>2, NextBoxIs, FolderIs DEF Inv, OrderInv, Folders
  <2>. QED
    BY <1>1, <2>1, <2>2, <2>3, NextBoxIs DEF OrderInv
<1>7. CASE Finish
  <2>1. \A t \in Task : Settled(t)' <=> Settled(t)
    BY <1>7 DEF Finish, Settled, Parses, batchVars
  <2>. QED
    BY <1>1, <1>7, <2>1 DEF Finish, Inv, OrderInv, Folders
<1>. QED
  BY <1>2, <1>3, <1>4, <1>5, <1>6, <1>7 DEF SyncStep

LEMMA OthersKeepOrder ==
  ASSUME Inv, GluonReads \/ Cancel \/ UNCHANGED vars PROVE OrderInv'
<1>1. UNCHANGED <<phase, new, box, stage, body, pending, told>>
  BY DEF GluonReads, Cancel, vars, syncVars, workerVars, batchVars
<1>2. AllReturned' <=> AllReturned
  BY <1>1 DEF AllReturned, InBox
<1>3. \A t \in Task : Settled(t)' <=> Settled(t)
  BY <1>1 DEF Settled, Parses
<1>. QED
  BY <1>1, <1>2, <1>3, Types DEF Inv, OrderInv, Folders

LEMMA OrderKept == Inv /\ [Next]_vars => OrderInv'
BY WorkerKeepsOrder, MainKeepsOrder, OthersKeepOrder DEF Next, Ended

-----------------------------------------------------------------------------
(* What is counted and told to the parent.                                 *)

LEMMA TaskCount == Cardinality(Task) \in Nat
BY AnnouncePoolAssumption, FS_CardinalityType

LEMMA CountedAre ==
  ASSUME Inv
  PROVE  /\ Counted \subseteq new /\ new \subseteq Task
         /\ IsFiniteSet(new) /\ Total \in Nat /\ Total <= Cardinality(Task)
         /\ IsFiniteSet(Counted) /\ done \in Nat /\ done <= Total
         /\ done = Total => Counted = new
<1>1. Counted \subseteq new /\ new \subseteq Task
  BY Types DEF Inv, Folders, OrderInv, Counted
<1>2. /\ IsFiniteSet(new) /\ Total \in Nat /\ Total <= Cardinality(Task)
  BY <1>1, FiniteTasks DEF Total
<1>3. IsFiniteSet(Counted) /\ done \in Nat
  BY <1>1, FiniteTasks DEF Inv, CountInv
<1>4. done <= Total /\ (done = Total => Counted = new)
  BY <1>1, <1>2, FS_Subset DEF Total, Inv, CountInv
<1>. QED
  BY <1>1, <1>2, <1>3, <1>4

\* Advance counts one more task, and must report the last.
LEMMA AdvanceCounts ==
  ASSUME Inv, NEW t \in Task, Advance(t)
  PROVE  /\ done' = Cardinality(Counted') /\ done' = done + 1 /\ done' <= Total
         /\ \/ parent' = [parent EXCEPT !.progress = done']
            \/ parent' = parent /\ done' # Total
         /\ parent.closed = None
<1>1. Places
  BY Types DEF Inv
<1>2. t \in new /\ phase = "download" /\ t \notin Counted
  BY WorkersDownload DEF WorkerStep, Advance, Counted
<1>3. Counted' = Counted \cup {t}
  BY <1>1 DEF Advance, Counted, Places, Stage
<1>4. done' = done + 1 /\ done' = Cardinality(Counted')
  BY <1>2, <1>3, CountedAre, FS_AddElement DEF Advance, Inv, CountInv
<1>5. done # Total
  BY <1>2, CountedAre
<1>6. done' <= Total
  BY <1>4, <1>5, CountedAre
<1>7. parent.closed = None
  BY <1>2 DEF Inv, CountInv
<1>8. \/ parent' = [parent EXCEPT !.progress = done']
      \/ parent' = parent /\ done' # Total
  BY DEF Advance, MustReport
<1>. QED
  BY <1>4, <1>6, <1>7, <1>8

\* What the parent has been told, when nothing is counted.
LEMMA CountStays ==
  ASSUME Inv, UNCHANGED done, Counted' = Counted,
         \/ UNCHANGED new
         \/ phase = "scan" /\ new' = {},
         parent'.progress = parent.progress,
         parent'.closed # None => phase' = "over"
  PROVE  CountInv'
<1>1. CASE UNCHANGED new
  BY <1>1 DEF Inv, CountInv, Total
<1>2. CASE phase = "scan" /\ new' = {}
  <2>1. Counted = {} /\ Total' = 0
    BY <1>2, AllWait, FS_EmptySet DEF Counted, Total
  <2>2. done = 0 /\ parent.progress <= 0
    BY <2>1, FS_EmptySet DEF Inv, CountInv
  <2>3. parent.progress = 0
    <3>1. parent.progress \in 0 .. Cardinality(Task)
      BY Types DEF Inv, Progress
    <3>. QED
      BY <2>2, <3>1, TaskCount
  <2>. QED
    BY <2>1, <2>2, <2>3 DEF Inv, CountInv
<1>. QED
  BY <1>1, <1>2

LEMMA CountKept == Inv /\ [Next]_vars => Progress' /\ CountInv'
<1>. SUFFICES ASSUME Inv, [Next]_vars PROVE Progress' /\ CountInv'
  OBVIOUS
<1>1. Progress /\ Places
  BY Types DEF Inv
<1>2. ASSUME NEW t \in Task, Advance(t) PROVE Progress' /\ CountInv'
  <2>1. done' \in 0 .. Cardinality(Task)
    <3>1. done' = done + 1 /\ done' <= Total
      BY <1>2, AdvanceCounts
    <3>2. done \in Nat /\ Total \in Nat /\ Total <= Cardinality(Task)
      BY CountedAre
    <3>. QED
      BY <3>1, <3>2, TaskCount
  <2>2. Progress'
    BY <1>1, <1>2, <2>1, AdvanceCounts DEF Progress
  <2>3. parent.progress <= done /\ parent.progress \in Nat /\ done \in Nat
    <3>1. parent.progress \in 0 .. Cardinality(Task)
      BY <1>1 DEF Progress
    <3>. QED
      BY <3>1, CountedAre, TaskCount DEF Inv, CountInv
  <2>4. /\ parent'.progress <= done' /\ (done' = Total => parent'.progress = done')
        /\ parent'.closed = None
    <3>1. done' = done + 1 /\ parent.closed = None
      BY <1>2, AdvanceCounts
    <3>2. CASE parent' = [parent EXCEPT !.progress = done']
      <4>1. parent'.progress = done' /\ parent'.closed = parent.closed
        BY <1>1, <3>2 DEF Progress
      <4>. QED
        BY <2>3, <3>1, <4>1
    <3>3. CASE parent' = parent /\ done' # Total
      BY <2>3, <3>1, <3>3
    <3>. QED
      BY <1>2, <3>2, <3>3, AdvanceCounts
  <2>5. Total' = Total
    BY <1>2 DEF Advance, syncVars, Total
  <2>. QED
    BY <1>2, <2>2, <2>4, <2>5, AdvanceCounts DEF CountInv
<1>3. ASSUME NEW t \in Task, WorkerStep(t), ~Advance(t)
      PROVE  UNCHANGED <<done, parent, new, phase>> /\ Counted' = Counted
  BY <1>1, <1>3 DEF WorkerStep, Go, Lookup, Fetched, FetchFails, SkipMessage, Store,
     WorkerTakes, WorkerSends, syncVars, Counted, Places, Stage
<1>4. CASE \/ Wait \/ MainTakes \/ MainSends
           \/ GluonReads \/ Cancel \/ Ended \/ UNCHANGED vars
  <2>1. UNCHANGED <<done, parent, new>> /\ Counted' = Counted
    BY <1>4 DEF Wait, MainTakes, MainSends, GluonReads, Cancel, Ended, vars, syncVars,
       workerVars, Counted
  <2>2. phase = "over" => phase' = "over"
    BY <1>4 DEF Wait, MainTakes, MainSends, GluonReads, Cancel, Ended, vars, syncVars
  <2>. QED
    BY <1>1, <2>1, <2>2, CountStays DEF Progress, Inv, CountInv
<1>5. CASE ListMailboxesFails \/ StartDownload \/ Finish
  <2>1. /\ UNCHANGED done /\ Counted' = Counted
        /\ UNCHANGED new \/ (phase = "scan" /\ new' = {})
    BY <1>5 DEF ListMailboxesFails, StartDownload, Finish, workerVars, Counted
  <2>2. /\ parent' \in [opened : BOOLEAN, progress : 0 .. Cardinality(Task),
                        closed : {None, "", "list_mailboxes"}]
        /\ parent'.progress = parent.progress
        /\ parent'.closed # parent.closed => phase' = "over"
    BY <1>1, <1>5 DEF ListMailboxesFails, StartDownload, Finish, Opened, Closed,
       Reporting, Progress
  <2>3. phase # "over"
    BY <1>5 DEF ListMailboxesFails, StartDownload, Finish
  <2>. QED
    BY <1>1, <2>1, <2>2, <2>3, CountStays DEF Progress, Inv, CountInv
<1>6. ASSUME NEW t \in Task, WorkerStep(t) PROVE Progress' /\ CountInv'
  BY <1>1, <1>2, <1>3, <1>6, CountStays DEF Progress, Inv, CountInv
<1>. QED
  BY <1>4, <1>5, <1>6 DEF Next, SyncStep

-----------------------------------------------------------------------------
(* The bounds.                                                             *)

LEMMA SetsAre ==
  ASSUME Inv
  PROVE  /\ Running \subseteq Task /\ IsFiniteSet(Running) /\ Cardinality(Running) \in Nat
         /\ Flushing \subseteq Running /\ IsFiniteSet(Flushing)
         /\ Cardinality(Flushing) \in Nat /\ Cardinality(Flushing) <= Concurrency
         /\ IsFiniteSet(pending) /\ Cardinality(pending) \in Nat
         /\ Concurrency \in Nat \ {0} /\ Batch \in Nat \ {0}
<1>1. Running \subseteq Task /\ Flushing \subseteq Running /\ Flushing \subseteq Task
  BY DEF Running, Flushing
<1>2. Cardinality(Flushing) <= Cardinality(Running)
  BY <1>1, FiniteTasks, FS_Subset
<1>3. pending \subseteq Task
  BY Types DEF Inv, Places
<1>4. Concurrency \in Nat \ {0} /\ Batch \in Nat \ {0}
  BY AnnouncePoolAssumption
<1>5. /\ IsFiniteSet(Running) /\ Cardinality(Running) \in Nat
      /\ IsFiniteSet(Flushing) /\ Cardinality(Flushing) \in Nat
      /\ IsFiniteSet(pending) /\ Cardinality(pending) \in Nat
  BY <1>1, <1>3, FiniteTasks
<1>6. Cardinality(Running) <= Concurrency
  BY DEF Inv, BoundInv
<1>7. Cardinality(Flushing) <= Concurrency
  BY <1>2, <1>4, <1>5, <1>6
<1>. QED
  BY <1>1, <1>4, <1>5, <1>7

\* A list taken whole is a bounded batch.
LEMMA TakeBounded ==
  ASSUME Inv, NEW a \in Actor, batch[a] = {}, Take(a)
  PROVE  /\ Cardinality(pending') = 0
         /\ \A b \in Actor : Cardinality(batch'[b]) <= Batch + Concurrency - 1
<1>1. pending' = {} /\ batch'[a] = pending
      /\ \A b \in Actor : b # a => batch'[b] = batch[b]
  BY TakeMoves
<1>2. Cardinality(pending) <= Batch + Concurrency - 1
  <2>1. Cardinality(pending) <= Batch - 1 + Cardinality(Flushing)
    BY DEF Inv, BoundInv
  <2>. QED
    BY <2>1, SetsAre
<1>. QED
  BY <1>1, <1>2, FS_EmptySet DEF Inv, BoundInv

LEMMA SendBounded ==
  ASSUME Inv, NEW a \in Actor, Sent(a)
  PROVE  \A b \in Actor : Cardinality(batch'[b]) <= Batch + Concurrency - 1
<1>1. 0 <= Batch + Concurrency - 1
  BY AnnouncePoolAssumption
<1>. QED
  BY <1>1, SendMoves, FS_EmptySet DEF Inv, BoundInv

LEMMA StoreBounded ==
  ASSUME Inv, NEW t \in Task, Store(t) PROVE BoundInv'
<1>1. Places
  BY Types DEF Inv
<1>2. t \notin pending
  BY DEF Store, Inv, PlaceInv, Stored, Held
<1>3. Cardinality(pending') = Cardinality(pending) + 1
  BY <1>2, SetsAre, FS_AddElement DEF Store
<1>4. Running' \subseteq Running
  BY <1>1 DEF Store, Running, Places, Stage
<1>5. Cardinality(Running') <= Cardinality(Running) /\ Cardinality(Running') \in Nat
  BY <1>4, SetsAre, FiniteTasks, FS_Subset
<1>6. Cardinality(Running') <= Concurrency
  BY <1>5, SetsAre DEF Inv, BoundInv
<1>7. CASE Full(pending')
  <2>1. Flushing' = Flushing \cup {t} /\ t \notin Flushing
    BY <1>1, <1>7 DEF Store, Flushing, Places, Stage
  <2>2. Cardinality(Flushing') = Cardinality(Flushing) + 1
    BY <2>1, SetsAre, FS_AddElement
  <2>3. Cardinality(pending) <= Batch - 1 + Cardinality(Flushing)
    BY DEF Inv, BoundInv
  <2>4. Cardinality(pending') <= Batch - 1 + Cardinality(Flushing')
    BY <1>3, <2>2, <2>3, SetsAre
  <2>. QED
    BY <1>6, <2>4 DEF Store, Inv, BoundInv
<1>8. CASE ~Full(pending')
  <2>1. Flushing' = Flushing
    BY <1>1, <1>8 DEF Store, Flushing, Places, Stage
  <2>2. ~(Cardinality(pending') >= Batch)
    BY <1>8 DEF Full
  <2>3. Cardinality(pending') <= Batch - 1 + Cardinality(Flushing')
    BY <1>3, <2>1, <2>2, SetsAre
  <2>. QED
    BY <1>6, <2>3 DEF Store, Inv, BoundInv
<1>. QED
  BY <1>7, <1>8

LEMMA BoundKept == Inv /\ [Next]_vars => BoundInv'
<1>. SUFFICES ASSUME Inv, [Next]_vars PROVE BoundInv'
  OBVIOUS
<1>1. Places
  BY Types DEF Inv
<1>2. ASSUME NEW t \in Task, Go(t) PROVE BoundInv'
  <2>1. Running' = Running \cup {t} /\ t \notin Running /\ Flushing' = Flushing
    BY <1>1, <1>2 DEF Go, Running, Flushing, Places, Stage
  <2>2. Cardinality(Running') = Cardinality(Running) + 1
    BY <2>1, SetsAre, FS_AddElement
  <2>3. Cardinality(Running') <= Concurrency
    BY <1>2, <2>2, SetsAre DEF Go
  <2>. QED
    BY <1>2, <2>1, <2>3 DEF Go, batchVars, Inv, BoundInv
<1>3. ASSUME NEW t \in Task,
             Lookup(t) \/ Fetched(t) \/ FetchFails(t) \/ Advance(t) \/ SkipMessage(t)
      PROVE  BoundInv'
  <2>1. Running' \subseteq Running /\ Flushing' = Flushing
    BY <1>1, <1>3 DEF Lookup, Fetched, FetchFails, Advance, SkipMessage, Running,
       Flushing, Places, Stage
  <2>2. Cardinality(Running') <= Cardinality(Running) /\ Cardinality(Running') \in Nat
    BY <2>1, SetsAre, FiniteTasks, FS_Subset
  <2>3. Cardinality(Running') <= Concurrency
    BY <2>2, SetsAre DEF Inv, BoundInv
  <2>4. UNCHANGED <<pending, batch>>
    BY <1>3 DEF Lookup, Fetched, FetchFails, Advance, SkipMessage, batchVars
  <2>. QED
    BY <2>1, <2>3, <2>4 DEF Inv, BoundInv
<1>4. ASSUME NEW t \in Task, WorkerTakes(t) PROVE BoundInv'
  <2>1. t \in Actor /\ batch[t] = {} /\ Take(t)
    BY <1>4, ActorIs DEF WorkerTakes, Inv, PlaceInv
  <2>2. Running' = Running /\ Flushing' \subseteq Task
    BY <1>1, <1>4 DEF WorkerTakes, Running, Flushing, Places, Stage
  <2>3. Cardinality(Flushing') \in Nat
    BY <2>2, FiniteTasks
  <2>4. Cardinality(pending') <= Batch - 1 + Cardinality(Flushing')
    BY <2>1, <2>3, TakeBounded, AnnouncePoolAssumption
  <2>. QED
    BY <2>1, <2>2, <2>4, TakeBounded DEF Inv, BoundInv
<1>5. ASSUME NEW t \in Task, WorkerSends(t) PROVE BoundInv'
  <2>1. t \in Actor /\ Sent(t)
    BY <1>5, ActorIs DEF WorkerSends
  <2>2. Running' \subseteq Running /\ Flushing' = Flushing
    BY <1>1, <1>5 DEF WorkerSends, Running, Flushing, Places, Stage
  <2>3. Cardinality(Running') <= Cardinality(Running) /\ Cardinality(Running') \in Nat
    BY <2>2, SetsAre, FiniteTasks, FS_Subset
  <2>4. Cardinality(Running') <= Concurrency
    BY <2>3, SetsAre DEF Inv, BoundInv
  <2>. QED
    BY <2>1, <2>2, <2>4, SendBounded, SendMoves DEF Inv, BoundInv
<1>6. CASE MainTakes
  <2>1. Main \in Actor /\ batch[Main] = {} /\ Take(Main)
    BY <1>6, ActorIs DEF MainTakes, Inv, PlaceInv
  <2>2. Running' = Running /\ Flushing' = Flushing
    BY <1>6 DEF MainTakes, workerVars, Running, Flushing
  <2>3. Cardinality(pending') <= Batch - 1 + Cardinality(Flushing)
    BY <2>1, TakeBounded, SetsAre
  <2>. QED
    BY <2>1, <2>2, <2>3, TakeBounded DEF Inv, BoundInv
<1>7. CASE MainSends
  <2>1. Main \in Actor /\ Sent(Main)
    BY <1>7, ActorIs DEF MainSends
  <2>2. Running' = Running /\ Flushing' = Flushing
    BY <1>7 DEF MainSends, workerVars, Running, Flushing
  <2>. QED
    BY <2>1, <2>2, SendBounded, SendMoves DEF Inv, BoundInv
<1>8. CASE \/ ListMailboxesFails \/ StartDownload \/ Wait \/ Finish
           \/ GluonReads \/ Cancel \/ Ended \/ UNCHANGED vars
  <2>1. UNCHANGED <<stage, pending, batch>>
    BY <1>8 DEF ListMailboxesFails, StartDownload, Wait, Finish, GluonReads, Cancel,
       Ended, vars, workerVars, batchVars
  <2>. QED
    BY <2>1 DEF Inv, BoundInv, Running, Flushing
<1>. QED
  BY <1>2, <1>3, <1>4, <1>5, <1>6, <1>7, <1>8, StoreBounded
     DEF Next, SyncStep, WorkerStep

-----------------------------------------------------------------------------
(* The conversations remembered.                                           *)

\* Nothing is fetched or forgotten, and no fetch begins.
LEMMA ThreadsStay ==
  ASSUME Inv, UNCHANGED <<body, threads>>, new' \subseteq new,
         \A t \in Task : stage'[t] \in {"waiting", "fetch", "call"}
                         <=> stage[t] \in {"waiting", "fetch", "call"},
         \A t \in Task : stage'[t] = "call" => stage[t] = "call",
         phase' # "over" => phase # "over"
  PROVE  ThreadInv'
BY DEF Inv, ThreadInv, ConversationOnce

\* A conversation of an earlier folder is remembered, unless its fetch failed.
LEMMA EarlierFetched ==
  ASSUME Inv, NEW t \in Task, stage[t] = "fetch", WorkerStep(t), ~RememberedThread(t),
         NEW u \in new, BoxOf[u] < BoxOf[t], ThreadOf[u] = ThreadOf[t]
  PROVE  body[u] = "summary"
<1>1. phase = "download" /\ BoxOf[t] = box /\ u \in Task
  BY WorkersDownload, Types DEF Inv, Folders
<1>2. stage[u] = "returned"
  BY <1>1 DEF Inv, OrderInv, Settled
<1>3. body[u] # "none" /\ body[u] # "full"
  BY <1>1, <1>2 DEF Inv, ThreadInv, RememberedThread
<1>. QED
  BY <1>1, <1>3, Types DEF Inv, Places

\* No goroutine of a later folder fetches while this one's does.
LEMMA NoLaterFetch ==
  ASSUME Inv, NEW t \in Task, WorkerStep(t), NEW u \in Task, stage[u] = "call"
  PROVE  ~(BoxOf[t] < BoxOf[u])
<1>1. BoxOf[t] = box /\ BoxOf[u] <= box
  BY WorkersDownload DEF Inv, OrderInv
<1>. QED
  BY <1>1, FolderIs, Types DEF Inv, Folders

LEMMA FetchKeepsThreads ==
  ASSUME Inv, NEW t \in Task, Lookup(t) \/ Fetched(t) \/ FetchFails(t)
  PROVE  ThreadInv'
<1>1. Places /\ UNCHANGED <<phase, new>> /\ WorkerStep(t) /\ phase = "download"
  BY WorkersDownload, Types
     DEF Inv, Lookup, Fetched, FetchFails, syncVars, WorkerStep
<1>2. /\ \A u \in Task : u # t => stage'[u] = stage[u] /\ body'[u] = body[u]
      /\ threads \subseteq threads'
  BY <1>1 DEF Lookup, Fetched, FetchFails, Places, Stage
<1>3. \/ /\ stage'[t] = "advance" /\ body'[t] = "full" /\ ThreadOf[t] \in threads'
      \/ /\ stage'[t] = "advance" /\ body'[t] = "summary"
      \/ /\ stage[t] = "fetch" /\ stage'[t] = "call" /\ body'[t] = body[t]
         /\ ~RememberedThread(t)
  BY <1>1 DEF Lookup, Fetched, FetchFails, Places, Stage, RememberedThread
<1>4. \A u \in Task : body'[u] = "none" <=> stage'[u] \in {"waiting", "fetch", "call"}
  BY <1>2, <1>3 DEF Inv, ThreadInv
<1>5. \A u \in Task : body'[u] = "full" => ThreadOf[u] \in threads'
  BY <1>1, <1>2, <1>3 DEF Inv, ThreadInv
<1>6. ASSUME NEW u \in Task, stage'[u] = "call",
             NEW v \in new, BoxOf[v] < BoxOf[u], ThreadOf[v] = ThreadOf[u]
      PROVE  body'[v] = "summary"
  <2>1. v \in Task
    BY Types DEF Inv, Folders
  <2>2. CASE u = t
    <3>1. v # t
      BY <1>6, <2>2, FolderIs
    <3>2. body[v] = "summary"
      BY <1>1, <1>3, <1>6, <2>2, EarlierFetched
    <3>. QED
      BY <1>2, <2>1, <3>1, <3>2
  <2>3. CASE u # t
    <3>1. stage[u] = "call"
      BY <1>2, <1>6, <2>3
    <3>2. v # t
      BY <1>1, <1>6, <3>1, NoLaterFetch
    <3>. QED
      BY <1>2, <1>6, <2>1, <3>1, <3>2 DEF Inv, ThreadInv, ConversationOnce
  <2>. QED
    BY <2>2, <2>3
<1>7. ConversationOnce'
  BY <1>1, <1>6 DEF ConversationOnce
<1>. QED
  BY <1>4, <1>5, <1>7 DEF ThreadInv

LEMMA ThreadKept == Inv /\ [Next]_vars => ThreadInv'
<1>. SUFFICES ASSUME Inv, [Next]_vars PROVE ThreadInv'
  OBVIOUS
<1>1. Places
  BY Types DEF Inv
<1>2. ASSUME NEW t \in Task, WorkerStep(t), ~(Lookup(t) \/ Fetched(t) \/ FetchFails(t))
      PROVE  ThreadInv'
  BY <1>1, <1>2, ThreadsStay DEF WorkerStep, Go, Advance, SkipMessage, Store,
     WorkerTakes, WorkerSends, syncVars, Places, Stage
<1>3. CASE StartDownload \/ Wait \/ MainTakes \/ MainSends \/ ListMailboxesFails
  <2>1. /\ UNCHANGED <<stage, body, threads>> /\ new' \subseteq new
        /\ phase # "over"
    BY <1>3 DEF StartDownload, Wait, MainTakes, MainSends, ListMailboxesFails, workerVars
  <2>. QED
    BY <2>1, ThreadsStay
<1>4. CASE Finish
  BY <1>4 DEF Finish, Inv, ThreadInv, ConversationOnce
<1>5. CASE GluonReads \/ Cancel \/ Ended \/ UNCHANGED vars
  BY <1>5, ThreadsStay DEF GluonReads, Cancel, Ended, vars, syncVars, workerVars
<1>. QED
  BY <1>2, <1>3, <1>4, <1>5, FetchKeepsThreads DEF Next, SyncStep

-----------------------------------------------------------------------------
(* The rest of the types.                                                  *)

LEMMA ChannelKept == Inv /\ [Next]_vars => Channel'
<1>. SUFFICES ASSUME Inv, [Next]_vars PROVE Channel'
  OBVIOUS
<1>1. Channel /\ Places /\ UpdateBuffer \in Nat \ {0}
  BY Types, AnnouncePoolAssumption DEF Inv
<1>2. ASSUME NEW a \in Actor, Sent(a) PROVE Channel'
  <2>1. CASE Send(a)
    <3>1. batch[a] \in SUBSET Task /\ Len(channel) < UpdateBuffer
          /\ channel' = Append(channel, batch[a])
      BY <1>1, <2>1 DEF Places, Send, Room
    <3>. QED
      BY <1>1, <3>1 DEF Channel
  <2>2. CASE UNCHANGED batchVars
    BY <1>1, <2>2 DEF batchVars, Channel
  <2>. QED
    BY <1>2, <2>1, <2>2 DEF Sent
<1>3. CASE MainSends \/ \E t \in Task : WorkerSends(t)
  BY <1>2, <1>3, ActorIs DEF MainSends, WorkerSends
<1>4. CASE GluonReads
  <2>1. /\ Tail(channel) \in Seq(SUBSET Task) /\ Len(channel) \in Nat
        /\ Len(Tail(channel)) = Len(channel) - 1
    BY <1>1, <1>4 DEF Channel, GluonReads
  <2>. QED
    BY <1>1, <1>4, <2>1 DEF Channel, GluonReads
<1>5. CASE (SyncStep /\ ~MainSends) \/ Cancel \/ Ended \/ UNCHANGED vars
  BY <1>1, <1>5 DEF SyncStep, ListMailboxesFails, StartDownload, Wait, MainTakes, Finish,
     Take, Cancel, Ended, vars, batchVars, Channel
<1>6. CASE \E t \in Task : WorkerStep(t) /\ ~WorkerSends(t)
  BY <1>1, <1>6 DEF WorkerStep, Go, Lookup, Fetched, FetchFails, Advance, SkipMessage,
     Store, WorkerTakes, Take, batchVars, Channel
<1>. QED
  BY <1>3, <1>4, <1>5, <1>6 DEF Next

LEMMA OthersKept == Inv /\ [Next]_vars => Others'
<1>. SUFFICES ASSUME Inv, [Next]_vars PROVE Others'
  OBVIOUS
<1>1. Others /\ MaxFailures \in Nat
  BY Types, AnnouncePoolAssumption DEF Inv
<1>2. ASSUME NEW t \in Task, Fetched(t) PROVE Others'
  BY <1>1, <1>2, AnnouncePoolAssumption DEF Fetched, syncVars, Others
<1>3. CASE ListMailboxesFails \/ \E t \in Task : FetchFails(t)
  <2>1. failures' \in 0 .. MaxFailures
    BY <1>1, <1>3 DEF ListMailboxesFails, FetchFails, Others
  <2>. QED
    BY <1>1, <1>3, <2>1 DEF ListMailboxesFails, FetchFails, syncVars, workerVars, Others
<1>4. CASE Cancel
  BY <1>1, <1>4 DEF Cancel, syncVars, workerVars, Others
<1>5. CASE \E t \in Task : WorkerStep(t) /\ ~Fetched(t) /\ ~FetchFails(t)
  BY <1>1, <1>5 DEF WorkerStep, Go, Lookup, Advance, SkipMessage, Store, WorkerTakes,
     WorkerSends, syncVars, workerVars, Others
<1>6. CASE SyncStep /\ ~ListMailboxesFails
  BY <1>1, <1>6 DEF SyncStep, StartDownload, Wait, MainTakes, MainSends, Finish,
     workerVars, Others
<1>7. CASE GluonReads \/ Ended \/ UNCHANGED vars
  BY <1>1, <1>7 DEF GluonReads, Ended, vars, syncVars, workerVars, Others
<1>. QED
  BY <1>2, <1>3, <1>4, <1>5, <1>6, <1>7 DEF Next

-----------------------------------------------------------------------------
(* The theorems.                                                           *)

LEMMA InitKeeps == Init => Inv
<1>. SUFFICES ASSUME Init PROVE Inv
  OBVIOUS
<1>1. /\ \A t \in Task : stage[t] = "waiting" /\ body[t] = "none" /\ told[t] = 0
      /\ \A a \in Actor : batch[a] = {}
      /\ pending = {} /\ phase = "scan" /\ box = 0 /\ done = 0
      /\ new \subseteq Task /\ parent.progress = 0 /\ parent.closed = None
  BY DEF Init
<1>2. Running = {} /\ Flushing = {} /\ Counted = {}
  BY <1>1 DEF Running, Flushing, Counted
<1>3. TypeOK
  <2>1. Places
    BY DEF Init, Places, Stage
  <2>2. Folders
    BY <1>1, FolderIs DEF Folders
  <2>3. Channel
    BY AnnouncePoolAssumption DEF Init, Channel
  <2>4. Progress
    <3>1. 0 \in 0 .. Cardinality(Task)
      BY TaskCount
    <3>. QED
      BY <3>1 DEF Init, Progress
  <2>5. Others
    <3>1. requested \in BOOLEAN /\ cancelled \in BOOLEAN
      BY Zenon DEF Init
    <3>. QED
      BY <3>1, AnnouncePoolAssumption DEF Init, Others
  <2>. QED
    BY <2>1, <2>2, <2>3, <2>4, <2>5, Types
<1>4. PlaceInv
  BY <1>1, ActorIs DEF PlaceInv, Stored, Held
<1>5. OrderInv
  BY <1>1, FolderIs DEF OrderInv
<1>6. CountInv
  BY <1>1, <1>2, FS_EmptySet DEF CountInv
<1>7. BoundInv
  <2>1. Concurrency \in Nat \ {0} /\ Batch \in Nat \ {0}
    BY AnnouncePoolAssumption
  <2>. QED
    BY <1>1, <1>2, <2>1, FS_EmptySet DEF BoundInv
<1>8. ThreadInv
  BY <1>1 DEF ThreadInv, ConversationOnce
<1>. QED
  BY <1>3, <1>4, <1>5, <1>6, <1>7, <1>8 DEF Inv

LEMMA NextKeeps == Inv /\ [Next]_vars => Inv'
BY PlacesKept, FoldersKept, OrderKept, CountKept, BoundKept, ThreadKept, ChannelKept,
   OthersKept, TypesNext DEF Inv

LEMMA Invariant == Spec => []Inv
BY InitKeeps, NextKeeps, PTL DEF Spec, SafeSpec

\* A batch never holds more than Batch + Concurrency - 1 messages, for any two
\* sizes and however many goroutines meet at a full list; and every variable is
\* within its bounds (connector.go:150-183).
THEOREM BatchesBounded == Spec => []BatchBounded
<1>1. Inv => BatchBounded
  BY DEF Inv, BoundInv, BatchBounded, Flushing
<1>. QED
  BY Invariant, <1>1, PTL

\* A sync that closes has reported every message it found, those that could not
\* be fetched or parsed too (progress.go:52-92).
THEOREM ClosedWhenComplete == Spec => []ClosedAtTotal
<1>1. ASSUME Inv, parent.closed # None PROVE parent.progress = Total
  <2>1. \A t \in new : Settled(t)
    BY <1>1 DEF Inv, CountInv, OrderInv
  <2>2. Counted = new
    BY <1>1, <2>1, CountedAre DEF Counted, Settled
  <2>. QED
    BY <1>1, <2>2 DEF Inv, CountInv, Total
<1>2. Inv => ClosedAtTotal
  BY <1>1 DEF ClosedAtTotal
<1>. QED
  BY Invariant, <1>2, PTL

\* A conversation fetched for one folder is not fetched again for a later one,
\* unless it could not be fetched (connector.go:72-75).
THEOREM ConversationFetchedOnce == Spec => []ConversationOnce
<1>1. Inv => ConversationOnce
  BY DEF Inv, ThreadInv
<1>. QED
  BY Invariant, <1>1, PTL

\* The progress the parent is told only grows, and stops when the sync closes,
\* whichever goroutine reports it (progress.go:55-92).
THEOREM ProgressInOrder == Spec => ReportsInOrder
<1>1. ASSUME Inv, [Next]_vars, parent'.progress # parent.progress
      PROVE  parent'.progress > parent.progress /\ parent.closed = None
  <2>1. Progress /\ Places
    BY <1>1, Types DEF Inv
  <2>2. PICK t \in Task : Advance(t)
    <3>1. CASE \E t \in Task : WorkerStep(t) /\ ~Advance(t)
      BY <1>1, <3>1 DEF WorkerStep, Go, Lookup, Fetched, FetchFails, SkipMessage, Store,
         WorkerTakes, WorkerSends
    <3>2. CASE SyncStep \/ GluonReads \/ Cancel \/ Ended \/ UNCHANGED vars
      BY <1>1, <2>1, <3>2 DEF SyncStep, ListMailboxesFails, StartDownload, Wait, MainTakes,
         MainSends, Finish, GluonReads, Cancel, Ended, vars, Opened, Closed, Progress
    <3>. QED
      BY <1>1, <3>1, <3>2 DEF Next
  <2>3. done' = done + 1 /\ parent' = [parent EXCEPT !.progress = done']
    BY <1>1, <2>2, AdvanceCounts
  <2>4. parent'.progress = done + 1
    BY <2>1, <2>3 DEF Progress
  <2>5. parent.progress \in 0 .. Cardinality(Task)
    BY <2>1 DEF Progress
  <2>6. parent.progress <= done /\ done \in Nat
    BY <1>1, CountedAre DEF Inv, CountInv
  <2>7. parent'.progress > parent.progress
    BY <2>4, <2>5, <2>6, TaskCount
  <2>. QED
    BY <1>1, <2>2, <2>7, AdvanceCounts
<1>2. Inv /\ [Next]_vars =>
        [ parent'.progress # parent.progress =>
            /\ parent'.progress > parent.progress
            /\ parent.closed = None ]_vars
  BY <1>1
<1>. QED
  BY Invariant, <1>2, PTL DEF Spec, SafeSpec, ReportsInOrder

-----------------------------------------------------------------------------
(* The download implements what it promises: each of its steps is one of   *)
(* module Announcing, or none.                                             *)

LEMMA InitMaps == Init => Abstract!Init
<1>. SUFFICES ASSUME Init PROVE Abstract!Init
  OBVIOUS
<1>1. Skipped = {}
  BY DEF Init, Skipped
<1>. QED
  BY <1>1 DEF Init, Abstract!Init

\* What the abstract specification sees of a step that changes none of it.
LEMMA Unseen ==
  ASSUME UNCHANGED <<new, told>>, Skipped' = Skipped,
         phase' = "over" <=> phase = "over"
  PROVE  UNCHANGED Abstract!vars
BY DEF Abstract!vars

LEMMA SkippedIs ==
  ASSUME Inv
  PROVE  /\ Skipped \subseteq new /\ new \subseteq Task
         /\ Skipped = {t \in new : Settled(t) /\ ~Parses(t)}
BY Types DEF Inv, Folders, Skipped, Settled

\* What is stored and not yet announced is left to announce, and of the first
\* folder that has anything left.
LEMMA CurrentIs ==
  ASSUME Inv, NEW t \in new, BoxOf[t] = box, told[t] = 0, t \notin Skipped
  PROVE  t \in Abstract!Current
<1>1. t \in Abstract!Left
  BY DEF Abstract!Left
<1>2. ASSUME NEW u \in Abstract!Left PROVE BoxOf[t] <= BoxOf[u]
  <2>1. u \in new /\ u \in Task /\ ~Settled(u)
    BY <1>2, Types DEF Abstract!Left, Skipped, Settled, Inv, Folders
  <2>2. ~(BoxOf[u] < box)
    BY <2>1 DEF Inv, OrderInv
  <2>. QED
    BY <2>1, <2>2, FolderIs, Types DEF Inv, Folders
<1>. QED
  BY <1>1, <1>2 DEF Abstract!Current

LEMMA HeldIsCurrent ==
  ASSUME Inv, NEW t \in Task, Held(t) PROVE t \in Abstract!Current
<1>1. Stored(t) /\ told[t] = 0
  BY DEF Inv, PlaceInv
<1>2. t \in new /\ BoxOf[t] <= box /\ ~Settled(t)
  BY <1>1 DEF Stored, Settled, Inv, OrderInv
<1>3. BoxOf[t] = box
  BY <1>2, FolderIs, Types DEF Inv, OrderInv, Folders
<1>4. t \notin Skipped
  BY <1>1 DEF Stored, Skipped
<1>. QED
  BY <1>1, <1>2, <1>3, <1>4, CurrentIs

\* A send announces a batch, or nothing.
LEMMA SendMaps ==
  ASSUME Inv, NEW a \in Actor, Sent(a), UNCHANGED new, Skipped' = Skipped,
         phase' = "over" <=> phase = "over"
  PROVE  Abstract!Next \/ UNCHANGED Abstract!vars
<1>1. CASE Send(a)
  <2>1. batch[a] \in SUBSET Task /\ batch[a] # {}
    BY <1>1, Types DEF Send, Inv, Places
  <2>2. batch[a] \in (SUBSET Abstract!Current) \ {{}}
    BY <2>1, HeldIsCurrent DEF Held
  <2>3. told' = [t \in Task |-> IF t \in batch[a] THEN told[t] + 1 ELSE told[t]]
    BY <1>1 DEF Send
  <2>. QED
    BY <2>2, <2>3 DEF Abstract!Next, Abstract!Announce
<1>2. CASE UNCHANGED batchVars
  BY <1>2, Unseen DEF batchVars
<1>. QED
  BY <1>1, <1>2 DEF Sent

LEMMA WorkerMaps ==
  ASSUME Inv, NEW t \in Task, WorkerStep(t)
  PROVE  Abstract!Next \/ UNCHANGED Abstract!vars
<1>1. Places /\ UNCHANGED <<new, phase>> /\ t \in new /\ BoxOf[t] = box
  BY WorkersDownload, Types DEF Inv, WorkerStep, Go, Lookup, Fetched, FetchFails, Advance,
     SkipMessage, Store, WorkerTakes, WorkerSends, syncVars
<1>2. /\ stage[t] # "returned"
      /\ \A u \in Task : u # t => stage'[u] = stage[u] /\ (Parses(u)' <=> Parses(u))
  BY <1>1 DEF WorkerStep, Go, Lookup, Fetched, FetchFails, Advance, SkipMessage, Store,
     WorkerTakes, WorkerSends, Places, Stage, Parses
<1>3. CASE SkipMessage(t)
  <2>1. stage'[t] = "returned" /\ ~Parses(t) /\ ~Parses(t)' /\ UNCHANGED told
    BY <1>1, <1>3 DEF SkipMessage, Places, Stage, Parses, batchVars
  <2>2. Skipped' = Skipped \cup {t}
    BY <1>1, <1>2, <2>1, SkippedIs DEF Skipped
  <2>3. told[t] = 0 /\ t \notin Skipped
    BY <1>2, <2>1 DEF Inv, PlaceInv, Stored, Skipped
  <2>4. t \in Abstract!Current
    BY <1>1, <2>3, CurrentIs
  <2>. QED
    BY <1>1, <2>1, <2>2, <2>4 DEF Abstract!Next, Abstract!Skip
<1>4. CASE ~SkipMessage(t)
  <2>1. stage'[t] = "returned" => Parses(t)'
    BY <1>1, <1>4 DEF WorkerStep, Go, Lookup, Fetched, FetchFails, Advance, Store,
       WorkerTakes, WorkerSends, Places, Stage, Parses, Inv, PlaceInv
  <2>2. Skipped' = Skipped
    BY <1>1, <1>2, <2>1, SkippedIs DEF Skipped
  <2>3. CASE WorkerSends(t)
    BY <1>1, <2>2, <2>3, SendMaps, ActorIs DEF WorkerSends
  <2>4. CASE ~WorkerSends(t)
    <3>1. UNCHANGED told
      BY <1>4, <2>4 DEF WorkerStep, Go, Lookup, Fetched, FetchFails, Advance, Store,
         WorkerTakes, Take, batchVars
    <3>. QED
      BY <1>1, <2>2, <3>1, Unseen
  <2>. QED
    BY <2>3, <2>4
<1>. QED
  BY <1>3, <1>4

LEMMA SyncMaps ==
  ASSUME Inv, SyncStep PROVE Abstract!Next \/ UNCHANGED Abstract!vars
<1>1. UNCHANGED <<stage, body>>
  BY DEF SyncStep, ListMailboxesFails, StartDownload, Wait, MainTakes, MainSends, Finish,
     workerVars
<1>2. UNCHANGED new => Skipped' = Skipped
  BY <1>1 DEF Skipped, Parses
<1>3. CASE ListMailboxesFails
  <2>1. Skipped = {} /\ Skipped' = {} /\ \A t \in new : told[t] = 0
    BY <1>1, <1>3, AllWait, SkippedIs DEF ListMailboxesFails, Skipped
  <2>2. Abstract!Left = new
    BY <2>1 DEF Abstract!Left
  <2>. QED
    BY <1>3, <2>1, <2>2
       DEF ListMailboxesFails, batchVars, Abstract!Next, Abstract!GiveUp
<1>4. CASE Finish
  <2>1. \A t \in new : Settled(t)
    BY <1>4 DEF Finish, Inv, OrderInv
  <2>2. Abstract!Left = {}
    BY <2>1 DEF Abstract!Left, Skipped, Settled
  <2>. QED
    BY <1>2, <1>4, <2>2 DEF Finish, batchVars, Abstract!Next, Abstract!End
<1>5. CASE MainSends
  <2>1. phase # "over" /\ phase' # "over" /\ UNCHANGED new
    BY <1>5 DEF MainSends, NextBox
  <2>. QED
    BY <1>2, <1>5, <2>1, SendMaps, ActorIs DEF MainSends
<1>6. CASE StartDownload \/ Wait \/ MainTakes
  <2>1. phase # "over" /\ phase' # "over" /\ UNCHANGED <<new, told>>
    BY <1>6 DEF StartDownload, Wait, MainTakes, NextBox, Take, batchVars
  <2>. QED
    BY <1>2, <2>1, Unseen
<1>. QED
  BY <1>3, <1>4, <1>5, <1>6 DEF SyncStep

LEMMA StepMaps == Inv /\ [Next]_vars => [Abstract!Next]_(Abstract!vars)
<1>. SUFFICES ASSUME Inv, [Next]_vars
              PROVE  Abstract!Next \/ UNCHANGED Abstract!vars
  OBVIOUS
<1>1. CASE GluonReads \/ Cancel \/ Ended \/ UNCHANGED vars
  <2>1. UNCHANGED <<new, told, phase, stage, body>>
    BY <1>1 DEF GluonReads, Cancel, Ended, vars, syncVars, workerVars, batchVars
  <2>. QED
    BY <2>1, Unseen DEF Skipped, Parses
<1>. QED
  BY <1>1, WorkerMaps, SyncMaps DEF Next

\* The goroutines, the batches and the retries between them announce what the
\* scan found exactly once or skip it, one folder after the other, as if there
\* were none of them (connector.go:139-194 and 240-259).
THEOREM DownloadImplements == Spec => Abstract!SafeSpec
BY InitMaps, StepMaps, Invariant, PTL DEF Spec, SafeSpec, Abstract!SafeSpec

=============================================================================
