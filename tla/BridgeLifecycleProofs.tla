----------------------- MODULE BridgeLifecycleProofs -----------------------
(***************************************************************************)
(* One run of the bridge, for any sizes of the updates channel and of the  *)
(* socket, any sends of a sync and any requests of the parent: whichever   *)
(* path Run takes and wherever the poller, the control channel and the     *)
(* parent are meanwhile, what it started is stopped, nothing is sent on a  *)
(* closed channel, and no request is lost.                                 *)
(*                                                                         *)
(* Run is known by the order of its steps alone: which comes before which  *)
(* wherever both are ahead, and which is still ahead once another is.      *)
(* Taking a step keeps both.                                               *)
(***************************************************************************)
EXTENDS BridgeLifecycle, TLAPS

In(p, s) == \E i \in 1 .. Len(p) : p[i] = s

Once(p) == \A i, j \in 1 .. Len(p) : p[i] = p[j] => i = j

\* Wherever a is ahead, b comes after it.
Then(p, a, b) ==
  \A i \in 1 .. Len(p) : p[i] = a => \E j \in i + 1 .. Len(p) : p[j] = b

\* Wherever both are ahead, a is first.
Order(p, a, b) == \A i, j \in 1 .. Len(p) : p[i] = a /\ p[j] = b => i < j

WellOrdered(p) ==
  /\ p \in Seq(Steps) /\ Once(p)
  /\ Then(p, "session", "startIMAP") /\ Then(p, "startIMAP", "startSMTP")
  /\ Then(p, "startIMAP", "stopServing") /\ Then(p, "startSMTP", "stopSMTP")
  /\ Order(p, "sendReady", "resync") /\ Order(p, "sendReady", "serve")
  /\ Order(p, "joinPoller", "closeGluon") /\ Order(p, "closeGluon", "stopServing")

Ahead(s) == In(todo, s)

\* What Run starts is stopped ahead; the poller has ended before the channel it
\* sends on is closed.
ControlInv ==
  /\ imap = "none" <=> poller = "none"
  /\ imap # "none" => ~Ahead("startIMAP")
  /\ imap = "serving" => Ahead("stopServing")
  /\ imap = "closed" => closed
  /\ closed => poller = "done"
  /\ smtp # "none" => ~Ahead("startSMTP")
  /\ smtp = "serving" => Ahead("stopSMTP")
  /\ Ahead("stopServing") /\ ~Ahead("closeGluon") => closed
  /\ Ahead("closeGluon") /\ ~Ahead("joinPoller") => poller = "done"
  /\ sends # <<>> => Syncing
  /\ ~crashed

\* No sync is asked for before the parent knows that the bridge is up.
ReadyInv ==
  /\ Ahead("resync") \/ Ahead("serve") => Ahead("sendReady") \/ readySent
  /\ reset \/ poller = "requested" \/ serve # "none" => readySent
  /\ ~early

\* How many resyncs Run has still to ask for.
OwnResync == IF Ahead("resync") THEN 1 ELSE 0

RequestInv ==
  /\ RequestsKept
  /\ serve # "none" => ~Ahead("serve")
  /\ covered <= asked
  /\ requests <= sent
  /\ asked + requests + OwnResync <= sent + 1

Inv == TypeOK /\ WellOrdered(todo) /\ ControlInv /\ ReadyInv /\ RequestInv

-----------------------------------------------------------------------------
(* The programs.                                                           *)

StepName ==
  {"session", "startIMAP", "startSMTP", "sendReady", "resync", "serve", "wait",
   "takeDown", "stopPoller", "joinPoller", "closeListener", "closeGluon",
   "stopServing", "stopSMTP", "closeControl", "sendError"}

LEMMA CloseIs == CloseIMAP \in Seq(StepName)
BY DEF CloseIMAP, StepName

LEMMA Joined ==
  ASSUME NEW S, NEW p \in Seq(S), NEW q \in Seq(S)
  PROVE  p \o q \in Seq(S)
OBVIOUS

LEMMA RunIs ==
  /\ Run \in Seq(StepName) /\ Len(Run) = 15
  /\ Run[1] = "session" /\ Run[2] = "startIMAP" /\ Run[3] = "startSMTP"
  /\ Run[4] = "sendReady" /\ Run[5] = "resync" /\ Run[6] = "serve"
  /\ Run[7] = "wait" /\ Run[8] = "takeDown" /\ Run[9] = "stopPoller"
  /\ Run[10] = "joinPoller" /\ Run[11] = "closeListener"
  /\ Run[12] = "closeGluon" /\ Run[13] = "stopServing"
  /\ Run[14] = "stopSMTP" /\ Run[15] = "closeControl"
<1>1. /\ <<"session", "startIMAP", "startSMTP", "sendReady", "resync", "serve",
           "wait">> \in Seq(StepName)
      /\ <<"stopSMTP", "closeControl">> \in Seq(StepName)
  BY DEF StepName
<1>2. Run \in Seq(StepName)
  BY <1>1, CloseIs, Joined DEF Run
<1>. QED
  BY <1>2 DEF Run, CloseIMAP

LEMMA AfterSMTPIs ==
  LET p == AfterSMTPFails
  IN /\ p \in Seq(StepName) /\ Len(p) = 8
     /\ p[1] = "takeDown" /\ p[2] = "stopPoller" /\ p[3] = "joinPoller"
     /\ p[4] = "closeListener" /\ p[5] = "closeGluon" /\ p[6] = "stopServing"
     /\ p[7] = "sendError" /\ p[8] = "closeControl"
<1>1. <<"sendError", "closeControl">> \in Seq(StepName)
  BY DEF StepName
<1>2. AfterSMTPFails \in Seq(StepName)
  BY <1>1, CloseIs, Joined DEF AfterSMTPFails
<1>. QED
  BY <1>2 DEF AfterSMTPFails, CloseIMAP

LEMMA AfterReadyIs ==
  LET p == AfterReadyFails
  IN /\ p \in Seq(StepName) /\ Len(p) = 8
     /\ p[1] = "stopSMTP" /\ p[2] = "takeDown" /\ p[3] = "stopPoller"
     /\ p[4] = "joinPoller" /\ p[5] = "closeListener" /\ p[6] = "closeGluon"
     /\ p[7] = "stopServing" /\ p[8] = "closeControl"
<1>1. <<"stopSMTP">> \in Seq(StepName) /\ <<"closeControl">> \in Seq(StepName)
  BY DEF StepName
<1>2. AfterReadyFails \in Seq(StepName)
  BY <1>1, CloseIs, Joined DEF AfterReadyFails
<1>. QED
  BY <1>2 DEF AfterReadyFails, CloseIMAP

LEMMA StepsAre == Steps = StepName
<1>1. ASSUME NEW s \in Steps PROVE s \in StepName
  BY RunIs DEF Steps, StepName
<1>2. ASSUME NEW s \in StepName PROVE s \in Steps
  BY RunIs DEF Steps, StepName
<1>. QED
  BY <1>1, <1>2

LEMMA RunOrdered == WellOrdered(Run)
<1>1. Run \in Seq(Steps)
  BY RunIs, StepsAre
<1>2. Once(Run)
  <2>. DEFINE place ==
         [session |-> 1, startIMAP |-> 2, startSMTP |-> 3, sendReady |-> 4,
          resync |-> 5, serve |-> 6, wait |-> 7, takeDown |-> 8, stopPoller |-> 9,
          joinPoller |-> 10, closeListener |-> 11, closeGluon |-> 12,
          stopServing |-> 13, stopSMTP |-> 14, closeControl |-> 15]
  <2>1. \A i \in 1 .. Len(Run) : place[Run[i]] = i
    BY RunIs
  <2>. HIDE DEF place
  <2>. QED
    BY <2>1 DEF Once
<1>3. /\ Then(Run, "session", "startIMAP") /\ Then(Run, "startIMAP", "startSMTP")
      /\ Then(Run, "startIMAP", "stopServing") /\ Then(Run, "startSMTP", "stopSMTP")
  BY RunIs DEF Then
<1>4. /\ Order(Run, "sendReady", "resync") /\ Order(Run, "sendReady", "serve")
      /\ Order(Run, "joinPoller", "closeGluon")
      /\ Order(Run, "closeGluon", "stopServing")
  BY RunIs DEF Order
<1>. QED
  BY <1>1, <1>2, <1>3, <1>4 DEF WellOrdered

\* The error paths are in order too, and these are their steps.
LEMMA AfterSMTPOrdered ==
  /\ WellOrdered(AfterSMTPFails)
  /\ \A s : In(AfterSMTPFails, s) <=>
       s \in {"takeDown", "stopPoller", "joinPoller", "closeListener",
              "closeGluon", "stopServing", "sendError", "closeControl"}
<1>. DEFINE p == AfterSMTPFails
<1>1. p \in Seq(Steps)
  BY AfterSMTPIs, StepsAre
<1>2. Once(p)
  BY AfterSMTPIs DEF Once
<1>3. /\ Then(p, "session", "startIMAP") /\ Then(p, "startIMAP", "startSMTP")
      /\ Then(p, "startIMAP", "stopServing") /\ Then(p, "startSMTP", "stopSMTP")
  BY AfterSMTPIs DEF Then
<1>4. /\ Order(p, "sendReady", "resync") /\ Order(p, "sendReady", "serve")
      /\ Order(p, "joinPoller", "closeGluon") /\ Order(p, "closeGluon", "stopServing")
  BY AfterSMTPIs DEF Order
<1>5. \A s : In(p, s) <=>
        s \in {"takeDown", "stopPoller", "joinPoller", "closeListener",
               "closeGluon", "stopServing", "sendError", "closeControl"}
  BY AfterSMTPIs DEF In
<1>. QED
  BY <1>1, <1>2, <1>3, <1>4, <1>5 DEF WellOrdered

LEMMA AfterReadyOrdered ==
  /\ WellOrdered(AfterReadyFails)
  /\ \A s : In(AfterReadyFails, s) <=>
       s \in {"stopSMTP", "takeDown", "stopPoller", "joinPoller", "closeListener",
              "closeGluon", "stopServing", "closeControl"}
<1>. DEFINE p == AfterReadyFails
<1>1. p \in Seq(Steps)
  BY AfterReadyIs, StepsAre
<1>2. Once(p)
  BY AfterReadyIs DEF Once
<1>3. /\ Then(p, "session", "startIMAP") /\ Then(p, "startIMAP", "startSMTP")
      /\ Then(p, "startIMAP", "stopServing") /\ Then(p, "startSMTP", "stopSMTP")
  BY AfterReadyIs DEF Then
<1>4. /\ Order(p, "sendReady", "resync") /\ Order(p, "sendReady", "serve")
      /\ Order(p, "joinPoller", "closeGluon") /\ Order(p, "closeGluon", "stopServing")
  BY AfterReadyIs DEF Order
<1>5. \A s : In(p, s) <=>
        s \in {"stopSMTP", "takeDown", "stopPoller", "joinPoller", "closeListener",
               "closeGluon", "stopServing", "closeControl"}
  BY AfterReadyIs DEF In
<1>. QED
  BY <1>1, <1>2, <1>3, <1>4, <1>5 DEF WellOrdered

LEMMA EarlyEndsOrdered ==
  /\ WellOrdered(AfterIMAPFails) /\ WellOrdered(<<"closeControl">>)
  /\ \A s : In(AfterIMAPFails, s) <=> s \in {"sendError", "closeControl"}
  /\ \A s : In(<<"closeControl">>, s) <=> s = "closeControl"
BY StepsAre DEF StepName, AfterIMAPFails, WellOrdered, Once, Then, Order, In

\* The step taken was ahead, and leaves what is ahead in order.
LEMMA TailOrdered ==
  ASSUME NEW p, WellOrdered(p), p # <<>>
  PROVE  /\ WellOrdered(Tail(p))
         /\ In(p, Head(p))
         /\ \A s : In(Tail(p), s) <=> In(p, s) /\ s # Head(p)
<1>. DEFINE q == Tail(p)
<1>1. /\ p \in Seq(Steps) /\ Len(p) \in Nat \ {0} /\ Head(p) = p[1]
      /\ q \in Seq(Steps) /\ Len(q) = Len(p) - 1
      /\ \A i \in 1 .. Len(q) : q[i] = p[i + 1]
  BY DEF WellOrdered
<1>. HIDE DEF q
<1>2. ASSUME NEW a, NEW b, Then(p, a, b) PROVE Then(q, a, b)
  <2>. SUFFICES ASSUME NEW i \in 1 .. Len(q), q[i] = a
                PROVE  \E j \in i + 1 .. Len(q) : q[j] = b
    BY DEF Then
  <2>1. PICK j \in (i + 1) + 1 .. Len(p) : p[j] = b
    BY <1>1, <1>2 DEF Then
  <2>2. j - 1 \in i + 1 .. Len(q) /\ q[j - 1] = b
    BY <1>1, <2>1
  <2>. QED
    BY <2>2
<1>3. ASSUME NEW a, NEW b, Order(p, a, b) PROVE Order(q, a, b)
  <2>. SUFFICES ASSUME NEW i \in 1 .. Len(q), NEW j \in 1 .. Len(q),
                       q[i] = a, q[j] = b
                PROVE  i < j
    BY DEF Order
  <2>1. i + 1 \in 1 .. Len(p) /\ j + 1 \in 1 .. Len(p)
        /\ p[i + 1] = a /\ p[j + 1] = b
    BY <1>1
  <2>2. i + 1 < j + 1
    BY <1>3, <2>1 DEF Order
  <2>. QED
    BY <1>1, <2>2
<1>4. Once(q)
  <2>. SUFFICES ASSUME NEW i \in 1 .. Len(q), NEW j \in 1 .. Len(q), q[i] = q[j]
                PROVE  i = j
    BY DEF Once
  <2>1. i + 1 \in 1 .. Len(p) /\ j + 1 \in 1 .. Len(p) /\ p[i + 1] = p[j + 1]
    BY <1>1
  <2>2. i + 1 = j + 1
    BY <2>1 DEF WellOrdered, Once
  <2>. QED
    BY <1>1, <2>2
<1>5. WellOrdered(q)
  BY <1>1, <1>2, <1>3, <1>4 DEF WellOrdered
<1>6. 1 \in 1 .. Len(p)
  BY <1>1
<1>7. In(p, Head(p))
  BY <1>1, <1>6 DEF In
<1>8. ASSUME NEW s PROVE In(q, s) <=> In(p, s) /\ s # Head(p)
  <2>1. ASSUME In(q, s) PROVE In(p, s) /\ s # Head(p)
    <3>1. PICK i \in 1 .. Len(q) : q[i] = s
      BY <2>1 DEF In
    <3>2. i + 1 \in 1 .. Len(p) /\ p[i + 1] = s /\ i + 1 # 1
      BY <1>1, <3>1
    <3>. QED
      BY <1>1, <1>6, <3>2 DEF In, WellOrdered, Once
  <2>2. ASSUME In(p, s), s # Head(p) PROVE In(q, s)
    <3>1. PICK i \in 1 .. Len(p) : p[i] = s
      BY <2>2 DEF In
    <3>2. i # 1
      BY <1>1, <2>2, <3>1
    <3>3. i - 1 \in 1 .. Len(q) /\ q[i - 1] = s
      BY <1>1, <3>1, <3>2
    <3>. QED
      BY <3>3 DEF In
  <2>. QED
    BY <2>1, <2>2
<1>. QED
  BY <1>5, <1>7, <1>8 DEF q

\* The first step ahead: what comes after it is still ahead, what comes before
\* it has been taken.
LEMMA FirstStep ==
  ASSUME NEW p, WellOrdered(p), p # <<>>
  PROVE  /\ Head(p) = "session" => In(p, "startIMAP")
         /\ Head(p) = "startIMAP" => In(p, "startSMTP") /\ In(p, "stopServing")
         /\ Head(p) = "startSMTP" => In(p, "stopSMTP")
         /\ Head(p) \in {"resync", "serve"} => ~In(p, "sendReady")
         /\ Head(p) = "closeGluon" => ~In(p, "joinPoller")
         /\ Head(p) = "stopServing" => ~In(p, "closeGluon")
         /\ Head(p) = "stopSMTP" => ~In(p, "startSMTP")
<1>1. p \in Seq(Steps) /\ Len(p) \in Nat \ {0} /\ Head(p) = p[1]
      /\ 1 \in 1 .. Len(p)
  BY DEF WellOrdered
<1>2. ASSUME NEW a, NEW b, Then(p, a, b), Head(p) = a PROVE In(p, b)
  BY <1>1, <1>2 DEF Then, In
<1>3. ASSUME NEW a, NEW b, Order(p, a, b), Head(p) = b PROVE ~In(p, a)
  BY <1>1, <1>3 DEF Order, In
<1>4. ASSUME NEW a, NEW b, Then(p, a, b), Head(p) = b PROVE ~In(p, a)
  <2>. SUFFICES ASSUME NEW i \in 1 .. Len(p), p[i] = a PROVE FALSE
    BY DEF In
  <2>1. PICK j \in i + 1 .. Len(p) : p[j] = b
    BY <1>4 DEF Then
  <2>2. j \in 1 .. Len(p) /\ j # 1
    BY <1>1, <2>1
  <2>. QED
    BY <1>1, <1>4, <2>1, <2>2 DEF WellOrdered, Once
<1>. QED
  BY <1>2, <1>3, <1>4 DEF WellOrdered
-----------------------------------------------------------------------------
(* The steps.                                                              *)

LEMMA ProgramIsSeq == ASSUME NEW p, WellOrdered(p) PROVE p \in Seq(Steps)
BY DEF WellOrdered

\* A step of Run that succeeds: what it leaves ahead, and what it found there.
LEMMA StepTaken ==
  ASSUME WellOrdered(todo), NEW s, Step(s)
  PROVE  /\ WellOrdered(todo') /\ In(todo, s)
         /\ \A x : In(todo', x) <=> In(todo, x) /\ x # s
         /\ s = "session" => In(todo, "startIMAP")
         /\ s = "startIMAP" => In(todo, "startSMTP") /\ In(todo, "stopServing")
         /\ s = "startSMTP" => In(todo, "stopSMTP")
         /\ s \in {"resync", "serve"} => ~In(todo, "sendReady")
         /\ s = "closeGluon" => ~In(todo, "joinPoller")
         /\ s = "stopServing" => ~In(todo, "closeGluon")
         /\ s = "stopSMTP" => ~In(todo, "startSMTP")
BY TailOrdered, FirstStep DEF Step, At

\* One that fails: what it found ahead.
LEMMA StepFailed ==
  ASSUME WellOrdered(todo), NEW s, At(s)
  PROVE  /\ In(todo, s)
         /\ s = "session" => In(todo, "startIMAP")
         /\ s \in {"session", "startIMAP"} => In(todo, "startSMTP")
<1>1. In(todo, s) /\ (s = "session" => In(todo, "startIMAP"))
  BY TailOrdered, FirstStep DEF At
<1>2. In(todo, "startIMAP") => In(todo, "startSMTP")
  <2>. SUFFICES ASSUME In(todo, "startIMAP") PROVE In(todo, "startSMTP")
    OBVIOUS
  <2>1. PICK i \in 1 .. Len(todo) : todo[i] = "startIMAP"
    BY DEF In
  <2>2. PICK j \in i + 1 .. Len(todo) : todo[j] = "startSMTP"
    BY <2>1 DEF WellOrdered, Then
  <2>. QED
    BY <2>2, ProgramIsSeq DEF In
<1>. QED
  BY <1>1, <1>2

\* The type invariant in parts.
Flags ==
  /\ ctxDone \in BOOLEAN /\ imap \in {"none", "serving", "closed"}
  /\ pollerRef \in BOOLEAN /\ smtp \in {"none", "serving", "stopped"}
  /\ poller \in {"none", "idle", "requested", "timed", "done"} /\ stopped \in BOOLEAN
  /\ reset \in BOOLEAN /\ tick \in BOOLEAN
  /\ closed \in BOOLEAN /\ crashed \in BOOLEAN
  /\ serve \in {"none", "reading", "calling", "ended"}
  /\ parent \in {"waiting", "reading", "stalled", "gone"}
  /\ readySent \in BOOLEAN /\ early \in BOOLEAN

Counters ==
  /\ startFailures \in 0 .. MaxStartFailures
  /\ updates \in 0 .. UpdateBuffer /\ reports \in 0 .. SocketBuffer
  /\ requests \in 0 .. MaxRequests /\ sent \in 0 .. MaxRequests
  /\ asked \in 0 .. MaxRequests + 1 /\ covered \in 0 .. MaxRequests + 1

Sends == sends \in Seq({"update", "report"}) /\ Len(sends) <= MaxSends

LEMMA Types == TypeOK <=> Flags /\ Counters /\ Sends /\ todo \in Seq(Steps)
BY DEF TypeOK, Flags, Counters, Sends

LEMMA TypesNext ==
  ASSUME Flags', Counters', Sends', todo' \in Seq(Steps) PROVE TypeOK'
BY DEF TypeOK, Flags, Counters, Sends

LEMMA InitKeeps == Init => Inv
<1>. SUFFICES ASSUME Init PROVE Inv
  OBVIOUS
<1>1. WellOrdered(todo)
  BY RunOrdered DEF Init
<1>2. TypeOK
  <2>1. Flags
    BY DEF Init, Flags
  <2>2. Counters
    BY BridgeLifecycleAssumption DEF Init, Counters
  <2>3. Sends
    BY BridgeLifecycleAssumption DEF Init, Sends
  <2>. QED
    BY <1>1, <2>1, <2>2, <2>3, ProgramIsSeq, Types
<1>3. ControlInv
  <2>1. In(Run, "closeGluon") /\ In(Run, "joinPoller")
    BY RunIs DEF In
  <2>. QED
    BY <2>1 DEF Init, ControlInv, Ahead
<1>4. ReadyInv
  <2>1. In(Run, "sendReady")
    BY RunIs DEF In
  <2>. QED
    BY <2>1 DEF Init, ReadyInv, Ahead
<1>5. RequestInv
  BY DEF Init, RequestInv, RequestsKept, OwnResync
<1>. QED
  BY <1>1, <1>2, <1>3, <1>4, <1>5 DEF Inv

\* What a step must leave alone for the requests to be kept.
LEMMA RequestsUntouched ==
  ASSUME TypeOK, RequestInv,
         UNCHANGED <<serve, requests, sent, asked, covered, reset>>,
         In(todo', "serve") => In(todo, "serve"),
         In(todo', "resync") => In(todo, "resync")
  PROVE  RequestInv'
<1>1. OwnResync' <= OwnResync
  BY DEF OwnResync, Ahead
<1>2. OwnResync \in Nat /\ OwnResync' \in Nat
  BY DEF OwnResync
<1>3. asked \in Nat /\ requests \in Nat /\ sent \in Nat
  BY DEF TypeOK
<1>4. asked + requests + OwnResync <= sent + 1
  BY DEF RequestInv
<1>5. asked + requests + OwnResync' <= sent + 1
  BY <1>1, <1>2, <1>3, <1>4 DEF OwnResync
<1>6. asked' + requests' + OwnResync' <= sent' + 1
  BY <1>5
<1>. QED
  BY <1>6 DEF RequestInv, RequestsKept, Ahead

-----------------------------------------------------------------------------
(* Run.                                                                    *)

\* A step that leaves alone what the invariant is about.
LEMMA QuietStep ==
  ASSUME Inv,
         NEW s \in {"wait", "sendError", "takeDown", "stopPoller", "joinPoller",
                    "closeListener", "closeControl", "session"},
         Step(s), s = "joinPoller" => poller = "done",
         Flags', Counters',
         UNCHANGED <<imap, smtp, poller, closed, sends, crashed, readySent, early,
                     reset, serve, requests, sent, asked, covered>>
  PROVE  Inv'
<1>1. /\ WellOrdered(todo') /\ todo' \in Seq(Steps)
      /\ \A x : In(todo', x) <=> In(todo, x) /\ x # s
  BY StepTaken, ProgramIsSeq DEF Inv
<1>2. TypeOK'
  <2>1. Sends'
    BY Types DEF Inv, Sends
  <2>. QED
    BY <1>1, <2>1, TypesNext
<1>3. ControlInv'
  BY <1>1 DEF Inv, ControlInv, Ahead, Syncing
<1>4. ReadyInv'
  BY <1>1 DEF Inv, ReadyInv, Ahead
<1>5. RequestInv'
  BY <1>1, RequestsUntouched DEF Inv
<1>. QED
  BY <1>1, <1>2, <1>3, <1>4, <1>5 DEF Inv

\* What one that fails leaves ahead: to stop what runs, and nothing to start.
LEMMA FailedStep ==
  ASSUME Inv, WellOrdered(todo'),
         \A x \in {"startIMAP", "startSMTP", "resync", "serve"} : ~In(todo', x),
         imap = "serving" => In(todo', "stopServing"),
         smtp = "serving" => In(todo', "stopSMTP"),
         In(todo', "stopServing") => In(todo', "closeGluon"),
         In(todo', "closeGluon") => In(todo', "joinPoller"),
         Flags', Counters',
         UNCHANGED <<imap, smtp, poller, closed, sends, crashed, readySent, early,
                     reset, serve, requests, sent, asked, covered>>
  PROVE  Inv'
<1>1. TypeOK'
  <2>1. Sends'
    BY Types DEF Inv, Sends
  <2>. QED
    BY <2>1, TypesNext, ProgramIsSeq
<1>2. ControlInv'
  BY DEF Inv, ControlInv, Ahead, Syncing
<1>3. ReadyInv'
  BY DEF Inv, ReadyInv, Ahead
<1>4. RequestInv'
  BY RequestsUntouched DEF Inv
<1>. QED
  BY <1>1, <1>2, <1>3, <1>4 DEF Inv

LEMMA WrittenFits ==
  ASSUME reports \in 0 .. SocketBuffer, CanWrite, Written
  PROVE  reports' \in 0 .. SocketBuffer
<1>1. CASE parent = "gone"
  BY <1>1 DEF Written
<1>2. CASE parent # "gone"
  <2>1. reports < SocketBuffer /\ reports' = reports + 1
    BY <1>2 DEF CanWrite, Written
  <2>. QED
    BY <2>1, BridgeLifecycleAssumption
<1>. QED
  BY <1>1, <1>2

\* Steps that only go on with the program, or take one flag or report with them.
LEMMA QuietRunInv ==
  ASSUME Inv,
         \/ WaitForSignal \/ SendError \/ TakeDown \/ StopPoller \/ JoinPoller
         \/ CloseListener \/ CloseControl
  PROVE  Inv'
<1>. USE DEF pollerVars, gluonVars, serveVars, parentVars
<1>1. Flags /\ Counters
  BY Types DEF Inv
<1>2. CASE WaitForSignal
  <2>1. Flags'
    BY <1>1, <1>2 DEF WaitForSignal, Flags
  <2>2. Counters'
    BY <1>1, <1>2 DEF WaitForSignal, Counters
  <2>. QED
    BY <1>2, <2>1, <2>2, QuietStep DEF WaitForSignal
<1>3. CASE SendError
  <2>1. Flags'
    BY <1>1, <1>3 DEF SendError, Flags
  <2>2. Counters'
    BY <1>1, <1>3, WrittenFits DEF SendError, Counters
  <2>. QED
    BY <1>3, <2>1, <2>2, QuietStep DEF SendError
<1>4. CASE TakeDown
  <2>1. Flags'
    <3>1. pollerRef' \in BOOLEAN
      BY <1>4, Zenon DEF TakeDown
    <3>. QED
      BY <1>1, <1>4, <3>1 DEF TakeDown, Flags
  <2>2. Counters'
    BY <1>1, <1>4 DEF TakeDown, Counters
  <2>. QED
    BY <1>4, <2>1, <2>2, QuietStep DEF TakeDown
<1>5. CASE StopPoller
  <2>1. Flags'
    BY <1>1, <1>5 DEF StopPoller, Flags, Cancelled
  <2>2. Counters'
    BY <1>1, <1>5 DEF StopPoller, Counters
  <2>. QED
    BY <1>5, <2>1, <2>2, QuietStep DEF StopPoller
<1>6. CASE JoinPoller
  <2>1. Flags'
    BY <1>1, <1>6 DEF JoinPoller, Flags
  <2>2. Counters'
    BY <1>1, <1>6 DEF JoinPoller, Counters
  <2>. QED
    BY <1>6, <2>1, <2>2, QuietStep DEF JoinPoller
<1>7. CASE CloseListener
  <2>1. Flags'
    BY <1>1, <1>7 DEF CloseListener, Flags
  <2>2. Counters'
    BY <1>1, <1>7 DEF CloseListener, Counters
  <2>. QED
    BY <1>7, <2>1, <2>2, QuietStep DEF CloseListener
<1>8. CASE CloseControl
  <2>1. Flags'
    BY <1>1, <1>8 DEF CloseControl, Flags
  <2>2. Counters'
    BY <1>1, <1>8 DEF CloseControl, Counters
  <2>. QED
    BY <1>8, <2>1, <2>2, QuietStep DEF CloseControl
<1>. QED
  BY <1>2, <1>3, <1>4, <1>5, <1>6, <1>7, <1>8


\* A step that fails: nothing is started after it.
LEMMA FailuresInv ==
  ASSUME Inv,
         \/ At("session") /\ todo' = <<"closeControl">> /\ ReceiveSession
         \/ StartIMAPFails \/ StartSMTPFails
         \/ parent = "gone" /\ todo' = AfterReadyFails /\ SendReady
  PROVE  Inv'
<1>. USE DEF pollerVars, gluonVars, serveVars, parentVars
<1>1. Flags /\ Counters
  BY Types DEF Inv
<1>2. CASE At("session") /\ todo' = <<"closeControl">> /\ ReceiveSession
  <2>1. imap = "none" /\ smtp = "none"
    BY <1>1, <1>2, StepFailed DEF Inv, ControlInv, Ahead, Flags
  <2>2. Flags'
    BY <1>1, <1>2 DEF ReceiveSession, Flags
  <2>3. Counters'
    BY <1>1, <1>2 DEF ReceiveSession, Counters
  <2>. QED
    BY <1>2, <2>1, <2>2, <2>3, EarlyEndsOrdered, FailedStep DEF ReceiveSession
<1>3. CASE StartIMAPFails
  <2>1. imap = "none" /\ smtp = "none"
    BY <1>1, <1>3, StepFailed DEF StartIMAPFails, Inv, ControlInv, Ahead, Flags
  <2>2. Flags'
    BY <1>1, <1>3 DEF StartIMAPFails, Flags
  <2>3. Counters'
    BY <1>1, <1>3, BridgeLifecycleAssumption DEF StartIMAPFails, StartFails, Counters
  <2>. QED
    BY <1>3, <2>1, <2>2, <2>3, EarlyEndsOrdered, FailedStep DEF StartIMAPFails
<1>4. CASE StartSMTPFails
  <2>1. smtp = "none"
    BY <1>1, <1>4, StepFailed DEF StartSMTPFails, Inv, ControlInv, Ahead, Flags
  <2>2. Flags'
    BY <1>1, <1>4 DEF StartSMTPFails, Flags
  <2>3. Counters'
    BY <1>1, <1>4, BridgeLifecycleAssumption DEF StartSMTPFails, StartFails, Counters
  <2>. QED
    BY <1>4, <2>1, <2>2, <2>3, AfterSMTPOrdered, FailedStep DEF StartSMTPFails
<1>5. CASE parent = "gone" /\ todo' = AfterReadyFails /\ SendReady
  <2>1. readySent' = readySent
    BY <1>5 DEF SendReady
  <2>2. Flags'
    BY <1>1, <1>5, <2>1 DEF SendReady, Flags
  <2>3. Counters'
    BY <1>1, <1>5 DEF SendReady, Written, Counters
  <2>. QED
    BY <1>5, <2>1, <2>2, <2>3, AfterReadyOrdered, FailedStep DEF SendReady
<1>. QED
  BY <1>2, <1>3, <1>4, <1>5

LEMMA SessionInv ==
  ASSUME Inv, ReceiveSession PROVE Inv'
<1>. USE DEF pollerVars, gluonVars, serveVars
<1>1. CASE At("session") /\ todo' = <<"closeControl">>
  BY <1>1, FailuresInv
<1>2. CASE Step("session") /\ parent' = "reading"
  <2>1. Flags'
    BY <1>2, Types DEF Inv, ReceiveSession, Flags
  <2>2. Counters'
    BY <1>2, Types DEF Inv, ReceiveSession, Counters
  <2>. QED
    BY <1>2, <2>1, <2>2, QuietStep DEF ReceiveSession
<1>. QED
  BY <1>1, <1>2 DEF ReceiveSession

\* The steps that succeed, and change what the invariant is about.
LEMMA StepKeeps ==
  ASSUME Inv, NEW s, Step(s), Flags', Counters', sends' = sends,
         ControlInv', ReadyInv', RequestInv'
  PROVE  Inv'
<1>1. WellOrdered(todo') /\ todo' \in Seq(Steps)
  BY StepTaken, ProgramIsSeq DEF Inv
<1>2. Sends'
  BY Types DEF Inv, Sends
<1>3. TypeOK'
  BY <1>1, <1>2, TypesNext
<1>. QED
  BY <1>1, <1>3 DEF Inv

LEMMA StartIMAPInv ==
  ASSUME Inv, StartIMAP PROVE Inv'
<1>. USE DEF pollerVars, gluonVars, serveVars, parentVars
<1>1. Step("startIMAP")
  BY DEF StartIMAP
<1>2. In(todo, "startIMAP") /\ \A x : In(todo', x) <=> In(todo, x) /\ x # "startIMAP"
  BY <1>1, StepTaken DEF Inv
<1>3. Flags /\ Counters
  BY Types DEF Inv
<1>4. Flags'
  BY <1>3 DEF StartIMAP, Flags
<1>5. Counters'
  BY <1>3 DEF StartIMAP, Counters
<1>6. ControlInv'
  BY <1>1, <1>2, <1>3, StepTaken DEF Inv, StartIMAP, ControlInv, Ahead, Syncing, Flags
<1>7. ReadyInv'
  BY <1>1, <1>2, StepTaken DEF Inv, StartIMAP, ReadyInv, Ahead
<1>8. RequestInv'
  BY <1>2, RequestsUntouched DEF Inv, StartIMAP
<1>. QED
  BY <1>1, <1>4, <1>5, <1>6, <1>7, <1>8, StepKeeps DEF StartIMAP

LEMMA StartSMTPInv ==
  ASSUME Inv, StartSMTP PROVE Inv'
<1>. USE DEF pollerVars, gluonVars, serveVars, parentVars
<1>1. Step("startSMTP")
  BY DEF StartSMTP
<1>2. In(todo, "startSMTP") /\ \A x : In(todo', x) <=> In(todo, x) /\ x # "startSMTP"
  BY <1>1, StepTaken DEF Inv
<1>3. Flags /\ Counters
  BY Types DEF Inv
<1>4. Flags'
  BY <1>3 DEF StartSMTP, Flags
<1>5. Counters'
  BY <1>3 DEF StartSMTP, Counters
<1>6. ControlInv'
  BY <1>1, <1>2, <1>3, StepTaken DEF Inv, StartSMTP, ControlInv, Ahead, Syncing, Flags
<1>7. ReadyInv'
  BY <1>1, <1>2, StepTaken DEF Inv, StartSMTP, ReadyInv, Ahead
<1>8. RequestInv'
  BY <1>2, RequestsUntouched DEF Inv, StartSMTP
<1>. QED
  BY <1>1, <1>4, <1>5, <1>6, <1>7, <1>8, StepKeeps DEF StartSMTP

LEMMA ReadySentInv ==
  ASSUME Inv, SendReady, Step("sendReady"), readySent' = TRUE PROVE Inv'
<1>. USE DEF pollerVars, gluonVars, serveVars, parentVars
<1>1. Step("sendReady")
  BY DEF SendReady
<1>2. In(todo, "sendReady") /\ \A x : In(todo', x) <=> In(todo, x) /\ x # "sendReady"
  BY <1>1, StepTaken DEF Inv
<1>3. Flags /\ Counters
  BY Types DEF Inv
<1>4. Flags'
  BY <1>3 DEF SendReady, Flags
<1>5. Counters'
  BY <1>3, WrittenFits DEF SendReady, Counters
<1>6. ControlInv'
  BY <1>1, <1>2, <1>3, StepTaken DEF Inv, SendReady, ControlInv, Ahead, Syncing, Flags
<1>7. ReadyInv'
  BY <1>1, <1>2, StepTaken DEF Inv, SendReady, ReadyInv, Ahead
<1>8. RequestInv'
  BY <1>2, RequestsUntouched DEF Inv, SendReady
<1>. QED
  BY <1>1, <1>4, <1>5, <1>6, <1>7, <1>8, StepKeeps DEF SendReady

LEMMA FirstResyncInv ==
  ASSUME Inv, FirstResync PROVE Inv'
<1>. USE DEF pollerVars, gluonVars, serveVars, parentVars
<1>1. Step("resync")
  BY DEF FirstResync
<1>2. In(todo, "resync") /\ \A x : In(todo', x) <=> In(todo, x) /\ x # "resync"
  BY <1>1, StepTaken DEF Inv
<1>3. Flags /\ Counters
  BY Types DEF Inv
<1>4. Flags'
  BY <1>3 DEF FirstResync, Flags, PutToken
<1>5. asked + requests + 1 <= sent + 1
  BY <1>2 DEF Inv, RequestInv, OwnResync, Ahead
<1>6. Counters'
  <2>1. asked' \in 0 .. MaxRequests + 1
    BY <1>3, <1>5, BridgeLifecycleAssumption DEF FirstResync, Counters
  <2>. QED
    BY <1>3, <2>1 DEF FirstResync, Counters
<1>7. ControlInv'
  BY <1>1, <1>2, <1>3, StepTaken DEF Inv, FirstResync, ControlInv, Ahead, Syncing, Flags
<1>8. ReadyInv'
  BY <1>1, <1>2, StepTaken DEF Inv, FirstResync, ReadyInv, Ahead, PutToken
<1>9. RequestInv'
  <2>1. OwnResync' = 0
    BY <1>2 DEF OwnResync, Ahead
  <2>2. asked' + requests' + OwnResync' <= sent' + 1
    BY <1>3, <1>5, <2>1 DEF FirstResync, Counters
  <2>3. covered' <= asked'
    BY <1>3 DEF Inv, RequestInv, FirstResync, Counters
  <2>. QED
    BY <1>2, <2>2, <2>3 DEF Inv, RequestInv, RequestsKept, FirstResync, PutToken, Ahead
<1>. QED
  BY <1>1, <1>4, <1>6, <1>7, <1>8, <1>9, StepKeeps DEF FirstResync

LEMMA StartServeInv ==
  ASSUME Inv, StartServe PROVE Inv'
<1>. USE DEF pollerVars, gluonVars, serveVars, parentVars
<1>1. Step("serve")
  BY DEF StartServe
<1>2. In(todo, "serve") /\ \A x : In(todo', x) <=> In(todo, x) /\ x # "serve"
  BY <1>1, StepTaken DEF Inv
<1>3. Flags /\ Counters
  BY Types DEF Inv
<1>4. Flags'
  BY <1>3 DEF StartServe, Flags
<1>5. Counters'
  BY <1>3 DEF StartServe, Counters
<1>6. ControlInv'
  BY <1>1, <1>2, <1>3, StepTaken DEF Inv, StartServe, ControlInv, Ahead, Syncing, Flags
<1>7. ReadyInv'
  BY <1>1, <1>2, StepTaken DEF Inv, StartServe, ReadyInv, Ahead
<1>8. RequestInv'
  <2>1. OwnResync' = OwnResync
    BY <1>2 DEF OwnResync, Ahead
  <2>. QED
    BY <1>2, <2>1 DEF Inv, StartServe, RequestInv, RequestsKept, Ahead
<1>. QED
  BY <1>1, <1>4, <1>5, <1>6, <1>7, <1>8, StepKeeps DEF StartServe

LEMMA CloseGluonInv ==
  ASSUME Inv, CloseGluon PROVE Inv'
<1>. USE DEF pollerVars, gluonVars, serveVars, parentVars
<1>1. Step("closeGluon")
  BY DEF CloseGluon
<1>2. In(todo, "closeGluon") /\ \A x : In(todo', x) <=> In(todo, x) /\ x # "closeGluon"
  BY <1>1, StepTaken DEF Inv
<1>3. Flags /\ Counters
  BY Types DEF Inv
<1>4. Flags'
  BY <1>3 DEF CloseGluon, Flags
<1>5. Counters'
  BY <1>3 DEF CloseGluon, Counters
<1>6. ControlInv'
  BY <1>1, <1>2, <1>3, StepTaken DEF Inv, CloseGluon, ControlInv, Ahead, Syncing, Flags
<1>7. ReadyInv'
  BY <1>1, <1>2, StepTaken DEF Inv, CloseGluon, ReadyInv, Ahead
<1>8. RequestInv'
  BY <1>2, RequestsUntouched DEF Inv, CloseGluon
<1>. QED
  BY <1>1, <1>4, <1>5, <1>6, <1>7, <1>8, StepKeeps DEF CloseGluon

LEMMA StopServingInv ==
  ASSUME Inv, StopServing PROVE Inv'
<1>. USE DEF pollerVars, gluonVars, serveVars, parentVars
<1>1. Step("stopServing")
  BY DEF StopServing
<1>2. In(todo, "stopServing") /\ \A x : In(todo', x) <=> In(todo, x) /\ x # "stopServing"
  BY <1>1, StepTaken DEF Inv
<1>3. Flags /\ Counters
  BY Types DEF Inv
<1>4. Flags'
  BY <1>3 DEF StopServing, Flags
<1>5. Counters'
  BY <1>3 DEF StopServing, Counters
<1>6. ControlInv'
  BY <1>1, <1>2, <1>3, StepTaken DEF Inv, StopServing, ControlInv, Ahead, Syncing, Flags
<1>7. ReadyInv'
  BY <1>1, <1>2, StepTaken DEF Inv, StopServing, ReadyInv, Ahead
<1>8. RequestInv'
  BY <1>2, RequestsUntouched DEF Inv, StopServing
<1>. QED
  BY <1>1, <1>4, <1>5, <1>6, <1>7, <1>8, StepKeeps DEF StopServing

LEMMA StopSMTPInv ==
  ASSUME Inv, StopSMTP PROVE Inv'
<1>. USE DEF pollerVars, gluonVars, serveVars, parentVars
<1>1. Step("stopSMTP")
  BY DEF StopSMTP
<1>2. In(todo, "stopSMTP") /\ \A x : In(todo', x) <=> In(todo, x) /\ x # "stopSMTP"
  BY <1>1, StepTaken DEF Inv
<1>3. Flags /\ Counters
  BY Types DEF Inv
<1>4. Flags'
  BY <1>3 DEF StopSMTP, Flags
<1>5. Counters'
  BY <1>3 DEF StopSMTP, Counters
<1>6. ControlInv'
  BY <1>1, <1>2, <1>3, StepTaken DEF Inv, StopSMTP, ControlInv, Ahead, Syncing, Flags
<1>7. ReadyInv'
  BY <1>1, <1>2, StepTaken DEF Inv, StopSMTP, ReadyInv, Ahead
<1>8. RequestInv'
  BY <1>2, RequestsUntouched DEF Inv, StopSMTP
<1>. QED
  BY <1>1, <1>4, <1>5, <1>6, <1>7, <1>8, StepKeeps DEF StopSMTP

LEMMA RunInv == ASSUME Inv, RunStep PROVE Inv'
<1>1. CASE SendReady
  BY <1>1, FailuresInv, ReadySentInv DEF SendReady
<1>. QED
  BY <1>1, SessionInv, StartIMAPInv, FailuresInv, StartSMTPInv, FirstResyncInv,
     StartServeInv, QuietRunInv, CloseGluonInv, StopServingInv, StopSMTPInv
     DEF RunStep

-----------------------------------------------------------------------------
(* The poller, Gluon, the control channel and the parent: Run stays where  *)
(* it is.                                                                  *)

LEMMA StaysKeeps ==
  ASSUME Inv, UNCHANGED todo, Flags', Counters', Sends',
         ControlInv', ReadyInv', RequestInv'
  PROVE  Inv'
<1>1. WellOrdered(todo') /\ todo' \in Seq(Steps)
  BY ProgramIsSeq DEF Inv
<1>2. TypeOK'
  BY <1>1, TypesNext
<1>. QED
  BY <1>1, <1>2 DEF Inv

\* What a step must leave alone for each part to stay.
LEMMA ControlStays ==
  ASSUME Inv, UNCHANGED <<todo, imap, poller, smtp, sends, closed, crashed>>
  PROVE  ControlInv'
BY DEF Inv, ControlInv, Ahead, Syncing

LEMMA ReadyStays ==
  ASSUME Inv, UNCHANGED <<todo, poller, reset, serve, readySent, early>>
  PROVE  ReadyInv'
BY DEF Inv, ReadyInv, Ahead

LEMMA RequestsStay ==
  ASSUME Inv, UNCHANGED <<todo, serve, requests, sent, asked, covered, reset>>
  PROVE  RequestInv'
BY RequestsUntouched DEF Inv

\* Steps that the invariant says nothing about.
LEMMA QuietInv ==
  ASSUME Inv,
         \/ Tick \/ GluonReads \/ ParentReads \/ ParentStops \/ ParentHangsUp
         \/ Signal \/ UNCHANGED vars
  PROVE  Inv'
<1>. USE DEF vars, runVars, pollerVars, gluonVars, serveVars, parentVars
<1>1. Flags /\ Counters /\ Sends
  BY Types DEF Inv
<1>2. /\ UNCHANGED <<todo, imap, poller, smtp, sends, closed, crashed>>
      /\ UNCHANGED <<todo, poller, reset, serve, readySent, early>>
      /\ UNCHANGED <<todo, serve, requests, sent, asked, covered, reset>>
  BY DEF Tick, GluonReads, ParentReads, ParentStops, ParentHangsUp, Signal
<1>3. Flags'
  <2>1. CASE Tick
    BY <1>1, <2>1 DEF Tick, Flags
  <2>2. CASE ParentStops
    BY <1>1, <2>2 DEF ParentStops, Flags
  <2>3. CASE ParentHangsUp
    BY <1>1, <2>3 DEF ParentHangsUp, Flags
  <2>4. CASE Signal
    BY <1>1, <2>4 DEF Signal, Flags
  <2>5. CASE GluonReads \/ ParentReads \/ UNCHANGED vars
    BY <1>1, <2>5 DEF GluonReads, ParentReads, Flags
  <2>. QED
    BY <2>1, <2>2, <2>3, <2>4, <2>5
<1>4. Counters'
  <2>1. CASE GluonReads
    BY <1>1, <2>1, BridgeLifecycleAssumption DEF GluonReads, Counters
  <2>2. CASE ParentReads
    BY <1>1, <2>2, BridgeLifecycleAssumption DEF ParentReads, Counters
  <2>3. CASE ParentHangsUp
    BY <1>1, <2>3, BridgeLifecycleAssumption DEF ParentHangsUp, Counters
  <2>4. CASE Tick \/ ParentStops \/ Signal \/ UNCHANGED vars
    BY <1>1, <2>4 DEF Tick, ParentStops, Signal, Counters
  <2>. QED
    BY <2>1, <2>2, <2>3, <2>4
<1>5. Sends'
  BY <1>1, <1>2 DEF Sends
<1>. QED
  BY <1>2, <1>3, <1>4, <1>5, StaysKeeps, ControlStays, ReadyStays, RequestsStay

LEMMA PollerEndsInv == ASSUME Inv, PollerEnds PROVE Inv'
<1>. USE DEF PollerEnds, runVars, gluonVars, serveVars, parentVars
<1>1. Flags /\ Counters /\ Sends
  BY Types DEF Inv
<1>2. Flags'
  BY <1>1 DEF Flags
<1>3. Counters' /\ Sends'
  BY <1>1 DEF Counters, Sends
<1>4. ControlInv'
  BY DEF Inv, ControlInv, Ahead, Syncing
<1>5. ReadyInv'
  BY DEF Inv, ReadyInv, Ahead
<1>. QED
  BY <1>2, <1>3, <1>4, <1>5, RequestsStay, StaysKeeps

LEMMA SendsAre ==
  ASSUME NEW q \in SendsOf(MaxSends)
  PROVE  q \in Seq({"update", "report"}) /\ Len(q) <= MaxSends
<1>1. PICK k \in 0 .. MaxSends : q \in [1 .. k -> {"update", "report"}]
  BY DEF SendsOf
<1>2. k \in Nat /\ k <= MaxSends
  BY <1>1, BridgeLifecycleAssumption
<1>3. q \in Seq({"update", "report"}) /\ Len(q) = k
  BY <1>1, <1>2
<1>. QED
  BY <1>2, <1>3

\* A sync starts from an idle poller: the channel is open, and what is sent is
\* covered.
LEMMA SyncStartsInv == ASSUME Inv, RequestedSync \/ TimedSync PROVE Inv'
<1>. USE DEF BeginSync, runVars, gluonVars, serveVars, parentVars
<1>1. Flags /\ Counters
  BY Types DEF Inv
<1>2. Flags'
  <2>1. CASE RequestedSync
    <3>1. reset' \in BOOLEAN
      BY <2>1, Zenon DEF RequestedSync
    <3>. QED
      BY <1>1, <2>1, <3>1 DEF RequestedSync, Flags
  <2>2. CASE TimedSync
    <3>1. tick' \in BOOLEAN
      BY <2>2, Zenon DEF TimedSync
    <3>. QED
      BY <1>1, <2>2, <3>1 DEF TimedSync, Flags
  <2>. QED
    BY <2>1, <2>2
<1>3. Counters'
  BY <1>1 DEF RequestedSync, TimedSync, Counters
<1>4. Sends'
  BY SendsAre DEF RequestedSync, TimedSync, Sends
<1>5. ControlInv'
  BY DEF RequestedSync, TimedSync, Inv, ControlInv, Ahead, Syncing
<1>6. ReadyInv'
  BY DEF RequestedSync, TimedSync, Inv, ReadyInv, Ahead
<1>7. RequestInv'
  <2>1. OwnResync' = OwnResync
    BY DEF RequestedSync, TimedSync, OwnResync, Ahead
  <2>2. covered' <= asked' /\ ~(asked' > covered')
    BY <1>1 DEF RequestedSync, TimedSync, Counters
  <2>. QED
    BY <2>1, <2>2 DEF RequestedSync, TimedSync, Inv, RequestInv, RequestsKept, Ahead
<1>. QED
  BY <1>2, <1>3, <1>4, <1>5, <1>6, <1>7, StaysKeeps DEF RequestedSync, TimedSync

LEMMA SendsShrink ==
  ASSUME Sends, sends # <<>>, sends' = Tail(sends) PROVE Sends'
<1>1. /\ Len(sends) \in Nat /\ sends' \in Seq({"update", "report"})
      /\ Len(sends') = Len(sends) - 1
  BY DEF Sends
<1>. QED
  BY <1>1, BridgeLifecycleAssumption DEF Sends

\* A sync runs only while the poller has not ended, so the channel is open.
LEMMA SendsUpdateInv == ASSUME Inv, SyncSendsUpdate PROVE Inv'
<1>. USE DEF runVars, serveVars, parentVars
<1>1. Flags /\ Counters /\ Sends
  BY Types DEF Inv
<1>2. Syncing /\ ~closed
  BY DEF SyncSendsUpdate, Inv, ControlInv, Syncing
<1>3. /\ updates < UpdateBuffer /\ updates' = updates + 1
      /\ sends' = Tail(sends) /\ UNCHANGED crashed
  BY <1>2 DEF SyncSendsUpdate
<1>4. Flags'
  BY <1>1, <1>3 DEF SyncSendsUpdate, Flags
<1>5. Counters'
  BY <1>1, <1>3, BridgeLifecycleAssumption DEF SyncSendsUpdate, Counters
<1>6. Sends'
  BY <1>1, <1>3, SendsShrink DEF SyncSendsUpdate
<1>7. ControlInv'
  BY <1>2, <1>3 DEF SyncSendsUpdate, Inv, ControlInv, Ahead, Syncing
<1>8. ReadyInv' /\ RequestInv'
  BY ReadyStays, RequestsStay DEF SyncSendsUpdate
<1>. QED
  BY <1>4, <1>5, <1>6, <1>7, <1>8, StaysKeeps DEF SyncSendsUpdate

LEMMA ReportsInv == ASSUME Inv, SyncReports PROVE Inv'
<1>. USE DEF runVars, serveVars, gluonVars
<1>1. Flags /\ Counters /\ Sends
  BY Types DEF Inv
<1>2. ~early' /\ early' = early
  <2>1. ~(poller = "requested" /\ ~readySent) /\ ~early
    BY DEF SyncReports, Inv, ReadyInv
  <2>. QED
    BY <1>1, <2>1, Zenon DEF SyncReports, Flags
<1>3. Flags'
  BY <1>1, <1>2 DEF SyncReports, Flags
<1>4. Counters'
  BY <1>1, WrittenFits DEF SyncReports, Counters
<1>5. Sends'
  BY <1>1, SendsShrink DEF SyncReports
<1>6. ControlInv'
  BY DEF SyncReports, Inv, ControlInv, Ahead, Syncing
<1>7. ReadyInv' /\ RequestInv'
  BY <1>2, ReadyStays, RequestsStay DEF SyncReports
<1>. QED
  BY <1>3, <1>4, <1>5, <1>6, <1>7, StaysKeeps DEF SyncReports

LEMMA SyncEndsInv == ASSUME Inv, SyncEnds PROVE Inv'
<1>. USE DEF SyncEnds, runVars, gluonVars, serveVars, parentVars
<1>1. Flags /\ Counters /\ Sends
  BY Types DEF Inv
<1>2. Flags'
  <2>1. tick' \in BOOLEAN
    BY Zenon
  <2>. QED
    BY <1>1, <2>1 DEF Flags
<1>3. Counters' /\ Sends'
  BY <1>1 DEF Counters, Sends
<1>4. ControlInv'
  BY DEF Inv, ControlInv, Ahead, Syncing
<1>5. ReadyInv'
  BY DEF Inv, ReadyInv, Ahead
<1>. QED
  BY <1>2, <1>3, <1>4, <1>5, RequestsStay, StaysKeeps

\* Serve takes up a request: it is either about to put a token, or finds the
\* server taken down, and answers no sync.
LEMMA ServeReadsInv == ASSUME Inv, ServeReads PROVE Inv'
<1>. USE DEF ServeReads, runVars, pollerVars, gluonVars, parentVars
<1>1. Flags /\ Counters /\ Sends
  BY Types DEF Inv
<1>2. Flags'
  BY <1>1 DEF Flags
<1>3. PICK own \in Nat : OwnResync = own /\ OwnResync' = own
  BY DEF OwnResync, Ahead
<1>4. asked + requests + own <= sent + 1
  BY <1>3 DEF Inv, RequestInv
<1>5. /\ asked' = asked \/ asked' = asked + 1
      /\ requests' = requests - 1 /\ sent' = sent
  OBVIOUS
<1>6. asked' \in 0 .. MaxRequests + 1 /\ requests' \in 0 .. MaxRequests
  BY <1>1, <1>4, <1>5, BridgeLifecycleAssumption DEF Counters
<1>7. Counters' /\ Sends'
  BY <1>1, <1>6 DEF Counters, Sends
<1>8. RequestInv'
  <2>1. asked' + requests' + own <= sent' + 1
    BY <1>1, <1>4, <1>5, BridgeLifecycleAssumption DEF Counters
  <2>2. covered' <= asked'
    BY <1>1, <1>5 DEF Inv, RequestInv, Counters
  <2>3. requests' <= sent'
    BY <1>1, <1>5 DEF Inv, RequestInv, Counters
  <2>4. RequestsKept'
    BY DEF Inv, RequestInv, RequestsKept
  <2>. QED
    BY <1>3, <2>1, <2>2, <2>3, <2>4 DEF Inv, RequestInv, Ahead
<1>9. ReadyInv'
  BY DEF Inv, ReadyInv, Ahead
<1>. QED
  BY <1>2, <1>7, <1>8, <1>9, ControlStays, StaysKeeps

LEMMA ServeCallsInv == ASSUME Inv, ServeCalls PROVE Inv'
<1>. USE DEF ServeCalls, PutToken, runVars, gluonVars, parentVars
<1>1. Flags /\ Counters /\ Sends
  BY Types DEF Inv
<1>2. Flags'
  BY <1>1 DEF Flags
<1>3. Counters' /\ Sends'
  BY <1>1 DEF Counters, Sends
<1>4. ReadyInv'
  BY DEF Inv, ReadyInv, Ahead
<1>5. RequestInv'
  <2>1. OwnResync' = OwnResync
    BY DEF OwnResync, Ahead
  <2>. QED
    BY <2>1 DEF Inv, RequestInv, RequestsKept, Ahead
<1>. QED
  BY <1>2, <1>3, <1>4, <1>5, ControlStays, StaysKeeps

LEMMA ServeEndsInv == ASSUME Inv, ServeEnds PROVE Inv'
<1>. USE DEF ServeEnds, runVars, pollerVars, gluonVars, parentVars
<1>1. Flags /\ Counters /\ Sends
  BY Types DEF Inv
<1>2. Flags'
  BY <1>1 DEF Flags
<1>3. Counters' /\ Sends'
  BY <1>1 DEF Counters, Sends
<1>4. ReadyInv'
  BY DEF Inv, ReadyInv, Ahead
<1>5. RequestInv'
  <2>1. OwnResync' = OwnResync
    BY DEF OwnResync, Ahead
  <2>. QED
    BY <2>1 DEF Inv, RequestInv, RequestsKept, Ahead
<1>. QED
  BY <1>2, <1>3, <1>4, <1>5, ControlStays, StaysKeeps

LEMMA ParentAsksInv == ASSUME Inv, ParentAsks PROVE Inv'
<1>. USE DEF ParentAsks, runVars, pollerVars, gluonVars, parentVars
<1>1. Flags /\ Counters /\ Sends
  BY Types DEF Inv
<1>2. Flags'
  BY <1>1 DEF Flags
<1>3. OwnResync' = OwnResync /\ OwnResync \in Nat
  BY DEF OwnResync, Ahead
<1>4. asked + requests + OwnResync <= sent + 1
  BY DEF Inv, RequestInv
<1>5. Counters'
  <2>1. sent' \in 0 .. MaxRequests
    BY <1>1, BridgeLifecycleAssumption DEF Counters
  <2>2. requests' \in 0 .. MaxRequests /\ requests' <= sent'
    BY <1>1, BridgeLifecycleAssumption DEF Inv, RequestInv, Counters
  <2>. QED
    BY <1>1, <2>1, <2>2 DEF Counters
<1>6. Sends'
  BY <1>1 DEF Sends
<1>7. RequestInv'
  <2>1. asked' + requests' + OwnResync' <= sent' + 1
    BY <1>1, <1>3, <1>4 DEF Counters
  <2>2. requests' <= sent'
    BY <1>1 DEF Inv, RequestInv, Counters
  <2>. QED
    BY <2>1, <2>2 DEF Inv, RequestInv, RequestsKept, Ahead
<1>. QED
  BY <1>2, <1>5, <1>6, <1>7, ControlStays, ReadyStays, StaysKeeps

-----------------------------------------------------------------------------
(* The theorems.                                                           *)

LEMMA NextKeeps == Inv /\ [Next]_vars => Inv'
<1>. SUFFICES ASSUME Inv, [Next]_vars PROVE Inv'
  OBVIOUS
<1>1. CASE RunStep
  BY <1>1, RunInv
<1>2. CASE SyncGoesOn
  BY <1>2, SendsUpdateInv, ReportsInv, SyncEndsInv DEF SyncGoesOn
<1>3. CASE RequestedSync \/ TimedSync \/ PollerEnds
  BY <1>3, SyncStartsInv, PollerEndsInv
<1>4. CASE ServeReads \/ ServeCalls \/ ServeEnds \/ ParentAsks
  BY <1>4, ServeReadsInv, ServeCallsInv, ServeEndsInv, ParentAsksInv
<1>5. CASE \/ Tick \/ GluonReads \/ ParentReads \/ ParentStops \/ ParentHangsUp
           \/ Signal \/ Exited \/ UNCHANGED vars
  BY <1>5, QuietInv DEF Exited
<1>. QED
  BY <1>1, <1>2, <1>3, <1>4, <1>5 DEF Next

LEMMA Invariant == Spec => []Inv
BY InitKeeps, NextKeeps, PTL DEF Spec, SafeSpec

\* Run only takes steps of its program, and the channel, the socket and the
\* counts of requests stay within their sizes (daemon.go:35-113, poll.go:21-80).
THEOREM BridgeLifecycleTypeOK == Spec => []TypeOK
<1>1. Inv => TypeOK
  BY DEF Inv
<1>. QED
  BY Invariant, <1>1, PTL

\* No sync sends on the updates channel after Gluon's connector has closed it,
\* wherever a sync is when Run starts to close and whichever path Run takes:
\* the poller's cycle has ended by then (server.go:247-254, poll.go:76).
THEOREM NoSendOnClosedChannel == Spec => []NeverPanics
<1>1. Inv => NeverPanics
  BY DEF Inv, ControlInv, NeverPanics
<1>. QED
  BY Invariant, <1>1, PTL

\* A resync asked for by Run or by the parent is not lost: the token for it is
\* there, or about to be put, until a sync starts after it (poll.go:35-43).
THEOREM NoRequestLost == Spec => []RequestsKept
<1>1. Inv => RequestsKept
  BY DEF Inv, RequestInv
<1>. QED
  BY Invariant, <1>1, PTL

\* The progress of a requested sync reaches the parent after the bridge's
\* readiness, however the goroutines interleave (daemon.go:91-93).
THEOREM ProgressAfterReady == Spec => []ReadyFirst
<1>1. Inv => ReadyFirst
  BY DEF Inv, ReadyInv, ReadyFirst
<1>. QED
  BY Invariant, <1>1, PTL

\* Where Run returns, by whichever of its paths, what it started has stopped:
\* both services, the poller and the channel to Gluon (daemon.go:33-34).
THEOREM RunStopsWhatItStarts == Spec => []NothingLeftRunning
<1>1. ASSUME Inv PROVE NothingLeftRunning
  <2>. SUFFICES ASSUME todo = <<>>
                PROVE  /\ imap # "serving" /\ smtp # "serving"
                       /\ poller \in {"none", "done"}
                       /\ imap = "closed" => closed
    BY DEF NothingLeftRunning
  <2>1. ~Ahead("stopServing") /\ ~Ahead("stopSMTP")
    BY DEF Ahead, In
  <2>. QED
    BY <1>1, <2>1, Types DEF Inv, ControlInv, Flags
<1>. QED
  BY Invariant, <1>1, PTL

=============================================================================
