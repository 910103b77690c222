------------------------ MODULE AttachmentStoreProofs ------------------------
(***************************************************************************)
(* Theorems about AttachmentStore, for any messages, attachments, sessions *)
(* and failures.                                                           *)
(***************************************************************************)
EXTENDS AttachmentStore, TLAPS

LEMMA InitTypeOK == Init => TypeOK
BY AttachmentStoreAssumption DEF Init, TypeOK, Place

LEMMA GetTypeOK == ASSUME TypeOK, NEW r \in Reader, Get(r) PROVE TypeOK'
<1>. USE AttachmentStoreAssumption
<1>1. ASSUME NEW m \in Message, Read(r, m) PROVE TypeOK'
  BY <1>1 DEF Read, TypeOK, Goes, Place, innerVars
<1>2. CASE Check(r)
  BY <1>2 DEF Check, TypeOK, Goes, Place, innerVars
<1>3. CASE Thread(r)
  BY <1>3 DEF Thread, TypeOK, Goes, Place, innerVars
<1>4. CASE ResolveFails(r)
  BY <1>4 DEF ResolveFails, AfterFailedResolve, Fails, TypeOK, Goes, Place,
              innerVars
<1>5. CASE Download(r)
  BY <1>5 DEF Download, TypeOK, Place, innerVars
<1>6. CASE DownloadFails(r)
  BY <1>6 DEF DownloadFails, Fails, TypeOK, Place, innerVars
<1>7. CASE Build(r)
  BY <1>7 DEF Build, TypeOK, Goes, Place, innerVars
<1>8. CASE Store(r)
  BY <1>8 DEF Store, Put, TypeOK, Goes, Place
<1>9. CASE StoreFails(r)
  BY <1>9 DEF StoreFails, Fails, TypeOK, Goes, Place, innerVars
<1>10. CASE Mark(r)
  BY <1>10 DEF Mark, TypeOK, Goes, Place, innerVars
<1>11. CASE Return(r)
  BY <1>11 DEF Return, TypeOK, Goes, Place, innerVars
<1>. QED
  BY <1>1, <1>2, <1>3, <1>4, <1>5, <1>6, <1>7, <1>8, <1>9, <1>10, <1>11 DEF Get

LEMMA NextTypeOK == TypeOK /\ [Next]_vars => TypeOK'
<1>. SUFFICES ASSUME TypeOK, [Next]_vars PROVE TypeOK'
  OBVIOUS
<1>1. ASSUME NEW m \in Message, Gluon(m) PROVE TypeOK'
  <2>1. CASE Set(m)
    BY <2>1, AttachmentStoreAssumption
    DEF Set, Put, Whole, TypeOK, getVars
  <2>2. CASE Forget(m)
    BY <2>2 DEF Forget, TypeOK, getVars, innerVars
  <2>3. CASE Remove(m)
    BY <2>3 DEF Remove, TypeOK, getVars
  <2>. QED
    BY <1>1, <2>1, <2>2, <2>3 DEF Gluon
<1>2. CASE UNCHANGED vars
  BY <1>2 DEF vars, innerVars, getVars, TypeOK
<1>. QED
  BY <1>1, <1>2, GetTypeOK DEF Next, Ended

(***************************************************************************)
(* A message marked complete is stored complete.                           *)
(***************************************************************************)

\* What the store holds: nothing beyond a message's attachments, and all of them
\* where a client appended the message itself.
StoredInv ==
  \A m \in files : /\ stored[m] \subseteq Whole(m)
                   /\ m \in NotOurs => stored[m] = Whole(m)
                   /\ life[m] # "unknown"

\* What a Get holds at each place.
ReaderInv(r) ==
  at[r] # "idle" =>
    /\ life[msg[r]] # "unknown"
    /\ literal[r] \subseteq Whole(msg[r])
    /\ msg[r] \in NotOurs => /\ literal[r] = Whole(msg[r])
                             /\ at[r] \in {"check", "mark", "returned"}
    /\ at[r] = "download" => blobs[r] \cup left[r] \subseteq Whole(msg[r])
    /\ at[r] = "download" /\ msg[r] \notin spoiled
         => blobs[r] \cup left[r] = Whole(msg[r])
    /\ at[r] \in {"store", "mark"} /\ msg[r] \notin spoiled
         => literal[r] = Whole(msg[r])
    /\ at[r] = "mark" /\ msg[r] \notin spoiled /\ life[msg[r]] = "kept"
         => stored[msg[r]] = Whole(msg[r])
    /\ again[r] /\ msg[r] \notin spoiled
         => literal[r] = Whole(msg[r]) \/ life[msg[r]] # "kept"

\* A message Gluon keeps has a literal, so that a marked one can be read.
KeptInv == \A m \in Message : life[m] = "kept" => m \in files

CompleteInv ==
  /\ StoredInv /\ KeptInv /\ KeptWhole
  /\ \A r \in Reader : ReaderInv(r)

\* A step of one session leaves the local variables of the others alone.
Others(r) ==
  \A q \in Reader \ {r} :
    /\ at'[q] = at[q] /\ msg'[q] = msg[q] /\ literal'[q] = literal[q]
    /\ left'[q] = left[q] /\ blobs'[q] = blobs[q] /\ again'[q] = again[q]

LEMMA GetOthers == ASSUME TypeOK, NEW r \in Reader, Get(r) PROVE Others(r)
BY DEF TypeOK, Get, Read, Check, Thread, ResolveFails, Download, DownloadFails,
       Build, Store, StoreFails, Mark, Return, Goes, Others

\* Steps that change neither what is stored nor what is marked.
LEMMA StoreUntouched ==
  ASSUME CompleteInv, NEW r \in Reader, Others(r), ReaderInv(r)',
         UNCHANGED <<innerVars, life, resolved>>, spoiled \subseteq spoiled'
  PROVE  CompleteInv'
<1>1. StoredInv' /\ KeptInv' /\ KeptWhole'
  BY DEF CompleteInv, StoredInv, KeptInv, KeptWhole, Whole, innerVars
<1>2. ASSUME NEW q \in Reader, q # r PROVE ReaderInv(q)'
  BY <1>2 DEF CompleteInv, ReaderInv, Others, Whole, innerVars
<1>. QED
  BY <1>1, <1>2 DEF CompleteInv

LEMMA GetComplete ==
  ASSUME TypeOK, CompleteInv, NEW r \in Reader, Get(r)
  PROVE  CompleteInv'
<1>. USE AttachmentStoreAssumption
<1>a. Others(r)
  BY GetOthers
<1>b. ReaderInv(r)
  BY DEF CompleteInv
<1>1. ASSUME NEW m \in Message, Read(r, m) PROVE CompleteInv'
  <2>1. ReaderInv(r)'
    <3>1. /\ at'[r] = "check" /\ msg'[r] = m /\ literal'[r] = stored[m]
          /\ again'[r] = (m \in resolved) /\ m \in files
          /\ UNCHANGED <<stored, resolved, life, spoiled>>
      BY <1>1 DEF Read, Goes, TypeOK, innerVars
    <3>2. /\ stored[m] \subseteq Whole(m)
          /\ m \in NotOurs => stored[m] = Whole(m)
          /\ life[m] # "unknown"
      BY <3>1 DEF CompleteInv, StoredInv
    <3>3. m \in resolved \ spoiled /\ life[m] = "kept" => stored[m] = Whole(m)
      BY DEF CompleteInv, KeptWhole
    <3>. QED
      BY <3>1, <3>2, <3>3 DEF ReaderInv, Whole
  <2>. QED
    BY <1>1, <1>a, <2>1, StoreUntouched DEF Read
<1>2. CASE Check(r)
  <2>1. ReaderInv(r)'
    BY <1>2, <1>b DEF Check, Goes, TypeOK, CompleteInv, ReaderInv, Whole,
                      StoredInv, KeptInv, innerVars
  <2>. QED
    BY <1>2, <1>a, <2>1, StoreUntouched DEF Check
<1>3. CASE Thread(r)
  <2>1. ReaderInv(r)'
    BY <1>3, <1>b DEF Thread, Goes, TypeOK, ReaderInv, Whole
  <2>. QED
    BY <1>3, <1>a, <2>1, StoreUntouched DEF Thread
<1>4. CASE ResolveFails(r)
  <2>1. ReaderInv(r)'
    BY <1>4, <1>b
    DEF ResolveFails, AfterFailedResolve, Goes, TypeOK, ReaderInv, Whole
  <2>. QED
    BY <1>4, <1>a, <2>1, StoreUntouched DEF ResolveFails
<1>5. CASE Download(r)
  <2>1. ReaderInv(r)'
    BY <1>5, <1>b DEF Download, TypeOK, ReaderInv, Whole
  <2>. QED
    BY <1>5, <1>a, <2>1, StoreUntouched DEF Download
<1>6. CASE DownloadFails(r)
  <2>1. ReaderInv(r)'
    BY <1>6, <1>b DEF DownloadFails, TypeOK, ReaderInv, Whole
  <2>. QED
    BY <1>6, <1>a, <2>1, StoreUntouched DEF DownloadFails
<1>7. CASE Build(r)
  <2>1. ReaderInv(r)'
    BY <1>7, <1>b DEF Build, Goes, TypeOK, ReaderInv, Whole
  <2>. QED
    BY <1>7, <1>a, <2>1, StoreUntouched DEF Build
<1>8. CASE Store(r)
  <2>. DEFINE m == msg[r]
  <2>1. /\ m \in Message /\ at[r] = "store" /\ at'[r] = "mark"
        /\ files' = files \cup {m}
        /\ stored' = [stored EXCEPT ![m] = literal[r]]
        /\ UNCHANGED <<life, resolved, msg, literal, left, blobs, again,
                       spoiled>>
    BY <1>8 DEF Store, Put, Goes, TypeOK
  <2>2. /\ literal[r] \subseteq Whole(m) /\ m \notin NotOurs
        /\ m \notin spoiled => literal[r] = Whole(m)
        /\ life[m] # "unknown"
    BY <1>b, <2>1 DEF ReaderInv
  <2>3. /\ \A n \in Message \ {m} : stored'[n] = stored[n]
        /\ stored'[m] = literal[r]
    BY <2>1 DEF TypeOK
  <2>. HIDE DEF m
  <2>4. StoredInv'
    BY <2>1, <2>2, <2>3 DEF TypeOK, CompleteInv, StoredInv, Whole
  <2>5. KeptInv'
    BY <2>1 DEF CompleteInv, KeptInv
  <2>6. KeptWhole'
    BY <2>1, <2>2, <2>3 DEF TypeOK, CompleteInv, KeptWhole, Whole
  <2>7. ReaderInv(r)'
    BY <1>b, <2>1, <2>2, <2>3 DEF ReaderInv, Whole, m
  <2>8. ASSUME NEW q \in Reader, q # r PROVE ReaderInv(q)'
    BY <1>a, <2>1, <2>2, <2>3, <2>8
    DEF TypeOK, CompleteInv, ReaderInv, Others, Whole
  <2>. QED
    BY <2>4, <2>5, <2>6, <2>7, <2>8 DEF CompleteInv
<1>9. CASE StoreFails(r)
  <2>1. ReaderInv(r)'
    BY <1>9, <1>b DEF StoreFails, Goes, TypeOK, ReaderInv, Whole
  <2>. QED
    BY <1>9, <1>a, <2>1, StoreUntouched DEF StoreFails
<1>10. CASE Mark(r)
  <2>1. KeptWhole'
    BY <1>10, <1>b
    DEF Mark, Goes, TypeOK, CompleteInv, KeptWhole, ReaderInv, innerVars, Whole
  <2>2. StoredInv' /\ KeptInv'
    BY <1>10 DEF Mark, CompleteInv, StoredInv, KeptInv, innerVars, Whole
  <2>3. ReaderInv(r)'
    BY <1>10, <1>b DEF Mark, Goes, TypeOK, ReaderInv, innerVars, Whole
  <2>4. ASSUME NEW q \in Reader, q # r PROVE ReaderInv(q)'
    BY <1>10, <1>a, <2>4
    DEF Mark, CompleteInv, ReaderInv, Others, innerVars, Whole
  <2>. QED
    BY <2>1, <2>2, <2>3, <2>4 DEF CompleteInv
<1>11. CASE Return(r)
  <2>1. ReaderInv(r)'
    BY <1>11 DEF Return, Goes, TypeOK, ReaderInv
  <2>. QED
    BY <1>11, <1>a, <2>1, StoreUntouched DEF Return
<1>. QED
  BY <1>1, <1>2, <1>3, <1>4, <1>5, <1>6, <1>7, <1>8, <1>9, <1>10, <1>11 DEF Get

LEMMA GluonComplete ==
  ASSUME TypeOK, CompleteInv, NEW m \in Message, Gluon(m)
  PROVE  CompleteInv'
<1>a. ASSUME NEW q \in Reader, at[q] # "idle" PROVE msg[q] \in Message
  BY <1>a DEF TypeOK
<1>1. CASE Set(m)
  <2>1. /\ life[m] = "unknown" /\ files' = files \cup {m}
        /\ resolved' = resolved \ {m}
        /\ stored' = [stored EXCEPT ![m] = IF m \in NotOurs THEN Whole(m)
                                                             ELSE {}]
        /\ life' = [life EXCEPT ![m] = "kept"]
        /\ UNCHANGED <<getVars, spoiled>>
    BY <1>1 DEF Set, Put
  <2>2. /\ \A n \in Message \ {m} : stored'[n] = stored[n] /\ life'[n] = life[n]
        /\ stored'[m] = IF m \in NotOurs THEN Whole(m) ELSE {}
        /\ life'[m] = "kept"
    BY <2>1 DEF TypeOK
  <2>3. StoredInv'
    BY <2>1, <2>2 DEF TypeOK, CompleteInv, StoredInv, Whole
  <2>4. KeptInv' /\ KeptWhole'
    BY <2>1, <2>2 DEF TypeOK, CompleteInv, KeptInv, KeptWhole, Whole
  <2>5. ASSUME NEW q \in Reader PROVE ReaderInv(q)'
    <3>1. at[q] # "idle" => msg[q] \in Message \ {m}
      BY <1>a, <2>1 DEF CompleteInv, ReaderInv
    <3>. QED
      BY <2>1, <2>2, <3>1 DEF CompleteInv, ReaderInv, Whole, getVars
  <2>. QED
    BY <2>3, <2>4, <2>5 DEF CompleteInv
<1>2. CASE Forget(m)
  <2>1. /\ \A n \in Message \ {m} : life'[n] = life[n]
        /\ life'[m] = "deleting"
        /\ resolved' = resolved \ {m}
        /\ UNCHANGED <<innerVars, getVars, spoiled>>
    BY <1>2 DEF Forget, TypeOK
  <2>2. StoredInv' /\ KeptInv' /\ KeptWhole'
    BY <2>1
    DEF TypeOK, CompleteInv, StoredInv, KeptInv, KeptWhole, Whole, innerVars
  <2>3. ASSUME NEW q \in Reader PROVE ReaderInv(q)'
    BY <1>a, <2>1 DEF CompleteInv, ReaderInv, Whole, getVars, innerVars
  <2>. QED
    BY <2>2, <2>3 DEF CompleteInv
<1>3. CASE Remove(m)
  <2>1. /\ \A n \in Message \ {m} : life'[n] = life[n] /\ stored'[n] = stored[n]
        /\ life'[m] = "deleted"
        /\ files' = files \ {m}
        /\ UNCHANGED <<resolved, getVars, spoiled>>
    BY <1>3 DEF Remove, TypeOK
  <2>2. StoredInv' /\ KeptInv' /\ KeptWhole'
    BY <2>1 DEF TypeOK, CompleteInv, StoredInv, KeptInv, KeptWhole, Whole
  <2>3. ASSUME NEW q \in Reader PROVE ReaderInv(q)'
    BY <1>a, <2>1 DEF CompleteInv, ReaderInv, Whole, getVars
  <2>. QED
    BY <2>2, <2>3 DEF CompleteInv
<1>. QED
  BY <1>1, <1>2, <1>3 DEF Gluon

LEMMA InitComplete == Init => CompleteInv
BY DEF Init, CompleteInv, StoredInv, KeptInv, KeptWhole, ReaderInv

LEMMA NextComplete == TypeOK /\ CompleteInv /\ [Next]_vars => CompleteInv'
<1>. SUFFICES ASSUME TypeOK, CompleteInv, [Next]_vars PROVE CompleteInv'
  OBVIOUS
<1>1. CASE UNCHANGED vars
  BY <1>1 DEF vars, innerVars, getVars, CompleteInv, StoredInv, KeptInv,
              KeptWhole, ReaderInv, Whole
<1>. QED
  BY <1>1, GetComplete, GluonComplete DEF Next, Ended

\* A message marked complete is stored complete unless one of its attachments
\* failed, for any number of sessions that open it at once (store.go:79-84).
THEOREM MarkedMessagesAreWhole == Spec => []KeptWhole
<1>1. CompleteInv => KeptWhole
  BY DEF CompleteInv
<1>. QED
  BY <1>1, InitTypeOK, NextTypeOK, InitComplete, NextComplete, PTL DEF Spec

\* A message that was marked complete when a client opened it is served whole
\* (store.go:57-59).
THEOREM OpenedAgain == Spec => []OpenedAgainIsWhole
<1>1. CompleteInv => OpenedAgainIsWhole
  BY DEF CompleteInv, ReaderInv, OpenedAgainIsWhole
<1>. QED
  BY <1>1, InitTypeOK, NextTypeOK, InitComplete, NextComplete, PTL DEF Spec

=============================================================================
