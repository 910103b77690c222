------------------------- MODULE LocalSecretsProofs -------------------------
(***************************************************************************)
(* The bridge's own secrets over the store, for any number of starts,      *)
(* failures, crashes and resets: a start none of whose calls failed has    *)
(* TLS, the certificate that was trusted is kept, and Gluon's files are    *)
(* opened with the passphrase they were written with.                      *)
(***************************************************************************)
EXTENDS LocalSecrets, CredentialStoreProofs

-----------------------------------------------------------------------------
(* The inductive invariant.                                                *)

\* Every generation is that of a start.
StartsInv ==
  /\ starts \in Nat /\ starts <= MaxStarts
  /\ tls \in Nat /\ tls <= starts /\ passphrase \in Nat /\ passphrase <= starts
  /\ trusted \in Nat /\ trusted <= starts /\ cache \in Nat /\ cache <= starts
  /\ \A n \in expired : n \in Nat \ {0} /\ n <= starts

FlagsInv ==
  /\ failed \in BOOLEAN /\ cut \in BOOLEAN
  /\ phase \in {"off", "tls", "certificate", "private key", "passphrase",
                "new passphrase", "up", "reset"}

\* Both halves of the pair that start n generated are stored.
Pair(n) ==
  /\ chain[TLSCertificate] = <<TLSCertificate, n>>
  /\ chain[TLSPrivateKey] = <<TLSPrivateKey, n>>

\* This start's value is being stored under k, or the call returned.
Setting(k) ==
  /\ op = Idle /\ done.ok => chain[k] = <<k, starts>>
  /\ op # Idle => op.kind = "set" /\ op.keys = {k} /\ op.value = <<k, starts>>

CallInv ==
  /\ phase \notin {"off", "reset"} => starts # 0
  /\ phase \in {"off", "tls", "passphrase", "up"} => op = Idle
  /\ phase = "certificate" => Setting(TLSCertificate)
  /\ phase = "private key" =>
       /\ Setting(TLSPrivateKey)
       /\ chain[TLSCertificate] = <<TLSCertificate, starts>>
  /\ phase = "new passphrase" => Setting(StoragePassphrase)
  /\ phase = "reset" => op # Idle /\ op.kind = "reset"

\* What is stored was generated by a start, for its key.
FormInv ==
  \A k \in Key : chain[k] # Absent =>
    \E n \in Nat \ {0} : n <= starts /\ chain[k] = <<k, n>>

\* The pair that was trusted is stored, and so is the one in use.
PairInv ==
  /\ trusted # 0 /\ trusted \notin expired => Pair(trusted)
  /\ phase \in {"certificate", "private key"} => trusted \in expired \cup {0}
  /\ phase \in {"tls", "certificate", "private key"} => tls = 0
  /\ phase = "reset" => trusted = 0
  /\ phase \in {"passphrase", "new passphrase", "up"} =>
       /\ ~failed => tls # 0
       /\ tls # 0 => Pair(tls)
       /\ tls # 0 => trusted \in expired \cup {0, tls}

\* The passphrase of Gluon's files is stored as long as they are there.
CacheInv ==
  /\ cache # 0 /\ ~cut /\ phase # "reset" =>
       chain[StoragePassphrase] = <<StoragePassphrase, cache>>
  /\ phase = "new passphrase" /\ ~cut => cache = 0
  /\ phase = "up" => passphrase # 0 /\ (~cut => cache = passphrase)
  /\ phase = "reset" /\ cache # 0 /\ ~op.failed =>
       Occurs(Do("rmDir", Absent), op.todo)

SecretsInv ==
  Inv /\ StartsInv /\ FlagsInv /\ CallInv /\ FormInv /\ PairInv /\ CacheInv

-----------------------------------------------------------------------------
(* What the store's calls do here.                                         *)

LEMMA Constants ==
  /\ MaxStarts \in Nat /\ Large = {}
  /\ \A k \in Key, n \in 1 .. MaxStarts : <<k, n>> \in Value
  BY LocalSecretsAssumption

LEMMA Names ==
  /\ TLSCertificate \in Key /\ TLSPrivateKey \in Key /\ StoragePassphrase \in Key
  /\ TLSCertificate # TLSPrivateKey /\ TLSCertificate # StoragePassphrase
  /\ TLSPrivateKey # StoragePassphrase
  BY LocalSecretsAssumption
  DEF TLSCertificate, TLSPrivateKey, StoragePassphrase

\* Every secret is small: it is in the keychain or nowhere.
LEMMA InKeychain ==
  ASSUME TypeOK, NEW k \in Key
  PROVE  Get(k) = chain[k] /\ disk[k] = Absent
<1>1. File = {}
  BY Constants DEF File
<1>2. disk[k] = Absent
  BY <1>1 DEF TypeOK
<1>. QED
  BY <1>2 DEF Get, Opened

\* The value the present start makes for a key.
LEMMA Makes ==
  ASSUME StartsInv, starts # 0, NEW k \in Key
  PROVE  <<k, starts>> \in Value
<1>1. starts \in 1 .. MaxStarts
  BY Constants DEF StartsInv
<1>. QED
  BY <1>1, Constants

LEMMA SetCalls ==
  ASSUME SecretsInv, NEW k \in Key, starts # 0, Set(k, <<k, starts>>)
  PROVE  /\ Inv' /\ op = Idle /\ op' # Idle
         /\ op'.kind = "set" /\ op'.keys = {k} /\ op'.value = <<k, starts>>
         /\ UNCHANGED <<chain, done>>
<1>. DEFINE v == <<k, starts>>
            p == SetSteps(k, v)
            new == [kind |-> "set", keys |-> {k}, value |-> v, todo |-> p,
                    failed |-> FALSE]
<1>1. v \in Value
  BY Makes DEF SecretsInv
<1>2. Inv'
  BY <1>1, SetStartsInv DEF SecretsInv
<1>3. op = Idle /\ op' = new /\ UNCHANGED <<chain, done>>
  BY DEF Set, Starts, storeVars
<1>4. p \in Seq(StepOf)
  BY SetStepsIs
<1>. HIDE DEF p, v
<1>5. new \in Op
  BY <1>1, <1>4 DEF Op
<1>6. new # Idle
  BY <1>5, NothingAssumption
<1>. QED
  BY <1>2, <1>3, <1>6 DEF v

LEMMA ReadFailsCalls ==
  ASSUME SecretsInv, ReadFails
  PROVE  Inv' /\ UNCHANGED <<chain, op, done>> /\ failed' = TRUE
<1>1. /\ UNCHANGED <<chain, dek, disk, index, op, done, visible, interrupted,
                     resealing>>
      /\ used.failures < MaxFailures
      /\ used' = [used EXCEPT !.failures = @ + 1] /\ failed' = TRUE
  BY DEF ReadFails, storeVars, historyVars
<1>2. Inv
  BY DEF SecretsInv
<1>3. used'.sets = used.sets /\ TypeOK'
  BY <1>1, <1>2, CredentialStoreAssumption DEF Inv, TypeOK
<1>4. ReadInv' /\ IndexInv'
  BY <1>1, <1>2 DEF Inv, ReadInv, Gone, IndexInv, Stored
<1>5. SetInv'
  <2>1. ASSUME NEW k \in Key, SetOp(k) PROVE SetOp(k)'
    BY <1>1, <1>3, <2>1 DEF SetOp, SmallDone, LargeDone, Taken
  <2>. QED
    BY <1>1, <1>2, <2>1 DEF Inv, SetInv
<1>6. WipeInv'
  BY <1>1, <1>2 DEF Inv, WipeInv, WipeStep, Occurs
<1>. QED
  BY <1>1, <1>3, <1>4, <1>5, <1>6 DEF Inv

\* The flags are Booleans and the phase is one of the program's.
LEMMA Flags ==
  ASSUME FlagsInv, UNCHANGED <<cut, failed>>,
         phase' \in {"off", "tls", "certificate", "private key", "passphrase",
                    "new passphrase", "up", "reset"}
  PROVE  FlagsInv'
  BY Zenon DEF FlagsInv

LEMMA NothingCalled ==
  ASSUME SecretsInv, UNCHANGED vars
  PROVE  Inv' /\ UNCHANGED <<chain, op, done>>
  BY StutterInv DEF SecretsInv, vars, storeVars

-----------------------------------------------------------------------------
(* A start.                                                                *)

LEMMA StartsFromNothing == SecretsInit => SecretsInv
<1>. SUFFICES ASSUME SecretsInit PROVE SecretsInv
  OBVIOUS
<1>1. Inv
  BY InitInv DEF SecretsInit
<1>2. StartsInv
  BY Constants DEF SecretsInit, StartsInv
<1>3. FlagsInv
  BY DEF SecretsInit, FlagsInv
<1>. QED
  BY <1>1, <1>2, <1>3
  DEF SecretsInit, SecretsInv, CallInv, FormInv, PairInv, CacheInv, Init

LEMMA StartKeeps == ASSUME SecretsInv, Start PROVE SecretsInv'
<1>1. Inv' /\ UNCHANGED <<chain, op, done>>
  BY NothingCalled DEF Start
<1>2. StartsInv /\ MaxStarts \in Nat
  BY Constants DEF SecretsInv
<1>3. StartsInv'
  BY <1>1, <1>2 DEF Start, StartsInv
<1>4. FormInv'
  BY <1>1, <1>2 DEF Start, StartsInv, SecretsInv, FormInv
<1>5. CallInv' /\ PairInv' /\ CacheInv'
  BY <1>1, <1>2
  DEF Start, StartsInv, SecretsInv, CallInv, PairInv, Pair, CacheInv
<1>6. FlagsInv'
  BY DEF Start, SecretsInv, FlagsInv
<1>. QED
  BY <1>1, <1>3, <1>4, <1>5, <1>6 DEF SecretsInv

LEMMA LoadTLSKeeps == ASSUME SecretsInv, LoadTLS PROVE SecretsInv'
<1>. DEFINE c == chain[TLSCertificate]
            k == chain[TLSPrivateKey]
<1>1. /\ phase = "tls" /\ starts # 0 /\ op = Idle
      /\ UNCHANGED <<starts, passphrase, expired, trusted, cache, cut>>
  BY DEF LoadTLS, SecretsInv, CallInv
<1>2. StartsInv /\ Inv /\ FlagsInv /\ CallInv /\ FormInv /\ PairInv /\ CacheInv
  BY DEF SecretsInv
<1>3. /\ c # Absent => \E n \in Nat \ {0} :
                         n <= starts /\ c = <<TLSCertificate, n>>
      /\ k # Absent => \E n \in Nat \ {0} :
                         n <= starts /\ k = <<TLSPrivateKey, n>>
  BY <1>2, Names DEF FormInv
<1>4. Get(TLSCertificate) = c /\ Get(TLSPrivateKey) = k
  BY <1>2, InKeychain, Names DEF Inv
<1>5. ASSUME NEW n \in StoredPair
      PROVE  n \in Nat \ {0} /\ n <= starts /\ n \notin expired /\ Pair(n)
  <2>1. c # Absent /\ k # Absent /\ n \in WorthKeeping(c[2], k[2])
    BY <1>4, <1>5 DEF StoredPair
  <2>2. c[2] = k[2] /\ n = c[2] /\ n \notin expired
    BY <2>1 DEF WorthKeeping
  <2>3. PICK i \in Nat \ {0} : i <= starts /\ c = <<TLSCertificate, i>>
    BY <1>3, <2>1
  <2>4. PICK j \in Nat \ {0} : j <= starts /\ k = <<TLSPrivateKey, j>>
    BY <1>3, <2>1
  <2>5. n = i /\ n = j
    BY <2>2, <2>3, <2>4
  <2>. QED
    BY <2>2, <2>3, <2>4, <2>5 DEF Pair
<1>6. ASSUME StoredPair = {} PROVE trusted \in expired \cup {0}
  <2>. SUFFICES ASSUME trusted \notin expired, trusted # 0 PROVE FALSE
    OBVIOUS
  <2>1. c = <<TLSCertificate, trusted>> /\ k = <<TLSPrivateKey, trusted>>
    BY <1>2 DEF PairInv, Pair
  <2>2. <<TLSCertificate, trusted>> \in Value /\ <<TLSPrivateKey, trusted>> \in Value
    <3>1. trusted \in 1 .. MaxStarts
      BY <1>2, Constants DEF StartsInv
    <3>. QED
      BY <3>1, Constants, Names
  <2>3. c # Absent /\ k # Absent
    BY <2>1, <2>2, CredentialStoreAssumption
  <2>4. StoredPair = WorthKeeping(c[2], k[2])
    BY <1>4, <2>3 DEF StoredPair
  <2>5. c[2] = trusted /\ k[2] = trusted
    BY <2>1
  <2>. QED
    BY <1>6, <2>4, <2>5 DEF WorthKeeping
<1>7. CASE ReadFails /\ phase' = "passphrase" /\ UNCHANGED tls
  <2>1. Inv' /\ UNCHANGED <<chain, op, done>> /\ failed' = TRUE
    BY <1>7, ReadFailsCalls
  <2>2. StartsInv'
    BY <1>1, <1>2, <1>7 DEF StartsInv
  <2>3. FlagsInv'
    BY <1>1, <1>2, <1>7, <2>1 DEF FlagsInv
  <2>4. CallInv' /\ FormInv'
    BY <1>1, <1>2, <1>7, <2>1 DEF CallInv, FormInv
  <2>5. PairInv'
    BY <1>1, <1>2, <1>7, <2>1 DEF PairInv, Pair
  <2>6. CacheInv'
    BY <1>1, <1>2, <1>7, <2>1 DEF CacheInv
  <2>. QED
    BY <2>1, <2>2, <2>3, <2>4, <2>5, <2>6 DEF SecretsInv
<1>8. CASE /\ tls' \in StoredPair /\ phase' = "passphrase"
           /\ UNCHANGED <<vars, failed>>
  <2>1. Inv' /\ UNCHANGED <<chain, op, done, failed>>
    BY <1>8, NothingCalled
  <2>2. StartsInv'
    BY <1>1, <1>2, <1>5, <1>8 DEF StartsInv
  <2>3. FlagsInv'
    BY <1>1, <1>2, <1>8, Flags
  <2>4. CallInv' /\ FormInv'
    BY <1>1, <1>2, <1>8, <2>1 DEF CallInv, FormInv
  <2>5. tls' # 0 /\ Pair(tls')
    BY <1>5, <1>8
  <2>6. trusted \in expired \cup {0, tls'}
    <3>. SUFFICES ASSUME trusted # 0, trusted \notin expired PROVE trusted = tls'
      OBVIOUS
    <3>1. Pair(trusted)
      BY <1>2 DEF PairInv
    <3>2. <<TLSCertificate, trusted>> = <<TLSCertificate, tls'>>
      BY <2>5, <3>1 DEF Pair
    <3>. QED
      BY <3>2
  <2>7. PairInv'
    BY <1>1, <1>2, <1>8, <2>1, <2>5, <2>6 DEF PairInv, Pair
  <2>8. CacheInv'
    BY <1>1, <1>2, <1>8, <2>1 DEF CacheInv
  <2>. QED
    BY <2>1, <2>2, <2>3, <2>4, <2>7, <2>8 DEF SecretsInv
<1>9. CASE /\ StoredPair = {}
           /\ Set(TLSCertificate, <<TLSCertificate, starts>>)
           /\ phase' = "certificate" /\ UNCHANGED <<tls, failed>>
  <2>1. /\ Inv' /\ op' # Idle /\ op'.kind = "set"
        /\ op'.keys = {TLSCertificate}
        /\ op'.value = <<TLSCertificate, starts>>
        /\ UNCHANGED <<chain, done>>
    BY <1>1, <1>9, SetCalls, Names
  <2>2. StartsInv'
    BY <1>1, <1>2, <1>9 DEF StartsInv
  <2>3. FlagsInv'
    BY <1>1, <1>2, <1>9, Flags
  <2>4. CallInv'
    BY <1>1, <1>9, <2>1 DEF CallInv, Setting
  <2>5. FormInv'
    BY <1>1, <1>2, <2>1 DEF FormInv
  <2>6. trusted \in expired \cup {0}
    BY <1>6, <1>9
  <2>7. PairInv'
    BY <1>1, <1>2, <1>9, <2>6 DEF PairInv
  <2>8. CacheInv'
    BY <1>1, <1>2, <1>9, <2>1 DEF CacheInv
  <2>. QED
    BY <2>1, <2>2, <2>3, <2>4, <2>5, <2>7, <2>8 DEF SecretsInv
<1>. QED
  BY <1>7, <1>8, <1>9 DEF LoadTLS

LEMMA StorePrivateKeyKeeps ==
  ASSUME SecretsInv, StorePrivateKey PROVE SecretsInv'
<1>1. /\ phase = "certificate" /\ starts # 0 /\ op = Idle
      /\ UNCHANGED <<starts, tls, passphrase, expired, trusted, cache, cut>>
  BY DEF StorePrivateKey, SecretsInv, CallInv, SetReturned
<1>2. StartsInv /\ Inv /\ FlagsInv /\ CallInv /\ FormInv /\ PairInv /\ CacheInv
  BY DEF SecretsInv
<1>3. failed' = (failed \/ ~done.ok)
  BY DEF StorePrivateKey, SetFailed
<1>4. trusted \in expired \cup {0}
  BY <1>1, <1>2 DEF PairInv
<1>5. CASE ~done.ok /\ phase' = "passphrase" /\ UNCHANGED vars
  <2>1. Inv' /\ UNCHANGED <<chain, op, done>>
    BY <1>5, NothingCalled
  <2>2. StartsInv'
    BY <1>1, <1>2 DEF StartsInv
  <2>3. failed'
    BY <1>3, <1>5
  <2>4. FlagsInv'
    BY <1>1, <1>2, <1>3, <1>5 DEF FlagsInv
  <2>5. CallInv' /\ FormInv'
    BY <1>1, <1>2, <1>5, <2>1 DEF CallInv, FormInv
  <2>6. PairInv'
    BY <1>1, <1>2, <1>5, <2>1, <2>3 DEF PairInv, Pair
  <2>7. CacheInv'
    BY <1>1, <1>2, <1>5, <2>1 DEF CacheInv
  <2>. QED
    BY <2>1, <2>2, <2>4, <2>5, <2>6, <2>7 DEF SecretsInv
<1>6. CASE /\ done.ok /\ phase' = "private key"
           /\ Set(TLSPrivateKey, <<TLSPrivateKey, starts>>)
  <2>1. /\ Inv' /\ op' # Idle /\ op'.kind = "set"
        /\ op'.keys = {TLSPrivateKey}
        /\ op'.value = <<TLSPrivateKey, starts>>
        /\ UNCHANGED <<chain, done>>
    BY <1>1, <1>6, SetCalls, Names
  <2>2. StartsInv'
    BY <1>1, <1>2 DEF StartsInv
  <2>3. FlagsInv'
    BY <1>1, <1>2, <1>3, <1>6 DEF FlagsInv
  <2>4. chain[TLSCertificate] = <<TLSCertificate, starts>>
    BY <1>1, <1>2, <1>6 DEF CallInv, Setting
  <2>5. CallInv'
    BY <1>1, <1>6, <2>1, <2>4 DEF CallInv, Setting
  <2>6. FormInv'
    BY <1>1, <1>2, <2>1 DEF FormInv
  <2>7. PairInv'
    BY <1>1, <1>2, <1>4, <1>6 DEF PairInv
  <2>8. CacheInv'
    BY <1>1, <1>2, <1>6, <2>1 DEF CacheInv
  <2>. QED
    BY <2>1, <2>2, <2>3, <2>5, <2>6, <2>7, <2>8 DEF SecretsInv
<1>. QED
  BY <1>5, <1>6 DEF StorePrivateKey, SetFailed

LEMMA UseNewPairKeeps == ASSUME SecretsInv, UseNewPair PROVE SecretsInv'
<1>1. /\ phase = "private key" /\ phase' = "passphrase" /\ op = Idle
      /\ tls' = IF done.ok THEN starts ELSE 0
      /\ UNCHANGED <<vars, starts, passphrase, expired, trusted, cache, cut>>
  BY DEF UseNewPair, SetReturned, SetFailed, Presented
<1>2. failed' = (failed \/ ~done.ok)
  BY DEF UseNewPair, SetFailed
<1>3. StartsInv /\ FlagsInv /\ CallInv /\ FormInv /\ PairInv /\ CacheInv
  BY DEF SecretsInv
<1>4. Inv' /\ UNCHANGED <<chain, op, done>>
  BY <1>1, NothingCalled
<1>5. StartsInv'
  <2>1. starts \in Nat
    BY <1>3 DEF StartsInv
  <2>2. tls' = starts \/ tls' = 0
    BY <1>1, Zenon
  <2>3. tls' \in Nat /\ tls' <= starts
    BY <2>1, <2>2
  <2>4. UNCHANGED <<starts, passphrase, expired, trusted, cache>>
    BY <1>1
  <2>. QED
    BY <1>3, <2>1, <2>3, <2>4 DEF StartsInv
<1>6. FlagsInv'
  BY <1>1, <1>2, <1>3 DEF FlagsInv
<1>7. CallInv' /\ FormInv'
  BY <1>1, <1>3, <1>4 DEF CallInv, FormInv
<1>8. CacheInv'
  BY <1>1, <1>3, <1>4 DEF CacheInv
<1>9. starts # 0 /\ (done.ok => Pair(starts))
  BY <1>1, <1>3 DEF CallInv, Setting, Pair
<1>10. PairInv'
  <2>1. CASE done.ok
    BY <1>1, <1>3, <1>4, <1>9, <2>1 DEF PairInv, Pair
  <2>2. CASE ~done.ok
    <3>1. failed'
      BY <1>2, <2>2
    <3>. QED
      BY <1>1, <1>3, <1>4, <2>2, <3>1 DEF PairInv, Pair
  <2>. QED
    BY <2>1, <2>2
<1>. QED
  BY <1>4, <1>5, <1>6, <1>7, <1>8, <1>10 DEF SecretsInv

\* The bridge comes up, with the passphrase that is stored.
LEMMA ComeUpKeeps ==
  ASSUME SecretsInv, phase \in {"passphrase", "new passphrase"}, op = Idle,
         NEW p \in Nat \ {0}, p <= starts, ComeUp(p), UNCHANGED vars,
         chain[StoragePassphrase] = <<StoragePassphrase, p>>,
         ~failed' => ~failed, failed' \in BOOLEAN,
         UNCHANGED <<starts, tls, expired, cut>>
  PROVE  SecretsInv'
<1>1. /\ phase' = "up" /\ passphrase' = p
      /\ cache' = IF cache = 0 THEN p ELSE cache
      /\ trusted' = IF tls = 0 THEN trusted ELSE tls
  BY DEF ComeUp
<1>2. StartsInv /\ FlagsInv /\ CallInv /\ FormInv /\ PairInv /\ CacheInv
  BY DEF SecretsInv
<1>3. Inv' /\ UNCHANGED <<chain, op, done>>
  BY NothingCalled
<1>4. StartsInv'
  BY <1>1, <1>2 DEF StartsInv
<1>5. FlagsInv'
  BY <1>1, <1>2 DEF FlagsInv
<1>6. CallInv' /\ FormInv'
  BY <1>1, <1>2, <1>3 DEF CallInv, FormInv
<1>7. PairInv'
  BY <1>1, <1>2, <1>3 DEF PairInv, Pair
<1>8. ~cut => cache \in {0, p}
  <2>. SUFFICES ASSUME ~cut, cache # 0 PROVE cache = p
    OBVIOUS
  <2>1. <<StoragePassphrase, cache>> = <<StoragePassphrase, p>>
    BY <1>2 DEF CacheInv
  <2>. QED
    BY <2>1
<1>9. CacheInv'
  BY <1>1, <1>2, <1>3, <1>8 DEF CacheInv
<1>. QED
  BY <1>3, <1>4, <1>5, <1>6, <1>7, <1>9 DEF SecretsInv

\* It gives up: nothing but the phase and the flag change.
LEMMA GiveUpKeeps ==
  ASSUME SecretsInv, Inv', op = Idle, UNCHANGED <<chain, op, done>>, GiveUp,
         failed' \in BOOLEAN, UNCHANGED <<starts, tls, expired, cut>>
  PROVE  SecretsInv'
<1>1. phase' = "off" /\ UNCHANGED <<passphrase, cache, trusted>>
  BY DEF GiveUp
<1>2. StartsInv /\ FlagsInv /\ CallInv /\ FormInv /\ PairInv /\ CacheInv
  BY DEF SecretsInv
<1>3. StartsInv'
  BY <1>1, <1>2 DEF StartsInv
<1>4. FlagsInv'
  BY <1>1, <1>2 DEF FlagsInv
<1>5. CallInv' /\ FormInv'
  BY <1>1, <1>2 DEF CallInv, FormInv
<1>6. PairInv'
  BY <1>1, <1>2 DEF PairInv, Pair
<1>7. phase # "reset" => CacheInv'
  BY <1>1, <1>2 DEF CacheInv
<1>8. phase # "reset"
  BY <1>2 DEF CallInv
<1>. QED
  BY <1>3, <1>4, <1>5, <1>6, <1>7, <1>8 DEF SecretsInv

LEMMA LoadPassphraseKeeps ==
  ASSUME SecretsInv, LoadPassphrase PROVE SecretsInv'
<1>. DEFINE P == StoragePassphrase
<1>1. /\ phase = "passphrase" /\ starts # 0 /\ op = Idle
      /\ UNCHANGED <<starts, tls, expired, cut>>
  BY DEF LoadPassphrase, SecretsInv, CallInv
<1>2. StartsInv /\ Inv /\ FlagsInv /\ CallInv /\ FormInv /\ PairInv /\ CacheInv
  BY DEF SecretsInv
<1>3. P \in Key /\ Get(P) = chain[P]
  BY <1>2, InKeychain, Names DEF Inv
<1>. HIDE DEF P
<1>4. CASE ReadFails /\ GiveUp
  BY <1>1, <1>4, ReadFailsCalls, GiveUpKeeps
<1>5. CASE /\ Get(P) # Absent /\ ComeUp(Get(P)[2]) /\ UNCHANGED <<vars, failed>>
  <2>1. PICK n \in Nat \ {0} : n <= starts /\ chain[P] = <<P, n>>
    BY <1>2, <1>3, <1>5 DEF FormInv
  <2>2. Get(P)[2] = n
    BY <1>3, <2>1
  <2>3. failed' \in BOOLEAN /\ failed' = failed
    BY <1>2, <1>5 DEF FlagsInv
  <2>4. ComeUp(n) /\ chain[StoragePassphrase] = <<StoragePassphrase, n>>
    BY <1>5, <2>1, <2>2 DEF P
  <2>. QED
    BY <1>1, <1>5, <2>1, <2>3, <2>4, ComeUpKeeps
<1>6. CASE /\ Get(P) = Absent /\ Set(P, <<P, starts>>)
           /\ phase' = "new passphrase"
           /\ UNCHANGED <<passphrase, cache, trusted, failed>>
  <2>1. /\ Inv' /\ op' # Idle /\ op'.kind = "set" /\ op'.keys = {P}
        /\ op'.value = <<P, starts>> /\ UNCHANGED <<chain, done>>
    BY <1>1, <1>3, <1>6, SetCalls
  <2>2. StartsInv'
    BY <1>1, <1>2, <1>6 DEF StartsInv
  <2>3. FlagsInv'
    BY <1>1, <1>2, <1>6, Flags
  <2>4. CallInv'
    BY <1>1, <1>6, <2>1 DEF CallInv, Setting, P
  <2>5. FormInv'
    BY <1>1, <1>2, <2>1 DEF FormInv
  <2>6. PairInv'
    BY <1>1, <1>2, <1>6, <2>1 DEF PairInv, Pair
  <2>7. ~cut => cache = 0
    <3>. SUFFICES ASSUME ~cut, cache # 0 PROVE FALSE
      OBVIOUS
    <3>1. chain[P] = <<P, cache>>
      BY <1>1, <1>2 DEF CacheInv, P
    <3>2. cache \in 1 .. MaxStarts
      BY <1>2, Constants DEF StartsInv
    <3>3. <<P, cache>> \in Value
      BY <1>3, <3>2, Constants
    <3>. QED
      BY <1>3, <1>6, <3>1, <3>3, CredentialStoreAssumption
  <2>8. CacheInv'
    BY <1>1, <1>2, <1>6, <2>1, <2>7 DEF CacheInv
  <2>. QED
    BY <2>1, <2>2, <2>3, <2>4, <2>5, <2>6, <2>8 DEF SecretsInv
<1>. QED
  BY <1>4, <1>5, <1>6 DEF LoadPassphrase, P

LEMMA UseNewPassphraseKeeps ==
  ASSUME SecretsInv, UseNewPassphrase PROVE SecretsInv'
<1>1. /\ phase = "new passphrase" /\ op = Idle
      /\ IF done.ok THEN ComeUp(starts) ELSE GiveUp
      /\ failed' = (failed \/ ~done.ok)
      /\ UNCHANGED <<vars, starts, tls, expired, cut>>
  BY DEF UseNewPassphrase, SetReturned, SetFailed, Generated
<1>2. StartsInv /\ FlagsInv /\ CallInv
  BY DEF SecretsInv
<1>3. failed' \in BOOLEAN
  BY <1>1
<1>4. CASE done.ok
  <2>1. chain[StoragePassphrase] = <<StoragePassphrase, starts>> /\ starts # 0
    BY <1>1, <1>2, <1>4 DEF CallInv, Setting
  <2>2. starts \in Nat \ {0} /\ starts <= starts
    BY <1>2, <2>1 DEF StartsInv
  <2>3. ~failed' => ~failed
    BY <1>1
  <2>. QED
    BY <1>1, <1>3, <1>4, <2>1, <2>2, <2>3, ComeUpKeeps
<1>5. CASE ~done.ok
  BY <1>1, <1>3, <1>5, NothingCalled, GiveUpKeeps
<1>. QED
  BY <1>4, <1>5

LEMMA StopKeeps == ASSUME SecretsInv, Stop PROVE SecretsInv'
<1>1. /\ phase = "up" /\ phase' = "off"
      /\ UNCHANGED <<vars, starts, tls, passphrase, failed, expired, trusted,
                     cache, cut>>
  BY DEF Stop
<1>2. StartsInv /\ FlagsInv /\ CallInv /\ FormInv /\ PairInv /\ CacheInv
  BY DEF SecretsInv
<1>3. Inv' /\ UNCHANGED <<chain, op, done>>
  BY <1>1, NothingCalled
<1>4. StartsInv' /\ CallInv' /\ FormInv'
  BY <1>1, <1>2, <1>3 DEF StartsInv, CallInv, FormInv
<1>5. FlagsInv'
  BY <1>1, <1>2, Flags
<1>6. PairInv' /\ CacheInv'
  BY <1>1, <1>2, <1>3 DEF PairInv, Pair, CacheInv
<1>. QED
  BY <1>3, <1>4, <1>5, <1>6 DEF SecretsInv

LEMMA ExpireKeeps == ASSUME SecretsInv, Expire PROVE SecretsInv'
<1>1. /\ trusted # 0 /\ expired' = expired \cup {trusted}
      /\ UNCHANGED <<vars, phase, starts, tls, passphrase, failed, trusted,
                     cache, cut>>
  BY DEF Expire
<1>2. StartsInv /\ FlagsInv /\ CallInv /\ FormInv /\ PairInv /\ CacheInv
  BY DEF SecretsInv
<1>3. Inv' /\ UNCHANGED <<chain, op, done>>
  BY <1>1, NothingCalled
<1>4. StartsInv'
  BY <1>1, <1>2 DEF StartsInv
<1>5. FlagsInv'
  BY <1>1, <1>2, Flags DEF FlagsInv
<1>6. CallInv' /\ FormInv'
  BY <1>1, <1>2, <1>3 DEF CallInv, Setting, FormInv
<1>7. PairInv'
  BY <1>1, <1>2, <1>3 DEF PairInv, Pair
<1>8. CacheInv'
  BY <1>1, <1>2, <1>3 DEF CacheInv
<1>. QED
  BY <1>3, <1>4, <1>5, <1>6, <1>7, <1>8 DEF SecretsInv

-----------------------------------------------------------------------------
(* A reset, and the steps of the store.                                    *)

LEMMA ResetKeeps == ASSUME SecretsInv, Reset PROVE SecretsInv'
<1>1. /\ phase = "off" /\ phase' = "reset" /\ trusted' = 0
      /\ UNCHANGED <<starts, tls, passphrase, failed, expired, cache, cut>>
      /\ StartReset \/ StartBlindReset
  BY DEF Reset
<1>2. Inv /\ StartsInv /\ FlagsInv /\ CallInv /\ FormInv /\ PairInv /\ CacheInv
  BY DEF SecretsInv
<1>3. Inv'
  BY <1>1, <1>2, ResetStartsInv, BlindResetStartsInv
<1>4. /\ op' # Idle /\ op'.kind = "reset" /\ UNCHANGED chain
      /\ ~op'.failed => Occurs(Do("rmDir", Absent), op'.todo)
  BY <1>1, <1>2, ResetStartsInv, BlindResetStartsInv
<1>5. StartsInv'
  BY <1>1, <1>2 DEF StartsInv
<1>6. FlagsInv'
  BY <1>1, <1>2, Flags
<1>7. CallInv' /\ FormInv'
  BY <1>1, <1>2, <1>4 DEF CallInv, FormInv
<1>8. PairInv'
  BY <1>1 DEF PairInv
<1>9. CacheInv'
  BY <1>1, <1>4 DEF CacheInv
<1>. QED
  BY <1>3, <1>5, <1>6, <1>7, <1>8, <1>9 DEF SecretsInv

\* A step of a call that stores a secret touches no other.
LEMMA SetStepCalls ==
  ASSUME Inv, op.kind = "set", NEW k \in Key, SetOp(k), StepSucceeds \/ StepFails
  PROVE  /\ Inv' /\ op' # Idle /\ op'.kind = "set" /\ op'.keys = {k}
         /\ op'.value = op.value
         /\ \A j \in Key \ {k} : chain'[j] = chain[j]
         /\ chain'[k] \in {chain[k], op.value}
<1>1. op.keys = {k} /\ chain \in [Key -> (Value \ Large) \cup {Absent}]
  BY DEF SetOp, Inv, TypeOK
<1>2. CASE StepSucceeds
  <2>1. /\ op' # Idle /\ op'.kind = op.kind /\ op'.keys = {k}
        /\ op'.value = op.value
        /\ chain' = IF op.value \notin Large /\ Taken = 0
                    THEN [chain EXCEPT ![k] = op.value]
                    ELSE IF op.value \in Large /\ Taken = 2
                         THEN [chain EXCEPT ![k] = Absent] ELSE chain
    BY <1>2, SetEffect
  <2>2. chain' \in {chain, [chain EXCEPT ![k] = op.value]}
    BY <2>1, Constants
  <2>3. Inv'
    BY <1>2, SetStepInv
  <2>. QED
    BY <1>1, <2>1, <2>2, <2>3
<1>3. CASE StepFails
  BY <1>1, <1>3, StepFailsInv
<1>. QED
  BY <1>2, <1>3

LEMMA SetStepKeeps ==
  ASSUME SecretsInv, StoreStep, op.kind = "set"
  PROVE  SecretsInv'
<1>1. /\ StepSucceeds \/ StepFails
      /\ cache' \in {0, cache}
      /\ UNCHANGED <<phase, starts, tls, passphrase, failed, expired, trusted, cut>>
  BY DEF StoreStep
<1>2. Inv /\ StartsInv /\ FlagsInv /\ CallInv /\ FormInv /\ PairInv /\ CacheInv
  BY DEF SecretsInv
<1>3. op # Idle
  BY <1>1 DEF StepSucceeds, StepFails, Busy
<1>. PICK k \in Key : SetOp(k)
  BY <1>2, <1>3 DEF Inv, SetInv
<1>4. op.keys = {k} /\ op.value \in Value
  BY DEF SetOp
<1>5. /\ Inv' /\ op' # Idle /\ op'.kind = "set" /\ op'.keys = {k}
      /\ op'.value = op.value
      /\ \A j \in Key \ {k} : chain'[j] = chain[j]
      /\ chain'[k] \in {chain[k], op.value}
  BY <1>1, <1>2, SetStepCalls
<1>6. StartsInv'
  BY <1>1, <1>2 DEF StartsInv
<1>7. FlagsInv'
  BY <1>1, <1>2, Flags DEF FlagsInv
<1>8. phase \in {"certificate", "private key", "new passphrase"}
  BY <1>2, <1>3 DEF FlagsInv, CallInv
<1>9. /\ phase = "certificate" => k = TLSCertificate
      /\ phase = "private key" => k = TLSPrivateKey
      /\ phase = "new passphrase" => k = StoragePassphrase
      /\ op.value = <<k, starts>> /\ starts # 0
  BY <1>2, <1>3, <1>4, <1>8 DEF CallInv, Setting
<1>10. CallInv'
  <2>1. phase = "private key" => UNCHANGED chain[TLSCertificate]
    BY <1>5, <1>9, Names
  <2>. QED
    BY <1>1, <1>2, <1>4, <1>5, <1>8, <1>9, <2>1 DEF CallInv, Setting
<1>11. FormInv'
  <2>1. ASSUME NEW j \in Key, chain'[j] # Absent
        PROVE  \E n \in Nat \ {0} : n <= starts' /\ chain'[j] = <<j, n>>
    <3>1. CASE chain'[j] = chain[j]
      BY <1>1, <1>2, <2>1, <3>1 DEF FormInv
    <3>2. CASE j = k /\ chain'[j] = <<k, starts>>
      <4>1. starts \in Nat
        BY <1>2 DEF StartsInv
      <4>2. starts # 0 /\ starts' = starts
        BY <1>1, <1>9
      <4>3. starts \in Nat \ {0} /\ starts <= starts'
        BY <4>1, <4>2
      <4>. QED
        BY <3>2, <4>3
    <3>. QED
      BY <1>5, <1>9, <3>1, <3>2
  <2>. QED
    BY <2>1 DEF FormInv
<1>12. \/ UNCHANGED <<chain[TLSCertificate], chain[TLSPrivateKey]>>
       \/ phase \in {"certificate", "private key"}
  BY <1>5, <1>8, <1>9, Names
<1>13. PairInv'
  BY <1>1, <1>2, <1>8, <1>12 DEF PairInv, Pair
<1>14. \/ UNCHANGED chain[StoragePassphrase]
       \/ phase = "new passphrase"
  BY <1>5, <1>8, <1>9, Names
<1>15. CacheInv'
  BY <1>1, <1>2, <1>8, <1>14 DEF CacheInv
<1>. QED
  BY <1>5, <1>6, <1>7, <1>10, <1>11, <1>13, <1>15 DEF SecretsInv

\* A step of a reset.
LEMMA WipeStepKeeps ==
  ASSUME SecretsInv, StoreStep, op.kind # "set"
  PROVE  SecretsInv'
<1>1. /\ \/ StepSucceeds /\ (Next1.do = "rmDir" => cache' = 0)
         \/ StepFails
      /\ cache' \in {0, cache}
      /\ UNCHANGED <<phase, starts, tls, passphrase, failed, expired, trusted, cut>>
  BY DEF StoreStep
<1>2. Inv /\ StartsInv /\ FlagsInv /\ CallInv /\ FormInv /\ PairInv /\ CacheInv
  BY DEF SecretsInv
<1>3. op # Idle
  BY <1>1 DEF StepSucceeds, StepFails, Busy
<1>4. phase = "reset" /\ op.kind = "reset"
  BY <1>2, <1>3 DEF FlagsInv, CallInv, Setting
<1>5. /\ Inv' /\ op' # Idle /\ op'.kind = "reset"
      /\ \A k \in Key : chain'[k] \in {chain[k], Absent}
      /\ cache' # 0 /\ ~op'.failed => Occurs(Do("rmDir", Absent), op'.todo)
  <2>1. CASE StepSucceeds /\ (Next1.do = "rmDir" => cache' = 0)
    <3>1. /\ Inv' /\ op' # Idle /\ op'.kind = op.kind
          /\ op'.failed = op.failed
          /\ \A k \in Key : chain'[k] \in {chain[k], Absent}
          /\ \A x : Occurs(x, op.todo) => x = Next1 \/ Occurs(x, op'.todo)
      BY <1>2, <2>1, WipeStepInv
    <3>2. cache # 0 /\ ~op.failed => Occurs(Do("rmDir", Absent), op.todo)
      BY <1>2, <1>4 DEF CacheInv
    <3>3. Do("rmDir", Absent).do = "rmDir"
      BY DEF Do
    <3>. HIDE DEF Occurs
    <3>. QED
      BY <1>1, <1>4, <2>1, <3>1, <3>2, <3>3
  <2>2. CASE StepFails
    BY <1>2, <1>4, <2>2, StepFailsInv
  <2>. QED
    BY <1>1, <2>1, <2>2
<1>6. StartsInv'
  BY <1>1, <1>2 DEF StartsInv
<1>7. FlagsInv'
  BY <1>1, <1>2, Flags DEF FlagsInv
<1>8. CallInv'
  BY <1>1, <1>4, <1>5 DEF CallInv
<1>9. FormInv'
  <2>1. ASSUME NEW k \in Key, chain'[k] # Absent
        PROVE  \E n \in Nat \ {0} : n <= starts' /\ chain'[k] = <<k, n>>
    <3>1. chain'[k] = chain[k]
      BY <1>5, <2>1
    <3>. QED
      BY <1>1, <1>2, <2>1, <3>1 DEF FormInv
  <2>. QED
    BY <2>1 DEF FormInv
<1>10. PairInv'
  BY <1>1, <1>2, <1>4 DEF PairInv
<1>11. CacheInv'
  <2>. HIDE DEF Occurs
  <2>. QED
    BY <1>1, <1>4, <1>5 DEF CacheInv
<1>. QED
  BY <1>5, <1>6, <1>7, <1>8, <1>9, <1>10, <1>11 DEF SecretsInv

LEMMA StoreReturnsKeeps ==
  ASSUME SecretsInv, StoreReturns PROVE SecretsInv'
<1>1. /\ OpEnds /\ op # Idle /\ op.todo = <<>> /\ op' = Idle
      /\ done' = [kind |-> op.kind, ok |-> ~op.failed] /\ UNCHANGED chain
      /\ IF phase = "reset" THEN phase' = "off" /\ cut' = op.failed
                            ELSE UNCHANGED <<phase, cut>>
      /\ UNCHANGED <<starts, tls, passphrase, failed, expired, trusted, cache>>
  BY DEF StoreReturns, OpEnds, storeVars
<1>2. Inv /\ StartsInv /\ FlagsInv /\ CallInv /\ FormInv /\ PairInv /\ CacheInv
  BY DEF SecretsInv
<1>3. Inv'
  BY <1>1, <1>2, OpEndsInv
<1>4. StartsInv' /\ FormInv'
  BY <1>1, <1>2 DEF StartsInv, FormInv
<1>5. op.failed \in BOOLEAN
  BY <1>1, <1>2 DEF Inv, TypeOK, Op
<1>6. FlagsInv'
  BY <1>1, <1>2, <1>5 DEF FlagsInv
<1>7. CASE phase = "reset"
  <2>1. CallInv' /\ PairInv'
    BY <1>1, <1>2, <1>7 DEF CallInv, PairInv
  <2>2. \A x : ~Occurs(x, op.todo)
    BY <1>1 DEF Occurs
  <2>3. CacheInv'
    BY <1>1, <1>2, <1>7, <2>2 DEF CacheInv
  <2>. QED
    BY <1>3, <1>4, <1>6, <2>1, <2>3 DEF SecretsInv
<1>8. CASE phase # "reset"
  <2>1. /\ phase \in {"certificate", "private key", "new passphrase"}
        /\ op.kind = "set"
    BY <1>1, <1>2, <1>8 DEF FlagsInv, CallInv, Setting
  <2>. PICK k \in Key : SetOp(k)
    BY <1>1, <1>2, <2>1 DEF Inv, SetInv
  <2>2. ~op.failed => chain[k] = op.value
    <3>1. Taken = 4
      BY <1>1 DEF Taken
    <3>2. ~op.failed => SmallDone(k)
      <4>. HIDE DEF Taken
      <4>. QED
        BY Constants DEF SetOp
    <3>. QED
      BY <3>1, <3>2 DEF SmallDone
  <2>3. op.keys = {k}
    BY DEF SetOp
  <2>4. done'.ok = ~op.failed
    BY <1>1
  <2>5. CallInv'
    BY <1>1, <1>2, <2>1, <2>2, <2>3, <2>4 DEF CallInv, Setting
  <2>6. PairInv' /\ CacheInv'
    BY <1>1, <1>2, <1>8 DEF PairInv, Pair, CacheInv
  <2>. QED
    BY <1>3, <1>4, <1>6, <2>5, <2>6 DEF SecretsInv
<1>. QED
  BY <1>7, <1>8

LEMMA DieKeeps == ASSUME SecretsInv, Die PROVE SecretsInv'
<1>1. /\ Crash /\ op' = Idle /\ UNCHANGED <<chain, done>> /\ phase' = "off"
      /\ cut' = (cut \/ phase = "reset")
      /\ UNCHANGED <<starts, tls, passphrase, failed, expired, trusted, cache>>
  BY DEF Die, Crash, storeVars
<1>2. Inv /\ StartsInv /\ FlagsInv /\ CallInv /\ FormInv /\ PairInv /\ CacheInv
  BY DEF SecretsInv
<1>3. Inv'
  BY <1>1, <1>2, CrashInv
<1>4. StartsInv' /\ FormInv'
  BY <1>1, <1>2 DEF StartsInv, FormInv
<1>5. FlagsInv'
  BY <1>1, <1>2 DEF FlagsInv
<1>6. CallInv' /\ PairInv'
  BY <1>1, <1>2 DEF CallInv, PairInv, Pair
<1>7. CacheInv'
  BY <1>1, <1>2 DEF CacheInv
<1>. QED
  BY <1>3, <1>4, <1>5, <1>6, <1>7 DEF SecretsInv

-----------------------------------------------------------------------------
(* The theorems.                                                           *)

LEMMA SecretsNextKeeps ==
  ASSUME SecretsInv, [SecretsNext]_secretsVars PROVE SecretsInv'
<1>1. CASE Start
  BY <1>1, StartKeeps
<1>2. CASE LoadTLS
  BY <1>2, LoadTLSKeeps
<1>3. CASE StorePrivateKey
  BY <1>3, StorePrivateKeyKeeps
<1>4. CASE UseNewPair
  BY <1>4, UseNewPairKeeps
<1>5. CASE LoadPassphrase
  BY <1>5, LoadPassphraseKeeps
<1>6. CASE UseNewPassphrase
  BY <1>6, UseNewPassphraseKeeps
<1>7. CASE Stop
  BY <1>7, StopKeeps
<1>8. CASE Reset
  BY <1>8, ResetKeeps
<1>9. CASE StoreStep
  BY <1>9, SetStepKeeps, WipeStepKeeps
<1>10. CASE StoreReturns
  BY <1>10, StoreReturnsKeeps
<1>11. CASE Die
  BY <1>11, DieKeeps
<1>12. CASE Expire
  BY <1>12, ExpireKeeps
<1>13. CASE UNCHANGED secretsVars
  <2>1. UNCHANGED <<vars, phase, starts, tls, passphrase, failed, expired,
                    trusted, cache, cut>>
    BY <1>13 DEF secretsVars, bridgeVars
  <2>2. StartsInv /\ FlagsInv /\ CallInv /\ FormInv /\ PairInv /\ CacheInv
    BY DEF SecretsInv
  <2>3. Inv' /\ UNCHANGED <<chain, op, done>>
    BY <2>1, NothingCalled
  <2>4. StartsInv' /\ FormInv'
    BY <2>1, <2>2, <2>3 DEF StartsInv, FormInv
  <2>5. FlagsInv'
    BY <2>1, <2>2, Flags DEF FlagsInv
  <2>6. CallInv'
    BY <2>1, <2>2, <2>3 DEF CallInv, Setting
  <2>7. PairInv' /\ CacheInv'
    BY <2>1, <2>2, <2>3 DEF PairInv, Pair, CacheInv
  <2>. QED
    BY <2>3, <2>4, <2>5, <2>6, <2>7 DEF SecretsInv
<1>. QED
  BY <1>1, <1>2, <1>3, <1>4, <1>5, <1>6, <1>7, <1>8, <1>9, <1>10, <1>11,
     <1>12, <1>13 DEF SecretsNext

LEMMA SecretsInvariant == SecretsSpec => []SecretsInv
<1>1. SecretsInit => SecretsInv
  BY StartsFromNothing
<1>2. SecretsInv /\ [SecretsNext]_secretsVars => SecretsInv'
  BY SecretsNextKeeps
<1>. QED
  BY <1>1, <1>2, PTL DEF SecretsSpec

\* The bridge is up only with a passphrase, and goes on from one call of the
\* store to the next only when it returned (daemon.go: Run's order of calls);
\* every secret in use or stored is one that a start generated.
THEOREM SecretsAreGenerated == SecretsSpec => []SecretsTypeOK
<1>1. ASSUME SecretsInv PROVE SecretsTypeOK
  <2>1. TypeOK /\ StartsInv /\ FlagsInv /\ CallInv /\ CacheInv
    BY <1>1 DEF SecretsInv, Inv
  <2>2. /\ starts \in 0 .. MaxStarts /\ tls \in 0 .. starts
        /\ passphrase \in 0 .. starts
    BY <2>1, Constants DEF StartsInv
  <2>3. trusted \in 0 .. starts /\ cache \in 0 .. starts
    BY <2>1 DEF StartsInv
  <2>4. expired \subseteq 1 .. starts
    BY <2>1 DEF StartsInv
  <2>5. /\ failed \in BOOLEAN /\ cut \in BOOLEAN
        /\ phase \in {"off", "tls", "certificate", "private key", "passphrase",
                      "new passphrase", "up", "reset"}
    BY <2>1 DEF FlagsInv
  <2>6. phase = "up" => passphrase # 0
    BY <2>1 DEF CacheInv
  <2>7. phase \in {"off", "tls", "passphrase", "up"} => op = Idle
    BY <2>1 DEF CallInv
  <2>. QED
    BY <2>1, <2>2, <2>3, <2>4, <2>5, <2>6, <2>7, Zenon DEF SecretsTypeOK
<1>. QED
  BY <1>1, SecretsInvariant, PTL

\* What the store promises of any calls it keeps under the starts, the resets
\* and the crashes of the bridge, whose reads can fail as well: a start reads the
\* secret last written, or one it may take for it, and a reset that succeeds
\* leaves none behind (store/routing.go:33-42, daemon/reset.go:11-18).
THEOREM StoreKeepsItsPromises == SecretsSpec => [](OldOrNew /\ ResetLeavesNothing)
<1>1. SecretsInv => OldOrNew /\ ResetLeavesNothing
  BY ReadersSee, ResetsLeaveNothing DEF SecretsInv
<1>. QED
  BY <1>1, SecretsInvariant, PTL

\* A start none of whose calls of the store failed comes up with TLS, whatever
\* the starts, the crashes and the resets before it left: Ensure replaces a
\* pair whose halves do not match or are not both there
\* (localtls.go:56-58, 144-149).
THEOREM StartsWithTLS == SecretsSpec => []TLSUnlessFailed
<1>1. SecretsInv => TLSUnlessFailed
  BY DEF SecretsInv, PairInv, TLSUnlessFailed
<1>. QED
  BY <1>1, SecretsInvariant, PTL

\* Gluon's files are opened with the passphrase they were written with, at
\* every start, unless a reset failed or was cut short (credentials.go:15-20,
\* reset.go:31-36): the passphrase is generated only where none is stored,
\* which is where there are no files.
THEOREM PassphraseIsKept == SecretsSpec => []PassphraseKept
<1>1. SecretsInv => PassphraseKept
  BY DEF SecretsInv, CacheInv, PassphraseKept
<1>. QED
  BY <1>1, SecretsInvariant, PTL

\* The certificate that was trusted is the one every later start presents, if
\* it presents any, until it expires or is wiped (localtls.go:40-48, 144-149):
\* its two halves stay stored, since a start replaces neither before that.
THEOREM CertificateIsKept == SecretsSpec => CertificateKept
<1>1. ASSUME SecretsInv, SecretsNext, phase # "up", phase' = "up"
      PROVE  phase \in {"passphrase", "new passphrase"}
  <2>1. LoadPassphrase \/ UseNewPassphrase
    BY <1>1
    DEF SecretsNext, Start, LoadTLS, StorePrivateKey, UseNewPair, Stop, Reset,
        StoreStep, StoreReturns, Die, Expire
  <2>. QED
    BY <2>1 DEF LoadPassphrase, UseNewPassphrase
<1>2. SecretsInv /\ [SecretsNext]_secretsVars
        => [phase # "up" /\ phase' = "up" /\ tls # 0 /\ trusted # 0
              => tls = trusted \/ trusted \in expired]_secretsVars
  BY <1>1 DEF SecretsInv, PairInv
<1>. QED
  BY <1>2, SecretsInvariant, PTL DEF SecretsSpec, CertificateKept

=============================================================================
