---------------------------- MODULE LocalSecrets ----------------------------
(***************************************************************************)
(* The secrets the bridge keeps for itself, over the store that keeps them *)
(* (CredentialStore): the certificate and private key both local servers   *)
(* present (internal/localtls), and the passphrase Gluon's cache is        *)
(* encrypted with (imapserver/credentials.go), made at the first start     *)
(* (daemon.go), and wiped by a reset (daemon/reset.go).  All are small     *)
(* enough for the keychain.  The process can die inside any call of the    *)
(* store, and any of these calls can fail.                                 *)
(***************************************************************************)
EXTENDS CredentialStore

CONSTANT MaxStarts    \* bound on the starts of the bridge

TLSCertificate == "certificate"
TLSPrivateKey == "private key"
StoragePassphrase == "passphrase"

\* A value is the number of the start that generated it.
ASSUME LocalSecretsAssumption ==
  /\ MaxStarts \in Nat
  /\ Key = {TLSCertificate, TLSPrivateKey, StoragePassphrase}
  /\ Value = Key \X (1 .. MaxStarts)
  /\ Large = {}

VARIABLES
  phase,      \* what the process does
  starts,     \* how often it was started
  tls,        \* the pair it presents, 0 without TLS
  passphrase, \* the one in use, 0 for none
  failed,     \* whether a call of the store failed in this start
  expired,    \* the pairs that do not last long enough any more
  trusted,    \* the pair the parent was last handed, 0 after a reset
  cache,      \* the passphrase Gluon's files are encrypted with, 0 without files
  cut         \* whether the last reset failed or did not end

bridgeVars == <<phase, starts, tls, passphrase, failed, expired, trusted, cache,
                cut>>
secretsVars == <<vars, bridgeVars>>

\* Types, and that the bridge is up only with a passphrase, and does not go on
\* while a call of the store is in progress.
SecretsTypeOK ==
  /\ TypeOK
  /\ phase \in {"off", "tls", "certificate", "private key", "passphrase",
                "new passphrase", "up", "reset"}
  /\ starts \in 0 .. MaxStarts /\ tls \in 0 .. starts /\ passphrase \in 0 .. starts
  /\ failed \in BOOLEAN /\ cut \in BOOLEAN
  /\ expired \subseteq 1 .. starts
  /\ trusted \in 0 .. starts /\ cache \in 0 .. starts
  /\ phase = "up" => passphrase # 0
  /\ phase \in {"off", "tls", "passphrase", "up"} => op = Idle

SecretsInit ==
  /\ Init
  /\ phase = "off" /\ starts = 0 /\ tls = 0 /\ passphrase = 0 /\ failed = FALSE
  /\ expired = {} /\ trusted = 0 /\ cache = 0 /\ cut = FALSE

-----------------------------------------------------------------------------
(* A start: the certificate, then the passphrase, then the servers.        *)

Start ==
  /\ phase = "off" /\ starts < MaxStarts
  /\ phase' = "tls" /\ starts' = starts + 1
  /\ tls' = 0 /\ passphrase' = 0 /\ failed' = FALSE
  /\ UNCHANGED <<vars, expired, trusted, cache, cut>>

\* A call of the store that reads fails.
ReadFails ==
  /\ used.failures < MaxFailures
  /\ used' = [used EXCEPT !.failures = @ + 1]
  /\ failed' = TRUE
  /\ UNCHANGED <<storeVars, op, done, historyVars>>

SetReturned == op = Idle
SetFailed == ~done.ok

\* Bug: a pair that does not match is an error.
MismatchFails(c, k) == IF c # k THEN {0} ELSE IF c \in expired THEN {} ELSE {c}

\* X509KeyPair and usable: the pair, where it matches and still lasts long enough.
WorthKeeping(c, k) == IF c = k /\ c \notin expired THEN {c} ELSE {}

\* load
StoredPair ==
  IF Absent \in {Get(TLSCertificate), Get(TLSPrivateKey)} THEN {}
  ELSE WorthKeeping(Get(TLSCertificate)[2], Get(TLSPrivateKey)[2])

\* Ensure: a pair that is not worth keeping is replaced, the certificate first.
\* Whatever fails, the bridge goes on without TLS.
LoadTLS ==
  /\ phase = "tls"
  /\ \/ /\ ReadFails
        /\ phase' = "passphrase" /\ UNCHANGED tls
     \/ /\ StoredPair # {}
        /\ tls' \in StoredPair
        /\ phase' = "passphrase" /\ UNCHANGED <<vars, failed>>
     \/ /\ StoredPair = {}
        /\ Set(TLSCertificate, <<TLSCertificate, starts>>)
        /\ phase' = "certificate" /\ UNCHANGED <<tls, failed>>
  /\ UNCHANGED <<starts, passphrase, expired, trusted, cache, cut>>

\* generate, after the certificate.
StorePrivateKey ==
  /\ phase = "certificate" /\ SetReturned
  /\ failed' = (failed \/ SetFailed)
  /\ IF SetFailed
     THEN phase' = "passphrase" /\ UNCHANGED vars
     ELSE /\ phase' = "private key"
          /\ Set(TLSPrivateKey, <<TLSPrivateKey, starts>>)
  /\ UNCHANGED <<starts, tls, passphrase, expired, trusted, cache, cut>>

\* Bug: the pair is presented although its key may not be stored.
PresentedAnyway == starts
Presented == IF SetFailed THEN 0 ELSE starts

\* generate, after the private key.
UseNewPair ==
  /\ phase = "private key" /\ SetReturned
  /\ tls' = Presented
  /\ failed' = (failed \/ SetFailed)
  /\ phase' = "passphrase"
  /\ UNCHANGED <<vars, starts, passphrase, expired, trusted, cache, cut>>

\* Gluon opens its files or creates them, and the parent is handed the certificate.
ComeUp(p) ==
  /\ phase' = "up" /\ passphrase' = p
  /\ cache' = IF cache = 0 THEN p ELSE cache
  /\ trusted' = IF tls = 0 THEN trusted ELSE tls

\* The bridge does not start without a passphrase.
GiveUp == phase' = "off" /\ UNCHANGED <<passphrase, cache, trusted>>

\* EnsureStoragePassphrase
LoadPassphrase ==
  /\ phase = "passphrase"
  /\ \/ ReadFails /\ GiveUp
     \/ /\ Get(StoragePassphrase) # Absent
        /\ ComeUp(Get(StoragePassphrase)[2])
        /\ UNCHANGED <<vars, failed>>
     \/ /\ Get(StoragePassphrase) = Absent
        /\ Set(StoragePassphrase, <<StoragePassphrase, starts>>)
        /\ phase' = "new passphrase"
        /\ UNCHANGED <<passphrase, cache, trusted, failed>>
  /\ UNCHANGED <<starts, tls, expired, cut>>

\* Bugs: the passphrase is used although it may not be stored; none is generated.
UsedAnyway == ComeUp(starts)
NothingGenerated == IF SetFailed THEN GiveUp ELSE ComeUp(0)

Generated == IF SetFailed THEN GiveUp ELSE ComeUp(starts)

UseNewPassphrase ==
  /\ phase = "new passphrase" /\ SetReturned
  /\ Generated
  /\ failed' = (failed \/ SetFailed)
  /\ UNCHANGED <<vars, starts, tls, expired, cut>>

\* The session ends, or what starts after Gluon fails.
Stop ==
  /\ phase = "up" /\ phase' = "off"
  /\ UNCHANGED <<vars, starts, tls, passphrase, failed, expired, trusted, cache,
                 cut>>

-----------------------------------------------------------------------------
(* A reset, the steps of the store, and time.                              *)

\* A logout runs it while the bridge does not run.
Reset ==
  /\ phase = "off" /\ (StartReset \/ StartBlindReset)
  /\ phase' = "reset" /\ trusted' = 0
  /\ UNCHANGED <<starts, tls, passphrase, failed, expired, cache, cut>>

\* A step of the call in progress.  Gluon's files are in the state directory, which
\* a reset removes last.
StoreStep ==
  /\ \/ /\ StepSucceeds
        /\ cache' = IF Next1.do = "rmDir" THEN 0 ELSE cache
     \/ /\ StepFails
        /\ \/ UNCHANGED cache
           \/ Next1.do = "rmDir" /\ cache' = 0
  /\ UNCHANGED <<phase, starts, tls, passphrase, failed, expired, trusted, cut>>

\* A call of the store returns.
StoreReturns ==
  /\ OpEnds
  /\ IF phase = "reset"
     THEN phase' = "off" /\ cut' = op.failed
     ELSE UNCHANGED <<phase, cut>>
  /\ UNCHANGED <<starts, tls, passphrase, failed, expired, trusted, cache>>

\* The process dies inside a call of the store.
Die ==
  /\ Crash
  /\ phase' = "off"
  /\ cut' = (cut \/ phase = "reset")
  /\ UNCHANGED <<starts, tls, passphrase, failed, expired, trusted, cache>>

\* A month is left of the certificate the parent was handed.
Expire ==
  /\ trusted # 0 /\ trusted \notin expired
  /\ expired' = expired \cup {trusted}
  /\ UNCHANGED <<vars, phase, starts, tls, passphrase, failed, trusted, cache,
                 cut>>

SecretsNext ==
  \/ Start \/ LoadTLS \/ StorePrivateKey \/ UseNewPair
  \/ LoadPassphrase \/ UseNewPassphrase \/ Stop
  \/ Reset \/ StoreStep \/ StoreReturns \/ Die \/ Expire

SecretsSpec == SecretsInit /\ [][SecretsNext]_secretsVars

-----------------------------------------------------------------------------
(* Properties.                                                             *)

\* A start none of whose calls failed presents a pair, whatever earlier ones left
\* behind: a certificate without its key, or with the key of the one before it
\* (localtls.go:56-58, 144-149).
TLSUnlessFailed == phase = "up" /\ ~failed => tls # 0

\* The certificate the system was asked to trust is the one every later start
\* presents, if it presents any, until it expires or a reset wipes it
\* (localtls.go:40-48, 144-149: the two halves of a pair are stored one by one).
CertificateKept ==
  [][phase # "up" /\ phase' = "up" /\ tls # 0 /\ trusted # 0
       => tls = trusted \/ trusted \in expired]_secretsVars

\* Gluon's files are opened with the passphrase they were written with
\* (credentials.go:15-20), unless a reset failed or was cut short: it removes the
\* passphrase before the files (reset.go:31-36).
PassphraseKept == phase = "up" /\ ~cut => cache = passphrase

=============================================================================
