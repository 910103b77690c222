-------------------------- MODULE CredentialStore --------------------------
(***************************************************************************)
(* internal/store, which keeps the bridge's secrets across restarts, and   *)
(* the reset that wipes them (internal/daemon/reset.go).                   *)
(*                                                                         *)
(* A small value lives in the system keychain.  A large one is encrypted   *)
(* in a file, with a key made for that file in the keychain.  An index     *)
(* lists the keys stored, because a keychain cannot be listed.  An         *)
(* operation is a program of backend steps, "todo": each can fail, and the *)
(* process can die between two of them.  The store's mutex makes the       *)
(* operations of one process sequential.                                   *)
(***************************************************************************)
EXTENDS Naturals, Sequences, SequencesExt

CONSTANTS
  Key, Value,
  Large,        \* the values over keychainMaxBytes
  Absent,       \* ErrNotFound
  Unreadable,   \* a file that its key does not open
  Idle,         \* no operation
  MaxSets,      \* bound on the values stored
  MaxRemovals,  \* bound on the removals and resets
  MaxFailures,  \* bound on the backend steps that fail
  MaxCrashes    \* bound on the times the process dies

ASSUME CredentialStoreAssumption ==
  /\ Large \subseteq Value
  /\ Absent \notin Value /\ Unreadable \notin Value /\ Absent # Unreadable
  /\ MaxSets \in Nat /\ MaxRemovals \in Nat
  /\ MaxFailures \in Nat /\ MaxCrashes \in Nat

VARIABLES
  chain,       \* the values in the keychain
  dek,         \* the encryption keys in the keychain, 0 for none
  disk,        \* the encrypted files
  index,       \* the keys the index lists
  op,          \* the operation in progress
  done,        \* the last operation that ended, and whether it reported no error
  used,        \* how much of each bound is used
  visible,     \* history: the values a reader may see under each key
  interrupted, \* history: keys whose last operation failed or was cut short
  resealing    \* history: keys with a file, for which a large Set has not ended

storeVars   == <<chain, dek, disk, index>>
historyVars == <<visible, interrupted, resealing>>
vars == <<storeVars, op, done, used, historyVars>>

File == [value : Large, dek : 1 .. MaxSets]

StepOf == [do : {"putChain", "putDek", "putFile", "dropChain", "dropFile",
                 "dropDek", "addIndex", "dropIndex", "clearIndex", "rmDir"},
           key : Key \cup {Absent}]

Op == [kind : {"set", "remove", "reset"}, keys : SUBSET Key,
       value : Value \cup {Absent}, todo : Seq(StepOf), failed : BOOLEAN]

ASSUME NothingAssumption == Absent \notin File /\ Idle \notin Op

\* The state of every variable has its type.
TypeOK ==
  /\ chain \in [Key -> (Value \ Large) \cup {Absent}]
  /\ dek \in [Key -> 0 .. MaxSets]
  /\ disk \in [Key -> File \cup {Absent}]
  /\ index \subseteq Key
  /\ op \in Op \cup {Idle}
  /\ done \in [kind : {"none", "set", "remove", "reset"}, ok : BOOLEAN]
  /\ used \in [sets : 0 .. MaxSets, removals : 0 .. MaxRemovals,
               failures : 0 .. MaxFailures, crashes : 0 .. MaxCrashes]
  /\ visible \in [Key -> SUBSET (Value \cup {Absent})]
  /\ interrupted \subseteq Key /\ resealing \subseteq Key

Init ==
  /\ chain = [k \in Key |-> Absent] /\ dek = [k \in Key |-> 0]
  /\ disk = [k \in Key |-> Absent] /\ index = {}
  /\ op = Idle /\ done = [kind |-> "none", ok |-> TRUE]
  /\ used = [sets |-> 0, removals |-> 0, failures |-> 0, crashes |-> 0]
  /\ visible = [k \in Key |-> {Absent}]
  /\ interrupted = {} /\ resealing = {}

-----------------------------------------------------------------------------
(* Reading.                                                                *)

\* disk.Get: a file whose key is not in the keychain is not found.
Opened(k) ==
  CASE disk[k] = Absent \/ dek[k] = 0 -> Absent
    [] disk[k] # Absent /\ dek[k] = disk[k].dek -> disk[k].value
    [] OTHER -> Unreadable

\* router.Get: the keychain first, the file where it has nothing.
Get(k) == IF chain[k] # Absent THEN chain[k] ELSE Opened(k)

-----------------------------------------------------------------------------
(* The operations, as the backend steps they take.                         *)

Do(s, k) == [do |-> s, key |-> k]

FileRemoval(k) == <<Do("dropFile", k), Do("dropDek", k)>>

\* Only the file goes, its key stays in the keychain.
ValueRemovalOnly(k) == <<Do("dropChain", k), Do("dropFile", k)>>
BackendRemoval(k) == <<Do("dropChain", k)>> \o FileRemoval(k)

\* backendFor: a value over keychainMaxBytes goes to a file.
GoesToDisk(v) == v \in Large

RemovedFirst(k, v) ==
  IF GoesToDisk(v)
  THEN <<Do("dropChain", k), Do("putDek", k), Do("putFile", k),
         Do("addIndex", k)>>
  ELSE <<Do("putChain", k)>> \o FileRemoval(k) \o <<Do("addIndex", k)>>

\* router.Set: the value goes where its size sends it, then leaves the other
\* place, then the index.
SetSteps(k, v) ==
  (IF GoesToDisk(v)
   THEN <<Do("putDek", k), Do("putFile", k), Do("dropChain", k)>>
   ELSE <<Do("putChain", k)>> \o FileRemoval(k))
  \o <<Do("addIndex", k)>>

RemoveSteps(k) == BackendRemoval(k) \o <<Do("dropIndex", k)>>

\* Clear, of the keys the index lists, then the state directory.
ResetSteps(keys) ==
  FlattenSeq([i \in DOMAIN keys |-> BackendRemoval(keys[i])])
    \o <<Do("clearIndex", Absent), Do("rmDir", Absent)>>

\* The history: what the operation may make of its keys, until it succeeds.
Starts(kind, keys, v, steps) ==
  /\ op = Idle
  /\ op' = [kind |-> kind, keys |-> keys, value |-> v, todo |-> steps,
            failed |-> FALSE]
  /\ interrupted' = interrupted \cup keys

Set(k, v) ==
  /\ used.sets < MaxSets
  /\ used' = [used EXCEPT !.sets = @ + 1]
  /\ Starts("set", {k}, v, SetSteps(k, v))
  /\ visible' = [visible EXCEPT ![k] = @ \cup {v}]
  /\ resealing' = IF v \in Large /\ disk[k] # Absent
                  THEN resealing \cup {k} ELSE resealing
  /\ UNCHANGED <<storeVars, done>>

StartSet == \E k \in Key, v \in Value : Set(k, v)

StartRemove ==
  \E k \in Key :
    /\ used.removals < MaxRemovals
    /\ used' = [used EXCEPT !.removals = @ + 1]
    /\ Starts("remove", {k}, Absent, RemoveSteps(k))
    /\ visible' = [visible EXCEPT ![k] = @ \cup {Absent}]
    /\ UNCHANGED <<storeVars, done, resealing>>

\* Clear goes by the index; the directory goes whatever Clear did.
StartReset ==
  \E keys \in SetToSeqs(index) :
    /\ used.removals < MaxRemovals
    /\ used' = [used EXCEPT !.removals = @ + 1]
    /\ Starts("reset", index, Absent, ResetSteps(keys))
    /\ visible' = [k \in Key |-> visible[k] \cup {Absent}]
    /\ UNCHANGED <<storeVars, done, resealing>>

\* The store does not open or its index cannot be read: only the directory is
\* removed, and the error is reported.
StartBlindReset ==
  /\ op = Idle
  /\ used.removals < MaxRemovals /\ used.failures < MaxFailures
  /\ used' = [used EXCEPT !.removals = @ + 1, !.failures = @ + 1]
  /\ op' = [kind |-> "reset", keys |-> index, value |-> Absent,
            todo |-> <<Do("rmDir", Absent)>>, failed |-> TRUE]
  /\ interrupted' = interrupted \cup index
  /\ visible' = [k \in Key |-> visible[k] \cup {Absent}]
  /\ UNCHANGED <<storeVars, done, resealing>>

-----------------------------------------------------------------------------
(* The steps.                                                              *)

Next1 == Head(op.todo)
Busy == op # Idle /\ op.todo # <<>>

\* The keychain and the file are each replaced whole (writeFileAtomic renames).
Chain(s) ==
  CASE s.do = "putChain"  -> [chain EXCEPT ![s.key] = op.value]
    [] s.do = "dropChain" -> [chain EXCEPT ![s.key] = Absent]
    [] OTHER -> chain

Dek(s) ==
  CASE s.do = "putDek"  -> [dek EXCEPT ![s.key] = used.sets]
    [] s.do = "dropDek" -> [dek EXCEPT ![s.key] = 0]
    [] OTHER -> dek

Disk(s) ==
  CASE s.do = "putFile" ->
         [disk EXCEPT ![s.key] = [value |-> op.value, dek |-> used.sets]]
    [] s.do = "dropFile" -> [disk EXCEPT ![s.key] = Absent]
    [] s.do = "rmDir" -> [k \in Key |-> Absent]
    [] OTHER -> disk

Index(s) ==
  CASE s.do = "addIndex"   -> index \cup {s.key}
    [] s.do = "dropIndex"  -> index \ {s.key}
    [] s.do = "clearIndex" -> {}
    [] OTHER -> index

StepSucceeds ==
  /\ Busy
  /\ chain' = Chain(Next1) /\ dek' = Dek(Next1)
  /\ disk' = Disk(Next1) /\ index' = Index(Next1)
  /\ op' = [op EXCEPT !.todo = Tail(@)]
  /\ UNCHANGED <<done, used, historyVars>>

\* Set gives up at the first error.  Remove and Clear go on with what does not
\* depend on the step that failed, and report the error at the end: a file that
\* cannot be removed keeps its key, and a key not removed stays in the index,
\* but Clear drops the index whatever happened, and the directory goes as well:
\* all of it, or where that fails, any part.
DependsOn(s, t) ==
  \/ s.do = "dropFile" /\ t.do = "dropDek" /\ s.key = t.key
  \/ t.do = "dropIndex"

Without(steps, s) ==
  FlattenSeq([i \in DOMAIN steps |->
                IF DependsOn(s, steps[i]) THEN <<>> ELSE <<steps[i]>>])

StepFails ==
  /\ Busy /\ used.failures < MaxFailures
  /\ used' = [used EXCEPT !.failures = @ + 1]
  /\ op' = [op EXCEPT !.failed = TRUE,
              !.todo = IF op.kind = "set" THEN <<>>
                       ELSE Without(Tail(@), Next1)]
  /\ \/ UNCHANGED disk
     \/ /\ Next1.do = "rmDir"
        /\ \E S \in SUBSET Key :
             disk' = [k \in Key |-> IF k \in S THEN Absent ELSE disk[k]]
  /\ UNCHANGED <<chain, dek, index, done, historyVars>>

OpEnds ==
  /\ op # Idle /\ op.todo = <<>>
  /\ op' = Idle
  /\ done' = [kind |-> op.kind, ok |-> ~op.failed]
  /\ IF op.failed
     THEN UNCHANGED historyVars
     ELSE /\ visible' = [k \in Key |-> IF k \in op.keys THEN {op.value}
                                                       ELSE visible[k]]
          /\ interrupted' = interrupted \ op.keys
          /\ resealing' = resealing \ op.keys
  /\ UNCHANGED <<storeVars, used>>

\* The process dies, and the next one starts with what is stored.
Crash ==
  /\ op # Idle /\ used.crashes < MaxCrashes
  /\ used' = [used EXCEPT !.crashes = @ + 1]
  /\ op' = Idle
  /\ UNCHANGED <<storeVars, done, historyVars>>

\* Nothing more is asked of the store.
Ended ==
  /\ op = Idle /\ used.sets = MaxSets /\ used.removals = MaxRemovals
  /\ UNCHANGED vars

Next ==
  \/ StartSet \/ StartRemove \/ StartReset \/ StartBlindReset
  \/ StepSucceeds \/ StepFails \/ OpEnds \/ Crash \/ Ended

Spec == Init /\ [][Next]_vars

-----------------------------------------------------------------------------
(* Properties.                                                             *)

\* A reader sees the value of the last operation that succeeded or of one that
\* did not end since, in particular after a crash: never nothing in place of a
\* value being replaced, nor a copy left on the other path (routing.go:33-42).
\* A file being replaced by another is excepted: see NoUselessFile.
OldOrNew == \A k \in Key \ resealing : Get(k) \in visible[k]

Stored(k) == chain[k] # Absent \/ dek[k] # 0 \/ disk[k] # Absent

Wiped == op = Idle /\ done = [kind |-> "reset", ok |-> TRUE]

\* A reset that reports success leaves nothing, in the keychain either, where no
\* earlier operation was cut short (daemon/reset.go:11-18).
ResetLeavesNothing ==
  Wiped /\ interrupted = {} => \A k \in Key : ~Stored(k)

-----------------------------------------------------------------------------
(* What a comment says, and the code does not do.                          *)

\* "The key goes in first: a file we cannot decrypt is useless, while a key
\* without a file is harmless" (store/disk.go:59-60).
NoUselessFile == op = Idle => \A k \in Key : Opened(k) # Unreadable

=============================================================================
