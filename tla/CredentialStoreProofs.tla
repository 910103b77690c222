----------------------- MODULE CredentialStoreProofs -----------------------
(***************************************************************************)
(* The store of secrets, for any keys, values, failures and crashes: a     *)
(* reader sees an old value or a new one, and a reset leaves nothing.      *)
(*                                                                         *)
(* A removal's program is flattened from one program for each key, so the  *)
(* proof takes its elements out of it by induction on their number: of the *)
(* numbers for which a statement fails, the least would be one for which   *)
(* it holds.                                                               *)
(***************************************************************************)
EXTENDS CredentialStore, FiniteSetTheorems, WellFoundedInduction, TLAPS

-----------------------------------------------------------------------------
(* Induction: what is said of each natural number is put as a set of them. *)

LEMMA LeastNumber ==
  ASSUME NEW T, T \subseteq Nat, T # {}
  PROVE  \E n \in T : \A m \in T : n <= m
<1>. DEFINE R == OpToRel(<, Nat)
<1>1. IsWellFoundedOn(R, Nat)
  BY NatLessThanWellFounded
<1>2. \A x, y \in Nat : x < y => <<x, y>> \in R
  BY DEF OpToRel
<1>. HIDE DEF R
<1>3. PICK x \in T : \A y \in T : ~(<<y, x>> \in R)
  BY <1>1, WFMin
<1>4. ASSUME NEW m \in T PROVE x <= m
  <2>1. m \in Nat /\ x \in Nat
    OBVIOUS
  <2>2. ~(m < x)
    BY <1>2, <1>3, <2>1
  <2>. QED
    BY <2>1, <2>2
<1>. QED
  BY <1>4

LEMMA Induction ==
  ASSUME NEW S, 0 \in S, \A n \in Nat : n \in S => n + 1 \in S
  PROVE  \A n \in Nat : n \in S
<1>. DEFINE T == Nat \ S
<1>. SUFFICES ASSUME T # {} PROVE FALSE
  OBVIOUS
<1>1. PICK n \in T : \A m \in T : n <= m
  BY LeastNumber
<1>2. n - 1 \in Nat /\ n - 1 \notin T /\ (n - 1) + 1 = n
  BY <1>1
<1>. QED
  BY <1>1, <1>2

\* The elements of a sequence.
Occurs(x, p) == \E i \in 1 .. Len(p) : p[i] = x

-----------------------------------------------------------------------------
(* The programs.                                                           *)

LEMMA Joined ==
  ASSUME NEW S, NEW p \in Seq(S), NEW q \in Seq(S)
  PROVE  /\ p \o q \in Seq(S) /\ Len(p \o q) = Len(p) + Len(q)
         /\ \A i \in 1 .. Len(p) : (p \o q)[i] = p[i]
         /\ \A i \in 1 .. Len(q) : (p \o q)[Len(p) + i] = q[i]
         /\ \A x : Occurs(x, p) \/ Occurs(x, q) => Occurs(x, p \o q)
<1>1. /\ p \o q \in Seq(S) /\ Len(p \o q) = Len(p) + Len(q)
      /\ Len(p) \in Nat /\ Len(q) \in Nat
      /\ \A i \in 1 .. Len(p) : (p \o q)[i] = p[i]
      /\ \A i \in 1 .. Len(q) : (p \o q)[Len(p) + i] = q[i]
  OBVIOUS
<1>. DEFINE r == p \o q
<1>. HIDE DEF r
<1>2. ASSUME NEW x, Occurs(x, p) PROVE Occurs(x, r)
  <2>1. PICK i \in 1 .. Len(p) : p[i] = x
    BY <1>2 DEF Occurs
  <2>. QED
    BY <1>1, <2>1 DEF Occurs, r
<1>3. ASSUME NEW x, Occurs(x, q) PROVE Occurs(x, r)
  <2>1. PICK i \in 1 .. Len(q) : q[i] = x
    BY <1>3 DEF Occurs
  <2>2. Len(p) + i \in 1 .. Len(r) /\ r[Len(p) + i] = x
    BY <1>1, <2>1 DEF r
  <2>. QED
    BY <2>2 DEF Occurs
<1>. QED
  BY <1>1, <1>2, <1>3 DEF r

\* What is flattened keeps the type, and every element.
LEMMA Flattened ==
  ASSUME NEW S, NEW seqs \in Seq(Seq(S))
  PROVE  /\ FlattenSeq(seqs) \in Seq(S)
         /\ \A i \in 1 .. Len(seqs) :
              \A x : Occurs(x, seqs[i]) => Occurs(x, FlattenSeq(seqs))
<1>. DEFINE N == Len(seqs)
            flatten[i \in 1 .. N] ==
              IF i = 1 THEN seqs[i] ELSE flatten[i - 1] \o seqs[i]
            Joins(f, n) ==
              /\ f \in [1 .. n -> Seq(S)]
              /\ \A i \in 1 .. n :
                   f[i] = IF i = 1 THEN seqs[i] ELSE f[i - 1] \o seqs[i]
            Holds(f, n) ==
              \A i \in 1 .. n : \A x : Occurs(x, seqs[i]) => Occurs(x, f[n])
            Flat(n) == \E f : Joins(f, n) /\ Holds(f, n)
            P == {n \in Nat : n = 0 \/ n > N \/ Flat(n)}
<1>1. N \in Nat /\ \A i \in 1 .. N : seqs[i] \in Seq(S)
  OBVIOUS
<1>. HIDE DEF N
<1>2. CASE N = 0
  BY <1>1, <1>2 DEF FlattenSeq, N
<1>3. N > 0 => Flat(N)
  <2>1. Flat(1) \/ N = 0
    <3>. DEFINE f == [i \in 1 .. 1 |-> seqs[i]]
    <3>1. CASE N # 0
      <4>1. Joins(f, 1) /\ Holds(f, 1)
        BY <1>1, <3>1
      <4>. QED
        BY <4>1
    <3>. QED
      BY <3>1
  <2>2. ASSUME NEW m \in Nat \ {0}, Flat(m), m + 1 <= N PROVE Flat(m + 1)
    <3>1. PICK f : Joins(f, m) /\ Holds(f, m)
      BY <2>2
    <3>. DEFINE y == f[m] \o seqs[m + 1]
                h == [i \in 1 .. m + 1 |-> IF i <= m THEN f[i] ELSE y]
    <3>2. /\ f[m] \in Seq(S) /\ seqs[m + 1] \in Seq(S) /\ m \in 1 .. m
          /\ m \in Nat
      BY <1>1, <2>2, <3>1
    <3>3. /\ y \in Seq(S)
          /\ \A x : Occurs(x, f[m]) \/ Occurs(x, seqs[m + 1]) => Occurs(x, y)
      BY <3>2, Joined
    <3>. HIDE DEF y
    <3>4. h \in [1 .. m + 1 -> Seq(S)] /\ h[m + 1] = y
          /\ \A i \in 1 .. m : h[i] = f[i]
      BY <3>1, <3>2, <3>3
    <3>. HIDE DEF h
    <3>5. ASSUME NEW i \in 1 .. m + 1
          PROVE  h[i] = IF i = 1 THEN seqs[i] ELSE h[i - 1] \o seqs[i]
      <4>1. CASE i \in 1 .. m
        <5>1. i = 1 \/ i - 1 \in 1 .. m
          BY <3>2, <4>1
        <5>. QED
          BY <3>1, <3>4, <4>1, <5>1
      <4>2. CASE i = m + 1
        <5>1. i # 1 /\ i - 1 = m
          BY <3>2, <4>2
        <5>. QED
          BY <3>2, <3>4, <4>2, <5>1 DEF y
      <4>. QED
        BY <3>2, <4>1, <4>2
    <3>6. Holds(h, m + 1)
      <4>1. \A i \in 1 .. m + 1 : i \in 1 .. m \/ i = m + 1
        BY <3>2
      <4>. QED
        BY <3>1, <3>3, <3>4, <4>1
    <3>7. Joins(h, m + 1)
      BY <3>4, <3>5
    <3>. QED
      BY <3>6, <3>7
  <2>. HIDE DEF Flat
  <2>3. 0 \in P
    OBVIOUS
  <2>4. ASSUME NEW n \in Nat, n \in P PROVE n + 1 \in P
    <3>1. CASE n = 0
      BY <1>1, <2>1, <3>1
    <3>2. CASE n # 0 /\ n + 1 <= N
      BY <1>1, <2>2, <2>4, <3>2
    <3>3. CASE n + 1 > N
      BY <3>3
    <3>. QED
      BY <1>1, <3>1, <3>2, <3>3
  <2>. HIDE DEF P
  <2>5. N \in P
    BY <1>1, <2>3, <2>4, Induction
  <2>. QED
    BY <1>1, <2>5 DEF P
<1>4. CASE N > 0
  <2>1. PICK f : Joins(f, N) /\ Holds(f, N)
    BY <1>3, <1>4
  <2>2. f = [i \in 1 .. N |->
               IF i = 1 THEN seqs[i] ELSE f[i - 1] \o seqs[i]]
    BY <2>1
  <2>3. flatten = [i \in 1 .. N |->
                     IF i = 1 THEN seqs[i] ELSE flatten[i - 1] \o seqs[i]]
    BY <2>2
  <2>4. FlattenSeq(seqs) = flatten[N]
    <3>1. Len(seqs) # 0
      BY <1>1, <1>4 DEF N
    <3>. QED
      BY <3>1, Zenon DEF FlattenSeq, N
  <2>. HIDE DEF flatten
  <2>. DEFINE Q == {n \in Nat : n = 0 \/ n > N \/ flatten[n] = f[n]}
  <2>5. 0 \in Q
    OBVIOUS
  <2>6. ASSUME NEW n \in Nat, n \in Q PROVE n + 1 \in Q
    <3>1. CASE n + 1 > N
      BY <3>1
    <3>2. CASE n + 1 \in 1 .. N
      <4>1. /\ flatten[n + 1] = IF n + 1 = 1 THEN seqs[n + 1]
                                ELSE flatten[(n + 1) - 1] \o seqs[n + 1]
            /\ f[n + 1] = IF n + 1 = 1 THEN seqs[n + 1]
                          ELSE f[(n + 1) - 1] \o seqs[n + 1]
        BY <2>1, <2>3, <3>2
      <4>2. (n + 1) - 1 = n /\ (n + 1 # 1 => flatten[n] = f[n])
        BY <1>1, <2>6, <3>2
      <4>. QED
        BY <4>1, <4>2
    <3>. QED
      BY <1>1, <3>1, <3>2
  <2>. HIDE DEF Q
  <2>7. N \in Q
    BY <1>1, <2>5, <2>6, Induction
  <2>8. flatten[N] = f[N]
    BY <1>1, <1>4, <2>7 DEF Q
  <2>9. FlattenSeq(seqs) = f[N]
    BY <2>4, <2>8
  <2>10. N \in 1 .. N
    BY <1>1, <1>4
  <2>11. f[N] \in Seq(S)
    BY <2>1, <2>10
  <2>12. Holds(f, Len(seqs)) /\ f[Len(seqs)] = FlattenSeq(seqs)
    BY <2>1, <2>9 DEF N
  <2>. QED
    BY <2>9, <2>11, <2>12
<1>. QED
  BY <1>1, <1>2, <1>4

\* The steps left when one has failed are the program's.
LEMMA WithoutIs ==
  ASSUME NEW S, NEW steps \in Seq(S), NEW s
  PROVE  Without(steps, s) \in Seq(S)
<1>. DEFINE parts == [i \in DOMAIN steps |->
                        IF DependsOn(s, steps[i]) THEN <<>> ELSE <<steps[i]>>]
<1>1. parts \in Seq(Seq(S))
  <2>1. /\ DOMAIN steps = 1 .. Len(steps) /\ Len(steps) \in Nat
        /\ \A i \in DOMAIN steps : steps[i] \in S
    OBVIOUS
  <2>2. <<>> \in Seq(S) /\ \A x \in S : <<x>> \in Seq(S)
    OBVIOUS
  <2>3. \A i \in DOMAIN steps :
          (IF DependsOn(s, steps[i]) THEN <<>> ELSE <<steps[i]>>) \in Seq(S)
    BY <2>1, <2>2
  <2>. QED
    BY <2>1, <2>3
<1>. HIDE DEF parts
<1>2. FlattenSeq(parts) \in Seq(S)
  BY <1>1, Flattened
<1>. QED
  BY <1>2 DEF Without, parts

RemovalStep(keys) == [do : {"dropChain", "dropFile", "dropDek"}, key : keys]

LEMMA BackendRemovalIs ==
  ASSUME NEW keys, NEW k \in keys
  PROVE  LET p == BackendRemoval(k)
         IN  /\ p \in Seq(RemovalStep(keys)) /\ Len(p) = 3
             /\ p[1] = Do("dropChain", k) /\ p[2] = Do("dropFile", k)
             /\ p[3] = Do("dropDek", k)
<1>1. \A d \in {"dropChain", "dropFile", "dropDek"} :
        Do(d, k) \in RemovalStep(keys)
  BY DEF Do, RemovalStep
<1>. DEFINE a == Do("dropChain", k)
            b == Do("dropFile", k)
            c == Do("dropDek", k)
            D == RemovalStep(keys)
<1>2. a \in D /\ b \in D /\ c \in D
  BY <1>1
<1>. HIDE DEF a, b, c, D
<1>3. /\ <<a>> \in Seq(D) /\ <<b, c>> \in Seq(D)
      /\ Len(<<a>>) = 1 /\ Len(<<b, c>>) = 2
      /\ <<a>>[1] = a /\ <<b, c>>[1] = b /\ <<b, c>>[2] = c
  BY <1>2
<1>4. LET p == <<a>> \o <<b, c>>
      IN  p \in Seq(D) /\ Len(p) = 3 /\ p[1] = a /\ p[2] = b /\ p[3] = c
  <2>. DEFINE p == <<a>>
              q == <<b, c>>
  <2>. HIDE DEF p, q
  <2>1. /\ p \o q \in Seq(D) /\ Len(p \o q) = 3 /\ (p \o q)[1] = p[1]
        /\ (p \o q)[1 + 1] = q[1] /\ (p \o q)[1 + 2] = q[2]
    BY <1>3 DEF p, q
  <2>. QED
    BY <1>3, <2>1 DEF p, q
<1>5. BackendRemoval(k) = <<a>> \o <<b, c>>
  BY DEF BackendRemoval, FileRemoval, a, b, c
<1>. QED
  BY <1>4, <1>5 DEF a, b, c, D

\* A reset removes every key it is given, and only removes.
LEMMA ResetStepsIs ==
  ASSUME NEW S, NEW keys \in Seq(S)
  PROVE  LET p == ResetSteps(keys)
         IN  /\ p \in Seq(RemovalStep(S)
                            \cup [do : {"clearIndex", "rmDir"}, key : {Absent}])
             /\ \A i \in DOMAIN keys :
                  /\ Occurs(Do("dropChain", keys[i]), p)
                  /\ Occurs(Do("dropFile", keys[i]), p)
                  /\ Occurs(Do("dropDek", keys[i]), p)
             /\ Occurs(Do("rmDir", Absent), p)
<1>. DEFINE R == RemovalStep(S)
            E == [do : {"clearIndex", "rmDir"}, key : {Absent}]
            T == R \cup E
            parts == [i \in DOMAIN keys |-> BackendRemoval(keys[i])]
            end == <<Do("clearIndex", Absent), Do("rmDir", Absent)>>
<1>1. /\ DOMAIN keys = 1 .. Len(keys) /\ Len(keys) \in Nat
      /\ \A i \in DOMAIN keys : keys[i] \in S
  OBVIOUS
<1>2. \A i \in DOMAIN keys :
        /\ BackendRemoval(keys[i]) \in Seq(R) /\ Len(BackendRemoval(keys[i])) = 3
        /\ BackendRemoval(keys[i])[1] = Do("dropChain", keys[i])
        /\ BackendRemoval(keys[i])[2] = Do("dropFile", keys[i])
        /\ BackendRemoval(keys[i])[3] = Do("dropDek", keys[i])
  BY <1>1, BackendRemovalIs
<1>3. Do("clearIndex", Absent) \in E /\ Do("rmDir", Absent) \in E
  BY DEF Do
<1>. HIDE DEF R, E
<1>4. /\ parts \in Seq(Seq(T)) /\ end \in Seq(T) /\ Len(parts) = Len(keys)
      /\ Len(end) = 2 /\ end[2] = Do("rmDir", Absent)
  <2>1. \A i \in DOMAIN keys : BackendRemoval(keys[i]) \in Seq(T)
    BY <1>2
  <2>. QED
    BY <1>1, <1>3, <2>1
<1>5. ASSUME NEW i \in DOMAIN keys
      PROVE  /\ Occurs(Do("dropChain", keys[i]), parts[i])
             /\ Occurs(Do("dropFile", keys[i]), parts[i])
             /\ Occurs(Do("dropDek", keys[i]), parts[i])
  <2>1. parts[i] = BackendRemoval(keys[i])
    OBVIOUS
  <2>2. {1, 2, 3} \subseteq 1 .. 3
    OBVIOUS
  <2>. QED
    BY <1>2, <2>1, <2>2 DEF Occurs
<1>. HIDE DEF parts, end, T
<1>6. /\ FlattenSeq(parts) \in Seq(T)
      /\ \A i \in 1 .. Len(parts) :
           \A x : Occurs(x, parts[i]) => Occurs(x, FlattenSeq(parts))
  BY <1>4, Flattened
<1>7. /\ FlattenSeq(parts) \o end \in Seq(T)
      /\ \A x : Occurs(x, FlattenSeq(parts)) \/ Occurs(x, end)
                  => Occurs(x, FlattenSeq(parts) \o end)
  BY <1>4, <1>6, Joined
<1>8. ResetSteps(keys) = FlattenSeq(parts) \o end
  BY DEF ResetSteps, parts, end
<1>9. ResetSteps(keys) \in Seq(T)
  BY <1>7, <1>8
<1>10. ASSUME NEW i \in DOMAIN keys, NEW x, Occurs(x, parts[i])
       PROVE  Occurs(x, ResetSteps(keys))
  BY <1>1, <1>4, <1>6, <1>7, <1>8, <1>10
<1>11. Occurs(Do("rmDir", Absent), ResetSteps(keys))
  <2>1. 2 \in 1 .. 2
    OBVIOUS
  <2>2. Occurs(Do("rmDir", Absent), end)
    BY <1>4, <2>1 DEF Occurs
  <2>. QED
    BY <1>7, <1>8, <2>2
<1>. QED
  BY <1>5, <1>9, <1>10, <1>11 DEF T, R, E

LEMMA RemoveStepsIs ==
  ASSUME NEW k
  PROVE  LET p == RemoveSteps(k)
         IN  /\ p \in Seq(RemovalStep({k}) \cup [do : {"dropIndex"}, key : {k}])
             /\ Occurs(Do("dropChain", k), p) /\ Occurs(Do("dropFile", k), p)
             /\ Occurs(Do("dropDek", k), p)
<1>. DEFINE R == RemovalStep({k})
            E == [do : {"dropIndex"}, key : {k}]
            T == R \cup E
            b == BackendRemoval(k)
            end == <<Do("dropIndex", k)>>
<1>1. /\ b \in Seq(R) /\ Len(b) = 3 /\ b[1] = Do("dropChain", k)
      /\ b[2] = Do("dropFile", k) /\ b[3] = Do("dropDek", k)
  BY BackendRemovalIs
<1>2. Do("dropIndex", k) \in E
  BY DEF Do
<1>. HIDE DEF R, E, b
<1>3. b \in Seq(T) /\ end \in Seq(T)
  BY <1>1, <1>2
<1>4. /\ Occurs(Do("dropChain", k), b) /\ Occurs(Do("dropFile", k), b)
      /\ Occurs(Do("dropDek", k), b)
  <2>1. {1, 2, 3} \subseteq 1 .. 3
    OBVIOUS
  <2>. QED
    BY <1>1, <2>1 DEF Occurs
<1>. HIDE DEF T, end
<1>5. b \o end \in Seq(T) /\ \A x : Occurs(x, b) => Occurs(x, b \o end)
  BY <1>3, Joined
<1>6. RemoveSteps(k) = b \o end
  BY DEF RemoveSteps, b, end
<1>. QED
  BY <1>4, <1>5, <1>6 DEF T, R, E

LEMMA SetStepsIs ==
  ASSUME NEW k \in Key, NEW v
  PROVE  LET p == SetSteps(k, v)
         IN  /\ p \in Seq(StepOf) /\ Len(p) = 4
             /\ v \notin Large =>
                  /\ p[1] = Do("putChain", k) /\ p[2] = Do("dropFile", k)
                  /\ p[3] = Do("dropDek", k)
             /\ v \in Large =>
                  /\ p[1] = Do("putDek", k) /\ p[2] = Do("putFile", k)
                  /\ p[3] = Do("dropChain", k)
             /\ p[4] = Do("addIndex", k)
<1>1. \A d \in {"putChain", "putDek", "putFile", "dropChain", "dropFile",
                "dropDek", "addIndex"} : Do(d, k) \in StepOf
  BY DEF Do, StepOf
<1>2. \A x, y, z \in StepOf :
        /\ <<x>> \in Seq(StepOf) /\ Len(<<x>>) = 1 /\ <<x>>[1] = x
        /\ <<x, y>> \in Seq(StepOf) /\ Len(<<x, y>>) = 2
        /\ <<x, y>>[1] = x /\ <<x, y>>[2] = y
        /\ <<x, y, z>> \in Seq(StepOf) /\ Len(<<x, y, z>>) = 3
        /\ <<x, y, z>>[1] = x /\ <<x, y, z>>[2] = y /\ <<x, y, z>>[3] = z
  <2>. HIDE DEF StepOf
  <2>. QED
    OBVIOUS
<1>3. \A p, q \in Seq(StepOf) : Len(p) = 1 /\ Len(q) = 2 =>
        /\ p \o q \in Seq(StepOf) /\ Len(p \o q) = 3
        /\ (p \o q)[1] = p[1] /\ (p \o q)[2] = q[1] /\ (p \o q)[3] = q[2]
  <2>. HIDE DEF StepOf
  <2>1. ASSUME NEW p \in Seq(StepOf), NEW q \in Seq(StepOf),
               Len(p) = 1, Len(q) = 2
        PROVE  /\ p \o q \in Seq(StepOf) /\ Len(p \o q) = 3
               /\ (p \o q)[1] = p[1] /\ (p \o q)[1 + 1] = q[1]
               /\ (p \o q)[1 + 2] = q[2]
    <3>1. 1 \in 1 .. Len(p) /\ 1 \in 1 .. Len(q) /\ 2 \in 1 .. Len(q)
      BY <2>1
    <3>2. /\ p \o q \in Seq(StepOf) /\ Len(p \o q) = Len(p) + Len(q)
          /\ \A i \in 1 .. Len(p) : (p \o q)[i] = p[i]
          /\ \A i \in 1 .. Len(q) : (p \o q)[Len(p) + i] = q[i]
      BY Joined
    <3>. QED
      BY <2>1, <3>1, <3>2
  <2>. QED
    BY <2>1
<1>4. \A p, q \in Seq(StepOf) : Len(p) = 3 /\ Len(q) = 1 =>
        /\ p \o q \in Seq(StepOf) /\ Len(p \o q) = 4
        /\ \A i \in 1 .. 3 : (p \o q)[i] = p[i]
        /\ (p \o q)[4] = q[1]
  <2>. HIDE DEF StepOf
  <2>1. ASSUME NEW p \in Seq(StepOf), NEW q \in Seq(StepOf),
               Len(p) = 3, Len(q) = 1
        PROVE  /\ p \o q \in Seq(StepOf) /\ Len(p \o q) = 4
               /\ \A i \in 1 .. 3 : (p \o q)[i] = p[i]
               /\ (p \o q)[3 + 1] = q[1]
    <3>1. 1 .. Len(p) = 1 .. 3 /\ 1 \in 1 .. Len(q)
      BY <2>1
    <3>2. /\ p \o q \in Seq(StepOf) /\ Len(p \o q) = Len(p) + Len(q)
          /\ \A i \in 1 .. Len(p) : (p \o q)[i] = p[i]
          /\ \A i \in 1 .. Len(q) : (p \o q)[Len(p) + i] = q[i]
      BY Joined
    <3>. QED
      BY <2>1, <3>1, <3>2
  <2>. QED
    BY <2>1
<1>. DEFINE small == <<Do("putChain", k)>> \o FileRemoval(k)
            large == <<Do("putDek", k), Do("putFile", k), Do("dropChain", k)>>
            end == <<Do("addIndex", k)>>
<1>5. /\ small \in Seq(StepOf) /\ Len(small) = 3
      /\ small[1] = Do("putChain", k) /\ small[2] = Do("dropFile", k)
      /\ small[3] = Do("dropDek", k)
  BY <1>1, <1>2, <1>3 DEF FileRemoval
<1>6. /\ large \in Seq(StepOf) /\ Len(large) = 3
      /\ large[1] = Do("putDek", k) /\ large[2] = Do("putFile", k)
      /\ large[3] = Do("dropChain", k)
  BY <1>1, <1>2
<1>7. end \in Seq(StepOf) /\ Len(end) = 1 /\ end[1] = Do("addIndex", k)
  BY <1>1, <1>2
<1>8. SetSteps(k, v) = (IF v \in Large THEN large ELSE small) \o end
  BY DEF SetSteps, GoesToDisk
<1>. HIDE DEF small, large, end
<1>. QED
  BY <1>4, <1>5, <1>6, <1>7, <1>8

-----------------------------------------------------------------------------
(* The inductive invariant.                                                *)

\* Neither the keychain nor a file that can be opened has a value for k.
Gone(k) == chain[k] = Absent /\ (disk[k] = Absent \/ dek[k] = 0)

\* What is stored, wherever, a reader may see.
ReadInv ==
  \A k \in Key :
    /\ chain[k] # Absent => chain[k] \in visible[k]
    /\ disk[k] # Absent => disk[k].value \in visible[k]
    /\ k \notin resealing /\ disk[k] # Absent => dek[k] \in {0, disk[k].dek}
    /\ k \notin resealing /\ Gone(k) => Absent \in visible[k]

\* How many steps of its program a Set has taken.
Taken == 4 - Len(op.todo)

\* What these steps have done of a value for the keychain, and of one for a file.
SmallDone(k) ==
  /\ Taken >= 1 => chain[k] = op.value
  /\ Taken >= 2 => disk[k] = Absent
  /\ Taken >= 3 => dek[k] = 0
  /\ Taken = 4 => k \in index

LargeDone(k) ==
  /\ Taken < 2 /\ k \notin resealing => disk[k] = Absent
  /\ Taken = 1 => dek[k] = used.sets
  /\ Taken >= 2 => disk[k] # Absent /\ disk[k].value = op.value
                   /\ disk[k].dek = dek[k] /\ dek[k] # 0
  /\ Taken >= 3 => chain[k] = Absent
  /\ Taken = 4 => k \in index

SetOp(k) ==
  /\ op.keys = {k} /\ op.value \in Value /\ op.value \in visible[k]
  /\ used.sets > 0
  /\ op.failed => op.todo = <<>>
  /\ ~op.failed =>
       /\ Taken \in 0 .. 4
       /\ \A i \in 1 .. Len(op.todo) :
            op.todo[i] = SetSteps(k, op.value)[i + Taken]
       /\ op.value \notin Large => SmallDone(k)
       /\ op.value \in Large => LargeDone(k)

SetInv == op # Idle /\ op.kind = "set" => \E k \in Key : SetOp(k)

WipeStep ==
  IF op.kind = "remove"
  THEN RemovalStep(op.keys) \cup [do : {"dropIndex"}, key : op.keys]
  ELSE RemovalStep(Key) \cup [do : {"clearIndex", "rmDir"}, key : {Absent}]

\* What a removal or a reset finds it has still to remove.
WipeInv ==
  op # Idle /\ op.kind # "set" =>
    /\ op.value = Absent
    /\ op.todo \in Seq(WipeStep)
    /\ \A k \in Key :
         k \in op.keys \/ op.kind = "reset" => Absent \in visible[k]
    /\ op.kind = "reset" => index \subseteq op.keys
    /\ ~op.failed => \A k \in op.keys :
         /\ chain[k] # Absent => Occurs(Do("dropChain", k), op.todo)
         /\ disk[k] # Absent => Occurs(Do("dropFile", k), op.todo)
         /\ dek[k] # 0 => Occurs(Do("dropDek", k), op.todo)

\* Where no operation was cut short, the index lists what is stored.
IndexInv ==
  /\ op # Idle => op.keys \subseteq interrupted
  /\ \A k \in Key \ interrupted : Stored(k) => k \in index
  /\ done = [kind |-> "reset", ok |-> TRUE] /\ interrupted = {} =>
       \A k \in Key : ~Stored(k)
  /\ IsFiniteSet(index)

Inv == TypeOK /\ ReadInv /\ SetInv /\ WipeInv /\ IndexInv

USE CredentialStoreAssumption, NothingAssumption

LEMMA InitInv == Init => Inv
<1>. SUFFICES ASSUME Init PROVE Inv
  OBVIOUS
<1>1. TypeOK
  BY DEF Init, TypeOK
<1>2. IsFiniteSet({})
  BY FS_EmptySet
<1>. QED
  BY <1>1, <1>2 DEF Init, Inv, ReadInv, SetInv, WipeInv, IndexInv, Gone, Stored

-----------------------------------------------------------------------------
(* An operation starts, ends, or is cut short.                             *)

LEMMA SetStartsInv ==
  ASSUME Inv, NEW k \in Key, NEW v \in Value, Set(k, v)
  PROVE  Inv'
<1>. DEFINE p == SetSteps(k, v)
            new == [kind |-> "set", keys |-> {k}, value |-> v, todo |-> p,
                    failed |-> FALSE]
<1>1. /\ op = Idle /\ op' = new
      /\ used.sets < MaxSets /\ used' = [used EXCEPT !.sets = @ + 1]
      /\ interrupted' = interrupted \cup {k}
      /\ visible' = [visible EXCEPT ![k] = @ \cup {v}]
      /\ resealing' = IF v \in Large /\ disk[k] # Absent
                      THEN resealing \cup {k} ELSE resealing
      /\ UNCHANGED <<chain, dek, disk, index, done>>
  BY DEF Set, Starts, storeVars
<1>2. /\ p \in Seq(StepOf) /\ Len(p) = 4
  BY SetStepsIs
<1>. HIDE DEF p
<1>3. new \in Op /\ new # Idle
  <2>1. new \in Op
    BY <1>2 DEF Op
  <2>. QED
    BY <2>1
<1>4. /\ used.sets \in Nat /\ used'.sets \in Nat /\ used'.sets > 0
      /\ used' \in [sets : 0 .. MaxSets, removals : 0 .. MaxRemovals,
                    failures : 0 .. MaxFailures, crashes : 0 .. MaxCrashes]
  BY <1>1 DEF Inv, TypeOK
<1>5. TypeOK'
  BY <1>1, <1>3, <1>4 DEF Inv, TypeOK
<1>6. ReadInv'
  BY <1>1 DEF Inv, TypeOK, ReadInv, Gone
<1>7. SetInv'
  <2>1. /\ op'.keys = {k} /\ op'.value = v /\ op'.todo = p
          /\ op'.failed = FALSE
    BY <1>1
  <2>2. Taken' = 0 /\ \A i \in 1 .. Len(p) : p[i + 0] = p[i]
    BY <1>2, <2>1 DEF Taken
  <2>3. /\ v \in visible'[k]
        /\ v \in Large /\ k \notin resealing' => disk'[k] = Absent
    BY <1>1 DEF Inv, TypeOK
  <2>4. op'.value \notin Large => SmallDone(k)'
    BY <2>2 DEF SmallDone
  <2>5. op'.value \in Large => LargeDone(k)'
    BY <2>1, <2>2, <2>3 DEF LargeDone
  <2>6. \A i \in 1 .. Len(op'.todo) :
          op'.todo[i] = SetSteps(k, op'.value)[i + Taken']
    BY <2>1, <2>2 DEF p
  <2>7. SetOp(k)'
    <3>. HIDE DEF Taken, SmallDone, LargeDone
    <3>. QED
      BY <1>4, <2>1, <2>2, <2>3, <2>4, <2>5, <2>6 DEF SetOp
  <2>. QED
    BY <2>7 DEF SetInv
<1>8. WipeInv'
  BY <1>1 DEF WipeInv
<1>9. IndexInv'
  BY <1>1 DEF Inv, IndexInv, Stored
<1>. QED
  BY <1>5, <1>6, <1>7, <1>8, <1>9 DEF Inv

LEMMA RemoveStartsInv == ASSUME Inv, StartRemove PROVE Inv'
<1>. PICK k \in Key :
       /\ used.removals < MaxRemovals
       /\ used' = [used EXCEPT !.removals = @ + 1]
       /\ Starts("remove", {k}, Absent, RemoveSteps(k))
       /\ visible' = [visible EXCEPT ![k] = @ \cup {Absent}]
       /\ UNCHANGED <<storeVars, done, resealing>>
  BY DEF StartRemove
<1>. DEFINE p == RemoveSteps(k)
            S == RemovalStep({k}) \cup [do : {"dropIndex"}, key : {k}]
            new == [kind |-> "remove", keys |-> {k}, value |-> Absent, todo |-> p,
                    failed |-> FALSE]
<1>1. /\ op = Idle /\ op' = new
      /\ used.removals < MaxRemovals
      /\ used' = [used EXCEPT !.removals = @ + 1]
      /\ interrupted' = interrupted \cup {k}
      /\ visible' = [visible EXCEPT ![k] = @ \cup {Absent}]
      /\ UNCHANGED <<chain, dek, disk, index, done, resealing>>
  BY DEF Starts, storeVars
<1>2. /\ p \in Seq(S) /\ Occurs(Do("dropChain", k), p)
      /\ Occurs(Do("dropFile", k), p) /\ Occurs(Do("dropDek", k), p)
  BY RemoveStepsIs
<1>3. p \in Seq(StepOf)
  <2>1. S \subseteq StepOf
    BY DEF StepOf, RemovalStep
  <2>. HIDE DEF S, p
  <2>. QED
    BY <1>2, <2>1
<1>. HIDE DEF p
<1>4. new \in Op /\ new # Idle
  <2>1. new \in Op
    BY <1>3 DEF Op
  <2>. QED
    BY <2>1
<1>5. used' \in [sets : 0 .. MaxSets, removals : 0 .. MaxRemovals,
                 failures : 0 .. MaxFailures, crashes : 0 .. MaxCrashes]
  BY <1>1 DEF Inv, TypeOK
<1>6. TypeOK'
  BY <1>1, <1>4, <1>5 DEF Inv, TypeOK
<1>7. ReadInv'
  BY <1>1 DEF Inv, TypeOK, ReadInv, Gone
<1>8. SetInv'
  BY <1>1 DEF SetInv
<1>9. WipeInv'
  <2>1. WipeStep' = S
    BY <1>1 DEF WipeStep
  <2>2. op'.todo \in Seq(WipeStep')
    BY <1>1, <1>2, <2>1
  <2>3. \A j \in Key : j \in op'.keys \/ op'.kind = "reset"
                         => Absent \in visible'[j]
    BY <1>1 DEF Inv, TypeOK
  <2>4. ~op'.failed => \A j \in op'.keys :
          /\ Occurs(Do("dropChain", j), op'.todo)
          /\ Occurs(Do("dropFile", j), op'.todo)
          /\ Occurs(Do("dropDek", j), op'.todo)
    BY <1>1, <1>2
  <2>5. op'.kind # "reset" /\ op'.value = Absent
    BY <1>1
  <2>. HIDE DEF S, new
  <2>. QED
    BY <2>2, <2>3, <2>4, <2>5 DEF WipeInv, Occurs
<1>10. IndexInv'
  BY <1>1 DEF Inv, IndexInv, Stored
<1>. QED
  BY <1>6, <1>7, <1>8, <1>9, <1>10 DEF Inv

LEMMA ResetStartsInv ==
  ASSUME Inv, StartReset
  PROVE  /\ Inv' /\ op' # Idle /\ op'.kind = "reset" /\ UNCHANGED chain
         /\ Occurs(Do("rmDir", Absent), op'.todo)
<1>. PICK keys \in SetToSeqs(index) :
       /\ used.removals < MaxRemovals
       /\ used' = [used EXCEPT !.removals = @ + 1]
       /\ Starts("reset", index, Absent, ResetSteps(keys))
       /\ visible' = [k \in Key |-> visible[k] \cup {Absent}]
       /\ UNCHANGED <<storeVars, done, resealing>>
  BY DEF StartReset
<1>. DEFINE p == ResetSteps(keys)
            S == RemovalStep(Key)
                   \cup [do : {"clearIndex", "rmDir"}, key : {Absent}]
            new == [kind |-> "reset", keys |-> index, value |-> Absent,
                    todo |-> p, failed |-> FALSE]
<1>1. /\ op = Idle /\ op' = new
      /\ used.removals < MaxRemovals
      /\ used' = [used EXCEPT !.removals = @ + 1]
      /\ interrupted' = interrupted \cup index
      /\ visible' = [k \in Key |-> visible[k] \cup {Absent}]
      /\ UNCHANGED <<chain, dek, disk, index, done, resealing>>
  BY DEF Starts, storeVars
<1>2. keys \in Seq(index) /\ \A k \in index : \E i \in DOMAIN keys : keys[i] = k
  <2>1. /\ keys \in [1 .. Cardinality(index) -> index]
        /\ \A i, j \in DOMAIN keys : keys[i] = keys[j] => i = j
    BY DEF SetToSeqs
  <2>2. IsFiniteSet(index) /\ Cardinality(index) \in Nat
    BY FS_CardinalityType DEF Inv, IndexInv
  <2>. DEFINE D == 1 .. Cardinality(index)
  <2>3. keys \in Seq(index) /\ DOMAIN keys = D
    BY <2>1, <2>2
  <2>4. Cardinality(D) = Cardinality(index)
    <3>1. \A n \in Nat : Cardinality(1 .. n) = n
      <4>. TAKE n \in Nat
      <4>1. n \in Int /\ 1 \in Int
        OBVIOUS
      <4>2. Cardinality(1 .. n) = IF 1 > n THEN 0 ELSE n - 1 + 1
        BY <4>1, FS_Interval
      <4>. QED
        BY <4>2
    <3>. QED
      BY <2>2, <3>1
  <2>5. keys \in Injection(D, index)
    BY <2>1, <2>3 DEF Injection, IsInjective
  <2>6. keys \in Surjection(D, index)
    BY <2>2, <2>4, <2>5, FS_Injection
  <2>. QED
    BY <2>3, <2>6 DEF Surjection
<1>3. /\ p \in Seq(S) /\ p \in Seq(StepOf) /\ Occurs(Do("rmDir", Absent), p)
      /\ \A k \in index : /\ Occurs(Do("dropChain", k), p)
                          /\ Occurs(Do("dropFile", k), p)
                          /\ Occurs(Do("dropDek", k), p)
  <2>1. keys \in Seq(Key)
    <3>1. index \subseteq Key
      BY DEF Inv, TypeOK
    <3>. QED
      BY <1>2, <3>1
  <2>2. /\ p \in Seq(S) /\ Occurs(Do("rmDir", Absent), p)
        /\ \A i \in DOMAIN keys : /\ Occurs(Do("dropChain", keys[i]), p)
                                  /\ Occurs(Do("dropFile", keys[i]), p)
                                  /\ Occurs(Do("dropDek", keys[i]), p)
    BY <2>1, ResetStepsIs
  <2>3. S \subseteq StepOf
    BY DEF StepOf, RemovalStep
  <2>. HIDE DEF S, p
  <2>4. p \in Seq(StepOf)
    BY <2>2, <2>3
  <2>. QED
    BY <1>2, <2>2, <2>4
<1>. HIDE DEF p
<1>4. new \in Op /\ new # Idle
  <2>1. new \in Op
    BY <1>3 DEF Op, Inv, TypeOK
  <2>. QED
    BY <2>1
<1>5. used' \in [sets : 0 .. MaxSets, removals : 0 .. MaxRemovals,
                 failures : 0 .. MaxFailures, crashes : 0 .. MaxCrashes]
  BY <1>1 DEF Inv, TypeOK
<1>6. TypeOK'
  BY <1>1, <1>4, <1>5 DEF Inv, TypeOK
<1>7. ReadInv'
  BY <1>1 DEF Inv, TypeOK, ReadInv, Gone
<1>8. SetInv'
  BY <1>1 DEF SetInv
<1>9. WipeInv'
  <2>1. WipeStep' = S
    BY <1>1 DEF WipeStep
  <2>2. op'.todo \in Seq(WipeStep')
    BY <1>1, <1>3, <2>1
  <2>3. \A j \in Key : Absent \in visible'[j]
    BY <1>1
  <2>4. \A j \in op'.keys :
          /\ Occurs(Do("dropChain", j), op'.todo)
          /\ Occurs(Do("dropFile", j), op'.todo)
          /\ Occurs(Do("dropDek", j), op'.todo)
    BY <1>1, <1>3
  <2>5. op'.value = Absent /\ index' \subseteq op'.keys
    BY <1>1
  <2>. HIDE DEF S, new
  <2>. QED
    BY <2>2, <2>3, <2>4, <2>5 DEF WipeInv, Occurs
<1>10. IndexInv'
  BY <1>1 DEF Inv, IndexInv, Stored
<1>11. Inv'
  BY <1>6, <1>7, <1>8, <1>9, <1>10 DEF Inv
<1>. QED
  BY <1>1, <1>3, <1>4, <1>11

LEMMA BlindResetStartsInv ==
  ASSUME Inv, StartBlindReset
  PROVE  Inv' /\ op' # Idle /\ op'.kind = "reset" /\ op'.failed /\ UNCHANGED chain
<1>. DEFINE p == <<Do("rmDir", Absent)>>
            S == RemovalStep(Key)
                   \cup [do : {"clearIndex", "rmDir"}, key : {Absent}]
            new == [kind |-> "reset", keys |-> index, value |-> Absent,
                    todo |-> p, failed |-> TRUE]
<1>1. /\ op = Idle /\ op' = new
      /\ used.removals < MaxRemovals /\ used.failures < MaxFailures
      /\ used' = [used EXCEPT !.removals = @ + 1, !.failures = @ + 1]
      /\ interrupted' = interrupted \cup index
      /\ visible' = [k \in Key |-> visible[k] \cup {Absent}]
      /\ UNCHANGED <<chain, dek, disk, index, done, resealing>>
  BY DEF StartBlindReset, storeVars
<1>2. p \in Seq(S) /\ p \in Seq(StepOf)
  <2>1. Do("rmDir", Absent) \in S /\ Do("rmDir", Absent) \in StepOf
    BY DEF Do, StepOf
  <2>. HIDE DEF S
  <2>. QED
    BY <2>1
<1>. HIDE DEF p
<1>3. new \in Op /\ new # Idle
  <2>1. new \in Op
    BY <1>2 DEF Op, Inv, TypeOK
  <2>. QED
    BY <2>1
<1>4. used' \in [sets : 0 .. MaxSets, removals : 0 .. MaxRemovals,
                 failures : 0 .. MaxFailures, crashes : 0 .. MaxCrashes]
  <2>. DEFINE half == [used EXCEPT !.removals = @ + 1]
  <2>1. /\ half \in [sets : 0 .. MaxSets, removals : 0 .. MaxRemovals,
                     failures : 0 .. MaxFailures, crashes : 0 .. MaxCrashes]
        /\ half.failures = used.failures
    BY <1>1 DEF Inv, TypeOK
  <2>2. used' = [half EXCEPT !.failures = @ + 1]
    BY <1>1
  <2>. HIDE DEF half
  <2>. QED
    BY <1>1, <2>1, <2>2
<1>5. TypeOK'
  BY <1>1, <1>3, <1>4 DEF Inv, TypeOK
<1>6. ReadInv'
  BY <1>1 DEF Inv, TypeOK, ReadInv, Gone
<1>7. SetInv'
  BY <1>1 DEF SetInv
<1>8. WipeInv'
  <2>1. WipeStep' = S
    BY <1>1 DEF WipeStep
  <2>2. op'.todo \in Seq(WipeStep')
    BY <1>1, <1>2, <2>1
  <2>3. \A j \in Key : Absent \in visible'[j]
    BY <1>1
  <2>4. op'.value = Absent /\ index' \subseteq op'.keys /\ op'.failed
    BY <1>1
  <2>. HIDE DEF S, new
  <2>. QED
    BY <2>2, <2>3, <2>4 DEF WipeInv
<1>9. IndexInv'
  BY <1>1 DEF Inv, IndexInv, Stored
<1>10. Inv'
  BY <1>5, <1>6, <1>7, <1>8, <1>9 DEF Inv
<1>. QED
  BY <1>1, <1>3, <1>10

LEMMA CrashInv == ASSUME Inv, Crash PROVE Inv'
<1>1. /\ op' = Idle /\ used.crashes < MaxCrashes
      /\ used' = [used EXCEPT !.crashes = @ + 1]
      /\ UNCHANGED <<chain, dek, disk, index, done, visible, interrupted,
                     resealing>>
  BY DEF Crash, storeVars, historyVars
<1>2. TypeOK'
  BY <1>1 DEF Inv, TypeOK
<1>. QED
  BY <1>1, <1>2 DEF Inv, ReadInv, Gone, SetInv, WipeInv, IndexInv, Stored

-----------------------------------------------------------------------------
(* A step succeeds.                                                        *)

LEMMA HeadAndTail ==
  ASSUME NEW S, NEW p \in Seq(S), p # <<>>
  PROVE  /\ Head(p) \in S /\ Head(p) = p[1]
         /\ Tail(p) \in Seq(S) /\ Len(p) \in Nat \ {0}
         /\ Len(Tail(p)) = Len(p) - 1
         /\ \A i \in 1 .. Len(Tail(p)) : Tail(p)[i] = p[i + 1]
         /\ \A x : Occurs(x, p) => x = Head(p) \/ Occurs(x, Tail(p))
<1>1. /\ Head(p) \in S /\ Head(p) = p[1]
      /\ Tail(p) \in Seq(S) /\ Len(p) \in Nat \ {0}
      /\ Len(Tail(p)) = Len(p) - 1
      /\ \A i \in 1 .. Len(Tail(p)) : Tail(p)[i] = p[i + 1]
  OBVIOUS
<1>2. ASSUME NEW x, Occurs(x, p), x # Head(p) PROVE Occurs(x, Tail(p))
  <2>1. PICK i \in 1 .. Len(p) : p[i] = x
    BY <1>2 DEF Occurs
  <2>2. i # 1 /\ i \in Nat /\ i <= Len(p)
    BY <1>1, <1>2, <2>1
  <2>. DEFINE j == i - 1
  <2>3. j \in 1 .. Len(Tail(p)) /\ j + 1 = i
    BY <1>1, <2>2
  <2>4. Tail(p)[j] = x
    BY <1>1, <2>1, <2>3
  <2>. QED
    BY <2>3, <2>4 DEF Occurs
<1>. QED
  BY <1>1, <1>2

\* What the steps of a Set do, each to its key.
LEMMA SetEffect ==
  ASSUME Inv, StepSucceeds, NEW k \in Key, SetOp(k)
  PROVE  LET v == op.value
             n == Taken
         IN  /\ v \in Value /\ n \in 0 .. 3 /\ Taken' = n + 1
             /\ op' \in Op /\ op' # Idle
             /\ op'.kind = op.kind /\ op'.keys = {k} /\ op'.value = v
             /\ ~op.failed /\ ~op'.failed
             /\ \A i \in 1 .. Len(op'.todo) :
                  op'.todo[i] = SetSteps(k, v)[i + (n + 1)]
             /\ chain' = IF v \notin Large /\ n = 0 THEN [chain EXCEPT ![k] = v]
                         ELSE IF v \in Large /\ n = 2
                              THEN [chain EXCEPT ![k] = Absent] ELSE chain
             /\ dek' = IF v \notin Large /\ n = 2 THEN [dek EXCEPT ![k] = 0]
                       ELSE IF v \in Large /\ n = 0
                            THEN [dek EXCEPT ![k] = used.sets] ELSE dek
             /\ disk' = IF v \notin Large /\ n = 1
                        THEN [disk EXCEPT ![k] = Absent]
                        ELSE IF v \in Large /\ n = 1
                             THEN [disk EXCEPT ![k] =
                                     [value |-> v, dek |-> used.sets]]
                             ELSE disk
             /\ index' = IF n = 3 THEN index \cup {k} ELSE index
<1>. DEFINE v == op.value
            n == Taken
            s == Head(op.todo)
            rest == Tail(op.todo)
            p == SetSteps(k, v)
<1>1. /\ op # Idle /\ op.todo # <<>> /\ op \in Op /\ op.todo \in Seq(StepOf)
      /\ chain' = Chain(s) /\ dek' = Dek(s) /\ disk' = Disk(s)
      /\ index' = Index(s) /\ op' = [op EXCEPT !.todo = rest]
  BY DEF StepSucceeds, Busy, Next1, Inv, TypeOK, Op
<1>2. /\ s = op.todo[1] /\ rest \in Seq(StepOf) /\ Len(op.todo) \in Nat \ {0}
      /\ Len(rest) = Len(op.todo) - 1
      /\ \A i \in 1 .. Len(rest) : rest[i] = op.todo[i + 1]
  BY <1>1, HeadAndTail
<1>3. /\ ~op.failed /\ v \in Value /\ op.keys = {k} /\ n \in 0 .. 4
      /\ \A i \in 1 .. Len(op.todo) : op.todo[i] = p[i + n]
  <2>. HIDE DEF n, p
  <2>1. ~op.failed /\ v \in Value /\ op.keys = {k}
    BY <1>1 DEF SetOp
  <2>. QED
    BY <2>1 DEF SetOp, n, p
<1>4. /\ op' \in Op /\ op'.kind = op.kind /\ op'.keys = op.keys
      /\ op'.value = op.value /\ op'.failed = op.failed /\ op'.todo = rest
  <2>. HIDE DEF rest
  <2>. QED
    BY <1>1, <1>2 DEF Op
<1>5. op' # Idle
  BY <1>4
<1>6. n = 4 - Len(op.todo) /\ Taken' = 4 - Len(rest)
  BY <1>4 DEF Taken
<1>. HIDE DEF n, s, rest
<1>7. n \in 0 .. 3 /\ Taken' = n + 1
  BY <1>2, <1>3, <1>6
<1>8. s = p[1 + n]
  BY <1>2, <1>3
<1>9. \A i \in 1 .. Len(rest) : rest[i] = p[i + (n + 1)]
  <2>. TAKE i \in 1 .. Len(rest)
  <2>1. i + 1 \in 1 .. Len(op.todo) /\ (i + 1) + n = i + (n + 1)
    BY <1>2, <1>7
  <2>. QED
    BY <1>2, <1>3, <2>1
<1>10. /\ v \notin Large => /\ p[1] = Do("putChain", k)
                            /\ p[2] = Do("dropFile", k)
                            /\ p[3] = Do("dropDek", k)
       /\ v \in Large => /\ p[1] = Do("putDek", k) /\ p[2] = Do("putFile", k)
                         /\ p[3] = Do("dropChain", k)
       /\ p[4] = Do("addIndex", k)
  BY SetStepsIs
<1>11. /\ v \notin Large =>
            /\ n = 0 => s = Do("putChain", k)
            /\ n = 1 => s = Do("dropFile", k)
            /\ n = 2 => s = Do("dropDek", k)
       /\ v \in Large =>
            /\ n = 0 => s = Do("putDek", k)
            /\ n = 1 => s = Do("putFile", k)
            /\ n = 2 => s = Do("dropChain", k)
       /\ n = 3 => s = Do("addIndex", k)
  <2>. HIDE DEF p
  <2>. QED
    BY <1>7, <1>8, <1>10
<1>12. \A d :
         /\ Chain(Do(d, k)) =
              IF d = "putChain" THEN [chain EXCEPT ![k] = v]
              ELSE IF d = "dropChain" THEN [chain EXCEPT ![k] = Absent] ELSE chain
         /\ Dek(Do(d, k)) =
              IF d = "putDek" THEN [dek EXCEPT ![k] = used.sets]
              ELSE IF d = "dropDek" THEN [dek EXCEPT ![k] = 0] ELSE dek
         /\ d # "rmDir" => Disk(Do(d, k)) =
              IF d = "putFile"
              THEN [disk EXCEPT ![k] = [value |-> v, dek |-> used.sets]]
              ELSE IF d = "dropFile" THEN [disk EXCEPT ![k] = Absent] ELSE disk
         /\ d # "dropIndex" /\ d # "clearIndex" => Index(Do(d, k)) =
              IF d = "addIndex" THEN index \cup {k} ELSE index
  <2>1. \A d : Do(d, k).do = d /\ Do(d, k).key = k
    BY DEF Do
  <2>. QED
    BY <2>1 DEF Chain, Dek, Disk, Index
<1>13. /\ chain' = IF v \notin Large /\ n = 0 THEN [chain EXCEPT ![k] = v]
                   ELSE IF v \in Large /\ n = 2
                        THEN [chain EXCEPT ![k] = Absent] ELSE chain
       /\ dek' = IF v \notin Large /\ n = 2 THEN [dek EXCEPT ![k] = 0]
                 ELSE IF v \in Large /\ n = 0
                      THEN [dek EXCEPT ![k] = used.sets] ELSE dek
       /\ disk' = IF v \notin Large /\ n = 1
                  THEN [disk EXCEPT ![k] = Absent]
                  ELSE IF v \in Large /\ n = 1
                       THEN [disk EXCEPT ![k] =
                               [value |-> v, dek |-> used.sets]]
                       ELSE disk
       /\ index' = IF n = 3 THEN index \cup {k} ELSE index
  <2>. HIDE DEF p
  <2>1. n \in {0, 1, 2, 3}
    BY <1>7
  <2>2. CASE v \notin Large
    BY <1>1, <1>11, <1>12, <2>1, <2>2
  <2>3. CASE v \in Large
    BY <1>1, <1>11, <1>12, <2>1, <2>3
  <2>. QED
    BY <2>2, <2>3
<1>. HIDE DEF p
<1>. QED
  BY <1>3, <1>4, <1>5, <1>7, <1>9, <1>13 DEF n, p

LEMMA SetStepInv ==
  ASSUME Inv, StepSucceeds, op.kind = "set"
  PROVE  Inv'
<1>1. op # Idle /\ UNCHANGED <<done, used, visible, interrupted, resealing>>
  BY DEF StepSucceeds, Busy, historyVars
<1>. PICK k \in Key : SetOp(k)
  BY <1>1 DEF Inv, SetInv
<1>. DEFINE v == op.value
            n == Taken
<1>2. /\ v \in Value /\ n \in 0 .. 3 /\ Taken' = n + 1
      /\ op' \in Op /\ op' # Idle
      /\ op'.kind = op.kind /\ op'.keys = {k} /\ op'.value = v
      /\ ~op.failed /\ ~op'.failed
      /\ \A i \in 1 .. Len(op'.todo) :
           op'.todo[i] = SetSteps(k, v)[i + (n + 1)]
      /\ chain' = IF v \notin Large /\ n = 0 THEN [chain EXCEPT ![k] = v]
                  ELSE IF v \in Large /\ n = 2
                       THEN [chain EXCEPT ![k] = Absent] ELSE chain
      /\ dek' = IF v \notin Large /\ n = 2 THEN [dek EXCEPT ![k] = 0]
                ELSE IF v \in Large /\ n = 0
                     THEN [dek EXCEPT ![k] = used.sets] ELSE dek
      /\ disk' = IF v \notin Large /\ n = 1
                 THEN [disk EXCEPT ![k] = Absent]
                 ELSE IF v \in Large /\ n = 1
                      THEN [disk EXCEPT ![k] =
                              [value |-> v, dek |-> used.sets]]
                      ELSE disk
      /\ index' = IF n = 3 THEN index \cup {k} ELSE index
  BY SetEffect
<1>3. /\ used.sets \in 1 .. MaxSets /\ v \in visible[k] /\ k \in op.keys
      /\ op.keys = {k}
      /\ v \notin Large => SmallDone(k)
      /\ v \in Large => LargeDone(k)
  <2>1. used.sets \in 0 .. MaxSets
    BY DEF Inv, TypeOK
  <2>. HIDE DEF n
  <2>. QED
    BY <1>2, <2>1 DEF SetOp
<1>. DEFINE w == used.sets
<1>4. /\ chain \in [Key -> (Value \ Large) \cup {Absent}]
      /\ dek \in [Key -> 0 .. MaxSets] /\ disk \in [Key -> File \cup {Absent}]
      /\ index \subseteq Key
  BY DEF Inv, TypeOK
<1>5. v \notin Large =>
        /\ n >= 1 => chain[k] = v
        /\ n >= 2 => disk[k] = Absent
        /\ n >= 3 => dek[k] = 0
  BY <1>3 DEF SmallDone
<1>6. v \in Large =>
        /\ n < 2 /\ k \notin resealing => disk[k] = Absent
        /\ n = 1 => dek[k] = w
        /\ n >= 2 => disk[k] # Absent /\ disk[k].value = v
                     /\ disk[k].dek = dek[k] /\ dek[k] # 0
        /\ n >= 3 => chain[k] = Absent
  BY <1>3 DEF LargeDone
<1>. HIDE DEF v, n, w
<1>7. v \in Large => [value |-> v, dek |-> w] \in File
  BY <1>3 DEF File, w
<1>8. TypeOK'
  <2>1. chain' \in [Key -> (Value \ Large) \cup {Absent}]
    BY <1>2, <1>4
  <2>2. dek' \in [Key -> 0 .. MaxSets]
    BY <1>2, <1>3, <1>4
  <2>3. disk' \in [Key -> File \cup {Absent}]
    BY <1>2, <1>4, <1>7 DEF w
  <2>4. index' \subseteq Key
    BY <1>2, <1>4
  <2>. QED
    BY <1>1, <1>2, <2>1, <2>2, <2>3, <2>4 DEF Inv, TypeOK
<1>9. \A j \in Key \ {k} : /\ chain'[j] = chain[j] /\ dek'[j] = dek[j]
                           /\ disk'[j] = disk[j]
  BY <1>2, <1>4
\* What the step makes of k.
<1>10. /\ chain'[k] = IF v \notin Large /\ n = 0 THEN v
                      ELSE IF v \in Large /\ n = 2 THEN Absent ELSE chain[k]
       /\ dek'[k] = IF v \notin Large /\ n = 2 THEN 0
                    ELSE IF v \in Large /\ n = 0 THEN w ELSE dek[k]
       /\ v \notin Large => disk'[k] = IF n = 1 THEN Absent ELSE disk[k]
       /\ v \in Large /\ n # 1 => disk'[k] = disk[k]
       /\ v \in Large /\ n = 1 =>
            /\ disk'[k] \in File /\ disk'[k] # Absent
            /\ disk'[k].value = v /\ disk'[k].dek = w
  <2>1. /\ chain'[k] = IF v \notin Large /\ n = 0 THEN v
                       ELSE IF v \in Large /\ n = 2 THEN Absent ELSE chain[k]
        /\ dek'[k] = IF v \notin Large /\ n = 2 THEN 0
                     ELSE IF v \in Large /\ n = 0 THEN w ELSE dek[k]
        /\ v \notin Large => disk'[k] = IF n = 1 THEN Absent ELSE disk[k]
        /\ v \in Large /\ n # 1 => disk'[k] = disk[k]
    BY <1>2, <1>4 DEF w
  <2>2. v \in Large /\ n = 1 => disk'[k] = [value |-> v, dek |-> w]
    BY <1>2, <1>4 DEF w
  <2>. QED
    BY <1>7, <2>1, <2>2
<1>11. n \in {0, 1, 2, 3} /\ w # 0 /\ v # Absent
  BY <1>2, <1>3 DEF w
<1>12. /\ chain[k] # Absent => chain[k] \in visible[k]
       /\ disk[k] # Absent => disk[k].value \in visible[k]
       /\ k \notin resealing /\ disk[k] # Absent => dek[k] \in {0, disk[k].dek}
       /\ k \notin resealing /\ Gone(k) => Absent \in visible[k]
  BY DEF Inv, ReadInv
<1>13. /\ chain'[k] # Absent => chain'[k] \in visible[k]
       /\ disk'[k] # Absent => disk'[k].value \in visible[k]
       /\ k \notin resealing /\ disk'[k] # Absent
            => dek'[k] \in {0, disk'[k].dek}
       /\ k \notin resealing /\ chain'[k] = Absent
            /\ (disk'[k] = Absent \/ dek'[k] = 0) => Absent \in visible[k]
  <2>. USE DEF Gone
  <2>1. CASE v \notin Large
    BY <1>3, <1>5, <1>10, <1>11, <1>12, <2>1 DEF v
  <2>2. CASE v \in Large
    <3>1. v \in visible[k]
      BY <1>3 DEF v
    <3>2. CASE n = 0
      BY <3>1, <1>6, <1>10, <1>11, <1>12, <2>2, <3>2
    <3>3. CASE n = 1
      BY <3>1, <1>6, <1>10, <1>11, <1>12, <2>2, <3>3
    <3>4. CASE n = 2
      BY <3>1, <1>6, <1>10, <1>11, <1>12, <2>2, <3>4
    <3>5. CASE n = 3
      BY <3>1, <1>6, <1>10, <1>11, <1>12, <2>2, <3>5
    <3>. QED
      BY <1>11, <3>2, <3>3, <3>4, <3>5
  <2>. QED
    BY <2>1, <2>2
<1>14. ReadInv'
  <2>1. ASSUME NEW j \in Key
        PROVE  /\ chain'[j] # Absent => chain'[j] \in visible'[j]
               /\ disk'[j] # Absent => disk'[j].value \in visible'[j]
               /\ j \notin resealing' /\ disk'[j] # Absent
                    => dek'[j] \in {0, disk'[j].dek}
               /\ j \notin resealing' /\ Gone(j)' => Absent \in visible'[j]
    <3>1. CASE j = k
      BY <1>1, <1>13, <3>1 DEF Gone
    <3>2. CASE j # k
      BY <1>1, <1>9, <3>2 DEF Gone, Inv, ReadInv
    <3>. QED
      BY <3>1, <3>2
  <2>. QED
    BY <2>1 DEF ReadInv
<1>15. v \notin Large => SmallDone(k)'
  <2>. SUFFICES ASSUME v \notin Large
                PROVE  SmallDone(k)'
    OBVIOUS
  <2>1. /\ n + 1 >= 1 => chain'[k] = v
        /\ n + 1 >= 2 => disk'[k] = Absent
        /\ n + 1 >= 3 => dek'[k] = 0
        /\ n + 1 = 4 => k \in index'
    BY <1>2, <1>5, <1>10, <1>11
  <2>. QED
    BY <1>2, <2>1 DEF SmallDone, v
<1>16. v \in Large => LargeDone(k)'
  <2>. SUFFICES ASSUME v \in Large
                PROVE  LargeDone(k)'
    OBVIOUS
  <2>1. /\ n + 1 < 2 /\ k \notin resealing => disk'[k] = Absent
        /\ n + 1 = 1 => dek'[k] = w
        /\ n + 1 >= 2 => disk'[k] # Absent /\ disk'[k].value = v
                         /\ disk'[k].dek = dek'[k] /\ dek'[k] # 0
        /\ n + 1 >= 3 => chain'[k] = Absent
        /\ n + 1 = 4 => k \in index'
    BY <1>2, <1>6, <1>10, <1>11
  <2>. QED
    BY <1>1, <1>2, <2>1 DEF LargeDone, v, w
<1>17. SetInv'
  <2>1. n + 1 \in 0 .. 4 /\ v \in visible'[k] /\ used'.sets > 0
    BY <1>1, <1>2, <1>3 DEF v
  <2>2. SetOp(k)'
    <3>. HIDE DEF Taken, SmallDone, LargeDone, SetSteps
    <3>. QED
      BY <1>2, <1>15, <1>16, <2>1 DEF SetOp
  <2>. QED
    BY <2>2 DEF SetInv
<1>18. WipeInv'
  BY <1>2 DEF WipeInv
<1>19. IndexInv'
  <2>1. k \in interrupted
    BY <1>1, <1>3 DEF Inv, IndexInv
  <2>2. IsFiniteSet(index')
    BY <1>2, FS_AddElement DEF Inv, IndexInv
  <2>3. \A j \in Key \ interrupted' : Stored(j)' => j \in index'
    BY <1>1, <1>2, <1>9, <2>1 DEF Inv, IndexInv, Stored
  <2>. QED
    BY <1>1, <1>2, <2>1, <2>2, <2>3 DEF IndexInv
<1>. QED
  BY <1>8, <1>14, <1>17, <1>18, <1>19 DEF Inv

\* A removal and a reset only make nothing of what is stored, where a reader
\* may see nothing.
LEMMA WipeEffect ==
  ASSUME Inv, op # Idle, op.kind # "set", op.todo # <<>>
  PROVE  LET s == Head(op.todo)
         IN  /\ s \in WipeStep /\ Tail(op.todo) \in Seq(WipeStep)
             /\ WipeStep \subseteq StepOf /\ Tail(op.todo) \in Seq(StepOf)
             /\ \A x : Occurs(x, op.todo) => x = s \/ Occurs(x, Tail(op.todo))
             /\ Chain(s) = IF s.do = "dropChain"
                           THEN [chain EXCEPT ![s.key] = Absent] ELSE chain
             /\ Dek(s) = IF s.do = "dropDek"
                         THEN [dek EXCEPT ![s.key] = 0] ELSE dek
             /\ Disk(s) = IF s.do = "dropFile"
                          THEN [disk EXCEPT ![s.key] = Absent]
                          ELSE IF s.do = "rmDir" THEN [k \in Key |-> Absent]
                          ELSE disk
             /\ Index(s) = IF s.do = "dropIndex" THEN index \ {s.key}
                           ELSE IF s.do = "clearIndex" THEN {} ELSE index
             /\ s.do \in {"dropChain", "dropDek", "dropFile"} => s = Do(s.do, s.key)
             /\ s.do = "dropIndex" => s.key \in op.keys
             /\ s.do \in {"rmDir", "clearIndex"} => op.kind = "reset"
             /\ s.do \in {"dropChain", "dropDek", "dropFile"} =>
                  s.key \in Key /\ Absent \in visible[s.key]
<1>. DEFINE s == Head(op.todo)
            rest == Tail(op.todo)
<1>1. /\ op.todo \in Seq(WipeStep)
      /\ \A k \in Key :
           k \in op.keys \/ op.kind = "reset" => Absent \in visible[k]
  BY DEF Inv, WipeInv
<1>2. /\ s \in WipeStep /\ rest \in Seq(WipeStep)
      /\ \A x : Occurs(x, op.todo) => x = s \/ Occurs(x, rest)
  BY <1>1, HeadAndTail
<1>3. op \in Op /\ op.keys \subseteq Key
  BY DEF Inv, TypeOK, Op
<1>4. op.kind \in {"remove", "reset"}
  BY <1>3 DEF Op
<1>. HIDE DEF s, rest
<1>5. WipeStep \subseteq StepOf
  BY <1>3 DEF WipeStep, RemovalStep, StepOf
<1>6. rest \in Seq(StepOf)
  <2>. HIDE DEF WipeStep
  <2>. QED
    BY <1>2, <1>5
<1>7. CASE op.kind = "remove"
  <2>1. \/ s \in RemovalStep(op.keys)
        \/ s \in [do : {"dropIndex"}, key : op.keys]
    BY <1>2, <1>7 DEF WipeStep
  <2>2. /\ s.do \in {"dropChain", "dropFile", "dropDek", "dropIndex"}
        /\ s.key \in op.keys /\ s = Do(s.do, s.key)
    BY <2>1 DEF RemovalStep, Do
  <2>. QED
    BY <1>1, <1>2, <1>3, <1>5, <1>6, <2>2
    DEF Chain, Dek, Disk, Index, s, rest
<1>8. CASE op.kind = "reset"
  <2>1. \/ s \in RemovalStep(Key)
        \/ s \in [do : {"clearIndex", "rmDir"}, key : {Absent}]
    BY <1>2, <1>8 DEF WipeStep
  <2>2. CASE s \in RemovalStep(Key)
    <3>1. /\ s.do \in {"dropChain", "dropFile", "dropDek"}
          /\ s.key \in Key /\ s = Do(s.do, s.key)
      BY <2>2 DEF RemovalStep, Do
    <3>. QED
      BY <1>1, <1>2, <1>5, <1>6, <1>8, <3>1
      DEF Chain, Dek, Disk, Index, s, rest
  <2>3. CASE s \in [do : {"clearIndex", "rmDir"}, key : {Absent}]
    <3>1. s.do \in {"clearIndex", "rmDir"}
      BY <2>3
    <3>. QED
      BY <1>1, <1>2, <1>5, <1>6, <1>8, <3>1
      DEF Chain, Dek, Disk, Index, s, rest
  <2>. QED
    BY <2>1, <2>2, <2>3
<1>. QED
  BY <1>4, <1>7, <1>8

\* What only shrinks, where a reader may see nothing, leaves the store right.
LEMMA Shrinks ==
  ASSUME Inv, op # Idle, op.kind # "set",
         UNCHANGED <<done, visible, interrupted, resealing>>,
         used' \in [sets : 0 .. MaxSets, removals : 0 .. MaxRemovals,
                    failures : 0 .. MaxFailures, crashes : 0 .. MaxCrashes],
         op' \in Op, op'.kind = op.kind, op'.keys = op.keys,
         op'.value = op.value, op'.todo \in Seq(WipeStep),
         chain' \in [Key -> (Value \ Large) \cup {Absent}],
         dek' \in [Key -> 0 .. MaxSets],
         disk' \in [Key -> File \cup {Absent}],
         index' \subseteq index,
         \A k \in Key :
           /\ chain'[k] = chain[k] \/ chain'[k] = Absent
           /\ dek'[k] = dek[k] \/ dek'[k] = 0
           /\ disk'[k] = disk[k] \/ disk'[k] = Absent
           /\ \/ UNCHANGED <<chain[k], dek[k], disk[k]>>
              \/ Absent \in visible[k],
         \A k \in index \ index' : k \in op.keys,
         ~op'.failed => \A k \in op.keys :
           /\ chain'[k] # Absent => Occurs(Do("dropChain", k), op'.todo)
           /\ disk'[k] # Absent => Occurs(Do("dropFile", k), op'.todo)
           /\ dek'[k] # 0 => Occurs(Do("dropDek", k), op'.todo)
  PROVE  Inv'
<1>1. op' # Idle
  OBVIOUS
<1>2. TypeOK'
  BY DEF Inv, TypeOK
<1>3. ReadInv'
  BY DEF Inv, ReadInv, Gone
<1>4. SetInv'
  BY DEF SetInv
<1>5. WipeStep' = WipeStep
  BY DEF WipeStep
<1>6. WipeInv'
  <2>. HIDE DEF WipeStep, Occurs
  <2>. QED
    BY <1>5 DEF Inv, WipeInv
<1>7. IndexInv'
  <2>1. IsFiniteSet(index')
    BY FS_Subset DEF Inv, IndexInv
  <2>. QED
    BY <2>1 DEF Inv, IndexInv, Stored
<1>. QED
  BY <1>2, <1>3, <1>4, <1>6, <1>7 DEF Inv

LEMMA WipeStepInv ==
  ASSUME Inv, StepSucceeds, op.kind # "set"
  PROVE  /\ Inv' /\ op' # Idle /\ op'.kind = op.kind /\ op'.failed = op.failed
         /\ \A k \in Key : chain'[k] \in {chain[k], Absent}
         /\ \A x : Occurs(x, op.todo) => x = Next1 \/ Occurs(x, op'.todo)
<1>. DEFINE s == Head(op.todo)
            rest == Tail(op.todo)
<1>1. /\ op # Idle /\ op.todo # <<>> /\ op \in Op
      /\ chain' = Chain(s) /\ dek' = Dek(s) /\ disk' = Disk(s)
      /\ index' = Index(s) /\ op' = [op EXCEPT !.todo = rest]
      /\ UNCHANGED <<done, used, visible, interrupted, resealing>>
  BY DEF StepSucceeds, Busy, Next1, historyVars, Inv, TypeOK
<1>2. /\ s \in WipeStep /\ rest \in Seq(WipeStep) /\ rest \in Seq(StepOf)
      /\ \A x : Occurs(x, op.todo) => x = s \/ Occurs(x, rest)
      /\ Chain(s) = IF s.do = "dropChain"
                    THEN [chain EXCEPT ![s.key] = Absent] ELSE chain
      /\ Dek(s) = IF s.do = "dropDek"
                  THEN [dek EXCEPT ![s.key] = 0] ELSE dek
      /\ Disk(s) = IF s.do = "dropFile"
                   THEN [disk EXCEPT ![s.key] = Absent]
                   ELSE IF s.do = "rmDir" THEN [k \in Key |-> Absent]
                   ELSE disk
      /\ Index(s) = IF s.do = "dropIndex" THEN index \ {s.key}
                    ELSE IF s.do = "clearIndex" THEN {} ELSE index
      /\ s.do \in {"dropChain", "dropDek", "dropFile"} => s = Do(s.do, s.key)
      /\ s.do = "dropIndex" => s.key \in op.keys
      /\ s.do \in {"rmDir", "clearIndex"} => op.kind = "reset"
      /\ s.do \in {"dropChain", "dropDek", "dropFile"} =>
           s.key \in Key /\ Absent \in visible[s.key]
  BY <1>1, WipeEffect
<1>. HIDE DEF s, rest
<1>3. /\ op' \in Op /\ op'.kind = op.kind /\ op'.keys = op.keys
      /\ op'.value = op.value /\ op'.failed = op.failed /\ op'.todo = rest
  BY <1>1, <1>2 DEF Op
<1>4. /\ chain \in [Key -> (Value \ Large) \cup {Absent}]
      /\ dek \in [Key -> 0 .. MaxSets] /\ disk \in [Key -> File \cup {Absent}]
      /\ used \in [sets : 0 .. MaxSets, removals : 0 .. MaxRemovals,
                   failures : 0 .. MaxFailures, crashes : 0 .. MaxCrashes]
  BY DEF Inv, TypeOK
<1>5. /\ op.kind = "reset" => \A k \in Key : Absent \in visible[k]
      /\ op.kind = "reset" => index \subseteq op.keys
      /\ op.keys \subseteq Key
      /\ ~op.failed => \A k \in op.keys :
           /\ chain[k] # Absent => Occurs(Do("dropChain", k), op.todo)
           /\ disk[k] # Absent => Occurs(Do("dropFile", k), op.todo)
           /\ dek[k] # 0 => Occurs(Do("dropDek", k), op.todo)
  <2>1. op.keys \subseteq Key
    BY <1>1 DEF Op
  <2>. QED
    BY <1>1, <2>1 DEF Inv, WipeInv
<1>6. /\ chain' \in [Key -> (Value \ Large) \cup {Absent}]
      /\ dek' \in [Key -> 0 .. MaxSets] /\ disk' \in [Key -> File \cup {Absent}]
  BY <1>1, <1>2, <1>4
<1>7. \A k \in Key :
        /\ chain'[k] = IF s.do = "dropChain" /\ s.key = k THEN Absent ELSE chain[k]
        /\ dek'[k] = IF s.do = "dropDek" /\ s.key = k THEN 0 ELSE dek[k]
        /\ disk'[k] = IF (s.do = "dropFile" /\ s.key = k) \/ s.do = "rmDir"
                      THEN Absent ELSE disk[k]
  BY <1>1, <1>2, <1>4
<1>8. \A k \in Key :
        /\ chain'[k] = chain[k] \/ chain'[k] = Absent
        /\ dek'[k] = dek[k] \/ dek'[k] = 0
        /\ disk'[k] = disk[k] \/ disk'[k] = Absent
        /\ \/ UNCHANGED <<chain[k], dek[k], disk[k]>>
           \/ Absent \in visible[k]
  BY <1>2, <1>5, <1>7
<1>9. /\ index' \subseteq index
      /\ \A k \in index \ index' : k \in op.keys
  BY <1>1, <1>2, <1>5
<1>10. ~op'.failed => \A k \in op.keys :
         /\ chain'[k] # Absent => Occurs(Do("dropChain", k), rest)
         /\ disk'[k] # Absent => Occurs(Do("dropFile", k), rest)
         /\ dek'[k] # 0 => Occurs(Do("dropDek", k), rest)
  <2>. SUFFICES ASSUME ~op.failed, NEW k \in op.keys
                PROVE  /\ chain'[k] # Absent => Occurs(Do("dropChain", k), rest)
                       /\ disk'[k] # Absent => Occurs(Do("dropFile", k), rest)
                       /\ dek'[k] # 0 => Occurs(Do("dropDek", k), rest)
    BY <1>3
  <2>1. \A d : s = Do(d, k) => s.do = d /\ s.key = k
    BY DEF Do
  <2>2. k \in Key
    BY <1>5
  <2>3. ASSUME chain'[k] # Absent PROVE Occurs(Do("dropChain", k), rest)
    BY <1>2, <1>5, <1>7, <2>1, <2>2, <2>3
  <2>4. ASSUME disk'[k] # Absent PROVE Occurs(Do("dropFile", k), rest)
    BY <1>2, <1>5, <1>7, <2>1, <2>2, <2>4
  <2>5. ASSUME dek'[k] # 0 PROVE Occurs(Do("dropDek", k), rest)
    BY <1>2, <1>5, <1>7, <2>1, <2>2, <2>5
  <2>. QED
    BY <2>3, <2>4, <2>5
<1>11. op'.todo \in Seq(WipeStep)
  BY <1>2, <1>3
<1>. HIDE DEF Occurs, WipeStep
<1>12. Inv'
  BY <1>1, <1>3, <1>4, <1>6, <1>8, <1>9, <1>10, <1>11, Shrinks
<1>13. op' # Idle
  BY <1>3, NothingAssumption
<1>14. Next1 = s
  BY DEF Next1, s
<1>. QED
  BY <1>2, <1>3, <1>8, <1>12, <1>13, <1>14

-----------------------------------------------------------------------------
(* A step fails.                                                           *)

LEMMA StepFailsInv ==
  ASSUME Inv, StepFails
  PROVE  /\ Inv' /\ op' # Idle /\ op'.kind = op.kind /\ op'.keys = op.keys
         /\ op'.value = op.value /\ op'.failed /\ UNCHANGED chain
<1>. DEFINE s == Head(op.todo)
            rest == Tail(op.todo)
            left == IF op.kind = "set" THEN <<>> ELSE Without(rest, s)
<1>1. /\ op # Idle /\ op.todo # <<>> /\ op \in Op /\ op.todo \in Seq(StepOf)
      /\ used.failures < MaxFailures
      /\ used' = [used EXCEPT !.failures = @ + 1]
      /\ op' = [op EXCEPT !.failed = TRUE, !.todo = left]
      /\ \/ UNCHANGED disk
         \/ /\ s.do = "rmDir"
            /\ \E S \in SUBSET Key :
                 disk' = [k \in Key |-> IF k \in S THEN Absent ELSE disk[k]]
      /\ UNCHANGED <<chain, dek, index, done, visible, interrupted, resealing>>
  BY DEF StepFails, Busy, Next1, historyVars, Inv, TypeOK, Op
<1>2. used' \in [sets : 0 .. MaxSets, removals : 0 .. MaxRemovals,
                 failures : 0 .. MaxFailures, crashes : 0 .. MaxCrashes]
  BY <1>1 DEF Inv, TypeOK
<1>3. left \in Seq(StepOf)
  <2>1. rest \in Seq(StepOf)
    BY <1>1, HeadAndTail
  <2>2. Without(rest, s) \in Seq(StepOf)
    BY <2>1, WithoutIs
  <2>. QED
    BY <2>2
<1>. HIDE DEF left
<1>4. /\ op' \in Op /\ op'.kind = op.kind /\ op'.keys = op.keys
      /\ op'.value = op.value /\ op'.failed /\ op'.todo = left
  BY <1>1, <1>3 DEF Op
<1>5. op' # Idle
  BY <1>4
<1>6. /\ chain \in [Key -> (Value \ Large) \cup {Absent}]
      /\ dek \in [Key -> 0 .. MaxSets] /\ disk \in [Key -> File \cup {Absent}]
  BY DEF Inv, TypeOK
<1>7. CASE op.kind = "set"
  <2>. PICK k \in Key : SetOp(k)
    BY <1>1, <1>7 DEF Inv, SetInv
  <2>1. s.do # "rmDir"
    <3>. DEFINE p == SetSteps(k, op.value)
                n == Taken
    <3>1. /\ p[4] = Do("addIndex", k)
          /\ p[1] \in {Do("putChain", k), Do("putDek", k)}
          /\ p[2] \in {Do("putFile", k), Do("dropFile", k)}
          /\ p[3] \in {Do("dropChain", k), Do("dropDek", k)}
      BY SetStepsIs
    <3>2. s = op.todo[1] /\ Len(op.todo) \in Nat \ {0}
      BY <1>1, HeadAndTail
    <3>3. ~op.failed
      BY <1>1 DEF SetOp
    <3>4. n \in 0 .. 4 /\ \A i \in 1 .. Len(op.todo) : op.todo[i] = p[i + n]
      <4>. HIDE DEF p, n
      <4>. QED
        BY <3>3 DEF SetOp, p, n
    <3>5. n = 4 - Len(op.todo)
      BY DEF Taken
    <3>. HIDE DEF p, n, s
    <3>6. n \in 0 .. 3
      BY <3>2, <3>4, <3>5
    <3>7. s = p[1 + n]
      BY <3>2, <3>4
    <3>8. \A d : Do(d, k).do = d
      BY DEF Do
    <3>. QED
      BY <3>1, <3>6, <3>7, <3>8
  <2>2. UNCHANGED disk
    BY <1>1, <2>1
  <2>3. left = <<>>
    BY <1>7 DEF left
  <2>4. TypeOK'
    BY <1>1, <1>2, <1>4, <2>2 DEF Inv, TypeOK
  <2>5. ReadInv'
    BY <1>1, <2>2 DEF Inv, ReadInv, Gone
  <2>6. SetInv'
    <3>1. used'.sets = used.sets
      BY <1>1 DEF Inv, TypeOK
    <3>2. SetOp(k)'
      BY <1>1, <1>4, <2>3, <3>1 DEF SetOp
    <3>. QED
      BY <3>2 DEF SetInv
  <2>7. WipeInv'
    BY <1>4, <1>7 DEF WipeInv
  <2>8. IndexInv'
    BY <1>1, <1>4, <2>2 DEF Inv, IndexInv, Stored
  <2>. QED
    BY <1>1, <1>4, <1>5, <2>4, <2>5, <2>6, <2>7, <2>8 DEF Inv
<1>8. CASE op.kind # "set"
  <2>1. /\ rest \in Seq(WipeStep)
        /\ s.do \in {"rmDir", "clearIndex"} => op.kind = "reset"
    BY <1>1, <1>8, WipeEffect
  <2>2. op'.todo \in Seq(WipeStep)
    <3>. HIDE DEF rest, s, WipeStep
    <3>1. Without(rest, s) \in Seq(WipeStep)
      BY <2>1, WithoutIs
    <3>. QED
      BY <1>4, <1>8, <3>1 DEF left
  <2>3. s.do = "rmDir" => \A k \in Key : Absent \in visible[k]
    BY <1>1, <1>8, <2>1 DEF Inv, WipeInv
  <2>. HIDE DEF s, rest
  <2>4. /\ disk' \in [Key -> File \cup {Absent}]
        /\ \A k \in Key :
             /\ disk'[k] = disk[k] \/ disk'[k] = Absent
             /\ disk'[k] = disk[k] \/ Absent \in visible[k]
    BY <1>1, <1>6, <2>3
  <2>5. \A k \in Key :
          /\ chain'[k] = chain[k] \/ chain'[k] = Absent
          /\ dek'[k] = dek[k] \/ dek'[k] = 0
          /\ disk'[k] = disk[k] \/ disk'[k] = Absent
          /\ \/ UNCHANGED <<chain[k], dek[k], disk[k]>>
             \/ Absent \in visible[k]
    BY <1>1, <2>4
  <2>6. index' \subseteq index /\ \A k \in index \ index' : k \in op.keys
    BY <1>1
  <2>7. /\ chain' \in [Key -> (Value \ Large) \cup {Absent}]
        /\ dek' \in [Key -> 0 .. MaxSets]
    BY <1>1, <1>6
  <2>. HIDE DEF Occurs, WipeStep
  <2>. QED
    BY <1>1, <1>2, <1>4, <1>8, <2>2, <2>4, <2>5, <2>6, <2>7, Shrinks
<1>. QED
  BY <1>1, <1>4, <1>5, <1>7, <1>8

-----------------------------------------------------------------------------
(* An operation ends.                                                      *)

LEMMA OpEndsInv == ASSUME Inv, OpEnds PROVE Inv'
<1>1. /\ op # Idle /\ op.todo = <<>> /\ op \in Op
      /\ op' = Idle /\ done' = [kind |-> op.kind, ok |-> ~op.failed]
      /\ UNCHANGED <<chain, dek, disk, index, used>>
  BY DEF OpEnds, storeVars, Inv, TypeOK
<1>2. /\ op.kind \in {"set", "remove", "reset"} /\ op.keys \subseteq Key
      /\ op.value \in Value \cup {Absent} /\ op.failed \in BOOLEAN
  BY <1>1 DEF Op
<1>3. SetInv' /\ WipeInv'
  BY <1>1 DEF SetInv, WipeInv
<1>4. CASE op.failed
  <2>1. UNCHANGED <<visible, interrupted, resealing>>
    BY <1>4 DEF OpEnds, historyVars
  <2>2. TypeOK'
    BY <1>1, <1>2, <2>1 DEF Inv, TypeOK
  <2>3. done'.ok = FALSE
    BY <1>1, <1>2, <1>4
  <2>4. done' # [kind |-> "reset", ok |-> TRUE]
    BY <2>3
  <2>5. ReadInv' /\ IndexInv'
    BY <1>1, <2>1, <2>4 DEF Inv, ReadInv, Gone, IndexInv, Stored
  <2>. QED
    BY <1>3, <2>2, <2>5 DEF Inv
<1>5. CASE ~op.failed
  <2>1. /\ visible' = [k \in Key |-> IF k \in op.keys THEN {op.value}
                                                      ELSE visible[k]]
        /\ interrupted' = interrupted \ op.keys
        /\ resealing' = resealing \ op.keys
    BY <1>5 DEF OpEnds
  <2>2. TypeOK'
    BY <1>1, <1>2, <2>1 DEF Inv, TypeOK
  <2>3. CASE op.kind = "set"
    <3>. PICK k \in Key : SetOp(k)
      BY <1>1, <2>3 DEF Inv, SetInv
    <3>1. Taken = 4
      BY <1>1 DEF Taken
    <3>2. /\ op.keys = {k} /\ op.value \in Value
          /\ op.value \notin Large => SmallDone(k)
          /\ op.value \in Large => LargeDone(k)
      <4>. HIDE DEF Taken
      <4>. QED
        BY <1>5 DEF SetOp
    <3>3. /\ k \in index
          /\ \/ chain[k] = op.value /\ disk[k] = Absent /\ dek[k] = 0
             \/ /\ chain[k] = Absent /\ disk[k] # Absent
                /\ disk[k].value = op.value /\ disk[k].dek = dek[k]
                /\ dek[k] # 0
      BY <3>1, <3>2 DEF SmallDone, LargeDone
    <3>4. op.value # Absent
      BY <3>2
    <3>5. ReadInv'
      BY <1>1, <2>1, <3>2, <3>3, <3>4 DEF Inv, ReadInv, Gone
    <3>6. IndexInv'
      BY <1>1, <2>1, <2>3, <3>2, <3>3 DEF Inv, IndexInv, Stored
    <3>. QED
      BY <1>3, <2>2, <3>5, <3>6 DEF Inv
  <2>4. CASE op.kind # "set"
    <3>1. /\ op.value = Absent
          /\ op.kind = "reset" => index \subseteq op.keys
          /\ \A k \in op.keys :
               /\ chain[k] # Absent => Occurs(Do("dropChain", k), op.todo)
               /\ disk[k] # Absent => Occurs(Do("dropFile", k), op.todo)
               /\ dek[k] # 0 => Occurs(Do("dropDek", k), op.todo)
      BY <1>1, <1>2, <1>5, <2>4 DEF Inv, WipeInv
    <3>2. \A x : ~Occurs(x, op.todo)
      BY <1>1 DEF Occurs
    <3>3. \A k \in op.keys : chain[k] = Absent /\ disk[k] = Absent /\ dek[k] = 0
      BY <3>1, <3>2
    <3>4. ReadInv'
      BY <1>1, <2>1, <3>1, <3>3 DEF Inv, ReadInv, Gone
    <3>5. IndexInv'
      <4>1. /\ \A k \in Key \ interrupted : Stored(k) => k \in index
            /\ IsFiniteSet(index)
        BY DEF Inv, IndexInv
      <4>2. \A k \in Key \ interrupted' : Stored(k)' => k \in index'
        BY <1>1, <2>1, <3>3, <4>1 DEF Stored
      <4>3. ASSUME done' = [kind |-> "reset", ok |-> TRUE], interrupted' = {},
                   NEW k \in Key
            PROVE  ~Stored(k)'
        <5>1. op.kind = "reset"
          BY <1>1, <4>3
        <5>2. k \in op.keys \/ ~Stored(k)
          BY <2>1, <3>1, <4>1, <4>3, <5>1
        <5>. QED
          BY <1>1, <3>3, <5>2 DEF Stored
      <4>. QED
        BY <1>1, <4>1, <4>2, <4>3 DEF IndexInv
    <3>. QED
      BY <1>3, <2>2, <3>4, <3>5 DEF Inv
  <2>. QED
    BY <2>3, <2>4
<1>. QED
  BY <1>4, <1>5

-----------------------------------------------------------------------------
(* The theorems.                                                           *)

LEMMA StutterInv == ASSUME Inv, UNCHANGED vars PROVE Inv'
<1>1. UNCHANGED <<chain, dek, disk, index, op, done, used, visible,
                  interrupted, resealing>>
  BY DEF vars, storeVars, historyVars
<1>2. TypeOK' /\ ReadInv' /\ IndexInv'
  BY <1>1 DEF Inv, TypeOK, ReadInv, Gone, IndexInv, Stored
<1>3. SetInv'
  <2>1. ASSUME NEW k \in Key, SetOp(k) PROVE SetOp(k)'
    BY <1>1, <2>1 DEF SetOp, SmallDone, LargeDone, Taken
  <2>. QED
    BY <1>1, <2>1 DEF Inv, SetInv
<1>4. WipeInv'
  BY <1>1 DEF Inv, WipeInv, WipeStep, Occurs
<1>. QED
  BY <1>2, <1>3, <1>4 DEF Inv

LEMMA NextInv == ASSUME Inv, [Next]_vars PROVE Inv'
<1>1. CASE StartSet
  BY <1>1, SetStartsInv DEF StartSet
<1>2. CASE StartRemove
  BY <1>2, RemoveStartsInv
<1>3. CASE StartReset
  BY <1>3, ResetStartsInv
<1>4. CASE StartBlindReset
  BY <1>4, BlindResetStartsInv
<1>5. CASE StepSucceeds
  BY <1>5, SetStepInv, WipeStepInv
<1>6. CASE StepFails
  BY <1>6, StepFailsInv
<1>7. CASE OpEnds
  BY <1>7, OpEndsInv
<1>8. CASE Crash
  BY <1>8, CrashInv
<1>9. CASE Ended
  BY <1>9, StutterInv DEF Ended
<1>10. CASE UNCHANGED vars
  BY <1>10, StutterInv
<1>. QED
  BY <1>1, <1>2, <1>3, <1>4, <1>5, <1>6, <1>7, <1>8, <1>9, <1>10 DEF Next

LEMMA StoreInvariant == Spec => []Inv
<1>1. Init => Inv
  BY InitInv
<1>2. Inv /\ [Next]_vars => Inv'
  BY NextInv
<1>. QED
  BY <1>1, <1>2, PTL DEF Spec

\* The store's variables keep their types: a Set's program writes only what
\* the keychain, the key of a file and the file hold (store/routing.go:33-42),
\* and a removal's or a reset's only takes away.
THEOREM CredentialStoreTypeOK == Spec => []TypeOK
<1>1. Inv => TypeOK
  BY DEF Inv
<1>. QED
  BY <1>1, StoreInvariant, PTL

LEMMA ReadersSee == ASSUME Inv PROVE OldOrNew
<1>1. ASSUME NEW k \in Key \ resealing PROVE Get(k) \in visible[k]
  <2>1. /\ chain[k] # Absent => chain[k] \in visible[k]
        /\ disk[k] # Absent => disk[k].value \in visible[k]
        /\ disk[k] # Absent => dek[k] \in {0, disk[k].dek}
        /\ Gone(k) => Absent \in visible[k]
    BY <1>1 DEF Inv, ReadInv
  <2>2. CASE chain[k] # Absent
    BY <2>1, <2>2 DEF Get
  <2>3. CASE chain[k] = Absent /\ (disk[k] = Absent \/ dek[k] = 0)
    BY <2>1, <2>3 DEF Get, Opened, Gone
  <2>4. CASE chain[k] = Absent /\ disk[k] # Absent /\ dek[k] # 0
    <3>1. dek[k] = disk[k].dek
      BY <2>1, <2>4
    <3>2. Opened(k) = disk[k].value
      BY <2>4, <3>1 DEF Opened
    <3>. QED
      BY <2>1, <2>4, <3>2 DEF Get
  <2>. QED
    BY <2>2, <2>3, <2>4
<1>. QED
  BY <1>1 DEF OldOrNew

LEMMA ResetsLeaveNothing == ASSUME Inv PROVE ResetLeavesNothing
BY DEF Inv, IndexInv, ResetLeavesNothing, Wiped

\* After any failures and crashes a reader of a key gets the value that
\* was there, or one written since, or nothing where it was to be removed:
\* router.Set writes the new place before it empties the old one
\* (store/routing.go:33-42), and disk.Get answers only with a file its key
\* opens (store/disk.go:27-46).
THEOREM OldValueOrNew == Spec => []OldOrNew
<1>1. Inv => OldOrNew
  BY ReadersSee
<1>. QED
  BY <1>1, StoreInvariant, PTL

\* A reset that ended without an error left nothing under any key, in the
\* keychain, on the disk or among the keys of files, unless an operation on
\* some key failed or was cut short and none succeeded since
\* (daemon/reset.go:11-18): the index it goes by lists what is stored.
THEOREM NothingLeftByReset == Spec => []ResetLeavesNothing
<1>1. Inv => ResetLeavesNothing
  BY ResetsLeaveNothing
<1>. QED
  BY <1>1, StoreInvariant, PTL

=============================================================================
