--------------------------- MODULE ApiRetryProofs ---------------------------
(* A call of the mail API is, for any set of calls and any bound on the    *)
(* attempts, what its callers take it for; and a folder of any length is   *)
(* listed as a whole, whatever the size of a page.                         *)
EXTENDS FolderListing, TLAPS

Inv ==
  /\ TypeOK
  /\ \A c \in Call :
       /\ at[c] = "idle" => hits[c] = 0
       /\ at[c] = "request" /\ ~IsIdempotent(Method[c]) => hits[c] = 0
       /\ at[c] = "backoff" => IsIdempotent(Method[c]) /\ AnotherLeft(c)
       /\ at[c] = "decide" /\ last[c] = "ok" => hits[c] > 0
       /\ at[c] = "ok" => hits[c] > 0
       /\ ~IsIdempotent(Method[c]) => hits[c] <= 1

LEMMA InitInv == Init => Inv
  BY ApiRetryAssumption DEF Init, Inv, TypeOK, Outcome, IsIdempotent

LEMMA StepInv ==
  ASSUME Inv, NEW c \in Call, Step(c)
  PROVE  Inv'
  <1> USE ApiRetryAssumption DEF Inv, TypeOK, Outcome, AnotherLeft, IsIdempotent
  <1>1. CASE Attempt(c)
    BY <1>1 DEF Attempt, Answers
  <1>2. CASE Answered(c)
    BY <1>2 DEF Answered
  <1>3. CASE GivesUp(c)
    BY <1>3 DEF GivesUp
  <1>4. CASE TriesAgain(c)
    BY <1>4 DEF TriesAgain, Retries
  <1>5. CASE Sleep(c)
    BY <1>5 DEF Sleep
  <1> QED
    BY <1>1, <1>2, <1>3, <1>4, <1>5 DEF Step

LEMMA NextInv == Inv /\ [Next]_vars => Inv'
  <1> SUFFICES ASSUME Inv, [Next]_vars PROVE Inv'
    OBVIOUS
  <1> USE ApiRetryAssumption DEF Inv, TypeOK, Outcome, AnotherLeft, IsIdempotent
  <1>1. ASSUME NEW c \in Call, Start(c) PROVE Inv'
    BY <1>1 DEF Start
  <1>2. ASSUME NEW c \in Call, Step(c) PROVE Inv'
    BY <1>2, StepInv
  <1>3. ASSUME NEW c \in Call, Cancel(c) PROVE Inv'
    BY <1>3 DEF Cancel
  <1>4. ASSUME NEW c \in Call, RemovedElsewhere(c) PROVE Inv'
    BY <1>4 DEF RemovedElsewhere
  <1>5. CASE UNCHANGED vars
    BY <1>5 DEF vars
  <1> QED
    BY <1>1, <1>2, <1>3, <1>4, <1>5 DEF Next

\* The state of every variable has its type: no call makes more than the allowed
\* attempts (do.go:75-92).
THEOREM TypeCorrect == Spec => []TypeOK
  <1>1. Inv => TypeOK
    BY DEF Inv
  <1> QED
    BY InitInv, NextInv, <1>1, PTL DEF Spec

\* A request whose method is not idempotent is carried out at most once, so a
\* message is never delivered twice by one submission (errors.go:77-88).
THEOREM NotIdempotentOnce == Spec => []OnceUnlessIdempotent
  <1>1. Inv => OnceUnlessIdempotent
    BY DEF Inv, OnceUnlessIdempotent, IsIdempotent
  <1> QED
    BY InitInv, NextInv, <1>1, PTL DEF Spec

-----------------------------------------------------------------------------
(* The refinement.                                                         *)

\* What a caller sees of a call.
Seen(c) == IF at[c] \in {"idle", "ok", "error"} THEN at[c] ELSE "pending"

LEMMA InitMaps == Init => AsOneCall!Init
  <1> SUFFICES ASSUME Init PROVE AsOneCall!Init
    OBVIOUS
  <1>1. \A c \in Call : at[c] = "idle" /\ hits[c] = 0
    BY DEF Init
  <1>2. ASSUME NEW c \in Call PROVE (hits[c] > 0) = FALSE
    <2>1. hits[c] = 0
      BY <1>1
    <2>2. (0 > 0) = FALSE
      OBVIOUS
    <2> QED
      BY <2>1, <2>2, Zenon
  <1>3. [c \in Call |-> IF at[c] \in {"idle", "ok", "error"} THEN at[c]
                       ELSE "pending"] = [c \in Call |-> "idle"]
    BY <1>1
  <1>4. [c \in Call |-> hits[c] > 0] = [c \in Call |-> FALSE]
    BY <1>2
  <1> QED
    BY <1>3, <1>4, Zenon DEF AsOneCall!Init

LEMMA StepMaps ==
  ASSUME Inv, NEW c \in Call, Step(c)
  PROVE  AsOneCall!Next \/ UNCHANGED AsOneCall!callVars
  <1> USE DEF Inv, TypeOK, AsOneCall!callVars
  <1>1. CASE Attempt(c)
    <2>1. /\ at[c] = "request" /\ at' = [at EXCEPT ![c] = "decide"]
          /\ hits' = hits \/ hits' = [hits EXCEPT ![c] = @ + 1]
      BY <1>1 DEF Attempt
    <2>2. CASE hits' = hits \/ hits[c] > 0
      BY <2>1, <2>2
    <2>3. CASE hits' = [hits EXCEPT ![c] = @ + 1] /\ hits[c] = 0
      <3> DEFINE effect == [x \in Call |-> hits[x] > 0]
                 effectNext == [x \in Call |-> hits'[x] > 0]
      <3>1. \A x \in Call : x # c => hits'[x] = hits[x]
        BY <2>3
      <3>2. hits'[c] > 0 /\ ~(hits[c] > 0)
        BY <2>3
      <3>3. effectNext = [effect EXCEPT ![c] = TRUE]
        BY <3>1, <3>2, Zenon
      <3>4. AsOneCall!TakeEffect(c)
        <4>1. [x \in Call |-> IF at'[x] \in {"idle", "ok", "error"} THEN at'[x]
                             ELSE "pending"]
              = [x \in Call |-> IF at[x] \in {"idle", "ok", "error"} THEN at[x]
                               ELSE "pending"]
          BY <2>1
        <4> QED
          BY <2>1, <3>2, <3>3, <4>1 DEF AsOneCall!TakeEffect
      <3> QED
        BY <3>4 DEF AsOneCall!Next
    <2> QED
      BY <2>1, <2>2, <2>3
  <1>2. CASE Answered(c)
    <2>1. at[c] = "decide" /\ hits[c] > 0 /\ hits' = hits
      BY <1>2 DEF Answered
    <2>2. CASE at' = [at EXCEPT ![c] = "ok"]
      BY <2>1, <2>2 DEF AsOneCall!Next, AsOneCall!Succeed
    <2>3. CASE at' = [at EXCEPT ![c] = "error"]
      BY <2>1, <2>3 DEF AsOneCall!Next, AsOneCall!Fail
    <2> QED
      BY <1>2, <2>2, <2>3 DEF Answered
  <1>3. CASE GivesUp(c)
    BY <1>3 DEF GivesUp, AsOneCall!Next, AsOneCall!Fail
  <1>4. CASE TriesAgain(c)
    BY <1>4 DEF TriesAgain
  <1>5. CASE Sleep(c)
    BY <1>5 DEF Sleep, AsOneCall!Next, AsOneCall!Fail
  <1> QED
    BY <1>1, <1>2, <1>3, <1>4, <1>5 DEF Step

LEMMA NextMaps ==
  Inv /\ [Next]_vars => [AsOneCall!Next]_(AsOneCall!callVars)
  <1> SUFFICES ASSUME Inv, [Next]_vars
               PROVE  AsOneCall!Next \/ UNCHANGED AsOneCall!callVars
    OBVIOUS
  <1> USE DEF Inv, TypeOK, AsOneCall!callVars
  <1>1. ASSUME NEW c \in Call, Start(c) PROVE AsOneCall!Next
    BY <1>1 DEF Start, AsOneCall!Next, AsOneCall!Begin
  <1>2. ASSUME NEW c \in Call, Step(c)
        PROVE  AsOneCall!Next \/ UNCHANGED AsOneCall!callVars
    BY <1>2, StepMaps
  <1>3. ASSUME NEW c \in Call, Cancel(c) PROVE UNCHANGED AsOneCall!callVars
    BY <1>3 DEF Cancel
  <1>4. ASSUME NEW c \in Call, RemovedElsewhere(c)
        PROVE  UNCHANGED AsOneCall!callVars
    BY <1>4 DEF RemovedElsewhere
  <1>5. CASE UNCHANGED vars
    BY <1>5 DEF vars
  <1> QED
    BY <1>1, <1>2, <1>3, <1>4, <1>5 DEF Next

\* do and doRaw, with their retries, are a call carried out at most once that
\* reports no error unless it was (do.go:36-96).
THEOREM CallsAreOnce == Spec => Implements
  BY InitInv, NextInv, InitMaps, NextMaps, PTL
  DEF Spec, Implements, AsOneCall!Spec

-----------------------------------------------------------------------------
(* The listing of a folder.                                                *)

E == ToSet(Emails) \cup {Sent}

\* The emails the listing has been answered.
Done == IF listing = "answered" THEN all \o answer.emails ELSE all

\* The folder has each email once, and the calls know what they changed in it.
FolderInv ==
  /\ folder \in Seq(E) /\ IsInjective(folder)
  /\ present[Discard] => Discarded \in ToSet(folder)
  /\ Sent \in ToSet(folder) => hits[Send] > 0

PageInv ==
  /\ all \in Seq(E) /\ answer.emails \in Seq(E)
  /\ listing \in {"none", "asked", "answered", "listed", "failed"}
  /\ listing = "none" => position = 0 /\ all = <<>> /\ answer = NoAnswer
  /\ listing = "asked" => ToSet(answer.emails) \subseteq ToSet(all)
  /\ Listing => position = Len(all)

\* Without an arrival, what is still to be listed has not been listed.
OnceInv ==
  ~arrived =>
    /\ IsInjective(Done)
    /\ Listing => \A i \in DOMAIN folder :
                    i > Len(Done) => folder[i] \notin ToSet(Done)

\* While nothing listed has left, all in front of the position are listed, and at
\* the last page all there are.
AllInv ==
  ~shifted =>
    /\ Listing => \A i \in DOMAIN folder :
                    i <= Len(Done) /\ folder[i] \in ToSet(Emails)
                      => folder[i] \in ToSet(Done)
    /\ listing = "listed" \/ (listing = "answered" /\ LastPage) =>
         ToSet(Emails) \cap ToSet(folder) \subseteq ToSet(Done)

ListingInv == FolderInv /\ PageInv /\ OnceInv /\ AllInv

\* A list without the item at a place, and with an item in front.
IsWithout(g, f, k, S) ==
  /\ g \in Seq(S) /\ Len(g) = Len(f) - 1
  /\ \A i \in 1 .. Len(f) - 1 : g[i] = IF i < k THEN f[i] ELSE f[i + 1]

LEMMA Removing ==
  ASSUME NEW S, NEW f \in Seq(S), NEW k \in 1 .. Len(f)
  PROVE  IsWithout(RemoveAt(f, k), f, k, S)
<1> DEFINE p == SubSeq(f, 1, k - 1)
           q == SubSeq(f, k + 1, Len(f))
<1>1. /\ p \in Seq(S) /\ Len(p) = k - 1
      /\ \A i \in 1 .. k - 1 : p[i] = f[i]
  OBVIOUS
<1>2. /\ q \in Seq(S) /\ Len(q) = Len(f) - k
      /\ \A i \in 1 .. Len(f) - k : q[i] = f[k + i]
  OBVIOUS
<1>3. RemoveAt(f, k) = p \o q
  BY DEF RemoveAt
<1> HIDE DEF p, q
<1>4. p \o q \in Seq(S) /\ Len(p \o q) = Len(f) - 1
  BY <1>1, <1>2
<1>5. ASSUME NEW i \in 1 .. Len(f) - 1
      PROVE  (p \o q)[i] = IF i < k THEN f[i] ELSE f[i + 1]
  <2>1. CASE i < k
    BY <1>1, <1>2, <2>1
  <2>2. CASE i >= k
    <3>1. (p \o q)[i] = q[i - (k - 1)]
      BY <1>1, <1>2, <2>2
    <3>2. i - (k - 1) \in 1 .. Len(f) - k /\ k + (i - (k - 1)) = i + 1
      BY <2>2
    <3> QED
      BY <1>2, <2>2, <3>1, <3>2
  <2>3. i < k \/ i >= k
    OBVIOUS
  <2> QED
    BY <2>1, <2>2, <2>3, Zenon
<1> QED
  BY <1>3, <1>4, <1>5 DEF IsWithout

IsWith(g, e, f, S) ==
  /\ g \in Seq(S) /\ Len(g) = Len(f) + 1 /\ g[1] = e
  /\ \A i \in 1 .. Len(f) : g[i + 1] = f[i]

LEMMA Fronting ==
  ASSUME NEW S, NEW f \in Seq(S), NEW e \in S
  PROVE  IsWith(<<e>> \o f, e, f, S)
<1>1. <<e>> \in Seq(S) /\ Len(<<e>>) = 1 /\ Len(f) \in Nat
  OBVIOUS
<1>2. <<e>> \o f \in Seq(S) /\ Len(<<e>> \o f) = Len(f) + 1
  BY <1>1
<1>3. (<<e>> \o f)[1] = e
  BY <1>1
<1>4. ASSUME NEW i \in 1 .. Len(f) PROVE (<<e>> \o f)[i + 1] = f[i]
  BY <1>1
<1> QED
  BY <1>2, <1>3, <1>4 DEF IsWith

\* A page of a list, from after position p.
IsPage(g, f, p, n, S) ==
  /\ g \in Seq(S)
  /\ Len(g) <= n
  /\ \A i \in 1 .. Len(g) : p + i \in 1 .. Len(f) /\ g[i] = f[p + i]
  /\ p + n >= Len(f) \/ Len(g) = 0 => \A i \in 1 .. Len(f) : i <= p + Len(g)

LEMMA Paging ==
  ASSUME NEW S, NEW f \in Seq(S), NEW p \in Nat, NEW n \in Nat \ {0}
  PROVE  IsPage(SubSeq(f, p + 1, Min({p + n, Len(f)})), f, p, n, S)
<1> DEFINE m == Min({p + n, Len(f)})
           g == SubSeq(f, p + 1, m)
<1>1. Len(f) \in Nat
  OBVIOUS
<1>2. m \in {p + n, Len(f)} /\ m <= p + n /\ m <= Len(f)
  <2> DEFINE l == Len(f)
             s == {p + n, l}
  <2>1. l \in Nat
    BY <1>1
  <2> HIDE DEF l
  <2>2. \E x \in s : \A y \in s : x =< y
    <3>1. CASE p + n <= l
      BY <2>1, <3>1
    <3>2. CASE l <= p + n
      BY <2>1, <3>2
    <3> QED
      BY <2>1, <3>1, <3>2
  <2>3. Min(s) \in s /\ \A y \in s : Min(s) =< y
    BY <2>2 DEF Min
  <2> QED
    BY <2>3 DEF l
<1> HIDE DEF m
<1>3. m \in Nat /\ p \in Nat
  BY <1>1, <1>2
<1>4. CASE m <= p
  <2>1. g = <<>>
    BY <1>3, <1>4
  <2>2. Len(f) <= p
    BY <1>1, <1>2, <1>4
  <2>3. IsPage(<<>>, f, p, n, S)
    BY <1>1, <2>2 DEF IsPage
  <2> QED
    BY <2>1, <2>3 DEF g, m
<1>5. CASE m > p
  <2>1. /\ g \in Seq(S) /\ Len(g) = m - p
        /\ \A i \in 1 .. m - p : g[i] = f[p + i]
    BY <1>1, <1>2, <1>3, <1>5
  <2> HIDE DEF g
  <2>2. \A i \in 1 .. Len(g) : p + i \in 1 .. Len(f) /\ g[i] = f[p + i]
    BY <1>1, <1>2, <1>3, <2>1
  <2>3. Len(g) <= n /\ Len(g) # 0
    BY <1>2, <1>3, <1>5, <2>1
  <2>4. p + n >= Len(f) => \A i \in 1 .. Len(f) : i <= p + Len(g)
    BY <1>1, <1>2, <1>3, <2>1
  <2>5. IsPage(g, f, p, n, S)
    BY <2>1, <2>2, <2>3, <2>4 DEF IsPage
  <2> QED
    BY <2>5 DEF g, m
<1> QED
  BY <1>3, <1>4, <1>5

LEMMA Joining ==
  ASSUME NEW S, NEW p \in Seq(S), NEW q \in Seq(S)
  PROVE  /\ p \o q \in Seq(S) /\ Len(p \o q) = Len(p) + Len(q)
         /\ Len(p) \in Nat /\ Len(q) \in Nat
         /\ \A i \in 1 .. Len(p) : (p \o q)[i] = p[i]
         /\ \A i \in 1 .. Len(q) : (p \o q)[Len(p) + i] = q[i]
         /\ ToSet(p \o q) = ToSet(p) \cup ToSet(q)
<1>1. /\ p \o q \in Seq(S) /\ Len(p \o q) = Len(p) + Len(q)
      /\ Len(p) \in Nat /\ Len(q) \in Nat
  OBVIOUS
<1>2. \A i \in 1 .. Len(p) : (p \o q)[i] = p[i]
  OBVIOUS
<1>3. \A i \in 1 .. Len(q) : (p \o q)[Len(p) + i] = q[i]
  OBVIOUS
<1> DEFINE r == p \o q
<1>4. DOMAIN r = 1 .. Len(p) + Len(q) /\ DOMAIN p = 1 .. Len(p) /\ DOMAIN q = 1 .. Len(q)
  BY <1>1
<1>5. ToSet(r) = ToSet(p) \cup ToSet(q)
  <2> HIDE DEF r
  <2>1. ASSUME NEW x \in ToSet(r) PROVE x \in ToSet(p) \cup ToSet(q)
    <3>1. PICK i : i \in 1 .. Len(p) + Len(q) /\ r[i] = x
      BY <1>4, <2>1 DEF ToSet
    <3>2. CASE i <= Len(p)
      BY <1>1, <1>2, <1>4, <3>1, <3>2 DEF ToSet, r
    <3>3. CASE i > Len(p)
      <4>1. i - Len(p) \in 1 .. Len(q) /\ Len(p) + (i - Len(p)) = i
        BY <1>1, <3>1, <3>3
      <4> QED
        BY <1>3, <1>4, <3>1, <4>1 DEF ToSet, r
    <3> QED
      BY <1>1, <3>1, <3>2, <3>3
  <2>2. ASSUME NEW x \in ToSet(p) PROVE x \in ToSet(r)
    <3>1. PICK i : i \in 1 .. Len(p) /\ p[i] = x
      BY <1>4, <2>2 DEF ToSet
    <3>2. i \in 1 .. Len(p) + Len(q) /\ r[i] = x
      BY <1>1, <1>2, <3>1 DEF r
    <3> QED
      BY <1>4, <3>2 DEF ToSet
  <2>3. ASSUME NEW x \in ToSet(q) PROVE x \in ToSet(r)
    <3>1. PICK i : i \in 1 .. Len(q) /\ q[i] = x
      BY <1>4, <2>3 DEF ToSet
    <3>2. Len(p) + i \in 1 .. Len(p) + Len(q) /\ r[Len(p) + i] = x
      BY <1>1, <1>3, <3>1 DEF r
    <3> QED
      BY <1>4, <3>2 DEF ToSet
  <2> QED
    BY <2>1, <2>2, <2>3
<1> QED
  BY <1>1, <1>2, <1>3, <1>5

LEMMA Placed ==
  ASSUME folder \in Seq(E), IsInjective(folder), NEW e \in ToSet(folder)
  PROVE  Place(e) \in 1 .. Len(folder) /\ folder[Place(e)] = e
<1>1. PICK k : k \in 1 .. Len(folder) /\ folder[k] = e
  BY DEF ToSet
<1>2. \A i \in 1 .. Len(folder) : folder[i] = e => i = k
  BY <1>1 DEF IsInjective
<1>3. {i \in 1 .. Len(folder) : folder[i] = e} = {k}
  BY <1>1, <1>2
<1>4. Place(e) = Min({k})
  BY <1>3 DEF Place, SelectInSeq
<1>5. Min({k}) = k
  <2>1. \A x \in {k} : x = k
    OBVIOUS
  <2>2. k =< k
    BY <1>1
  <2> QED
    BY <2>1, <2>2 DEF Min
<1> QED
  BY <1>1, <1>4, <1>5

\* What a removal and an arrival do to the listing.
Elsewhere == UNCHANGED <<position, answer, all, listing>>

LEMMA DoneIs ==
  ASSUME PageInv
  PROVE  /\ Done \in Seq(E) /\ Len(Done) \in Nat
         /\ Listing => /\ ToSet(all \o answer.emails) = ToSet(Done)
<1>1. /\ all \o answer.emails \in Seq(E)
      /\ ToSet(all \o answer.emails) = ToSet(all) \cup ToSet(answer.emails)
  BY Joining DEF PageInv
<1>2. CASE listing = "answered"
  BY <1>1, <1>2 DEF Done
<1>3. CASE listing # "answered"
  BY <1>1, <1>3 DEF Done, PageInv, Listing
<1> QED
  BY <1>2, <1>3

LEMMA WithoutKeeps ==
  ASSUME ListingInv, FolderWithout(Discarded), Elsewhere,
         present[Discard], ~present'[Discard], hits'[Send] = hits[Send]
  PROVE  ListingInv'
<1> DEFINE k == Place(Discarded)
<1>1. /\ k \in 1 .. Len(folder) /\ folder[k] = Discarded
      /\ folder \in Seq(E) /\ IsInjective(folder) /\ Len(folder) \in Nat
  BY Placed DEF ListingInv, FolderInv
<1>2. folder' = RemoveAt(folder, k)
  BY DEF FolderWithout
<1> HIDE DEF k
<1>3. IsWithout(folder', folder, k, E)
  BY <1>1, <1>2, Removing
<1>4. /\ folder' \in Seq(E) /\ Len(folder') = Len(folder) - 1
      /\ DOMAIN folder' = 1 .. Len(folder) - 1 /\ DOMAIN folder = 1 .. Len(folder)
      /\ \A i \in 1 .. Len(folder) - 1 :
           folder'[i] = IF i < k THEN folder[i] ELSE folder[i + 1]
  BY <1>1, <1>3 DEF IsWithout
<1>5. ASSUME NEW i \in 1 .. Len(folder) - 1
      PROVE  \E j \in 1 .. Len(folder) :
               /\ folder'[i] = folder[j] /\ j # k /\ (j = i \/ j = i + 1)
               /\ (j < k <=> i < k)
  <2>1. CASE i < k
    <3>1. i \in 1 .. Len(folder) /\ folder'[i] = folder[i] /\ i # k
      BY <1>1, <1>4, <2>1
    <3> QED
      BY <2>1, <3>1
  <2>2. CASE i >= k
    <3>1. /\ i + 1 \in 1 .. Len(folder) /\ folder'[i] = folder[i + 1]
          /\ i + 1 # k /\ ~(i + 1 < k) /\ ~(i < k)
      BY <1>1, <1>4, <2>2
    <3> QED
      BY <3>1
  <2>3. i \in Nat /\ k \in Nat
    BY <1>1
  <2> QED
    BY <2>1, <2>2, <2>3
<1>6. IsInjective(folder')
  <2> SUFFICES ASSUME NEW i \in 1 .. Len(folder) - 1, NEW j \in 1 .. Len(folder) - 1,
                      folder'[i] = folder'[j]
               PROVE  i = j
    BY <1>4 DEF IsInjective
  <2>1. PICK x : /\ x \in 1 .. Len(folder) /\ folder'[i] = folder[x]
                 /\ (x < k <=> i < k) /\ x = IF i < k THEN i ELSE i + 1
    BY <1>1, <1>4
  <2>2. PICK y : /\ y \in 1 .. Len(folder) /\ folder'[j] = folder[y]
                 /\ (y < k <=> j < k) /\ y = IF j < k THEN j ELSE j + 1
    BY <1>1, <1>4
  <2>3. x = y
    BY <1>1, <1>4, <2>1, <2>2 DEF IsInjective
  <2> QED
    BY <1>1, <2>1, <2>2, <2>3
<1>7. ToSet(folder') \subseteq ToSet(folder)
  <2> SUFFICES ASSUME NEW i \in 1 .. Len(folder) - 1
               PROVE  folder'[i] \in ToSet(folder)
    BY <1>4 DEF ToSet
  <2>1. PICK j : j \in 1 .. Len(folder) /\ folder'[i] = folder[j]
    BY <1>5
  <2> QED
    BY <1>4, <2>1 DEF ToSet
<1>8. FolderInv'
  BY <1>4, <1>6, <1>7 DEF FolderInv, ListingInv
<1>9. PageInv'
  BY DEF PageInv, ListingInv, Elsewhere, Listing
<1>10. Done' = Done /\ Listing' = Listing /\ arrived' = arrived
  BY DEF Done, Elsewhere, Listing, FolderWithout
<1>11. Done \in Seq(E) /\ Len(Done) \in Nat
  BY DoneIs DEF ListingInv
<1>12. OnceInv'
  <2>1. ASSUME NEW i \in 1 .. Len(folder) - 1, i > Len(Done), ~arrived, Listing
        PROVE  folder'[i] \notin ToSet(Done)
    <3>1. PICK j : /\ j \in 1 .. Len(folder) /\ folder'[i] = folder[j]
                   /\ (j = i \/ j = i + 1)
      BY <1>5
    <3>2. j > Len(Done)
      BY <1>11, <2>1, <3>1
    <3> QED
      BY <1>4, <2>1, <3>1, <3>2 DEF OnceInv, ListingInv
  <2> QED
    BY <1>4, <1>10, <2>1 DEF OnceInv, ListingInv
<1>13. AllInv'
  <2>1. ASSUME NEW i \in 1 .. Len(folder) - 1, ~shifted', Listing,
               i <= Len(Done), folder'[i] \in ToSet(Emails)
        PROVE  folder'[i] \in ToSet(Done)
    <3>1. ~shifted /\ Discarded \notin ToSet(Done)
      BY <2>1, DoneIs DEF FolderWithout, ListingInv
    <3>2. ~(k <= Len(Done))
      BY <1>1, <1>4, <2>1, <3>1, FolderListingAssumption DEF AllInv, ListingInv
    <3>3. folder'[i] = folder[i] /\ i \in 1 .. Len(folder)
      BY <1>1, <1>4, <1>11, <2>1, <3>2
    <3> QED
      BY <1>4, <2>1, <3>1, <3>3 DEF AllInv, ListingInv
  <2>2. (LastPage' <=> LastPage) /\ listing' = listing
    BY DEF LastPage, Elsewhere
  <2>3. ~shifted' => ~shifted
    BY DEF FolderWithout
  <2>4. ASSUME ~shifted', listing = "listed" \/ (listing = "answered" /\ LastPage)
        PROVE  ToSet(Emails) \cap ToSet(folder') \subseteq ToSet(Done)
    BY <1>7, <2>3, <2>4 DEF AllInv, ListingInv
  <2> QED
    BY <1>4, <1>10, <2>1, <2>2, <2>4 DEF AllInv
<1> QED
  BY <1>8, <1>9, <1>12, <1>13 DEF ListingInv

LEMMA WithKeeps ==
  ASSUME ListingInv, FolderWith(Sent), Elsewhere,
         present'[Discard] = present[Discard], ~(hits[Send] > 0), hits'[Send] > 0
  PROVE  ListingInv'
<1>1. folder \in Seq(E) /\ IsInjective(folder) /\ Len(folder) \in Nat /\ Sent \in E
      /\ DOMAIN folder = 1 .. Len(folder)
  BY DEF ListingInv, FolderInv, E
<1>2. IsWith(folder', Sent, folder, E)
  <2>1. folder' = <<Sent>> \o folder
    BY DEF FolderWith
  <2> QED
    BY <1>1, <2>1, Fronting
<1>3. /\ folder' \in Seq(E) /\ Len(folder') = Len(folder) + 1 /\ folder'[1] = Sent
      /\ DOMAIN folder' = 1 .. Len(folder) + 1
      /\ \A i \in 1 .. Len(folder) : folder'[i + 1] = folder[i]
  BY <1>1, <1>2 DEF IsWith
<1>4. ASSUME NEW i \in 1 .. Len(folder) + 1
      PROVE  \/ i = 1 /\ folder'[i] = Sent
             \/ i - 1 \in 1 .. Len(folder) /\ folder'[i] = folder[i - 1]
  <2>1. CASE i = 1
    BY <1>3, <2>1
  <2>2. CASE i # 1
    <3>1. i - 1 \in 1 .. Len(folder) /\ (i - 1) + 1 = i
      BY <1>1, <2>2
    <3> QED
      BY <1>3, <3>1
  <2> QED
    BY <2>1, <2>2
<1>5. \A i \in 1 .. Len(folder) : folder[i] # Sent
  BY <1>1 DEF ListingInv, FolderInv, ToSet
<1>6. IsInjective(folder')
  <2> SUFFICES ASSUME NEW i \in 1 .. Len(folder) + 1, NEW j \in 1 .. Len(folder) + 1,
                      folder'[i] = folder'[j]
               PROVE  i = j
    BY <1>3 DEF IsInjective
  <2>1. CASE i = 1 \/ j = 1
    BY <1>4, <1>5, <2>1
  <2>2. CASE i # 1 /\ j # 1
    <3>1. /\ i - 1 \in 1 .. Len(folder) /\ j - 1 \in 1 .. Len(folder)
          /\ folder[i - 1] = folder[j - 1]
      BY <1>4, <2>2
    <3>2. i - 1 = j - 1
      BY <1>1, <3>1 DEF IsInjective
    <3> QED
      BY <1>1, <3>2
  <2> QED
    BY <2>1, <2>2
<1>7. ToSet(folder) \subseteq ToSet(folder')
  <2> SUFFICES ASSUME NEW i \in 1 .. Len(folder) PROVE folder[i] \in ToSet(folder')
    BY <1>1 DEF ToSet
  <2>1. i + 1 \in 1 .. Len(folder) + 1 /\ folder'[i + 1] = folder[i]
    BY <1>1, <1>3
  <2> QED
    BY <1>3, <2>1 DEF ToSet
<1>8. FolderInv'
  BY <1>3, <1>6, <1>7 DEF FolderInv, ListingInv
<1>9. PageInv'
  BY DEF PageInv, ListingInv, Elsewhere, Listing
<1>10. /\ Done' = Done /\ Listing' = Listing /\ shifted' = shifted
       /\ listing' = listing /\ (LastPage' <=> LastPage)
  BY DEF Done, Elsewhere, Listing, FolderWith, LastPage
<1>11. OnceInv'
  BY <1>10 DEF OnceInv, ListingInv, FolderWith
<1>12. Len(Done) \in Nat
  BY DoneIs DEF ListingInv
<1>13. Sent \notin ToSet(Emails)
  BY FolderListingAssumption
<1>14. AllInv'
  <2>1. ASSUME NEW i \in 1 .. Len(folder) + 1, ~shifted, Listing,
               i <= Len(Done), folder'[i] \in ToSet(Emails)
        PROVE  folder'[i] \in ToSet(Done)
    <3>1. i - 1 \in 1 .. Len(folder) /\ folder'[i] = folder[i - 1]
      BY <1>4, <1>13, <2>1
    <3>2. i - 1 <= Len(Done)
      BY <1>1, <1>12, <2>1
    <3> QED
      BY <1>1, <2>1, <3>1, <3>2 DEF AllInv, ListingInv
  <2>2. ToSet(Emails) \cap ToSet(folder') \subseteq ToSet(Emails) \cap ToSet(folder)
    <3> SUFFICES ASSUME NEW i \in 1 .. Len(folder) + 1, folder'[i] \in ToSet(Emails)
                 PROVE  folder'[i] \in ToSet(folder)
      BY <1>3 DEF ToSet
    <3>1. i - 1 \in 1 .. Len(folder) /\ folder'[i] = folder[i - 1]
      BY <1>4, <1>13
    <3> QED
      BY <1>1, <3>1 DEF ToSet
  <2>3. ASSUME ~shifted, listing = "listed" \/ (listing = "answered" /\ LastPage)
        PROVE  ToSet(Emails) \cap ToSet(folder') \subseteq ToSet(Done)
    BY <2>2, <2>3 DEF AllInv, ListingInv
  <2> QED
    BY <1>3, <1>10, <2>1, <2>3 DEF AllInv
<1> QED
  BY <1>8, <1>9, <1>11, <1>14 DEF ListingInv

LEMMA ListingInitInv == ListingInit => ListingInv
<1> SUFFICES ASSUME ListingInit PROVE ListingInv
  OBVIOUS
<1>1. /\ folder = Emails /\ all = <<>> /\ answer = NoAnswer /\ position = 0
      /\ listing = "none" /\ arrived = FALSE /\ shifted = FALSE
  BY DEF ListingInit
<1>2. /\ Emails \in Seq(E) /\ IsInjective(Emails) /\ Discarded \in ToSet(Emails)
      /\ Sent \notin ToSet(Emails)
  BY FolderListingAssumption DEF E
<1>3. FolderInv
  BY <1>1, <1>2 DEF FolderInv
<1>4. PageInv
  BY <1>1 DEF PageInv, NoAnswer, Listing, ToSet
<1>5. OnceInv
  BY <1>1 DEF OnceInv, Done, Listing, IsInjective
<1>6. AllInv
  BY <1>1 DEF AllInv, Listing
<1> QED
  BY <1>3, <1>4, <1>5, <1>6 DEF ListingInv

LEMMA BeginKeeps == ASSUME ListingInv, BeginListing PROVE ListingInv'
<1>1. /\ listing = "none" /\ listing' = "asked"
      /\ UNCHANGED <<vars, folder, position, answer, all, arrived, shifted>>
  BY DEF BeginListing
<1>2. position = 0 /\ all = <<>> /\ answer.emails = <<>>
  BY <1>1 DEF ListingInv, PageInv, NoAnswer
<1>3. FolderInv'
  BY <1>1 DEF ListingInv, FolderInv, vars
<1>4. PageInv'
  BY <1>1, <1>2 DEF ListingInv, PageInv
<1>5. Done' = <<>> /\ Done = <<>> /\ ToSet(<<>>) = {} /\ Len(<<>>) = 0
  BY <1>1, <1>2 DEF Done, ToSet
<1>6. DOMAIN folder = 1 .. Len(folder) /\ Len(folder) \in Nat
  BY DEF ListingInv, FolderInv
<1>7. OnceInv'
  BY <1>1, <1>5 DEF OnceInv, IsInjective
<1>8. AllInv'
  BY <1>1, <1>5, <1>6 DEF AllInv
<1> QED
  BY <1>3, <1>4, <1>7, <1>8 DEF ListingInv

LEMMA PageKeeps == ASSUME ListingInv, PageAnswered PROVE ListingInv'
<1> DEFINE page == answer'.emails
<1>1. /\ listing = "asked" /\ listing' = "answered"
      /\ UNCHANGED <<vars, folder, position, all, arrived, shifted>>
      /\ page = PageAt
      /\ ~answer'.more => position + Limit >= Len(folder)
  <2>1. PICK more \in {TRUE, position + Limit < Len(folder)} :
          answer' = [emails |-> PageAt, more |-> more]
    BY DEF PageAnswered
  <2>2. answer'.more = more /\ page = PageAt
    BY <2>1
  <2>3. position \in Nat /\ Limit \in Nat /\ Len(folder) \in Nat
    BY FolderListingAssumption
    DEF ListingInv, PageInv, FolderInv, PageAnswered, Listing
  <2>4. ~answer'.more => position + Limit >= Len(folder)
    <3> DEFINE left == position + Limit < Len(folder)
    <3>1. ~left => position + Limit >= Len(folder)
      BY <2>3
    <3> HIDE DEF left
    <3>2. more = TRUE \/ more = left
      BY DEF left
    <3>3. ~answer'.more => ~left
      BY <2>2, <3>2, Zenon
    <3> QED
      BY <3>1, <3>3
  <2> QED
    BY <2>2, <2>4 DEF PageAnswered
<1>2. /\ folder \in Seq(E) /\ all \in Seq(E) /\ Len(folder) \in Nat
      /\ DOMAIN folder = 1 .. Len(folder)
      /\ position = Len(all) /\ position \in Nat /\ Limit \in Nat \ {0}
      /\ Done = all /\ DOMAIN all = 1 .. Len(all)
  BY <1>1, FolderListingAssumption
  DEF ListingInv, FolderInv, PageInv, Listing, Done
<1>3. IsPage(page, folder, position, Limit, E)
  <2>1. page = SubSeq(folder, position + 1, Min({position + Limit, Len(folder)}))
    BY <1>1 DEF PageAt
  <2> HIDE DEF page
  <2>2. IsPage(SubSeq(folder, position + 1, Min({position + Limit, Len(folder)})),
               folder, position, Limit, E)
    BY <1>2, Paging
  <2> QED
    BY <2>1, <2>2
<1> HIDE DEF page
<1>4. /\ page \in Seq(E) /\ Len(page) \in Nat
      /\ DOMAIN page = 1 .. Len(page)
      /\ \A i \in 1 .. Len(page) :
           position + i \in 1 .. Len(folder) /\ page[i] = folder[position + i]
      /\ position + Limit >= Len(folder) \/ Len(page) = 0 =>
           \A i \in 1 .. Len(folder) : i <= position + Len(page)
  BY <1>3 DEF IsPage
<1>5. Done' = all \o page /\ Listing /\ Listing'
  BY <1>1 DEF Done, Listing, page
<1>6. /\ all \o page \in Seq(E) /\ Len(all \o page) = position + Len(page)
      /\ \A i \in 1 .. Len(all) : (all \o page)[i] = all[i]
      /\ \A i \in 1 .. Len(page) : (all \o page)[Len(all) + i] = page[i]
      /\ ToSet(all \o page) = ToSet(all) \cup ToSet(page)
  BY <1>2, <1>4, Joining
<1> DEFINE done == all \o page
<1>7. /\ done \in Seq(E) /\ Len(done) = position + Len(page)
      /\ DOMAIN done = 1 .. position + Len(page)
      /\ \A i \in 1 .. position : done[i] = all[i]
      /\ \A i \in 1 .. Len(page) : done[position + i] = folder[position + i]
      /\ ToSet(done) = ToSet(all) \cup ToSet(page)
      /\ Done' = done
  BY <1>2, <1>4, <1>5, <1>6
<1> HIDE DEF done
<1>8. ASSUME NEW i \in 1 .. position + Len(page), i > position
      PROVE  i \in 1 .. Len(folder) /\ done[i] = folder[i]
  <2>1. i - position \in 1 .. Len(page) /\ position + (i - position) = i
    BY <1>2, <1>4, <1>8
  <2> QED
    BY <1>4, <1>7, <2>1
<1>9. FolderInv'
  BY <1>1 DEF ListingInv, FolderInv, vars
<1>10. PageInv'
  BY <1>1, <1>2, <1>4 DEF ListingInv, PageInv, page
<1>11. OnceInv'
  <2> SUFFICES ASSUME ~arrived
               PROVE  /\ IsInjective(done)
                      /\ \A i \in DOMAIN folder :
                           i > Len(done) => folder[i] \notin ToSet(done)
    BY <1>1, <1>7 DEF OnceInv
  <2>1. /\ IsInjective(all)
        /\ \A i \in DOMAIN folder : i > position => folder[i] \notin ToSet(all)
    BY <1>2, <1>5 DEF OnceInv, ListingInv
  <2>2. \A i, j \in 1 .. Len(folder) : folder[i] = folder[j] => i = j
    BY <1>2 DEF ListingInv, FolderInv, IsInjective
  <2>3. ASSUME NEW i \in 1 .. position + Len(page), NEW j \in 1 .. position + Len(page),
               done[i] = done[j], i <= j
        PROVE  i = j
    <3>1. CASE j <= position
      <4>1. i \in 1 .. position /\ j \in 1 .. position
        BY <1>2, <2>3, <3>1
      <4>2. all[i] = all[j]
        BY <1>7, <2>3, <4>1
      <4> QED
        BY <1>2, <2>1, <4>1, <4>2 DEF IsInjective
    <3>2. CASE i > position
      <4>1. /\ i \in 1 .. Len(folder) /\ j \in 1 .. Len(folder)
            /\ folder[i] = folder[j]
        BY <1>2, <1>8, <2>3, <3>2
      <4> QED
        BY <2>2, <4>1
    <3>3. CASE i <= position /\ j > position
      <4>1. i \in 1 .. position /\ done[i] = all[i]
        BY <1>2, <1>7, <2>3, <3>3
      <4>2. done[i] \in ToSet(all)
        BY <1>2, <4>1 DEF ToSet
      <4>3. j \in 1 .. Len(folder) /\ done[j] = folder[j]
        BY <1>8, <3>3
      <4> QED
        BY <1>2, <2>1, <2>3, <3>3, <4>2, <4>3
    <3> QED
      BY <1>2, <3>1, <3>2, <3>3
  <2>4. IsInjective(done)
    <3> SUFFICES ASSUME NEW i \in 1 .. position + Len(page),
                        NEW j \in 1 .. position + Len(page), done[i] = done[j]
                 PROVE  i = j
      BY <1>7 DEF IsInjective
    <3>1. i <= j \/ j <= i
      BY <1>2, <1>4
    <3> QED
      BY <2>3, <3>1
  <2>5. ASSUME NEW i \in 1 .. Len(folder), i > Len(done)
        PROVE  folder[i] \notin ToSet(done)
    <3>1. i > position
      BY <1>2, <1>4, <1>7, <2>5
    <3>2. folder[i] \notin ToSet(all)
      BY <1>2, <2>1, <3>1
    <3>3. ASSUME NEW j \in 1 .. Len(page), page[j] = folder[i] PROVE FALSE
      <4>1. position + j \in 1 .. Len(folder) /\ folder[position + j] = folder[i]
        BY <1>4, <3>3
      <4>2. position + j = i
        BY <2>2, <4>1
      <4> QED
        BY <1>2, <1>4, <1>7, <2>5, <4>2
    <3>4. folder[i] \notin ToSet(page)
      BY <1>4, <3>3 DEF ToSet
    <3> QED
      BY <1>7, <3>2, <3>4
  <2> QED
    BY <1>2, <2>4, <2>5
<1>12. AllInv'
  <2> SUFFICES ASSUME ~shifted
               PROVE  /\ \A i \in DOMAIN folder :
                           i <= Len(done) /\ folder[i] \in ToSet(Emails)
                             => folder[i] \in ToSet(done)
                      /\ LastPage' =>
                           ToSet(Emails) \cap ToSet(folder) \subseteq ToSet(done)
    BY <1>1, <1>7 DEF AllInv
  <2>1. \A i \in DOMAIN folder : i <= position /\ folder[i] \in ToSet(Emails)
                                   => folder[i] \in ToSet(all)
    BY <1>2, <1>5 DEF AllInv, ListingInv
  <2>2. ASSUME NEW i \in 1 .. Len(folder), i <= Len(done), folder[i] \in ToSet(Emails)
        PROVE  folder[i] \in ToSet(done)
    <3>1. CASE i <= position
      BY <1>2, <1>7, <2>1, <2>2, <3>1
    <3>2. CASE i > position
      <4>1. i \in 1 .. position + Len(page) /\ done[i] = folder[i]
        BY <1>2, <1>4, <1>7, <1>8, <2>2, <3>2
      <4> QED
        BY <1>7, <4>1 DEF ToSet
    <3> QED
      BY <1>2, <3>1, <3>2
  <2>3. ASSUME LastPage', NEW i \in 1 .. Len(folder) PROVE i <= Len(done)
    <3>1. ~answer'.more \/ page = <<>>
      BY <2>3 DEF LastPage, page
    <3>2. position + Limit >= Len(folder) \/ Len(page) = 0
      BY <1>1, <3>1
    <3> QED
      BY <1>4, <1>7, <3>2
  <2>4. ASSUME LastPage', NEW x \in ToSet(Emails) \cap ToSet(folder)
        PROVE  x \in ToSet(done)
    <3>1. PICK i : i \in 1 .. Len(folder) /\ folder[i] = x
      BY <1>2, <2>4 DEF ToSet
    <3>2. i <= Len(done)
      BY <2>3, <2>4, <3>1
    <3> QED
      BY <2>2, <2>4, <3>1, <3>2
  <2> QED
    BY <1>2, <2>2, <2>4
<1> QED
  BY <1>9, <1>10, <1>11, <1>12 DEF ListingInv

LEMMA Prefix ==
  ASSUME NEW S, NEW p \in Seq(S), NEW q \in Seq(S), IsInjective(p \o q)
  PROVE  IsInjective(p)
<1>1. /\ p \o q \in Seq(S) /\ Len(p \o q) = Len(p) + Len(q)
      /\ Len(p) \in Nat /\ Len(q) \in Nat
      /\ \A i \in 1 .. Len(p) : (p \o q)[i] = p[i]
  BY Joining
<1> DEFINE r == p \o q
<1>2. /\ DOMAIN r = 1 .. Len(p) + Len(q) /\ DOMAIN p = 1 .. Len(p)
      /\ \A i \in 1 .. Len(p) : r[i] = p[i]
  BY <1>1
<1>3. \A i \in 1 .. Len(p) : i \in 1 .. Len(p) + Len(q)
  BY <1>1
<1> HIDE DEF r
<1>4. IsInjective(r) => IsInjective(p)
  BY <1>2, <1>3 DEF IsInjective
<1> QED
  BY <1>4 DEF r

LEMMA TakeKeeps == ASSUME ListingInv, TakePage PROVE ListingInv'
<1>1. /\ listing = "answered" /\ all' = all \o answer.emails
      /\ UNCHANGED <<vars, folder, answer, arrived, shifted>>
      /\ \/ LastPage /\ listing' = "listed" /\ position' = position
         \/ /\ ~LastPage /\ listing' = "asked"
            /\ position' = position + Len(answer.emails)
  BY DEF TakePage, Advance
<1>2. all \in Seq(E) /\ answer.emails \in Seq(E) /\ position = Len(all)
  BY <1>1 DEF ListingInv, PageInv, Listing
<1>3. /\ all' \in Seq(E) /\ Len(all') = Len(all) + Len(answer.emails)
      /\ ToSet(all') = ToSet(all) \cup ToSet(answer.emails)
  BY <1>1, <1>2, Joining
<1>4. Done' = Done /\ Listing
  BY <1>1 DEF Done, Listing
<1>5. FolderInv'
  BY <1>1 DEF ListingInv, FolderInv, vars
<1>6. PageInv'
  BY <1>1, <1>2, <1>3 DEF ListingInv, PageInv, Listing
<1>7. OnceInv'
  BY <1>1, <1>4 DEF ListingInv, OnceInv
<1>8. AllInv'
  BY <1>1, <1>4 DEF ListingInv, AllInv, Listing
<1> QED
  BY <1>5, <1>6, <1>7, <1>8 DEF ListingInv

LEMMA FailKeeps == ASSUME ListingInv, ListingFails PROVE ListingInv'
<1>1. /\ Listing /\ listing' = "failed"
      /\ UNCHANGED <<vars, folder, position, answer, all, arrived, shifted>>
  BY DEF ListingFails
<1>2. /\ all \in Seq(E) /\ answer.emails \in Seq(E) /\ Done' = all
      /\ DOMAIN all = 1 .. Len(all)
  BY <1>1 DEF ListingInv, PageInv, Done
<1>3. FolderInv'
  BY <1>1 DEF ListingInv, FolderInv, vars
<1>4. PageInv'
  BY <1>1 DEF ListingInv, PageInv, Listing
<1>5. IsInjective(Done) => IsInjective(all)
  BY <1>2, Prefix DEF ListingInv, PageInv, Done
<1>6. OnceInv'
  BY <1>1, <1>2, <1>5 DEF ListingInv, OnceInv, Listing
<1>7. AllInv'
  BY <1>1 DEF AllInv, Listing
<1> QED
  BY <1>3, <1>4, <1>6, <1>7 DEF ListingInv

\* Nothing the listing or the folder depends on changes.
LEMMA StillKeeps ==
  ASSUME ListingInv, UNCHANGED listingVars,
         present'[Discard] => present[Discard], hits[Send] > 0 => hits'[Send] > 0
  PROVE  ListingInv'
<1>1. UNCHANGED <<folder, position, answer, all, listing, arrived, shifted>>
  BY DEF listingVars
<1>2. FolderInv'
  BY <1>1 DEF ListingInv, FolderInv
<1>3. PageInv'
  BY <1>1 DEF ListingInv, PageInv, Listing
<1>4. Done' = Done /\ (Listing' <=> Listing) /\ (LastPage' <=> LastPage)
  BY <1>1 DEF Done, Listing, LastPage
<1>5. OnceInv'
  BY <1>1, <1>4 DEF ListingInv, OnceInv
<1>6. AllInv'
  BY <1>1, <1>4 DEF ListingInv, AllInv
<1> QED
  BY <1>2, <1>3, <1>5, <1>6 DEF ListingInv

LEMMA Calls ==
  /\ Call = {Discard, Send} /\ Discard # Send
  /\ Method[Discard] = "DELETE" /\ Method[Send] = "POST"
BY FolderListingAssumption

\* A submission is carried out once at most, so it brings one email.
LEMMA RequestKeeps ==
  ASSUME Inv, ListingInv, NEW c \in Call, Request(c) PROVE ListingInv'
<1>1. PICK carriedOut \in BOOLEAN :
        /\ carriedOut => Method[c] # "DELETE" \/ present[c]
        /\ hits' = [hits EXCEPT ![c] = IF carriedOut THEN @ + 1 ELSE @]
        /\ present' = [present EXCEPT ![c] =
                         @ /\ ~(carriedOut /\ Method[c] = "DELETE")]
  BY DEF Request, Attempt
<1>2. /\ hits \in [Call -> Nat] /\ present \in [Call -> BOOLEAN]
      /\ at[c] = "request"
  BY DEF Inv, TypeOK, Request, Attempt
<1>3. UNCHANGED <<position, answer, all, listing>>
  BY DEF Request
<1>4. CASE carriedOut /\ c = Discard
  <2>1. /\ hits'[c] > hits[c] /\ hits'[Send] = hits[Send]
        /\ present[Discard] /\ ~present'[Discard]
    <3>1. hits'[c] > hits[c] /\ hits'[Send] = hits[Send]
      BY <1>1, <1>2, <1>4, Calls
    <3>2. carriedOut /\ Method[c] = "DELETE" /\ c = Discard
      BY <1>4, Calls
    <3>3. present'[c] = (present[c] /\ ~(carriedOut /\ Method[c] = "DELETE"))
      BY <1>1, <1>2, Zenon
    <3>4. present[Discard] /\ ~present'[Discard]
      BY <1>1, <3>2, <3>3, Zenon
    <3> QED
      BY <3>1, <3>4
  <2>2. FolderWithout(Discarded)
    <3>1. CASE hits'[c] > hits[c] /\ c = Discard
      BY <3>1, Calls DEF Request
    <3> QED
      BY <1>4, <2>1, <3>1
  <2> QED
    BY <1>3, <2>1, <2>2, WithoutKeeps DEF Elsewhere
<1>5. CASE carriedOut /\ c = Send
  <2>1. /\ hits'[c] > hits[c] /\ present'[Discard] = present[Discard]
        /\ hits[Send] = 0 /\ hits'[Send] > 0
    BY <1>1, <1>2, <1>5, Calls DEF Inv, IsIdempotent
  <2>2. FolderWith(Sent)
    BY <1>5, <2>1, Calls DEF Request
  <2> QED
    BY <1>3, <2>1, <2>2, WithKeeps DEF Elsewhere
<1>6. CASE ~carriedOut
  <2>1. ~(hits'[c] > hits[c]) /\ present' = present /\ hits' = hits
    BY <1>1, <1>2, <1>6
  <2>2. UNCHANGED <<folder, arrived, shifted>>
    BY <2>1 DEF Request
  <2> QED
    BY <1>3, <2>1, <2>2, StillKeeps DEF listingVars
<1> QED
  BY <1>4, <1>5, <1>6, Calls

LEMMA CallStepKeeps ==
  ASSUME Inv, ListingInv, NEW c \in Call, CallStep(c) PROVE ListingInv'
<1>1. CASE Request(c)
  BY <1>1, RequestKeeps
<1>2. CASE /\ Answered(c) \/ GivesUp(c) \/ TriesAgain(c) \/ Sleep(c)
           /\ UNCHANGED listingVars
  <2>1. present' = present /\ hits' = hits
    BY <1>2 DEF Answered, GivesUp, TriesAgain, Sleep
  <2> QED
    BY <1>2, <2>1, StillKeeps
<1> QED
  BY <1>1, <1>2 DEF CallStep

LEMMA ClientsKeep == ASSUME Inv, ListingInv, Clients PROVE ListingInv'
<1>1. ASSUME NEW c \in Call, Start(c) \/ Cancel(c), UNCHANGED listingVars
      PROVE  ListingInv'
  BY <1>1, StillKeeps DEF Start, Cancel
<1>2. CASE RemovedByOthers
  <2>1. /\ present[Discard] /\ present' = [present EXCEPT ![Discard] = FALSE]
        /\ hits' = hits /\ FolderWithout(Discarded)
        /\ UNCHANGED <<position, answer, all, listing>>
    BY <1>2 DEF RemovedByOthers, RemovedElsewhere
  <2>2. ~present'[Discard]
    BY <2>1, Calls DEF Inv, TypeOK
  <2> QED
    BY <2>1, <2>2, WithoutKeeps DEF Elsewhere
<1> QED
  BY <1>1, <1>2 DEF Clients

LEMMA ListingKeeps ==
  Inv /\ ListingInv /\ [ListingNext]_<<vars, listingVars>> => ListingInv'
<1> SUFFICES ASSUME Inv, ListingInv, [ListingNext]_<<vars, listingVars>>
             PROVE  ListingInv'
  OBVIOUS
<1>1. CASE BeginListing
  BY <1>1, BeginKeeps
<1>2. CASE PageAnswered
  BY <1>2, PageKeeps
<1>3. CASE TakePage
  BY <1>3, TakeKeeps
<1>4. CASE ListingFails
  BY <1>4, FailKeeps
<1>5. ASSUME NEW c \in Call, CallStep(c) PROVE ListingInv'
  BY <1>5, CallStepKeeps
<1>6. CASE Clients
  BY <1>6, ClientsKeep
<1>7. CASE UNCHANGED <<vars, listingVars>>
  BY <1>7, StillKeeps DEF vars
<1> QED
  BY <1>1, <1>2, <1>3, <1>4, <1>5, <1>6, <1>7 DEF ListingNext

\* The calls make in a listing the steps they make anyway.
LEMMA ListingSteps == [ListingNext]_<<vars, listingVars>> => [Next]_vars
<1> SUFFICES ASSUME [ListingNext]_<<vars, listingVars>> PROVE Next \/ UNCHANGED vars
  OBVIOUS
<1>1. CASE BeginListing \/ PageAnswered \/ TakePage \/ ListingFails
  BY <1>1 DEF BeginListing, PageAnswered, TakePage, ListingFails
<1>2. ASSUME NEW c \in Call, CallStep(c) PROVE Next
  BY <1>2 DEF CallStep, Request, Next, Step
<1>3. CASE Clients
  BY <1>3, Calls DEF Clients, RemovedByOthers, Next
<1> QED
  BY <1>1, <1>2, <1>3 DEF ListingNext

\* The calls beside a listing are carried out at most once, as alone.
THEOREM CallsBesideAListing == ListingSpec => Implements
<1>1. ListingInit => Init
  BY DEF ListingInit
<1>2. ListingSpec => Spec
  BY <1>1, ListingSteps, PTL DEF ListingSpec, Spec
<1> QED
  BY <1>2, CallsAreOnce

\* A listing that ends has every email that was in the folder throughout, unless one
\* already listed left and shifted the rest, and has none twice, unless one arrived:
\* whatever the length of the folder and the size of a page, whether the API says
\* more where there is none, and whichever attempts of the other calls are lost
\* (listemails.go:26-46).
THEOREM ListingIsComplete == ListingSpec => []ListingComplete
<1>1. ListingInit => Inv /\ ListingInv
  BY InitInv, ListingInitInv DEF ListingInit
<1>2. Inv /\ [ListingNext]_<<vars, listingVars>> => Inv'
  BY NextInv, ListingSteps
<1>3. ListingInv => ListingComplete
  <2> SUFFICES ASSUME ListingInv PROVE ListingComplete
    OBVIOUS
  <2>1. listing = "listed" => Done = all
    BY DEF Done
  <2>2. ~arrived => IsInjective(all)
    <3>1. /\ all \in Seq(E) /\ answer.emails \in Seq(E)
      BY DEF ListingInv, PageInv
    <3> QED
      BY <3>1, Prefix DEF ListingInv, OnceInv, Done
  <2> QED
    BY <2>1, <2>2 DEF ListingInv, AllInv, ListingComplete
<1> QED
  BY <1>1, <1>2, <1>3, ListingKeeps, PTL DEF ListingSpec

=============================================================================
