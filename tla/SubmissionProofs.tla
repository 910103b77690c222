-------------------------- MODULE SubmissionProofs --------------------------
(* Whom an envelope opens for; what becomes of a message handed over, for  *)
(* any number of sessions, messages, keys and restarts; that the sender    *)
(* reads its own copy; and the memory of sent copies, for any bound on     *)
(* what it keeps.                                                          *)
EXTENDS Submission, FiniteSetTheorems, WellFoundedInduction, TLAPS

-----------------------------------------------------------------------------
(* Whom an envelope opens for, whatever the recipients, their keys and     *)
(* what is sealed.                                                         *)

Recipient == [address : Address, pair : KeyPair]

\* The recipient that findKeyFor picks for an address.
PickedFor(recipients, address, i) ==
  /\ i \in DOMAIN recipients /\ SameAddress(recipients[i].address, address)
  /\ \A j \in DOMAIN recipients :
       j < i => ~SameAddress(recipients[j].address, address)

\* What a wrapped key gives back to a pair.
LEMMA Unwrapping ==
  ASSUME NEW key, NEW nonce, NEW pair \in Usable, NEW other
  PROVE  LET w == Only(WrapSessionKey(key, pair, nonce))
         IN /\ other = pair => UnwrapSessionKey(w, other) = {key}
            /\ other # pair => UnwrapSessionKey(w, other) = {}
  <1> DEFINE ciphertext == [to |-> pair, nonce |-> nonce]
             w == [ciphertext |-> ciphertext,
                   key |-> [key |-> key, under |-> Combine(ciphertext, pair)]]
  <1>1. WrapSessionKey(key, pair, nonce) = {w}
    BY DEF WrapSessionKey, Encapsulate, Wrap
  <1>2. Only(WrapSessionKey(key, pair, nonce)) = w
    BY <1>1 DEF Only
  <1>3. UnwrapSessionKey(w, other) = Unwrap(w.key, Combine(ciphertext, other))
    BY DEF UnwrapSessionKey, Decapsulate
  <1>4. Combine(ciphertext, pair) = Combine(ciphertext, other) <=> other = pair
    BY DEF Combine
  <1> QED
    BY <1>2, <1>3, <1>4 DEF Unwrap

LEMMA Usables ==
  ASSUME NEW recipients, NEW email, NEW key, NEW filesKey,
         BuildEnvelope(email, recipients, key, filesKey) # {},
         NEW i \in DOMAIN recipients
  PROVE  recipients[i].pair \in Usable
  BY DEF BuildEnvelope, WrapSessionKey, Encapsulate

\* The session key, where the address is a recipient's: for its key pair, and
\* for no other.
LEMMA SessionKey ==
  ASSUME NEW recipients \in Seq(Recipient), NEW key, NEW address, NEW i,
         NEW other, PickedFor(recipients, address, i), recipients[i].pair \in Usable
  PROVE  LET keys == SessionKeyFor(SealedFor(recipients, key), other, address)
         IN /\ other = recipients[i].pair => keys = {key}
            /\ other # recipients[i].pair => keys = {}
  <1> DEFINE sealed == SealedFor(recipients, key)
             w == Only(WrapSessionKey(key, recipients[i].pair, <<key, i>>))
  <1>1. FindKeyFor(sealed, address) = {w}
    <2>1. /\ DOMAIN sealed = DOMAIN recipients /\ DOMAIN recipients \subseteq Nat
          /\ \A j \in DOMAIN recipients :
               sealed[j].for = recipients[j].address
          /\ sealed[i].wrapped = w
      BY DEF SealedFor, PickedFor
    <2>2. {j \in DOMAIN sealed :
             /\ SameAddress(sealed[j].for, address)
             /\ \A k \in DOMAIN sealed :
                  k < j => ~SameAddress(sealed[k].for, address)} = {i}
      <3>1. ASSUME NEW j \in DOMAIN recipients, j # i
            PROVE  j < i \/ i < j
        BY <2>1, <3>1 DEF PickedFor
      <3> QED
        BY <2>1, <3>1 DEF PickedFor
    <2>3. FindKeyFor(sealed, address) = {sealed[j].wrapped : j \in {i}}
      BY <2>2 DEF FindKeyFor
    <2> HIDE DEF sealed, w
    <2> QED
      BY <2>1, <2>3
  <1>2. SessionKeyFor(sealed, other, address) = UnwrapSessionKey(w, other)
    BY <1>1 DEF SessionKeyFor
  <1> QED
    BY <1>2, Unwrapping

-----------------------------------------------------------------------------
(* The email.                                                              *)

\* An email has these parts and no other.
IsEmail(email) ==
  email = [text |-> email.text, preview |-> email.preview,
           filesKey |-> email.filesKey]

LEMMA SealedOpens ==
  ASSUME NEW email, IsEmail(email), NEW key
  PROVE  DecryptEmail(EncryptEmail(email, key), key) = {email}
  <1> DEFINE sealed == EncryptEmail(email, key)
  <1>1. /\ DecryptSymmetrically(key, sealed.text) = {email.text}
        /\ DecryptSymmetrically(key, sealed.preview) = {email.preview}
    BY DEF EncryptEmail, EncryptSymmetrically, DecryptSymmetrically
  <1>2. /\ sealed.filesKey =
             {[plain |-> k, under |-> key] : k \in email.filesKey}
        /\ \A k \in email.filesKey :
             DecryptSymmetrically(key, [plain |-> k, under |-> key]) = {k}
    BY DEF EncryptEmail, EncryptSymmetrically, DecryptSymmetrically
  <1>3. AllOpen(sealed, key)
    BY <1>2 DEF AllOpen
  <1>4. FilesKeyOf(sealed, key) = email.filesKey
    <2> DEFINE Sealed(k) == [plain |-> k, under |-> key]
    <2>1. \A k \in email.filesKey : /\ Sealed(k) \in sealed.filesKey
                                    /\ k \in DecryptSymmetrically(key, Sealed(k))
      BY <1>2
    <2>2. ASSUME NEW y \in sealed.filesKey, NEW x \in DecryptSymmetrically(key, y)
          PROVE  x \in email.filesKey
      <3>1. PICK k \in email.filesKey : y = Sealed(k)
        BY <1>2
      <3> QED
        BY <1>2, <2>2, <3>1
    <2> HIDE DEF sealed, Sealed
    <2> QED
      BY <2>1, <2>2 DEF FilesKeyOf
  <1>5. DecryptEmail(sealed, key)
        = {[text |-> email.text, preview |-> email.preview,
            filesKey |-> email.filesKey]}
    <2> DEFINE opened == [text |-> email.text, preview |-> email.preview,
                          filesKey |-> email.filesKey]
    <2> HIDE DEF sealed, opened
    <2>1. DecryptEmail(sealed, key)
          = {[text |-> t, preview |-> p, filesKey |-> email.filesKey] :
               t \in {email.text}, p \in {email.preview}}
      BY <1>1, <1>3, <1>4 DEF DecryptEmail
    <2> QED
      BY <2>1 DEF opened
  <1> QED
    BY <1>5 DEF IsEmail

\* The recipient an address first stands for opens the envelope, and finds what
\* was sealed and the key of the files (envelope.go:115-127, 149-197): whatever
\* the other recipients, the case of the address, and how often it is named.
THEOREM OpensForItsRecipient ==
  ASSUME NEW email, IsEmail(email), NEW key, NEW filesKey,
         NEW recipients \in Seq(Recipient),
         NEW address, NEW i, PickedFor(recipients, address, i),
         NEW envelope \in BuildEnvelope(email, recipients, key, filesKey)
  PROVE  DecryptEnvelope(envelope, recipients[i].pair, address)
           = {WithFilesKey(email, filesKey)}
  <1> DEFINE whole == WithFilesKey(email, filesKey)
  <1>1. IsEmail(whole)
    BY DEF WithFilesKey, IsEmail
  <1>2. envelope = [sealed |-> EncryptEmail(whole, key),
                    wrappedKeys |-> SealedFor(recipients, key)]
    BY DEF BuildEnvelope
  <1>3. recipients[i].pair \in Usable
    BY Usables DEF PickedFor
  <1>4. SessionKeyFor(envelope.wrappedKeys, recipients[i].pair, address) = {key}
    BY <1>2, <1>3, SessionKey
  <1>5. DecryptEmail(envelope.sealed, key) = {whole}
    BY <1>1, <1>2, SealedOpens
  <1> QED
    BY <1>4, <1>5 DEF DecryptEnvelope

\* No other key pair opens it under that address, one named for the same address
\* further down the list included (envelope.go:71-78, keywrap.go:93-101).
THEOREM OpensForNoOther ==
  ASSUME NEW email, NEW key, NEW filesKey, NEW recipients \in Seq(Recipient),
         NEW address, NEW i, PickedFor(recipients, address, i),
         NEW envelope \in BuildEnvelope(email, recipients, key, filesKey),
         NEW other, other # recipients[i].pair
  PROVE  /\ DecryptEnvelope(envelope, other, address) = {}
         /\ DecryptPreview(envelope, other, address) = {}
  <1>1. envelope.wrappedKeys = SealedFor(recipients, key)
    BY DEF BuildEnvelope
  <1>2. recipients[i].pair \in Usable
    BY Usables DEF PickedFor
  <1>3. SessionKeyFor(envelope.wrappedKeys, other, address) = {}
    BY <1>1, <1>2, SessionKey
  <1> QED
    BY <1>3 DEF DecryptEnvelope, DecryptPreview

-----------------------------------------------------------------------------
(* The memory of sent copies stays exact.                                  *)

SentInv == SentTypeOK /\ SentMemoryExact

LEMMA SentInitInv == SentInit => SentInv
  BY SentCopiesAssumption
  DEF SentInit, SentInv, SentTypeOK, SentMemoryExact, Remembered

\* The order with one more Message-ID still names what is remembered, each once.
LEMMA OrderWithExact ==
  ASSUME SentInv, NEW m \in MessageID
  PROVE  /\ OrderWith(m) \in Seq(MessageID)
         /\ Remembered \cup {m} =
              {OrderWith(m)[i] : i \in DOMAIN OrderWith(m)}
         /\ \A i, j \in DOMAIN OrderWith(m) :
              OrderWith(m)[i] = OrderWith(m)[j] => i = j
         /\ Len(OrderWith(m)) <= Kept + 1
  <1> USE DEF SentInv, SentTypeOK, SentMemoryExact, Remembered
  <1>1. CASE m \in Remembered
    BY <1>1, SentCopiesAssumption DEF OrderWith
  <1>2. CASE m \notin Remembered
    <2> DEFINE s == Append(sentOrder, m)
    <2>1. OrderWith(m) = s
      BY <1>2 DEF OrderWith
    <2>2. /\ s \in Seq(MessageID)
          /\ Len(s) = Len(sentOrder) + 1
          /\ DOMAIN s = 1 .. Len(sentOrder) + 1
          /\ \A i \in DOMAIN sentOrder : s[i] = sentOrder[i]
          /\ DOMAIN sentOrder = 1 .. Len(sentOrder)
          /\ s[Len(sentOrder) + 1] = m
          /\ Len(sentOrder) \in Nat
      OBVIOUS
    <2> HIDE DEF s
    <2>3. \A i \in DOMAIN sentOrder : sentOrder[i] # m
      BY <1>2
    <2>4. \A i, j \in DOMAIN s : s[i] = s[j] => i = j
      BY <2>2, <2>3
    <2>5. Remembered \cup {m} = {s[i] : i \in DOMAIN s}
      BY <2>2
    <2> QED
      BY <2>1, <2>2, <2>4, <2>5, SentCopiesAssumption
  <1> QED
    BY <1>1, <1>2

LEMMA RememberKeepsInv ==
  ASSUME SentInv, NEW m \in MessageID \cup {NoMessageID}, NEW id \in Nat,
         RememberSentCopy(m, id)
  PROVE  SentInv'
  <1>1. CASE m = NoMessageID \/ id = NoID
    BY <1>1 DEF RememberSentCopy, sentVars, SentInv, SentTypeOK,
                SentMemoryExact, Remembered
  <1>2. CASE ~(m = NoMessageID \/ id = NoID)
    <2> DEFINE order == OrderWith(m)
               gone  == {order[i] : i \in 1 .. Dropped(order)}
    <2>1. /\ m \in MessageID
          /\ id \in Nat \ {NoID}
      BY <1>2
    <2>2. /\ order \in Seq(MessageID)
          /\ Remembered \cup {m} = {order[i] : i \in DOMAIN order}
          /\ \A i, j \in DOMAIN order : order[i] = order[j] => i = j
          /\ Len(order) <= Kept + 1
      BY <2>1, OrderWithExact
    <2>3. /\ sentOrder' = SubSeq(order, Dropped(order) + 1, Len(order))
          /\ sentCopies' = [x \in (Remembered \cup {m}) \ gone |->
                              IF x = m THEN id ELSE sentCopies[x]]
      BY <1>2 DEF RememberSentCopy
    <2> HIDE DEF order
    <2>4. Kept \in Nat \ {0}
      BY SentCopiesAssumption
    <2>5. CASE Len(order) <= Kept
      <3>1. Dropped(order) = 0
        BY <2>5, <2>2, <2>4 DEF Dropped
      <3>2. sentOrder' = order
        BY <3>1, <2>3, <2>2
      <3>3. gone = {}
        BY <3>1
      <3>4. Remembered' = {order[i] : i \in DOMAIN order}
        BY <2>2, <2>3, <3>3 DEF Remembered
      <3>5. SentTypeOK'
        BY <2>1, <2>2, <2>3, <3>2, <3>3
        DEF SentInv, SentTypeOK, Remembered
      <3> QED
        BY <2>2, <2>5, <3>2, <3>4, <3>5 DEF SentInv, SentMemoryExact
    <2>6. CASE Len(order) = Kept + 1
      <3>1. Dropped(order) = 1
        BY <2>6, <2>4 DEF Dropped
      <3>2. /\ sentOrder' \in Seq(MessageID)
            /\ Len(sentOrder') = Kept
            /\ DOMAIN sentOrder' = 1 .. Kept
            /\ \A i \in 1 .. Kept : sentOrder'[i] = order[i + 1]
            /\ DOMAIN order = 1 .. Kept + 1
        BY <3>1, <2>3, <2>2, <2>4, <2>6
      <3>3. gone = {order[1]}
        BY <3>1
      <3>4. Remembered' = {order[i] : i \in DOMAIN order} \ {order[1]}
        BY <2>2, <2>3, <3>3 DEF Remembered
      <3>5. {order[i] : i \in DOMAIN order} \ {order[1]}
              = {sentOrder'[i] : i \in DOMAIN sentOrder'}
        <4>1. \A i \in 1 .. Kept : i + 1 \in DOMAIN order /\ i + 1 # 1
          BY <3>2, <2>4
        <4>2. ASSUME NEW j \in DOMAIN order, order[j] # order[1]
              PROVE  j - 1 \in 1 .. Kept /\ sentOrder'[j - 1] = order[j]
          BY <4>2, <3>2, <2>4
        <4>3. 1 \in DOMAIN order
          BY <3>2, <2>4
        <4> QED
          BY <4>1, <4>2, <4>3, <3>2, <2>2
      <3>6. \A i, j \in DOMAIN sentOrder' :
              sentOrder'[i] = sentOrder'[j] => i = j
        <4> SUFFICES ASSUME NEW i \in 1 .. Kept, NEW j \in 1 .. Kept,
                            sentOrder'[i] = sentOrder'[j]
                     PROVE  i = j
          BY <3>2
        <4>1. i + 1 \in DOMAIN order /\ j + 1 \in DOMAIN order
          BY <3>2, <2>4
        <4>2. order[i + 1] = order[j + 1]
          BY <3>2
        <4>3. i + 1 = j + 1
          BY <4>1, <4>2, <2>2
        <4> QED
          BY <4>3, <2>4
      <3>7. SentTypeOK'
        BY <2>1, <2>3, <3>2
        DEF SentInv, SentTypeOK, Remembered
      <3> QED
        BY <2>4, <3>2, <3>4, <3>5, <3>6, <3>7 DEF SentInv, SentMemoryExact
    <2>7. Len(order) \in Nat
      BY <2>2
    <2> QED
      BY <2>2, <2>4, <2>5, <2>6, <2>7
  <1> QED
    BY <1>1, <1>2

LEMMA ForgetKeepsInv == ASSUME ForgetSentCopies PROVE SentInv'
  BY SentCopiesAssumption
  DEF ForgetSentCopies, SentInv, SentTypeOK, SentMemoryExact, Remembered

\* Whatever is sent, in whatever order its answers come, rememberSentCopy keeps
\* its map and its order in step, without a repetition, and within the bound.
THEOREM SentMemoryIsExact == SentSpec => []SentMemoryExact
  <1>1. SentInv /\ [SentNext]_sentVars => SentInv'
    <2> SUFFICES ASSUME SentInv, [SentNext]_sentVars PROVE SentInv'
      OBVIOUS
    <2>1. CASE \E m \in MessageID \cup {NoMessageID}, id \in Nat :
                  RememberSentCopy(m, id)
      BY <2>1, RememberKeepsInv
    <2>2. CASE ForgetSentCopies
      BY <2>2, ForgetKeepsInv
    <2>3. CASE UNCHANGED sentVars
      BY <2>3 DEF sentVars, SentInv, SentTypeOK, SentMemoryExact, Remembered
    <2> QED
      BY <2>1, <2>2, <2>3 DEF SentNext
  <1>2. SentInv => SentMemoryExact
    BY DEF SentInv
  <1> QED
    BY <1>1, <1>2, SentInitInv, PTL DEF SentSpec

-----------------------------------------------------------------------------
(* Counting up.                                                            *)

LEMMA LeastNumber ==
  ASSUME NEW T, T \subseteq Nat, T # {}
  PROVE  \E n \in T : \A m \in T : n <= m
<1>. DEFINE R == OpToRel(<, Nat)
<1>1. IsWellFoundedOn(R, Nat)
  BY NatLessThanWellFounded
<1>2. \A x, y \in Nat : x < y => <<x, y>> \in R
  BY DEF OpToRel
<1>. HIDE DEF R
<1>3. PICK x \in T : \A y \in T : ~(<<y, x>> \in R)
  BY <1>1, WFMin
<1>4. ASSUME NEW m \in T PROVE x <= m
  <2>1. m \in Nat /\ x \in Nat
    OBVIOUS
  <2>2. ~(m < x)
    BY <1>2, <1>3, <2>1
  <2>. QED
    BY <2>1, <2>2
<1>. QED
  BY <1>4

LEMMA Induction ==
  ASSUME NEW S, 0 \in S, \A n \in Nat : n \in S => n + 1 \in S
  PROVE  \A n \in Nat : n \in S
<1>. DEFINE T == Nat \ S
<1>. SUFFICES ASSUME T # {} PROVE FALSE
  OBVIOUS
<1>1. PICK n \in T : \A m \in T : n <= m
  BY LeastNumber
<1>2. n - 1 \in Nat /\ n - 1 \notin T /\ (n - 1) + 1 = n
  BY <1>1
<1>. QED
  BY <1>1, <1>2

-----------------------------------------------------------------------------
(* Folding a sequence from the left.                                       *)

LEMMA LastOf ==
  ASSUME NEW n \in Nat, NEW s \in SUBSET (1 .. n + 1), n + 1 \in s
  PROVE  Max(s) = n + 1
<1>1. \A y \in s : y \in Nat /\ n + 1 >= y
  OBVIOUS
<1>2. ASSUME NEW x \in s, \A y \in s : x >= y PROVE x = n + 1
  BY <1>1, <1>2
<1>3. \E x \in s : \A y \in s : x >= y
  BY <1>1
<1>. QED
  BY <1>2, <1>3 DEF Max

\* What a fold computes of each set of positions, from the last to the first.
Computes(g, f, base, q, L) ==
  /\ g \in [SUBSET DOMAIN q -> L]
  /\ \A s \in SUBSET DOMAIN q :
       IF s = {} THEN g[s] = base
       ELSE Max(s) \in s /\ g[s] = f[<<g[s \ {Max(s)}], q[Max(s)]>>]

LEMMA FoldExists ==
  ASSUME NEW L, NEW A, NEW base \in L, NEW f \in [L \X A -> L], NEW q \in Seq(A)
  PROVE  \E g : Computes(g, f, base, q, L)
<1>. DEFINE Fits(g, n) == \A s \in SUBSET (1 .. n) :
              IF s = {} THEN g[s] = base
              ELSE Max(s) \in s /\ g[s] = f[<<g[s \ {Max(s)}], q[Max(s)]>>]
            Q == {n \in Nat : n <= Len(q) =>
                                \E g \in [SUBSET (1 .. n) -> L] : Fits(g, n)}
<1>1. 0 \in Q
  <2>. DEFINE g == [s \in SUBSET (1 .. 0) |-> base]
  <2>1. \A s \in SUBSET (1 .. 0) : s = {}
    OBVIOUS
  <2>2. g \in [SUBSET (1 .. 0) -> L]
    OBVIOUS
  <2>3. \A s \in SUBSET (1 .. 0) : g[s] = base
    OBVIOUS
  <2>4. Fits(g, 0)
    BY <2>1, <2>3
  <2>. HIDE DEF g, Fits
  <2>. QED
    BY <2>2, <2>4
<1>2. ASSUME NEW n \in Nat, n \in Q, n + 1 <= Len(q)
      PROVE  \E g \in [SUBSET (1 .. n + 1) -> L] : Fits(g, n + 1)
  <2>0. n <= Len(q)
    <3>1. Len(q) \in Nat
      OBVIOUS
    <3>. QED
      BY <1>2, <3>1
  <2>1. PICK h \in [SUBSET (1 .. n) -> L] : Fits(h, n)
    <3>. HIDE DEF Fits
    <3>. QED
      BY <1>2, <2>0
  <2>. DEFINE g == [s \in SUBSET (1 .. n + 1) |->
                      IF n + 1 \in s THEN f[<<h[s \ {n + 1}], q[n + 1]>>] ELSE h[s]]
  <2>2. q[n + 1] \in A
    BY <1>2
  <2>3. \A s \in SUBSET (1 .. n + 1) :
          /\ s \ {n + 1} \in SUBSET (1 .. n)
          /\ n + 1 \notin s => s \in SUBSET (1 .. n)
    <3>1. \A x \in 1 .. n + 1 : x # n + 1 => x \in 1 .. n
      OBVIOUS
    <3>. QED
      BY <3>1
  <2>4. \A x \in L : f[<<x, q[n + 1]>>] \in L
    BY <2>2
  <2>5. ASSUME NEW s \in SUBSET (1 .. n + 1) PROVE g[s] \in L
    BY <2>1, <2>3, <2>4
  <2>6. g \in [SUBSET (1 .. n + 1) -> L]
    BY <2>5
  <2>7. ASSUME NEW s \in SUBSET (1 .. n + 1)
        PROVE  IF s = {} THEN g[s] = base
               ELSE Max(s) \in s /\ g[s] = f[<<g[s \ {Max(s)}], q[Max(s)]>>]
    <3>1. CASE n + 1 \in s
      <4>1. Max(s) = n + 1
        BY <3>1, LastOf
      <4>2. s \ {n + 1} \in SUBSET (1 .. n + 1) /\ n + 1 \notin s \ {n + 1}
        OBVIOUS
      <4>3. g[s \ {n + 1}] = h[s \ {n + 1}]
        BY <4>2
      <4>. QED
        BY <3>1, <4>1, <4>3
    <3>2. CASE n + 1 \notin s
      <4>1. s \in SUBSET (1 .. n)
        BY <2>3, <3>2
      <4>2. \A t \in SUBSET s : g[t] = h[t]
        BY <3>2, <4>1
      <4>. HIDE DEF g
      <4>3. g[s] = h[s] /\ g[s \ {Max(s)}] = h[s \ {Max(s)}]
        BY <4>2
      <4>. QED
        BY <2>1, <4>1, <4>3
    <3>. QED
      BY <3>1, <3>2
  <2>. HIDE DEF g
  <2>8. Fits(g, n + 1)
    BY <2>7
  <2>. HIDE DEF Fits
  <2>. QED
    BY <2>6, <2>8
<1>3. \A n \in Nat : n \in Q => n + 1 \in Q
  <2>1. ASSUME NEW n \in Nat, n \in Q PROVE n + 1 \in Q
    <3>. USE <1>2, <2>1
    <3>1. n + 1 \in Nat
      OBVIOUS
    <3>2. n + 1 <= Len(q) => \E g \in [SUBSET (1 .. n + 1) -> L] : Fits(g, n + 1)
      <4>. HIDE DEF Q, Fits
      <4>. QED
        BY <1>2, <2>1
    <3>. HIDE DEF Fits
    <3>. QED
      BY <3>1, <3>2
  <2>. HIDE DEF Q, Fits
  <2>. QED
    BY <2>1
<1>. HIDE DEF Q, Fits
<1>4. \A n \in Nat : n \in Q
  BY <1>1, <1>3, Induction
<1>5. Len(q) \in Nat /\ DOMAIN q = 1 .. Len(q)
  OBVIOUS
<1>6. \E g \in [SUBSET (1 .. Len(q)) -> L] : Fits(g, Len(q))
  <2>1. \A n \in Nat : n <= Len(q) =>
                        \E g \in [SUBSET (1 .. n) -> L] : Fits(g, n)
    BY <1>4 DEF Q
  <2>2. Len(q) <= Len(q)
    BY <1>5
  <2>. QED
    BY <1>5, <2>1, <2>2, Zenon
<1>7. PICK g \in [SUBSET (1 .. Len(q)) -> L] : Fits(g, Len(q))
  BY <1>6
<1>8. g \in [SUBSET DOMAIN q -> L]
  BY <1>5
<1>9. ASSUME NEW s \in SUBSET DOMAIN q
      PROVE  IF s = {} THEN g[s] = base
             ELSE Max(s) \in s /\ g[s] = f[<<g[s \ {Max(s)}], q[Max(s)]>>]
  <2>1. s \in SUBSET (1 .. Len(q))
    BY <1>5
  <2>. QED
    BY <1>7, <2>1 DEF Fits
<1>. QED
  BY <1>8, <1>9 DEF Computes

-----------------------------------------------------------------------------
(* The lists of addresses.                                                 *)

\* Of addresses that differ only in case, the first is kept.
LEMMA UniqueFold ==
  ASSUME NEW q \in Seq(Address)
  PROVE  \E r : /\ r[{}] = <<>> /\ UniqueAddresses(q) = r[1 .. Len(q)]
                /\ \A n \in Nat : n + 1 <= Len(q) =>
                     r[1 .. n + 1] =
                       IF Names(r[1 .. n], q[n + 1]) THEN r[1 .. n]
                       ELSE Append(r[1 .. n], q[n + 1])
<1>. DEFINE L == Seq(Address)
            D == DOMAIN q
            f == [p \in L \X Address |->
                    IF Names(p[1], p[2]) THEN p[1] ELSE Append(p[1], p[2])]
            Made(g, s) ==
              IF s = {} THEN <<>>
              ELSE IF Names(g[s \ {Max(s)}], q[Max(s)]) THEN g[s \ {Max(s)}]
                   ELSE Append(g[s \ {Max(s)}], q[Max(s)])
            r == CHOOSE g : g = [s \in SUBSET D |-> Made(g, s)]
<1>1. f \in [L \X Address -> L]
  <2>1. \A p \in L \X Address : p[1] \in L /\ p[2] \in Address
    OBVIOUS
  <2>2. \A l \in L, a \in Address : Append(l, a) \in L
    OBVIOUS
  <2>. HIDE DEF L
  <2>. QED
    BY <2>1, <2>2
<1>2. PICK g : Computes(g, f, <<>>, q, L)
  <2>1. <<>> \in L
    OBVIOUS
  <2>. HIDE DEF L, f
  <2>. QED
    BY <1>1, <2>1, FoldExists
<1>3. g = [s \in SUBSET D |-> Made(g, s)]
  <2>1. ASSUME NEW s \in SUBSET D PROVE g[s] = Made(g, s)
    <3>1. CASE s # {}
      <4>0. Max(s) \in D
        BY <1>2, <3>1 DEF Computes
      <4>1. q[Max(s)] \in Address
        BY <4>0
      <4>2. g[s \ {Max(s)}] \in L
        BY <1>2 DEF Computes
      <4>3. f[<<g[s \ {Max(s)}], q[Max(s)]>>] = Made(g, s)
        <5>. HIDE DEF L, D
        <5>. QED
          BY <3>1, <4>1, <4>2
      <4>. QED
        BY <1>2, <3>1, <4>3 DEF Computes
    <3>. QED
      BY <1>2, <3>1 DEF Computes
  <2>2. g \in [SUBSET D -> L]
    BY <1>2 DEF Computes
  <2>. HIDE DEF Made, D, L, f
  <2>. QED
    BY <2>1, <2>2
<1>. HIDE DEF L, f
<1>4. r = [s \in SUBSET D |-> Made(r, s)]
  <2>. HIDE DEF Made, D
  <2>. QED
    BY <1>3, Zenon
<1>5. UniqueAddresses(q) = r[D]
  BY Zenon DEF UniqueAddresses, FoldLeft, MapThenFoldSet
<1>. HIDE DEF r
<1>6. \A s \in SUBSET D : r[s] = Made(r, s)
  <2>. HIDE DEF Made, D
  <2>. QED
    BY <1>4
<1>7. Len(q) \in Nat /\ D = 1 .. Len(q)
  OBVIOUS
<1>8. r[{}] = <<>>
  BY <1>6
<1>9. ASSUME NEW n \in Nat, n + 1 <= Len(q)
      PROVE  r[1 .. n + 1] = IF Names(r[1 .. n], q[n + 1]) THEN r[1 .. n]
                             ELSE Append(r[1 .. n], q[n + 1])
  <2>1. 1 .. n + 1 \in SUBSET D /\ n + 1 \in 1 .. n + 1
        /\ (1 .. n + 1) \ {n + 1} = 1 .. n
    BY <1>7, <1>9
  <2>2. Max(1 .. n + 1) = n + 1
    BY <2>1, LastOf
  <2>. HIDE DEF D
  <2>. QED
    BY <1>6, <2>1, <2>2
<1>. QED
  BY <1>5, <1>7, <1>8, <1>9

\* Those that are in neither list are kept.
LEMMA BccFold ==
  ASSUME NEW to1, NEW cc1, NEW q \in Seq(Address)
  PROVE  \E r : /\ r[{}] = <<>> /\ BccFrom(to1, cc1, q) = r[1 .. Len(q)]
                /\ \A n \in Nat : n + 1 <= Len(q) =>
                     r[1 .. n + 1] =
                       IF Names(to1, q[n + 1]) \/ Names(cc1, q[n + 1]) THEN r[1 .. n]
                       ELSE Append(r[1 .. n], q[n + 1])
<1>. DEFINE L == Seq(Address)
            D == DOMAIN q
            f == [p \in L \X Address |->
                    IF Names(to1, p[2]) \/ Names(cc1, p[2]) THEN p[1] ELSE Append(p[1], p[2])]
            Made(g, s) ==
              IF s = {} THEN <<>>
              ELSE IF Names(to1, q[Max(s)]) \/ Names(cc1, q[Max(s)]) THEN g[s \ {Max(s)}]
                   ELSE Append(g[s \ {Max(s)}], q[Max(s)])
            r == CHOOSE g : g = [s \in SUBSET D |-> Made(g, s)]
<1>1. f \in [L \X Address -> L]
  <2>1. \A p \in L \X Address : p[1] \in L /\ p[2] \in Address
    OBVIOUS
  <2>2. \A l \in L, a \in Address : Append(l, a) \in L
    OBVIOUS
  <2>. HIDE DEF L
  <2>. QED
    BY <2>1, <2>2
<1>2. PICK g : Computes(g, f, <<>>, q, L)
  <2>1. <<>> \in L
    OBVIOUS
  <2>. HIDE DEF L, f
  <2>. QED
    BY <1>1, <2>1, FoldExists
<1>3. g = [s \in SUBSET D |-> Made(g, s)]
  <2>1. ASSUME NEW s \in SUBSET D PROVE g[s] = Made(g, s)
    <3>1. CASE s # {}
      <4>0. Max(s) \in D
        BY <1>2, <3>1 DEF Computes
      <4>1. q[Max(s)] \in Address
        BY <4>0
      <4>2. g[s \ {Max(s)}] \in L
        BY <1>2 DEF Computes
      <4>3. f[<<g[s \ {Max(s)}], q[Max(s)]>>] = Made(g, s)
        <5>. HIDE DEF L, D
        <5>. QED
          BY <3>1, <4>1, <4>2
      <4>. QED
        BY <1>2, <3>1, <4>3 DEF Computes
    <3>. QED
      BY <1>2, <3>1 DEF Computes
  <2>2. g \in [SUBSET D -> L]
    BY <1>2 DEF Computes
  <2>. HIDE DEF Made, D, L, f
  <2>. QED
    BY <2>1, <2>2
<1>. HIDE DEF L, f
<1>4. r = [s \in SUBSET D |-> Made(r, s)]
  <2>. HIDE DEF Made, D
  <2>. QED
    BY <1>3, Zenon
<1>5. BccFrom(to1, cc1, q) = r[D]
  BY Zenon DEF BccFrom, FoldLeft, MapThenFoldSet
<1>. HIDE DEF r
<1>6. \A s \in SUBSET D : r[s] = Made(r, s)
  <2>. HIDE DEF Made, D
  <2>. QED
    BY <1>4
<1>7. Len(q) \in Nat /\ D = 1 .. Len(q)
  OBVIOUS
<1>8. r[{}] = <<>>
  BY <1>6
<1>9. ASSUME NEW n \in Nat, n + 1 <= Len(q)
      PROVE  r[1 .. n + 1] = IF Names(to1, q[n + 1]) \/ Names(cc1, q[n + 1]) THEN r[1 .. n]
                             ELSE Append(r[1 .. n], q[n + 1])
  <2>1. 1 .. n + 1 \in SUBSET D /\ n + 1 \in 1 .. n + 1
        /\ (1 .. n + 1) \ {n + 1} = 1 .. n
    BY <1>7, <1>9
  <2>2. Max(1 .. n + 1) = n + 1
    BY <2>1, LastOf
  <2>. HIDE DEF D
  <2>. QED
    BY <1>6, <2>1, <2>2
<1>. QED
  BY <1>5, <1>7, <1>8, <1>9

\* What is kept of a list: every address as somebody writes it, once.
LEMMA UniqueIs ==
  ASSUME NEW q \in Seq(Address)
  PROVE  LET u == UniqueAddresses(q) IN
         /\ u \in Seq(Address)
         /\ \A i \in 1 .. Len(q) : Names(u, q[i])
         /\ \A i \in 1 .. Len(u) : \E j \in 1 .. Len(q) : u[i] = q[j]
         /\ \A i, j \in 1 .. Len(u) : SameAddress(u[i], u[j]) => i = j
<1>. DEFINE Is(u, n) ==
       /\ u \in Seq(Address)
       /\ \A i \in 1 .. n : Names(u, q[i])
       /\ \A i \in 1 .. Len(u) : \E j \in 1 .. n : u[i] = q[j]
       /\ \A i, j \in 1 .. Len(u) : SameAddress(u[i], u[j]) => i = j
<1>1. PICK r : /\ r[{}] = <<>> /\ UniqueAddresses(q) = r[1 .. Len(q)]
               /\ \A n \in Nat : n + 1 <= Len(q) =>
                    r[1 .. n + 1] =
                      IF Names(r[1 .. n], q[n + 1]) THEN r[1 .. n]
                      ELSE Append(r[1 .. n], q[n + 1])
  BY UniqueFold
<1>. DEFINE Q == {n \in Nat : n <= Len(q) => Is(r[1 .. n], n)}
<1>2. Len(q) \in Nat
  OBVIOUS
<1>3. 0 \in Q
  <2>1. r[1 .. 0] = <<>>
    BY <1>1
  <2>2. Is(<<>>, 0)
    OBVIOUS
  <2>. HIDE DEF Is
  <2>. QED
    BY <2>1, <2>2
<1>4. ASSUME NEW n \in Nat, n + 1 <= Len(q), NEW u, Is(u, n)
      PROVE  Is(IF Names(u, q[n + 1]) THEN u ELSE Append(u, q[n + 1]), n + 1)
  <2>1. q[n + 1] \in Address
    BY <1>2, <1>4
  <2>2. CASE Names(u, q[n + 1])
    BY <1>4, <2>2
  <2>3. CASE ~Names(u, q[n + 1])
    <3>. DEFINE v == Append(u, q[n + 1])
    <3>1. /\ v \in Seq(Address) /\ Len(v) = Len(u) + 1 /\ Len(u) \in Nat
          /\ DOMAIN u = 1 .. Len(u) /\ DOMAIN v = 1 .. Len(u) + 1
          /\ v[Len(u) + 1] = q[n + 1]
          /\ \A i \in 1 .. Len(u) : v[i] = u[i]
      BY <1>4, <2>1
    <3>. HIDE DEF v
    <3>2. \A i \in 1 .. n + 1 : Names(v, q[i])
      <4>0. \A i \in 1 .. n : Names(u, q[i])
        BY <1>4
      <4>1. ASSUME NEW i \in 1 .. n PROVE Names(v, q[i])
        <5>1. PICK k \in DOMAIN u : SameAddress(u[k], q[i])
          BY <4>0 DEF Names
        <5>2. k \in DOMAIN v /\ v[k] = u[k]
          BY <3>1
        <5>. QED
          BY <5>1, <5>2 DEF Names
      <4>2. Names(v, q[n + 1])
        BY <3>1 DEF Names, SameAddress
      <4>. QED
        BY <4>1, <4>2
    <3>3. \A i \in 1 .. Len(v) : \E j \in 1 .. n + 1 : v[i] = q[j]
      <4>1. \A i \in 1 .. Len(u) : \E j \in 1 .. n + 1 : v[i] = q[j]
        BY <1>4, <3>1
      <4>. QED
        BY <3>1, <4>1
    <3>4. \A i, j \in 1 .. Len(v) : SameAddress(v[i], v[j]) => i = j
      <4>1. \A i \in 1 .. Len(u) : ~SameAddress(v[i], q[n + 1])
                                   /\ ~SameAddress(q[n + 1], v[i])
        BY <2>3, <3>1 DEF Names, SameAddress
      <4>2. \A i, j \in 1 .. Len(u) : SameAddress(v[i], v[j]) => i = j
        BY <1>4, <3>1
      <4>3. \A i \in 1 .. Len(v) : i \in 1 .. Len(u) \/ i = Len(u) + 1
        BY <3>1
      <4>. QED
        BY <3>1, <4>1, <4>2, <4>3
    <3>5. Is(v, n + 1)
      BY <3>1, <3>2, <3>3, <3>4
    <3>. QED
      BY <2>3, <3>5 DEF v
  <2>. QED
    BY <2>2, <2>3
<1>. HIDE DEF Is
<1>5. \A n \in Nat : n \in Q => n + 1 \in Q
  BY <1>1, <1>2, <1>4
<1>. HIDE DEF Q
<1>6. \A n \in Nat : n \in Q
  BY <1>3, <1>5, Induction
<1>7. Is(r[1 .. Len(q)], Len(q))
  BY <1>2, <1>6 DEF Q
<1>. QED
  BY <1>1, <1>7 DEF Is

\* Of the recipients, those the header does not name, one and all.
LEMMA BccIs ==
  ASSUME NEW to1, NEW cc1, NEW q \in Seq(Address)
  PROVE  LET b == BccFrom(to1, cc1, q)
             Named(a) == Names(to1, a) \/ Names(cc1, a)
         IN /\ b \in Seq(Address)
            /\ \A i \in 1 .. Len(q) :
                 ~Named(q[i]) => \E j \in 1 .. Len(b) : b[j] = q[i]
            /\ \A i \in 1 .. Len(b) :
                 ~Named(b[i]) /\ \E j \in 1 .. Len(q) : b[i] = q[j]
<1>. DEFINE Named(a) == Names(to1, a) \/ Names(cc1, a)
            Is(b, n) ==
       /\ b \in Seq(Address)
       /\ \A i \in 1 .. n : ~Named(q[i]) => \E j \in 1 .. Len(b) : b[j] = q[i]
       /\ \A i \in 1 .. Len(b) :
            ~Named(b[i]) /\ \E j \in 1 .. n : b[i] = q[j]
<1>1. PICK r : /\ r[{}] = <<>> /\ BccFrom(to1, cc1, q) = r[1 .. Len(q)]
               /\ \A n \in Nat : n + 1 <= Len(q) =>
                    r[1 .. n + 1] =
                      IF Names(to1, q[n + 1]) \/ Names(cc1, q[n + 1]) THEN r[1 .. n]
                      ELSE Append(r[1 .. n], q[n + 1])
  BY BccFold
<1>. DEFINE Q == {n \in Nat : n <= Len(q) => Is(r[1 .. n], n)}
<1>2. Len(q) \in Nat
  OBVIOUS
<1>3. 0 \in Q
  <2>1. r[1 .. 0] = <<>>
    BY <1>1
  <2>2. Is(<<>>, 0)
    OBVIOUS
  <2>. HIDE DEF Is
  <2>. QED
    BY <2>1, <2>2
<1>4. ASSUME NEW n \in Nat, n + 1 <= Len(q), NEW b, Is(b, n)
      PROVE  Is(IF Named(q[n + 1]) THEN b ELSE Append(b, q[n + 1]), n + 1)
  <2>. HIDE DEF Named
  <2>1. q[n + 1] \in Address
    BY <1>2, <1>4
  <2>2. CASE Named(q[n + 1])
    BY <1>4, <2>2
  <2>3. CASE ~Named(q[n + 1])
    <3>. DEFINE v == Append(b, q[n + 1])
    <3>1. /\ v \in Seq(Address) /\ Len(v) = Len(b) + 1 /\ Len(b) \in Nat
          /\ v[Len(b) + 1] = q[n + 1]
          /\ \A i \in 1 .. Len(b) : v[i] = b[i]
      BY <1>4, <2>1
    <3>. HIDE DEF v
    <3>2. \A i \in 1 .. n + 1 :
            ~Named(q[i]) => \E j \in 1 .. Len(v) : v[j] = q[i]
      <4>1. \A i \in 1 .. n :
              ~Named(q[i]) => \E j \in 1 .. Len(v) : v[j] = q[i]
        BY <1>4, <3>1
      <4>. QED
        BY <3>1, <4>1
    <3>3. \A i \in 1 .. Len(v) :
            ~Named(v[i]) /\ \E j \in 1 .. n + 1 : v[i] = q[j]
      <4>1. \A i \in 1 .. Len(b) :
              ~Named(v[i]) /\ \E j \in 1 .. n + 1 : v[i] = q[j]
        BY <1>4, <3>1
      <4>2. \A i \in 1 .. Len(v) : i \in 1 .. Len(b) \/ v[i] = q[n + 1]
        BY <3>1
      <4>3. n + 1 \in 1 .. n + 1
        OBVIOUS
      <4>. QED
        BY <2>3, <4>1, <4>2, <4>3
    <3>4. Is(v, n + 1)
      BY <3>1, <3>2, <3>3
    <3>. QED
      BY <2>3, <3>4 DEF v
  <2>. QED
    BY <2>2, <2>3
<1>. HIDE DEF Is
<1>5. \A n \in Nat : n \in Q => n + 1 \in Q
  BY <1>1, <1>2, <1>4
<1>. HIDE DEF Q
<1>6. \A n \in Nat : n \in Q
  BY <1>3, <1>5, Induction
<1>7. Is(r[1 .. Len(q)], Len(q))
  BY <1>2, <1>6 DEF Q
<1>. QED
  BY <1>1, <1>7 DEF Is

-----------------------------------------------------------------------------
(* The recipients of a message.                                            *)

\* The addresses of a list, whatever their case.
Given(q) == {Lower[a] : a \in ToSet(q)}

LEMMA GivenIs ==
  ASSUME NEW q \in Seq(Address)
  PROVE  /\ \A x : x \in Given(q) <=> \E i \in 1 .. Len(q) : Lower[q[i]] = x
         /\ \A a : Names(q, a) <=> Lower[a] \in Given(q)
<1>1. DOMAIN q = 1 .. Len(q)
  OBVIOUS
<1>2. \A x : x \in Given(q) <=> \E i \in 1 .. Len(q) : Lower[q[i]] = x
  <2>1. ToSet(q) = {q[i] : i \in 1 .. Len(q)}
    BY <1>1 DEF ToSet
  <2>. QED
    BY <2>1, Zenon DEF Given
<1>3. \A a : Names(q, a) <=> Lower[a] \in Given(q)
  BY <1>1, <1>2 DEF Names, SameAddress
<1>. QED
  BY <1>2, <1>3

\* A list of the addresses of three others, each once; the third are those named
\* with the message that the first two do not name.
AreAll(list, to1, cc1, bcc, r) ==
  /\ list \in Seq(Address)
  /\ Given(list) = Given(to1) \cup Given(cc1) \cup Given(r)
  /\ \A i, j \in 1 .. Len(list) : SameAddress(list[i], list[j]) => i = j
  /\ Given(to1) \cup Given(cc1) \cup Given(bcc) = Given(list)
  /\ Given(bcc) \cap (Given(to1) \cup Given(cc1)) = {}

\* The list that is sealed for has each address the message names or the client
\* gave, once; the bcc are those the header does not name.
LEMMA AllAddressed ==
  ASSUME NEW to1 \in Seq(Address), NEW cc1 \in Seq(Address), NEW r \in Seq(Address)
  PROVE  AreAll(UniqueAddresses(to1 \o cc1 \o BccFrom(to1, cc1, r)),
                to1, cc1, BccFrom(to1, cc1, r), r)
<1>. DEFINE bcc == BccFrom(to1, cc1, r)
            q == to1 \o cc1 \o bcc
            list == UniqueAddresses(q)
            all == Given(to1) \cup Given(cc1) \cup Given(r)
<1>1. /\ bcc \in Seq(Address)
      /\ \A i \in 1 .. Len(r) : ~(Names(to1, r[i]) \/ Names(cc1, r[i])) =>
           \E j \in 1 .. Len(bcc) : bcc[j] = r[i]
      /\ \A i \in 1 .. Len(bcc) :
           /\ ~(Names(to1, bcc[i]) \/ Names(cc1, bcc[i]))
           /\ \E j \in 1 .. Len(r) : bcc[i] = r[j]
  BY BccIs
<1>. HIDE DEF bcc
<1>2. q \in Seq(Address)
  BY <1>1
<1>3. Given(q) = Given(to1) \cup Given(cc1) \cup Given(bcc)
  <2>1. /\ Len(to1) \in Nat /\ Len(cc1) \in Nat /\ Len(bcc) \in Nat
        /\ Len(q) = Len(to1) + Len(cc1) + Len(bcc)
        /\ \A i \in 1 .. Len(to1) : q[i] = to1[i]
        /\ \A i \in 1 .. Len(cc1) : q[Len(to1) + i] = cc1[i]
        /\ \A i \in 1 .. Len(bcc) : q[Len(to1) + Len(cc1) + i] = bcc[i]
    BY <1>1
  <2>. HIDE DEF q
  <2>2. ASSUME NEW x \in Given(q)
        PROVE  x \in Given(to1) \cup Given(cc1) \cup Given(bcc)
    <3>1. PICK i \in 1 .. Len(q) : Lower[q[i]] = x
      BY <1>2, GivenIs
    <3>2. CASE i <= Len(to1)
      <4>1. i \in 1 .. Len(to1) /\ Lower[to1[i]] = x
        BY <2>1, <3>1, <3>2
      <4>. QED
        BY <4>1, GivenIs
    <3>3. CASE Len(to1) < i /\ i <= Len(to1) + Len(cc1)
      <4>1. i - Len(to1) \in 1 .. Len(cc1) /\ i = Len(to1) + (i - Len(to1))
        BY <2>1, <3>3
      <4>2. Lower[cc1[i - Len(to1)]] = x
        BY <2>1, <3>1, <4>1
      <4>. QED
        BY <4>1, <4>2, GivenIs
    <3>4. CASE Len(to1) + Len(cc1) < i
      <4>. DEFINE k == i - (Len(to1) + Len(cc1))
      <4>1. k \in 1 .. Len(bcc) /\ i = Len(to1) + Len(cc1) + k
        BY <2>1, <3>4
      <4>2. Lower[bcc[k]] = x
        BY <2>1, <3>1, <4>1
      <4>. QED
        BY <1>1, <4>1, <4>2, GivenIs
    <3>5. i \in Nat
      OBVIOUS
    <3>. QED
      BY <2>1, <3>2, <3>3, <3>4, <3>5
  <2>3. ASSUME NEW x \in Given(to1) PROVE x \in Given(q)
    <3>1. PICK i \in 1 .. Len(to1) : Lower[to1[i]] = x
      BY <2>3, GivenIs
    <3>2. i \in 1 .. Len(q) /\ q[i] = to1[i]
      BY <2>1, <3>1
    <3>. QED
      BY <1>2, <3>1, <3>2, GivenIs
  <2>4. ASSUME NEW x \in Given(cc1) PROVE x \in Given(q)
    <3>1. PICK i \in 1 .. Len(cc1) : Lower[cc1[i]] = x
      BY <2>4, GivenIs
    <3>2. Len(to1) + i \in 1 .. Len(q) /\ q[Len(to1) + i] = cc1[i]
      BY <2>1, <3>1
    <3>. QED
      BY <1>2, <3>1, <3>2, GivenIs
  <2>5. ASSUME NEW x \in Given(bcc) PROVE x \in Given(q)
    <3>1. PICK i \in 1 .. Len(bcc) : Lower[bcc[i]] = x
      BY <1>1, <2>5, GivenIs
    <3>2. /\ Len(to1) + Len(cc1) + i \in 1 .. Len(q)
          /\ q[Len(to1) + Len(cc1) + i] = bcc[i]
      BY <2>1, <3>1
    <3>. QED
      BY <1>2, <3>1, <3>2, GivenIs
  <2>. QED
    BY <2>2, <2>3, <2>4, <2>5
<1>. HIDE DEF q
<1>4. /\ Given(to1) \cup Given(cc1) \cup Given(bcc) = all
      /\ Given(bcc) \cap (Given(to1) \cup Given(cc1)) = {}
  <2>1. ASSUME NEW x \in Given(bcc)
        PROVE  x \in Given(r) /\ x \notin Given(to1) /\ x \notin Given(cc1)
    <3>1. PICK i \in 1 .. Len(bcc) : Lower[bcc[i]] = x
      BY <1>1, <2>1, GivenIs
    <3>2. PICK j \in 1 .. Len(r) : bcc[i] = r[j]
      BY <1>1, <3>1
    <3>3. ~Names(to1, bcc[i]) /\ ~Names(cc1, bcc[i])
      BY <1>1, <3>1
    <3>. QED
      BY <3>1, <3>2, <3>3, GivenIs
  <2>2. ASSUME NEW x \in Given(r), x \notin Given(to1), x \notin Given(cc1)
        PROVE  x \in Given(bcc)
    <3>1. PICK i \in 1 .. Len(r) : Lower[r[i]] = x
      BY <2>2, GivenIs
    <3>2. ~Names(to1, r[i]) /\ ~Names(cc1, r[i])
      BY <2>2, <3>1, GivenIs
    <3>3. PICK j \in 1 .. Len(bcc) : bcc[j] = r[i]
      BY <1>1, <3>1, <3>2
    <3>. QED
      BY <1>1, <3>1, <3>3, GivenIs
  <2>. QED
    BY <2>1, <2>2
<1>5. /\ list \in Seq(Address)
      /\ \A i \in 1 .. Len(q) : Names(list, q[i])
      /\ \A i \in 1 .. Len(list) : \E j \in 1 .. Len(q) : list[i] = q[j]
      /\ \A i, j \in 1 .. Len(list) : SameAddress(list[i], list[j]) => i = j
  BY <1>2, UniqueIs
<1>. HIDE DEF list
<1>6. Given(list) = Given(q)
  <2>1. ASSUME NEW x \in Given(list) PROVE x \in Given(q)
    <3>1. PICK i \in 1 .. Len(list) : Lower[list[i]] = x
      BY <1>5, <2>1, GivenIs
    <3>2. PICK j \in 1 .. Len(q) : list[i] = q[j]
      BY <1>5, <3>1
    <3>. QED
      BY <1>2, <3>1, <3>2, GivenIs
  <2>2. ASSUME NEW x \in Given(q) PROVE x \in Given(list)
    <3>1. PICK i \in 1 .. Len(q) : Lower[q[i]] = x
      BY <1>2, <2>2, GivenIs
    <3>2. Names(list, q[i])
      BY <1>5, <3>1
    <3>. QED
      BY <1>5, <3>1, <3>2, GivenIs
  <2>. QED
    BY <2>1, <2>2
<1>. HIDE DEF bcc
<1>7. AreAll(list, to1, cc1, bcc, r)
  BY <1>3, <1>4, <1>5, <1>6 DEF AreAll
<1>. QED
  BY <1>7 DEF list, q, bcc

\* Who can be asked to open what is sealed for an address.
KeysFor(s, a) == IF s.keys[a] # {} THEN s.keys[a] ELSE s.serverKey

LEMMA OnlyOne == ASSUME NEW S, NEW key \in Optional(S), NEW k \in key
                 PROVE  k \in S /\ Only(key) = k
<1>1. PICK x \in S : key = {x}
  BY DEF Optional
<1>. QED
  BY <1>1 DEF Only

\* Each address with its key, and whether all have one of their own.
IsSealed(sealed, s, list) ==
  /\ sealed.recipients \in Seq(Recipient)
  /\ Len(sealed.recipients) = Len(list)
  /\ \A i \in 1 .. Len(list) :
       /\ sealed.recipients[i].address = list[i]
       /\ \A pair \in KeysFor(s, Lower[list[i]]) :
            pair = sealed.recipients[i].pair
  /\ (sealed.mode = "INTERNXT") <=>
       (\A i \in 1 .. Len(list) : s.keys[Lower[list[i]]] # {})

LEMMA Sealing ==
  ASSUME NEW s \in Settings, NEW list \in Seq(Address),
         SealFor(list, s.keys, s.serverKey) # {}
  PROVE  IsSealed(Only(SealFor(list, s.keys, s.serverKey)), s, list)
<1>. DEFINE K(a) == KeysFor(s, Lower[a])
            recipients == [i \in DOMAIN list |->
                             [address |-> list[i], pair |-> Only(K(list[i]))]]
            mode == IF \A i \in DOMAIN list : s.keys[Lower[list[i]]] # {}
                    THEN "INTERNXT" ELSE "EXTERNAL"
            sealed == [recipients |-> recipients, mode |-> mode]
<1>1. /\ \A i \in DOMAIN list : K(list[i]) # {}
      /\ SealFor(list, s.keys, s.serverKey) = {sealed}
  BY DEF SealFor, KeyOf, KeysFor
<1>2. Only(SealFor(list, s.keys, s.serverKey)) = sealed
  BY <1>1 DEF Only
<1>3. \A a \in Address : Lower[a] \in {Lower[b] : b \in Address}
  OBVIOUS
<1>4. ASSUME NEW i \in 1 .. Len(list)
      PROVE  /\ Only(K(list[i])) \in KeyPair
             /\ \A pair \in K(list[i]) : pair = Only(K(list[i]))
  <2>1. list[i] \in Address /\ i \in DOMAIN list
    OBVIOUS
  <2>2. K(list[i]) \in Optional(KeyPair)
    BY <1>3, <2>1, SubmissionAssumption DEF KeysFor
  <2>3. PICK k : k \in K(list[i])
    BY <1>1, <2>1
  <2>. HIDE DEF K
  <2>. QED
    BY <2>2, <2>3, OnlyOne
<1>5. DOMAIN list = 1 .. Len(list) /\ Len(list) \in Nat
  OBVIOUS
<1>6. recipients \in [1 .. Len(list) -> Recipient]
  <2>1. ASSUME NEW i \in 1 .. Len(list)
        PROVE  [address |-> list[i], pair |-> Only(K(list[i]))] \in Recipient
    <3>. HIDE DEF K
    <3>. QED
      BY <1>4 DEF Recipient
  <2>. HIDE DEF K
  <2>. QED
    BY <1>5, <2>1
<1>. HIDE DEF K
<1>7. /\ recipients \in Seq(Recipient) /\ Len(recipients) = Len(list)
      /\ \A i \in 1 .. Len(list) :
           /\ recipients[i].address = list[i]
           /\ recipients[i].pair = Only(K(list[i]))
  <2>1. DOMAIN recipients = 1 .. Len(list)
    BY <1>5
  <2>2. recipients \in Seq(Recipient)
    BY <1>5, <1>6
  <2>3. Len(recipients) = Len(list)
    BY <1>5, <2>1, <2>2
  <2>. QED
    BY <1>5, <2>2, <2>3
<1>8. (mode = "INTERNXT") <=> (\A i \in 1 .. Len(list) : s.keys[Lower[list[i]]] # {})
  BY <1>5
<1>9. sealed.recipients = recipients /\ sealed.mode = mode
  OBVIOUS
<1>. HIDE DEF recipients, mode, sealed
<1>. QED
  BY <1>2, <1>4, <1>7, <1>8, <1>9 DEF K, IsSealed

LEMMA Together ==
  ASSUME NEW S, NEW p \in Seq(S), NEW q \in Seq(S)
  PROVE  /\ p \o q \in Seq(S) /\ Len(p \o q) = Len(p) + Len(q)
         /\ Len(p) \in Nat /\ Len(q) \in Nat
         /\ \A i \in 1 .. Len(p) : (p \o q)[i] = p[i]
  OBVIOUS

LEMMA Behind ==
  ASSUME NEW S, NEW p \in Seq(S), NEW q \in Seq(S), NEW i \in 1 .. Len(q)
  PROVE  (p \o q)[Len(p) + i] = q[i]
  OBVIOUS

\* A recipient opens the envelope, and reads what was sealed.
Wraps(envelope, email, list, key, filesKey) ==
  /\ IsEmail(email) /\ list \in Seq(Recipient)
  /\ envelope \in BuildEnvelope(email, list, key, filesKey)
OpensAs(envelope, pair, a, email) ==
  \E opened \in DecryptEnvelope(envelope, pair, a) :
    opened.text = email.text /\ opened.preview = email.preview

LEMMA OpensAsWritten ==
  ASSUME NEW envelope, NEW email, NEW list, NEW key, NEW filesKey, NEW a, NEW i,
         Wraps(envelope, email, list, key, filesKey), PickedFor(list, a, i)
  PROVE  OpensAs(envelope, list[i].pair, a, email)
<1>1. DecryptEnvelope(envelope, list[i].pair, a) = {WithFilesKey(email, filesKey)}
  BY OpensForItsRecipient DEF Wraps
<1>2. /\ WithFilesKey(email, filesKey).text = email.text
      /\ WithFilesKey(email, filesKey).preview = email.preview
  BY DEF Wraps, WithFilesKey, IsEmail
<1>. QED
  BY <1>1, <1>2 DEF OpensAs

\* The account, as a recipient.
LEMMA OwnTyped ==
  ASSUME NEW s \in Settings PROVE OwnRecipient(s.account) \in Seq(Recipient)
<1>1. CASE s.account.public = {}
  BY <1>1 DEF OwnRecipient
<1>2. CASE s.account.public # {}
  <2>1. Only(s.account.public) \in KeyPair
    <3>1. PICK k : k \in s.account.public
      BY <1>2
    <3>2. s.account.public \in Optional(KeyPair)
      BY SubmissionAssumption
    <3>. QED
      BY <3>1, <3>2, OnlyOne
  <2>2. [address |-> s.account.address, pair |-> Only(s.account.public)] \in Recipient
    BY <2>1, SubmissionAssumption DEF Recipient
  <2>. QED
    BY <1>2, <2>2 DEF OwnRecipient
<1>. QED
  BY <1>1, <1>2

\* A copy sealed for a list of addresses, then for the account itself.
SealedTo(copy, s, list, all) ==
  LET m   == Composed[copy.message]
      own == OwnRecipient(setting.account)
  IN /\ copy.message = transaction[s].message /\ copy.recipients = to[s]
     /\ copy.to = m.to /\ copy.cc = m.cc
     /\ OutgoingOf(s).content = ReadBody(m)
     /\ AreAll(list, m.to, m.cc, copy.bcc, to[s])
     /\ all \in Seq(Recipient) /\ Len(all) = Len(list) + Len(own)
     /\ \A i \in 1 .. Len(list) :
          /\ all[i].address = list[i]
          /\ \A pair \in KeysFor(setting, Lower[list[i]]) : pair = all[i].pair
     /\ \A i \in 1 .. Len(own) : all[Len(list) + i] = own[i]
     /\ (copy.mode = "INTERNXT") <=>
          (\A i \in 1 .. Len(list) : setting.keys[Lower[list[i]]] # {})
     /\ copy.envelope \in
          BuildEnvelope(BodyOf(s), all, BodyKey(s), UnusedFilesKey(s))

\* The copy that is filed is sealed for all its message was addressed to.
LEMMA CopySealed ==
  ASSUME setting \in Settings, NEW s \in Session,
         transaction[s].message \in Message,
         to[s] = transaction[s].recipients, to[s] \in Seq(Address),
         ParseOutgoingMessage(MessageOf(s), to[s]) # {},
         SealedRecipients(s) # {}, EnvelopeOf(s) # {}
  PROVE  \E list, all : SealedTo(FiledCopy(s), s, list, all)
<1>. DEFINE copy == FiledCopy(s)
            m == Composed[transaction[s].message]
            bcc == BccFrom(m.to, m.cc, to[s])
            list == UniqueAddresses(m.to \o m.cc \o bcc)
            sealed == Only(SealedRecipients(s))
            own == OwnRecipient(setting.account)
            all == sealed.recipients \o own
            envelope == Only(EnvelopeOf(s))
<1>1. /\ OutgoingOf(s).content = ReadBody(m) /\ OutgoingOf(s).to = m.to
      /\ OutgoingOf(s).cc = m.cc /\ OutgoingOf(s).bcc = bcc
  <2>. DEFINE parsed == [content |-> ReadBody(m),
                         replyTo |-> RepliedEmailID(m.inReplyTo),
                         to |-> m.to, cc |-> m.cc, bcc |-> bcc]
  <2>1. ParseOutgoingMessage(m, to[s]) = {parsed}
    BY DEF ParseOutgoingMessage, MessageOf
  <2>2. /\ parsed.content = ReadBody(m) /\ parsed.to = m.to
        /\ parsed.cc = m.cc /\ parsed.bcc = bcc
    OBVIOUS
  <2>. HIDE DEF parsed
  <2>3. OutgoingOf(s) = parsed
    BY <2>1 DEF OutgoingOf, MessageOf, Only
  <2>. HIDE DEF m, bcc
  <2>. QED
    BY <2>2, <2>3
<1>2. m.to \in Seq(Address) /\ m.cc \in Seq(Address)
  BY SubmissionAssumption
<1>3. AreAll(list, m.to, m.cc, bcc, to[s]) /\ list \in Seq(Address)
  <2>1. m.to \in Seq(Address) /\ m.cc \in Seq(Address) /\ to[s] \in Seq(Address)
    BY <1>2
  <2>2. AreAll(list, m.to, m.cc, bcc, to[s])
    <3>. HIDE DEF m
    <3>. QED
      BY <2>1, AllAddressed
  <2>. HIDE DEF m, bcc, list
  <2>. QED
    BY <2>2 DEF AreAll
<1>4. SealedRecipients(s) = SealFor(list, setting.keys, setting.serverKey)
  BY <1>1 DEF SealedRecipients, AddressesOf
<1>5. IsSealed(sealed, setting, list)
  <2>. HIDE DEF m, bcc, list
  <2>1. SealFor(list, setting.keys, setting.serverKey) # {}
    BY <1>4
  <2>2. sealed = Only(SealFor(list, setting.keys, setting.serverKey))
    BY <1>4
  <2>. HIDE DEF sealed
  <2>. QED
    BY <1>3, <2>1, <2>2, Sealing
<1>6. /\ copy.message = transaction[s].message /\ copy.recipients = to[s]
      /\ copy.envelope = envelope /\ copy.mode = sealed.mode
      /\ copy.to = m.to /\ copy.cc = m.cc /\ copy.bcc = bcc
  BY <1>1 DEF FiledCopy
<1>7. own \in Seq(Recipient)
  BY OwnTyped
<1>. HIDE DEF copy, bcc, list, sealed, own
<1>8. /\ all \in Seq(Recipient) /\ Len(all) = Len(list) + Len(own)
      /\ Len(list) \in Nat /\ Len(own) \in Nat
      /\ \A i \in 1 .. Len(list) : all[i] = sealed.recipients[i]
      /\ \A i \in 1 .. Len(own) : all[Len(list) + i] = own[i]
  <2>. DEFINE recipients == sealed.recipients
  <2>1. recipients \in Seq(Recipient) /\ Len(recipients) = Len(list)
    BY <1>5 DEF IsSealed
  <2>. HIDE DEF recipients
  <2>2. /\ recipients \o own \in Seq(Recipient)
        /\ Len(recipients \o own) = Len(recipients) + Len(own)
        /\ Len(recipients) \in Nat /\ Len(own) \in Nat
        /\ \A i \in 1 .. Len(recipients) : (recipients \o own)[i] = recipients[i]
    BY <1>7, <2>1, Together
  <2>3. \A i \in 1 .. Len(own) : (recipients \o own)[Len(recipients) + i] = own[i]
    BY <1>7, <2>1, Behind
  <2>4. all = recipients \o own
    BY DEF recipients
  <2>. HIDE DEF all
  <2>5. /\ all \in Seq(Recipient) /\ Len(all) = Len(list) + Len(own)
        /\ Len(list) \in Nat /\ Len(own) \in Nat
        /\ \A i \in 1 .. Len(list) : all[i] = recipients[i]
        /\ \A i \in 1 .. Len(own) : all[Len(list) + i] = own[i]
    BY <2>1, <2>2, <2>3, <2>4
  <2>. QED
    BY <2>5 DEF recipients
<1>9. EnvelopeOf(s) = BuildEnvelope(BodyOf(s), all, BodyKey(s), UnusedFilesKey(s))
  BY DEF EnvelopeOf, RecipientsOf, sealed, own
<1>. HIDE DEF all
<1>10. envelope \in BuildEnvelope(BodyOf(s), all, BodyKey(s), UnusedFilesKey(s))
  BY <1>9 DEF BuildEnvelope, Only
<1>. HIDE DEF all, envelope
<1>11. SealedTo(copy, s, list, all)
  <2>. HIDE DEF m
  <2>1. \A i \in 1 .. Len(list) :
          /\ all[i].address = list[i]
          /\ \A pair \in KeysFor(setting, Lower[list[i]]) : pair = all[i].pair
    BY <1>5, <1>8 DEF IsSealed
  <2>2. (copy.mode = "INTERNXT") <=>
          (\A i \in 1 .. Len(list) : setting.keys[Lower[list[i]]] # {})
    BY <1>5, <1>6 DEF IsSealed
  <2>3. m = Composed[copy.message]
    BY <1>6 DEF m
  <2>. QED
    BY <1>1, <1>3, <1>6, <1>8, <1>10, <2>1, <2>2, <2>3 DEF SealedTo, own
<1>. QED
  BY <1>11 DEF copy

\* Who can open the copy that is filed, and how it is filed.
LEMMA CopyGoes ==
  ASSUME setting \in Settings, NEW s \in Session,
         transaction[s].message \in Message,
         to[s] = transaction[s].recipients, to[s] \in Seq(Address),
         ParseOutgoingMessage(MessageOf(s), to[s]) # {},
         SealedRecipients(s) # {}, EnvelopeOf(s) # {}
  PROVE  GoesToAll(FiledCopy(s), setting)
<1>. DEFINE copy == FiledCopy(s)
            m == Composed[copy.message]
            bcc == copy.bcc
            own == OwnRecipient(setting.account)
            envelope == copy.envelope
<1>1. PICK list, all : SealedTo(copy, s, list, all)
  BY CopySealed
<1>2. own \in Seq(Recipient)
  BY OwnTyped
<1>. HIDE DEF copy
<1>3. /\ list \in Seq(Address)
      /\ Given(list) = Given(m.to) \cup Given(m.cc) \cup Given(to[s])
      /\ \A i, j \in 1 .. Len(list) : SameAddress(list[i], list[j]) => i = j
      /\ Given(m.to) \cup Given(m.cc) \cup Given(bcc) = Given(list)
      /\ Given(bcc) \cap (Given(m.to) \cup Given(m.cc)) = {}
  BY <1>1 DEF SealedTo, AreAll
<1>5. \A i \in 1 .. Len(list) :
        /\ all[i].address = list[i]
        /\ \A pair \in KeysFor(setting, Lower[list[i]]) : pair = all[i].pair
  BY <1>1 DEF SealedTo
<1>6. /\ copy.message = transaction[s].message /\ copy.recipients = to[s]
      /\ copy.to = m.to /\ copy.cc = m.cc
  BY <1>1 DEF SealedTo
<1>8. /\ all \in Seq(Recipient) /\ Len(all) = Len(list) + Len(own)
      /\ Len(list) \in Nat /\ Len(own) \in Nat
  BY <1>1, <1>2, <1>3 DEF SealedTo
<1>10. /\ envelope \in BuildEnvelope(BodyOf(s), all, BodyKey(s), UnusedFilesKey(s))
       /\ envelope.wrappedKeys = SealedFor(all, BodyKey(s))
  <2>1. envelope \in BuildEnvelope(BodyOf(s), all, BodyKey(s), UnusedFilesKey(s))
    BY <1>1, Zenon DEF SealedTo
  <2>. HIDE DEF envelope
  <2>. QED
    BY <2>1 DEF BuildEnvelope
<1>. HIDE DEF own, envelope
<1>11. /\ Len(envelope.wrappedKeys) = Len(list) + Len(own)
       /\ \A i \in 1 .. Len(list) : envelope.wrappedKeys[i].for = list[i]
  <2>1. DOMAIN all = 1 .. Len(all) /\ Len(all) \in Nat
    BY <1>8
  <2>2. /\ DOMAIN SealedFor(all, BodyKey(s)) = 1 .. Len(all)
        /\ \A i \in 1 .. Len(all) :
             SealedFor(all, BodyKey(s))[i].for = all[i].address
        /\ SealedFor(all, BodyKey(s)) \in
             Seq({SealedFor(all, BodyKey(s))[i] : i \in 1 .. Len(all)})
    <3>. DEFINE keys == SealedFor(all, BodyKey(s))
    <3>1. DOMAIN keys = 1 .. Len(all) /\ keys = [i \in 1 .. Len(all) |-> keys[i]]
      BY <2>1 DEF SealedFor
    <3>2. \A i \in 1 .. Len(all) : keys[i].for = all[i].address
      BY <2>1 DEF SealedFor
    <3>. HIDE DEF keys
    <3>3. keys \in Seq({keys[i] : i \in 1 .. Len(all)})
      BY <2>1, <3>1
    <3>. QED
      BY <3>1, <3>2, <3>3 DEF keys
  <2>3. Len(SealedFor(all, BodyKey(s))) = Len(all)
    BY <2>1, <2>2
  <2>4. \A i \in 1 .. Len(list) : i \in 1 .. Len(all)
    BY <1>8
  <2>. QED
    BY <1>5, <1>8, <1>10, <2>2, <2>3, <2>4
<1>12. Addressed(copy) = Given(list)
  BY <1>3, <1>6 DEF Addressed, Given
<1>. DEFINE named == [k \in 1 .. Len(envelope.wrappedKeys) - Len(own) |->
                        Lower[envelope.wrappedKeys[k].for]]
<1>13. named = [k \in 1 .. Len(list) |-> Lower[list[k]]]
  BY <1>8, <1>11
<1>. HIDE DEF named
<1>14. /\ ToSet(named) = Given(list)
       /\ Len(named) = Cardinality(ToSet(named))
  <2>1. DOMAIN named = 1 .. Len(list) /\ \A k \in 1 .. Len(list) : named[k] = Lower[list[k]]
    BY <1>13
  <2>2. ToSet(named) = Given(list)
    BY <1>3, <2>1, GivenIs DEF ToSet
  <2>3. Len(named) = Len(list)
    BY <1>8, <2>1
  <2>4. named \in Bijection(1 .. Len(list), ToSet(named))
    <3>1. named \in [1 .. Len(list) -> ToSet(named)]
      BY <1>13, <2>1 DEF ToSet
    <3>2. \A i, j \in 1 .. Len(list) : named[i] = named[j] => i = j
      BY <1>3, <2>1 DEF SameAddress
    <3>3. \A x \in ToSet(named) : \E i \in 1 .. Len(list) : named[i] = x
      BY <2>1 DEF ToSet
    <3>. QED
      BY <3>1, <3>2, <3>3 DEF Bijection, Injection, Surjection, IsInjective
  <2>5. ExistsBijection(1 .. Len(list), ToSet(named))
    BY <2>4 DEF ExistsBijection
  <2>6. Cardinality(ToSet(named)) = Len(list)
    BY <1>8, <2>5, FS_CountingElements
  <2>. QED
    BY <2>2, <2>3, <2>6
<1>15. ASSUME NEW a \in Given(list), NEW pair \in KeysFor(setting, a)
       PROVE  Reads(copy, pair, a)
  <2>1. PICK i : i \in 1 .. Len(list) /\ Lower[list[i]] = a
    BY <1>3, <1>15, GivenIs
  <2>2. pair = all[i].pair /\ all[i].address = list[i]
    BY <1>5, <1>15, <2>1
  <2>3. list[i] \in Address
    BY <1>3, <2>1
  <2>4. PickedFor(all, a, i)
    <3>1. Lower[a] = a
      BY <2>1, <2>3, EnvelopeAssumption
    <3>2. ASSUME NEW j \in 1 .. Len(list), j < i PROVE ~SameAddress(list[j], a)
      BY <1>3, <2>1, <3>1, <3>2 DEF SameAddress
    <3>3. \A j \in 1 .. Len(list) : all[j].address = list[j]
      BY <1>5
    <3>4. DOMAIN all = 1 .. Len(list) + Len(own)
      BY <1>8
    <3>5. i \in DOMAIN all /\ \A j \in DOMAIN all : j < i => j \in 1 .. Len(list)
      BY <1>8, <2>1, <3>4
    <3>. QED
      BY <2>1, <2>2, <3>1, <3>2, <3>3, <3>5 DEF PickedFor, SameAddress
  <2>. DEFINE body == BodyOf(s)
              written == Body(ReadBody(m))
  <2>5. /\ IsEmail(body)
        /\ body.text = written.text /\ body.preview = written.preview
    BY <1>1 DEF SealedTo, BodyOf, Body, IsEmail
  <2>6. OpensAs(envelope, all[i].pair, a, body)
    <3>. DEFINE key == BodyKey(s)
                filesKey == UnusedFilesKey(s)
    <3>1. Wraps(envelope, body, all, key, filesKey)
      BY <1>8, <1>10, <2>5 DEF Wraps
    <3>. HIDE DEF body, key, filesKey
    <3>. QED
      BY <2>4, <3>1, OpensAsWritten
  <2>8. Written(copy) = written
    BY <1>6 DEF Written
  <2>. HIDE DEF body, written
  <2>. QED
    BY <2>2, <2>5, <2>6, <2>8 DEF Reads, OpensAs, envelope
<1>16. (copy.mode = "INTERNXT") <=> (\A a \in Given(list) : setting.keys[a] # {})
  <2>1. \A a : a \in Given(list) <=> \E i \in 1 .. Len(list) : Lower[list[i]] = a
    BY <1>3, GivenIs
  <2>2. (\A i \in 1 .. Len(list) : setting.keys[Lower[list[i]]] # {})
          <=> (\A a \in Given(list) : setting.keys[a] # {})
    BY <2>1
  <2>. QED
    BY <1>1, <2>2 DEF SealedTo
<1>17. /\ Given(copy.to) \cup Given(copy.cc) \cup Given(copy.bcc) = Given(list)
       /\ Given(copy.bcc) \cap (Given(copy.to) \cup Given(copy.cc)) = {}
  BY <1>3, <1>6
<1>18. named = [k \in 1 .. Len(copy.envelope.wrappedKeys)
                              - Len(OwnRecipient(setting.account)) |->
                 Lower[copy.envelope.wrappedKeys[k].for]]
  BY DEF named, own, envelope
<1>19. GoesToAll(copy, setting)
  BY <1>12, <1>14, <1>15, <1>16, <1>17, <1>18 DEF GoesToAll, Given, KeysFor
<1>. QED
  BY <1>19 DEF copy

-----------------------------------------------------------------------------
(* Submissions.                                                            *)

Early == {"envelope", "lookup", "upload", "submit"}
Transaction == [message : Message \cup {"none"}, left : Seq(Address),
                recipients : Seq(Address), number : Nat]
Copies == {sent[i] : i \in DOMAIN sent}

StateInv ==
  /\ at \in [Session -> Early \cup {"idle", "remember"}]
  /\ transaction \in [Session -> Transaction]
  /\ created \in [Session -> Nat]
  /\ submissions \in Nat
  /\ sent \in Seq(Copies)
  /\ SentInv

\* A submission in hand has a number of its own, under which nothing is filed yet,
\* or the one copy its session has the ID of.
NumbersInv ==
  /\ \A s \in Session : transaction[s].number <= submissions
  /\ \A s, t \in Session :
       at[s] # "idle" /\ at[t] # "idle"
         /\ transaction[s].number = transaction[t].number => s = t
  /\ \A i \in DOMAIN sent : sent[i].number \in 0 .. submissions
  /\ \A i, j \in DOMAIN sent : sent[i].number = sent[j].number => i = j
  /\ \A s \in Session : at[s] \in Early =>
       \A i \in DOMAIN sent : sent[i].number # transaction[s].number
  /\ \A s \in Session : at[s] = "remember" =>
       /\ created[s] \in DOMAIN sent
       /\ sent[created[s]].number = transaction[s].number
  /\ \A n \in accepted : \E i \in DOMAIN sent : sent[i].number = n

IDOf(m) == Composed[m].messageID

\* What is remembered under a Message-ID is a copy that bears it.
CopiesInv ==
  /\ \A s \in Session : at[s] # "idle" => transaction[s].message \in Message
  /\ \A i \in DOMAIN sent : sent[i].message \in Message
  /\ \A s \in Session : at[s] = "remember" =>
       /\ created[s] \in DOMAIN sent
       /\ sent[created[s]].message = transaction[s].message
  /\ \A id \in Remembered :
       /\ sentCopies[id] \in DOMAIN sent
       /\ IDOf(sent[sentCopies[id]].message) = id
  /\ latest # "none" =>
       /\ latest \in Message
       /\ IDOf(latest) # NoMessageID =>
            /\ IDOf(latest) \in Remembered
            /\ sent[sentCopies[IDOf(latest)]].message = latest
  /\ \A copy \in appended :
       copy.id \in DOMAIN sent /\ copy.message \in Message
         /\ IDOf(sent[copy.id].message) = IDOf(copy.message)
         /\ IDOf(copy.message) # NoMessageID

Inv == StateInv /\ NumbersInv /\ CopiesInv

LEMMA Constants ==
  /\ RecipientLists \subseteq Seq(Address)
  /\ \A m \in Message : Composed[m].messageID \in MessageID \cup {NoMessageID}
  /\ NoMessageID \notin MessageID
  /\ Kept \in Nat \ {0}
BY SubmissionAssumption, SentCopiesAssumption

USE Constants

\* What neither the sessions nor the memory depend on.
Still == UNCHANGED <<sent, accepted, latest, appended, submissions, sentVars>>

LEMMA InitKeeps == Init => Inv
<1> SUFFICES ASSUME Init PROVE Inv
  OBVIOUS
<1>1. SentInv
  BY SentInitInv DEF Init
<1>2. StateInv
  BY <1>1 DEF Init, StateInv, Transaction, NoTransaction, Copies, NoID
<1>3. NumbersInv
  BY DEF Init, NumbersInv, NoTransaction, Early
<1>4. CopiesInv
  BY DEF Init, CopiesInv, NoTransaction, SentInit, Remembered
<1> QED
  BY <1>2, <1>3, <1>4 DEF Inv

\* A session that ends its transaction.
LEMMA EndsInv == ASSUME Inv, NEW s \in Session, Ends(s), Still PROVE Inv'
<1> USE DEF Inv, Ends, Goes, Still, sentVars
<1>1. StateInv'
  BY DEF StateInv, Transaction, NoTransaction, NoID, Copies, SentInv, SentTypeOK,
         SentMemoryExact, Remembered
<1>2. NumbersInv'
  BY DEF StateInv, NumbersInv, Transaction, NoTransaction, Early
<1>3. CopiesInv'
  BY DEF StateInv, CopiesInv, Transaction, NoTransaction, Early, Remembered
<1> QED
  BY <1>1, <1>2, <1>3

\* A session that goes on to its next request.
LEMMA GoesOnInv ==
  ASSUME Inv, NEW s \in Session, NEW p \in Early, at[s] \in Early, Goes(s, p),
         UNCHANGED <<transaction, created>>, Still
  PROVE  Inv'
<1> USE DEF Inv, Goes, Still, sentVars
<1>1. StateInv'
  BY DEF StateInv, Copies, SentInv, SentTypeOK, SentMemoryExact, Remembered
<1>2. NumbersInv'
  BY DEF StateInv, NumbersInv, Early
<1>3. CopiesInv'
  BY DEF StateInv, CopiesInv, Early, Remembered
<1> QED
  BY <1>1, <1>2, <1>3

LEMMA MailInv == ASSUME Inv, NEW s \in Session, Mail(s) PROVE Inv'
<1>1. PICK m \in Message, r \in RecipientLists :
        transaction' = [transaction EXCEPT ![s] =
          [message |-> m, left |-> r, recipients |-> r, number |-> submissions + 1]]
  BY DEF Mail
<1>2. /\ at[s] = "idle" /\ at' = [at EXCEPT ![s] = "envelope"]
      /\ submissions' = submissions + 1
      /\ UNCHANGED <<created, sent, accepted, latest, appended, sentVars>>
  BY DEF Mail, Goes, accountVars
<1> USE <1>1, <1>2 DEF Inv, sentVars
<1>3. /\ at'[s] = "envelope" /\ transaction'[s].message = m
      /\ transaction'[s].number = submissions + 1
      /\ \A t \in Session \ {s} :
           at'[t] = at[t] /\ transaction'[t] = transaction[t]
  BY <1>1, <1>2 DEF Inv, StateInv
<1>4. StateInv'
  <2>1. transaction' \in [Session -> Transaction]
    BY <1>1 DEF Inv, StateInv, Transaction
  <2>. QED
    BY <1>2, <2>1 DEF Inv, StateInv, Early, Copies, SentInv, SentTypeOK,
                      SentMemoryExact, Remembered, sentVars
<1>5. NumbersInv'
  <2>1. submissions \in Nat
        /\ \A t \in Session : transaction[t].number \in Nat
    BY DEF Inv, StateInv, Transaction
  <2>2. \A i \in DOMAIN sent : sent[i].number \in 0 .. submissions
    BY DEF Inv, NumbersInv
  <2>3. \A i \in DOMAIN sent :
          sent[i].number \in 0 .. submissions' /\ sent[i].number # submissions + 1
    BY <1>2, <2>1, <2>2
  <2>4. \A t \in Session :
          transaction[t].number <= submissions /\ transaction[t].number # submissions + 1
    BY <2>1 DEF Inv, NumbersInv
  <2>5. \A t \in Session : transaction'[t].number <= submissions'
    BY <1>2, <1>3, <2>1, <2>4
  <2>6. \A t, u \in Session :
          at'[t] # "idle" /\ at'[u] # "idle"
            /\ transaction'[t].number = transaction'[u].number => t = u
    BY <1>3, <2>4 DEF Inv, NumbersInv
  <2>7. \A t \in Session : at'[t] \in Early =>
          \A i \in DOMAIN sent : sent[i].number # transaction'[t].number
    BY <1>3, <2>3 DEF Inv, NumbersInv
  <2>8. \A t \in Session : at'[t] = "remember" =>
          /\ created[t] \in DOMAIN sent
          /\ sent[created[t]].number = transaction'[t].number
    BY <1>3 DEF Inv, NumbersInv
  <2>. QED
    BY <1>2, <2>3, <2>5, <2>6, <2>7, <2>8 DEF Inv, NumbersInv
<1>6. CopiesInv'
  BY <1>2, <1>3 DEF Inv, CopiesInv, Remembered, sentVars
<1> QED
  BY <1>4, <1>5, <1>6 DEF Inv

LEMMA RcptInv == ASSUME Inv, NEW s \in Session, Rcpt(s) PROVE Inv'
<1>1. /\ transaction' = [transaction EXCEPT ![s].left = Tail(@)]
      /\ transaction[s].left # <<>>
      /\ UNCHANGED <<at, created, sent, accepted, latest, appended, submissions,
                     sentVars>>
  BY DEF Rcpt, accountVars, clientVars
<1>2. /\ transaction' \in [Session -> Transaction]
      /\ \A t \in Session : /\ transaction'[t].number = transaction[t].number
                            /\ transaction'[t].message = transaction[t].message
  <2>1. transaction \in [Session -> Transaction]
    BY DEF Inv, StateInv
  <2> DEFINE old == transaction[s]
             next == [old EXCEPT !.left = Tail(old.left)]
  <2>2. old \in Transaction /\ old.left \in Seq(Address) /\ old.left # <<>>
    BY <1>1, <2>1 DEF Transaction
  <2>3. Tail(old.left) \in Seq(Address)
    BY <2>2
  <2>4. /\ next \in Transaction
        /\ next.number = old.number /\ next.message = old.message
    BY <2>2, <2>3 DEF Transaction
  <2>5. transaction' = [transaction EXCEPT ![s] = next]
    BY <1>1
  <2> HIDE DEF old, next
  <2>6. /\ transaction'[s] = next /\ old = transaction[s]
        /\ \A t \in Session \ {s} : transaction'[t] = transaction[t]
    BY <2>1, <2>5 DEF old
  <2> QED
    BY <2>1, <2>4, <2>5, <2>6
<1> USE <1>1, <1>2 DEF Inv, sentVars
<1>3. StateInv'
  BY DEF StateInv, Copies, SentInv, SentTypeOK, SentMemoryExact, Remembered
<1>4. NumbersInv'
  BY DEF StateInv, NumbersInv, Early
<1>5. CopiesInv'
  BY DEF StateInv, CopiesInv, Early, Remembered
<1> QED
  BY <1>3, <1>4, <1>5

\* What is filed stays, and the copy comes last.
LEMMA AppendFacts ==
  ASSUME NEW S, NEW q \in Seq(S), NEW x
  PROVE  LET t == Append(q, x) IN
         /\ Len(q) \in Nat /\ DOMAIN q = 1 .. Len(q)
         /\ DOMAIN t = 1 .. Len(q) + 1
         /\ \A i \in DOMAIN q : i \in DOMAIN t /\ t[i] = q[i]
         /\ t[Len(q) + 1] = x
         /\ t \in Seq({t[i] : i \in DOMAIN t})
<1> DEFINE U == S \cup {x}
           t == Append(q, x)
<1>1. q \in Seq(U) /\ x \in U
  OBVIOUS
<1> HIDE DEF U
<1>2. /\ t \in Seq(U) /\ Len(t) = Len(q) + 1 /\ Len(q) \in Nat
      /\ DOMAIN q = 1 .. Len(q) /\ DOMAIN t = 1 .. Len(q) + 1
      /\ \A i \in 1 .. Len(q) : t[i] = q[i]
      /\ t[Len(q) + 1] = x
  BY <1>1
<1> HIDE DEF t
<1>3. t \in Seq({t[i] : i \in DOMAIN t})
  BY <1>2
<1> QED
  BY <1>2, <1>3 DEF t

LEMMA SubmitInv == ASSUME Inv, NEW s \in Session, Submit(s) PROVE Inv'
<1>0. at[s] = "submit"
  BY DEF Submit
<1>1. CASE NotTaken(s) /\ UNCHANGED accountVars
  BY <1>1, EndsInv DEF NotTaken, Fails, accountVars, clientVars, Still
<1>2. ASSUME sent' = Append(sent, FiledCopy(s)), NoAnswer(s) \/
             /\ created' = [created EXCEPT ![s] = Len(sent) + 1]
             /\ Goes(s, "remember")
             /\ UNCHANGED <<transaction, from, to, refs, clientVars, sentVars>>
      PROVE  Inv'
  <2> DEFINE copy == FiledCopy(s)
  <2>1. /\ copy.number = transaction[s].number
        /\ copy.message = transaction[s].message
    BY DEF FiledCopy
  <2> HIDE DEF copy
  <2>2. /\ Len(sent) \in Nat /\ DOMAIN sent = 1 .. Len(sent)
        /\ DOMAIN sent' = 1 .. Len(sent) + 1
        /\ \A i \in DOMAIN sent : i \in DOMAIN sent' /\ sent'[i] = sent[i]
        /\ sent'[Len(sent) + 1] = copy
        /\ sent' \in Seq(Copies')
    <3> DEFINE C == Copies
    <3>1. sent \in Seq(C)
      BY DEF Inv, StateInv
    <3> HIDE DEF C
    <3>2. /\ Len(sent) \in Nat /\ DOMAIN sent = 1 .. Len(sent)
          /\ DOMAIN Append(sent, copy) = 1 .. Len(sent) + 1
          /\ \A i \in DOMAIN sent : /\ i \in DOMAIN Append(sent, copy)
                                   /\ Append(sent, copy)[i] = sent[i]
          /\ Append(sent, copy)[Len(sent) + 1] = copy
          /\ Append(sent, copy) \in
               Seq({Append(sent, copy)[i] : i \in DOMAIN Append(sent, copy)})
      BY <3>1, AppendFacts
    <3>3. sent' = Append(sent, copy)
      BY <1>2 DEF copy
    <3> QED
      BY <3>2, <3>3 DEF Copies
  <2>3. /\ at' \in [Session -> Early \cup {"idle", "remember"}]
        /\ transaction' \in [Session -> Transaction]
        /\ created' \in [Session -> Nat]
        /\ UNCHANGED <<accepted, latest, appended, submissions, sentVars>>
        /\ \A t \in Session \ {s} : /\ at'[t] = at[t]
                                    /\ transaction'[t] = transaction[t]
                                    /\ created'[t] = created[t]
        /\ \/ at'[s] = "idle" /\ transaction'[s].number = 0
           \/ /\ at'[s] = "remember" /\ transaction'[s] = transaction[s]
              /\ created'[s] = Len(sent) + 1
    <3> USE DEF Inv, StateInv, Goes, clientVars, sentVars
    <3>1. CASE NoAnswer(s)
      <4>1. /\ at' = [at EXCEPT ![s] = "idle"]
            /\ transaction' = [transaction EXCEPT ![s] = NoTransaction]
            /\ created' = [created EXCEPT ![s] = 0]
            /\ UNCHANGED <<accepted, latest, appended, submissions, sentVars>>
        BY <3>1 DEF NoAnswer, Fails, Ends, NoID
      <4>2. NoTransaction \in Transaction /\ NoTransaction.number = 0
        BY DEF NoTransaction, Transaction
      <4> QED
        BY <4>1, <4>2
    <3>2. CASE /\ created' = [created EXCEPT ![s] = Len(sent) + 1]
               /\ Goes(s, "remember")
               /\ UNCHANGED <<transaction, from, to, refs, clientVars, sentVars>>
      <4>1. /\ at' = [at EXCEPT ![s] = "remember"]
            /\ created' = [created EXCEPT ![s] = Len(sent) + 1]
            /\ UNCHANGED <<transaction, accepted, latest, appended, submissions,
                           sentVars>>
        BY <3>2
      <4> QED
        BY <4>1, <2>2
    <3> QED
      BY <1>2, <3>1, <3>2
  <2>4. /\ submissions \in Nat
        /\ \A t \in Session : transaction[t].number \in Nat
    BY DEF Inv, StateInv, Transaction
  <2>5. StateInv'
    BY <2>2, <2>3 DEF Inv, StateInv, SentInv, SentTypeOK, SentMemoryExact,
                      Remembered, sentVars
  <2>6. NumbersInv'
    <3> USE <1>0, <2>1, <2>2, <2>3, <2>4 DEF Inv, NumbersInv, Early
    <3>1. \A i, j \in DOMAIN sent' : sent'[i].number = sent'[j].number => i = j
      OBVIOUS
    <3>2. \A t \in Session : at'[t] \in Early =>
            \A i \in DOMAIN sent' : sent'[i].number # transaction'[t].number
      OBVIOUS
    <3>3. ASSUME NEW t \in Session, at'[t] = "remember"
          PROVE  /\ created'[t] \in DOMAIN sent'
                 /\ sent'[created'[t]].number = transaction'[t].number
      <4>1. CASE t = s
        <5>1. created'[t] = Len(sent) + 1 /\ transaction'[t] = transaction[t]
          BY <3>3, <4>1
        <5> QED
          BY <4>1, <5>1
      <4>2. CASE t # s
        <5>1. /\ at[t] = "remember" /\ created'[t] = created[t]
              /\ transaction'[t] = transaction[t]
          BY <3>3, <4>2
        <5>2. /\ created[t] \in DOMAIN sent
              /\ sent[created[t]].number = transaction[t].number
          BY <5>1
        <5> QED
          BY <5>1, <5>2
      <4> QED
        BY <4>1, <4>2
    <3>4. \A i \in DOMAIN sent' : sent'[i].number \in 0 .. submissions'
      OBVIOUS
    <3>5. \A n \in accepted' : \E i \in DOMAIN sent' : sent'[i].number = n
      OBVIOUS
    <3>6. \A t \in Session : transaction'[t].number <= submissions'
      OBVIOUS
    <3>7. \A t, u \in Session :
            at'[t] # "idle" /\ at'[u] # "idle"
              /\ transaction'[t].number = transaction'[u].number => t = u
      OBVIOUS
    <3> QED
      BY <3>1, <3>2, <3>3, <3>4, <3>5, <3>6, <3>7
  <2>7. CopiesInv'
    <3> USE <1>0, <2>1, <2>2, <2>3 DEF Inv, CopiesInv, Early, sentVars
    <3>1. Remembered' = Remembered
      BY DEF Remembered
    <3>2. \A t \in Session : at'[t] # "idle" => transaction'[t].message \in Message
      OBVIOUS
    <3>3. \A i \in DOMAIN sent' : sent'[i].message \in Message
      OBVIOUS
    <3>4. \A t \in Session : at'[t] = "remember" =>
            /\ created'[t] \in DOMAIN sent'
            /\ sent'[created'[t]].message = transaction'[t].message
      OBVIOUS
    <3>5. \A id \in Remembered' :
            /\ sentCopies'[id] \in DOMAIN sent'
            /\ IDOf(sent'[sentCopies'[id]].message) = id
      BY <3>1
    <3>6. \A c \in appended' :
            c.id \in DOMAIN sent' /\ c.message \in Message
              /\ IDOf(sent'[c.id].message) = IDOf(c.message)
              /\ IDOf(c.message) # NoMessageID
      OBVIOUS
    <3> QED
      BY <3>1, <3>2, <3>3, <3>4, <3>5, <3>6 DEF IDOf
  <2> QED
    BY <2>5, <2>6, <2>7 DEF Inv
<1> QED
  BY <1>1, <1>2 DEF Submit

\* What is remembered of a send is there after it, and nothing else is new.
LEMMA RememberedNow ==
  ASSUME SentInv, NEW x \in MessageID, NEW copy \in Nat \ {NoID},
         RememberSentCopy(x, copy)
  PROVE  /\ x \in Remembered'
         /\ sentCopies'[x] = copy
         /\ Remembered' \subseteq Remembered \cup {x}
         /\ \A y \in Remembered' : y # x => sentCopies'[y] = sentCopies[y]
<1> DEFINE order == OrderWith(x)
           gone  == {order[i] : i \in 1 .. Dropped(order)}
<1>1. sentCopies' = [y \in (Remembered \cup {x}) \ gone |->
                       IF y = x THEN copy ELSE sentCopies[y]]
  BY DEF RememberSentCopy
<1>2. x \notin gone
  <2>1. CASE x \in Remembered
    <3>1. Len(order) \in Nat /\ Len(order) <= Kept
      BY <2>1 DEF OrderWith, SentInv, SentTypeOK, SentMemoryExact
    <3>2. Dropped(order) = 0
      BY <3>1 DEF Dropped
    <3> QED
      BY <3>2
  <2>2. CASE x \notin Remembered
    <3>1. /\ order \in Seq(MessageID)
          /\ Len(order) = Len(sentOrder) + 1
          /\ order[Len(sentOrder) + 1] = x
          /\ Len(sentOrder) \in Nat /\ Len(sentOrder) <= Kept
      BY <2>2 DEF OrderWith, SentInv, SentTypeOK, SentMemoryExact
    <3>2. \A i, j \in DOMAIN order : order[i] = order[j] => i = j
      BY OrderWithExact
    <3> HIDE DEF order
    <3>3. /\ Dropped(order) \in Nat
          /\ Dropped(order) < Len(order)
      BY <3>1 DEF Dropped
    <3>4. DOMAIN order = 1 .. Len(sentOrder) + 1
      BY <3>1
    <3>5. \A i \in 1 .. Dropped(order) : order[i] # x
      BY <3>1, <3>2, <3>3, <3>4
    <3> QED
      BY <3>5
  <2> QED
    BY <2>1, <2>2
<1>3. Remembered' = (Remembered \cup {x}) \ gone
  BY <1>1 DEF Remembered
<1> HIDE DEF gone
<1> QED
  BY <1>1, <1>2, <1>3

\* The copy is remembered, and the message answered with 250.
LEMMA RememberInv == ASSUME Inv, NEW s \in Session, Remember(s) PROVE Inv'
<1> DEFINE m == transaction[s].message
           id == IDOf(m)
<1>1. /\ at[s] = "remember" /\ m \in Message
      /\ created[s] \in DOMAIN sent /\ created[s] \in Nat \ {NoID}
      /\ sent[created[s]].number = transaction[s].number
      /\ sent[created[s]].message = m
      /\ id \in MessageID \cup {NoMessageID}
  BY DEF Remember, Inv, StateInv, NumbersInv, CopiesInv, NoID, IDOf
<1>2. /\ RememberSentCopy(id, created[s])
      /\ accepted' = accepted \cup {transaction[s].number}
      /\ latest' = m
      /\ Ends(s)
      /\ UNCHANGED <<sent, appended, submissions>>
  BY DEF Remember, MessageOf, CreatedID, IDOf, accountVars
<1>3. SentInv'
  BY <1>1, <1>2, RememberKeepsInv DEF Inv, StateInv
<1>4. /\ \A x \in Remembered' :
           \/ x = id /\ sentCopies'[x] = created[s]
           \/ x \in Remembered /\ sentCopies'[x] = sentCopies[x]
      /\ id # NoMessageID => id \in Remembered' /\ sentCopies'[id] = created[s]
  <2>1. CASE id = NoMessageID
    BY <1>2, <2>1 DEF RememberSentCopy, sentVars, Remembered
  <2>2. CASE id # NoMessageID
    <3>1. id \in MessageID
      BY <1>1, <2>2
    <3> HIDE DEF id
    <3> QED
      BY <1>1, <1>2, <3>1, RememberedNow DEF Inv, StateInv
  <2> QED
    BY <2>1, <2>2
<1>5. /\ at' = [at EXCEPT ![s] = "idle"]
      /\ transaction' = [transaction EXCEPT ![s] = NoTransaction]
      /\ created' = [created EXCEPT ![s] = NoID]
  BY <1>2 DEF Ends, Goes
<1>6. StateInv'
  BY <1>2, <1>3, <1>5
  DEF Inv, StateInv, Copies, Transaction, NoTransaction, NoID
<1>7. NumbersInv'
  BY <1>1, <1>2, <1>5
  DEF Inv, StateInv, NumbersInv, Transaction, NoTransaction, Early
<1>8. CopiesInv'
  <2>1. /\ at'[s] = "idle"
        /\ \A t \in Session \ {s} :
             /\ at'[t] = at[t] /\ transaction'[t] = transaction[t]
             /\ created'[t] = created[t]
    BY <1>5 DEF Inv, StateInv
  <2>2. sent' = sent /\ appended' = appended
    BY <1>2
  <2>3. \A x \in Remembered' :
          /\ sentCopies'[x] \in DOMAIN sent'
          /\ IDOf(sent'[sentCopies'[x]].message) = x
    BY <1>1, <1>4, <2>2 DEF Inv, CopiesInv
  <2>4. /\ latest' \in Message
        /\ IDOf(latest') # NoMessageID =>
             /\ IDOf(latest') \in Remembered'
             /\ sent'[sentCopies'[IDOf(latest')]].message = latest'
    BY <1>1, <1>2, <1>4, <2>2
  <2>. HIDE DEF m, id
  <2>5. \A t \in Session : at'[t] # "idle" => transaction'[t].message \in Message
    BY <2>1 DEF Inv, CopiesInv
  <2>6. \A t \in Session : at'[t] = "remember" =>
          /\ created'[t] \in DOMAIN sent'
          /\ sent'[created'[t]].message = transaction'[t].message
    BY <2>1, <2>2 DEF Inv, CopiesInv
  <2>7. /\ \A i \in DOMAIN sent' : sent'[i].message \in Message
        /\ \A copy \in appended' :
             copy.id \in DOMAIN sent' /\ copy.message \in Message
               /\ IDOf(sent'[copy.id].message) = IDOf(copy.message)
               /\ IDOf(copy.message) # NoMessageID
    BY <2>2 DEF Inv, CopiesInv
  <2>. QED
    BY <2>3, <2>4, <2>5, <2>6, <2>7 DEF CopiesInv, IDOf
<1> QED
  BY <1>6, <1>7, <1>8 DEF Inv

\* What is appended names a copy that bears its Message-ID.
LEMMA AppendSentInv == ASSUME Inv, NEW m \in Message, AppendSent(m) PROVE Inv'
<1>1. /\ SentCopyID(IDOf(m)) # NoID
      /\ appended' = appended \cup {[message |-> m, id |-> SentCopyID(IDOf(m))]}
      /\ UNCHANGED <<at, transaction, created, sent, accepted, latest,
                     submissions, sentVars>>
  BY DEF AppendSent, IDOf, sessionVars, accountVars
<1>2. /\ IDOf(m) \in Remembered /\ IDOf(m) # NoMessageID
      /\ SentCopyID(IDOf(m)) = sentCopies[IDOf(m)]
  BY <1>1 DEF SentCopyID
<1> USE <1>1, <1>2 DEF Inv, sentVars
<1>3. StateInv'
  BY DEF StateInv, Copies, SentInv, SentTypeOK, SentMemoryExact, Remembered
<1>4. NumbersInv'
  BY DEF NumbersInv, Early
<1>5. CopiesInv'
  BY DEF CopiesInv, Remembered
<1> QED
  BY <1>3, <1>4, <1>5

LEMMA RestartInv == ASSUME Inv, Restart PROVE Inv'
<1>1. /\ at' = [s \in Session |-> "idle"]
      /\ transaction' = [s \in Session |-> NoTransaction]
      /\ created' = [s \in Session |-> NoID]
      /\ latest' = "none"
      /\ ForgetSentCopies
      /\ UNCHANGED <<sent, accepted, appended, submissions>>
  BY DEF Restart, accountVars
<1>2. SentInv' /\ Remembered' = {}
  BY <1>1, ForgetKeepsInv DEF ForgetSentCopies, Remembered
<1> USE <1>1, <1>2 DEF Inv
<1>3. StateInv'
  BY DEF StateInv, Copies, Transaction, NoTransaction, NoID
<1>4. NumbersInv'
  BY DEF StateInv, NumbersInv, NoTransaction, Early
<1>5. CopiesInv'
  BY DEF CopiesInv, Early
<1> QED
  BY <1>3, <1>4, <1>5

LEMMA SessionInv ==
  ASSUME Inv, NEW s \in Session,
         Mail(s) \/ Rcpt(s) \/ Abandon(s) \/ Data(s) \/ Step(s)
  PROVE  Inv'
<1> USE DEF accountVars, clientVars, Still, Early, Fails
<1>1. CASE Mail(s)
  BY <1>1, MailInv
<1>2. CASE Rcpt(s)
  BY <1>2, RcptInv
<1>3. CASE Abandon(s)
  BY <1>3, EndsInv DEF Abandon
<1>4. CASE Data(s)
  <2>1. CASE Fails(s) /\ UNCHANGED accountVars
    BY <2>1, EndsInv
  <2>2. CASE /\ at[s] = "envelope" /\ Goes(s, "lookup")
             /\ UNCHANGED <<transaction, created, accountVars, clientVars, sentVars>>
    BY <2>2, GoesOnInv
  <2> QED
    BY <1>4, <2>1, <2>2 DEF Data
<1>5. CASE LookupKeys(s)
  <2>1. CASE Fails(s) /\ UNCHANGED accountVars
    BY <2>1, EndsInv
  <2>2. CASE /\ at[s] = "lookup"
             /\ Goes(s, IF FilesOf(s) = <<>> THEN "submit" ELSE "upload")
             /\ UNCHANGED <<transaction, created, accountVars, clientVars, sentVars>>
    BY <2>2, GoesOnInv
  <2> QED
    BY <1>5, <2>1, <2>2 DEF LookupKeys
<1>6. CASE UploadAttachment(s)
  <2>1. CASE Fails(s) /\ UNCHANGED sent
    BY <2>1, EndsInv
  <2>2. ASSUME NEW p \in {"upload", "submit"}, at[s] = "upload", Goes(s, p),
               UNCHANGED <<transaction, created, sent, clientVars, sentVars>>
        PROVE  Inv'
    BY <2>2, GoesOnInv
  <2>3. /\ at[s] = "upload"
        /\ \/ Fails(s) /\ UNCHANGED sent
           \/ /\ Goes(s, IF Len(refs[s]) + 1 < Len(FilesOf(s)) THEN "upload"
                         ELSE "submit")
              /\ UNCHANGED <<transaction, created, sent, clientVars, sentVars>>
    BY <1>6 DEF UploadAttachment
  <2> QED
    BY <2>1, <2>2, <2>3
<1>7. CASE Submit(s)
  BY <1>7, SubmitInv
<1>8. CASE Remember(s)
  BY <1>8, RememberInv
<1> QED
  BY <1>1, <1>2, <1>3, <1>4, <1>5, <1>6, <1>7, <1>8 DEF Step

LEMMA NextKeeps == Inv /\ [Next]_vars => Inv'
<1> SUFFICES ASSUME Inv, [Next]_vars PROVE Inv'
  OBVIOUS
<1>1. ASSUME NEW s \in Session,
             Mail(s) \/ Rcpt(s) \/ Abandon(s) \/ Data(s) \/ Step(s)
      PROVE  Inv'
  BY <1>1, SessionInv
<1>2. ASSUME NEW m \in Message, AppendSent(m) PROVE Inv'
  BY <1>2, AppendSentInv
<1>3. CASE Restart
  BY <1>3, RestartInv
<1>4. ASSUME UNCHANGED <<at, transaction, created, sent, accepted, latest,
                         appended, submissions, sentVars>>
      PROVE  Inv'
  <2> USE <1>4 DEF Inv, sentVars
  <2>1. StateInv'
    BY DEF StateInv, Copies, SentInv, SentTypeOK, SentMemoryExact, Remembered
  <2>2. NumbersInv'
    BY DEF NumbersInv, Early
  <2>3. CopiesInv'
    BY DEF CopiesInv, Remembered, IDOf
  <2> QED
    BY <2>1, <2>2, <2>3
<1>5. ASSUME NEW m \in Message, AppendDraft(m) PROVE Inv'
  BY <1>4, <1>5 DEF AppendDraft, sessionVars
<1>6. CASE UNCHANGED vars
  BY <1>4, <1>6 DEF vars, sessionVars, accountVars, clientVars
<1> QED
  BY <1>1, <1>2, <1>3, <1>5, <1>6 DEF Next

\* Whatever is refused, lost, abandoned or cut short by a restart, and whichever
\* sessions send at once, a submission files its message once at most, and one
\* answered with 250 has filed it (sendemail.go:43-107).
THEOREM AcceptedOnce == Spec => []AcceptedIsFiledOnce
<1>1. Inv => AcceptedIsFiledOnce
  BY DEF Inv, NumbersInv, AcceptedIsFiledOnce
<1> QED
  BY InitKeeps, NextKeeps, <1>1, PTL DEF Spec

\* The sessions, the appends and the restarts use the memory of sent copies as its
\* own specification has it: each of their steps is a send remembered under the
\* mutex, the loss of it all, or nothing (mail.go:240-278).
THEOREM SessionsShareOneMemory == Spec => SentSpec
<1>1. Init => SentInit
  BY DEF Init
<1>2. Inv /\ [Next]_vars => [SentNext]_sentVars
  <2> SUFFICES ASSUME Inv, [Next]_vars PROVE [SentNext]_sentVars
    OBVIOUS
  <2>1. ASSUME NEW s \in Session,
               Mail(s) \/ Rcpt(s) \/ Abandon(s) \/ Data(s) \/ LookupKeys(s)
                 \/ UploadAttachment(s) \/ Submit(s)
        PROVE  UNCHANGED sentVars
    BY <2>1
    DEF Mail, Rcpt, Abandon, Data, LookupKeys, UploadAttachment, Submit, Fails,
        NotTaken, NoAnswer
  <2>2. ASSUME NEW s \in Session, Remember(s) PROVE SentNext
    <3>1. /\ transaction[s].message \in Message /\ created[s] \in Nat
          /\ IDOf(transaction[s].message) \in MessageID \cup {NoMessageID}
      BY <2>2 DEF Remember, Inv, StateInv, NumbersInv, CopiesInv, IDOf
    <3>2. RememberSentCopy(IDOf(transaction[s].message), created[s])
      BY <2>2 DEF Remember, MessageOf, CreatedID, IDOf
    <3> QED
      BY <3>1, <3>2 DEF SentNext
  <2>3. ASSUME NEW m \in Message, AppendSent(m) \/ AppendDraft(m)
        PROVE  UNCHANGED sentVars
    BY <2>3 DEF AppendSent, AppendDraft
  <2>4. Restart => SentNext
    BY DEF Restart, SentNext
  <2>5. UNCHANGED vars => UNCHANGED sentVars
    BY DEF vars
  <2> QED
    BY <2>1, <2>2, <2>3, <2>4, <2>5 DEF Next, Step
<1> QED
  BY InitKeeps, NextKeeps, <1>1, <1>2, PTL DEF Spec, SentSpec

\* So that memory stays exact under all of it (mail.go:257-278).
THEOREM MemoryStaysExact == Spec => []SentMemoryExact
BY SessionsShareOneMemory, SentMemoryIsExact

\* Where no two messages bear one Message-ID, a copy appended to Sent is filed
\* under a copy of that message (mutations.go:141-150).
THEOREM AppendsNameTheirs ==
  ASSUME \A m, n \in Message : IDOf(m) = IDOf(n) /\ IDOf(m) # NoMessageID => m = n
  PROVE  Spec => []AppendNamesItsMessage
<1>1. Inv => AppendNamesItsMessage
  BY DEF Inv, CopiesInv, AppendNamesItsMessage
<1> QED
  BY InitKeeps, NextKeeps, <1>1, PTL DEF Spec

\* And the last message answered with 250 can be appended, however many were sent
\* before it (mail.go:47-49, 257-278).
THEOREM LastIsRemembered == Spec => []LastSendRemembered
<1>1. Inv => LastSendRemembered
  BY DEF Inv, CopiesInv, LastSendRemembered, SentCopyID, IDOf
<1> QED
  BY InitKeeps, NextKeeps, <1>1, PTL DEF Spec

-----------------------------------------------------------------------------
(* What the sessions hold, and who is addressed.                           *)

Parsed(m, list) == ParseOutgoingMessage(Composed[m], list)
Sealed(m, list, under) ==
  SealFor(AddressesOf(Only(Parsed(m, list))), under.keys, under.serverKey)

Addressing == {"lookup", "upload", "submit"}
Uploading == {"upload", "submit"}

\* A session that rests holds nothing; one that works has a number.
HeldInv ==
  /\ setting \in Settings
  /\ from \in [Session -> BOOLEAN] /\ to \in [Session -> Seq(Address)]
  /\ DOMAIN refs = Session
  /\ \A s \in Session : at[s] = "idle" =>
       /\ transaction[s] = NoTransaction /\ created[s] = NoID
       /\ ~from[s] /\ to[s] = <<>> /\ refs[s] = <<>>
  /\ \A s \in Session : at[s] # "idle" => transaction[s].number # 0

\* What a session has recorded and what its client has still to say is what the
\* client set out to say; a message under way was read, and then sealed.
GivenInv ==
  /\ \A s \in Session : at[s] = "envelope" =>
       to[s] \o transaction[s].left = transaction[s].recipients
  /\ \A s \in Session : at[s] \in Addressing =>
       /\ to[s] = transaction[s].recipients
       /\ Parsed(transaction[s].message, to[s]) # {}
  /\ \A s \in Session : at[s] \in Uploading =>
       Sealed(transaction[s].message, to[s], setting) # {}

LEMMA InitHeld == Init => HeldInv /\ GivenInv /\ EveryoneAddressed
<1> SUFFICES ASSUME Init PROVE HeldInv /\ GivenInv /\ EveryoneAddressed
  OBVIOUS
<1>1. HeldInv
  BY DEF Init, HeldInv
<1>2. GivenInv
  BY DEF Init, GivenInv, Addressing, Uploading
<1>3. EveryoneAddressed
  BY DEF Init, EveryoneAddressed
<1> QED
  BY <1>1, <1>2, <1>3

\* The sessions but one stay as they are.
Others(s) ==
  \A t \in Session \ {s} :
    /\ at'[t] = at[t] /\ transaction'[t] = transaction[t] /\ created'[t] = created[t]
    /\ from'[t] = from[t] /\ to'[t] = to[t] /\ refs'[t] = refs[t]

LEMMA EndsHeld ==
  ASSUME Inv, HeldInv, GivenInv, NEW s \in Session, Ends(s), setting' = setting
  PROVE  HeldInv' /\ GivenInv'
<1>1. /\ at' = [at EXCEPT ![s] = "idle"]
      /\ transaction' = [transaction EXCEPT ![s] = NoTransaction]
      /\ created' = [created EXCEPT ![s] = NoID]
      /\ from' = [from EXCEPT ![s] = FALSE] /\ to' = [to EXCEPT ![s] = <<>>]
      /\ refs' = [refs EXCEPT ![s] = <<>>]
  BY DEF Ends, Goes, Reset
<1>2. /\ at'[s] = "idle" /\ transaction'[s] = NoTransaction /\ created'[s] = NoID
      /\ ~from'[s] /\ to'[s] = <<>> /\ refs'[s] = <<>>
  BY <1>1 DEF Inv, StateInv, HeldInv
<1>3. Others(s)
  BY <1>1 DEF Others, Inv, StateInv, HeldInv
<1>4. /\ from' \in [Session -> BOOLEAN] /\ to' \in [Session -> Seq(Address)]
      /\ DOMAIN refs' = Session
  BY <1>1 DEF HeldInv
<1>5. HeldInv'
  BY <1>2, <1>3, <1>4 DEF HeldInv, Others
<1>6. GivenInv'
  BY <1>2, <1>3 DEF GivenInv, Others, Addressing, Uploading
<1> QED
  BY <1>5, <1>6

\* A session that goes on with the message it has.
LEMMA OnHeld ==
  ASSUME Inv, HeldInv, GivenInv, NEW s \in Session,
         NEW p \in Addressing \cup {"remember"}, at[s] # "idle", Goes(s, p),
         UNCHANGED <<setting, transaction, from, to>>,
         DOMAIN refs' = Session,
         \A t \in Session \ {s} : refs'[t] = refs[t] /\ created'[t] = created[t],
         p \in Addressing => /\ to[s] = transaction[s].recipients
                             /\ Parsed(transaction[s].message, to[s]) # {},
         p \in Uploading => Sealed(transaction[s].message, to[s], setting) # {}
  PROVE  HeldInv' /\ GivenInv'
<1>1. at' = [at EXCEPT ![s] = p] /\ at'[s] = p
  BY DEF Goes, Inv, StateInv
<1>2. Others(s)
  BY <1>1 DEF Others, Inv, StateInv
<1>3. p # "idle" /\ p # "envelope"
  BY DEF Addressing
<1>4. HeldInv'
  BY <1>1, <1>2, <1>3 DEF HeldInv, Others
<1>5. GivenInv'
  <2>1. \A t \in Session : at'[t] = "envelope" =>
          to'[t] \o transaction'[t].left = transaction'[t].recipients
    BY <1>1, <1>2, <1>3 DEF GivenInv, Others
  <2>2. \A t \in Session : at'[t] \in Addressing =>
          /\ to'[t] = transaction'[t].recipients
          /\ Parsed(transaction'[t].message, to'[t]) # {}
    BY <1>1, <1>2, <1>3 DEF GivenInv, Others
  <2>3. \A t \in Session : at'[t] \in Uploading =>
          Sealed(transaction'[t].message, to'[t], setting') # {}
    BY <1>1, <1>2, <1>3 DEF GivenInv, Others
  <2> QED
    BY <2>1, <2>2, <2>3 DEF GivenInv
<1> QED
  BY <1>4, <1>5

LEMMA MailHeld ==
  ASSUME Inv, HeldInv, GivenInv, NEW s \in Session, Mail(s)
  PROVE  HeldInv' /\ GivenInv'
<1>1. PICK m \in Message, r \in RecipientLists :
        transaction' = [transaction EXCEPT ![s] =
          [message |-> m, left |-> r, recipients |-> r, number |-> submissions + 1]]
  BY DEF Mail
<1>2. /\ at[s] = "idle" /\ at' = [at EXCEPT ![s] = "envelope"]
      /\ from' = [from EXCEPT ![s] = TRUE]
      /\ UNCHANGED <<setting, to, refs, created>>
  BY DEF Mail, Goes
<1>. DEFINE new == [message |-> m, left |-> r, recipients |-> r,
                    number |-> submissions + 1]
<1>3. /\ new.number = submissions + 1 /\ new.left = r /\ new.recipients = r
      /\ transaction' = [transaction EXCEPT ![s] = new] /\ r \in Seq(Address)
  BY <1>1, Constants
<1>. HIDE DEF new
<1>4. at'[s] = "envelope" /\ transaction'[s] = new /\ to'[s] = <<>>
  BY <1>2, <1>3 DEF Inv, StateInv, HeldInv
<1>5. new.number # 0 /\ <<>> \o r = r
  BY <1>3 DEF Inv, StateInv
<1>6. Others(s)
  BY <1>2, <1>3 DEF Others, Inv, StateInv, HeldInv
<1>7. from' \in [Session -> BOOLEAN]
  BY <1>2 DEF HeldInv
<1>8. HeldInv'
  <2>1. \A t \in Session : at'[t] = "idle" =>
          /\ transaction'[t] = NoTransaction /\ created'[t] = NoID
          /\ ~from'[t] /\ to'[t] = <<>> /\ refs'[t] = <<>>
    BY <1>4, <1>6 DEF HeldInv, Others
  <2>2. \A t \in Session : at'[t] # "idle" => transaction'[t].number # 0
    BY <1>4, <1>5, <1>6 DEF HeldInv, Others
  <2> QED
    BY <1>2, <1>7, <2>1, <2>2 DEF HeldInv
<1>9. GivenInv'
  <2>1. \A t \in Session : at'[t] = "envelope" =>
          to'[t] \o transaction'[t].left = transaction'[t].recipients
    BY <1>3, <1>4, <1>5, <1>6 DEF GivenInv, Others
  <2>2. \A t \in Session : at'[t] \in Addressing =>
          /\ to'[t] = transaction'[t].recipients
          /\ Parsed(transaction'[t].message, to'[t]) # {}
    BY <1>4, <1>6 DEF GivenInv, Others, Addressing
  <2>3. \A t \in Session : at'[t] \in Uploading =>
          Sealed(transaction'[t].message, to'[t], setting') # {}
    BY <1>2, <1>4, <1>6 DEF GivenInv, Others, Uploading
  <2> QED
    BY <2>1, <2>2, <2>3 DEF GivenInv
<1> QED
  BY <1>8, <1>9

LEMMA FirstMoves ==
  ASSUME NEW S, NEW p \in Seq(S), NEW q \in Seq(S), q # <<>>
  PROVE  /\ Append(p, Head(q)) \in Seq(S) /\ Tail(q) \in Seq(S)
         /\ Append(p, Head(q)) \o Tail(q) = p \o q
<1>1. Head(q) \in S /\ Tail(q) \in Seq(S) /\ Len(q) \in Nat \ {0}
  OBVIOUS
<1>2. Append(p, Head(q)) \in Seq(S)
  BY <1>1
<1> DEFINE l == Append(p, Head(q)) \o Tail(q)
           r == p \o q
<1>3. l \in Seq(S) /\ r \in Seq(S) /\ Len(l) = Len(p) + Len(q) /\ Len(r) = Len(p) + Len(q)
  BY <1>1, <1>2
<1>4. ASSUME NEW i \in 1 .. Len(p) + Len(q) PROVE l[i] = r[i]
  BY <1>1, <1>2
<1>5. l = r
  <2> HIDE DEF l, r
  <2>1. Len(p) \in Nat /\ Len(q) \in Nat
    OBVIOUS
  <2> QED
    BY <1>3, <1>4, <2>1
<1> QED
  BY <1>1, <1>2, <1>5

LEMMA RcptHeld ==
  ASSUME Inv, HeldInv, GivenInv, NEW s \in Session, Rcpt(s)
  PROVE  HeldInv' /\ GivenInv'
<1>1. /\ at[s] = "envelope" /\ transaction[s].left # <<>>
      /\ to' = [to EXCEPT ![s] = Append(@, Head(transaction[s].left))]
      /\ transaction' = [transaction EXCEPT ![s].left = Tail(@)]
      /\ UNCHANGED <<setting, at, from, refs, created>>
  BY DEF Rcpt
<1>2. transaction[s] \in Transaction /\ to[s] \in Seq(Address)
  BY DEF Inv, StateInv, HeldInv
<1>3. /\ transaction[s].left \in Seq(Address)
      /\ to'[s] = Append(to[s], Head(transaction[s].left))
      /\ transaction'[s].left = Tail(transaction[s].left)
      /\ transaction'[s].recipients = transaction[s].recipients
      /\ transaction'[s].number = transaction[s].number
  BY <1>1, <1>2 DEF Inv, StateInv, HeldInv, Transaction
<1>4. Others(s)
  BY <1>1 DEF Others, Inv, StateInv, HeldInv
<1>5. to'[s] \in Seq(Address) /\ to'[s] \o transaction'[s].left
                                    = to[s] \o transaction[s].left
  <2> DEFINE q == transaction[s].left
             p == to[s]
  <2>1. p \in Seq(Address) /\ q \in Seq(Address) /\ q # <<>>
    BY <1>1, <1>2, <1>3
  <2>2. to'[s] = Append(p, Head(q)) /\ transaction'[s].left = Tail(q)
    BY <1>3
  <2> HIDE DEF p, q
  <2>3. /\ Append(p, Head(q)) \in Seq(Address)
        /\ Append(p, Head(q)) \o Tail(q) = p \o q
    BY <2>1, FirstMoves
  <2>4. to'[s] \in Seq(Address) /\ to'[s] \o transaction'[s].left = p \o q
    BY <2>2, <2>3
  <2> QED
    BY <2>4 DEF p, q
<1>6. to' \in [Session -> Seq(Address)]
  BY <1>1, <1>5 DEF HeldInv
<1>7. HeldInv'
  BY <1>1, <1>3, <1>4, <1>6 DEF HeldInv, Others
<1>8. GivenInv'
  <2>1. \A t \in Session : at'[t] = "envelope" =>
          to'[t] \o transaction'[t].left = transaction'[t].recipients
    BY <1>1, <1>3, <1>4, <1>5 DEF GivenInv, Others
  <2>2. \A t \in Session : at'[t] \in Addressing =>
          /\ to'[t] = transaction'[t].recipients
          /\ Parsed(transaction'[t].message, to'[t]) # {}
    BY <1>1, <1>4 DEF GivenInv, Others, Addressing
  <2>3. \A t \in Session : at'[t] \in Uploading =>
          Sealed(transaction'[t].message, to'[t], setting') # {}
    BY <1>1, <1>4 DEF GivenInv, Others, Uploading
  <2> QED
    BY <2>1, <2>2, <2>3 DEF GivenInv
<1> QED
  BY <1>7, <1>8

LEMMA DataHeld ==
  ASSUME Inv, HeldInv, GivenInv, NEW s \in Session, Data(s)
  PROVE  HeldInv' /\ GivenInv'
<1>1. /\ at[s] = "envelope" /\ transaction[s].left = <<>> /\ setting' = setting
      /\ transaction[s] \in Transaction /\ to[s] \in Seq(Address)
  BY DEF Data, Inv, StateInv, HeldInv
<1>2. to[s] = transaction[s].recipients
  <2>1. to[s] \o <<>> = to[s]
    BY <1>1
  <2> QED
    BY <1>1, <2>1 DEF GivenInv
<1>3. CASE Ends(s)
  BY <1>1, <1>3, EndsHeld
<1>4. CASE /\ Parsed(transaction[s].message, to[s]) # {}
           /\ Goes(s, "lookup") /\ UNCHANGED <<transaction, from, to, refs, created>>
  <2>1. DOMAIN refs' = Session /\ "lookup" \in Addressing /\ "lookup" \notin Uploading
    BY <1>4 DEF HeldInv, Addressing, Uploading
  <2> QED
    BY <1>1, <1>2, <1>4, <2>1, OnHeld
<1> QED
  BY <1>3, <1>4 DEF Data, Fails, Parsed, MessageOf

LEMMA LookupHeld ==
  ASSUME Inv, HeldInv, GivenInv, NEW s \in Session, LookupKeys(s)
  PROVE  HeldInv' /\ GivenInv'
<1>1. at[s] = "lookup" /\ setting' = setting
  BY DEF LookupKeys
<1>2. CASE Ends(s)
  BY <1>1, <1>2, EndsHeld
<1>3. ASSUME NEW p \in Uploading,
             Sealed(transaction[s].message, to[s], setting) # {}, Goes(s, p),
             UNCHANGED <<transaction, from, to, refs, created>>
      PROVE  HeldInv' /\ GivenInv'
  <2>1. /\ to[s] = transaction[s].recipients
        /\ Parsed(transaction[s].message, to[s]) # {}
    BY <1>1 DEF GivenInv, Addressing
  <2>2. DOMAIN refs' = Session /\ p \in Addressing \cup {"remember"}
    BY <1>3 DEF HeldInv, Addressing, Uploading
  <2> QED
    BY <1>1, <1>3, <2>1, <2>2, OnHeld
<1>4. CASE /\ SealedRecipients(s) # {}
           /\ Goes(s, IF FilesOf(s) = <<>> THEN "submit" ELSE "upload")
           /\ UNCHANGED <<transaction, from, to, refs, created>>
  <2>1. Sealed(transaction[s].message, to[s], setting) # {}
    BY <1>4 DEF SealedRecipients, Sealed, Parsed, OutgoingOf, MessageOf
  <2>2. "submit" \in Uploading /\ "upload" \in Uploading
    BY DEF Uploading
  <2>3. CASE FilesOf(s) = <<>>
    BY <1>3, <1>4, <2>1, <2>2, <2>3
  <2>4. CASE FilesOf(s) # <<>>
    BY <1>3, <1>4, <2>1, <2>2, <2>4
  <2> QED
    BY <2>3, <2>4
<1> QED
  BY <1>2, <1>4 DEF LookupKeys, Fails

LEMMA UploadHeld ==
  ASSUME Inv, HeldInv, GivenInv, NEW s \in Session, UploadAttachment(s)
  PROVE  HeldInv' /\ GivenInv'
<1>1. at[s] = "upload" /\ setting' = setting
  BY DEF UploadAttachment
<1>2. CASE Ends(s)
  BY <1>1, <1>2, EndsHeld
<1>3. ASSUME NEW p \in Uploading, NEW ref, Goes(s, p),
             refs' = [refs EXCEPT ![s] = Append(@, ref)],
             UNCHANGED <<transaction, from, to, created>>
      PROVE  HeldInv' /\ GivenInv'
  <2>1. /\ to[s] = transaction[s].recipients
        /\ Parsed(transaction[s].message, to[s]) # {}
        /\ Sealed(transaction[s].message, to[s], setting) # {}
    BY <1>1 DEF GivenInv, Addressing, Uploading
  <2>2. /\ DOMAIN refs' = Session /\ p \in Addressing \cup {"remember"}
        /\ \A t \in Session \ {s} : refs'[t] = refs[t]
    BY <1>3 DEF HeldInv, Addressing, Uploading
  <2> QED
    BY <1>1, <1>3, <2>1, <2>2, OnHeld
<1>4. ASSUME NEW ref, refs' = [refs EXCEPT ![s] = Append(@, ref)],
             Goes(s, IF Len(refs[s]) + 1 < Len(FilesOf(s)) THEN "upload"
                     ELSE "submit"),
             UNCHANGED <<transaction, from, to, created>>
      PROVE  HeldInv' /\ GivenInv'
  <2>1. "submit" \in Uploading /\ "upload" \in Uploading
    BY DEF Uploading
  <2> DEFINE p == IF Len(refs[s]) + 1 < Len(FilesOf(s)) THEN "upload" ELSE "submit"
  <2>2. p \in Uploading
    BY <2>1
  <2>3. Goes(s, p)
    BY <1>4
  <2> HIDE DEF p
  <2> QED
    BY <1>3, <1>4, <2>2, <2>3
<1> QED
  BY <1>2, <1>4 DEF UploadAttachment, Fails

\* What is submitted is filed once at most, and goes to everyone it is for.
LEMMA SubmitHeld ==
  ASSUME Inv, HeldInv, GivenInv, EveryoneAddressed, NEW s \in Session, Submit(s)
  PROVE  HeldInv' /\ GivenInv' /\ EveryoneAddressed'
<1>1. at[s] = "submit" /\ setting' = setting
  BY DEF Submit
<1>2. HeldInv' /\ GivenInv'
  <2>1. CASE Ends(s)
    BY <1>1, <2>1, EndsHeld
  <2>2. CASE /\ created' = [created EXCEPT ![s] = Len(sent) + 1]
             /\ Goes(s, "remember") /\ UNCHANGED <<transaction, from, to, refs>>
    <3>1. /\ DOMAIN refs' = Session /\ "remember" \notin Addressing
          /\ "remember" \notin Uploading
          /\ \A t \in Session \ {s} : created'[t] = created[t]
      BY <2>2 DEF Inv, StateInv, HeldInv, Addressing, Uploading
    <3> QED
      BY <1>1, <2>2, <3>1, OnHeld
  <2> QED
    BY <2>1, <2>2 DEF Submit, NotTaken, NoAnswer, Fails
<1>3. CASE sent' = sent
  BY <1>1, <1>2, <1>3 DEF EveryoneAddressed
<1>4. CASE EnvelopeOf(s) # {} /\ sent' = Append(sent, FiledCopy(s))
  <2>1. /\ setting \in Settings /\ to[s] \in Seq(Address)
        /\ to[s] = transaction[s].recipients
        /\ transaction[s].message \in Message
        /\ Parsed(transaction[s].message, to[s]) # {}
        /\ Sealed(transaction[s].message, to[s], setting) # {}
    BY <1>1 DEF HeldInv, GivenInv, Inv, CopiesInv, Addressing, Uploading
  <2>2. /\ ParseOutgoingMessage(MessageOf(s), to[s]) # {}
        /\ SealedRecipients(s) # {}
    BY <2>1 DEF SealedRecipients, Sealed, Parsed, OutgoingOf, MessageOf
  <2> DEFINE copy == FiledCopy(s)
  <2>3. GoesToAll(copy, setting)
    BY <1>4, <2>1, <2>2, CopyGoes
  <2>4. sent' = Append(sent, copy) /\ sent \in Seq(Copies)
    BY <1>4 DEF Inv, StateInv
  <2> HIDE DEF copy
  <2>5. \A i \in DOMAIN sent' : sent'[i] = copy \/ (i \in DOMAIN sent /\ sent'[i] = sent[i])
    BY <2>4
  <2> QED
    BY <1>1, <1>2, <2>3, <2>5 DEF EveryoneAddressed
<1> QED
  BY <1>3, <1>4 DEF Submit, CanCarryOut, accountVars

LEMMA RestartHeld ==
  ASSUME Restart, HeldInv
  PROVE  HeldInv' /\ GivenInv'
<1>1. /\ at' = [s \in Session |-> "idle"]
      /\ transaction' = [s \in Session |-> NoTransaction]
      /\ from' = [s \in Session |-> FALSE] /\ to' = [s \in Session |-> <<>>]
      /\ refs' = [s \in Session |-> <<>>] /\ created' = [s \in Session |-> NoID]
      /\ setting' = setting
  BY DEF Restart
<1>2. HeldInv'
  BY <1>1 DEF HeldInv
<1>3. GivenInv'
  BY <1>1 DEF GivenInv, Addressing, Uploading
<1> QED
  BY <1>2, <1>3

LEMMA HeldKeeps ==
  Inv /\ HeldInv /\ GivenInv /\ EveryoneAddressed /\ [Next]_vars
    => HeldInv' /\ GivenInv' /\ EveryoneAddressed'
<1> SUFFICES ASSUME Inv, HeldInv, GivenInv, EveryoneAddressed, [Next]_vars
             PROVE  HeldInv' /\ GivenInv' /\ EveryoneAddressed'
  OBVIOUS
<1>1. ASSUME UNCHANGED <<setting, sent>> PROVE EveryoneAddressed'
  BY <1>1 DEF EveryoneAddressed
<1>2. ASSUME UNCHANGED <<setting, sessionVars, sent>>
      PROVE  HeldInv' /\ GivenInv' /\ EveryoneAddressed'
  <2>1. HeldInv'
    BY <1>2 DEF HeldInv, sessionVars
  <2>2. GivenInv'
    BY <1>2 DEF GivenInv, sessionVars
  <2> QED
    BY <1>1, <1>2, <2>1, <2>2
<1>3. ASSUME NEW s \in Session,
             Mail(s) \/ Rcpt(s) \/ Abandon(s) \/ Data(s) \/ Step(s)
      PROVE  HeldInv' /\ GivenInv' /\ EveryoneAddressed'
  <2>1. CASE Mail(s)
    BY <1>1, <2>1, MailHeld DEF Mail, accountVars
  <2>2. CASE Rcpt(s)
    BY <1>1, <2>2, RcptHeld DEF Rcpt, accountVars
  <2>3. CASE Abandon(s)
    BY <1>1, <2>3, EndsHeld DEF Abandon, accountVars
  <2>4. CASE Data(s)
    BY <1>1, <2>4, DataHeld DEF Data, accountVars
  <2>5. CASE LookupKeys(s)
    BY <1>1, <2>5, LookupHeld DEF LookupKeys, accountVars
  <2>6. CASE UploadAttachment(s)
    BY <1>1, <2>6, UploadHeld DEF UploadAttachment, accountVars
  <2>7. CASE Submit(s)
    BY <2>7, SubmitHeld
  <2>8. CASE Remember(s)
    BY <1>1, <2>8, EndsHeld DEF Remember, accountVars
  <2> QED
    BY <1>3, <2>1, <2>2, <2>3, <2>4, <2>5, <2>6, <2>7, <2>8 DEF Step
<1>4. ASSUME NEW m \in Message, AppendSent(m) \/ AppendDraft(m)
      PROVE  HeldInv' /\ GivenInv' /\ EveryoneAddressed'
  BY <1>2, <1>4 DEF AppendSent, AppendDraft, accountVars
<1>5. CASE Restart
  BY <1>1, <1>5, RestartHeld DEF Restart, accountVars
<1>6. CASE UNCHANGED vars
  BY <1>2, <1>6 DEF vars, accountVars
<1> QED
  BY <1>3, <1>4, <1>5, <1>6 DEF Next

\* Whatever the sessions are at, each holds what belongs to its step and no more: at
\* rest nothing is left of a message that was answered, refused or given up, neither
\* sender nor recipients nor files (smtpserver.go:66-121).
THEOREM SessionsAreTyped == Spec => []SubmissionTypeOK
<1>1. Inv /\ HeldInv => SubmissionTypeOK
  BY DEF Inv, StateInv, HeldInv, SentInv, Early, NoTransaction, SubmissionTypeOK
<1> QED
  BY InitKeeps, NextKeeps, InitHeld, HeldKeeps, <1>1, PTL DEF Spec

\* Every copy filed goes to everyone its client addressed, in the header or with
\* RCPT, and to nobody else, once each: to an address with a key so that its owner
\* reads it, to any other through the server and then as EXTERNAL; its bcc are those
\* the header does not name (smtpserver.go:88-121, outgoing.go:104-143,
\* sendemail.go:199-216).
THEOREM EveryoneIsAddressed == Spec => []EveryoneAddressed
BY InitKeeps, NextKeeps, InitHeld, HeldKeeps, PTL DEF Spec

HIDE Constants

-----------------------------------------------------------------------------
(* What the account holds.                                                 *)

AttachmentsOf(m) == ReadBody(Composed[m]).attachments

\* A file that was uploaded, under the key of its submission.
Holds(stored, ref, file, number) ==
  /\ ref.name = file.name /\ ref.type = file.type
  /\ ref.blob \in DOMAIN stored
  /\ stored[ref.blob] = EncryptSymmetrically(<<"files", number>>, file.data)

\* Some of the files of a message, from the first on.
HoldsFiles(stored, list, m, number) ==
  /\ list \in Seq(ToSet(list)) /\ Len(list) <= Len(AttachmentsOf(m))
  /\ \A k \in 1 .. Len(list) : Holds(stored, list[k], AttachmentsOf(m)[k], number)

\* A pair opens the whole, and its preview.
OpensTo(envelope, pair, a, email) ==
  /\ DecryptEnvelope(envelope, pair, a) = {email}
  /\ DecryptPreview(envelope, pair, a) = {email.preview}

\* A copy that opens with the account's key to what its client wrote, and the key
\* of its files.
OpensWith(copy, key, account) ==
  OpensTo(copy.envelope, Only(account.public), account.address,
          [Written(copy) EXCEPT !.filesKey = {key}])

\* The first key named for the account's address is its own.
OwnIsFirst(copy, under) ==
  LET own == Lower[under.account.address]
  IN own \notin Addressed(copy) \/ under.keys[own] = under.account.public

\* The key of the files of a copy.
KeyOfFiles(copy) ==
  IF copy.files = <<>> THEN <<"no files", copy.number>> ELSE <<"files", copy.number>>

\* A copy that holds every file of its message, and opens for its sender.
FiledWhole(stored, copy, under) ==
  /\ Len(copy.files) = Len(AttachmentsOf(copy.message))
  /\ HoldsFiles(stored, copy.files, copy.message, copy.number)
  /\ under.account.public # {} /\ OwnIsFirst(copy, under) =>
       OpensWith(copy, KeyOfFiles(copy), under.account)

SavedWhole(draft, under) ==
  /\ draft.message \in Message /\ draft.files = <<>>
  /\ under.account.public # {} => OpensWith(draft, <<"no files", 0>>, under.account)

\* The files uploaded for a message in hand are its first; all of them, when it is
\* submitted.
FilesHeld(stored, place, list, message, number) ==
  /\ place \in {"envelope", "lookup"} => list = <<>>
  /\ place \in Uploading => HoldsFiles(stored, list, message, number)
  /\ place = "upload" => Len(list) < Len(AttachmentsOf(message))
  /\ place = "submit" => Len(list) = Len(AttachmentsOf(message))

FilesInv ==
  /\ blobs \in Seq(ToSet(blobs))
  /\ \A s \in Session :
       FilesHeld(blobs, at[s], refs[s], transaction[s].message, transaction[s].number)

\* What is filed is whole, and opens for its sender.
WholeInv ==
  /\ drafts \in Seq(ToSet(drafts))
  /\ \A i \in DOMAIN sent : sent[i].id = i /\ "number" \in DOMAIN sent[i]
  /\ \A i \in DOMAIN drafts : drafts[i].id = i /\ "number" \notin DOMAIN drafts[i]
  /\ \A i \in DOMAIN sent : FiledWhole(blobs, sent[i], setting)
  /\ \A i \in DOMAIN drafts : SavedWhole(drafts[i], setting)

-----------------------------------------------------------------------------
(* What is read of a message's parts.                                      *)

FileOf(part) ==
  [name |-> AttachmentName(part), type |-> part.type, data |-> part.data]

\* The text, the HTML and the files a content can have.
Contents(A) ==
  LET data == {a.data : a \in A} \cup {Empty}
  IN [text : data, html : data, attachments : Seq({FileOf(a) : a \in A})]

LEMMA ReadPartTyped ==
  ASSUME NEW A, NEW content \in Contents(A), NEW part \in A
  PROVE  ReadPart(content, part) \in Contents(A)
<1>. DEFINE data == {a.data : a \in A} \cup {Empty}
            F == {FileOf(a) : a \in A}
<1>1. /\ content.text \in data /\ content.html \in data
      /\ content.attachments \in Seq(F)
      /\ content = [text |-> content.text, html |-> content.html,
                    attachments |-> content.attachments]
      /\ part.data \in data /\ FileOf(part) \in F
  BY DEF Contents
<1>. DEFINE more == Append(content.attachments, FileOf(part))
<1>2. more \in Seq(F)
  BY <1>1
<1>3. Contents(A) = [text : data, html : data, attachments : Seq(F)]
  BY DEF Contents
<1>4. \A c \in Contents(A) :
        /\ \A x \in data : [c EXCEPT !.text = x] \in Contents(A)
        /\ \A x \in data : [c EXCEPT !.html = x] \in Contents(A)
        /\ \A x \in Seq(F) : [c EXCEPT !.attachments = x] \in Contents(A)
  <2>. HIDE DEF data, F
  <2>. QED
    BY <1>3
<1>5. ReadPart(content, part) =
        IF AttachmentName(part) # Empty THEN [content EXCEPT !.attachments = more]
        ELSE IF part.type = "text/plain" THEN [content EXCEPT !.text = part.data]
        ELSE IF part.type = "text/html" THEN [content EXCEPT !.html = part.data]
        ELSE content
  BY DEF ReadPart, FileOf
<1>. HIDE DEF data, F, more
<1>. QED
  BY <1>1, <1>2, <1>4, <1>5

\* The parts are read one after the other.
Reading(q, r) ==
  /\ r[{}] = NoContent /\ FoldLeft(ReadPart, NoContent, q) = r[1 .. Len(q)]
  /\ \A n \in Nat : n + 1 <= Len(q) => r[1 .. n + 1] = ReadPart(r[1 .. n], q[n + 1])

LEMMA ReadFold == ASSUME NEW A, NEW q \in Seq(A) PROVE \E r : Reading(q, r)
<1>. DEFINE L == Contents(A)
            D == DOMAIN q
            f == [p \in L \X A |-> ReadPart(p[1], p[2])]
            Made(g, s) ==
              IF s = {} THEN NoContent ELSE ReadPart(g[s \ {Max(s)}], q[Max(s)])
            r == CHOOSE g : g = [s \in SUBSET D |-> Made(g, s)]
<1>1. f \in [L \X A -> L]
  <2>1. \A p \in L \X A : p[1] \in L /\ p[2] \in A
    OBVIOUS
  <2>. HIDE DEF L
  <2>2. \A p \in L \X A : ReadPart(p[1], p[2]) \in L
    BY <2>1, ReadPartTyped DEF L
  <2>. QED
    BY <2>2
<1>2. PICK g : Computes(g, f, NoContent, q, L)
  <2>1. NoContent \in L
    BY DEF NoContent, Contents
  <2>. HIDE DEF L, f
  <2>. QED
    BY <1>1, <2>1, FoldExists
<1>3. g = [s \in SUBSET D |-> Made(g, s)]
  <2>1. ASSUME NEW s \in SUBSET D PROVE g[s] = Made(g, s)
    <3>1. CASE s # {}
      <4>0. Max(s) \in D
        BY <1>2, <3>1 DEF Computes
      <4>1. q[Max(s)] \in A
        BY <4>0
      <4>2. g[s \ {Max(s)}] \in L
        BY <1>2 DEF Computes
      <4>3. f[<<g[s \ {Max(s)}], q[Max(s)]>>] = Made(g, s)
        <5>. HIDE DEF L, D
        <5>. QED
          BY <3>1, <4>1, <4>2
      <4>. QED
        BY <1>2, <3>1, <4>3 DEF Computes
    <3>. QED
      BY <1>2, <3>1 DEF Computes
  <2>2. g \in [SUBSET D -> L]
    BY <1>2 DEF Computes
  <2>. HIDE DEF Made, D, L, f
  <2>. QED
    BY <2>1, <2>2
<1>. HIDE DEF L, f
<1>4. r = [s \in SUBSET D |-> Made(r, s)]
  <2>. HIDE DEF Made, D
  <2>. QED
    BY <1>3, Zenon
<1>5. FoldLeft(ReadPart, NoContent, q) = r[D]
  BY Zenon DEF FoldLeft, MapThenFoldSet
<1>. HIDE DEF r
<1>6. \A s \in SUBSET D : r[s] = Made(r, s)
  <2>. HIDE DEF Made, D
  <2>. QED
    BY <1>4
<1>7. Len(q) \in Nat /\ D = 1 .. Len(q)
  OBVIOUS
<1>8. r[{}] = NoContent
  BY <1>6
<1>9. ASSUME NEW n \in Nat, n + 1 <= Len(q)
      PROVE  r[1 .. n + 1] = ReadPart(r[1 .. n], q[n + 1])
  <2>1. 1 .. n + 1 \in SUBSET D /\ n + 1 \in 1 .. n + 1
        /\ (1 .. n + 1) \ {n + 1} = 1 .. n
    BY <1>7, <1>9
  <2>2. Max(1 .. n + 1) = n + 1
    BY <2>1, LastOf
  <2>. HIDE DEF D
  <2>. QED
    BY <1>6, <2>1, <2>2
<1>. QED
  BY <1>5, <1>7, <1>8, <1>9 DEF Reading

\* A file has a name, and these parts and no other.
IsFile(file) ==
  /\ file.name # Empty
  /\ file = [name |-> file.name, type |-> file.type, data |-> file.data]
AreFiles(list) ==
  list \in Seq(ToSet(list)) /\ \A k \in 1 .. Len(list) : IsFile(list[k])

LEMMA MoreFiles ==
  ASSUME NEW list, AreFiles(list), NEW file, IsFile(file)
  PROVE  AreFiles(Append(list, file))
<1>. DEFINE S == ToSet(list) \cup {file}
            l == Append(list, file)
<1>1. list \in Seq(S) /\ file \in S
  BY DEF AreFiles
<1>2. /\ l \in Seq(S) /\ Len(l) = Len(list) + 1 /\ Len(list) \in Nat
      /\ l[Len(list) + 1] = file /\ \A k \in 1 .. Len(list) : l[k] = list[k]
      /\ DOMAIN l = 1 .. Len(list) + 1
  <2>. HIDE DEF S
  <2>. QED
    BY <1>1
<1>. HIDE DEF l, S
<1>3. l = [k \in 1 .. Len(list) + 1 |-> l[k]] /\ \A k \in 1 .. Len(list) + 1 : l[k] \in ToSet(l)
  BY <1>2 DEF ToSet
<1>4. l \in Seq(ToSet(l))
  BY <1>2, <1>3
<1>5. \A k \in 1 .. Len(list) + 1 : k \in 1 .. Len(list) \/ k = Len(list) + 1
  BY <1>2
<1>6. \A k \in 1 .. Len(l) : IsFile(l[k])
  BY <1>2, <1>5 DEF AreFiles
<1>. QED
  BY <1>4, <1>6 DEF AreFiles, l

\* What is read as a file has a name.
LEMMA FilesRead ==
  ASSUME NEW A, NEW q \in Seq(A)
  PROVE  AreFiles(FoldLeft(ReadPart, NoContent, q).attachments)
<1>0. PICK r : Reading(q, r)
  BY ReadFold
<1>1. /\ r[{}] = NoContent
      /\ FoldLeft(ReadPart, NoContent, q) = r[1 .. Len(q)]
      /\ \A n \in Nat : n + 1 <= Len(q) =>
           r[1 .. n + 1] = ReadPart(r[1 .. n], q[n + 1])
  BY <1>0 DEF Reading
<1>. DEFINE Is(c) == AreFiles(c.attachments)
                     /\ c = [text |-> c.text, html |-> c.html,
                             attachments |-> c.attachments]
            Q == {n \in Nat : n <= Len(q) => Is(r[1 .. n])}
<1>2. Len(q) \in Nat
  OBVIOUS
<1>3. 0 \in Q
  <2>1. r[1 .. 0] = NoContent
    BY <1>1
  <2>2. AreFiles(<<>>)
    BY DEF AreFiles
  <2>3. Is(NoContent)
    BY <2>2 DEF NoContent
  <2>. HIDE DEF Is
  <2>. QED
    BY <2>1, <2>3
<1>4. ASSUME NEW c, Is(c), NEW part PROVE Is(ReadPart(c, part))
  <2>. DEFINE more == Append(c.attachments, FileOf(part))
  <2>1. CASE AttachmentName(part) # Empty
    <3>1. ReadPart(c, part) = [c EXCEPT !.attachments = more]
      BY <2>1 DEF ReadPart, FileOf
    <3>2. IsFile(FileOf(part))
      BY <2>1 DEF IsFile, FileOf
    <3>3. AreFiles(more)
      BY <1>4, <3>2, MoreFiles
    <3>. HIDE DEF more
    <3>. QED
      BY <1>4, <3>1, <3>3
  <2>2. CASE AttachmentName(part) = Empty
    BY <1>4, <2>2 DEF ReadPart
  <2>. QED
    BY <2>1, <2>2
<1>. HIDE DEF Is
<1>5. \A n \in Nat : n \in Q => n + 1 \in Q
  BY <1>1, <1>2, <1>4
<1>. HIDE DEF Q
<1>6. \A n \in Nat : n \in Q
  BY <1>3, <1>5, Induction
<1>7. Is(r[1 .. Len(q)])
  BY <1>2, <1>6 DEF Q
<1>. QED
  BY <1>1, <1>7 DEF Is

LEMMA AttachmentsAreFiles ==
  ASSUME NEW m \in Message PROVE AreFiles(AttachmentsOf(m))
<1>. DEFINE q == Composed[m].parts
<1>1. q \in Seq(ToSet(q))
  BY SubmissionAssumption
<1>2. AreFiles(FoldLeft(ReadPart, NoContent, q).attachments)
  <2>. HIDE DEF q
  <2>. QED
    BY <1>1, FilesRead
<1>3. AreFiles(<<>>)
  BY DEF AreFiles
<1>4. CASE Composed[m].multipart
  BY <1>2, <1>4 DEF AttachmentsOf, ReadBody
<1>5. CASE ~Composed[m].multipart
  BY <1>3, <1>5 DEF AttachmentsOf, ReadBody, NoContent
<1>. QED
  BY <1>4, <1>5

-----------------------------------------------------------------------------
(* What is read of a message as it is served.                              *)

\* What a client makes of the texts of a message, and of a text alone.
ReadsAs(opened, files) ==
  [text |-> opened.text, html |-> opened.html, attachments |-> files]
AloneReads(opened, part) ==
  IF part.type = "text/html" THEN part.data = opened.html /\ opened.text = Empty
  ELSE part.data = opened.text /\ opened.html = Empty
TextsRead(opened, body) ==
  /\ body \in Seq({body[1], body[Len(body)]})
  /\ \/ /\ Len(body) = 1 /\ AloneReads(opened, body[1])
        /\ ReadPart(NoContent, body[1]) = ReadsAs(opened, <<>>)
     \/ /\ Len(body) = 2
        /\ ReadPart(ReadPart(NoContent, body[1]), body[2]) = ReadsAs(opened, <<>>)

LEMMA ServedBody == ASSUME NEW opened PROVE TextsRead(opened, BodyParts(opened))
<1>. DEFINE plain == TextPart("text/plain", opened.text)
            html == TextPart("text/html", opened.html)
            body == BodyParts(opened)
<1>1. /\ plain.type = "text/plain" /\ plain.data = opened.text
      /\ html.type = "text/html" /\ html.data = opened.html
      /\ AttachmentName(plain) = Empty /\ AttachmentName(html) = Empty
  BY DEF TextPart, AttachmentName, Empty
<1>2. /\ \A c : ReadPart(c, plain) = [c EXCEPT !.text = opened.text]
      /\ \A c : ReadPart(c, html) = [c EXCEPT !.html = opened.html]
  <2>. HIDE DEF plain, html
  <2>. QED
    BY <1>1 DEF ReadPart
<1>. HIDE DEF plain, html
<1>3. ReadPart(NoContent, plain)
        = [text |-> opened.text, html |-> Empty, attachments |-> <<>>]
  <2>1. ReadPart(NoContent, plain) = [NoContent EXCEPT !.text = opened.text]
    BY <1>2
  <2>. QED
    BY <2>1 DEF NoContent
<1>4. ReadPart(NoContent, html)
        = [text |-> Empty, html |-> opened.html, attachments |-> <<>>]
  <2>1. ReadPart(NoContent, html) = [NoContent EXCEPT !.html = opened.html]
    BY <1>2
  <2>. QED
    BY <2>1 DEF NoContent
<1>5. ReadPart(ReadPart(NoContent, plain), html) = ReadsAs(opened, <<>>)
  <2>. DEFINE c == ReadPart(NoContent, plain)
  <2>1. c = [text |-> opened.text, html |-> Empty, attachments |-> <<>>]
    BY <1>3
  <2>. HIDE DEF c
  <2>2. ReadPart(c, html) = [c EXCEPT !.html = opened.html]
    BY <1>2
  <2>3. ReadPart(c, html) = ReadsAs(opened, <<>>)
    BY <2>1, <2>2 DEF ReadsAs
  <2>. QED
    BY <2>3 DEF c
<1>6. CASE opened.html = Empty
  <2>1. body = <<plain>>
    BY <1>6 DEF BodyParts, plain
  <2>2. ReadPart(NoContent, plain) = ReadsAs(opened, <<>>)
    BY <1>3, <1>6 DEF ReadsAs
  <2>3. AloneReads(opened, plain)
    BY <1>1, <1>6 DEF AloneReads
  <2>. HIDE DEF body
  <2>4. body \in Seq({body[1], body[Len(body)]}) /\ Len(body) = 1 /\ body[1] = plain
    BY <2>1
  <2>. QED
    BY <2>2, <2>3, <2>4 DEF TextsRead, body
<1>7. CASE opened.html # Empty /\ opened.text = Empty
  <2>1. body = <<html>>
    BY <1>7 DEF BodyParts, html
  <2>2. ReadPart(NoContent, html) = ReadsAs(opened, <<>>)
    BY <1>4, <1>7 DEF ReadsAs
  <2>3. AloneReads(opened, html)
    BY <1>1, <1>7 DEF AloneReads
  <2>. HIDE DEF body
  <2>4. body \in Seq({body[1], body[Len(body)]}) /\ Len(body) = 1 /\ body[1] = html
    BY <2>1
  <2>. QED
    BY <2>2, <2>3, <2>4 DEF TextsRead, body
<1>8. CASE opened.html # Empty /\ opened.text # Empty
  <2>1. body = <<plain, html>>
    BY <1>8 DEF BodyParts, plain, html
  <2>. HIDE DEF body
  <2>2. /\ body \in Seq({body[1], body[Len(body)]}) /\ Len(body) = 2
        /\ body[1] = plain /\ body[2] = html
    BY <2>1
  <2>. QED
    BY <1>5, <2>2 DEF TextsRead, body
<1>. QED
  BY <1>6, <1>7, <1>8

\* A client reads the texts it is served, and every file by its name.
LEMMA ServedReads ==
  ASSUME NEW opened, NEW contents,
         opened.attachments \in Seq(ToSet(opened.attachments)),
         \A k \in 1 .. Len(opened.attachments) : opened.attachments[k].name # Empty
  PROVE  LET again == ReadBody(BuildLiteral(opened, contents))
         IN /\ again.text = opened.text /\ again.html = opened.html
            /\ Len(again.attachments) = Len(opened.attachments)
            /\ \A k \in 1 .. Len(opened.attachments) :
                 again.attachments[k]
                   = FileOf(FilePart(opened.attachments[k], contents[k]))
<1>. DEFINE list == opened.attachments
            n == Len(list)
            body == BodyParts(opened)
            b == Len(body)
            files == [i \in DOMAIN list |-> FilePart(list[i], contents[i])]
            A == {body[1], body[b]} \cup {files[i] : i \in 1 .. n}
            F == {FileOf(files[i]) : i \in 1 .. n}
            parts == body \o files
<1>1. DOMAIN list = 1 .. n /\ n \in Nat
  OBVIOUS
<1>2. TextsRead(opened, body)
  BY ServedBody
<1>3. /\ files \in Seq(A) /\ Len(files) = n
      /\ \A i \in 1 .. n : files[i] = FilePart(list[i], contents[i])
  <2>1. files = [i \in 1 .. n |-> FilePart(list[i], contents[i])]
    BY <1>1
  <2>2. \A i \in 1 .. n : files[i] = FilePart(list[i], contents[i]) /\ files[i] \in A
    <3>1. \A i \in 1 .. n : files[i] \in {files[j] : j \in 1 .. n}
      OBVIOUS
    <3>2. \A i \in 1 .. n : files[i] = FilePart(list[i], contents[i])
      <4>. HIDE DEF n
      <4>. QED
        BY <2>1
    <3>. HIDE DEF files, body, n
    <3>. QED
      BY <3>1, <3>2
  <2>. HIDE DEF files, A, list
  <2>3. files = [i \in 1 .. n |-> files[i]]
    BY <2>1
  <2>. QED
    BY <1>1, <2>2, <2>3
<1>4. body \in Seq(A) /\ b \in {1, 2}
  <2>. HIDE DEF body, files
  <2>1. body \in Seq({body[1], body[b]}) /\ b \in {1, 2}
    BY <1>2 DEF TextsRead
  <2>. QED
    BY <2>1
<1>. HIDE DEF body, files, A
<1>5. /\ parts \in Seq(A) /\ Len(parts) = b + n
      /\ \A i \in 1 .. b : parts[i] = body[i]
      /\ \A i \in 1 .. n : parts[b + i] = files[i]
  <2>1. /\ parts \in Seq(A) /\ Len(parts) = Len(body) + Len(files)
        /\ \A i \in 1 .. Len(body) : parts[i] = body[i]
    BY <1>3, <1>4, Together
  <2>2. \A i \in 1 .. Len(files) : parts[Len(body) + i] = files[i]
    BY <1>3, <1>4, Behind
  <2>. QED
    BY <1>3, <2>1, <2>2
<1>6. BuildLiteral(opened, contents) = [multipart |-> Len(parts) > 1, parts |-> parts]
  BY Zenon DEF BuildLiteral, body, files
<1>. HIDE DEF parts
<1>. DEFINE literal == BuildLiteral(opened, contents)
            again == ReadBody(literal)
            Is(c, k) == /\ c = ReadsAs(opened, c.attachments)
                        /\ c.attachments \in Seq(F)
                        /\ Len(c.attachments) = k
                        /\ \A i \in 1 .. k : c.attachments[i] = FileOf(files[i])
<1>. HIDE DEF literal, F, list, n, b
<1>7. literal.multipart = (Len(parts) > 1) /\ literal.parts = parts
  BY <1>6 DEF literal
<1>8. Is(ReadsAs(opened, <<>>), 0)
  <2>. DEFINE c == ReadsAs(opened, <<>>)
  <2>1. c.attachments = <<>>
    BY DEF ReadsAs
  <2>2. c = ReadsAs(opened, c.attachments)
    BY <2>1
  <2>. HIDE DEF c
  <2>3. Is(c, 0)
    BY <2>1, <2>2
  <2>. QED
    BY <2>3 DEF c
<1>9. Is(again, n)
  <2>1. CASE ~(Len(parts) > 1)
    <3>1. b = 1 /\ n = 0
      BY <1>1, <1>4, <1>5, <2>1
    <3>2. parts[1] = body[1] /\ AloneReads(opened, body[1])
      BY <1>2, <1>5, <3>1 DEF TextsRead, b
    <3>3. again = IF body[1].type = "text/html"
                  THEN [NoContent EXCEPT !.html = body[1].data]
                  ELSE [NoContent EXCEPT !.text = body[1].data]
      BY <1>7, <2>1, <3>2 DEF ReadBody
    <3>. HIDE DEF again
    <3>4. again = ReadsAs(opened, <<>>)
      BY <3>2, <3>3 DEF NoContent, AloneReads, ReadsAs
    <3>. HIDE DEF Is
    <3>. QED
      BY <1>8, <3>1, <3>4
  <2>2. CASE Len(parts) > 1
    <3>1. again = FoldLeft(ReadPart, NoContent, parts)
      BY <1>7, <2>2 DEF ReadBody
    <3>. HIDE DEF again
    <3>0. parts \in Seq(A)
      BY <1>5
    <3>8. PICK r : Reading(parts, r)
      BY <3>0, ReadFold
    <3>2. /\ r[{}] = NoContent
          /\ FoldLeft(ReadPart, NoContent, parts) = r[1 .. Len(parts)]
          /\ \A k \in Nat : k + 1 <= Len(parts) =>
               r[1 .. k + 1] = ReadPart(r[1 .. k], parts[k + 1])
      BY <3>8 DEF Reading
    <3>. DEFINE Q == {k \in Nat : k <= n => Is(r[1 .. b + k], k)}
    <3>3. 0 \in Q
      <4>1. r[1 .. 0] = NoContent /\ r[1 .. 1] = ReadPart(NoContent, body[1])
        <5>1. r[1 .. 0] = NoContent
          BY <3>2
        <5>2. 0 \in Nat /\ 0 + 1 <= Len(parts) /\ 0 + 1 = 1
          BY <1>1, <1>4, <1>5
        <5>3. parts[1] = body[1]
          BY <1>4, <1>5
        <5>4. r[1 .. 0 + 1] = ReadPart(r[1 .. 0], parts[0 + 1])
          BY <3>2, <5>2
        <5>. QED
          BY <5>1, <5>2, <5>3, <5>4
      <4>2. r[1 .. b] = ReadsAs(opened, <<>>)
        <5>1. CASE b = 1
          BY <1>2, <4>1, <5>1 DEF TextsRead, b
        <5>2. CASE b = 2
          <6>1. 1 \in Nat /\ 1 + 1 <= Len(parts) /\ 1 + 1 = 2
            BY <1>1, <1>5, <5>2
          <6>2. parts[2] = body[2]
            BY <1>5, <5>2
          <6>3. r[1 .. 1 + 1] = ReadPart(r[1 .. 1], parts[1 + 1])
            BY <3>2, <6>1
          <6>4. r[1 .. 2] = ReadPart(r[1 .. 1], parts[2])
            BY <6>1, <6>3
          <6>5. ReadPart(ReadPart(NoContent, body[1]), body[2]) = ReadsAs(opened, <<>>)
            BY <1>2, <5>2 DEF TextsRead, b
          <6>. QED
            BY <4>1, <5>2, <6>2, <6>4, <6>5
        <5>. QED
          BY <1>4, <5>1, <5>2
      <4>3. b + 0 = b
        BY <1>4
      <4>. HIDE DEF Is
      <4>. QED
        BY <1>8, <4>2, <4>3
    <3>4. ASSUME NEW k \in Nat, k + 1 <= n, NEW c, Is(c, k)
          PROVE  Is(ReadPart(c, files[k + 1]), k + 1)
      <4>. DEFINE file == FileOf(files[k + 1])
                  more == Append(c.attachments, file)
      <4>1. k + 1 \in 1 .. n
        BY <1>1, <3>4
      <4>2. AttachmentName(files[k + 1]) # Empty
        <5>1. list[k + 1].name # Empty
          BY <4>1 DEF list, n
        <5>2. files[k + 1] = FilePart(list[k + 1], contents[k + 1])
          BY <1>3, <4>1
        <5>3. files[k + 1].name = list[k + 1].name
          BY <5>2 DEF FilePart
        <5>. QED
          BY <5>1, <5>3 DEF AttachmentName
      <4>3. ReadPart(c, files[k + 1]) = [c EXCEPT !.attachments = more]
        BY <4>2 DEF ReadPart, FileOf
      <4>4. /\ file \in F /\ c.attachments \in Seq(F) /\ Len(c.attachments) = k
            /\ \A i \in 1 .. k : c.attachments[i] = FileOf(files[i])
            /\ c = ReadsAs(opened, c.attachments)
        BY <3>4, <4>1 DEF F
      <4>5. /\ more \in Seq(F) /\ Len(more) = k + 1 /\ more[k + 1] = file
            /\ \A i \in 1 .. k : more[i] = FileOf(files[i])
        <5>. HIDE DEF file
        <5>. QED
          BY <4>4
      <4>. HIDE DEF more
      <4>6. \A i \in 1 .. k + 1 : i \in 1 .. k \/ i = k + 1
        OBVIOUS
      <4>7. \A i \in 1 .. k + 1 : more[i] = FileOf(files[i])
        BY <4>5, <4>6
      <4>8. ReadPart(c, files[k + 1]) = ReadsAs(opened, more)
        BY <4>3, <4>4 DEF ReadsAs
      <4>9. ReadsAs(opened, more).attachments = more
        BY DEF ReadsAs
      <4>. QED
        BY <4>5, <4>7, <4>8, <4>9
    <3>. HIDE DEF Is
    <3>5. ASSUME NEW k \in Nat, k \in Q PROVE k + 1 \in Q
      <4>. SUFFICES ASSUME k + 1 <= n PROVE Is(r[1 .. b + (k + 1)], k + 1)
        OBVIOUS
      <4>1. k <= n /\ Is(r[1 .. b + k], k)
        BY <1>1, <3>5
      <4>2. b + k \in Nat /\ (b + k) + 1 <= Len(parts) /\ (b + k) + 1 = b + (k + 1)
        BY <1>1, <1>4, <1>5
      <4>3. r[1 .. b + (k + 1)] = ReadPart(r[1 .. b + k], parts[b + (k + 1)])
        BY <3>2, <4>2
      <4>4. parts[b + (k + 1)] = files[k + 1]
        BY <1>1, <1>5
      <4>. QED
        BY <3>4, <4>1, <4>3, <4>4
    <3>. HIDE DEF Q
    <3>6. \A k \in Nat : k \in Q
      BY <3>3, <3>5, Induction
    <3>7. Is(r[1 .. b + n], n)
      BY <1>1, <3>6 DEF Q
    <3>. QED
      BY <1>5, <3>1, <3>2, <3>7
  <2>. QED
    BY <2>1, <2>2
<1>10. /\ again.text = opened.text /\ again.html = opened.html
       /\ Len(again.attachments) = n
       /\ \A k \in 1 .. n : again.attachments[k] = FileOf(FilePart(list[k], contents[k]))
  <2>. HIDE DEF again
  <2>. QED
    BY <1>3, <1>9 DEF ReadsAs
<1>. QED
  BY <1>10 DEF literal, list, n

-----------------------------------------------------------------------------
(* The sender opens its own copy.                                          *)

LEMMA WrappedOpens ==
  ASSUME NEW envelope, NEW email, NEW list, NEW key, NEW filesKey, NEW a, NEW i,
         Wraps(envelope, email, list, key, filesKey), PickedFor(list, a, i)
  PROVE  OpensTo(envelope, list[i].pair, a, WithFilesKey(email, filesKey))
<1>. DEFINE whole == WithFilesKey(email, filesKey)
<1>1. DecryptEnvelope(envelope, list[i].pair, a) = {whole}
  BY OpensForItsRecipient DEF Wraps
<1>2. whole.preview = email.preview
  BY DEF Wraps, WithFilesKey, IsEmail
<1>3. envelope = [sealed |-> EncryptEmail(whole, key),
                  wrappedKeys |-> SealedFor(list, key)]
  BY DEF BuildEnvelope, Wraps
<1>4. list[i].pair \in Usable
  BY Usables DEF PickedFor, Wraps
<1>5. SessionKeyFor(envelope.wrappedKeys, list[i].pair, a) = {key}
  BY <1>3, <1>4, SessionKey DEF Wraps
<1>6. envelope.sealed = EncryptEmail(whole, key)
  BY <1>3
<1>. HIDE DEF whole
<1>7. DecryptSymmetrically(key, envelope.sealed.preview) = {email.preview}
  BY <1>2, <1>6 DEF EncryptEmail, EncryptSymmetrically, DecryptSymmetrically
<1>8. DecryptPreview(envelope, list[i].pair, a) = {email.preview}
  BY <1>5, <1>7 DEF DecryptPreview
<1>. QED
  BY <1>1, <1>2, <1>8 DEF whole, OpensTo

\* The account's own key is what its address is first sealed with.
LEMMA OwnPicked ==
  ASSUME setting \in Settings, setting.account.public # {}, NEW s, NEW copy,
         NEW list, NEW all, SealedTo(copy, s, list, all), OwnIsFirst(copy, setting),
         Addressed(copy) = Given(list)
  PROVE  \E i : /\ PickedFor(all, setting.account.address, i)
                /\ all[i].pair = Only(setting.account.public)
<1>. DEFINE a == setting.account.address
            public == setting.account.public
            own == OwnRecipient(setting.account)
            me == [address |-> a, pair |-> Only(public)]
<1>1. own = <<me>> /\ me.address = a /\ me.pair = Only(public)
  BY DEF OwnRecipient
<1>2. Len(own) = 1 /\ own[1] = me
  <2>. HIDE DEF own, me
  <2>. QED
    BY <1>1
<1>3. /\ list \in Seq(Address) /\ all \in Seq(Recipient)
      /\ Len(all) = Len(list) + Len(own)
      /\ \A i \in 1 .. Len(list) :
           /\ all[i].address = list[i]
           /\ \A pair \in KeysFor(setting, Lower[list[i]]) : pair = all[i].pair
      /\ \A i \in 1 .. Len(own) : all[Len(list) + i] = own[i]
      /\ \A i, j \in 1 .. Len(list) : SameAddress(list[i], list[j]) => i = j
  BY DEF SealedTo, AreAll
<1>4. Len(list) \in Nat /\ DOMAIN all = 1 .. Len(list) + 1
      /\ all[Len(list) + 1] = me
  BY <1>2, <1>3
<1>. HIDE DEF own, me
<1>5. CASE Lower[a] \in Given(list)
  <2>1. PICK i : i \in 1 .. Len(list) /\ Lower[list[i]] = Lower[a]
    BY <1>3, <1>5, GivenIs
  <2>2. setting.keys[Lower[a]] = public
    BY <1>5 DEF OwnIsFirst
  <2>3. KeysFor(setting, Lower[list[i]]) = public
    BY <2>1, <2>2 DEF KeysFor
  <2>4. Only(public) \in public
    BY DEF Only
  <2>5. all[i].pair = Only(public)
    BY <1>3, <2>1, <2>3, <2>4
  <2>6. PickedFor(all, a, i)
    <3>1. \A j \in 1 .. Len(list) : all[j].address = list[j]
      BY <1>3
    <3>2. ASSUME NEW j \in DOMAIN all, j < i PROVE ~SameAddress(all[j].address, a)
      <4>1. j \in 1 .. Len(list) /\ j # i
        BY <1>4, <2>1, <3>2
      <4>2. ~SameAddress(list[j], list[i])
        BY <1>3, <2>1, <4>1
      <4>. QED
        BY <2>1, <3>1, <4>1, <4>2 DEF SameAddress
    <3>3. i \in DOMAIN all /\ SameAddress(all[i].address, a)
      BY <1>4, <2>1, <3>1 DEF SameAddress
    <3>. QED
      BY <3>2, <3>3 DEF PickedFor
  <2>. QED
    BY <2>5, <2>6
<1>6. CASE Lower[a] \notin Given(list)
  <2>. DEFINE i == Len(list) + 1
  <2>1. all[i].address = a /\ all[i].pair = Only(public)
    BY <1>1, <1>4
  <2>2. ASSUME NEW j \in DOMAIN all, j < i PROVE ~SameAddress(all[j].address, a)
    <3>1. j \in 1 .. Len(list)
      BY <1>4, <2>2
    <3>2. Lower[list[j]] \in Given(list)
      BY <1>3, <3>1, GivenIs
    <3>. QED
      BY <1>3, <1>6, <3>1, <3>2 DEF SameAddress
  <2>3. i \in DOMAIN all /\ SameAddress(all[i].address, a)
    BY <1>4, <2>1 DEF SameAddress
  <2>4. PickedFor(all, a, i)
    BY <2>2, <2>3 DEF PickedFor
  <2>. QED
    BY <2>1, <2>4
<1>. QED
  BY <1>5, <1>6

LEMMA FiledOpens ==
  ASSUME setting \in Settings, NEW s \in Session,
         transaction[s].message \in Message,
         to[s] = transaction[s].recipients, to[s] \in Seq(Address),
         ParseOutgoingMessage(MessageOf(s), to[s]) # {},
         SealedRecipients(s) # {}, EnvelopeOf(s) # {},
         refs[s] = <<>> <=> FilesOf(s) = <<>>,
         setting.account.public # {}, OwnIsFirst(FiledCopy(s), setting)
  PROVE  OpensWith(FiledCopy(s), KeyOfFiles(FiledCopy(s)), setting.account)
<1>. DEFINE copy == FiledCopy(s)
            key == KeyOfFiles(copy)
            body == BodyOf(s)
            a == setting.account.address
            pair == Only(setting.account.public)
            written == Written(copy)
            email == [written EXCEPT !.filesKey = {key}]
            envelope == copy.envelope
<1>1. PICK list, all : SealedTo(copy, s, list, all)
  BY CopySealed
<1>2. /\ copy.message = transaction[s].message /\ copy.recipients = to[s]
      /\ copy.files = refs[s] /\ copy.number = transaction[s].number
  BY DEF FiledCopy
<1>. HIDE DEF copy
<1>3. Addressed(copy) = Given(list)
  <2>. DEFINE m == Composed[copy.message]
  <2>1. AreAll(list, m.to, m.cc, copy.bcc, to[s])
    BY <1>1 DEF SealedTo
  <2>. HIDE DEF m
  <2>2. Given(list) = Given(m.to) \cup Given(m.cc) \cup Given(to[s])
    BY <2>1 DEF AreAll
  <2>3. copy.recipients = to[s]
    BY <1>2
  <2>. QED
    BY <2>2, <2>3 DEF Addressed, Given, m
<1>4. PICK i : PickedFor(all, a, i) /\ all[i].pair = pair
  BY <1>1, <1>3, OwnPicked DEF copy
<1>5. OutgoingOf(s).content = ReadBody(Composed[copy.message])
  BY <1>1 DEF SealedTo
<1>6. /\ IsEmail(body) /\ WithFilesKey(body, UnusedFilesKey(s)) = email
      /\ body.preview = email.preview
  <2>1. written = Body(OutgoingOf(s).content)
    BY <1>5 DEF Written
  <2>2. written = [text |-> written.text, preview |-> written.preview, filesKey |-> {}]
    BY <2>1 DEF Body
  <2>3. CASE FilesOf(s) = <<>>
    <3>1. body = written /\ key = UnusedFilesKey(s)
      BY <1>2, <2>1, <2>3 DEF BodyOf, KeyOfFiles, UnusedFilesKey
    <3>. HIDE DEF body, written, key
    <3>. QED
      BY <2>2, <3>1 DEF IsEmail, WithFilesKey
  <2>4. CASE FilesOf(s) # <<>>
    <3>1. body = [written EXCEPT !.filesKey = {FilesKey(s)}] /\ key = FilesKey(s)
      BY <1>2, <2>1, <2>4 DEF BodyOf, KeyOfFiles, FilesKey
    <3>. HIDE DEF body, written, key
    <3>. QED
      BY <2>2, <3>1 DEF IsEmail, WithFilesKey
  <2>. QED
    BY <2>3, <2>4
<1>7. Wraps(envelope, body, all, BodyKey(s), UnusedFilesKey(s))
  BY <1>1, <1>6 DEF SealedTo, Wraps
<1>. HIDE DEF envelope, body, email, pair, a
<1>8. OpensTo(envelope, all[i].pair, a, WithFilesKey(body, UnusedFilesKey(s)))
  <2>. DEFINE k == BodyKey(s)
              f == UnusedFilesKey(s)
  <2>. HIDE DEF k, f
  <2>1. Wraps(envelope, body, all, k, f)
    BY <1>7 DEF k, f
  <2>2. OpensTo(envelope, all[i].pair, a, WithFilesKey(body, f))
    BY <1>4, <2>1, WrappedOpens
  <2>. QED
    BY <2>2 DEF f
<1>9. OpensTo(envelope, pair, a, email)
  BY <1>4, <1>6, <1>8
<1>. QED
  BY <1>9 DEF OpensWith, envelope, email, pair, a, copy

LEMMA ParsedContent ==
  ASSUME NEW message, NEW list, NEW outgoing \in ParseOutgoingMessage(message, list)
  PROVE  outgoing.content = ReadBody(message)
<1>. DEFINE content == ReadBody(message)
            replyTo == RepliedEmailID(message.inReplyTo)
            bcc == BccFrom(message.to, message.cc, list)
<1>1. outgoing = [content |-> content, replyTo |-> replyTo, to |-> message.to,
                  cc |-> message.cc, bcc |-> bcc]
  <2>1. outgoing \in {[content |-> ReadBody(message),
                       replyTo |-> RepliedEmailID(message.inReplyTo),
                       to |-> message.to, cc |-> message.cc,
                       bcc |-> BccFrom(message.to, message.cc, list)]}
    BY Zenon DEF ParseOutgoingMessage
  <2>. HIDE DEF content, replyTo, bcc
  <2>. QED
    BY <2>1 DEF content, replyTo, bcc
<1>. HIDE DEF content, replyTo, bcc
<1>2. outgoing.content = content
  BY <1>1
<1>. QED
  BY <1>2 DEF content

\* A draft is sealed for the account alone.
LEMMA DraftOpens ==
  ASSUME setting \in Settings, setting.account.public # {}, NEW draft, NEW key,
         NEW filesKey,
         draft.envelope \in BuildEnvelope(Written(draft), OwnRecipient(setting.account),
                                         key, filesKey)
  PROVE  OpensWith(draft, filesKey, setting.account)
<1>. DEFINE own == OwnRecipient(setting.account)
            a == setting.account.address
            pair == Only(setting.account.public)
            written == Written(draft)
            email == [written EXCEPT !.filesKey = {filesKey}]
            envelope == draft.envelope
<1>1. written = [text |-> written.text, preview |-> written.preview, filesKey |-> {}]
  BY DEF Written, Body
<1>2. own \in Seq(Recipient) /\ envelope \in BuildEnvelope(written, own, key, filesKey)
  BY OwnTyped
<1>3. PickedFor(own, a, 1) /\ own[1].pair = pair
  <2>. DEFINE me == [address |-> a, pair |-> pair]
  <2>1. own = <<me>> /\ me.address = a /\ me.pair = pair
    BY DEF OwnRecipient
  <2>. HIDE DEF own, me
  <2>2. Len(own) = 1 /\ own[1] = me /\ DOMAIN own = 1 .. Len(own)
    BY <1>2, <2>1
  <2>. QED
    BY <2>1, <2>2 DEF PickedFor, SameAddress
<1>. HIDE DEF own, a, pair, written, envelope
<1>4. IsEmail(written) /\ WithFilesKey(written, filesKey) = email
  BY <1>1 DEF IsEmail, WithFilesKey
<1>5. Wraps(envelope, written, own, key, filesKey)
  BY <1>2, <1>4 DEF Wraps
<1>. HIDE DEF email
<1>6. OpensTo(envelope, own[1].pair, a, WithFilesKey(written, filesKey))
  BY <1>3, <1>5, WrappedOpens
<1>7. OpensTo(envelope, pair, a, email)
  BY <1>3, <1>4, <1>6
<1>. QED
  BY <1>7 DEF OpensWith, email, pair, a, written, envelope

-----------------------------------------------------------------------------
(* What is uploaded stays, and is what the message has.                    *)

LEMMA StillHolds ==
  ASSUME NEW stored, stored \in Seq(ToSet(stored)), NEW x, NEW list, NEW m,
         NEW number, HoldsFiles(stored, list, m, number)
  PROVE  HoldsFiles(Append(stored, x), list, m, number)
<1>. DEFINE more == Append(stored, x)
<1>1. \A i \in DOMAIN stored : i \in DOMAIN more /\ more[i] = stored[i]
  BY AppendFacts
<1>. HIDE DEF more
<1>2. \A k \in 1 .. Len(list) : Holds(more, list[k], AttachmentsOf(m)[k], number)
  BY <1>1 DEF HoldsFiles, Holds
<1>. QED
  BY <1>2 DEF HoldsFiles, more

LEMMA StillWhole ==
  ASSUME NEW stored, stored \in Seq(ToSet(stored)), NEW x, NEW copy, NEW under,
         FiledWhole(stored, copy, under)
  PROVE  FiledWhole(Append(stored, x), copy, under)
BY StillHolds DEF FiledWhole

\* One more file is held.
LEMMA MoreHeld ==
  ASSUME NEW stored, stored \in Seq(ToSet(stored)), NEW list, NEW m \in Message,
         NEW number, HoldsFiles(stored, list, m, number),
         Len(list) < Len(AttachmentsOf(m)), NEW file,
         file = AttachmentsOf(m)[Len(list) + 1], NEW ref,
         ref.blob = Len(stored) + 1, ref.name = file.name, ref.type = file.type
  PROVE  /\ HoldsFiles(Append(stored, EncryptSymmetrically(<<"files", number>>, file.data)),
                       Append(list, ref), m, number)
         /\ Len(Append(list, ref)) = Len(list) + 1
<1>. DEFINE sealed == EncryptSymmetrically(<<"files", number>>, file.data)
            more == Append(stored, sealed)
            longer == Append(list, ref)
            all == AttachmentsOf(m)
<1>. HIDE DEF sealed, all
<1>1. HoldsFiles(more, list, m, number)
  BY StillHolds
<1>2. Len(all) \in Nat
  <2>1. all \in Seq(ToSet(all))
    BY AttachmentsAreFiles DEF AreFiles, all
  <2>. QED
    BY <2>1
<1>3. /\ Len(stored) + 1 \in DOMAIN more /\ more[Len(stored) + 1] = sealed
  <2>1. Len(stored) \in Nat /\ DOMAIN more = 1 .. Len(stored) + 1
        /\ more[Len(stored) + 1] = sealed
    BY AppendFacts
  <2>. QED
    BY <2>1
<1>4. list \in Seq(ToSet(list)) /\ Len(list) < Len(all)
      /\ \A k \in 1 .. Len(list) : Holds(more, list[k], all[k], number)
  BY <1>1 DEF HoldsFiles, all
<1>5. /\ Len(list) \in Nat /\ DOMAIN longer = 1 .. Len(list) + 1
      /\ \A k \in 1 .. Len(list) : longer[k] = list[k]
      /\ longer[Len(list) + 1] = ref
      /\ longer \in Seq(ToSet(longer))
  <2>1. /\ Len(list) \in Nat /\ DOMAIN list = 1 .. Len(list)
        /\ DOMAIN longer = 1 .. Len(list) + 1
        /\ \A i \in DOMAIN list : i \in DOMAIN longer /\ longer[i] = list[i]
        /\ longer[Len(list) + 1] = ref
        /\ longer \in Seq({longer[i] : i \in DOMAIN longer})
    BY <1>4, AppendFacts
  <2>. HIDE DEF longer
  <2>. QED
    BY <2>1 DEF ToSet
<1>. HIDE DEF more, longer
<1>6. Len(longer) = Len(list) + 1
  BY <1>5
<1>7. Holds(more, ref, all[Len(list) + 1], number)
  BY <1>3 DEF Holds, sealed, all
<1>8. ASSUME NEW k \in 1 .. Len(longer)
      PROVE  Holds(more, longer[k], all[k], number)
  <2>1. CASE k \in 1 .. Len(list)
    BY <1>4, <1>5, <2>1
  <2>2. CASE k = Len(list) + 1
    BY <1>5, <1>7, <2>2
  <2>. QED
    BY <1>5, <1>6, <2>1, <2>2
<1>9. Len(longer) <= Len(all)
  BY <1>2, <1>4, <1>5, <1>6
<1>. QED
  BY <1>5, <1>6, <1>8, <1>9 DEF HoldsFiles, more, longer, sealed, all

\* The files a session uploads are those of its message.
LEMMA FilesOfMessage ==
  ASSUME NEW s \in Session, Parsed(transaction[s].message, to[s]) # {}
  PROVE  FilesOf(s) = AttachmentsOf(transaction[s].message)
<1>. DEFINE message == Composed[transaction[s].message]
            list == to[s]
<1>. HIDE DEF message, list
<1>1. OutgoingOf(s) = Only(ParseOutgoingMessage(message, list))
  BY DEF OutgoingOf, MessageOf, message, list
<1>2. ParseOutgoingMessage(message, list) # {}
  BY DEF Parsed, message, list
<1>3. Only(ParseOutgoingMessage(message, list)) \in ParseOutgoingMessage(message, list)
  BY <1>2 DEF Only
<1>4. OutgoingOf(s).content = ReadBody(message)
  BY <1>1, <1>3, ParsedContent
<1>. QED
  BY <1>4 DEF FilesOf, AttachmentsOf, message

-----------------------------------------------------------------------------
(* Every step keeps what is held and what is filed.                        *)

\* Nothing uploaded is lost or changed.
Grown == blobs' = blobs \/ \E x : blobs' = Append(blobs, x)

LEMMA SessionFiles ==
  ASSUME FilesInv, Grown, NEW s \in Session, Others(s),
         FilesHeld(blobs', at'[s], refs'[s], transaction'[s].message,
                   transaction'[s].number)
  PROVE  FilesInv'
<1>1. blobs' \in Seq(ToSet(blobs'))
  <2>1. ASSUME NEW x, blobs' = Append(blobs, x) PROVE blobs' \in Seq(ToSet(blobs'))
    <3>1. Append(blobs, x) \in Seq({Append(blobs, x)[i] : i \in DOMAIN Append(blobs, x)})
      BY AppendFacts DEF FilesInv
    <3>. QED
      BY <2>1, <3>1 DEF ToSet
  <2>. QED
    BY <2>1 DEF Grown, FilesInv
<1>2. ASSUME NEW place, NEW list, NEW message, NEW number,
             FilesHeld(blobs, place, list, message, number)
      PROVE  FilesHeld(blobs', place, list, message, number)
  BY <1>2, StillHolds DEF Grown, FilesHeld, FilesInv
<1>3. ASSUME NEW t \in Session
      PROVE  FilesHeld(blobs', at'[t], refs'[t], transaction'[t].message,
                       transaction'[t].number)
  <2>1. CASE t = s
    BY <2>1
  <2>2. CASE t # s
    <3>1. at'[t] = at[t] /\ refs'[t] = refs[t] /\ transaction'[t] = transaction[t]
      BY <2>2 DEF Others
    <3>2. FilesHeld(blobs, at[t], refs[t], transaction[t].message, transaction[t].number)
      BY DEF FilesInv
    <3>. QED
      BY <1>2, <3>1, <3>2
  <2>. QED
    BY <2>1, <2>2
<1>. QED
  BY <1>1, <1>3 DEF FilesInv

\* What is filed stays, and what it refers to.
LEMMA WholeStays ==
  ASSUME FilesInv, WholeInv, Grown, UNCHANGED <<setting, sent, drafts>>
  PROVE  WholeInv'
<1>1. \A i \in DOMAIN sent : FiledWhole(blobs', sent[i], setting)
  <2>1. blobs \in Seq(ToSet(blobs)) /\ \A i \in DOMAIN sent : FiledWhole(blobs, sent[i], setting)
    BY DEF FilesInv, WholeInv
  <2>2. CASE blobs' = blobs
    BY <2>1, <2>2
  <2>3. ASSUME NEW x, blobs' = Append(blobs, x), NEW i \in DOMAIN sent
        PROVE  FiledWhole(blobs', sent[i], setting)
    <3>. DEFINE copy == sent[i]
    <3>1. FiledWhole(blobs, copy, setting)
      BY <2>1
    <3>. HIDE DEF copy
    <3>2. FiledWhole(Append(blobs, x), copy, setting)
      BY <2>1, <3>1, StillWhole
    <3>. QED
      BY <2>3, <3>2 DEF copy
  <2>. QED
    BY <2>2, <2>3 DEF Grown
<1>. QED
  BY <1>1 DEF WholeInv

LEMMA EndsFiles ==
  ASSUME Inv, HeldInv, FilesInv, Grown, NEW s \in Session, Ends(s) PROVE FilesInv'
<1>1. /\ at' = [at EXCEPT ![s] = "idle"]
      /\ transaction' = [transaction EXCEPT ![s] = NoTransaction]
      /\ created' = [created EXCEPT ![s] = NoID]
      /\ from' = [from EXCEPT ![s] = FALSE] /\ to' = [to EXCEPT ![s] = <<>>]
      /\ refs' = [refs EXCEPT ![s] = <<>>]
  BY DEF Ends, Goes, Reset
<1>2. at'[s] = "idle" /\ Others(s)
  BY <1>1 DEF Others, Inv, StateInv, HeldInv
<1>3. FilesHeld(blobs', at'[s], refs'[s], transaction'[s].message,
                transaction'[s].number)
  BY <1>2 DEF FilesHeld, Uploading
<1>. QED
  BY <1>2, <1>3, SessionFiles

\* A session that goes on with the message it has.
LEMMA OnFiles ==
  ASSUME Inv, HeldInv, FilesInv, Grown, NEW s \in Session,
         NEW p, at[s] # "idle", Goes(s, p), UNCHANGED <<transaction, from, to>>,
         \A t \in Session \ {s} : refs'[t] = refs[t] /\ created'[t] = created[t],
         FilesHeld(blobs', p, refs'[s], transaction[s].message, transaction[s].number)
  PROVE  FilesInv'
<1>1. at' = [at EXCEPT ![s] = p] /\ at'[s] = p
  BY DEF Goes, Inv, StateInv
<1>2. Others(s)
  BY <1>1 DEF Others, Inv, StateInv
<1>. QED
  BY <1>1, <1>2, SessionFiles

LEMMA EnvelopeFiles ==
  ASSUME Inv, HeldInv, FilesInv, NEW s \in Session, Mail(s) \/ Rcpt(s)
  PROVE  FilesInv'
<1>1. Others(s)
  BY DEF Mail, Rcpt, Goes, Others, Inv, StateInv, HeldInv
<1>2. at'[s] = "envelope" /\ refs'[s] = <<>>
  <2>1. CASE Mail(s)
    BY <2>1 DEF Mail, Goes, Inv, StateInv, HeldInv
  <2>2. CASE Rcpt(s)
    BY <2>2 DEF Rcpt, FilesInv, FilesHeld
  <2>. QED
    BY <2>1, <2>2
<1>3. FilesHeld(blobs', at'[s], refs'[s], transaction'[s].message,
                transaction'[s].number)
  BY <1>2 DEF FilesHeld, Uploading
<1>4. Grown
  BY DEF Grown, Mail, Rcpt, accountVars
<1>. QED
  BY <1>1, <1>3, <1>4, SessionFiles

LEMMA DataFiles ==
  ASSUME Inv, HeldInv, FilesInv, NEW s \in Session, Data(s) PROVE FilesInv'
<1>1. Grown
  BY DEF Grown, Data, accountVars
<1>2. CASE Ends(s)
  BY <1>1, <1>2, EndsFiles
<1>3. CASE Goes(s, "lookup") /\ UNCHANGED <<transaction, from, to, refs, created>>
  <2>1. at[s] = "envelope"
    BY DEF Data
  <2>2. refs'[s] = <<>>
    BY <1>3, <2>1 DEF FilesInv, FilesHeld
  <2>3. FilesHeld(blobs', "lookup", refs'[s], transaction[s].message,
                  transaction[s].number)
    BY <2>2 DEF FilesHeld, Uploading
  <2>. QED
    BY <1>1, <1>3, <2>1, <2>3, OnFiles
<1>. QED
  BY <1>2, <1>3 DEF Data, Fails

\* The files a message has.
LEMMA Listed ==
  ASSUME NEW m \in Message
  PROVE  /\ Len(AttachmentsOf(m)) \in Nat
         /\ AttachmentsOf(m) = <<>> <=> Len(AttachmentsOf(m)) = 0
<1>. DEFINE list == AttachmentsOf(m)
<1>1. list \in Seq(ToSet(list))
  BY AttachmentsAreFiles DEF AreFiles
<1>. HIDE DEF list
<1>2. Len(list) \in Nat /\ (list = <<>> <=> Len(list) = 0)
  BY <1>1
<1>. QED
  BY <1>2 DEF list

LEMMA LookupFiles ==
  ASSUME Inv, HeldInv, GivenInv, FilesInv, NEW s \in Session, LookupKeys(s)
  PROVE  FilesInv'
<1>. DEFINE m == transaction[s].message
            n == transaction[s].number
            p == IF FilesOf(s) = <<>> THEN "submit" ELSE "upload"
<1>1. Grown
  BY DEF Grown, LookupKeys, accountVars
<1>2. CASE Ends(s)
  BY <1>1, <1>2, EndsFiles
<1>3. CASE Goes(s, p) /\ UNCHANGED <<transaction, from, to, refs, created>>
  <2>1. at[s] = "lookup"
    BY DEF LookupKeys
  <2>2. refs'[s] = <<>>
    BY <1>3, <2>1 DEF FilesInv, FilesHeld
  <2>3. m \in Message /\ Parsed(transaction[s].message, to[s]) # {}
    BY <2>1 DEF Inv, CopiesInv, GivenInv, Addressing
  <2>4. FilesOf(s) = AttachmentsOf(m)
    BY <2>3, FilesOfMessage
  <2>5. FilesHeld(blobs', p, refs'[s], m, n)
    <3>. HIDE DEF m, n
    <3>1. /\ Len(AttachmentsOf(m)) \in Nat
          /\ AttachmentsOf(m) = <<>> <=> Len(AttachmentsOf(m)) = 0
      BY <2>3, Listed
    <3>2. <<>> \in Seq(ToSet(<<>>)) /\ Len(<<>>) = 0
      OBVIOUS
    <3>3. HoldsFiles(blobs', <<>>, m, n)
      BY <3>1, <3>2 DEF HoldsFiles
    <3>. QED
      BY <2>2, <2>4, <3>1, <3>2, <3>3 DEF FilesHeld
  <2>. QED
    BY <1>1, <1>3, <2>1, <2>5, OnFiles
<1>. QED
  BY <1>2, <1>3 DEF LookupKeys, Fails

LEMMA UploadFiles ==
  ASSUME Inv, HeldInv, GivenInv, FilesInv, NEW s \in Session, UploadAttachment(s)
  PROVE  FilesInv' /\ Grown
<1>. DEFINE m == transaction[s].message
            n == transaction[s].number
            file == FilesOf(s)[Len(refs[s]) + 1]
            ref == [blob |-> Len(blobs) + 1, name |-> file.name, type |-> file.type]
            p == IF Len(refs[s]) + 1 < Len(FilesOf(s)) THEN "upload" ELSE "submit"
            sealed == EncryptSymmetrically(FilesKey(s), file.data)
<1>1. \/ Ends(s) /\ UNCHANGED accountVars
      \/ /\ blobs' = Append(blobs, sealed)
         /\ \/ Ends(s)
            \/ /\ refs' = [refs EXCEPT ![s] = Append(@, ref)]
               /\ Goes(s, p) /\ UNCHANGED <<transaction, from, to, created>>
  BY DEF UploadAttachment, Fails
<1>2. Grown
  BY <1>1 DEF Grown, accountVars
<1>3. CASE Ends(s)
  BY <1>2, <1>3, EndsFiles
<1>4. CASE /\ blobs' = Append(blobs, sealed)
           /\ refs' = [refs EXCEPT ![s] = Append(@, ref)]
           /\ Goes(s, p) /\ UNCHANGED <<transaction, from, to, created>>
  <2>1. at[s] = "upload"
    BY DEF UploadAttachment
  <2>2. m \in Message /\ Parsed(transaction[s].message, to[s]) # {}
    BY <2>1 DEF Inv, CopiesInv, GivenInv, Addressing
  <2>3. FilesOf(s) = AttachmentsOf(m)
    BY <2>2, FilesOfMessage
  <2>4. /\ HoldsFiles(blobs, refs[s], m, n) /\ Len(refs[s]) < Len(AttachmentsOf(m))
        /\ blobs \in Seq(ToSet(blobs))
    BY <2>1 DEF FilesInv, FilesHeld, Uploading
  <2>5. refs'[s] = Append(refs[s], ref)
        /\ \A t \in Session \ {s} : refs'[t] = refs[t] /\ created'[t] = created[t]
    BY <1>4 DEF HeldInv
  <2>6. sealed = EncryptSymmetrically(<<"files", n>>, file.data)
    BY DEF FilesKey
  <2>7. ref.blob = Len(blobs) + 1 /\ ref.name = file.name /\ ref.type = file.type
    OBVIOUS
  <2>8. file = AttachmentsOf(m)[Len(refs[s]) + 1]
    BY <2>3
  <2>9. /\ HoldsFiles(blobs', refs'[s], m, n) /\ Len(refs'[s]) = Len(refs[s]) + 1
        /\ Len(AttachmentsOf(m)) \in Nat /\ Len(refs[s]) \in Nat
    <3>. DEFINE list == refs[s]
    <3>. HIDE DEF m, n, file, ref, list, sealed
    <3>0. /\ blobs \in Seq(ToSet(blobs)) /\ m \in Message
          /\ HoldsFiles(blobs, list, m, n) /\ Len(list) < Len(AttachmentsOf(m))
          /\ file = AttachmentsOf(m)[Len(list) + 1]
          /\ ref.blob = Len(blobs) + 1 /\ ref.name = file.name /\ ref.type = file.type
      BY <2>2, <2>4, <2>7, <2>8 DEF list
    <3>1. /\ HoldsFiles(Append(blobs, EncryptSymmetrically(<<"files", n>>, file.data)),
                        Append(list, ref), m, n)
          /\ Len(Append(list, ref)) = Len(list) + 1
      BY <3>0, MoreHeld
    <3>2. Len(AttachmentsOf(m)) \in Nat
      BY <2>2, Listed
    <3>3. list \in Seq(ToSet(list))
      BY <2>4 DEF HoldsFiles, list
    <3>4. Len(list) \in Nat
      BY <3>3
    <3>. QED
      BY <1>4, <2>5, <2>6, <3>1, <3>2, <3>4 DEF list
  <2>10. FilesHeld(blobs', p, refs'[s], m, n)
    <3>. HIDE DEF m, n
    <3>. QED
      BY <2>3, <2>4, <2>9 DEF FilesHeld, Uploading
  <2>. QED
    BY <1>2, <1>4, <2>1, <2>5, <2>10, OnFiles
<1>. QED
  BY <1>1, <1>2, <1>3, <1>4

\* What is submitted is filed whole.
LEMMA SubmitFiles ==
  ASSUME Inv, HeldInv, GivenInv, FilesInv, WholeInv, NEW s \in Session, Submit(s)
  PROVE  FilesInv' /\ WholeInv'
<1>1. at[s] = "submit" /\ setting' = setting /\ blobs' = blobs /\ drafts' = drafts /\ Grown
  BY DEF Submit, accountVars, Grown
<1>2. FilesInv'
  <2>1. CASE Ends(s)
    BY <1>1, <2>1, EndsFiles
  <2>2. CASE /\ created' = [created EXCEPT ![s] = Len(sent) + 1]
             /\ Goes(s, "remember") /\ UNCHANGED <<transaction, from, to, refs>>
    <3>1. \A t \in Session \ {s} : refs'[t] = refs[t] /\ created'[t] = created[t]
      BY <2>2 DEF Inv, StateInv
    <3>2. FilesHeld(blobs', "remember", refs'[s], transaction[s].message,
                    transaction[s].number)
      BY DEF FilesHeld, Uploading
    <3>. QED
      BY <1>1, <2>2, <3>1, <3>2, OnFiles
  <2>. QED
    BY <2>1, <2>2 DEF Submit, NotTaken, NoAnswer, Fails
<1>3. CASE sent' = sent
  BY <1>1, <1>2, <1>3, WholeStays
<1>4. CASE EnvelopeOf(s) # {} /\ sent' = Append(sent, FiledCopy(s))
  <2>. DEFINE copy == FiledCopy(s)
              m == transaction[s].message
              list == refs[s]
  <2>1. /\ setting \in Settings /\ to[s] \in Seq(Address)
        /\ to[s] = transaction[s].recipients
        /\ transaction[s].message \in Message
        /\ Parsed(transaction[s].message, to[s]) # {}
        /\ Sealed(transaction[s].message, to[s], setting) # {}
    BY <1>1 DEF HeldInv, GivenInv, Inv, CopiesInv, Addressing, Uploading
  <2>2. /\ ParseOutgoingMessage(MessageOf(s), to[s]) # {}
        /\ SealedRecipients(s) # {}
    BY <2>1 DEF SealedRecipients, Sealed, Parsed, OutgoingOf, MessageOf
  <2>3. /\ HoldsFiles(blobs, list, m, transaction[s].number)
        /\ Len(list) = Len(AttachmentsOf(m))
    BY <1>1 DEF FilesInv, FilesHeld, Uploading
  <2>4. refs[s] = <<>> <=> FilesOf(s) = <<>>
    <3>1. FilesOf(s) = AttachmentsOf(m)
      BY <2>1, FilesOfMessage
    <3>. HIDE DEF m, list
    <3>2. AttachmentsOf(m) = <<>> <=> Len(AttachmentsOf(m)) = 0
      BY <2>1, Listed DEF m
    <3>3. list = <<>> <=> Len(list) = 0
      <4>1. list \in Seq(ToSet(list))
        BY <2>3 DEF HoldsFiles
      <4>. QED
        BY <4>1
    <3>. QED
      BY <2>3, <3>1, <3>2, <3>3 DEF list
  <2>5. /\ copy.id = Len(sent) + 1 /\ copy.message = m /\ copy.files = list
        /\ copy.number = transaction[s].number /\ "number" \in DOMAIN copy
    BY DEF FiledCopy
  <2>6. setting.account.public # {} /\ OwnIsFirst(copy, setting)
          => OpensWith(copy, KeyOfFiles(copy), setting.account)
    BY <1>4, <2>1, <2>2, <2>4, FiledOpens
  <2>. HIDE DEF copy, m, list
  <2>7. FiledWhole(blobs, copy, setting)
    BY <2>3, <2>5, <2>6 DEF FiledWhole
  <2>8. /\ DOMAIN sent' = 1 .. Len(sent) + 1 /\ Len(sent) \in Nat
        /\ DOMAIN sent = 1 .. Len(sent)
        /\ \A i \in DOMAIN sent : sent'[i] = sent[i]
        /\ sent'[Len(sent) + 1] = copy
    <3>1. sent \in Seq(Copies)
      BY DEF Inv, StateInv
    <3>. DEFINE C == Copies
    <3>. HIDE DEF C
    <3>2. sent \in Seq(C)
      BY <3>1 DEF C
    <3>3. sent' = Append(sent, copy)
      BY <1>4 DEF copy
    <3>. QED
      BY <3>2, <3>3, AppendFacts
  <2>9. ASSUME NEW i \in DOMAIN sent'
        PROVE  /\ sent'[i].id = i /\ "number" \in DOMAIN sent'[i]
               /\ FiledWhole(blobs, sent'[i], setting)
    <3>1. CASE i \in DOMAIN sent
      BY <2>8, <3>1 DEF WholeInv
    <3>2. CASE i = Len(sent) + 1
      BY <2>5, <2>7, <2>8, <3>2
    <3>. QED
      BY <2>8, <3>1, <3>2
  <2>. QED
    BY <1>1, <1>2, <2>9 DEF WholeInv
<1>. QED
  BY <1>2, <1>3, <1>4 DEF Submit, CanCarryOut, accountVars

LEMMA Saved ==
  ASSUME WholeInv, NEW draft, SavedWhole(draft, setting), draft.id = Len(drafts) + 1,
         "number" \notin DOMAIN draft, drafts' = Append(drafts, draft),
         UNCHANGED <<setting, sent, blobs>>
  PROVE  WholeInv'
<1>1. /\ DOMAIN drafts' = 1 .. Len(drafts) + 1 /\ Len(drafts) \in Nat
      /\ DOMAIN drafts = 1 .. Len(drafts)
      /\ \A i \in DOMAIN drafts : drafts'[i] = drafts[i]
      /\ drafts'[Len(drafts) + 1] = draft
      /\ drafts' \in Seq(ToSet(drafts'))
  <2>1. drafts \in Seq(ToSet(drafts))
    BY DEF WholeInv
  <2>. QED
    BY <2>1, AppendFacts DEF ToSet
<1>2. ASSUME NEW i \in DOMAIN drafts'
      PROVE  /\ drafts'[i].id = i /\ "number" \notin DOMAIN drafts'[i]
             /\ SavedWhole(drafts'[i], setting)
  <2>1. CASE i \in DOMAIN drafts
    BY <1>1, <2>1 DEF WholeInv
  <2>2. CASE i = Len(drafts) + 1
    BY <1>1, <2>2
  <2>. QED
    BY <1>1, <2>1, <2>2
<1>. QED
  BY <1>1, <1>2 DEF WholeInv

\* What is saved opens for the account.
LEMMA DraftFiles ==
  ASSUME Inv, HeldInv, WholeInv, NEW m \in Message, AppendDraft(m)
  PROVE  WholeInv'
<1>1. PICK outgoing \in ParseOutgoingMessage(Composed[m], <<>>) :
        \E envelope \in SealDraft(outgoing, setting.account,
                                  <<"draft", appends>>, <<"no files", 0>>) :
          drafts' = Append(drafts, [id |-> Len(drafts) + 1, message |-> m,
                                    envelope |-> envelope, files |-> <<>>])
  BY DEF AppendDraft
<1>2. PICK envelope \in SealDraft(outgoing, setting.account,
                                  <<"draft", appends>>, <<"no files", 0>>) :
        drafts' = Append(drafts, [id |-> Len(drafts) + 1, message |-> m,
                                  envelope |-> envelope, files |-> <<>>])
  BY <1>1
<1>. DEFINE draft == [id |-> Len(drafts) + 1, message |-> m,
                      envelope |-> envelope, files |-> <<>>]
            key == <<"draft", appends>>
            filesKey == <<"no files", 0>>
<1>3. UNCHANGED <<setting, sent, blobs>> /\ setting \in Settings
      /\ setting.account.public # {}
  BY DEF AppendDraft, HeldInv
<1>4. /\ draft.id = Len(drafts) + 1 /\ draft.message = m
      /\ draft.envelope = envelope /\ draft.files = <<>>
      /\ "number" \notin DOMAIN draft
  OBVIOUS
<1>5. drafts' = Append(drafts, draft)
  BY <1>2
<1>6. draft.envelope \in BuildEnvelope(Written(draft), OwnRecipient(setting.account),
                                       key, filesKey)
  <2>1. outgoing.content = ReadBody(Composed[m])
    BY ParsedContent
  <2>2. Written(draft) = Body(outgoing.content)
    BY <1>4, <2>1 DEF Written
  <2>3. envelope \in BuildEnvelope(Body(outgoing.content),
                                   OwnRecipient(setting.account), key, filesKey)
    BY <1>2, Zenon DEF SealDraft
  <2>. HIDE DEF draft, key, filesKey
  <2>. QED
    BY <1>4, <2>2, <2>3
<1>. HIDE DEF draft, key
<1>7. SavedWhole(draft, setting)
  <2>1. OpensWith(draft, filesKey, setting.account)
    <3>. HIDE DEF filesKey
    <3>. QED
      BY <1>3, <1>6, DraftOpens
  <2>. QED
    BY <1>4, <2>1 DEF SavedWhole
<1>. QED
  BY <1>3, <1>4, <1>5, <1>7, Saved

LEMMA InitWhole == Init => FilesInv /\ WholeInv
<1>. SUFFICES ASSUME Init PROVE FilesInv /\ WholeInv
  OBVIOUS
<1>1. blobs = <<>> /\ drafts = <<>> /\ sent = <<>> /\ \A s \in Session : at[s] = "idle"
  BY DEF Init
<1>2. FilesInv
  BY <1>1 DEF FilesInv, FilesHeld, Uploading
<1>3. WholeInv
  BY <1>1 DEF WholeInv
<1>. QED
  BY <1>2, <1>3

LEMMA WholeKeeps ==
  Inv /\ HeldInv /\ GivenInv /\ FilesInv /\ WholeInv /\ [Next]_vars
    => FilesInv' /\ WholeInv'
<1>. SUFFICES ASSUME Inv, HeldInv, GivenInv, FilesInv, WholeInv, [Next]_vars
              PROVE  FilesInv' /\ WholeInv'
  OBVIOUS
<1>1. ASSUME UNCHANGED <<setting, accountVars>> PROVE Grown /\ WholeInv'
  BY <1>1, WholeStays DEF Grown, accountVars
<1>2. ASSUME UNCHANGED <<at, transaction, refs, blobs>> PROVE FilesInv'
  BY <1>2 DEF FilesInv
<1>3. ASSUME NEW s \in Session,
             Mail(s) \/ Rcpt(s) \/ Abandon(s) \/ Data(s) \/ Step(s)
      PROVE  FilesInv' /\ WholeInv'
  <2>1. CASE Mail(s) \/ Rcpt(s)
    BY <1>1, <2>1, EnvelopeFiles DEF Mail, Rcpt
  <2>2. CASE Abandon(s)
    BY <1>1, <2>2, EndsFiles DEF Abandon
  <2>3. CASE Data(s)
    BY <1>1, <2>3, DataFiles DEF Data
  <2>4. CASE LookupKeys(s)
    BY <1>1, <2>4, LookupFiles DEF LookupKeys
  <2>5. CASE UploadAttachment(s)
    <3>1. UNCHANGED <<setting, sent, drafts>>
      BY <2>5 DEF UploadAttachment, accountVars
    <3>. QED
      BY <2>5, <3>1, UploadFiles, WholeStays
  <2>6. CASE Submit(s)
    BY <2>6, SubmitFiles
  <2>7. CASE Remember(s)
    BY <1>1, <2>7, EndsFiles DEF Remember
  <2>. QED
    BY <1>3, <2>1, <2>2, <2>3, <2>4, <2>5, <2>6, <2>7 DEF Step
<1>4. ASSUME NEW m \in Message, AppendSent(m) PROVE FilesInv' /\ WholeInv'
  BY <1>1, <1>2, <1>4 DEF AppendSent, sessionVars, accountVars
<1>5. ASSUME NEW m \in Message, AppendDraft(m) PROVE FilesInv' /\ WholeInv'
  BY <1>2, <1>5, DraftFiles DEF AppendDraft, sessionVars
<1>6. CASE Restart
  <2>1. WholeInv' /\ blobs' = blobs
    BY <1>1, <1>6 DEF Restart, accountVars
  <2>2. \A s \in Session : at'[s] = "idle"
    BY <1>6 DEF Restart
  <2>3. FilesInv'
    BY <2>1, <2>2 DEF FilesInv, FilesHeld, Uploading
  <2>. QED
    BY <2>1, <2>3
<1>7. CASE UNCHANGED vars
  BY <1>1, <1>2, <1>7 DEF vars, sessionVars, accountVars
<1>. QED
  BY <1>3, <1>4, <1>5, <1>6, <1>7 DEF Next

-----------------------------------------------------------------------------
(* What is filed whole is read as it was written.                          *)

LEMMA OpensOwn ==
  ASSUME NEW copy, NEW key, NEW account, account.public # {},
         account.private = account.public, OpensWith(copy, key, account)
  PROVE  /\ Opened(copy, account) = {[Written(copy) EXCEPT !.filesKey = {key}]}
         /\ Reads(copy, Only(account.private), account.address)
         /\ PreviewOf(copy, account) = {Written(copy).preview}
<1>. DEFINE written == Written(copy)
            email == [written EXCEPT !.filesKey = {key}]
            pair == Only(account.private)
<1>1. /\ DecryptEnvelope(copy.envelope, pair, account.address) = {email}
      /\ DecryptPreview(copy.envelope, pair, account.address) = {email.preview}
  BY DEF OpensWith, OpensTo
<1>2. email.text = written.text /\ email.preview = written.preview
  BY DEF Written, Body
<1>. HIDE DEF email, written, pair
<1>3. Opened(copy, account) = {email} /\ PreviewOf(copy, account) = {email.preview}
  BY <1>1 DEF Opened, PreviewOf, Ready, pair
<1>4. Reads(copy, pair, account.address)
  BY <1>1, <1>2 DEF Reads, written
<1>. QED
  BY <1>2, <1>3, <1>4 DEF email, written, pair

\* What is read of a copy.
OpenedAs(copy) ==
  [text |-> Written(copy).preview, html |-> Written(copy).text,
   attachments |-> copy.files]

ServedAs(copy, key, stored, served) ==
  \E contents :
    /\ served = {BuildLiteral(OpenedAs(copy), contents)}
    /\ \A k \in DOMAIN copy.files :
         contents[k] = DecryptSymmetrically(key, stored[copy.files[k].blob])

LEMMA ServedIs ==
  ASSUME NEW thread, NEW id, NEW copy, RawEmail(thread, id) = {copy}, NEW key,
         NEW account, account.public # {}, account.private = account.public,
         OpensWith(copy, key, account), NEW stored
  PROVE  ServedAs(copy, key, stored, ResolveAttachments(thread, id, account, stored))
<1>. DEFINE written == Written(copy)
            email == [written EXCEPT !.filesKey = {key}]
            opened == OpenedAs(copy)
            contents == DownloadAttachments(copy, account, stored)
<1>1. /\ email.text = written.text /\ email.preview = written.preview
      /\ email.filesKey = {key}
  BY DEF Written, Body
<1>2. Opened(copy, account) = {email}
  BY OpensOwn
<1>3. opened = [text |-> email.preview, html |-> email.text, attachments |-> copy.files]
  BY <1>1 DEF OpenedAs
<1>. HIDE DEF written, email, opened, contents
<1>4. DecryptBody(copy, account) = {opened}
  BY <1>2, <1>3 DEF DecryptBody
<1>5. PickFromThread(thread, id, account) = {opened}
  BY <1>4 DEF PickFromThread
<1>6. ResolveAttachments(thread, id, account, stored) = {BuildLiteral(opened, contents)}
  BY <1>5 DEF ResolveAttachments, contents
<1>7. AttachmentsSessionKey(copy, account) = {key}
  BY <1>1, <1>2 DEF AttachmentsSessionKey
<1>8. \A k \in DOMAIN copy.files :
        contents[k] = DecryptSymmetrically(key, stored[copy.files[k].blob])
  BY <1>7 DEF DownloadAttachments, contents
<1>. QED
  BY <1>6, <1>8 DEF opened, ServedAs

\* An email is found by its number.
LEMMA FoundById ==
  ASSUME NEW thread, NEW i \in DOMAIN thread, i \in Nat,
         \A j \in DOMAIN thread : thread[j].id = j
  PROVE  RawEmail(thread, thread[i].id) = {thread[i]}
<1>1. thread[i].id = i /\ {j \in DOMAIN thread : thread[j].id = i} = {i}
  OBVIOUS
<1>2. Min({i}) = i
  <2>1. \A x : (x \in {i} /\ \A y \in {i} : x <= y) <=> x = i
    OBVIOUS
  <2>. QED
    BY <2>1 DEF Min
<1>. QED
  BY <1>1, <1>2 DEF RawEmail

\* A message served reads as it was written.
LEMMA TextServed ==
  ASSUME NEW copy, NEW again,
         again.text = Written(copy).preview, again.html = Written(copy).text
  PROVE  Body(again).text = Written(copy).text
<1>. DEFINE content == ReadBody(Composed[copy.message])
            written == Written(copy)
<1>1. /\ written.text = IF content.html # Empty THEN content.html ELSE content.text
      /\ written.preview = Snippet[IF content.text # Empty THEN content.text
                                   ELSE content.html]
  BY DEF Written, Body
<1>2. Snippet[Empty] = Empty
  BY SubmissionAssumption
<1>. HIDE DEF content, written
<1>3. written.text = Empty => written.preview = Empty
  BY <1>1, <1>2
<1>4. Body(again).text = IF again.html # Empty THEN again.html ELSE again.text
  BY DEF Body
<1>. QED
  BY <1>3, <1>4 DEF written

\* A copy is served with the text its client wrote, and with what its files open to.
ServedWhole(copy, key, stored, again) ==
  /\ Body(again).text = Written(copy).text
  /\ Len(again.attachments) = Len(copy.files)
  /\ \A k \in 1 .. Len(copy.files) :
       again.attachments[k]
         = FileOf(FilePart(copy.files[k],
                    DecryptSymmetrically(key, stored[copy.files[k].blob])))

LEMMA CopyRead ==
  ASSUME NEW thread, NEW id, NEW copy, RawEmail(thread, id) = {copy},
         NEW key, NEW account, NEW stored, account.public # {},
         account.private = account.public, OpensWith(copy, key, account),
         copy.files \in Seq(ToSet(copy.files)),
         \A k \in 1 .. Len(copy.files) : copy.files[k].name # Empty
  PROVE  ServedWhole(copy, key, stored,
                     ReadBody(Only(ResolveAttachments(thread, id, account, stored))))
<1>. DEFINE files == copy.files
            opened == OpenedAs(copy)
            served == ResolveAttachments(thread, id, account, stored)
            again == ReadBody(Only(served))
<1>1. PICK contents :
        /\ served = {BuildLiteral(opened, contents)}
        /\ \A k \in DOMAIN files :
             contents[k] = DecryptSymmetrically(key, stored[files[k].blob])
  <2>1. ServedAs(copy, key, stored, served)
    BY ServedIs
  <2>. QED
    BY <2>1 DEF ServedAs
<1>2. again = ReadBody(BuildLiteral(opened, contents))
  BY <1>1 DEF Only
<1>3. /\ opened.text = Written(copy).preview /\ opened.html = Written(copy).text
      /\ opened.attachments = files
  BY DEF OpenedAs
<1>. HIDE DEF opened, again, served
<1>4. /\ again.text = opened.text /\ again.html = opened.html
      /\ Len(again.attachments) = Len(files)
      /\ \A k \in 1 .. Len(files) :
           again.attachments[k] = FileOf(FilePart(files[k], contents[k]))
  BY <1>2, <1>3, ServedReads
<1>5. Body(again).text = Written(copy).text
  BY <1>3, <1>4, TextServed
<1>6. \A k \in 1 .. Len(files) : k \in DOMAIN files
  OBVIOUS
<1>. QED
  BY <1>1, <1>4, <1>5, <1>6 DEF again, served, ServedWhole

\* A file of some bytes is served as it was.
LEMMA FileServed ==
  ASSUME NEW stored, NEW ref, NEW file, IsFile(file), NEW number,
         Holds(stored, ref, file, number), file.data # Empty
  PROVE  FileOf(FilePart(ref, DecryptSymmetrically(<<"files", number>>,
                                                   stored[ref.blob]))) = file
<1>. DEFINE key == <<"files", number>>
            content == DecryptSymmetrically(key, stored[ref.blob])
            part == FilePart(ref, content)
<1>. HIDE DEF key
<1>1. /\ stored[ref.blob] = EncryptSymmetrically(key, file.data)
      /\ ref.name = file.name /\ ref.type = file.type
  BY DEF Holds, key
<1>2. content = {file.data}
  BY <1>1 DEF EncryptSymmetrically, DecryptSymmetrically
<1>. HIDE DEF content
<1>3. part.name = file.name /\ part.type = file.type /\ part.data = file.data
  <2>1. ~(content \subseteq {Empty}) /\ Only(content) = file.data
    BY <1>2 DEF Only
  <2>. QED
    BY <1>1, <2>1 DEF FilePart
<1>. HIDE DEF part
<1>4. AttachmentName(part) = file.name
  BY <1>3 DEF AttachmentName, IsFile
<1>5. FileOf(part) = [name |-> file.name, type |-> file.type, data |-> file.data]
  BY <1>3, <1>4 DEF FileOf
<1>. QED
  BY <1>5 DEF IsFile, part, content, key

\* A copy in Sent is served with its text and every file.
LEMMA FiledRead ==
  ASSUME NEW i \in DOMAIN sent, Inv, WholeInv,
         setting.account.public # {},
         setting.account.private = setting.account.public,
         OwnIsFirst(sent[i], setting)
  PROVE  LET copy  == sent[i]
             again == ReadBody(Served(sent, copy))
             files == ReadBody(Composed[copy.message]).attachments
         IN /\ Reads(copy, Only(setting.account.private), setting.account.address)
            /\ PreviewOf(copy, setting.account) = {Written(copy).preview}
            /\ Body(again).text = Written(copy).text
            /\ Len(again.attachments) = Len(files)
            /\ \A k \in DOMAIN files :
                 files[k].data # Empty => again.attachments[k] = files[k]
<1>. DEFINE copy == sent[i]
            m == copy.message
            files == AttachmentsOf(m)
            refs1 == copy.files
            account == setting.account
            key == KeyOfFiles(copy)
            again == ReadBody(Served(sent, copy))
<1>1. FiledWhole(blobs, copy, setting) /\ RawEmail(sent, copy.id) = {copy} /\ m \in Message
  <2>1. sent \in Seq(Copies)
    BY DEF Inv, StateInv
  <2>2. i \in Nat
    BY <2>1
  <2>3. \A j \in DOMAIN sent : sent[j].id = j
    BY DEF WholeInv
  <2>4. RawEmail(sent, sent[i].id) = {sent[i]}
    BY <2>2, <2>3, FoundById
  <2>. QED
    BY <2>4 DEF WholeInv, Inv, CopiesInv
<1>. HIDE DEF copy, m
<1>2. /\ HoldsFiles(blobs, refs1, m, copy.number) /\ Len(refs1) = Len(files)
      /\ OpensWith(copy, key, account)
  BY <1>1 DEF FiledWhole, m, copy
<1>3. AreFiles(files)
  BY <1>1, AttachmentsAreFiles
<1>. HIDE DEF files
<1>4. files \in Seq(ToSet(files)) /\ \A k \in 1 .. Len(files) : IsFile(files[k])
  BY <1>3 DEF AreFiles
<1>5. /\ refs1 \in Seq(ToSet(refs1))
      /\ \A k \in 1 .. Len(refs1) : Holds(blobs, refs1[k], files[k], copy.number)
  BY <1>2 DEF HoldsFiles, files
<1>6. \A k \in 1 .. Len(refs1) : refs1[k].name # Empty
  BY <1>2, <1>4, <1>5 DEF Holds, IsFile
<1>7. again = ReadBody(Only(ResolveAttachments(sent, copy.id, account, blobs)))
  BY DEF Served
<1>. HIDE DEF again, refs1, account, key
<1>8. /\ Reads(copy, Only(account.private), account.address)
      /\ PreviewOf(copy, account) = {Written(copy).preview}
  BY <1>2, OpensOwn DEF account
<1>9. /\ Body(again).text = Written(copy).text
      /\ Len(again.attachments) = Len(refs1)
      /\ \A k \in 1 .. Len(refs1) :
           again.attachments[k]
             = FileOf(FilePart(refs1[k], DecryptSymmetrically(key, blobs[refs1[k].blob])))
  <2>1. account.public # {} /\ account.private = account.public
    BY DEF account
  <2>. DEFINE id == copy.id
              thread == sent
  <2>2. RawEmail(thread, id) = {copy}
    BY <1>1
  <2>3. again = ReadBody(Only(ResolveAttachments(thread, id, account, blobs)))
    BY <1>7
  <2>. HIDE DEF id, thread
  <2>4. copy.files \in Seq(ToSet(copy.files))
        /\ \A k \in 1 .. Len(copy.files) : copy.files[k].name # Empty
    BY <1>5, <1>6 DEF refs1
  <2>5. ServedWhole(copy, key, blobs, again)
    BY <1>2, <2>1, <2>2, <2>3, <2>4, CopyRead
  <2>. QED
    BY <2>5 DEF ServedWhole, refs1
<1>10. ASSUME NEW k \in 1 .. Len(files), files[k].data # Empty
       PROVE  again.attachments[k] = files[k]
  <2>1. k \in 1 .. Len(refs1) /\ refs1 # <<>>
    BY <1>2, <1>4, <1>5
  <2>2. key = <<"files", copy.number>>
    BY <2>1 DEF key, KeyOfFiles, refs1
  <2>3. Holds(blobs, refs1[k], files[k], copy.number) /\ IsFile(files[k])
    BY <1>4, <1>5, <2>1
  <2>4. FileOf(FilePart(refs1[k], DecryptSymmetrically(<<"files", copy.number>>,
                                                       blobs[refs1[k].blob]))) = files[k]
    BY <1>10, <2>3, FileServed
  <2>. QED
    BY <1>9, <2>1, <2>2, <2>4
<1>11. DOMAIN files = 1 .. Len(files)
  BY <1>4
<1>12. /\ Len(again.attachments) = Len(files)
       /\ \A k \in DOMAIN files : files[k].data # Empty => again.attachments[k] = files[k]
  BY <1>2, <1>9, <1>10, <1>11
<1>. QED
  BY <1>8, <1>9, <1>12 DEF again, files, m, copy, account, AttachmentsOf

\* A draft is served with its text.
LEMMA DraftRead ==
  ASSUME NEW i \in DOMAIN drafts, Inv, WholeInv, setting.account.public # {},
         setting.account.private = setting.account.public
  PROVE  LET copy  == drafts[i]
             again == ReadBody(Served(drafts, copy))
         IN /\ Reads(copy, Only(setting.account.private), setting.account.address)
            /\ PreviewOf(copy, setting.account) = {Written(copy).preview}
            /\ Body(again).text = Written(copy).text
<1>. DEFINE copy == drafts[i]
            account == setting.account
            key == <<"no files", 0>>
            again == ReadBody(Served(drafts, copy))
<1>1. SavedWhole(copy, setting) /\ RawEmail(drafts, copy.id) = {copy}
  <2>1. drafts \in Seq(ToSet(drafts))
    BY DEF WholeInv
  <2>2. i \in Nat
    BY <2>1
  <2>3. \A j \in DOMAIN drafts : drafts[j].id = j
    BY DEF WholeInv
  <2>4. RawEmail(drafts, drafts[i].id) = {drafts[i]}
    BY <2>2, <2>3, FoundById
  <2>. QED
    BY <2>4 DEF WholeInv
<1>. HIDE DEF copy
<1>2. copy.files = <<>> /\ OpensWith(copy, key, account)
  BY <1>1 DEF SavedWhole
<1>3. again = ReadBody(Only(ResolveAttachments(drafts, copy.id, account, blobs)))
  BY DEF Served
<1>. HIDE DEF again, account, key
<1>4. account.public # {} /\ account.private = account.public
  BY DEF account
<1>5. /\ Reads(copy, Only(account.private), account.address)
      /\ PreviewOf(copy, account) = {Written(copy).preview}
  BY <1>2, <1>4, OpensOwn
<1>6. Body(again).text = Written(copy).text
  <2>. DEFINE id == copy.id
  <2>1. RawEmail(drafts, id) = {copy}
    BY <1>1
  <2>2. again = ReadBody(Only(ResolveAttachments(drafts, id, account, blobs)))
    BY <1>3
  <2>3. copy.files \in Seq(ToSet(copy.files)) /\ \A k \in 1 .. Len(copy.files) : copy.files[k].name # Empty
    BY <1>2
  <2>. HIDE DEF id
  <2>4. ServedWhole(copy, key, blobs, again)
    BY <1>2, <1>4, <2>1, <2>2, <2>3, CopyRead
  <2>. QED
    BY <2>4 DEF ServedWhole
<1>. QED
  BY <1>5, <1>6 DEF again, copy, account

\* The sender reads its own copy, of what it sent and of what it saved: the text, the
\* preview in a listing, and every file of some bytes, whatever was sent between and
\* whichever sessions uploaded at once; and what is served of it would be sent as it
\* was (decrypt.go:33-94, attachments.go:12-63 of mail/commands, mime.go:60-117
\* against outgoing.go:151-235).  The account's keys are the two halves of one pair.
THEOREM OwnCopyIsReadable ==
  ASSUME \A s \in Settings : s.account.public # {}
                               => s.account.private = s.account.public
  PROVE  Spec => []OwnCopyReadable
<1>1. ASSUME Inv, HeldInv, WholeInv PROVE OwnCopyReadable
  <2>. SUFFICES ASSUME setting.account.public # {} PROVE OwnCopyReadable
    BY DEF OwnCopyReadable
  <2>1. setting.account.private = setting.account.public
    BY <1>1 DEF HeldInv
  <2>. DEFINE Readable(thread, i) ==
         LET copy  == thread[i]
             own   == Lower[setting.account.address]
             again == ReadBody(Served(thread, copy))
         IN thread = drafts \/ own \notin Addressed(copy)
              \/ setting.keys[own] = setting.account.public =>
            /\ Reads(copy, Only(setting.account.private), setting.account.address)
            /\ PreviewOf(copy, setting.account) = {Written(copy).preview}
            /\ Body(again).text = Written(copy).text
            /\ thread = sent =>
                 LET files == ReadBody(Composed[copy.message]).attachments
                 IN /\ Len(again.attachments) = Len(files)
                    /\ \A k \in DOMAIN files :
                         files[k].data # Empty => again.attachments[k] = files[k]
  <2>2. ASSUME NEW i \in DOMAIN sent PROVE Readable(sent, i)
    <3>1. sent # drafts
      BY <1>1 DEF WholeInv
    <3>2. CASE OwnIsFirst(sent[i], setting)
      BY <1>1, <2>1, <3>2, FiledRead
    <3>3. CASE ~OwnIsFirst(sent[i], setting)
      BY <3>1, <3>3 DEF OwnIsFirst
    <3>. QED
      BY <3>2, <3>3
  <2>3. ASSUME NEW i \in DOMAIN drafts PROVE Readable(drafts, i)
    <3>1. sent # drafts
      BY <1>1 DEF WholeInv
    <3>. QED
      BY <1>1, <2>1, <3>1, DraftRead
  <2>. HIDE DEF Readable
  <2>4. \A thread \in {sent, drafts} : \A i \in DOMAIN thread : Readable(thread, i)
    BY <2>2, <2>3
  <2>. QED
    BY <2>4 DEF OwnCopyReadable, Readable
<1>2. Inv /\ HeldInv /\ WholeInv => OwnCopyReadable
  BY <1>1
<1>. QED
  BY InitKeeps, NextKeeps, InitHeld, HeldKeeps, InitWhole, WholeKeeps, <1>2, PTL DEF Spec

=============================================================================
