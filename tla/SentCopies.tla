----------------------------- MODULE SentCopies -----------------------------
(***************************************************************************)
(* What the mail service remembers of the messages it sent (MailService in *)
(* internal/mail/mail.go): for each Message-ID a client stamped on one,    *)
(* the ID of the copy the backend filed in Sent.  A client appends its own *)
(* copy of the message to Sent straight after, and the Message-ID is all   *)
(* that the two have in common.                                            *)
(***************************************************************************)
EXTENDS Naturals, Sequences

CONSTANTS
  MessageID,
  NoMessageID,  \* a message without one
  Kept          \* sentCopiesKept

ASSUME SentCopiesAssumption ==
  /\ NoMessageID \notin MessageID
  /\ Kept \in Nat \ {0}

NoID == 0       \* the backend answered without an ID

VARIABLES
  sentCopies,   \* the ID filed under each Message-ID remembered
  sentOrder     \* the Message-IDs, the first remembered in front

sentVars == <<sentCopies, sentOrder>>

SentInit == sentCopies = <<>> /\ sentOrder = <<>>

Remembered == DOMAIN sentCopies

\* Bugs: a Message-ID known is listed again; the newest is put in front, where
\* the oldest are dropped.
OrderedAgain(m) == Append(sentOrder, m)
PutInFront(m) == IF m \in Remembered THEN sentOrder ELSE <<m>> \o sentOrder

OrderWith(m) == IF m \in Remembered THEN sentOrder ELSE Append(sentOrder, m)
Dropped(order) == IF Len(order) > Kept THEN Len(order) - Kept ELSE 0

\* rememberSentCopy.
RememberSentCopy(m, id) ==
  IF m = NoMessageID \/ id = NoID
  THEN UNCHANGED sentVars
  ELSE LET order == OrderWith(m)
           gone  == {order[i] : i \in 1 .. Dropped(order)}
       IN /\ sentOrder' = SubSeq(order, Dropped(order) + 1, Len(order))
          /\ sentCopies' = [x \in (Remembered \cup {m}) \ gone |->
                              IF x = m THEN id ELSE sentCopies[x]]

\* The service starts with an empty memory.
ForgetSentCopies == sentCopies' = <<>> /\ sentOrder' = <<>>

\* SentCopyID, NoID where it finds none.
SentCopyID(m) ==
  IF m # NoMessageID /\ m \in Remembered THEN sentCopies[m] ELSE NoID

-----------------------------------------------------------------------------
(* The memory by itself, under the sends of any number of sessions.        *)

SentNext ==
  \/ \E m \in MessageID \cup {NoMessageID}, id \in Nat : RememberSentCopy(m, id)
  \/ ForgetSentCopies

SentSpec == SentInit /\ [][SentNext]_sentVars

SentTypeOK ==
  /\ sentOrder \in Seq(MessageID)
  /\ Remembered \subseteq MessageID
  /\ sentCopies \in [Remembered -> Nat \ {NoID}]

\* The map and the order it is trimmed by name the same Message-IDs, each once,
\* and no more than are kept (mail.go:257-278): a Message-ID listed twice would
\* be dropped while it is the last one sent, one not listed never.
SentMemoryExact ==
  /\ Remembered = {sentOrder[i] : i \in DOMAIN sentOrder}
  /\ \A i, j \in DOMAIN sentOrder : sentOrder[i] = sentOrder[j] => i = j
  /\ Len(sentOrder) <= Kept

=============================================================================
