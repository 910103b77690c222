------------------------------ MODULE Outgoing ------------------------------
(***************************************************************************)
(* What the bridge makes of a message a mail client hands over             *)
(* (mail/outgoing.go) and how it is sealed before it is submitted          *)
(* (mail/commands/sendemail.go, savedraft.go).  A message is its header    *)
(* fields and its leaf parts in the order they are written: descending     *)
(* into a nested multipart reads the same leaves.                          *)
(***************************************************************************)
EXTENDS Envelope, SequencesExt

CONSTANT Snippet      \* a text, collapsed and cut to what a listing shows

Empty == ""

-----------------------------------------------------------------------------
(* Reading the message.                                                    *)

\* A file goes by the name of either header, or none, and is then "attachment".
AttachmentName(part) ==
  IF part.name = Empty /\ part.disposition = "attachment" THEN "attachment"
  ELSE part.name

NoContent == [text |-> Empty, html |-> Empty, attachments |-> <<>>]

\* A part with a name is a file; of several texts of a kind, the last stays; any
\* other part is left out.
ReadPart(content, part) ==
  CASE AttachmentName(part) # Empty ->
         [content EXCEPT !.attachments =
            Append(@, [name |-> AttachmentName(part), type |-> part.type,
                       data |-> part.data])]
    [] AttachmentName(part) = Empty /\ part.type = "text/plain" ->
         [content EXCEPT !.text = part.data]
    [] AttachmentName(part) = Empty /\ part.type = "text/html" ->
         [content EXCEPT !.html = part.data]
    [] OTHER -> content

\* A message of a single part is a body, whatever its type or name.
ReadBody(message) ==
  IF message.multipart
  THEN FoldLeft(ReadPart, NoContent, message.parts)
  ELSE IF message.parts[1].type = "text/html"
       THEN [NoContent EXCEPT !.html = message.parts[1].data]
       ELSE [NoContent EXCEPT !.text = message.parts[1].data]

Names(addresses, a) == \E i \in DOMAIN addresses : SameAddress(addresses[i], a)

BccFrom(to, cc, recipients) ==
  FoldLeft(LAMBDA list, a :
             IF Names(to, a) \/ Names(cc, a) THEN list ELSE Append(list, a),
           <<>>, recipients)

\* messageID and EmailIDFromMessageID.
MessageIDDomain == "bridge"
MessageIDOf(email) == <<email, MessageIDDomain>>
EmailIDFromMessageID(id) == IF id[2] = MessageIDDomain THEN {id[1]} ELSE {}

\* The last the header names, where it is an email the bridge served.
RepliedEmailID(inReplyTo) ==
  IF inReplyTo = <<>> THEN {} ELSE EmailIDFromMessageID(Last(inReplyTo))

\* A header, an address list, a part or its encoding may be malformed.
ParseOutgoingMessage(message, recipients) ==
  IF message.malformed THEN {}
  ELSE {[content |-> ReadBody(message),
         replyTo |-> RepliedEmailID(message.inReplyTo),
         to |-> message.to, cc |-> message.cc,
         bcc |-> BccFrom(message.to, message.cc, recipients)]}

-----------------------------------------------------------------------------
(* Sealing it.                                                             *)

UniqueAddresses(addresses) ==
  FoldLeft(LAMBDA list, a : IF Names(list, a) THEN list ELSE Append(list, a),
           <<>>, addresses)

AddressesOf(outgoing) ==
  UniqueAddresses(outgoing.to \o outgoing.cc \o outgoing.bcc)

KeyOf(keys, a) == keys[Lower[a]]

\* sealFor: an address without a key is sealed with the server's, if there is
\* one, which decrypts the message for its provider.
SealFor(addresses, keys, serverKey) ==
  LET KeyFor(a) == IF KeyOf(keys, a) # {} THEN KeyOf(keys, a) ELSE serverKey
  IN IF \E i \in DOMAIN addresses : KeyFor(addresses[i]) = {} THEN {}
     ELSE {[recipients |-> [i \in DOMAIN addresses |->
                              [address |-> addresses[i],
                               pair |-> Only(KeyFor(addresses[i]))]],
            mode |-> IF \A i \in DOMAIN addresses : KeyOf(keys, addresses[i]) # {}
                     THEN "INTERNXT" ELSE "EXTERNAL"]}

\* The sender reads the copy in Sent with a key of its own.
OwnRecipient(account) ==
  IF account.public = {} THEN <<>>
  ELSE <<[address |-> account.address, pair |-> Only(account.public)]>>

\* body: HTML where the client sent any; the preview is plain text where it can be.
Body(content) ==
  [text |-> IF content.html # Empty THEN content.html ELSE content.text,
   preview |-> Snippet[IF content.text # Empty THEN content.text
                       ELSE content.html],
   filesKey |-> {}]

\* SaveDraft: for the account alone, and the body alone.
SealDraft(outgoing, account, key, filesKey) ==
  BuildEnvelope(Body(outgoing.content), OwnRecipient(account), key, filesKey)

=============================================================================
