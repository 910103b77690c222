----------------------------- MODULE Submission -----------------------------
(***************************************************************************)
(* The way of a message from a mail client to the account: the sessions of *)
(* the SMTP server (internal/smtpserver), MailService.SendEmail            *)
(* (mail/mail.go) with the requests it makes (mail/commands/sendemail.go), *)
(* and what the same client appends over IMAP, its own copy to Sent and    *)
(* what it is still writing to Drafts (mailconnector/mutations.go).  A     *)
(* request is what ApiCall says it is: it may be carried out although the  *)
(* bridge gets an error for an answer.                                     *)
(***************************************************************************)
EXTENDS Incoming, SentCopies

CONSTANTS
  Session,          \* connections of mail clients
  Message,
  Composed,         \* what each message is
  RecipientLists,   \* what a client gives as RCPT
  Settings,         \* the account, the server's key and the directory of keys
  Known,            \* the emails the account still has
  MaxSubmissions, MaxAppends, MaxRestarts

\* A key, or none.
Optional(keys) == {{}} \cup {{k} : k \in keys}

ASSUME SubmissionAssumption ==
  /\ RecipientLists \subseteq Seq(Address)
  /\ \A m \in Message :
       /\ Composed[m].messageID \in MessageID \cup {NoMessageID}
       /\ Composed[m].to \in Seq(Address) /\ Composed[m].cc \in Seq(Address)
       /\ Composed[m].parts \in Seq(ToSet(Composed[m].parts))
  /\ Snippet[Empty] = Empty
  /\ \A s \in Settings :
       /\ s.account.address \in Address
       /\ s.account.public \in Optional(KeyPair)
       /\ s.serverKey \in Optional(KeyPair)
       /\ s.keys \in [{Lower[a] : a \in Address} -> Optional(KeyPair)]
  /\ MaxSubmissions \in Nat /\ MaxAppends \in Nat /\ MaxRestarts \in Nat

VARIABLES
  setting,
  at, transaction,  \* where each session is, and what its client is sending
  from, to,         \* the envelope each session has recorded
  refs,             \* the files uploaded for the message in hand
  created,          \* the ID the account answered with
  blobs, sent, drafts,        \* what the account holds
  accepted, latest,           \* the submissions answered 250, and the last since
  appended,                   \* the copies in Sent that were accepted
  submissions, appends, restarts

sessionVars == <<at, transaction, from, to, refs, created>>
accountVars == <<blobs, sent, drafts>>
clientVars == <<accepted, latest, appended, submissions, appends, restarts>>
vars == <<setting, sessionVars, accountVars, clientVars, sentVars>>

NoTransaction == [message |-> "none", left |-> <<>>, recipients |-> <<>>,
                  number |-> 0]

Init ==
  /\ setting \in Settings
  /\ at = [s \in Session |-> "idle"]
  /\ transaction = [s \in Session |-> NoTransaction]
  /\ from = [s \in Session |-> FALSE] /\ to = [s \in Session |-> <<>>]
  /\ refs = [s \in Session |-> <<>>] /\ created = [s \in Session |-> NoID]
  /\ blobs = <<>> /\ sent = <<>> /\ drafts = <<>>
  /\ accepted = {} /\ latest = "none" /\ appended = {}
  /\ submissions = 0 /\ appends = 0 /\ restarts = 0
  /\ SentInit

-----------------------------------------------------------------------------
(* A session.                                                              *)

Goes(s, place) == at' = [at EXCEPT ![s] = place]

Mail(s) ==
  /\ at[s] = "idle" /\ submissions < MaxSubmissions
  /\ submissions' = submissions + 1
  /\ \E m \in Message, r \in RecipientLists :
       transaction' = [transaction EXCEPT ![s] =
         [message |-> m, left |-> r, recipients |-> r, number |-> submissions + 1]]
  /\ from' = [from EXCEPT ![s] = TRUE]
  /\ Goes(s, "envelope")
  /\ UNCHANGED <<setting, to, refs, created, accountVars, accepted, latest,
                 appended, appends, restarts, sentVars>>

Rcpt(s) ==
  /\ at[s] = "envelope" /\ transaction[s].left # <<>>
  /\ to' = [to EXCEPT ![s] = Append(@, Head(transaction[s].left))]
  /\ transaction' = [transaction EXCEPT ![s].left = Tail(@)]
  /\ UNCHANGED <<setting, at, from, refs, created, accountVars, clientVars,
                 sentVars>>

\* Bug: the recipients are left for the next message.
ResetSenderOnly(s) ==
  /\ from' = [from EXCEPT ![s] = FALSE]
  /\ UNCHANGED to

Reset(s) ==
  /\ from' = [from EXCEPT ![s] = FALSE]
  /\ to' = [to EXCEPT ![s] = <<>>]

\* Bug: the files of a message are left for the next.
EndsWithFiles(s) ==
  /\ Reset(s) /\ Goes(s, "idle")
  /\ transaction' = [transaction EXCEPT ![s] = NoTransaction]
  /\ created' = [created EXCEPT ![s] = NoID]
  /\ UNCHANGED refs

\* go-smtp resets the session after a message, at RSET, and with a new connection.
Ends(s) ==
  /\ Reset(s) /\ Goes(s, "idle")
  /\ transaction' = [transaction EXCEPT ![s] = NoTransaction]
  /\ refs' = [refs EXCEPT ![s] = <<>>] /\ created' = [created EXCEPT ![s] = NoID]

Abandon(s) ==
  /\ at[s] = "envelope" /\ Ends(s)
  /\ UNCHANGED <<setting, accountVars, clientVars, sentVars>>

\* Data answers with the error of any step.
Fails(s) == Ends(s) /\ UNCHANGED <<clientVars, sentVars>>

MessageOf(s) == Composed[transaction[s].message]
OutgoingOf(s) == Only(ParseOutgoingMessage(MessageOf(s), to[s]))
FilesOf(s) == OutgoingOf(s).content.attachments

Data(s) ==
  /\ at[s] = "envelope" /\ transaction[s].left = <<>>
  /\ IF ParseOutgoingMessage(MessageOf(s), to[s]) = {} THEN Fails(s)
     ELSE /\ Goes(s, "lookup")
          /\ UNCHANGED <<transaction, from, to, refs, created, clientVars, sentVars>>
  /\ UNCHANGED <<setting, accountVars>>

SealedRecipients(s) ==
  SealFor(AddressesOf(OutgoingOf(s)), setting.keys, setting.serverKey)

\* The directory is asked, and each recipient paired with a key.
LookupKeys(s) ==
  /\ at[s] = "lookup"
  /\ \/ Fails(s)
     \/ /\ AddressesOf(OutgoingOf(s)) # <<>> /\ SealedRecipients(s) # {}
        /\ Goes(s, IF FilesOf(s) = <<>> THEN "submit" ELSE "upload")
        /\ UNCHANGED <<transaction, from, to, refs, created, clientVars, sentVars>>
  /\ UNCHANGED <<setting, accountVars>>

\* The keys drawn for a message.
BodyKey(s) == <<"body", transaction[s].number>>
FilesKey(s) == <<"files", transaction[s].number>>
UnusedFilesKey(s) == <<"no files", transaction[s].number>>

\* One file after the other; a failure leaves those already uploaded there.
UploadAttachment(s) ==
  /\ at[s] = "upload"
  /\ LET file == FilesOf(s)[Len(refs[s]) + 1]
         blob == Len(blobs) + 1
         ref  == [blob |-> blob, name |-> file.name, type |-> file.type]
     IN \/ Fails(s) /\ UNCHANGED accountVars
        \/ /\ blobs' = Append(blobs, EncryptSymmetrically(FilesKey(s), file.data))
           /\ UNCHANGED <<sent, drafts>>
           /\ \/ Fails(s)
              \/ /\ refs' = [refs EXCEPT ![s] = Append(@, ref)]
                 /\ Goes(s, IF Len(refs[s]) + 1 < Len(FilesOf(s)) THEN "upload"
                            ELSE "submit")
                 /\ UNCHANGED <<transaction, from, to, created, clientVars,
                                sentVars>>
  /\ UNCHANGED setting

\* Bug: the key of the files is not sealed with the body.
KeyLeftOut(s) == Body(OutgoingOf(s).content)
BodyOf(s) ==
  IF FilesOf(s) = <<>> THEN Body(OutgoingOf(s).content)
  ELSE [Body(OutgoingOf(s).content) EXCEPT !.filesKey = {FilesKey(s)}]

RecipientsOf(s) ==
  Only(SealedRecipients(s)).recipients \o OwnRecipient(setting.account)

EnvelopeOf(s) ==
  BuildEnvelope(BodyOf(s), RecipientsOf(s), BodyKey(s), UnusedFilesKey(s))

\* send, or reply: an email the account no longer has cannot be replied to.
CanCarryOut(s) ==
  EnvelopeOf(s) # {} /\ OutgoingOf(s).replyTo \subseteq Known

\* What the account files in Sent.
FiledCopy(s) ==
  [id |-> Len(sent) + 1, message |-> transaction[s].message,
   number |-> transaction[s].number, recipients |-> transaction[s].recipients,
   envelope |-> Only(EnvelopeOf(s)), files |-> refs[s],
   mode |-> Only(SealedRecipients(s)).mode, replyTo |-> OutgoingOf(s).replyTo,
   to |-> OutgoingOf(s).to, cc |-> OutgoingOf(s).cc, bcc |-> OutgoingOf(s).bcc]

\* Bug: a submission without an answer is made again.
SubmitsAgain(s) ==
  Goes(s, "submit")
  /\ UNCHANGED <<transaction, from, to, refs, created, clientVars, sentVars>>

NoAnswer(s) == Fails(s)

\* Bug: a message that is not taken is sent again from the start.
StartsOver(s) ==
  /\ Goes(s, "lookup")
  /\ refs' = [refs EXCEPT ![s] = <<>>]
  /\ UNCHANGED <<transaction, from, to, created, clientVars, sentVars>>

NotTaken(s) == Fails(s)

Submit(s) ==
  /\ at[s] = "submit"
  /\ \/ NotTaken(s) /\ UNCHANGED accountVars
     \/ /\ CanCarryOut(s)
        /\ sent' = Append(sent, FiledCopy(s))
        /\ UNCHANGED <<blobs, drafts>>
        /\ \/ NoAnswer(s)
           \/ /\ created' = [created EXCEPT ![s] = Len(sent) + 1]
              /\ Goes(s, "remember")
              /\ UNCHANGED <<transaction, from, to, refs, clientVars, sentVars>>
  /\ UNCHANGED setting

\* Bug: the last copy in the account is taken for the one just sent.
LastInSent(s) == Len(sent)
CreatedID(s) == created[s]

\* The copy is remembered under the mutex, and the message answered with 250.
Remember(s) ==
  /\ at[s] = "remember"
  /\ RememberSentCopy(MessageOf(s).messageID, CreatedID(s))
  /\ accepted' = accepted \cup {transaction[s].number}
  /\ latest' = transaction[s].message
  /\ Ends(s)
  /\ UNCHANGED <<setting, accountVars, appended, submissions, appends, restarts>>

Step(s) ==
  \/ LookupKeys(s) \/ UploadAttachment(s) \/ Submit(s) \/ Remember(s)

-----------------------------------------------------------------------------
(* What the client appends over IMAP.                                      *)

\* sentCopy: refused unless the bridge sent the message.
AppendSent(m) ==
  /\ appends < MaxAppends
  /\ SentCopyID(Composed[m].messageID) # NoID
  /\ appends' = appends + 1
  /\ appended' = appended \cup
       {[message |-> m, id |-> SentCopyID(Composed[m].messageID)]}
  /\ UNCHANGED <<setting, sessionVars, accountVars, accepted, latest,
                 submissions, restarts, sentVars>>

\* A draft is stored, or the append refused; the client may be told it failed
\* although it is stored.
AppendDraft(m) ==
  /\ appends < MaxAppends
  /\ setting.account.public # {}
  /\ \E outgoing \in ParseOutgoingMessage(Composed[m], <<>>) :
       \E envelope \in SealDraft(outgoing, setting.account,
                                 <<"draft", appends>>, <<"no files", 0>>) :
         drafts' = Append(drafts, [id |-> Len(drafts) + 1, message |-> m,
                                   envelope |-> envelope, files |-> <<>>])
  /\ appends' = appends + 1
  /\ UNCHANGED <<setting, sessionVars, blobs, sent, accepted, latest, appended,
                 submissions, restarts, sentVars>>

\* The bridge stops at any moment: the sessions and what it remembered are gone.
Restart ==
  /\ restarts < MaxRestarts
  /\ restarts' = restarts + 1
  /\ at' = [s \in Session |-> "idle"]
  /\ transaction' = [s \in Session |-> NoTransaction]
  /\ from' = [s \in Session |-> FALSE] /\ to' = [s \in Session |-> <<>>]
  /\ refs' = [s \in Session |-> <<>>] /\ created' = [s \in Session |-> NoID]
  /\ ForgetSentCopies
  /\ latest' = "none"
  /\ UNCHANGED <<setting, accountVars, accepted, appended, submissions, appends>>

Next ==
  \/ \E s \in Session : Mail(s) \/ Rcpt(s) \/ Abandon(s) \/ Data(s) \/ Step(s)
  \/ \E m \in Message : AppendSent(m) \/ AppendDraft(m)
  \/ Restart

\* SendEmail runs to its end: nobody cancels its context, and every call of the
\* API returns (ApiRetry).
Spec == Init /\ [][Next]_vars /\ \A s \in Session : WF_vars(Step(s))

-----------------------------------------------------------------------------
(* Properties.                                                             *)

SubmissionTypeOK ==
  /\ setting \in Settings
  /\ at \in [Session -> {"idle", "envelope", "lookup", "upload", "submit",
                         "remember"}]
  /\ \A s \in Session :
       /\ at[s] = "idle" <=> transaction[s] = NoTransaction
       /\ at[s] = "idle" => ~from[s] /\ refs[s] = <<>> /\ created[s] = NoID
       /\ to[s] \in Seq(Address)
  /\ SentTypeOK

\* A submission files the message once at most, and one answered with 250 has
\* filed it: no retry, lost answer or concurrent session makes it two or none
\* (sendemail.go:43-107).
AcceptedIsFiledOnce ==
  /\ \A i, j \in DOMAIN sent : sent[i].number = sent[j].number => i = j
  /\ \A n \in accepted : \E i \in DOMAIN sent : sent[i].number = n

\* Whom a client addressed: in the header, or with RCPT in this transaction.
Addressed(copy) ==
  LET message == Composed[copy.message]
  IN {Lower[a] : a \in ToSet(message.to) \cup ToSet(message.cc)
                        \cup ToSet(copy.recipients)}

\* What a copy of the message is to read as.
Written(copy) == Body(ReadBody(Composed[copy.message]))
Reads(copy, pair, a) ==
  \E opened \in DecryptEnvelope(copy.envelope, pair, a) :
    opened.text = Written(copy).text /\ opened.preview = Written(copy).preview

\* A copy that goes to those its message was addressed to, under a setting.
GoesToAll(copy, under) ==
  LET Given(list) == {Lower[a] : a \in ToSet(list)}
      own  == Len(OwnRecipient(under.account))
      keys == copy.envelope.wrappedKeys
      named == [k \in 1 .. Len(keys) - own |-> Lower[keys[k].for]]
  IN /\ ToSet(named) = Addressed(copy)
     /\ Len(named) = Cardinality(ToSet(named))
     /\ Given(copy.to) \cup Given(copy.cc) \cup Given(copy.bcc)
          = Addressed(copy)
     /\ Given(copy.bcc) \cap (Given(copy.to) \cup Given(copy.cc)) = {}
     /\ \A a \in Addressed(copy) :
          \A pair \in IF under.keys[a] # {} THEN under.keys[a]
                     ELSE under.serverKey : Reads(copy, pair, a)
     /\ (copy.mode = "INTERNXT") <=>
          (\A a \in Addressed(copy) : under.keys[a] # {})

\* The message goes to everyone it was addressed to and to nobody else, once each:
\* to an address that has a key so that its owner reads it, to any other through
\* the server, and then as EXTERNAL (smtpserver.go:88-121, outgoing.go:104-143,
\* sendemail.go:199-216).  The bcc are those the header does not name.
EveryoneAddressed == \A i \in DOMAIN sent : GoesToAll(sent[i], setting)

\* What the account holds, as it is served.
Served(thread, copy) ==
  Only(ResolveAttachments(thread, copy.id, setting.account, blobs))

\* The sender reads its own copy: the text, the preview in a listing, and every
\* file (decrypt.go:33-94, attachments.go:12-63 of mail/commands); and what is
\* served of it reads as it did, were it sent or saved again (mime.go:60-117
\* against outgoing.go:151-235).  A file of no bytes is padded; and where the
\* directory has another key for the account than the account itself, a message
\* to oneself opens with neither.
OwnCopyReadable ==
  setting.account.public # {} =>
    \A thread \in {sent, drafts} : \A i \in DOMAIN thread :
      LET copy  == thread[i]
          own   == Lower[setting.account.address]
          again == ReadBody(Served(thread, copy))
      IN thread = drafts \/ own \notin Addressed(copy)
           \/ setting.keys[own] = setting.account.public =>
         /\ Reads(copy, Only(setting.account.private), setting.account.address)
         /\ PreviewOf(copy, setting.account) = {Written(copy).preview}
         /\ Body(again).text = Written(copy).text
         /\ thread = sent =>
              LET files == ReadBody(Composed[copy.message]).attachments
              IN /\ Len(again.attachments) = Len(files)
                 /\ \A k \in DOMAIN files :
                      files[k].data # Empty => again.attachments[k] = files[k]

\* A client's own copy is filed under a copy of that very message, so the two
\* never become one of another message (mail.go:240-278, mutations.go:141-150).
AppendNamesItsMessage ==
  \A copy \in appended :
    copy.id \in DOMAIN sent /\ sent[copy.id].message = copy.message

\* The last message answered with 250 can be appended to Sent, however many were
\* sent before it and by whom (mail.go:47-49, 257-278).
LastSendRemembered ==
  latest # "none" =>
    LET id == SentCopyID(Composed[latest].messageID)
    IN Composed[latest].messageID # NoMessageID =>
         id \in DOMAIN sent /\ sent[id].message = latest

\* A client that handed over a message gets an answer, whatever the account
\* answers to the requests it takes (smtpserver.go:99-116).
DataAnswered ==
  \A s \in Session : at[s] = "lookup" ~> at[s] = "idle"

-----------------------------------------------------------------------------
(* What a comment says, and the code does not do.                          *)

\* "readBody returns the bodies of a message and the files hanging off it"
\* (outgoing.go:145): every text of a message is in what is read of it.
EveryTextRead ==
  \A i \in DOMAIN sent :
    LET message == Composed[sent[i].message]
        content == ReadBody(message)
    IN \A k \in DOMAIN message.parts :
         LET part == message.parts[k]
         IN AttachmentName(part) = Empty /\ part.type = "text/plain"
              => content.text = part.data

=============================================================================
