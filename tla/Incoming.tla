------------------------------ MODULE Incoming ------------------------------
(***************************************************************************)
(* How an email of the account is opened (mail/commands/decrypt.go,        *)
(* getemail.go, attachments.go) and written as the message a mail client   *)
(* reads (mail/mime.go, mail/attachments.go).                              *)
(***************************************************************************)
EXTENDS Outgoing

Ready(account) == account.private # {}

\* What DecryptEnvelope gives the account, where it has the keys.
Opened(email, account) ==
  IF ~Ready(account) THEN {}
  ELSE DecryptEnvelope(email.envelope, Only(account.private), account.address)

\* decryptBody: the text replaces the envelope as HTML, the preview is the plain
\* text beside it.  An envelope that does not open is served as it is.
DecryptBody(email, account) ==
  {[text |-> opened.preview, html |-> opened.text, attachments |-> email.files] :
     opened \in Opened(email, account)}

\* decryptPreview.
PreviewOf(email, account) ==
  IF ~Ready(account) THEN {}
  ELSE DecryptPreview(email.envelope, Only(account.private), account.address)

\* rawEmail: the email asked for, or the only one there is.
RawEmail(thread, id) ==
  LET named == {i \in DOMAIN thread : thread[i].id = id}
  IN IF named # {} THEN {thread[Min(named)]}
     ELSE IF Len(thread) = 1 THEN {thread[1]} ELSE {}

PickFromThread(thread, id, account) ==
  UNION {DecryptBody(email, account) : email \in RawEmail(thread, id)}

AttachmentsSessionKey(email, account) ==
  UNION {opened.filesKey : opened \in Opened(email, account)}

\* DownloadAttachments, where every download succeeds: the content of each file
\* that opens, and none of the others.
DownloadAttachments(email, account, blobs) ==
  [i \in DOMAIN email.files |->
     UNION {DecryptSymmetrically(key, blobs[email.files[i].blob]) :
              key \in AttachmentsSessionKey(email, account)}]

TextPart(type, data) ==
  [type |-> type, name |-> Empty, disposition |-> "inline", data |-> data]

\* writeBody.
BodyParts(opened) ==
  CASE opened.html = Empty -> <<TextPart("text/plain", opened.text)>>
    [] opened.html # Empty /\ opened.text = Empty ->
         <<TextPart("text/html", opened.html)>>
    [] OTHER -> <<TextPart("text/plain", opened.text),
                  TextPart("text/html", opened.html)>>

Padding == "padding"

\* writeAttachmentPart: what is not there is padded to its size; so is a file of
\* no bytes, which the cipher opens as nil.
FilePart(file, content) ==
  [type |-> file.type, name |-> file.name, disposition |-> "attachment",
   data |-> IF content \subseteq {Empty} THEN Padding ELSE Only(content)]

\* BuildLiteralWithAttachments, and BuildLiteral without any.
BuildLiteral(opened, contents) ==
  LET parts == BodyParts(opened) \o
        [i \in DOMAIN opened.attachments |->
           FilePart(opened.attachments[i], contents[i])]
  IN [multipart |-> Len(parts) > 1, parts |-> parts]

\* The message as it is served to a client that opens it.
ResolveAttachments(thread, id, account, blobs) ==
  {BuildLiteral(opened, DownloadAttachments(email, account, blobs)) :
     email \in RawEmail(thread, id),
     opened \in PickFromThread(thread, id, account)}

=============================================================================
