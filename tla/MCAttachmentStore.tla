-------------------------- MODULE MCAttachmentStore --------------------------
(* Two messages of the account, one with attachments and one without, and  *)
(* one that a client appended.                                             *)
EXTENDS AttachmentStore, TLC

CONSTANTS letter, note, draft, x, y, r1, r2, r3

Files == [m \in Message |-> IF m = letter THEN Attachment
                            ELSE IF m = draft THEN {x} ELSE {}]

Sessions == Permutations(Reader)
=============================================================================
