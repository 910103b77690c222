---------------------------- MODULE MCMailSync ----------------------------
(* Model values for MailSync: messages, an inbox and a trash folder.        *)
EXTENDS MailSync, TLC

CONSTANTS m1, m2, m3, Inbox

OneFolder == {{mb} : mb \in Mailbox}

\* The runs give the messages no distinct role.
Symmetry == Permutations(Message \ Unparsable)
=============================================================================
