--------------------------- MODULE MCFolderListing ---------------------------
(* An instance of FolderListing: a folder of three emails, two to a page.   *)
EXTENDS FolderListing

CONSTANTS discard, send, old, mid, new, newest

MCEmails == <<new, mid, old>>
MCMethod == [c \in Call |-> IF c = discard THEN "DELETE" ELSE "POST"]

=============================================================================
