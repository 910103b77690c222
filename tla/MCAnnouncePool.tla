--------------------------- MODULE MCAnnouncePool ---------------------------
(* Instances of AnnouncePool: two folders, one conversation in both.       *)
EXTENDS AnnouncePool

CONSTANTS a1, a2, a3, b1, b2, conv1, conv2

FolderOf(t) == IF t \in {a1, a2, a3} THEN 1 ELSE 2
Folders == [t \in Task |-> FolderOf(t)]
Conversations == [t \in Task |-> IF t \in {a1, b1} THEN conv1 ELSE conv2]

=============================================================================
