----------------------------- MODULE Announcing -----------------------------
(***************************************************************************)
(* What downloading the new messages of one sync promises, however the     *)
(* bodies are fetched: every message the scan found is announced to Gluon  *)
(* exactly once or skipped, one folder after the other, and the download   *)
(* ends when nothing is left.                                              *)
(*                                                                         *)
(* MailSync relies on this, with announcements of one message.             *)
(***************************************************************************)
EXTENDS Naturals

CONSTANTS
  Task,     \* a message found new in a folder
  BoxOf     \* the number of a task's folder: folders are downloaded in order

VARIABLES
  new,      \* what the scan found
  told,     \* how often a message was announced over the updates channel
  skipped,  \* given up, the literal could not be parsed
  over      \* the download has ended

vars == <<new, told, skipped, over>>

Left == {t \in new \ skipped : told[t] = 0}

\* The tasks of the first folder that has any left.
Current == {t \in Left : \A u \in Left : BoxOf[t] <= BoxOf[u]}

Init ==
  /\ new \in SUBSET Task
  /\ told = [t \in Task |-> 0] /\ skipped = {} /\ over = FALSE

Announce ==
  \E B \in (SUBSET Current) \ {{}} :
    /\ told' = [t \in Task |-> IF t \in B THEN told[t] + 1 ELSE told[t]]
    /\ UNCHANGED <<new, skipped, over>>

Skip ==
  \E t \in Current :
    /\ skipped' = skipped \cup {t}
    /\ UNCHANGED <<new, told, over>>

End ==
  /\ Left = {} /\ ~over
  /\ over' = TRUE
  /\ UNCHANGED <<new, told, skipped>>

\* The folders could not be listed: nothing is found and nothing announced.
GiveUp ==
  /\ Left = new /\ ~over
  /\ over' = TRUE /\ new' = {}
  /\ UNCHANGED <<told, skipped>>

Next == Announce \/ Skip \/ End \/ GiveUp

SafeSpec == Init /\ [][Next]_vars

Spec == SafeSpec /\ WF_vars(Next)

=============================================================================
