------------------------------- MODULE ApiCall -------------------------------
(***************************************************************************)
(* What the rest of the bridge takes a call of the mail API to be: it is   *)
(* carried out at most once, it returns, and where it returns no error it  *)
(* was carried out.  An error says nothing of whether it was.              *)
(***************************************************************************)
CONSTANT Call

VARIABLES
  state,    \* of each call
  effect    \* whether the account has been changed, or read, by it

callVars == <<state, effect>>

Init ==
  /\ state = [c \in Call |-> "idle"]
  /\ effect = [c \in Call |-> FALSE]

Begin(c) ==
  /\ state[c] = "idle"
  /\ state' = [state EXCEPT ![c] = "pending"]
  /\ UNCHANGED effect

TakeEffect(c) ==
  /\ state[c] = "pending" /\ ~effect[c]
  /\ effect' = [effect EXCEPT ![c] = TRUE]
  /\ UNCHANGED state

Succeed(c) ==
  /\ state[c] = "pending" /\ effect[c]
  /\ state' = [state EXCEPT ![c] = "ok"]
  /\ UNCHANGED effect

Fail(c) ==
  /\ state[c] = "pending"
  /\ state' = [state EXCEPT ![c] = "error"]
  /\ UNCHANGED effect

Next == \E c \in Call : Begin(c) \/ TakeEffect(c) \/ Succeed(c) \/ Fail(c)

Spec == Init /\ [][Next]_callVars

=============================================================================
