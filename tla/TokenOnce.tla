----------------------------- MODULE TokenOnce -----------------------------
(***************************************************************************)
(* What the server promises about session tokens: each is accepted at most *)
(* once, until the server forgets.  It forgets at a restart, and otherwise *)
(* only where its clock is no longer steady.                               *)
(***************************************************************************)
EXTENDS Naturals

CONSTANT Token

VARIABLES
  accepted,     \* how often each token was accepted since the server last forgot
  steady        \* the clock has never been set back far since the start

vars == <<accepted, steady>>

Only(t) == [u \in Token |-> IF u = t THEN 1 ELSE 0]
None == [u \in Token |-> 0]

Init == accepted = None /\ steady = TRUE

Accept(t) ==
  /\ accepted[t] = 0
  /\ accepted' = [accepted EXCEPT ![t] = 1]
  /\ UNCHANGED steady

SetBack == steady' = FALSE /\ UNCHANGED accepted

\* The server forgets on behalf of a token that it accepts.
Forget(t) == ~steady /\ accepted' = Only(t) /\ UNCHANGED steady

Restart == accepted' = None /\ steady' = TRUE

Next ==
  \/ \E t \in Token : Accept(t) \/ Forget(t)
  \/ SetBack \/ Restart

Spec == Init /\ [][Next]_vars
=============================================================================
