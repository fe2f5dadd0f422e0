------------------------------ MODULE HalfPipe ------------------------------
(***************************************************************************)
(* What one way of a forwarded connection promises, whoever forwards it:   *)
(* what is handed over is a beginning of what was sent, nothing follows    *)
(* the end that the receiver is shown, and a clean end is shown only when  *)
(* the sender ended cleanly and everything was handed over.  Only to a     *)
(* receiver that is deaf, one that has ended the connection itself, may    *)
(* anything be shown.                                                      *)
(***************************************************************************)
EXTENDS Integers

VARIABLES
  sent, fin,     \* how much was sent, and how the sender ended
  passed, seen,  \* how much was handed over, and the end that was shown
  deaf

pipeVars == <<sent, fin, passed, seen, deaf>>

Ends == {"clean", "broken"}

PipeInit ==
  /\ sent \in Nat /\ passed = 0 /\ fin = "open" /\ seen = "open" /\ deaf \in BOOLEAN

Whole == deaf \/ (fin = "clean" /\ passed = sent)

\* The parts move on their own: a step of what implements the pipe may move several.
Sends == sent' # sent => fin = "open" /\ sent' \in Nat /\ sent < sent'
Finishes == fin' # fin => fin = "open" /\ fin' \in Ends
Passes == passed' # passed => /\ seen = "open" /\ passed' \in Nat
                              /\ passed < passed' /\ passed' <= sent
Shows == seen' # seen => seen = "open" /\ seen' \in Ends /\ (seen' = "clean" => Whole')
Deafens == deaf' \in BOOLEAN /\ (deaf => deaf')

PipeNext == Sends /\ Finishes /\ Passes /\ Shows /\ Deafens
PipeSpec == PipeInit /\ [][PipeNext]_pipeVars
=============================================================================
