----------------------------- MODULE PipeChain ------------------------------
(***************************************************************************)
(* Two pipes in a row are a pipe: what the first hands over and shows is   *)
(* what the second sends on.  The client's way of a connection             *)
(* (ClientConn) and the server's (Relay) each implement a HalfPipe in      *)
(* either direction, so a connection through both does.                    *)
(***************************************************************************)
EXTENDS Integers, TLAPS

VARIABLES sent, fin, middle, shown, passed, seen, deafClient, deafServer

First == INSTANCE HalfPipe WITH passed <- middle, seen <- shown, deaf <- deafClient
Second == INSTANCE HalfPipe WITH sent <- middle, fin <- shown, deaf <- deafServer
Both == INSTANCE HalfPipe WITH deaf <- (deafClient \/ deafServer)

chainVars == <<sent, fin, middle, shown, passed, seen, deafClient, deafServer>>
ChainInit == First!PipeInit /\ Second!PipeInit
ChainNext == [First!PipeNext]_(First!pipeVars) /\ [Second!PipeNext]_(Second!pipeVars)
ChainSpec == ChainInit /\ [][ChainNext]_chainVars

-----------------------------------------------------------------------------

ChainTypes ==
  /\ sent \in Nat /\ middle \in Nat /\ passed \in Nat
  /\ {fin, shown, seen} \subseteq {"open", "clean", "broken"}
  /\ deafClient \in BOOLEAN /\ deafServer \in BOOLEAN

\* What arrived in the middle is a beginning of what was sent.
Beginning == passed <= middle /\ middle <= sent

\* A clean end in the middle is the sender's.
MiddleWhole == shown = "clean" => deafClient \/ (fin = "clean" /\ middle = sent)

ChainInv == ChainTypes /\ Beginning /\ MiddleWhole

\* A chain starts with nothing handed over and nothing shown.
LEMMA ChainStarts == ChainInit => ChainInv
  BY DEF ChainInit, ChainInv, ChainTypes, Beginning, MiddleWhole, First!PipeInit, Second!PipeInit

\* A sender that has ended sends no more, so what was whole in the middle stays whole.
LEMMA ChainKeeps == ChainInv /\ [ChainNext]_chainVars => ChainInv'
<1> SUFFICES ASSUME ChainInv, [ChainNext]_chainVars PROVE ChainInv'
  OBVIOUS
<1>1. CASE UNCHANGED chainVars
  BY <1>1 DEF chainVars, ChainInv, ChainTypes, Beginning, MiddleWhole
<1>2. CASE ChainNext
  <2>1. /\ sent' # sent => fin = "open" /\ sent' \in Nat /\ sent < sent'
        /\ fin' # fin => fin = "open" /\ fin' \in {"clean", "broken"}
        /\ middle' # middle =>
             shown = "open" /\ middle' \in Nat /\ middle < middle' /\ middle' <= sent
        /\ shown' # shown => /\ shown = "open" /\ shown' \in {"clean", "broken"}
                             /\ shown' = "clean" =>
                                  deafClient' \/ (fin' = "clean" /\ middle' = sent')
        /\ deafClient' \in BOOLEAN /\ (deafClient => deafClient')
    BY <1>2 DEF ChainNext, ChainInv, ChainTypes, First!PipeNext, First!pipeVars, First!Sends,
       First!Finishes, First!Passes, First!Shows, First!Deafens, First!Whole, First!Ends
  <2>2. /\ passed' # passed =>
             seen = "open" /\ passed' \in Nat /\ passed < passed' /\ passed' <= middle
        /\ seen' # seen => seen' \in {"clean", "broken"}
        /\ deafServer' \in BOOLEAN
    BY <1>2 DEF ChainNext, ChainInv, ChainTypes, Second!PipeNext, Second!pipeVars, Second!Sends,
       Second!Finishes, Second!Passes, Second!Shows, Second!Deafens, Second!Ends
  <2>3. ChainTypes'
    BY <2>1, <2>2 DEF ChainInv, ChainTypes
  <2>4. Beginning'
    BY <2>1, <2>2 DEF ChainInv, ChainTypes, Beginning
  <2>5. MiddleWhole'
    BY <2>1 DEF ChainInv, ChainTypes, MiddleWhole
  <2> QED BY <2>3, <2>4, <2>5 DEF ChainInv
<1> QED BY <1>1, <1>2

\* Whatever the two pipes do at once is a step of the pipe from end to end.
LEMMA ChainSteps ==
  ChainInv /\ ChainInv' /\ [ChainNext]_chainVars => [Both!PipeNext]_(Both!pipeVars)
<1> SUFFICES ASSUME ChainInv, ChainInv', ChainNext PROVE Both!PipeNext
  BY DEF chainVars, Both!pipeVars
<1>1. Both!Sends /\ Both!Finishes
  BY DEF ChainNext, First!PipeNext, First!pipeVars, First!Sends, First!Finishes, Both!Sends,
     Both!Finishes, First!Ends, Both!Ends
<1>2. Both!Passes
  BY DEF ChainNext, ChainInv, ChainTypes, Beginning, Second!PipeNext, Second!pipeVars,
     Second!Passes, Both!Passes
<1>3. Both!Shows
  <2>1. seen' # seen => /\ seen = "open" /\ seen' \in Both!Ends
                        /\ seen' = "clean" => deafServer' \/ (shown' = "clean" /\ passed' = middle')
    BY DEF ChainNext, Second!PipeNext, Second!pipeVars, Second!Shows, Second!Whole, Second!Ends,
       Both!Ends
  <2>2. shown' = "clean" => deafClient' \/ (fin' = "clean" /\ middle' = sent')
    BY DEF ChainInv, MiddleWhole
  <2> QED BY <2>1, <2>2 DEF Both!Shows, Both!Whole
<1>4. Both!Deafens
  BY DEF ChainNext, ChainInv, ChainTypes, First!PipeNext, First!pipeVars, First!Deafens,
     Second!PipeNext, Second!pipeVars, Second!Deafens, Both!Deafens
<1> QED BY <1>1, <1>2, <1>3, <1>4 DEF Both!PipeNext

\* Client and server in a row promise what each of them promises: an application is shown a
\* clean end only for a target that ended cleanly and all of whose data it has, and a target only
\* for such an application.
THEOREM ChainIsAPipe == ChainSpec => Both!PipeSpec
<1>1. ChainInit => Both!PipeInit
  BY DEF ChainInit, First!PipeInit, Second!PipeInit, Both!PipeInit
<1> QED BY <1>1, ChainStarts, ChainKeeps, ChainSteps, PTL DEF ChainSpec, Both!PipeSpec
=============================================================================
