------------------------------ MODULE MCServer ------------------------------
(* Bounded instance of the server's way of a connection: the handshake     *)
(* (ServerHandshake) and its tokens (ReplayCache), a tunnel to one target  *)
(* (Relay), a UDP session (ServerUdp) and the limits both pay by           *)
(* (RateLimit), and the places and streams of QUIC (ServerQuic).  They are *)
(* checked side by side: a behaviour moves the one that focus names.       *)
EXTENDS ServerHandshake, ReplayCache, Relay, ServerUdp, RateLimit, ServerQuic, TLC

VARIABLE focus

CONSTANTS c1, c2, c3, one,             \* connections and their address
          k1, k2, k3, k4,              \* tokens
          j1, j2, j3                   \* blocks of one, two and three units

\* Addresses meet in nothing but the global counts: all connections come from one, with fewer
\* reflections for it than for all.
Addresses == [c \in Conn |-> one]
Timestamps == k1 :> 0 @@ k2 :> 0 @@ k3 :> 4 @@ k4 :> 10
Sizes == j1 :> 1 @@ j2 :> 2 @@ j3 :> 3

\* The connections are alike.
Symmetry == Permutations({c1, c2, c3})

\* Enough for a download to read two at once.
Records == [up |-> 1, dn |-> 2]

FirstFlow == CHOOSE f \in Flow : TRUE

-----------------------------------------------------------------------------
(* QUIC connections come from one address, and of each count there is one  *)
(* that is used up.                                                        *)

QuicAddresses == [c \in QuicConn |-> "address"]
QuicPlaceLimits == [handshake |-> 2, conn |-> 2, stream |-> 1]
QuicShareLimits == [handshake |-> 2, conn |-> 1, stream |-> 1]

-----------------------------------------------------------------------------
ServerInit ==
    /\ focus \in {"handshake", "token", "relay", "plain", "mux", "buckets", "limiter",
                 "quic", "stream"}
    /\ Init
    /\ ReplayInit /\ (focus # "token" => now = 0)
    /\ RelayInit /\ (focus # "relay" => asks = <<"tcp">> /\ kind = "ss")
    /\ ServerUdpInit /\ (focus # "mux" => sid = FirstFlow)
    /\ RateInit
    /\ GateInit /\ StreamInit

relayPart == <<relayVars, serverUdpVars, rateVars>>
quicPart == <<gateVars, streamVars>>
WayNext ==
    /\ UNCHANGED quicPart
    /\ \/ focus = "handshake" /\ Next /\ UNCHANGED <<replayVars, relayPart>>
       \/ focus = "token" /\ ReplayNext /\ UNCHANGED <<vars, relayPart>>
       \/ focus = "relay" /\ RelayNext /\ UNCHANGED <<vars, replayVars, serverUdpVars, rateVars>>
       \/ focus = "plain" /\ PlainNext /\ UNCHANGED <<vars, replayVars, relayVars, rateVars>>
       \/ focus = "mux" /\ MuxNext /\ UNCHANGED <<vars, replayVars, relayVars, rateVars>>
       \/ focus = "buckets" /\ BucketNext
          /\ UNCHANGED <<vars, replayVars, relayVars, serverUdpVars>>
       \/ focus = "limiter" /\ LimiterNext
          /\ UNCHANGED <<vars, replayVars, relayVars, serverUdpVars>>

QuicNext ==
    /\ UNCHANGED <<vars, replayVars, relayPart>>
    /\ \/ focus = "quic" /\ GateNext /\ UNCHANGED streamVars
       \/ focus = "stream" /\ StreamNext /\ UNCHANGED gateVars

ServerNext == UNCHANGED focus /\ (WayNext \/ QuicNext)
ServerSpec == ServerInit /\ [][ServerNext]_<<focus, vars, replayVars, relayPart, quicPart>>
=============================================================================
