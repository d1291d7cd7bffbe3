------------------------------ MODULE MCSockets -----------------------------
(***************************************************************************)
(* The sockets of the WiFi module under four sketches in one run: a client *)
(* that connects again and again, the same where a connection takes a      *)
(* while to be made, a server on its own, and a UDP socket.  What fails    *)
(* when a sketch mixes them is told in README.md.                          *)
(***************************************************************************)
EXTENDS WifiSockets, WifiUdp

MCSettings ==
  {[uses |-> {"connect"}, slow |-> FALSE, sockets |-> 2, conns |-> 3, bytes |-> 3],
   [uses |-> {"connect"}, slow |-> TRUE,  sockets |-> 2, conns |-> 2, bytes |-> 3],
   [uses |-> {"server"},  slow |-> FALSE, sockets |-> 3, conns |-> 3, bytes |-> 2],
   [uses |-> {},          slow |-> FALSE, sockets |-> 1, conns |-> 0, bytes |-> 0]}

\* The last of them is the sketch of the UDP socket.
MCInit == Init /\ UdpInit
MCNext == \/ Uses # {} /\ Next /\ UNCHANGED udpVars
          \/ Uses = {} /\ UdpNext /\ UNCHANGED <<setting, vars>>

\* connected() goes on once it is called.
MCSpec == /\ MCInit /\ [][MCNext]_<<setting, vars, udpVars>>
          /\ WF_<<vars, udpVars>>(Running /\ UNCHANGED <<setting, udpVars>>)
=============================================================================
