-------------------------- MODULE MCNetworkManager --------------------------
(* Model-checking instance of NetworkManager: two adapters, the first with *)
(* two receive buffers and the second with one, two kinds of frame, four   *)
(* frames per run.                                                         *)
EXTENDS NetworkManager

MCBuffers == {"b1", "b2", "b3"}
MCBufIface == [b \in MCBuffers |-> IF b = "b3" THEN 2 ELSE 1]
MCKinds == {"arp_req", "ipv4"}
=============================================================================
