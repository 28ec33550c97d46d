----------------------------- MODULE MCProxyPair -----------------------------
(***************************************************************************)
(* Instances of ProxyPair for TLC.                                         *)
(***************************************************************************)
EXTENDS ProxyPair

\* The client sends more than the buffers hold, the backend answers a little.
Upload == [s \in Sides |-> IF s = "client" THEN 5 ELSE 1]
=============================================================================
