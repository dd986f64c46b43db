-------------------------- MODULE MCPeerListener --------------------------
(* More connections than slots and queue places together can hold, one of  *)
(* them from a stranger; the service is stopped and started again.         *)
EXTENDS PeerListener
===========================================================================
