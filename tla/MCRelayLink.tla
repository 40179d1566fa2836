---------------------------- MODULE MCRelayLink ----------------------------
(* Three places for sockets: two that may be live, and one to go on with.  *)
EXTENDS RelayLink
=============================================================================
