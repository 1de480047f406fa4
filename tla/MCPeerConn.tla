---------------------------- MODULE MCPeerConn -----------------------------
(* Two connections for TLC: one the agent accepted and one it opened.      *)
EXTENDS PeerConn

=============================================================================
