---------------------------- MODULE MCPeerWorker ----------------------------
(* TLC instances of PeerWorker.                                            *)
EXTENDS PeerWorker
=============================================================================
