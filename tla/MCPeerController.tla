-------------------------- MODULE MCPeerController --------------------------
(***************************************************************************)
(* PeerController for TLC.  Peers are interchangeable, and so are the      *)
(* terminal commands.                                                      *)
(***************************************************************************)
EXTENDS PeerController, TLC

Symmetry == Permutations(Peers) \cup Permutations(Commands)

=============================================================================
