-------------------------- MODULE MCTunnelService --------------------------
(* Instances of TunnelService for TLC. *)
EXTENDS TunnelService, TLC

\* slots are interchangeable
Symmetry == Permutations(Threads)
=============================================================================
