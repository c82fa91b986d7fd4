--------------------------- MODULE MCPeerRegistry ---------------------------
(* PeerRegistry with the symmetry TLC uses: requests, peers and resources  *)
(* are interchangeable.                                                    *)
EXTENDS PeerRegistry, TLC

Symmetry == Permutations(Calls) \cup Permutations(PeerIds)
              \cup Permutations(Resources)

=============================================================================
