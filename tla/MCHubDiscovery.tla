--------------------------- MODULE MCHubDiscovery ---------------------------
(* HubDiscovery with two hubs, one of them with a clock that is ahead, and *)
(* one auth peer whose clock is behind.                                    *)
EXTENDS HubDiscovery

CONSTANTS hub, edge, auth

MCNodes == {hub, edge, auth}
MCRole == [n \in MCNodes |-> CASE n = hub -> "hub" [] n = edge -> "edge_hub" [] OTHER -> "auth"]
MCSkew == [n \in MCNodes |-> CASE n = hub -> 0 [] n = edge -> 1 [] OTHER -> -1]
=============================================================================
