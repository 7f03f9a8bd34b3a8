--------------------------- MODULE MCPeerRegistry ---------------------------
(***************************************************************************)
(* Instances of PeerRegistry: two instances and two namespaces, where one  *)
(* instance's measurement is listed in both and the other's in one.        *)
(***************************************************************************)
EXTENDS PeerRegistry

CONSTANTS a, b, guardian, other

SomeListed == {<<a, guardian>>, <<a, other>>, <<b, guardian>>}
AllListed == Instances \X Namespaces
=============================================================================
