-------------------------- MODULE MCNodeProtocols --------------------------
(***************************************************************************)
(* Instances of the two protocols of the guardian node API: attestation    *)
(* (PeerRegistry) and gossip.  They share no state, so a behaviour of this *)
(* module is a behaviour of one of them, chosen at the start, while the    *)
(* other keeps its initial state, in which none of its fair actions is     *)
(* enabled.                                                                *)
(*                                                                         *)
(* Gossip: three nodes, of which the registry lists one, 2.  Node 1, whose *)
(* clock is ahead by more than the tolerance, pulls from 2; 3 may restart. *)
(***************************************************************************)
EXTENDS MCPeerRegistry, Gossip

VARIABLE protocol   \* the protocol this behaviour is about

ProtocolsInit ==
    /\ protocol \in {"attestation", "gossip"} /\ Init /\ GossipInit
    /\ protocol = "attestation" => network = "reliable"

ProtocolsNext ==
    /\ UNCHANGED protocol
    /\ \/ protocol = "attestation" /\ Next /\ UNCHANGED gossipVars
       \/ protocol = "gossip" /\ GossipNext /\ UNCHANGED vars

ProtocolsSpec ==
    /\ ProtocolsInit /\ [][ProtocolsNext]_<<protocol, vars, gossipVars>>
    /\ CleanupFairness /\ GossipFairness

OnePulls == {<<1, 2>>}
OneAhead == [n \in Peers |-> IF n = 1 THEN 2 ELSE 0]
ThreeRestarts == [n \in Peers |-> IF n = 3 THEN 2 ELSE 1]
=============================================================================
