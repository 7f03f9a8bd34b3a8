---------------------------- MODULE TrustedPeers ----------------------------
(***************************************************************************)
(* The TrustedPeerRegistry of every node (bootstrap/src/trusted_peers.rs): *)
(* the node ids it trusts.  The registry lives in memory only, so a crash  *)
(* empties it.  An entry's addresses are a function of the node id and are *)
(* left out: get_raft_addresses, get_api_addr and get_raft_addr answer for *)
(* exactly the trusted ids.                                                *)
(***************************************************************************)
EXTENDS Naturals, FiniteSets

CONSTANTS
    Nodes,       \* node ids: the IPv4 address as a positive integer
    Attestable   \* pairs <<n, m>> such that m may pass attestation at n

ASSUME NodesAssumption == Nodes \subseteq Nat \ {0} /\ IsFiniteSet(Nodes)
ASSUME AttestableAssumption == Attestable \subseteq Nodes \X Nodes

VARIABLES
    trusted,     \* trusted[n]: keys of trusted_nodes at n
    attested     \* history: the pairs <<n, m>> for which n ever called mark_trusted(m)

trustVars == <<trusted, attested>>

TrustInit ==
    /\ trusted = [n \in Nodes |-> {}]
    /\ attested = {}

\* mark_trusted: an idempotent insert.
MarkTrusted(n, m) ==
    /\ trusted' = [trusted EXCEPT ![n] = @ \union {m}]
    /\ attested' = attested \union {<<n, m>>}

\* revoke_trust: remove the entry when there is one.
RevokeTrust(n, m) ==
    /\ m \in trusted[n]
    /\ trusted' = [trusted EXCEPT ![n] = @ \ {m}]
    /\ UNCHANGED attested

\* The process ends (or clear() runs): every entry is gone.
ForgetTrust(n) ==
    /\ trusted' = [trusted EXCEPT ![n] = {}]
    /\ UNCHANGED attested

TrustTypeOK ==
    /\ trusted \in [Nodes -> SUBSET Nodes]
    /\ attested \subseteq Nodes \X Nodes
=============================================================================
