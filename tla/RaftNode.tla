------------------------------ MODULE RaftNode ------------------------------
(***************************************************************************)
(* RaftNode (consensus/src/raft_node.rs), the trust-gated Router           *)
(* (network.rs), the Raft API (raft_api_server.rs) and the health endpoint *)
(* (guardian/src/api_server.rs).                                           *)
(*                                                                         *)
(* OpenRaft is a library: initialize, elections, replication and           *)
(* membership changes are modelled from how this code uses them.  A        *)
(* cluster is named after the node that initialised it; conf is its        *)
(* committed membership and leader its current leader.  Terms are left     *)
(* out: a cluster has at most one leader that can commit, and votes and    *)
(* logs are not exchanged between two clusters, which matters only after a *)
(* second initialize.  The Router's map of addresses is left out as well:  *)
(* add_node fills it, send_rpc takes the address from the membership and   *)
(* never reads it.                                                         *)
(***************************************************************************)
EXTENDS TrustedPeers

VARIABLES
    life,      \* life[n]: "down", "api" (servers up, raft_node still None) or "running"
    member,    \* member[n]: the cluster whose log n follows, or NoNode
    view,      \* view[n]: the membership in n's Raft metrics
    heard,     \* heard[n]: n's metrics name a current leader
    voted,     \* voted[n]: n's stored vote is no longer the default one
    conf,      \* conf[c]: the membership of cluster c
    leader     \* leader[c]: the leader of cluster c, or NoNode

raftVars == <<life, member, view, heard, voted, conf, leader>>

NoNode == 0
Config == [voters : SUBSET Nodes, learners : SUBSET Nodes]
NoConfig == [voters |-> {}, learners |-> {}]

RaftInit ==
    /\ life = [n \in Nodes |-> "api"]
    /\ member = [n \in Nodes |-> NoNode]
    /\ view = [n \in Nodes |-> NoConfig]
    /\ heard = [n \in Nodes |-> FALSE]
    /\ voted = [n \in Nodes |-> FALSE]
    /\ conf = [n \in Nodes |-> NoConfig]
    /\ leader = [n \in Nodes |-> NoNode]

RaftTypeOK ==
    /\ life \in [Nodes -> {"down", "api", "running"}]
    /\ member \in [Nodes -> Nodes \union {NoNode}]
    /\ view \in [Nodes -> Config]
    /\ heard \in [Nodes -> BOOLEAN]
    /\ voted \in [Nodes -> BOOLEAN]
    /\ conf \in [Nodes -> Config]
    /\ leader \in [Nodes -> Nodes \union {NoNode}]

-----------------------------------------------------------------------------
\* Queries of the node and of its health endpoint.

is_leader(n) == member[n] # NoNode /\ leader[member[n]] = n

get_node_state(n) ==
    IF n \in view[n].learners THEN "Learner"
    ELSE IF view[n] = NoConfig THEN "Bootstrapping"
    ELSE IF is_leader(n) THEN "Leader"
    ELSE IF heard[n] THEN "Follower" ELSE "Candidate"

\* Until main has created the RaftNode the endpoint answers as a fresh node.
health(n) ==
    [status        |-> IF life[n] = "running" THEN get_node_state(n) ELSE "Bootstrapping",
     cluster_size  |-> IF life[n] = "running" THEN Cardinality(view[n].voters) ELSE 0,
     trusted_peers |-> trusted[n]]

in_cluster(h) == h.cluster_size > 0

ready_for_bootstrap(h, min_peers) ==
    /\ h.cluster_size = 0
    /\ Cardinality(h.trusted_peers) >= min_peers
    /\ h.status = "Bootstrapping"

\* Mutant: whom the peer trusts, and how many, is not looked at.
is_mutually_ready_AnyTrust(h, our_node_id, min_peers) ==
    h.cluster_size = 0 /\ h.status = "Bootstrapping"

is_mutually_ready(h, our_node_id, min_peers) ==
    ready_for_bootstrap(h, min_peers) /\ our_node_id \in h.trusted_peers

\* send_rpc refuses an untrusted target; the target's handlers answer an error
\* until its raft_node is set.  A node reaches itself without an RPC.
RpcReaches(n, m) == n = m \/ (m \in trusted[n] /\ life[m] = "running")

Majority(S, V) == 2 * Cardinality(S \cap V) > Cardinality(V)

\* n leads its cluster and reaches a majority of the voters.
CanCommit(n) ==
    /\ is_leader(n)
    /\ Majority({m \in Nodes : RpcReaches(n, m)}, conf[member[n]].voters)

-----------------------------------------------------------------------------
\* Operations called by the coordinator.

\* OpenRaft accepts initialize only on a node with no log and no vote.
CanInitialize(n) == ~voted[n]

\* initialize_cluster: the peers and the node itself become the voters.
initialize_cluster(n, peers) ==
    LET c == [voters |-> peers \union {n}, learners |-> {}] IN
    /\ CanInitialize(n)
    /\ member' = [member EXCEPT ![n] = n]
    /\ view' = [view EXCEPT ![n] = c]
    /\ conf' = [conf EXCEPT ![n] = c]
    /\ voted' = [voted EXCEPT ![n] = TRUE]
    /\ UNCHANGED <<life, heard, leader>>

\* The leader commits membership c; its own metrics show it at once.
SetMembership(n, c) ==
    /\ CanCommit(n)
    /\ conf' = [conf EXCEPT ![member[n]] = c]
    /\ view' = [view EXCEPT ![n] = c]
    /\ UNCHANGED <<life, member, heard, voted, leader>>

\* First half of add_peer: add_learner.
add_learner(n, p) ==
    LET c == conf[member[n]] IN
    SetMembership(n, [c EXCEPT !.learners = @ \union ({p} \ c.voters)])

\* add_learner blocks until p has the log, or the node stops being leader.
LearnerWaitOver(n, p) ==
    ~is_leader(n) \/ (member[p] = member[n] /\ view[p] = conf[member[n]])

\* Mutants: the promotion is lost; the voters are only the two nodes involved.
change_membership_Lost(n, p) == SetMembership(n, conf[member[n]])
change_membership_Replaces(n, p) ==
    LET c == conf[member[n]] IN
    SetMembership(n, [voters |-> {n, p}, learners |-> c.learners \ {p}])

\* Second half of add_peer: change_membership(voters + p).
change_membership(n, p) ==
    LET c == conf[member[n]] IN
    SetMembership(n, [voters |-> c.voters \union {p}, learners |-> c.learners \ {p}])

-----------------------------------------------------------------------------
\* What OpenRaft does on its own, through the Router.

Forget(c, who) == [m \in Nodes |-> IF member[m] = c THEN m = who ELSE heard[m]]

IsCandidate(n) ==
    /\ life[n] = "running"
    /\ member[n] # NoNode
    /\ leader[member[n]] = NoNode
    /\ n \in view[n].voters

\* A candidate asks voter m; m stores a vote.
RequestVote(n, m) ==
    /\ IsCandidate(n)
    /\ m \in view[n].voters \ {n}
    /\ RpcReaches(n, m)
    /\ ~voted[m]
    /\ voted' = [voted EXCEPT ![m] = TRUE]
    /\ UNCHANGED <<life, member, view, heard, conf, leader>>

\* A candidate with the whole log and a majority behind it becomes leader.
Elect(n) ==
    LET c == member[n]
        electors == {m \in Nodes : /\ RpcReaches(n, m)
                                   /\ voted[m]
                                   /\ member[m] \in {NoNode, c}}
    IN
    /\ IsCandidate(n)
    /\ view[n] = conf[c]
    /\ Majority(electors, conf[c].voters)
    /\ leader' = [leader EXCEPT ![c] = n]
    /\ heard' = Forget(c, n)
    /\ UNCHANGED <<life, member, view, voted, conf>>

\* The leader's log and heartbeat reach member m.
Replicate(n, m) ==
    LET c == member[n] IN
    /\ life[n] = "running"
    /\ is_leader(n)
    /\ m # n
    /\ RpcReaches(n, m)
    /\ m \in conf[c].voters \union conf[c].learners
    /\ member[m] \in {NoNode, c}
    /\ view[m] # conf[c] \/ ~heard[m]
    /\ member' = [member EXCEPT ![m] = c]
    /\ view' = [view EXCEPT ![m] = conf[c]]
    /\ heard' = [heard EXCEPT ![m] = TRUE]
    /\ voted' = [voted EXCEPT ![m] = TRUE]
    /\ UNCHANGED <<life, conf, leader>>

\* The leader of cluster c steps down (partition, lost lease).
StepDown(c) ==
    /\ leader[c] # NoNode
    /\ leader' = [leader EXCEPT ![c] = NoNode]
    /\ heard' = Forget(c, NoNode)
    /\ UNCHANGED <<life, member, view, voted, conf>>

-----------------------------------------------------------------------------
\* Process life cycle.  Log, membership and vote are on disk and survive.

RaftCrash(n) ==
    /\ life[n] # "down"
    /\ life' = [life EXCEPT ![n] = "down"]
    /\ leader' = [c \in Nodes |-> IF leader[c] = n THEN NoNode ELSE leader[c]]
    /\ heard' = [m \in Nodes |->
                    heard[m] /\ m # n /\ ~(member[m] # NoNode /\ leader[member[m]] = n)]
    /\ UNCHANGED <<member, view, voted, conf>>

\* main starts the API servers ...
Restart(n) ==
    /\ life[n] = "down"
    /\ life' = [life EXCEPT ![n] = "api"]
    /\ UNCHANGED <<member, view, heard, voted, conf, leader>>

\* ... and, later, creates the RaftNode and publishes it to them.
StartRaft(n) ==
    /\ life[n] = "api"
    /\ life' = [life EXCEPT ![n] = "running"]
    /\ UNCHANGED <<member, view, heard, voted, conf, leader>>
=============================================================================
