---------------------------- MODULE Coordinator ----------------------------
(***************************************************************************)
(* RaftCoordinator (consensus/src/coordinator.rs): every node's bootstrap  *)
(* state machine over its TrustedPeerRegistry and its RaftNode.            *)
(*                                                                         *)
(* A handler that awaits is cut at its awaits: step[n] is the point inside *)
(* the handler of state[n].  One health query with the address lookups     *)
(* around it is one step; a loop over peers is one step per peer, in       *)
(* ascending node id, the order of the BTreeMap it walks.                  *)
(*                                                                         *)
(* Deadlines are counted in polls: timer[n] is the number of polls left    *)
(* before Instant::now() passes the deadline.                              *)
(***************************************************************************)
EXTENDS RaftNode, FiniteSetsExt

CONSTANTS
    BOOTSTRAP_QUORUM,          \* 3 in the code
    MIN_PEERS_FOR_BOOTSTRAP,   \* 2 in the code
    BootstrapPolls,            \* polls within BOOTSTRAP_WAIT_TIMEOUT
    MembershipPolls,           \* polls within MEMBERSHIP_WAIT_TIMEOUT
    LossyHealth,               \* may a health query to a live peer fail?
    MaxCrashes, MaxRestarts, MaxRevocations, MaxStepDowns   \* bounds on the environment

ASSUME QuorumAssumption ==
    /\ BOOTSTRAP_QUORUM \in Nat \ {0}
    /\ MIN_PEERS_FOR_BOOTSTRAP \in Nat
ASSUME PollsAssumption ==
    /\ BootstrapPolls \in Nat \ {0}
    /\ MembershipPolls \in Nat \ {0}
ASSUME EnvironmentAssumption ==
    /\ LossyHealth \in BOOLEAN
    /\ MaxCrashes \in Nat
    /\ MaxRestarts \in Nat
    /\ MaxRevocations \in Nat
    /\ MaxStepDowns \in Nat

VARIABLES
    state,        \* state[n]: CoordinatorState
    step,         \* step[n]: where the handler stands
    todo,         \* todo[n]: peers the handler's loop has still to visit
    ready,        \* ready[n]: ready_set under construction, then bootstrap_peers
    timer,        \* timer[n]: polls left before the deadline
    added_peers,  \* added_peers[n]
    inits,        \* history: the accepted initialize calls
    budget        \* faults the environment may still cause

coordVars == <<state, step, todo, ready, timer, added_peers, inits>>
vars == <<trustVars, raftVars, coordVars, budget>>

CoordinatorState ==
    {"WaitingForPeers", "CheckingCluster", "CoordinatingBootstrap", "Bootstrapping",
     "WaitingForBootstrap", "Joining", "ClusterActive"}

Step == {"begin", "scan", "collect", "initialize", "add", "catchup", "promote"}

\* One accepted initialize call.
InitCall == [node : Nodes, members : SUBSET Nodes]

CoordInit ==
    /\ state = [n \in Nodes |-> "WaitingForPeers"]
    /\ step = [n \in Nodes |-> "begin"]
    /\ todo = [n \in Nodes |-> {}]
    /\ ready = [n \in Nodes |-> {}]
    /\ timer = [n \in Nodes |-> 0]
    /\ added_peers = [n \in Nodes |-> {}]
    /\ inits = {}

BudgetInit ==
    budget = [crash |-> MaxCrashes, restart |-> MaxRestarts,
              revoke |-> MaxRevocations, stepDown |-> MaxStepDowns]

Init == TrustInit /\ RaftInit /\ CoordInit /\ BudgetInit

TypeOK ==
    /\ TrustTypeOK
    /\ RaftTypeOK
    /\ state \in [Nodes -> CoordinatorState]
    /\ step \in [Nodes -> Step]
    /\ todo \in [Nodes -> SUBSET Nodes]
    /\ ready \in [Nodes -> SUBSET Nodes]
    /\ timer \in [Nodes -> Nat]
    /\ added_peers \in [Nodes -> SUBSET Nodes]
    /\ inits \subseteq InitCall
    /\ budget \in [crash : Nat, restart : Nat, revoke : Nat, stepDown : Nat]

-----------------------------------------------------------------------------
\* At(n, s, p): the coordinator of n runs and stands at point p of the handler of s.
At(n, s, p) == life[n] = "running" /\ state[n] = s /\ step[n] = p

\* Polls before the deadline that comes with state s; 0 where there is none.
Deadline(s) ==
    IF s = "WaitingForBootstrap" THEN BootstrapPolls
    ELSE IF s = "Joining" THEN MembershipPolls ELSE 0

\* The handler returns next state s; a state with a deadline starts its timer.
Goto(n, s) ==
    /\ state' = [state EXCEPT ![n] = s]
    /\ step' = [step EXCEPT ![n] = "begin"]
    /\ timer' = [timer EXCEPT ![n] = Deadline(s)]
    /\ todo' = [todo EXCEPT ![n] = {}]
    /\ ready' = [ready EXCEPT ![n] = {}]

\* Mutant: the deadline is computed anew on every poll.
PollAgain_NewDeadline(n) ==
    /\ step' = [step EXCEPT ![n] = "begin"]
    /\ todo' = [todo EXCEPT ![n] = {}]
    /\ ready' = [ready EXCEPT ![n] = {}]
    /\ UNCHANGED <<state, timer>>

\* The handler sleeps and returns the state it was called in, deadline kept.
PollAgain(n) ==
    /\ step' = [step EXCEPT ![n] = "begin"]
    /\ timer' = [timer EXCEPT ![n] = @ - 1]
    /\ todo' = [todo EXCEPT ![n] = {}]
    /\ ready' = [ready EXCEPT ![n] = {}]
    /\ UNCHANGED state

\* Does p's answer reach n?  get_api_addr needs p in the registry.
QueryOutcomes(n, p) ==
    IF p \in trusted[n] /\ life[p] # "down"
    THEN {TRUE} \union (IF LossyHealth THEN {FALSE} ELSE {})
    ELSE {FALSE}

\* Start of build_mutual_ready_set.
BeginCollect(n) ==
    /\ step' = [step EXCEPT ![n] = "collect"]
    /\ todo' = [todo EXCEPT ![n] = trusted[n]]
    /\ ready' = [ready EXCEPT ![n] =
                    IF Cardinality(trusted[n]) >= MIN_PEERS_FOR_BOOTSTRAP THEN {n} ELSE {}]
    /\ UNCHANGED <<state, timer>>

-----------------------------------------------------------------------------
\* Mutant: more than the minimum is required.
handle_waiting_for_peers_Strict(n) ==
    /\ At(n, "WaitingForPeers", "begin")
    /\ Cardinality(trusted[n]) > MIN_PEERS_FOR_BOOTSTRAP
    /\ Goto(n, "CheckingCluster")
    /\ UNCHANGED <<trustVars, raftVars, added_peers, inits, budget>>

\* WAITING_FOR_PEERS.  Below the minimum the handler only sleeps.
handle_waiting_for_peers(n) ==
    /\ At(n, "WaitingForPeers", "begin")
    /\ Cardinality(trusted[n]) >= MIN_PEERS_FOR_BOOTSTRAP
    /\ Goto(n, "CheckingCluster")
    /\ UNCHANGED <<trustVars, raftVars, added_peers, inits, budget>>

\* Mutant: the deadline is not looked at.
BeginScan_NoDeadline(n) ==
    /\ \/ At(n, "CheckingCluster", "begin")
       \/ At(n, "WaitingForBootstrap", "begin")
    /\ step' = [step EXCEPT ![n] = "scan"]
    /\ todo' = [todo EXCEPT ![n] = trusted[n]]
    /\ UNCHANGED <<trustVars, raftVars, state, ready, timer, added_peers, inits, budget>>

\* CHECKING_CLUSTER and WAITING_FOR_BOOTSTRAP: list the trusted peers.
BeginScan(n) ==
    /\ \/ At(n, "CheckingCluster", "begin")
       \/ At(n, "WaitingForBootstrap", "begin") /\ timer[n] > 0
    /\ step' = [step EXCEPT ![n] = "scan"]
    /\ todo' = [todo EXCEPT ![n] = trusted[n]]
    /\ UNCHANGED <<trustVars, raftVars, state, ready, timer, added_peers, inits, budget>>

\* Does the answer h end the scan?  CHECKING_CLUSTER wants the leader itself.
ClusterFound(n, h) ==
    in_cluster(h) /\ (state[n] = "CheckingCluster" => h.status = "Leader")

\* Query the next peer; a hit ends the scan and the node waits to be added.
ScanPeer(n) ==
    /\ life[n] = "running" /\ step[n] = "scan" /\ todo[n] # {}
    /\ LET p == Min(todo[n]) IN
       \E answered \in QueryOutcomes(n, p) :
          IF answered /\ ClusterFound(n, health(p))
          THEN Goto(n, "Joining")
          ELSE /\ todo' = [todo EXCEPT ![n] = @ \ {p}]
               /\ UNCHANGED <<state, step, ready, timer>>
    /\ UNCHANGED <<trustVars, raftVars, added_peers, inits, budget>>

\* handle_checking_cluster: no leader among the trusted peers.
NoClusterFound(n) ==
    /\ At(n, "CheckingCluster", "scan") /\ todo[n] = {}
    /\ Goto(n, "CoordinatingBootstrap")
    /\ UNCHANGED <<trustVars, raftVars, added_peers, inits, budget>>

\* build_mutual_ready_set, called by three handlers.
BeginReadySet(n) ==
    /\ \/ At(n, "CoordinatingBootstrap", "begin")
       \/ At(n, "Bootstrapping", "begin")
       \/ At(n, "WaitingForBootstrap", "scan") /\ todo[n] = {}
    /\ BeginCollect(n)
    /\ UNCHANGED <<trustVars, raftVars, added_peers, inits, budget>>

CollectPeer(n) ==
    /\ life[n] = "running" /\ step[n] = "collect" /\ todo[n] # {}
    /\ LET p == Min(todo[n]) IN
       \E answered \in QueryOutcomes(n, p) :
          /\ todo' = [todo EXCEPT ![n] = @ \ {p}]
          /\ ready' = [ready EXCEPT ![n] =
                IF answered /\ is_mutually_ready(health(p), n, MIN_PEERS_FOR_BOOTSTRAP)
                THEN @ \union {p} ELSE @]
    /\ UNCHANGED <<trustVars, raftVars, state, step, timer, added_peers, inits, budget>>

\* Mutants: the quorum does not count the node itself; the lowest node is not
\* asked for; the lowest node is sought among the trusted ones, ready or not.
HasQuorum_OffByOne(n) == Cardinality(ready[n]) >= BOOTSTRAP_QUORUM - 1
IsLowest_Unchecked(n) == ready[n] # {}
IsLowest_AmongTrusted(n) == Min(trusted[n] \union {n}) = n

HasQuorum(n) == Cardinality(ready[n]) >= BOOTSTRAP_QUORUM
IsLowest(n) == ready[n] # {} /\ Min(ready[n]) = n

\* End of handle_coordinating_bootstrap.
handle_coordinating_bootstrap(n) ==
    /\ At(n, "CoordinatingBootstrap", "collect") /\ todo[n] = {}
    /\ Goto(n, IF ~HasQuorum(n) THEN "CoordinatingBootstrap"
               ELSE IF IsLowest(n) THEN "Bootstrapping" ELSE "WaitingForBootstrap")
    /\ UNCHANGED <<trustVars, raftVars, added_peers, inits, budget>>

\* End of handle_waiting_for_bootstrap: take over, or poll again.
handle_waiting_for_bootstrap(n) ==
    /\ At(n, "WaitingForBootstrap", "collect") /\ todo[n] = {}
    /\ IF HasQuorum(n) /\ IsLowest(n) THEN Goto(n, "Bootstrapping") ELSE PollAgain(n)
    /\ UNCHANGED <<trustVars, raftVars, added_peers, inits, budget>>

BootstrapWaitTimeout(n) ==
    /\ At(n, "WaitingForBootstrap", "begin") /\ timer[n] = 0
    /\ Goto(n, "CoordinatingBootstrap")
    /\ UNCHANGED <<trustVars, raftVars, added_peers, inits, budget>>

\* handle_bootstrapping after the second scan: defer, or fix the peer addresses.
handle_bootstrapping(n) ==
    /\ At(n, "Bootstrapping", "collect") /\ todo[n] = {}
    /\ IF HasQuorum(n) /\ IsLowest(n)
       THEN /\ ready' = [ready EXCEPT ![n] = @ \cap trusted[n]]
            /\ step' = [step EXCEPT ![n] = "initialize"]
            /\ UNCHANGED <<state, todo, timer>>
       ELSE Goto(n, IF HasQuorum(n) THEN "WaitingForBootstrap" ELSE "CoordinatingBootstrap")
    /\ UNCHANGED <<trustVars, raftVars, added_peers, inits, budget>>

BootstrapSucceeds(n) ==
    /\ At(n, "Bootstrapping", "initialize")
    /\ initialize_cluster(n, ready[n])
    /\ inits' = inits \union {[node |-> n, members |-> ready[n] \union {n}]}
    /\ Goto(n, "ClusterActive")
    /\ UNCHANGED <<trustVars, added_peers, budget>>

BootstrapFails(n) ==
    /\ At(n, "Bootstrapping", "initialize")
    /\ ~CanInitialize(n)
    /\ Goto(n, "CoordinatingBootstrap")
    /\ UNCHANGED <<trustVars, raftVars, added_peers, inits, budget>>

-----------------------------------------------------------------------------
\* Mutant: a learner counts as joined.
Joined_Learner(n) == get_node_state(n) # "Bootstrapping"

\* The node's own status says it is in a cluster, and not as a learner.
Joined(n) == get_node_state(n) \in {"Follower", "Candidate", "Leader"}

\* JOINING: time out, notice the promotion to voter, or poll again.
handle_joining(n) ==
    /\ At(n, "Joining", "begin")
    /\ IF timer[n] = 0 THEN Goto(n, "WaitingForPeers")
       ELSE IF Joined(n) THEN Goto(n, "ClusterActive")
       ELSE PollAgain(n)
    /\ UNCHANGED <<trustVars, raftVars, added_peers, inits, budget>>

\* Mutant: the registry is not consulted.
NewPeers_Untrusted(n) ==
    Nodes \ (view[n].voters \union view[n].learners \union added_peers[n])

\* Trusted peers that are not members and that this coordinator has not added.
NewPeers(n) ==
    trusted[n] \ (view[n].voters \union view[n].learners \union added_peers[n])

\* CLUSTER_ACTIVE: the leader lists the peers to add; anyone else only sleeps.
BeginAddPeers(n) ==
    /\ At(n, "ClusterActive", "begin")
    /\ is_leader(n)
    /\ NewPeers(n) # {}
    /\ todo' = [todo EXCEPT ![n] = NewPeers(n)]
    /\ step' = [step EXCEPT ![n] = "add"]
    /\ UNCHANGED <<trustVars, raftVars, state, ready, timer, added_peers, inits, budget>>

\* The loop over new peers moves on, and ends after the last one.
NextPeer(n) ==
    LET rest == todo[n] \ {Min(todo[n])} IN
    /\ todo' = [todo EXCEPT ![n] = rest]
    /\ step' = [step EXCEPT ![n] = IF rest = {} THEN "begin" ELSE "add"]
    /\ UNCHANGED <<state, ready, timer>>

\* add_peer: add_learner commits.
AddLearner(n) ==
    /\ At(n, "ClusterActive", "add")
    /\ add_learner(n, Min(todo[n]))
    /\ step' = [step EXCEPT ![n] = "catchup"]
    /\ UNCHANGED <<trustVars, state, todo, ready, timer, added_peers, inits, budget>>

\* add_peer: add_learner(.., blocking = true) returns.
LearnerCaughtUp(n) ==
    /\ At(n, "ClusterActive", "catchup")
    /\ LearnerWaitOver(n, Min(todo[n]))
    /\ step' = [step EXCEPT ![n] = "promote"]
    /\ UNCHANGED <<trustVars, raftVars, state, todo, ready, timer, added_peers, inits, budget>>

\* add_peer: change_membership commits and the coordinator notes the peer.
PromoteLearner(n) ==
    /\ At(n, "ClusterActive", "promote")
    /\ change_membership(n, Min(todo[n]))
    /\ added_peers' = [added_peers EXCEPT ![n] = @ \union {Min(todo[n])}]
    /\ NextPeer(n)
    /\ UNCHANGED <<trustVars, inits, budget>>

\* add_peer: either call answers ForwardToLeader; the error is logged.
AddPeerFails(n) ==
    /\ At(n, "ClusterActive", "add") \/ At(n, "ClusterActive", "promote")
    /\ ~is_leader(n)
    /\ NextPeer(n)
    /\ UNCHANGED <<trustVars, raftVars, added_peers, inits, budget>>

-----------------------------------------------------------------------------
\* The environment: attestation, Raft itself, faults.

Attest(n, m) ==
    /\ <<n, m>> \in Attestable
    /\ m \notin trusted[n]
    /\ life[n] # "down"
    /\ MarkTrusted(n, m)
    /\ UNCHANGED <<raftVars, coordVars, budget>>

Revoke(n, m) ==
    /\ budget.revoke > 0
    /\ RevokeTrust(n, m)
    /\ budget' = [budget EXCEPT !.revoke = @ - 1]
    /\ UNCHANGED <<raftVars, coordVars>>

LeaderStepsDown(c) ==
    /\ budget.stepDown > 0
    /\ StepDown(c)
    /\ budget' = [budget EXCEPT !.stepDown = @ - 1]
    /\ UNCHANGED <<trustVars, coordVars>>

\* The process dies: registry and coordinator are gone, Raft storage stays.
Crash(n) ==
    /\ budget.crash > 0
    /\ RaftCrash(n)
    /\ ForgetTrust(n)
    /\ Goto(n, "WaitingForPeers")
    /\ added_peers' = [added_peers EXCEPT ![n] = {}]
    /\ budget' = [budget EXCEPT !.crash = @ - 1]
    /\ UNCHANGED inits

CoordinatorStep(n) ==
    \/ handle_waiting_for_peers(n)
    \/ BeginScan(n)
    \/ ScanPeer(n)
    \/ NoClusterFound(n)
    \/ BeginReadySet(n)
    \/ CollectPeer(n)
    \/ handle_coordinating_bootstrap(n)
    \/ handle_waiting_for_bootstrap(n)
    \/ BootstrapWaitTimeout(n)
    \/ handle_bootstrapping(n)
    \/ BootstrapSucceeds(n)
    \/ BootstrapFails(n)
    \/ handle_joining(n)
    \/ BeginAddPeers(n)
    \/ AddLearner(n)
    \/ LearnerCaughtUp(n)
    \/ PromoteLearner(n)
    \/ AddPeerFails(n)

RaftStep ==
    /\ \/ \E n, m \in Nodes : RequestVote(n, m)
       \/ \E n \in Nodes : Elect(n)
       \/ \E n, m \in Nodes : Replicate(n, m)
    /\ UNCHANGED <<trustVars, coordVars, budget>>

\* An operator starts the process again.
Relaunch(n) ==
    /\ budget.restart > 0
    /\ Restart(n)
    /\ budget' = [budget EXCEPT !.restart = @ - 1]
    /\ UNCHANGED <<trustVars, coordVars>>

\* main reaches RaftNode::new and starts the coordinator.
Launch(n) == StartRaft(n) /\ UNCHANGED <<trustVars, coordVars, budget>>

Next ==
    \/ \E n \in Nodes : CoordinatorStep(n)
    \/ RaftStep
    \/ \E n \in Nodes : Launch(n)
    \/ \E n \in Nodes : Relaunch(n)
    \/ \E n, m \in Nodes : Attest(n, m)
    \/ \E n, m \in Nodes : Revoke(n, m)
    \/ \E c \in Nodes : LeaderStepsDown(c)
    \/ \E n \in Nodes : Crash(n)

Spec == Init /\ [][Next]_vars

-----------------------------------------------------------------------------
\* Fairness: run() loops for ever and its health queries time out, OpenRaft's
\* timers and replication tasks keep running, and peers attest each other again
\* and again.  Nothing restarts a crashed process.
Internal(A) == A /\ UNCHANGED <<trustVars, coordVars, budget>>

Fairness ==
    /\ \A n \in Nodes : /\ WF_vars(CoordinatorStep(n))
                         /\ WF_vars(Launch(n))
                         /\ WF_vars(Internal(Elect(n)))
    /\ \A n, m \in Nodes : /\ WF_vars(Internal(RequestVote(n, m)))
                            /\ WF_vars(Internal(Replicate(n, m)))
                            /\ WF_vars(Attest(n, m))

FairSpec == Spec /\ Fairness

-----------------------------------------------------------------------------
\* Safety.

\* All accepted initialize calls name the same membership: OpenRaft's condition
\* on initialize, and what "prevents split-brain" asks of the coordinator.
BootstrapAgreement == \A i, j \in inits : i.members = j.members

\* The node that initialises is the lowest of the membership it installs, even
\* when trust or health changed between the scan and the initialize call.
LowestBootstraps == \A i \in inits : \A m \in i.members : i.node <= m

\* Every node a bootstrap puts into the cluster had attested the initialiser
\* and been attested by it (handle_bootstrapping, build_mutual_ready_set).
MutuallyAttested ==
    \A i \in inits : \A m \in i.members \ {i.node} :
        <<i.node, m>> \in attested /\ <<m, i.node>> \in attested

\* Every voter and learner of a cluster but the node that initialised it, however
\* it got there (bootstrap or add_peer by any later leader), was attested by a
\* voter of that cluster.
MembersVouchedFor ==
    \A c \in Nodes : \A m \in (conf[c].voters \union conf[c].learners) \ {c} :
        \E v \in conf[c].voters : <<v, m>> \in attested

\* A coordinator in CLUSTER_ACTIVE belongs to a node that is a voter in its own
\* Raft view: handle_joining waits for the promotion, not for the learner.
ActiveIsVoter ==
    \A n \in Nodes : state[n] = "ClusterActive" => n \in view[n].voters

\* What a coordinator remembers as added is a voter of the cluster it follows.
AddedPeersAreVoters ==
    \A n \in Nodes : \A p \in added_peers[n] :
        member[n] # NoNode /\ p \in conf[member[n]].voters

\* No cluster ever loses a voter: changes only add (remove_peer has no caller).
VotersOnlyGrow == [][\A c \in Nodes : conf[c].voters \subseteq conf'[c].voters]_vars

-----------------------------------------------------------------------------
\* Liveness.

Formed(c) == leader[c] # NoNode
AnyClusterFormed == \E c \in Nodes : Formed(c)

\* In an undisturbed deployment one cluster forms and every node becomes and
\* stays a voter of it.
EveryNodeBecomesVoter ==
    <>[](\E c \in Nodes : Formed(c) /\ \A n \in Nodes : member[n] = c /\ n \in view[n].voters)

\* Nobody waits for the designated node for ever: the deadline or the cluster
\* ends WAITING_FOR_BOOTSTRAP.
BootstrapWaitEnds ==
    \A n \in Nodes : state[n] = "WaitingForBootstrap" ~> state[n] # "WaitingForBootstrap"

\* A node that crashes before anyone initialised does not stop the others from
\* forming a cluster.
FailoverBeforeInitialize ==
    (budget.crash < MaxCrashes /\ inits = {}) ~> AnyClusterFormed

\* The coordinator of a node that is a voter ends up in CLUSTER_ACTIVE.
VoterCoordinatorActive ==
    \A n \in Nodes : (n \in view[n].voters) ~> (state[n] = "ClusterActive")

\* A peer the leader began to add as a learner becomes a voter.
LearnersPromoted ==
    \A c, p \in Nodes : (p \in conf[c].learners) ~> (p \in conf[c].voters)
=============================================================================
