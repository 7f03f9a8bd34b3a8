---------------------------- MODULE MCCoordinator ----------------------------
(***************************************************************************)
(* Instances of Coordinator.  The runs start in Init, with one kind of     *)
(* fault or all, or in one of two states that Init reaches: every process  *)
(* launched and every registry full, or a cluster of Founders in service   *)
(* and the other nodes fresh.                                              *)
(***************************************************************************)
EXTENDS Coordinator

CONSTANT Founders   \* members of the cluster in FormedInit

ASSUME FoundersAssumption == Founders \subseteq Nodes /\ Founders # {}

AllPairs == {p \in Nodes \X Nodes : p[1] # p[2]}
PairsOf(S) == {p \in S \X S : p[1] # p[2]}
First == Min(Founders)
NoFaults == [crash |-> 0, restart |-> 0, revoke |-> 0, stepDown |-> 0]
Founded == [voters |-> Founders, learners |-> {}]

\* Init with one kind of fault: a node crashes and comes back, or trust is
\* revoked.
FaultyInit ==
    /\ TrustInit /\ RaftInit /\ CoordInit
    /\ \/ budget = [NoFaults EXCEPT !.crash = MaxCrashes, !.restart = MaxRestarts]
       \/ budget = [NoFaults EXCEPT !.revoke = MaxRevocations]

\* Launch(n) and Attest(n, m) for all n and m, before any coordinator step.
AttestedInit ==
    /\ trusted = [n \in Nodes |-> Nodes \ {n}]
    /\ attested = AllPairs
    /\ life = [n \in Nodes |-> "running"]
    /\ member = [n \in Nodes |-> NoNode]
    /\ view = [n \in Nodes |-> NoConfig]
    /\ heard = [n \in Nodes |-> FALSE]
    /\ voted = [n \in Nodes |-> FALSE]
    /\ conf = [n \in Nodes |-> NoConfig]
    /\ leader = [n \in Nodes |-> NoNode]
    /\ CoordInit
    /\ BudgetInit

\* The founders attested each other, formed a cluster and elected the lowest.
\* Leaders may step down or trust may be revoked, not both.
FormedInit ==
    /\ trusted = [n \in Nodes |-> IF n \in Founders THEN Founders \ {n} ELSE {}]
    /\ attested = PairsOf(Founders)
    /\ life = [n \in Nodes |-> "running"]
    /\ member = [n \in Nodes |-> IF n \in Founders THEN First ELSE NoNode]
    /\ view = [n \in Nodes |-> IF n \in Founders THEN Founded ELSE NoConfig]
    /\ heard = [n \in Nodes |-> n \in Founders]
    /\ voted = [n \in Nodes |-> n \in Founders]
    /\ conf = [n \in Nodes |-> IF n = First THEN Founded ELSE NoConfig]
    /\ leader = [n \in Nodes |-> IF n = First THEN First ELSE NoNode]
    /\ state = [n \in Nodes |-> IF n \in Founders THEN "ClusterActive" ELSE "WaitingForPeers"]
    /\ step = [n \in Nodes |-> "begin"]
    /\ todo = [n \in Nodes |-> {}]
    /\ ready = [n \in Nodes |-> {}]
    /\ timer = [n \in Nodes |-> 0]
    /\ added_peers = [n \in Nodes |-> {}]
    /\ inits = {[node |-> First, members |-> Founders]}
    /\ \/ budget = [NoFaults EXCEPT !.stepDown = MaxStepDowns]
       \/ budget = [NoFaults EXCEPT !.revoke = MaxRevocations]

FaultySpec == FaultyInit /\ [][Next]_vars
AttestedSpec == AttestedInit /\ [][Next]_vars
FormedSpec == FormedInit /\ [][Next]_vars
FairAttestedSpec == AttestedSpec /\ Fairness
FairFormedSpec == FormedSpec /\ Fairness
=============================================================================
