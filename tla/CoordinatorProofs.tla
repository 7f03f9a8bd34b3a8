------------------------- MODULE CoordinatorProofs -------------------------
(***************************************************************************)
(* Theorems about Coordinator, for every set of nodes, every quorum and    *)
(* every number of faults.                                                 *)
(***************************************************************************)
EXTENDS Coordinator, TLAPS, FiniteSetTheorems, WellFoundedInduction

-----------------------------------------------------------------------------
\* Min picks a least element of every non-empty set of node ids.
LEMMA MinLeast ==
    ASSUME NEW S \in SUBSET Nodes, S # {}
    PROVE  Min(S) \in S /\ \A m \in S : Min(S) <= m
<1>. DEFINE R == OpToRel(<, Nat)
<1>1. S \subseteq Nat
  BY NodesAssumption
<1>2. PICK x \in S : \A y \in S : ~(<<y, x>> \in R)
  <2>1. IsWellFoundedOn(R, Nat)
    BY NatLessThanWellFounded, Zenon
  <2>. HIDE DEF R
  <2>. QED  BY <1>1, <2>1, WFMin, Zenon
<1>3. \A y \in S : x <= y
  <2>. SUFFICES ASSUME NEW y \in S PROVE x <= y
    OBVIOUS
  <2>1. x \in Nat /\ y \in Nat
    BY <1>1
  <2>2. ~(y < x)
    BY <1>2, <2>1, Zenon DEF OpToRel
  <2>. QED  BY <2>1, <2>2
<1>. QED  BY <1>3 DEF Min

-----------------------------------------------------------------------------
(* What a handler's local variables satisfy at its awaits.                 *)

LoopInv ==
    \A n \in Nodes :
        /\ step[n] \in {"add", "catchup", "promote"} => todo[n] # {}
        /\ state[n] = "WaitingForBootstrap" /\ step[n] \in {"scan", "collect"} => timer[n] > 0

TypeInv == TypeOK /\ LoopInv

\* What a step must keep of the coordinators' local variables.
LocalsOK ==
    /\ state \in [Nodes -> CoordinatorState]
    /\ step \in [Nodes -> Step]
    /\ todo \in [Nodes -> SUBSET Nodes]
    /\ ready \in [Nodes -> SUBSET Nodes]
    /\ timer \in [Nodes -> Nat]
    /\ LoopInv

\* Returning a next state keeps the local variables in order.
LEMMA GotoLocals ==
    ASSUME TypeInv, NEW n \in Nodes, NEW s \in CoordinatorState, Goto(n, s)
    PROVE  LocalsOK'
<1>. USE DEF TypeInv, TypeOK, Goto, Deadline
<1>1. timer' \in [Nodes -> Nat]
  BY PollsAssumption
<1>2. LoopInv'
  BY DEF LoopInv
<1>. QED  BY <1>1, <1>2 DEF LocalsOK, Step

\* So does polling again before the deadline.
LEMMA PollAgainLocals ==
    ASSUME TypeInv, NEW n \in Nodes, timer[n] > 0, PollAgain(n)
    PROVE  LocalsOK'
<1>. USE DEF TypeInv, TypeOK, PollAgain
<1>1. timer' \in [Nodes -> Nat]
  OBVIOUS
<1>2. LoopInv'
  BY DEF LoopInv
<1>. QED  BY <1>1, <1>2 DEF LocalsOK, Step

\* So does the loop over new peers.
LEMMA NextPeerLocals ==
    ASSUME TypeInv, NEW n \in Nodes, NextPeer(n)
    PROVE  LocalsOK'
BY DEF TypeInv, TypeOK, NextPeer, LocalsOK, LoopInv, Step

\* A step that only touches the local variables.
LEMMA LocalStep ==
    ASSUME TypeInv, LocalsOK', UNCHANGED <<trustVars, raftVars, added_peers, inits, budget>>
    PROVE  TypeInv'
BY DEF TypeInv, TypeOK, LocalsOK, TrustTypeOK, RaftTypeOK, trustVars, raftVars

\* A step of Raft or of the environment that leaves the coordinators alone.
LEMMA OutsideStep ==
    ASSUME TypeInv, TrustTypeOK', RaftTypeOK', UNCHANGED coordVars,
           budget' \in [crash : Nat, restart : Nat, revoke : Nat, stepDown : Nat]
    PROVE  TypeInv'
BY DEF TypeInv, TypeOK, LoopInv, coordVars

\* The registries keep their type when they do not change.
LEMMA TrustUnchanged ==
    ASSUME TypeInv, UNCHANGED trustVars
    PROVE  TrustTypeOK'
BY DEF TypeInv, TypeOK, TrustTypeOK, trustVars

\* So does the Raft state.
LEMMA RaftUnchanged ==
    ASSUME TypeInv, UNCHANGED raftVars
    PROVE  RaftTypeOK'
BY DEF TypeInv, TypeOK, RaftTypeOK, raftVars

\* A leader's committed membership change.
LEMMA SetMembershipType ==
    ASSUME TypeInv, NEW n \in Nodes, NEW c \in Config, SetMembership(n, c)
    PROVE  RaftTypeOK'
<1>1. member[n] \in Nodes
  BY DEF TypeInv, TypeOK, RaftTypeOK, SetMembership, CanCommit, is_leader
<1>. QED  BY <1>1 DEF TypeInv, TypeOK, RaftTypeOK, SetMembership

\* The membership of the cluster a leader leads.
LEMMA LeaderConfig ==
    ASSUME TypeInv, NEW n \in Nodes, CanCommit(n)
    PROVE  conf[member[n]] \in Config
BY DEF TypeInv, TypeOK, RaftTypeOK, CanCommit, is_leader

-----------------------------------------------------------------------------
\* Every step of a coordinator preserves TypeInv.
LEMMA CoordinatorStepType ==
    ASSUME TypeInv, NEW n \in Nodes, CoordinatorStep(n)
    PROVE  TypeInv'
<1>1. CASE handle_waiting_for_peers(n)
  BY <1>1, GotoLocals, LocalStep DEF handle_waiting_for_peers, CoordinatorState
<1>2. CASE BeginScan(n)
  <2>1. LocalsOK'
    BY <1>2 DEF TypeInv, TypeOK, TrustTypeOK, LocalsOK, LoopInv, Step, BeginScan, At
  <2>. QED  BY <1>2, <2>1, LocalStep DEF BeginScan
<1>3. CASE ScanPeer(n)
  <2>1. CASE Goto(n, "Joining")
    BY <1>3, <2>1, GotoLocals, LocalStep DEF ScanPeer, CoordinatorState
  <2>2. CASE /\ todo' = [todo EXCEPT ![n] = @ \ {Min(todo[n])}]
             /\ UNCHANGED <<state, step, ready, timer>>
    <3>1. LocalsOK'
      BY <1>3, <2>2 DEF TypeInv, TypeOK, LocalsOK, LoopInv, ScanPeer
    <3>. QED  BY <1>3, <3>1, LocalStep DEF ScanPeer
  <2>. QED  BY <1>3, <2>1, <2>2 DEF ScanPeer
<1>4. CASE NoClusterFound(n)
  BY <1>4, GotoLocals, LocalStep DEF NoClusterFound, CoordinatorState
<1>5. CASE BeginReadySet(n)
  <2>1. LocalsOK'
    BY <1>5 DEF TypeInv, TypeOK, TrustTypeOK, LocalsOK, LoopInv, Step, BeginReadySet, BeginCollect, At
  <2>. QED  BY <1>5, <2>1, LocalStep DEF BeginReadySet
<1>6. CASE CollectPeer(n)
  <2>1. Min(todo[n]) \in Nodes
    BY <1>6, MinLeast DEF TypeInv, TypeOK, CollectPeer
  <2>2. LocalsOK'
    BY <1>6, <2>1 DEF TypeInv, TypeOK, LocalsOK, LoopInv, CollectPeer
  <2>. QED  BY <1>6, <2>2, LocalStep DEF CollectPeer
<1>7. CASE handle_coordinating_bootstrap(n)
  BY <1>7, GotoLocals, LocalStep DEF handle_coordinating_bootstrap, CoordinatorState
<1>8. CASE handle_waiting_for_bootstrap(n)
  <2>1. timer[n] > 0
    BY <1>8 DEF handle_waiting_for_bootstrap, At, TypeInv, LoopInv
  <2>2. LocalsOK'
    BY <1>8, <2>1, GotoLocals, PollAgainLocals DEF handle_waiting_for_bootstrap, CoordinatorState
  <2>. QED  BY <1>8, <2>2, LocalStep DEF handle_waiting_for_bootstrap
<1>9. CASE BootstrapWaitTimeout(n)
  BY <1>9, GotoLocals, LocalStep DEF BootstrapWaitTimeout, CoordinatorState
<1>10. CASE handle_bootstrapping(n)
  <2>1. CASE /\ ready' = [ready EXCEPT ![n] = @ \cap trusted[n]]
             /\ step' = [step EXCEPT ![n] = "initialize"]
             /\ UNCHANGED <<state, todo, timer>>
    <3>1. LocalsOK'
      BY <2>1 DEF TypeInv, TypeOK, LocalsOK, LoopInv, Step
    <3>. QED  BY <1>10, <3>1, LocalStep DEF handle_bootstrapping
  <2>2. CASE \E s \in CoordinatorState : Goto(n, s)
    BY <1>10, <2>2, GotoLocals, LocalStep DEF handle_bootstrapping
  <2>. QED  BY <1>10, <2>1, <2>2 DEF handle_bootstrapping, CoordinatorState
<1>11. CASE BootstrapSucceeds(n)
  <2>1. LocalsOK'
    BY <1>11, GotoLocals DEF BootstrapSucceeds, CoordinatorState
  <2>2. RaftTypeOK'
    BY <1>11 DEF TypeInv, TypeOK, RaftTypeOK, BootstrapSucceeds, initialize_cluster, Config
  <2>3. inits' \subseteq InitCall
    BY <1>11 DEF TypeInv, TypeOK, BootstrapSucceeds, InitCall
  <2>4. TrustTypeOK'
    BY <1>11, TrustUnchanged DEF BootstrapSucceeds
  <2>. QED  BY <1>11, <2>1, <2>2, <2>3, <2>4 DEF TypeInv, TypeOK, LocalsOK, BootstrapSucceeds
<1>12. CASE BootstrapFails(n)
  BY <1>12, GotoLocals, LocalStep DEF BootstrapFails, CoordinatorState
<1>13. CASE handle_joining(n)
  <2>1. timer[n] \in Nat
    BY DEF TypeInv, TypeOK
  <2>2. LocalsOK'
    BY <1>13, <2>1, GotoLocals, PollAgainLocals DEF handle_joining, CoordinatorState
  <2>. QED  BY <1>13, <2>2, LocalStep DEF handle_joining
<1>14. CASE BeginAddPeers(n)
  <2>1. LocalsOK'
    BY <1>14 DEF TypeInv, TypeOK, TrustTypeOK, LocalsOK, LoopInv, Step, BeginAddPeers, NewPeers
  <2>. QED  BY <1>14, <2>1, LocalStep DEF BeginAddPeers
<1>15. CASE AddLearner(n)
  <2>1. Min(todo[n]) \in Nodes
    BY <1>15, MinLeast DEF TypeInv, TypeOK, LoopInv, AddLearner, At
  <2>2. LocalsOK'
    BY <1>15 DEF TypeInv, TypeOK, LocalsOK, LoopInv, Step, AddLearner, At
  <2>3. CanCommit(n)
    BY <1>15 DEF AddLearner, add_learner, SetMembership
  <2>4. RaftTypeOK'
    BY <1>15, <2>1, <2>3, LeaderConfig, SetMembershipType DEF AddLearner, add_learner, Config
  <2>5. TrustTypeOK'
    BY <1>15, TrustUnchanged DEF AddLearner
  <2>. QED  BY <1>15, <2>2, <2>4, <2>5 DEF TypeInv, TypeOK, LocalsOK, AddLearner
<1>16. CASE LearnerCaughtUp(n)
  <2>1. LocalsOK'
    BY <1>16 DEF TypeInv, TypeOK, LocalsOK, LoopInv, Step, LearnerCaughtUp, At
  <2>. QED  BY <1>16, <2>1, LocalStep DEF LearnerCaughtUp
<1>17. CASE PromoteLearner(n)
  <2>1. Min(todo[n]) \in Nodes
    BY <1>17, MinLeast DEF TypeInv, TypeOK, LoopInv, PromoteLearner, At
  <2>2. LocalsOK'
    BY <1>17, NextPeerLocals DEF PromoteLearner
  <2>3. CanCommit(n)
    BY <1>17, SMTT(30) DEF PromoteLearner, change_membership, SetMembership
  <2>4. RaftTypeOK'
    BY <1>17, <2>1, <2>3, LeaderConfig, SetMembershipType DEF PromoteLearner, change_membership, Config
  <2>5. TrustTypeOK'
    BY <1>17, TrustUnchanged DEF PromoteLearner
  <2>6. added_peers' \in [Nodes -> SUBSET Nodes]
    BY <1>17, <2>1 DEF TypeInv, TypeOK, PromoteLearner
  <2>. QED  BY <1>17, <2>2, <2>4, <2>5, <2>6 DEF TypeInv, TypeOK, LocalsOK, PromoteLearner
<1>18. CASE AddPeerFails(n)
  BY <1>18, NextPeerLocals, LocalStep DEF AddPeerFails
<1>. QED
  BY <1>1, <1>2, <1>3, <1>4, <1>5, <1>6, <1>7, <1>8, <1>9, <1>10, <1>11, <1>12,
     <1>13, <1>14, <1>15, <1>16, <1>17, <1>18, SMTT(30) DEF CoordinatorStep

\* So does every step of Raft, of main, of the attestation layer and of faults.
LEMMA EnvironmentStepType ==
    ASSUME TypeInv,
           \/ RaftStep
           \/ \E n \in Nodes : Launch(n) \/ Relaunch(n) \/ Crash(n) \/ LeaderStepsDown(n)
           \/ \E n, m \in Nodes : Attest(n, m) \/ Revoke(n, m)
    PROVE  TypeInv'
<1>. DEFINE Budget == [crash : Nat, restart : Nat, revoke : Nat, stepDown : Nat]
<1>0. budget \in Budget
  BY DEF TypeInv, TypeOK
<1>1. CASE RaftStep
  <2>1. RaftTypeOK'
    <3>1. ASSUME NEW n \in Nodes, NEW m \in Nodes, RequestVote(n, m)  PROVE RaftTypeOK'
      BY <3>1 DEF TypeInv, TypeOK, RaftTypeOK, RequestVote
    <3>2. ASSUME NEW n \in Nodes, Elect(n)  PROVE RaftTypeOK'
      BY <3>2, ZenonT(30) DEF TypeInv, TypeOK, RaftTypeOK, Elect, Forget
    <3>3. ASSUME NEW n \in Nodes, NEW m \in Nodes, Replicate(n, m)  PROVE RaftTypeOK'
      <4>1. member[n] \in Nodes
        BY <3>3 DEF TypeInv, TypeOK, RaftTypeOK, Replicate, is_leader
      <4>. QED  BY <3>3, <4>1 DEF TypeInv, TypeOK, RaftTypeOK, Replicate
    <3>. QED  BY <1>1, <3>1, <3>2, <3>3, SMTT(30) DEF RaftStep
  <2>. QED  BY <1>0, <1>1, <2>1, TrustUnchanged, OutsideStep DEF RaftStep
<1>2. ASSUME NEW n \in Nodes, Launch(n)  PROVE TypeInv'
  <2>1. RaftTypeOK'
    BY <1>2 DEF TypeInv, TypeOK, RaftTypeOK, Launch, StartRaft
  <2>. QED  BY <1>0, <1>2, <2>1, TrustUnchanged, OutsideStep DEF Launch
<1>3. ASSUME NEW n \in Nodes, Relaunch(n)  PROVE TypeInv'
  <2>1. RaftTypeOK'
    BY <1>3 DEF TypeInv, TypeOK, RaftTypeOK, Relaunch, Restart
  <2>2. budget' \in Budget
    BY <1>0, <1>3 DEF Relaunch
  <2>. QED  BY <1>3, <2>1, <2>2, TrustUnchanged, OutsideStep DEF Relaunch
<1>4. ASSUME NEW n \in Nodes, Crash(n)  PROVE TypeInv'
  <2>1. LocalsOK'
    BY <1>4, GotoLocals DEF Crash, CoordinatorState
  <2>2. RaftTypeOK'
    BY <1>4 DEF TypeInv, TypeOK, RaftTypeOK, Crash, RaftCrash
  <2>3. TrustTypeOK'
    BY <1>4 DEF TypeInv, TypeOK, TrustTypeOK, Crash, ForgetTrust
  <2>4. budget' \in Budget
    BY <1>0, <1>4 DEF Crash
  <2>. QED  BY <1>4, <2>1, <2>2, <2>3, <2>4, Zenon DEF TypeInv, TypeOK, LocalsOK, Crash
<1>5. ASSUME NEW n \in Nodes, LeaderStepsDown(n)  PROVE TypeInv'
  <2>1. RaftTypeOK'
    BY <1>5, Zenon DEF TypeInv, TypeOK, RaftTypeOK, LeaderStepsDown, StepDown, Forget
  <2>2. budget' \in Budget
    BY <1>0, <1>5 DEF LeaderStepsDown
  <2>. QED  BY <1>5, <2>1, <2>2, TrustUnchanged, OutsideStep DEF LeaderStepsDown
<1>6. ASSUME NEW n \in Nodes, NEW m \in Nodes, Attest(n, m)  PROVE TypeInv'
  <2>1. TrustTypeOK'
    BY <1>6 DEF TypeInv, TypeOK, TrustTypeOK, Attest, MarkTrusted
  <2>. QED  BY <1>0, <1>6, <2>1, RaftUnchanged, OutsideStep DEF Attest
<1>7. ASSUME NEW n \in Nodes, NEW m \in Nodes, Revoke(n, m)  PROVE TypeInv'
  <2>1. TrustTypeOK'
    BY <1>7 DEF TypeInv, TypeOK, TrustTypeOK, Revoke, RevokeTrust
  <2>2. budget' \in Budget
    BY <1>0, <1>7, SMTT(30) DEF Revoke
  <2>. QED  BY <1>7, <2>1, <2>2, RaftUnchanged, OutsideStep DEF Revoke
<1>. QED  BY <1>1, <1>2, <1>3, <1>4, <1>5, <1>6, <1>7

\* The inductive type invariant holds initially ...
LEMMA InitType == Init => TypeInv
BY EnvironmentAssumption
   DEF Init, TrustInit, RaftInit, CoordInit, BudgetInit, TypeInv, TypeOK, TrustTypeOK, RaftTypeOK,
       LoopInv, Config, NoConfig, CoordinatorState, Step

\* ... and every step preserves it.
LEMMA NextType == TypeInv /\ [Next]_vars => TypeInv'
<1>. SUFFICES ASSUME TypeInv, [Next]_vars PROVE TypeInv'
  OBVIOUS
<1>1. CASE UNCHANGED vars
  BY <1>1 DEF vars, coordVars, trustVars, raftVars, TypeInv, TypeOK, TrustTypeOK, RaftTypeOK, LoopInv
<1>2. CASE Next
  BY <1>2, CoordinatorStepType, EnvironmentStepType DEF Next
<1>. QED  BY <1>1, <1>2

\* Type correctness of the coordinator, for any number of nodes and faults.
\* In particular no deadline counts below zero: WAITING_FOR_BOOTSTRAP looks at
\* its deadline before every poll.
THEOREM TypeCorrect == Spec => []TypeOK
<1>1. TypeInv => TypeOK
  BY SMTT(30) DEF TypeInv
<1>. QED  BY <1>1, InitType, NextType, PTL DEF Spec

-----------------------------------------------------------------------------
(* LowestBootstraps and MutuallyAttested.  inits is filled from ready, so   *)
(* the invariant speaks of ready while it is being collected.               *)

Mutual(n, m) == <<n, m>> \in attested /\ <<m, n>> \in attested

BootInv ==
    /\ \A n \in Nodes : \A m \in trusted[n] : <<n, m>> \in attested
    /\ \A n \in Nodes : \A m \in ready[n] \ {n} : Mutual(n, m)
    /\ \A n \in Nodes : step[n] = "initialize" => \A m \in ready[n] : n <= m
    /\ LowestBootstraps
    /\ MutuallyAttested

\* A step that adds no one but n to ready[n], starts no initialize and neither
\* attests nor initialises.
BootQuiet ==
    /\ UNCHANGED <<attested, inits>>
    /\ \A n \in Nodes : trusted'[n] \subseteq trusted[n]
    /\ \A n \in Nodes : ready'[n] \subseteq ready[n] \union {n}
    /\ \A n \in Nodes : step'[n] = "initialize" => step[n] = "initialize" /\ ready'[n] = ready[n]

\* Quiet steps preserve BootInv.
LEMMA QuietStep == BootInv /\ BootQuiet => BootInv'
BY DEF BootInv, BootQuiet, Mutual, LowestBootstraps, MutuallyAttested

\* Leaving a handler, and polling again, are quiet.
LEMMA GotoQuiet ==
    ASSUME TypeInv, NEW n \in Nodes, NEW s, Goto(n, s) \/ PollAgain(n)
    PROVE  \A k \in Nodes : /\ ready'[k] \subseteq ready[k] \union {k}
                            /\ step'[k] = "initialize" => step[k] = "initialize" /\ ready'[k] = ready[k]
BY SMTT(30) DEF TypeInv, TypeOK, Goto, PollAgain

\* All coordinator steps but three are quiet.
LEMMA CoordinatorQuiet ==
    ASSUME TypeInv, NEW n \in Nodes, CoordinatorStep(n),
           ~CollectPeer(n), ~handle_bootstrapping(n), ~BootstrapSucceeds(n)
    PROVE  BootQuiet
<1>. DEFINE Quiet == \A k \in Nodes :
                /\ ready'[k] \subseteq ready[k] \union {k}
                /\ step'[k] = "initialize" => step[k] = "initialize" /\ ready'[k] = ready[k]
<1>. SUFFICES UNCHANGED <<trusted, attested, inits>> /\ Quiet
  BY SMTT(30) DEF BootQuiet
<1>1. CASE \E s : Goto(n, s) \/ PollAgain(n)
  <2>1. Quiet
    BY <1>1, GotoQuiet, ZenonT(30)
  <2>. QED
    BY <2>1, ZenonT(30) DEF CoordinatorStep, trustVars, handle_waiting_for_peers, BeginScan, ScanPeer,
       NoClusterFound, BeginReadySet, handle_coordinating_bootstrap, handle_waiting_for_bootstrap,
       BootstrapWaitTimeout, BootstrapFails, handle_joining, BeginAddPeers, AddLearner,
       LearnerCaughtUp, PromoteLearner, AddPeerFails
<1>2. CASE BeginScan(n) \/ BeginAddPeers(n) \/ AddLearner(n) \/ LearnerCaughtUp(n)
  BY <1>2, ZenonT(30) DEF TypeInv, TypeOK, trustVars, BeginScan, BeginAddPeers, AddLearner, LearnerCaughtUp
<1>3. CASE BeginReadySet(n)
  BY <1>3, Zenon DEF TypeInv, TypeOK, trustVars, BeginReadySet, BeginCollect
<1>4. CASE PromoteLearner(n) \/ AddPeerFails(n)
  BY <1>4 DEF TypeInv, TypeOK, trustVars, PromoteLearner, AddPeerFails, NextPeer
<1>5. CASE ScanPeer(n)
  BY <1>1, <1>5, SMTT(30) DEF TypeInv, TypeOK, trustVars, ScanPeer
<1>. QED
  BY <1>1, <1>2, <1>3, <1>4, <1>5, Zenon
     DEF CoordinatorStep, handle_waiting_for_peers, NoClusterFound, handle_coordinating_bootstrap,
         handle_waiting_for_bootstrap, BootstrapWaitTimeout, BootstrapFails, handle_joining

\* What one query adds to the ready set: the peer, if the two trust each other.
LEMMA CollectedPeer ==
    ASSUME TypeInv, NEW n \in Nodes, CollectPeer(n)
    PROVE  \/ ready' = ready
           \/ /\ ready' = [ready EXCEPT ![n] = @ \union {Min(todo[n])}]
              /\ Min(todo[n]) \in trusted[n] /\ n \in trusted[Min(todo[n])]
<1>. DEFINE p == Min(todo[n])
<1>. DEFINE Adds(answered) == answered /\ is_mutually_ready(health(p), n, MIN_PEERS_FOR_BOOTSTRAP)
<1>1. PICK answered \in QueryOutcomes(n, p) :
          ready' = [ready EXCEPT ![n] = IF Adds(answered) THEN @ \union {p} ELSE @]
  BY ZenonT(30) DEF CollectPeer
<1>2. answered => p \in trusted[n]
  BY <1>1, Zenon DEF QueryOutcomes
<1>3. is_mutually_ready(health(p), n, MIN_PEERS_FOR_BOOTSTRAP) => n \in trusted[p]
  BY DEF is_mutually_ready, health
<1>4. CASE Adds(answered)
  BY <1>1, <1>2, <1>3, <1>4
<1>5. CASE ~Adds(answered)
  <2>1. ready \in [Nodes -> SUBSET Nodes]
    BY SMTT(30) DEF TypeInv, TypeOK
  <2>. QED  BY <1>1, <1>5, <2>1
<1>. QED  BY <1>4, <1>5

\* The three steps that build a membership.  CollectPeer: one answer.
LEMMA CollectBoot ==
    ASSUME TypeInv, BootInv, NEW n \in Nodes, CollectPeer(n)
    PROVE  BootInv'
<1>. DEFINE p == Min(todo[n])
<1>1. p \in Nodes
  BY MinLeast DEF CollectPeer, TypeInv, TypeOK
<1>2. \/ ready' = ready
      \/ /\ ready' = [ready EXCEPT ![n] = @ \union {p}]
         /\ p \in trusted[n] /\ n \in trusted[p]
  BY CollectedPeer
<1>3. UNCHANGED <<trusted, attested, inits, step>> /\ step[n] = "collect"
  BY DEF CollectPeer, trustVars
<1>. HIDE DEF p
<1>4. \A k \in Nodes : \A m \in ready'[k] \ {k} : Mutual(k, m)
  <2>. SUFFICES ASSUME NEW k \in Nodes, NEW m \in ready'[k], m # k  PROVE Mutual(k, m)
    BY Zenon
  <2>1. m \in ready[k] \/ (k = n /\ m = p /\ p \in trusted[n] /\ n \in trusted[p])
    BY <1>2 DEF TypeInv, TypeOK
  <2>2. CASE m \in ready[k]
    BY <2>2 DEF BootInv
  <2>3. CASE k = n /\ m = p /\ p \in trusted[n] /\ n \in trusted[p]
    BY <1>1, <2>3 DEF BootInv, Mutual
  <2>. QED  BY <2>1, <2>2, <2>3
<1>5. \A k \in Nodes : step[k] = "initialize" => ready'[k] = ready[k]
  BY <1>2, <1>3, SMTT(30) DEF TypeInv, TypeOK
<1>. QED  BY <1>3, <1>4, <1>5 DEF BootInv, Mutual, LowestBootstraps, MutuallyAttested

\* handle_bootstrapping: the re-verified set, or back to another state.
LEMMA VerifyBoot ==
    ASSUME TypeInv, BootInv, NEW n \in Nodes, handle_bootstrapping(n)
    PROVE  BootInv'
<1>1. UNCHANGED <<trusted, attested, inits>>
  BY DEF handle_bootstrapping, trustVars
<1>2. CASE IsLowest(n) /\ ready' = [ready EXCEPT ![n] = @ \cap trusted[n]]
                       /\ step' = [step EXCEPT ![n] = "initialize"]
  <2>1. \A m \in ready[n] : n <= m
    BY <1>2, MinLeast DEF IsLowest, TypeInv, TypeOK
  <2>2. \A k \in Nodes : ready'[k] \subseteq ready[k]
    BY <1>2 DEF TypeInv, TypeOK
  <2>3. \A k \in Nodes : step'[k] = "initialize" =>
            k = n \/ (step[k] = "initialize" /\ ready'[k] = ready[k])
    BY <1>2 DEF TypeInv, TypeOK
  <2>. QED  BY <1>1, <2>1, <2>2, <2>3 DEF BootInv, Mutual, LowestBootstraps, MutuallyAttested
<1>3. CASE \E s : Goto(n, s)
  BY <1>1, <1>3, GotoQuiet, QuietStep, SMTT(30) DEF BootQuiet
<1>. QED  BY <1>2, <1>3, SMTT(30) DEF handle_bootstrapping

\* BootstrapSucceeds: the set becomes a membership.
LEMMA SucceedBoot ==
    ASSUME TypeInv, BootInv, NEW n \in Nodes, BootstrapSucceeds(n)
    PROVE  BootInv'
<1>. DEFINE call == [node |-> n, members |-> ready[n] \union {n}]
<1>1. UNCHANGED <<trusted, attested>> /\ inits' = inits \union {call} /\ step[n] = "initialize"
  BY SMTT(30) DEF BootstrapSucceeds, trustVars, At
<1>2. \A k \in Nodes : /\ ready'[k] \subseteq ready[k] \union {k}
                       /\ step'[k] = "initialize" => step[k] = "initialize" /\ ready'[k] = ready[k]
  BY GotoQuiet, SMTT(30) DEF BootstrapSucceeds
<1>3. LowestBootstraps'
  <2>1. n \in Nat
    BY NodesAssumption
  <2>. QED  BY <1>1, <2>1 DEF LowestBootstraps, BootInv
<1>4. MutuallyAttested'
  <2>1. \A m \in call.members \ {call.node} :
            <<call.node, m>> \in attested /\ <<m, call.node>> \in attested
    BY DEF BootInv, Mutual
  <2>. HIDE DEF call
  <2>. QED  BY <1>1, <2>1, Zenon DEF MutuallyAttested, BootInv
<1>. QED  BY <1>1, <1>2, <1>3, <1>4, SMTT(30) DEF BootInv, Mutual

\* BootInv holds initially ...
LEMMA InitBoot == Init => BootInv
BY DEF Init, TrustInit, CoordInit, BootInv, LowestBootstraps, MutuallyAttested

\* ... and every step preserves it.
LEMMA NextBoot == TypeInv /\ BootInv /\ [Next]_vars => BootInv'
<1>. SUFFICES ASSUME TypeInv, BootInv, [Next]_vars PROVE BootInv'
  OBVIOUS
<1>1. ASSUME NEW n \in Nodes, CoordinatorStep(n)  PROVE BootInv'
  BY <1>1, CoordinatorQuiet, QuietStep, CollectBoot, VerifyBoot, SucceedBoot
<1>2. CASE UNCHANGED <<trustVars, coordVars>>
  BY <1>2, QuietStep DEF BootQuiet, trustVars, coordVars
<1>3. ASSUME NEW n \in Nodes, NEW m \in Nodes, Attest(n, m)  PROVE BootInv'
  <2>1. UNCHANGED coordVars /\ attested \subseteq attested' /\ <<n, m>> \in attested'
    BY <1>3 DEF Attest, MarkTrusted
  <2>2. \A k \in Nodes : \A j \in trusted'[k] : <<k, j>> \in attested'
    BY <1>3, Zenon DEF Attest, MarkTrusted, BootInv, TypeInv, TypeOK, TrustTypeOK
  <2>. QED  BY <2>1, <2>2 DEF BootInv, Mutual, LowestBootstraps, MutuallyAttested, coordVars
<1>4. ASSUME NEW n \in Nodes, NEW m \in Nodes, Revoke(n, m)  PROVE BootInv'
  BY <1>4, QuietStep DEF BootQuiet, Revoke, RevokeTrust, coordVars, TypeInv, TypeOK, TrustTypeOK
<1>5. ASSUME NEW n \in Nodes, Crash(n)  PROVE BootInv'
  BY <1>5, QuietStep, GotoQuiet DEF BootQuiet, Crash, ForgetTrust, TypeInv, TypeOK, TrustTypeOK
<1>. QED
  BY <1>1, <1>2, <1>3, <1>4, <1>5
     DEF Next, vars, RaftStep, Launch, Relaunch, LeaderStepsDown

\* However trust, health and membership change between the scan and the
\* initialize call, the node that initialises is the lowest it installs.
THEOREM LowestNodeBootstraps == Spec => []LowestBootstraps
<1>1. BootInv => LowestBootstraps
  BY DEF BootInv
<1>. QED  BY <1>1, InitType, NextType, InitBoot, NextBoot, PTL DEF Spec

\* Whatever the quorum and the number of nodes, a bootstrap installs only nodes
\* that had attested its initialiser and been attested by it.
THEOREM BootstrapIsMutual == Spec => []MutuallyAttested
<1>1. BootInv => MutuallyAttested
  BY DEF BootInv
<1>. QED  BY <1>1, InitType, NextType, InitBoot, NextBoot, PTL DEF Spec

-----------------------------------------------------------------------------
(* BootstrapAgreement, in a deployment of no more than BOOTSTRAP_QUORUM     *)
(* nodes without revocations: every bootstrap installs all of them.         *)

AgreeInv ==
    /\ budget.revoke = 0
    /\ \A n \in Nodes : ready[n] \subseteq trusted[n] \union {n}
    /\ \A n \in Nodes : step[n] = "initialize" => ready[n] \union {n} = Nodes
    /\ \A i \in inits : i.members = Nodes

\* A step that neither revokes nor initialises, and after which ready[n] still
\* holds only trusted nodes.
AgreeQuiet ==
    /\ UNCHANGED inits /\ budget'.revoke = budget.revoke
    /\ \A n \in Nodes : ready'[n] \subseteq trusted'[n] \union {n}
    /\ \A n \in Nodes : step'[n] = "initialize" => step[n] = "initialize" /\ ready'[n] = ready[n]

\* Such steps preserve AgreeInv.
LEMMA AgreeQuietStep == AgreeInv /\ AgreeQuiet => AgreeInv'
BY DEF AgreeInv, AgreeQuiet

\* All coordinator steps but three preserve AgreeInv.
LEMMA CoordinatorAgreeQuiet ==
    ASSUME TypeInv, AgreeInv, NEW n \in Nodes, CoordinatorStep(n),
           ~CollectPeer(n), ~handle_bootstrapping(n), ~BootstrapSucceeds(n)
    PROVE  AgreeInv'
<1>1. BootQuiet
  BY CoordinatorQuiet, SMTT(30)
<1>2. UNCHANGED <<trusted, budget>>
  BY ZenonT(30) DEF CoordinatorStep, trustVars, handle_waiting_for_peers, BeginScan, ScanPeer,
     NoClusterFound, BeginReadySet, handle_coordinating_bootstrap, handle_waiting_for_bootstrap,
     BootstrapWaitTimeout, BootstrapFails, handle_joining, BeginAddPeers, AddLearner,
     LearnerCaughtUp, PromoteLearner, AddPeerFails
<1>3. AgreeQuiet
  BY <1>1, <1>2, Zenon DEF AgreeInv, AgreeQuiet, BootQuiet
<1>. QED  BY <1>3, AgreeQuietStep

\* A ready set that reaches the quorum is the whole deployment.
LEMMA QuorumIsEveryone ==
    ASSUME TypeInv, Cardinality(Nodes) <= BOOTSTRAP_QUORUM, NEW n \in Nodes, HasQuorum(n)
    PROVE  ready[n] = Nodes
<1>1. ready[n] \subseteq Nodes
  BY DEF TypeInv, TypeOK
<1>2. IsFiniteSet(Nodes)
  BY NodesAssumption
<1>3. Cardinality(ready[n]) >= BOOTSTRAP_QUORUM
  BY DEF HasQuorum
<1>4. /\ Cardinality(ready[n]) \in Nat /\ Cardinality(Nodes) \in Nat
      /\ ready[n] # Nodes => Cardinality(ready[n]) < Cardinality(Nodes)
  BY <1>1, <1>2, FS_Subset, FS_CardinalityType
<1>. QED  BY <1>3, <1>4, QuorumAssumption

\* Collecting answers only takes in trusted peers.
LEMMA CollectAgree ==
    ASSUME TypeInv, AgreeInv, NEW n \in Nodes, CollectPeer(n)
    PROVE  AgreeInv'
<1>. DEFINE p == Min(todo[n])
<1>1. \/ ready' = ready
      \/ ready' = [ready EXCEPT ![n] = @ \union {p}] /\ p \in trusted[n]
  BY CollectedPeer
<1>2. UNCHANGED <<trusted, inits, budget, step>> /\ step[n] = "collect"
  BY DEF CollectPeer, trustVars
<1>. HIDE DEF p
<1>3. AgreeQuiet
  BY <1>1, <1>2 DEF AgreeInv, AgreeQuiet, TypeInv, TypeOK
<1>. QED  BY <1>3, AgreeQuietStep

\* A re-verified set with a quorum is the whole deployment, minus the node.
LEMMA VerifyAgree ==
    ASSUME TypeInv, AgreeInv, Cardinality(Nodes) <= BOOTSTRAP_QUORUM,
           NEW n \in Nodes, handle_bootstrapping(n)
    PROVE  AgreeInv'
<1>1. UNCHANGED <<trusted, inits, budget>>
  BY SMTT(30) DEF handle_bootstrapping, trustVars
<1>2. CASE HasQuorum(n) /\ ready' = [ready EXCEPT ![n] = @ \cap trusted[n]]
                        /\ step' = [step EXCEPT ![n] = "initialize"]
  <2>1. ready[n] = Nodes /\ trusted[n] \in SUBSET Nodes
    BY <1>2, QuorumIsEveryone, SMTT(30) DEF TypeInv, TypeOK, TrustTypeOK
  <2>2. ready'[n] \union {n} = Nodes
    BY <1>2, <2>1 DEF AgreeInv, TypeInv, TypeOK
  <2>3. \A k \in Nodes : ready'[k] \subseteq ready[k]
    BY <1>2 DEF TypeInv, TypeOK
  <2>4. \A k \in Nodes : step'[k] = "initialize" =>
            k = n \/ (step[k] = "initialize" /\ ready'[k] = ready[k])
    BY <1>2 DEF TypeInv, TypeOK
  <2>. QED  BY <1>1, <2>2, <2>3, <2>4 DEF AgreeInv
<1>3. CASE \E s : Goto(n, s)
  <2>1. AgreeQuiet
    BY <1>1, <1>3, GotoQuiet DEF AgreeQuiet, AgreeInv
  <2>. QED  BY <2>1, AgreeQuietStep, SMTT(30)
<1>. QED  BY <1>2, <1>3, SMTT(30) DEF handle_bootstrapping

\* The membership installed is the whole deployment.
LEMMA SucceedAgree ==
    ASSUME TypeInv, AgreeInv, NEW n \in Nodes, BootstrapSucceeds(n)
    PROVE  AgreeInv'
<1>. DEFINE call == [node |-> n, members |-> ready[n] \union {n}]
<1>1. UNCHANGED <<trusted, budget>> /\ inits' = inits \union {call} /\ step[n] = "initialize"
  BY SMTT(30) DEF BootstrapSucceeds, trustVars, At
<1>2. \A k \in Nodes : /\ ready'[k] \subseteq ready[k] \union {k}
                       /\ step'[k] = "initialize" => step[k] = "initialize" /\ ready'[k] = ready[k]
  BY GotoQuiet DEF BootstrapSucceeds
<1>3. call.members = Nodes
  BY <1>1 DEF AgreeInv
<1>. HIDE DEF call
<1>. QED  BY <1>1, <1>2, <1>3 DEF AgreeInv

\* Every step preserves AgreeInv in such a deployment.
LEMMA NextAgree ==
    ASSUME Cardinality(Nodes) <= BOOTSTRAP_QUORUM, TypeInv, AgreeInv, [Next]_vars
    PROVE  AgreeInv'
<1>1. ASSUME NEW n \in Nodes, CoordinatorStep(n)  PROVE AgreeInv'
  BY <1>1, CoordinatorAgreeQuiet, CollectAgree, VerifyAgree, SucceedAgree, SMTT(30)
<1>2. CASE UNCHANGED <<trustVars, coordVars>> /\ budget'.revoke = budget.revoke
  BY <1>2, AgreeQuietStep, SMTT(30) DEF AgreeQuiet, AgreeInv, trustVars, coordVars
<1>3. ASSUME NEW n \in Nodes, NEW m \in Nodes, Attest(n, m)  PROVE AgreeInv'
  <2>1. \A k \in Nodes : trusted[k] \subseteq trusted'[k]
    BY <1>3 DEF Attest, MarkTrusted, TypeInv, TypeOK, TrustTypeOK
  <2>. QED  BY <1>3, <2>1, AgreeQuietStep DEF AgreeQuiet, AgreeInv, Attest, coordVars
<1>4. ASSUME NEW n \in Nodes, NEW m \in Nodes  PROVE ~Revoke(n, m)
  BY DEF AgreeInv, Revoke
<1>5. ASSUME NEW n \in Nodes, Crash(n)  PROVE AgreeInv'
  <2>1. \A k \in Nodes : ready'[k] \subseteq trusted'[k] \union {k}
    BY <1>5 DEF Crash, Goto, ForgetTrust, AgreeInv, TypeInv, TypeOK, TrustTypeOK
  <2>2. budget'.revoke = budget.revoke
    BY <1>5 DEF Crash, TypeInv, TypeOK
  <2>. QED  BY <1>5, <2>1, <2>2, GotoQuiet, AgreeQuietStep DEF AgreeQuiet, Crash
<1>6. ASSUME NEW n \in Nodes, Launch(n) \/ Relaunch(n) \/ LeaderStepsDown(n)
      PROVE  UNCHANGED <<trustVars, coordVars>> /\ budget'.revoke = budget.revoke
  BY <1>6 DEF Launch, Relaunch, LeaderStepsDown, TypeInv, TypeOK
<1>. QED
  BY <1>1, <1>2, <1>3, <1>4, <1>5, <1>6 DEF Next, vars, RaftStep

\* Split-brain freedom of the smallest deployment: with at most BOOTSTRAP_QUORUM
\* nodes and no revocation, all initialize calls ever accepted, before and
\* after any crashes and restarts and with any health answers lost, install
\* the same membership.  (With one more node it fails.)
THEOREM Agreement ==
    ASSUME Cardinality(Nodes) <= BOOTSTRAP_QUORUM, MaxRevocations = 0
    PROVE  Spec => []BootstrapAgreement
<1>1. Init => AgreeInv
  BY DEF Init, CoordInit, BudgetInit, AgreeInv
<1>2. TypeInv /\ AgreeInv /\ [Next]_vars => AgreeInv'
  BY NextAgree
<1>3. AgreeInv => BootstrapAgreement
  BY DEF AgreeInv, BootstrapAgreement
<1>. QED  BY <1>1, <1>2, <1>3, InitType, NextType, PTL DEF Spec
=============================================================================
