-------------------------- MODULE MembershipProofs --------------------------
(***************************************************************************)
(* Theorems about the membership of the clusters that coordinators form:   *)
(* VotersOnlyGrow, MembersVouchedFor, ActiveIsVoter, AddedPeersAreVoters.  *)
(* They need each other: a member is vouched for by the leader that added  *)
(* it, so leaders must be voters; a coordinator stays a voter in its view  *)
(* because views trail the committed membership, which only grows.         *)
(***************************************************************************)
EXTENDS CoordinatorProofs

-----------------------------------------------------------------------------
\* A node that never voted follows no cluster and founded none; views trail the
\* membership of the cluster followed and contain their node; leaders are voters
\* of the cluster they follow.
ClusterInv ==
    /\ \A n \in Nodes : ~voted[n] => member[n] = NoNode /\ conf[n] = NoConfig
    /\ \A n \in Nodes : member[n] = NoNode => view[n] = NoConfig
    /\ \A n \in Nodes : member[n] # NoNode => view[n].voters \subseteq conf[member[n]].voters
    /\ \A n \in Nodes : view[n] # NoConfig => n \in view[n].voters \union view[n].learners
    /\ \A c \in Nodes : leader[c] # NoNode =>
            member[leader[c]] = c /\ leader[c] \in conf[c].voters

MemberInv ==
    /\ ClusterInv
    /\ \A n \in Nodes : \A p \in todo[n] : <<n, p>> \in attested
    /\ MembersVouchedFor
    /\ ActiveIsVoter
    /\ AddedPeersAreVoters

\* A step that changes no membership and no view: it may cost a leader, store
\* votes, list trusted peers and let a coordinator become active whose node is
\* a voter in its view.
MemberQuiet ==
    /\ UNCHANGED <<member, view, conf>>
    /\ attested \subseteq attested'
    /\ \A n \in Nodes : voted[n] => voted'[n]
    /\ \A c \in Nodes : leader'[c] \in {leader[c], NoNode}
    /\ \A n \in Nodes : todo'[n] \subseteq todo[n] \union trusted[n]
    /\ \A n \in Nodes : state'[n] = "ClusterActive" =>
            state[n] = "ClusterActive" \/ n \in view[n].voters
    /\ \A n \in Nodes : added_peers'[n] \subseteq added_peers[n]

\* Such steps preserve MemberInv; a trusted peer has been attested (BootInv).
LEMMA MemberQuietStep == BootInv /\ MemberInv /\ MemberQuiet => MemberInv'
<1>. SUFFICES ASSUME BootInv, MemberInv, MemberQuiet PROVE MemberInv'
  BY SMTT(30)
<1>1. ClusterInv'
  BY SMTT(30) DEF MemberInv, ClusterInv, MemberQuiet
<1>2. \A n \in Nodes : \A p \in todo'[n] : <<n, p>> \in attested'
  BY ZenonT(30) DEF MemberInv, BootInv, MemberQuiet
<1>3. MembersVouchedFor'
  BY Zenon DEF MemberInv, MembersVouchedFor, MemberQuiet
<1>4. ActiveIsVoter'
  BY DEF MemberInv, ActiveIsVoter, MemberQuiet
<1>5. AddedPeersAreVoters'
  BY DEF MemberInv, AddedPeersAreVoters, MemberQuiet
<1>. QED  BY <1>1, <1>2, <1>3, <1>4, <1>5 DEF MemberInv

\* A handler that returns another state than CLUSTER_ACTIVE, or polls again,
\* lists no peer and activates no coordinator.
LEMMA GotoMember ==
    ASSUME TypeInv, NEW n \in Nodes,
           \/ \E s \in CoordinatorState : Goto(n, s) /\ (s = "ClusterActive" => n \in view[n].voters)
           \/ PollAgain(n)
    PROVE  /\ \A k \in Nodes : todo'[k] \subseteq todo[k] \union trusted[k]
           /\ \A k \in Nodes : state'[k] = "ClusterActive" =>
                  state[k] = "ClusterActive" \/ k \in view[k].voters
BY DEF TypeInv, TypeOK, Goto, PollAgain

\* handle_joining returns CLUSTER_ACTIVE only to a voter: a node with a
\* membership is in it, and not as a learner.
LEMMA JoinedIsVoter ==
    ASSUME ClusterInv, NEW n \in Nodes, Joined(n)
    PROVE  n \in view[n].voters
BY SMTT(30) DEF ClusterInv, Joined, get_node_state

\* All coordinator steps but three change no membership.
LEMMA CoordinatorMemberQuiet ==
    ASSUME TypeInv, MemberInv, NEW n \in Nodes, CoordinatorStep(n),
           ~BootstrapSucceeds(n), ~AddLearner(n), ~PromoteLearner(n)
    PROVE  MemberQuiet
<1>. DEFINE Quiet == /\ \A k \in Nodes : todo'[k] \subseteq todo[k] \union trusted[k]
                     /\ \A k \in Nodes : state'[k] = "ClusterActive" =>
                            state[k] = "ClusterActive" \/ k \in view[k].voters
<1>1. UNCHANGED <<attested, raftVars, added_peers>>
  BY ZenonT(30) DEF CoordinatorStep, trustVars, handle_waiting_for_peers, BeginScan, ScanPeer,
     NoClusterFound, BeginReadySet, CollectPeer, handle_coordinating_bootstrap,
     handle_waiting_for_bootstrap, BootstrapWaitTimeout, handle_bootstrapping, BootstrapFails,
     handle_joining, BeginAddPeers, LearnerCaughtUp, AddPeerFails
<1>. SUFFICES Quiet
  BY <1>1, SMTT(30) DEF MemberQuiet, raftVars
<1>2. CASE PollAgain(n) \/ \E s \in CoordinatorState \ {"ClusterActive"} : Goto(n, s)
  BY <1>2, GotoMember, SMTT(30)
<1>3. CASE handle_joining(n)
  <2>1. Goto(n, "WaitingForPeers") \/ PollAgain(n) \/ (Joined(n) /\ Goto(n, "ClusterActive"))
    BY <1>3, SMTT(30) DEF handle_joining
  <2>2. CASE Joined(n) /\ Goto(n, "ClusterActive")
    BY <2>2, JoinedIsVoter, GotoMember, SMTT(30) DEF MemberInv, CoordinatorState
  <2>. QED  BY <1>2, <2>1, <2>2 DEF CoordinatorState
<1>4. CASE BeginScan(n) \/ BeginAddPeers(n) \/ LearnerCaughtUp(n)
  BY <1>4, SMTT(60) DEF TypeInv, TypeOK, BeginScan, BeginAddPeers, LearnerCaughtUp, NewPeers
<1>5. CASE BeginReadySet(n)
  BY <1>5, Zenon DEF TypeInv, TypeOK, BeginReadySet, BeginCollect
<1>6. CASE AddPeerFails(n)
  BY <1>6, ZenonT(30) DEF TypeInv, TypeOK, AddPeerFails, NextPeer
<1>7. CASE CollectPeer(n)
  BY <1>7, SMTT(60) DEF TypeInv, TypeOK, CollectPeer
<1>8. CASE ScanPeer(n)
  <2>1. Goto(n, "Joining") \/ (todo' = [todo EXCEPT ![n] = @ \ {Min(todo[n])}] /\ UNCHANGED state)
    BY <1>8, ZenonT(30) DEF ScanPeer
  <2>. QED  BY <1>2, <2>1, SMTT(60) DEF TypeInv, TypeOK, CoordinatorState
<1>9. CASE handle_bootstrapping(n)
  BY <1>2, <1>9, Zenon DEF TypeInv, TypeOK, handle_bootstrapping, CoordinatorState
<1>. QED
  BY <1>2, <1>3, <1>4, <1>5, <1>6, <1>7, <1>8, <1>9, ZenonT(30)
     DEF CoordinatorStep, CoordinatorState, handle_waiting_for_peers, NoClusterFound,
         handle_coordinating_bootstrap, handle_waiting_for_bootstrap, BootstrapWaitTimeout,
         BootstrapFails

\* initialize_cluster: a node that never voted founds its own cluster, with
\* members it attested.
LEMMA SucceedMember ==
    ASSUME TypeInv, BootInv, MemberInv, NEW n \in Nodes, BootstrapSucceeds(n)
    PROVE  MemberInv'
<1>. DEFINE c == [voters |-> ready[n] \union {n}, learners |-> {}]
<1>1. /\ ~voted[n] /\ member' = [member EXCEPT ![n] = n]
      /\ view' = [view EXCEPT ![n] = c] /\ conf' = [conf EXCEPT ![n] = c]
      /\ voted' = [voted EXCEPT ![n] = TRUE]
      /\ UNCHANGED <<leader, attested, added_peers>>
  BY Zenon DEF BootstrapSucceeds, initialize_cluster, CanInitialize, trustVars
<1>2. /\ todo' = [todo EXCEPT ![n] = {}]
      /\ state' = [state EXCEPT ![n] = "ClusterActive"]
  BY SMTT(30) DEF BootstrapSucceeds, Goto
<1>3. member[n] = NoNode /\ conf[n] = NoConfig /\ view[n] = NoConfig
  BY <1>1 DEF MemberInv, ClusterInv
<1>4. c.voters = ready[n] \union {n} /\ c.learners = {}
  OBVIOUS
<1>5. n # NoNode /\ conf[n].voters = {} /\ view[n].voters = {}
  BY <1>3, NodesAssumption, SMTT(30) DEF NoConfig, NoNode
<1>. HIDE DEF c
<1>6. ClusterInv'
  <2>0. /\ member'[n] = n /\ view'[n] = c /\ conf'[n] = c /\ voted'[n]
        /\ \A k \in Nodes \ {n} : /\ member'[k] = member[k] /\ view'[k] = view[k]
                                  /\ conf'[k] = conf[k] /\ voted'[k] = voted[k]
    BY <1>1, SMTT(30) DEF TypeInv, TypeOK, RaftTypeOK
  <2>1. \A k \in Nodes : ~voted'[k] => member'[k] = NoNode /\ conf'[k] = NoConfig
    BY <2>0, SMTT(30) DEF MemberInv, ClusterInv
  <2>2. \A k \in Nodes : member'[k] = NoNode => view'[k] = NoConfig
    BY <1>5, <2>0, SMTT(30) DEF MemberInv, ClusterInv
  <2>3. \A k \in Nodes : member'[k] # NoNode => view'[k].voters \subseteq conf'[member'[k]].voters
    <3>. SUFFICES ASSUME NEW k \in Nodes, k # n, member[k] # NoNode
                  PROVE  view[k].voters \subseteq conf'[member[k]].voters
      BY <2>0, SMTT(30)
    <3>1. member[k] \in Nodes /\ view[k].voters \subseteq conf[member[k]].voters
      BY SMTT(30) DEF TypeInv, TypeOK, RaftTypeOK, MemberInv, ClusterInv
    <3>. QED  BY <1>5, <2>0, <3>1, SMTT(30)
  <2>4. \A k \in Nodes : view'[k] # NoConfig => k \in view'[k].voters \union view'[k].learners
    BY <1>4, <2>0, SMTT(60) DEF MemberInv, ClusterInv
  <2>5. \A k \in Nodes : leader'[k] # NoNode =>
            member'[leader'[k]] = k /\ leader'[k] \in conf'[k].voters
    <3>. SUFFICES ASSUME NEW k \in Nodes, leader[k] # NoNode
                  PROVE  member'[leader[k]] = k /\ leader[k] \in conf'[k].voters
      BY <1>1
    <3>1. member[leader[k]] = k /\ leader[k] \in conf[k].voters /\ leader[k] \in Nodes
      BY SMTT(30) DEF TypeInv, TypeOK, RaftTypeOK, MemberInv, ClusterInv
    <3>2. k # n /\ k # NoNode
      BY <1>5, <3>1, NodesAssumption DEF NoNode
    <3>. QED  BY <1>3, <2>0, <3>1, <3>2
  <2>. QED  BY <2>1, <2>2, <2>3, <2>4, <2>5, SMTT(30) DEF ClusterInv
<1>7. \A k \in Nodes : \A p \in todo'[k] : <<k, p>> \in attested'
  BY <1>1, <1>2, Zenon DEF TypeInv, TypeOK, MemberInv
<1>8. MembersVouchedFor'
  <2>. SUFFICES ASSUME NEW d \in Nodes, NEW m \in (conf'[d].voters \union conf'[d].learners) \ {d}
                PROVE  \E v \in conf'[d].voters : <<v, m>> \in attested
    BY <1>1 DEF MembersVouchedFor
  <2>1. CASE d = n
    <3>1. conf'[n] = c
      BY <1>1 DEF TypeInv, TypeOK, RaftTypeOK
    <3>2. m \in ready[n] \ {n}
      BY <1>4, <2>1, <3>1, SMTT(30)
    <3>3. <<n, m>> \in attested
      BY <3>2, ZenonT(30) DEF BootInv, Mutual
    <3>. QED  BY <1>4, <2>1, <3>1, <3>3, SMTT(30)
  <2>2. CASE d # n
    <3>1. conf'[d] = conf[d]
      BY <1>1, <2>2 DEF TypeInv, TypeOK, RaftTypeOK
    <3>. QED  BY <3>1 DEF MemberInv, MembersVouchedFor
  <2>. QED  BY <2>1, <2>2, SMTT(30)
<1>9. ActiveIsVoter'
  BY <1>1, <1>2, <1>4, SMTT(30) DEF TypeInv, TypeOK, RaftTypeOK, MemberInv, ActiveIsVoter
<1>10. AddedPeersAreVoters'
  BY <1>1, <1>3, <1>5 DEF TypeInv, TypeOK, RaftTypeOK, MemberInv, AddedPeersAreVoters
<1>. QED  BY <1>6, <1>7, <1>8, <1>9, <1>10, SMTT(30) DEF MemberInv

\* Views and memberships that only grow keep active coordinators voters and
\* added peers members.
LEMMA MembersKept ==
    ASSUME TypeInv, MemberInv, UNCHANGED <<state, member>>,
           \A k \in Nodes : /\ view[k].voters \subseteq view'[k].voters
                            /\ conf[k].voters \subseteq conf'[k].voters
    PROVE  /\ ActiveIsVoter'
           /\ UNCHANGED added_peers => AddedPeersAreVoters'
<1>1. ActiveIsVoter'
  BY SMTT(30) DEF MemberInv, ActiveIsVoter
<1>2. ASSUME UNCHANGED added_peers  PROVE AddedPeersAreVoters'
  <2>1. \A k \in Nodes : member[k] # NoNode => member[k] \in Nodes
    BY SMTT(30) DEF TypeInv, TypeOK, RaftTypeOK
  <2>. QED  BY <1>2, <2>1, SMTT(30) DEF MemberInv, AddedPeersAreVoters
<1>. QED  BY <1>1, <1>2, SMTT(30)

\* A leader is a voter of the cluster it follows.
LEMMA LeaderIsVoter ==
    ASSUME TypeInv, ClusterInv, NEW n \in Nodes, is_leader(n)
    PROVE  member[n] \in Nodes /\ n \in conf[member[n]].voters
<1>1. member[n] \in Nodes /\ leader[member[n]] = n /\ n # NoNode
  BY NodesAssumption, SMTT(30) DEF TypeInv, TypeOK, RaftTypeOK, is_leader, NoNode
<1>. QED  BY <1>1 DEF ClusterInv

\* A membership change by a leader that keeps the voters and brings in at most
\* one peer, one that the leader attested.
LEMMA MembershipChange ==
    ASSUME TypeInv, MemberInv, NEW n \in Nodes, NEW p \in Nodes, NEW c \in Config,
           SetMembership(n, c), <<n, p>> \in attested, UNCHANGED attested,
           conf[member[n]].voters \subseteq c.voters,
           c.voters \union c.learners \subseteq
               conf[member[n]].voters \union conf[member[n]].learners \union {p}
    PROVE  /\ ClusterInv' /\ MembersVouchedFor'
           /\ conf'[member[n]] = c /\ UNCHANGED member
           /\ \A k \in Nodes : /\ view[k].voters \subseteq view'[k].voters
                               /\ conf[k].voters \subseteq conf'[k].voters
<1>. DEFINE d == member[n]
<1>1. d \in Nodes /\ d # NoNode /\ n \in conf[d].voters
  BY LeaderIsVoter, NodesAssumption, SMTT(30) DEF MemberInv, SetMembership, CanCommit, NoNode
<1>2. /\ conf' = [conf EXCEPT ![d] = c] /\ view' = [view EXCEPT ![n] = c]
      /\ UNCHANGED <<member, voted, leader>>
  BY SMTT(30) DEF SetMembership
<1>3. conf'[d] = c /\ view'[n] = c
  BY <1>1, <1>2, SMTT(30) DEF TypeInv, TypeOK, RaftTypeOK
<1>4. \A k \in Nodes : conf[k].voters \subseteq conf'[k].voters
  BY <1>1, <1>2, SMTT(30) DEF TypeInv, TypeOK, RaftTypeOK
<1>5. \A k \in Nodes : view[k].voters \subseteq view'[k].voters
  BY <1>1, <1>2, ZenonT(30) DEF TypeInv, TypeOK, RaftTypeOK, MemberInv, ClusterInv
<1>6. conf[d].voters # {} /\ voted[d] /\ NoConfig.voters = {}
  BY <1>1, SMTT(60) DEF NoConfig, MemberInv, ClusterInv
<1>7. ClusterInv'
  <2>1. \A k \in Nodes : ~voted'[k] => member'[k] = NoNode /\ conf'[k] = NoConfig
    BY <1>1, <1>2, <1>6, ZenonT(30) DEF TypeInv, TypeOK, RaftTypeOK, MemberInv, ClusterInv
  <2>2. \A k \in Nodes : member'[k] = NoNode => view'[k] = NoConfig
    BY <1>1, <1>2, ZenonT(30) DEF TypeInv, TypeOK, RaftTypeOK, MemberInv, ClusterInv
  <2>3. \A k \in Nodes : member'[k] # NoNode => view'[k].voters \subseteq conf'[member'[k]].voters
    <3>. SUFFICES ASSUME NEW k \in Nodes, member[k] # NoNode
                  PROVE  view'[k].voters \subseteq conf'[member[k]].voters
      BY <1>2
    <3>1. CASE k = n
      BY <1>3, <3>1, SMTT(30)
    <3>2. CASE k # n
      <4>1. view'[k] = view[k] /\ member[k] \in Nodes
        BY <1>2, <3>2, SMTT(30) DEF TypeInv, TypeOK, RaftTypeOK
      <4>2. view[k].voters \subseteq conf[member[k]].voters
        BY SMTT(30) DEF MemberInv, ClusterInv
      <4>. QED  BY <1>4, <4>1, <4>2, SMTT(30)
    <3>. QED  BY <3>1, <3>2, ZenonT(30)
  <2>4. \A k \in Nodes : view'[k] # NoConfig => k \in view'[k].voters \union view'[k].learners
    BY <1>1, <1>2, ZenonT(30) DEF TypeInv, TypeOK, RaftTypeOK, MemberInv, ClusterInv
  <2>5. \A k \in Nodes : leader'[k] # NoNode =>
            member'[leader'[k]] = k /\ leader'[k] \in conf'[k].voters
    BY <1>2, <1>4, Zenon DEF MemberInv, ClusterInv
  <2>. QED  BY <2>1, <2>2, <2>3, <2>4, <2>5 DEF ClusterInv
<1>8. MembersVouchedFor'
  <2>. SUFFICES ASSUME NEW k \in Nodes, NEW m \in (conf'[k].voters \union conf'[k].learners) \ {k}
                PROVE  \E v \in conf'[k].voters : <<v, m>> \in attested
    BY DEF MembersVouchedFor
  <2>1. CASE m \in conf[k].voters \union conf[k].learners
    BY <1>4, <2>1, SMTT(30) DEF MemberInv, MembersVouchedFor
  <2>2. CASE m \notin conf[k].voters \union conf[k].learners
    <3>1. k = d /\ m = p
      BY <1>2, <1>3, <2>2 DEF TypeInv, TypeOK, RaftTypeOK
    <3>. QED  BY <1>1, <1>3, <3>1, SMTT(30)
  <2>. QED  BY <2>1, <2>2, SMTT(30)
<1>. QED  BY <1>2, <1>3, <1>4, <1>5, <1>7, <1>8, SMTT(30)

\* What the head of a loop over new peers is: a node that the leader attested.
LEMMA NextIsAttested ==
    ASSUME TypeInv, MemberInv, NEW n \in Nodes, step[n] \in {"add", "catchup", "promote"}
    PROVE  Min(todo[n]) \in Nodes /\ <<n, Min(todo[n])>> \in attested
<1>1. Min(todo[n]) \in todo[n] /\ todo[n] \subseteq Nodes
  BY MinLeast, SMTT(30) DEF TypeInv, TypeOK, LoopInv
<1>. QED  BY <1>1 DEF MemberInv

\* add_learner: the peer enters the membership.
LEMMA AddLearnerMember ==
    ASSUME TypeInv, MemberInv, NEW n \in Nodes, AddLearner(n)
    PROVE  MemberInv' /\ \A k \in Nodes : conf[k].voters \subseteq conf'[k].voters
<1>. DEFINE p == Min(todo[n])
            old == conf[member[n]]
            new == [old EXCEPT !.learners = @ \union ({p} \ old.voters)]
<1>1. p \in Nodes /\ <<n, p>> \in attested
  BY NextIsAttested DEF AddLearner, At
<1>2. SetMembership(n, new)
  BY DEF AddLearner, add_learner
<1>3. old \in Config
  BY <1>2, LeaderConfig DEF SetMembership
<1>4. UNCHANGED <<attested, todo, state, added_peers>>
  BY DEF AddLearner, trustVars
<1>. HIDE DEF p, old
<1>5. new \in Config /\ new.voters = old.voters /\ new.learners \subseteq old.learners \union {p}
  BY <1>1, <1>3, SMTT(30) DEF Config
<1>. HIDE DEF new
<1>6. /\ ClusterInv' /\ MembersVouchedFor' /\ UNCHANGED member
      /\ \A k \in Nodes : /\ view[k].voters \subseteq view'[k].voters
                          /\ conf[k].voters \subseteq conf'[k].voters
  BY <1>1, <1>2, <1>4, <1>5, MembershipChange, SMTT(30) DEF old
<1>. QED  BY <1>4, <1>6, MembersKept DEF MemberInv

\* change_membership: the peer becomes a voter, and is noted as added.
LEMMA PromoteLearnerMember ==
    ASSUME TypeInv, MemberInv, NEW n \in Nodes, PromoteLearner(n)
    PROVE  MemberInv' /\ \A k \in Nodes : conf[k].voters \subseteq conf'[k].voters
<1>. DEFINE p == Min(todo[n])
            old == conf[member[n]]
            new == [voters |-> old.voters \union {p}, learners |-> old.learners \ {p}]
<1>1. p \in Nodes /\ <<n, p>> \in attested
  BY NextIsAttested, SMTT(30) DEF PromoteLearner, At
<1>2. SetMembership(n, new)
  BY ZenonT(30) DEF PromoteLearner, change_membership
<1>3. old \in Config /\ member[n] # NoNode
  BY <1>2, LeaderConfig, Zenon DEF SetMembership, CanCommit, is_leader
<1>4. /\ UNCHANGED <<attested, state>>
      /\ added_peers' = [added_peers EXCEPT ![n] = @ \union {p}]
      /\ todo' = [todo EXCEPT ![n] = @ \ {p}]
  BY DEF PromoteLearner, NextPeer, trustVars
<1>. HIDE DEF p, old
<1>5. /\ new \in Config /\ new.voters = old.voters \union {p}
      /\ new.learners \subseteq old.learners
  BY <1>1, <1>3, SMTT(30) DEF Config
<1>. HIDE DEF new
<1>6. /\ ClusterInv' /\ MembersVouchedFor' /\ UNCHANGED member
      /\ conf'[member[n]] = new
      /\ \A k \in Nodes : /\ view[k].voters \subseteq view'[k].voters
                          /\ conf[k].voters \subseteq conf'[k].voters
  BY <1>1, <1>2, <1>4, <1>5, MembershipChange DEF old
<1>7. \A k \in Nodes : \A q \in todo'[k] : <<k, q>> \in attested'
  BY <1>4, ZenonT(30) DEF TypeInv, TypeOK, MemberInv
<1>8. ActiveIsVoter'
  BY <1>4, <1>6, MembersKept, Zenon DEF MemberInv
<1>9. AddedPeersAreVoters'
  <2>. SUFFICES ASSUME NEW k \in Nodes, NEW q \in added_peers'[k]
                PROVE  member[k] # NoNode /\ q \in conf'[member[k]].voters
    BY <1>6 DEF AddedPeersAreVoters
  <2>1. CASE q \in added_peers[k]
    <3>1. member[k] # NoNode /\ q \in conf[member[k]].voters /\ member[k] \in Nodes
      BY <2>1, SMTT(30) DEF MemberInv, AddedPeersAreVoters, TypeInv, TypeOK, RaftTypeOK
    <3>. QED  BY <1>6, <3>1, SMTT(30)
  <2>2. CASE q \notin added_peers[k]
    <3>1. k = n /\ q = p
      BY <1>4, <2>2 DEF TypeInv, TypeOK
    <3>. QED  BY <1>3, <1>5, <1>6, <3>1
  <2>. QED  BY <2>1, <2>2
<1>. QED  BY <1>6, <1>7, <1>8, <1>9 DEF MemberInv

\* Elections and replication.
LEMMA RaftStepMember ==
    ASSUME TypeInv, BootInv, MemberInv, RaftStep
    PROVE  MemberInv'
<1>0. UNCHANGED <<attested, todo, state, added_peers, trusted>>
  BY DEF RaftStep, trustVars, coordVars
<1>1. ASSUME NEW n \in Nodes, NEW m \in Nodes, RequestVote(n, m)  PROVE MemberInv'
  <2>1. MemberQuiet
    BY <1>0, <1>1, SMTT(30) DEF MemberQuiet, RequestVote, TypeInv, TypeOK, RaftTypeOK
  <2>. QED  BY <2>1, MemberQuietStep, SMTT(30)
<1>2. ASSUME NEW n \in Nodes, Elect(n)  PROVE MemberInv'
  <2>. DEFINE c == member[n]
  <2>1. c \in Nodes /\ n \in conf[c].voters /\ leader' = [leader EXCEPT ![c] = n]
    BY <1>2, SMTT(30) DEF Elect, IsCandidate, TypeInv, TypeOK, RaftTypeOK
  <2>2. UNCHANGED <<member, view, voted, conf>>
    BY <1>2, SMTT(30) DEF Elect
  <2>3. ClusterInv'
    BY <2>1, <2>2, SMTT(30) DEF TypeInv, TypeOK, RaftTypeOK, MemberInv, ClusterInv
  <2>. QED
    BY <1>0, <2>2, <2>3, ZenonT(30) DEF MemberInv, MembersVouchedFor, ActiveIsVoter, AddedPeersAreVoters
<1>3. ASSUME NEW n \in Nodes, NEW m \in Nodes, Replicate(n, m)  PROVE MemberInv'
  <2>. DEFINE c == member[n]
  <2>1. c \in Nodes /\ c # NoNode /\ member[m] \in {NoNode, c}
    BY <1>3 DEF Replicate, is_leader, TypeInv, TypeOK, RaftTypeOK
  <2>2. /\ member' = [member EXCEPT ![m] = c] /\ view' = [view EXCEPT ![m] = conf[c]]
        /\ voted' = [voted EXCEPT ![m] = TRUE] /\ UNCHANGED <<conf, leader>>
        /\ m \in conf[c].voters \union conf[c].learners
    BY <1>3, SMTT(30) DEF Replicate
  <2>. HIDE DEF c
  <2>3. view[m].voters \subseteq conf[c].voters
    BY <2>1, SMTT(60) DEF MemberInv, ClusterInv, NoConfig
  <2>4. /\ member'[m] = c /\ view'[m] = conf[c] /\ voted'[m]
        /\ \A k \in Nodes \ {m} : member'[k] = member[k] /\ view'[k] = view[k] /\ voted'[k] = voted[k]
    BY <2>2 DEF TypeInv, TypeOK, RaftTypeOK
  <2>5. ClusterInv'
    <3>1. \A k \in Nodes : leader[k] # NoNode => member'[leader[k]] = k
      <4>. SUFFICES ASSUME NEW k \in Nodes, leader[k] # NoNode  PROVE member'[leader[k]] = k
        OBVIOUS
      <4>1. leader[k] \in Nodes /\ member[leader[k]] = k /\ k # NoNode
        BY NodesAssumption, SMTT(30) DEF TypeInv, TypeOK, RaftTypeOK, MemberInv, ClusterInv, NoNode
      <4>. QED  BY <2>1, <2>4, <4>1
    <3>. QED  BY <2>1, <2>2, <2>4, <3>1 DEF MemberInv, ClusterInv
  <2>6. ActiveIsVoter'
    BY <1>0, <2>3, <2>4, SMTT(30) DEF MemberInv, ActiveIsVoter
  <2>7. AddedPeersAreVoters'
    BY <1>0, <2>1, <2>2, <2>4, SMTT(30) DEF MemberInv, AddedPeersAreVoters
  <2>. QED  BY <1>0, <2>2, <2>5, <2>6, <2>7, SMTT(30) DEF MemberInv, MembersVouchedFor
<1>. QED  BY <1>1, <1>2, <1>3 DEF RaftStep

\* MemberInv holds initially ...
LEMMA InitMember == Init => MemberInv
<1>. SUFFICES ASSUME Init PROVE MemberInv
  BY SMTT(30)
<1>1. ClusterInv
  BY DEF Init, RaftInit, ClusterInv, NoConfig
<1>2. MembersVouchedFor
  BY DEF Init, RaftInit, MembersVouchedFor, NoConfig
<1>. QED  BY <1>1, <1>2 DEF Init, CoordInit, MemberInv, ActiveIsVoter, AddedPeersAreVoters

\* ... and every step preserves it.
LEMMA NextMember == TypeInv /\ BootInv /\ MemberInv /\ [Next]_vars => MemberInv'
<1>. SUFFICES ASSUME TypeInv, BootInv, MemberInv, [Next]_vars PROVE MemberInv'
  BY SMTT(30)
<1>1. ASSUME NEW n \in Nodes, CoordinatorStep(n)  PROVE MemberInv'
  BY <1>1, CoordinatorMemberQuiet, MemberQuietStep, SucceedMember, AddLearnerMember,
     PromoteLearnerMember
<1>2. CASE RaftStep
  BY <1>2, RaftStepMember, SMTT(30)
<1>3. CASE UNCHANGED vars
  BY <1>3, MemberQuietStep, Zenon DEF MemberQuiet, vars, trustVars, raftVars, coordVars
<1>4. ASSUME NEW n \in Nodes, Launch(n) \/ Relaunch(n)  PROVE MemberInv'
  BY <1>4, MemberQuietStep
     DEF MemberQuiet, Launch, StartRaft, Relaunch, Restart, trustVars, coordVars
<1>5. ASSUME NEW n \in Nodes, NEW m \in Nodes, Attest(n, m) \/ Revoke(n, m)  PROVE MemberInv'
  BY <1>5, MemberQuietStep
     DEF MemberQuiet, Attest, MarkTrusted, Revoke, RevokeTrust, raftVars, coordVars
<1>6. ASSUME NEW n \in Nodes, LeaderStepsDown(n)  PROVE MemberInv'
  <2>1. MemberQuiet
    BY <1>6 DEF MemberQuiet, LeaderStepsDown, StepDown, trustVars, coordVars, TypeInv, TypeOK,
                RaftTypeOK
  <2>. QED  BY <2>1, MemberQuietStep
<1>7. ASSUME NEW n \in Nodes, Crash(n)  PROVE MemberInv'
  <2>1. /\ \A k \in Nodes : todo'[k] \subseteq todo[k]
        /\ \A k \in Nodes : state'[k] = "ClusterActive" => state[k] = "ClusterActive"
        /\ \A k \in Nodes : added_peers'[k] \subseteq added_peers[k]
    BY <1>7 DEF Crash, Goto, TypeInv, TypeOK
  <2>2. /\ UNCHANGED <<member, view, conf, voted, attested>>
        /\ \A c \in Nodes : leader'[c] \in {leader[c], NoNode}
    BY <1>7, SMTT(30) DEF Crash, RaftCrash, ForgetTrust
  <2>3. MemberQuiet
    BY <2>1, <2>2 DEF MemberQuiet
  <2>. QED  BY <2>3, MemberQuietStep
<1>. QED  BY <1>1, <1>2, <1>3, <1>4, <1>5, <1>6, <1>7, SMTT(30) DEF Next

\* No step takes a voter out of a membership: only three change one at all, and
\* initialize finds an empty one.
LEMMA VotersGrow ==
    ASSUME TypeInv, MemberInv, Next, NEW c \in Nodes
    PROVE  conf[c].voters \subseteq conf'[c].voters
<1>1. ASSUME NEW n \in Nodes, BootstrapSucceeds(n)
      PROVE  conf[c].voters \subseteq conf'[c].voters
  <2>1. conf[n].voters = {}
    BY <1>1, SMTT(30) DEF BootstrapSucceeds, initialize_cluster, CanInitialize, MemberInv, ClusterInv, NoConfig
  <2>2. c # n => conf'[c] = conf[c]
    BY <1>1, ZenonT(30) DEF BootstrapSucceeds, initialize_cluster, TypeInv, TypeOK, RaftTypeOK
  <2>. QED  BY <2>1, <2>2, SMTT(30)
<1>2. ASSUME NEW n \in Nodes, CoordinatorStep(n)
      PROVE  conf[c].voters \subseteq conf'[c].voters
  BY <1>1, <1>2, CoordinatorMemberQuiet, AddLearnerMember, PromoteLearnerMember, ZenonT(30) DEF MemberQuiet
<1>3. ASSUME ~ \E n \in Nodes : CoordinatorStep(n)  PROVE UNCHANGED conf
  BY <1>3, Zenon DEF Next, RaftStep, RequestVote, Elect, Replicate, Launch, StartRaft, Relaunch, Restart,
              Attest, Revoke, LeaderStepsDown, StepDown, Crash, RaftCrash, raftVars
<1>. QED  BY <1>2, <1>3

\* Whoever leads, however often leaders step down or crash and whatever trust is
\* revoked, no cluster ever loses a voter (add_peer, initialize_cluster).
THEOREM VotersAreKept == Spec => VotersOnlyGrow
<1>1. TypeInv /\ MemberInv /\ [Next]_vars =>
          [\A c \in Nodes : conf[c].voters \subseteq conf'[c].voters]_vars
  BY VotersGrow
<1>. QED
  BY <1>1, InitType, NextType, InitBoot, NextBoot, InitMember, NextMember, PTL
     DEF Spec, VotersOnlyGrow

\* Trust gates membership for ever: every member of every cluster but the node
\* that initialised it, bootstrapped with it or added by any later leader, was
\* attested by a voter of that cluster.
THEOREM MembersWereAttested == Spec => []MembersVouchedFor
<1>1. MemberInv => MembersVouchedFor
  BY DEF MemberInv
<1>. QED
  BY <1>1, InitType, NextType, InitBoot, NextBoot, InitMember, NextMember, PTL DEF Spec

\* A coordinator that reports CLUSTER_ACTIVE belongs to a node that votes, by its
\* own view, whatever its cluster does afterwards.
THEOREM ActiveCoordinatorsVote == Spec => []ActiveIsVoter
<1>1. MemberInv => ActiveIsVoter
  BY DEF MemberInv
<1>. QED
  BY <1>1, InitType, NextType, InitBoot, NextBoot, InitMember, NextMember, PTL DEF Spec

\* What a coordinator notes in added_peers, and never tries to add again, has
\* become a voter and still is one.
THEOREM AddedPeersVote == Spec => []AddedPeersAreVoters
<1>1. MemberInv => AddedPeersAreVoters
  BY DEF MemberInv
<1>. QED
  BY <1>1, InitType, NextType, InitBoot, NextBoot, InitMember, NextMember, PTL DEF Spec
=============================================================================
