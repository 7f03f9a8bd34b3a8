# A TLA+ verification of tee-guardian

tee-guardian runs on a set of confidential VMs. The nodes attest each other,
the attested nodes form a Raft cluster (OpenRaft), and later nodes are added to
it once they are attested. These modules model that path: evidence,
attestation, gossip, trust, bootstrap, membership, and the storage that must
survive a crash, with the registry client, logging and platform tools beside
it. TLC checks small instances; TLAPS proves the safety properties of all these
parts for every value of the constants.

## The system and its parts

| Part | State | Operations | Talks to |
|---|---|---|---|
| `TrustedPeerRegistry` (bootstrap/trusted_peers.rs) | trusted node ids, in memory | mark_trusted, revoke_trust, clear | written by the attestation handler; read by coordinator, Router, health endpoint, gossip |
| `RaftCoordinator` (consensus/coordinator.rs) | one of seven states, a deadline, added_peers | one handler per state | health endpoints of peers, its RaftNode, the registry |
| `RaftNode`, `Router`, Raft API (consensus/raft_node.rs, network.rs, raft_api_server.rs) | OpenRaft's log, vote, membership, metrics | initialize_cluster, add_peer, RPCs | peers, through the trust gate of `send_rpc` |
| Health endpoint (guardian/api_server.rs, common/api/types.rs) | none of its own | health_handler | read by other coordinators |
| `PersistentGuardianStore` (consensus/persistent_storage.rs) | files and their caches | vote, committed, append, truncate, purge, apply, build and install snapshot, load | called by three OpenRaft tasks |
| `PeerRegistry`, verifier, event handler (peer_registry, bootstrap/attestation.rs) | pending and verified records, event channel | register, verify, cleanup, handle_event | clients; TrustedPeerRegistry |
| Gossip manager, cache, guardian node API (bootstrap/gossip, guardian_node_api.rs) | two caches, cached evidence | advertise, pull, validate | peers, measurement registry |
| Measurement registry client (peer_registry/measurement.rs) | none | request_with_retry | external service |
| TEE backends (peer_registry/backend), instance ids | none | generate, parse and verify evidence | hardware and vendor libraries; used by gossip and PeerRegistry |
| Certificates, platform tools (certificates, guardian/bin) | none | find the certificate chain of a quote and show it | hardware and vendor libraries |
| Logging (common/logging.rs) | log file, buffer of entries, log context | write, rotate, push, set context | everything; OpenObserve |
| Metrics, observability API, CLI, Nix | counters, or none | export, deploy | operators |

What is hard here, and what the properties are about:

- Two coordinators scan their peers at different moments, one `await` per peer,
  and each decides alone whether it is the lowest ready node.
- Trust and health change between a scan, its re-verification and the
  `initialize` call.
- A node restarts with its Raft log and vote but with an empty trust registry
  and a coordinator that starts over.
- `add_peer` is two membership changes with a wait between them.
- The storage keeps a cache beside several files that three tasks write.
- Attestation takes several locks one after another while other requests of
  the same instance run.
- Advertisements carry timestamps of clocks that differ, handlers overtake each
  other while they verify evidence, and a process has two caches.
- Evidence is parsed by fixed offsets, in two quote versions, and compared
  field by field, with casts to `u8`, optional fields and defaults.
- The log layers release their lock between a push and the flush it calls for.

## Modules

| Module | Models |
|---|---|
| `TrustedPeers` | trusted_peers.rs, for all nodes |
| `RaftNode` | raft_node.rs, the gate in network.rs, the Raft API's missing node, the health endpoint; OpenRaft as the code uses it |
| `Coordinator` | coordinator.rs, composed with the two modules above and a faulty environment |
| `CoordinatorProofs` | theorems about `Coordinator`: types and bootstrap |
| `MembershipProofs` | theorems about `Coordinator`: membership |
| `PersistentStorage` | persistent_storage.rs, one node, with crashes and power loss |
| `PersistentStorageProofs` | theorems about `PersistentStorage` |
| `ReplayProofs` | the theorem that committed entries can be replayed |
| `PeerRegistry` | registry.rs, verifier.rs, the handler and cleanup task of attestation.rs, one node |
| `AdvertCache` | what a cache of advertisements promises (abstract) |
| `Gossip` | gossip/manager.rs, cache.rs, types.rs, the advertise and peers endpoints, the start-up order of main.rs, all nodes |
| `GossipProofs` | theorems about `Gossip`, the refinement of `AdvertCache` among them |
| `MeasurementClient` | measurement.rs: one call with its retries |
| `AttestationProofs` | theorems about `PeerRegistry` and `MeasurementClient` |
| `Evidence` | backend/tdx.rs and sev_snp.rs, identity.rs, the evidence of advertisements, what snp_info shows of a report |
| `QuoteCerts` | quote_certs_parse.rs and one run of tdx_info or snp_info |
| `EvidenceProofs` | theorems about `Evidence` and `QuoteCerts`, the loop of `parse_pem_chain` among them |
| `Logging` | logging.rs: threads, both layers, the worker, the log context |
| `LoggingProofs` | theorems about `Logging` |
| `MCCoordinator`, `MCPeerRegistry` | instances for TLC |
| `MCNodeLocal` | instances of the parts that work alone: storage, client, logging, evidence, tools |
| `MCNodeProtocols` | instances of the two protocols: attestation and gossip |

`MCNodeLocal` and `MCNodeProtocols` put several specifications into one run.
Their parts share no variables. The initial state chooses a part, and only that
part takes steps, so the state space is the sum of those of the parts and each
property is about its own part.

A definition whose name is followed by a suffix (`HasQuorum_OffByOne`) is a
mutant: a plausible wrong version of the definition after it. It shows that a
property notices the mistake, and no specification uses it.

### Coordinator

`state[n]` is the `CoordinatorState` and `step[n]` the place inside its
handler. A handler is cut where it awaits a health query or a Raft call. One
query of one peer is one step, so other nodes move between two queries of a
scan. The loops walk a `BTreeMap`, hence in ascending id. `todo[n]` is what is left
of a loop, `ready[n]` the ready set (later `bootstrap_peers`). `Instant`
deadlines are counted in polls (`timer`); a small number of polls is enough
because only "before" and "after" the deadline differ. A sleep that
changes nothing is no step. `inits` records the accepted `initialize` calls and
`attested` every trust that was ever granted; both are history and no action
reads them.

The environment attests and revokes (`Attest`, `Revoke`), loses health queries
(`LossyHealth`), crashes and restarts processes, and makes leaders step down.
`budget` bounds the number of such faults. After a restart the API answers
while the Raft node does not exist yet (`life[n] = "api"`): then health says
`Bootstrapping`, although the disk may hold a cluster.

`Attest` is any call of `mark_trusted`, for the pairs the constant `Attestable`
allows. Today its only caller is the event handler of attestation.rs, and that one
does not complete (see the run `registry_trust`). The coordinator is checked
against the registry's interface, which is what it is written for.

### Assumptions on OpenRaft

OpenRaft 0.9 is a library, and these facts about it are assumptions:

- `initialize` is accepted only on a node with an empty log and a default vote.
- Only a leader that reaches a majority commits a membership; a new leader has
  the newest committed membership.
- `add_learner(.., blocking)` returns once the learner has the log, or when the
  node is no longer leader.
- Votes and logs are not exchanged between two clusters. That matters only
  after two different initialisations, which is already the violation.
- Terms are left out: a cluster has at most one leader that can commit.
- Storage: entries are purged only when applied and `KeepLogs` behind the
  snapshot, or when an installed snapshot passes the whole log, and not while
  one is being installed. `save_committed` only moves forward.
- Storage: a snapshot is installed only when it is beyond everything that is
  logged and applied.
- Storage: an apply call has at most `KeepLogs` entries (1000 by default; the
  runs use 1). `ReplayPossible` needs this, and the theorem about it has it as
  its hypothesis: with `MaxBatch = 2` and `KeepLogs = 1` TLC finds a snapshot of
  a state that is not in `state_machine.bin` yet, whose log is purged before a
  crash.

### PersistentStorage

`disk` is what the process reads from its files and `mem`, `sm`, `snap` are the caches.
Each OpenRaft task has at most one call in progress (`coreOp`, `smOp`,
`buildOp`), cut after each file it writes. `synced` and `dirty` record what a
power loss may undo: names since the last directory fsync, and the content of
log files, which `persist_log_entry` does not fsync. A log file that does not
deserialise makes `load_state` fail (`LoadFails`), and the process does not
start. An entry is its term and a log id its index. The key-value data is left
out because `apply` does not write it.

### PeerRegistry

A request is a record in `req` that moves from lock to lock. Challenges are
numbered, so each draw is new. Quotes are genuine and show their instance and
the challenge they were made for; whether the signature check succeeds is
nondeterministic because it fetches collateral. The broadcast channel keeps
`Capacity` events and then loses the oldest. A panic in the handler ends the
process because of `panic = "abort"` in Cargo.toml. `reject` and `revoke` are
called from tests only and are left out.

### Gossip and AdvertCache

An advertisement is its author and its timestamp; every node reads its own
clock (`Now(n)`, ahead of true time by `Skew[n]`). `up[n]` is how far a process
got: main.rs starts the API, asks the measurement registry for its nodes (the
process ends if that fails or lists none) and then calls `initial_advertise`.
`toSend`, `wire` and `verifying` are the three places where an advertisement
waits: in the loop over the registry nodes, in the network, and in a handler
that awaits `verify_evidence`. Handlers finish in any order. The pull loop is
cut at its awaits as well: a peer is picked, its address read from the trusted
peers, its list received (at most `max_peers_per_message`), and each entry is
validated on its own. When the peer lost its trust between the first two steps,
the `expect` of manager.rs:206 ends the process, which the model follows.

`AdvertCache` says what either cache promises: at most one advertisement of
each other node, one which that node made, exchanged only for a later one, and
forgotten when the process ends. `Gossip` implements it twice, with
`known <- apiCache` and with `known <- mgrCache` (`CachesKeepPromise`).

The evidence inside an advertisement is the subject of `Evidence`; in `Gossip`
its verification succeeds or, on a faulty network, fails.

### Evidence and QuoteCerts

`Evidence` follows one piece of evidence from the machine that generates it, by
way of at most one defect, to the verdict of a node, either for an advertisement or
for a full verification against a policy. Offsets and lengths of quote bodies
are those of the code; the layout of the hardware is written down
separately (`BodyLayout`, the first byte of each field), so a wrong offset is a
wrong field. Byte strings are abstract, a hash is the sequence of what was
hashed, bit masks are sets. The vendor library returns some claims or fails;
`u8` keeps its width as `ByteRange`. Assumed of the hardware: quotes are of
version 4 or 5 and hold a whole body.

`QuoteCerts` does the same for the certificate chain: the numbers in length and
type fields decide which bytes are taken, a slice past the end is a panic, and
damaged quotes have one number changed, to another unsigned number. A
certificate parses or does not. The push loop of `parse_pem_chain` is the
recursive function `Pushed`.

### MeasurementClient and Logging

`MeasurementClient` is the loop of `request_with_retry` under any sequence of
responses and transport errors, with the remembered error that its final
`expect` relies on. The delay before an attempt keeps its width: the power of
two saturates at `U32MAX`. `Logging` has threads that emit events through the file
layer (BufWriter, retries, rotation) and the OpenObserve layer (push under the
lock, flush under the lock again), and the worker that posts batches. A write
that failed leaves its line in the BufWriter, so a retry can write it twice;
`NoLineLost` bounds how often. `check_and_rotate` reads through a handle that
`OpenMode` opened for appending only; the read fails and the file is never
truncated, so rotation loses nothing and bounds nothing.

## Runs

Passing runs:

| Run | Instance | Shows |
|---|---|---|
| `coord_formation` | 3 nodes, no faults, fair | `EveryNodeBecomesVoter`: from empty registries to one cluster of three voters |
| `coord_crash` | 3 nodes, quorum 3, lost queries, and a crash with restart or a revocation (954,000 states) | `TypeOK`, `LowestBootstraps`, `MutuallyAttested`, `BootstrapAgreement` |
| `coord_late_node` | a cluster of 3 and a fourth node; a leader steps down or a node loses its trust | `MembersVouchedFor`, `ActiveIsVoter`, `AddedPeersAreVoters`, `VotersOnlyGrow` |
| `coord_failover` | 3 nodes, quorum 2, one crash for good, fair | `FailoverBeforeInitialize`, `BootstrapWaitEnds` |
| `node_local`, storage | 2 indices, 2 terms, one crash or power loss at any step | `AckedVoteSurvives`, `AckedEntriesSurvive`, `ReplayPossible`, `LogMatchesDisk`, `MembershipMatchesLogId`, `SnapshotIdsIdentify` |
| `node_local`, client | 3 retries, any outcomes | `ResultIsTheLastAnswer`, `RetriesOnlyTransient` |
| `node_local`, logging | 2 threads, 4 events, batches of 2, 2 failed writes | `NoLineLost`, `EntriesConserved`, `FullBufferIsFlushed` |
| `node_local`, evidence | 8 kinds of machine, 23 policies, 30 sets of claims, one defect | `OwnAdvertisementVerifies`, `AcceptedAdvertisementIsBound`, `PeersSeeOwnHash`, `AcceptedTcbIsRecent`, `AcceptedMeasurementIsTrusted` |
| `node_local`, tools | quotes of versions 4 and 5, 5 chains, one wrong number | `ChainIsFound`; with `LocalTypeOK` for all five parts (1,089,000 states) |
| `node_protocols`, attestation | 2 instances, 2 namespaces, 2 requests at once, channel of 1, fair | `TypeOK`, `VerifiedIsWhitelisted`, `ChallengeUsedOnce`, `EventsFollowRecords`, `PendingEnds` |
| `node_protocols`, gossip | 3 nodes, clocks that differ, restarts, a revocation, reliable or faulty network, fair | `GossipTypeOK`, `AcceptedIsCovered`, `NothingFromTheFuture`, `ServedWasPosted`, `CachesKeepPromise`, `AdvertisementArrives` |

Runs in which the code does not do what the repository says:

| Run | Property | What happens |
|---|---|---|
| `coord_split_brain` | `BootstrapAgreement` | With four nodes, node 1 initialises with {1,2,3,4}. Node 2 then no longer counts node 1 as ready, finds itself the lowest of {2,3,4} and initialises too. coordinator.rs:8 says readiness "prevents split-brain". |
| `coord_stuck` | `VoterCoordinatorActive` | A node in COORDINATING_BOOTSTRAP when another node initialises stays there: that state never looks for a cluster. Raft makes it a voter all the same, but as a leader it would add nobody. |
| `coord_learner` | `LearnersPromoted` | If the leader changes between `add_learner` and `change_membership`, the peer stays a learner: learners count as current members, so every leader skips it. |
| `store_gap` | `LogIsRange` | `truncate` deletes in ascending order. A crash in the middle leaves the higher entries, and `load_state` reads a log with a gap. |
| `registry_trust` | `VerifiedBecomesTrusted` | Nothing ever sets `ip_address` of a `TeeRecord`, so the handler's `expect` panics on the first Verified event of its namespace. |
| `td_attributes` | `DebugIsTheAttribute` | `parse_raw` takes TD_ATTRIBUTES from bytes 32 to 40 of the body, inside mr_seam; the layout at tdx.rs:26 puts them at byte 120. `is_debug` then answers from a bit of mr_seam. |

### Bounds

Three nodes are the code's quorum and the least with an initialiser, a follower
and a third opinion. Four are needed for a late node and for two ready sets of
quorum size. `coord_failover` uses quorum 2 so that three
nodes are one more than the quorum. One crash and one restart suffice for each
place where a handler can be cut. In the storage, two indices give a
committed and an uncommitted entry, a snapshot behind and at the end of the
log, and an overwritten term.
Two requests are the least that cross in the registry's locks,
and two challenges the least of which one replaces the other. In gossip, the
registry lists one node, a second pulls from it with a clock that is ahead by
more than the tolerance, and a third restarts, so that two of its
advertisements overtake each other; the message limit is 1, so lists are cut;
three ticks with an hour of two ticks and a maximum age of 0 hours let an
advertisement become too old. Two log threads and batches of two are the least
where one thread fills the buffer that another flushes. `ByteRange` is 4, so
that a reported 5 wraps to 1, and `U32MAX` is 3, so that the third retry has a
saturated delay. Policies and claims differ from a good one in one
place each, since every check looks at one place. Runs whose cfg turns deadlock
checking off have a bounded environment and model sleeping loops as no step,
so behaviours end in a settled state. The theorems cover the other sizes for
the safety properties.

Node ids are compared, so the coordinator runs use no symmetry. `AttestedInit`
and `FormedInit` in `MCCoordinator` are states that `Init` reaches; they save
the interleavings of attestation.

### Fairness

Weak fairness of each coordinator's steps: `run` loops for ever, sleeps are
finite and a health query has a timeout. Weak fairness of election, vote
requests and replication to reachable peers: OpenRaft's timers and tasks. Weak
fairness of `Attest`: in the runs with fairness, attestation is what the system
is waiting for. None for crashes, restarts, revocations, step-downs or
clients. In the registry, `registry_trust` assumes that requests end, time
passes, and the handler and the cleanup task loop. `node_protocols` asks for
less: challenges expire and the cleanup task loops, which is all `PendingEnds`
rests on, whatever becomes of the requests. In gossip: weak fairness of the API's
steps of each node, since the runtime keeps running the handlers of a process
that is up; none for the manager's loops, clocks, crashes or attestation.
`AdvertisementArrives` is about a reliable network, where posts are not lost and
take less than a tick, because nothing repeats a post (manager.rs:294). The parts in `node_local` have safety
properties only.

## Proofs

All theorems use the named assumptions on constants in the modules they are
about; `Agreement` and `CommittedCanBeReplayed` state one hypothesis more. Few
of the invariants are inductive as they stand; each strengthening also passes
TLC as an invariant of a small instance.

### CoordinatorProofs and MembershipProofs

Proved, for every finite set of positive node ids, quorum,
deadline, attestation relation and number of crashes, restarts, revocations,
step-downs and lost queries:

- `TypeCorrect`: `Spec => []TypeOK`.
- `LowestNodeBootstraps`: `Spec => []LowestBootstraps`.
- `BootstrapIsMutual`: `Spec => []MutuallyAttested`.
- `Agreement`: if `Cardinality(Nodes) <= BOOTSTRAP_QUORUM` and nothing is
  revoked, `Spec => []BootstrapAgreement`. The run `coord_split_brain` shows that
  one more node breaks it.
- In `MembershipProofs`, `MembersWereAttested`, `ActiveCoordinatorsVote` and
  `AddedPeersVote`: the membership invariants `MembersVouchedFor`,
  `ActiveIsVoter` and `AddedPeersAreVoters`.
- In `MembershipProofs`, `VotersAreKept`: `Spec => VotersOnlyGrow`, an action
  property.

The strengthening:

- `TypeInv` adds to `TypeOK` that the loops of `add_peer` have a peer to work
  on and that a node that polls has time left; without it `Min(todo[n])` and
  `timer[n] - 1` could leave their types.
- `BootInv` adds what a ready set means while it is built: all its members are
  mutually attested with the node, because a peer enters only with an
  answer that names the node. After re-verification the node is no greater
  than any of them. Filtering by address only removes members, so both facts
  reach `initialize`, whatever happens in between. `attested` is used rather
  than `trusted` because trust may be gone by then.
- `AgreeInv` adds that a node about to initialise holds all other nodes in its
  set. With at most a quorum of nodes the quorum is everyone
  (`QuorumIsEveryone`), and without revocation the address filter drops no one.
- `MemberInv` is for membership. `ClusterInv`, its first part, says that a node
  that never voted follows no cluster and founded none, that views trail the
  membership of the cluster followed, and that a leader is a voter of the
  cluster it leads. So a view that shows a voter can be trusted, although the
  membership may have grown since. The rest says that the peers an `add_peer`
  loop still has to visit were attested by its node, which is the voter that
  vouches for them when the change is committed.

The type part is one lemma per kind of step; the others first show that most
steps are quiet, which means they change neither `inits`, memberships and views
nor a set that is ready to be used, and then treat collection,
re-verification, `initialize` and the two halves of `add_peer` one by one.

### GossipProofs

For every finite set of nodes, registry, clock skew, age limit, message limit
and number of starts and revocations:

- `GossipTypeCorrect`, `AcceptedStays`, `FutureStaysOut`, `OnlyPostsAreServed`:
  the four invariants of the run.
- `CachesImplementPromise`: `GossipSpec => CachesKeepPromise`, that is, both
  refinements of `AdvertCache`. Each step maps to `Make`, `Learn`, `Forget` or a
  stutter.

`PostInv` says where an advertisement can be and that its author made it. Its
core is that a post is handled once: what is being verified or is cached is no
longer on the wire, and what is still to be sent was not posted. `ListInv` says
the same of pulled lists. `ClockInv` says that what passed `validate_format`
stays in the tolerated past while its handler waits, because clocks only
advance; without it a late handler could store anything.

### AttestationProofs

Of `PeerRegistry`, for every number of instances, namespaces, concurrent requests and challenges
and every channel capacity: `RegistryTypeCorrect`, `OnlyListedAreVerified`,
`NoChallengeTwice` and `RecordsComeFirst`, the four invariants of the run.

`ListedInv` extends the whitelist check to pending records and to the copies
that requests carry from lock to lock. `DrawnInv` says that a challenge not yet
drawn is nowhere. `OnePlaceInv` is the argument for `ChallengeUsedOnce`: a drawn
challenge is in one place, a pending record, the one request that removed that
record, or a completed verification, and moves forward only. `EventInv` adds
that a request about to announce a verification has recorded it. Most steps are
calm: they touch none of the places a challenge can be in.

Of `MeasurementClient`, for every number of retries and every sequence of
answers: `ClientTypeCorrect`, `OnlyTransientFaultsAreRetried` and
`LastAnswerDecides`. `CallInv` says that a
call in progress has had one transient answer for each attempt, and that a call
which returned had one answer more, the one its result stands for. That the
`expect` behind the loop is never reached follows from the bound on `attempt`.
`ClientTypeCorrect` needs that every delay is a number. `saturating_pow` is a
recursive function: it has a value for every attempt (`PowersExist`), and each
lies within `U32MAX` (`PowersAreU32`); both look at the least attempt for which
that fails.

### PersistentStorageProofs and ReplayProofs

For every length of the log, number of terms, batch size, set of membership
entries, and number of snapshots, crashes and power losses: `StoreTypeCorrect`,
`VoteIsDurable`, `EntriesAreDurable`, `CacheIsDirectory`,
`MembershipIsConsistent` and `SnapshotIdsAreUnique`.

`VoteInv` says that vote.bin and committed.bin are never behind what was
acknowledged nor behind the cache, and that a call in progress has written its
argument. `LogInv` says that cache and directory are equal in every step of a
call, and that no append, truncate or purge in progress has an acknowledged
entry among its keys: appended indices lie beyond the last one, and truncated
and purged ones were given up at the call. `MetaInv` extends
`MembershipMatchesLogId` to metas on their way to a file; for `apply` it rests on
the lemma `AppliedMembership`, that the last membership among the applied
entries is the one in force at the new log id. `SnapshotIdsAreUnique` follows: the
id starts with the log id, and the log id determines the membership.

`CommittedCanBeReplayed`, in `ReplayProofs`, is `ReplayPossible`, for `MaxBatch <= KeepLogs`. Three
files move at their own pace, and `ReplayInv` bounds how far apart they get. The
state machine is ahead of `state_machine.bin` by at most one apply call
(`AheadInv`), hence so is a snapshot built from it (`SnapshotInv`). Purging stays
`KeepLogs` behind the snapshot, hence behind `state_machine.bin`, so the files
keep every committed entry that `state_machine.bin` lacks, and no delete in
progress has one among its keys (`NeededInv`). An install is the exception to
the bound on snapshots: it passes the whole log, and a crash inside it is
excluded by the property.

### LoggingProofs

For every set of threads and keys, batch size, number of attempts, of events
and of failed writes: `LogTypeCorrect`, `LinesAreKept`, `EntriesAreConserved`
and `FullBuffersAreFlushed`. `LineInv` counts: a line is in the file and the
BufWriter at most once for each attempt its thread has made, so `MAX_RETRIES`
bounds it. `EntryInv` says that posted batches, batches on their way and the
buffer, read as one sequence of sequences, hold each pushed entry once; push,
flush and post only move an entry along it. Both rest on `ThreadInv`: no two
threads work on the same event. `FullBufferIsFlushed` is inductive as it
stands: the thread whose push fills the buffer is the one about to flush.

### EvidenceProofs

Of `Evidence`, for every set of machines, policies and claims, and every width of the cast:
`EvidenceTypeCorrect`, `OwnAdvertisementsVerify`, `AdvertisementsAreBound`,
`PeersAgreeOnTheHash`, `AcceptedTcbsAreRecent` and
`AcceptedMeasurementsAreTrusted`.

The argument follows the evidence. `Slices` compares the offsets of `parse_raw`
with `BodyLayout` in both versions. `Carried` says what no defect of the model
changes: a quote that still parses is the machine's own body at the place its
version puts it. From these, `TdxParsed` and `SnpParsed` say that what a
parser returns are the machine's registers, or launch measurement and host
data, and `EvidenceInv` carries this through the stages. `AllPassed` turns a
verdict of `Ok` into every check having passed. For the TCB, `CastShrinks` is
the point: a cast to `u8` never makes a number larger, so what passes after the
cast passes before it.

Of `QuoteCerts`, for every set of chains and every length of a certificate:
`ToolTypeCorrect` and `ChainsAreFound`. `SignatureOfChain` says, for any numbers in a quote, that
what is found is a beginning of its chain and that no slice passes its end;
`WholeChain` and `IntactChain` say that with the numbers of an intact quote it
is the whole chain.

The push loop needs an induction over its input. Its recursive function is shown
to have a value for every number of blocks (`LoopRuns`, `PushedDef`), and each
result to extend the one before, by looking at the least number for which that
fails (`Least`), which needs no induction rule with an operator parameter.

### Only model-checked

- The liveness properties `EveryNodeBecomesVoter`, `FailoverBeforeInitialize`,
  `BootstrapWaitEnds`, `PendingEnds` and `AdvertisementArrives`: the prover has
  no rule for fairness and `ENABLED`.
- `LocalTypeOK` as one formula. Each of its conjuncts is proved of the
  specification it belongs to (`StoreTypeCorrect`, `ClientTypeCorrect`,
  `LogTypeCorrect`, `EvidenceTypeCorrect`, `ToolTypeCorrect`); that these
  specifications share no variable is only a matter of how `MCNodeLocal` puts
  them into one run.
- The properties of the runs that end in a violation: they do not hold.

## Disagreements seen and not given a run

- coordinator.rs:266 "Re-verify no cluster exists and we're still lowest": the code
  after it builds the ready set again and does not look for a cluster.
- The quorum is not counted again after the address filter
  (coordinator.rs:282), so a revocation at that point gives a smaller cluster
  than docs/bootstrap_sequence.md:201 "Quorum: minimum 3 nodes to bootstrap".
- raft_node.rs:80 says the coordinator calls `remove_peer`; nothing does.
- The purge marker is in memory only and is `None` after a restart.
- A crash inside `install_snapshot` leaves `state_machine.bin` older than the
  snapshot files; `ReplayPossible` excludes that case.
- Log file content is not fsynced, so a power loss can tear an acknowledged
  entry; `AckedEntriesSurvive` excludes power loss.
- Two concurrent first registrations of one instance get different challenges,
  and the second replaces the first (registry.rs:148).
- main.rs:49 calls the gossip cache "shared between API and gossip manager";
  the manager creates its own (gossip/manager.rs:68). So lists that a node
  pulled are not served on, which `ServedWasPosted` states.
- The pull loop's `expect` (gossip/manager.rs:206) ends the process when a peer
  loses its trust between being picked and having its address read. `revoke_trust`
  has no caller today.
- Log rotation never truncates (logging.rs:192), so the log file passes
  MAX_LOG_FILE_SIZE_MB.

## Not modelled

- Storage: `atomic_write` is one step, so the temporary names that snapshot build
  and install share are not seen; whether a build may still run when an install
  starts is decided by OpenRaft. Write errors (a full disk) end in OpenRaft's
  fatal state, which is not in the repository. The log readers change no state.
- Registry: `reject` and `revoke`, and `remove_peer` and `shutdown` of the Raft node, have no
  caller outside tests.
- Signatures, collateral and TCB evaluation are vendor libraries, modelled by
  their outcomes. X.509 and DER decoding fills fields that are only shown; a
  certificate parses or does not.
- The rate limiter of the log context: a call that it refuses changes nothing,
  so it is a step the model does not take. The layout of log lines, metrics and
  the observability API: nothing in the program reads what they write.
- Argument parsing, HTTP status codes, address and byte conversions: pure
  functions without state that the properties do not depend on.
- The quote endpoint: it asks the hardware and keeps nothing.
- The Python CLI and tests and the Nix images drive the system from outside.

## Running

    tlc -config CoordCrash.cfg MCCoordinator
    tlc -config NodeLocal.cfg MCNodeLocal
    tlc -config NodeProtocols.cfg MCNodeProtocols
    tlapm CoordinatorProofs.tla
    tlapm MembershipProofs.tla
    tlapm GossipProofs.tla
    tlapm AttestationProofs.tla
    tlapm PersistentStorageProofs.tla
    tlapm ReplayProofs.tla
    tlapm LoggingProofs.tla
    tlapm EvidenceProofs.tla

`PROJECT.json` lists the runs, the source lines of every definition, the
mutants, the hazards and the theorems.
