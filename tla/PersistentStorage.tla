------------------------- MODULE PersistentStorage -------------------------
(***************************************************************************)
(* PersistentGuardianStore (consensus/src/persistent_storage.rs): the      *)
(* file-backed Raft log, vote, committed index, state machine and          *)
(* snapshot of one node, with crashes at any point.                        *)
(*                                                                         *)
(* OpenRaft calls the store from three tasks: the core (vote, committed,   *)
(* log), the state machine worker (apply, install_snapshot) and a snapshot *)
(* builder.  Each has one call at a time, cut where a crash or another     *)
(* task can see a difference; atomic_write is one step.                    *)
(*                                                                         *)
(* A log id is its index, 0 for None: the ids compared are committed ones, *)
(* and a committed index has one entry.  An entry is its term.  data, the  *)
(* key-value map, is left out: apply never writes it, so data.bin only     *)
(* exists or does not.                                                     *)
(***************************************************************************)
EXTENDS Naturals, FiniteSets, FiniteSetsExt

CONSTANTS
    MaxIndex, MaxTerm,      \* bounds on the log
    MaxBatch,               \* entries in one append or apply call
    MembershipIndices,      \* which entries are membership changes
    KeepLogs,               \* OpenRaft keeps that many entries behind a snapshot
    MaxSnapshots,           \* bound on build_snapshot calls in one process
    Installs,               \* does a leader send snapshots to this node?
    PowerLoss,              \* may the machine lose power?
    MaxCrashes

ASSUME BoundsAssumption ==
    /\ MaxIndex \in Nat \ {0}
    /\ MaxTerm \in Nat \ {0}
    /\ MaxBatch \in Nat \ {0}
    /\ KeepLogs \in Nat
    /\ MaxSnapshots \in Nat
    /\ MaxCrashes \in Nat
    /\ MembershipIndices \subseteq 1..MaxIndex
    /\ Installs \in BOOLEAN
    /\ PowerLoss \in BOOLEAN

VARIABLES
    mem,        \* LogStoreInner: vote, committed, log, last_purged
    sm,         \* state_machine in memory: applied, membership
    snap,       \* current_snapshot in memory
    snapshot_idx,
    disk,       \* the files as the process sees them
    synced,     \* the logs directory as the last directory fsync left it
    dirty,      \* log files whose content was never written back
    coreOp, smOp, buildOp,   \* the calls in progress
    life,       \* "running", "down" or "failed" (load_state returned an error)
    acked,      \* history: the vote, committed index and entries acknowledged
    built,      \* history: metas of the snapshots built
    faults,     \* history: "power" was lost, a crash cut an "install"
    crashes

memory == <<mem, sm, snap, snapshot_idx>>
history == <<acked, built, faults, crashes>>
vars == <<memory, disk, synced, dirty, coreOp, smOp, buildOp, life, history>>

Index == 1..MaxIndex
Term == 1..MaxTerm
None == 0
Torn == MaxTerm + 1     \* a file whose content did not reach the disk
EmptyLog == [i \in Index |-> None]
EmptySm == [applied |-> 0, membership |-> 0]
NoMeta == [last |-> 0, membership |-> 0, id |-> <<0, 0>>]
Idle == [kind |-> "idle", arg |-> 0, keys |-> {}]
EmptyMem == [vote |-> 0, committed |-> 0, log |-> EmptyLog, last_purged |-> 0]

Init ==
    /\ mem = EmptyMem
    /\ sm = EmptySm
    /\ snap = NoMeta
    /\ snapshot_idx = 0
    /\ disk = [vote |-> 0, committed |-> 0, log |-> EmptyLog,
               sm |-> EmptySm, meta |-> NoMeta, data |-> FALSE]
    /\ synced = EmptyLog
    /\ dirty = {}
    /\ coreOp = Idle
    /\ smOp = [kind |-> "idle", meta |-> NoMeta]
    /\ buildOp = [kind |-> "idle", meta |-> NoMeta]
    /\ life = "running"
    /\ acked = [vote |-> 0, committed |-> 0, log |-> EmptyLog]
    /\ built = {}
    /\ faults = {}
    /\ crashes = 0

Sm == [applied : 0..MaxIndex, membership : 0..MaxIndex]
Meta == [last : 0..MaxIndex, membership : 0..MaxIndex, id : (0..MaxIndex) \X Nat]

TypeOK ==
    /\ mem \in [vote : 0..MaxTerm, committed : 0..MaxIndex,
                log : [Index -> 0..MaxTerm], last_purged : 0..MaxIndex]
    /\ sm \in Sm
    /\ snap \in Meta
    /\ snapshot_idx \in Nat
    /\ disk \in [vote : 0..MaxTerm, committed : 0..MaxIndex, log : [Index -> 0..Torn],
                 sm : Sm, meta : Meta, data : BOOLEAN]
    /\ synced \in [Index -> 0..Torn]
    /\ dirty \subseteq Index
    /\ coreOp \in [kind : {"idle", "vote", "committed", "append", "delete"},
                   arg : Nat, keys : SUBSET Index]
    /\ smOp \in [kind : {"idle", "apply", "meta", "data", "sm", "publish"}, meta : Meta]
    /\ buildOp \in [kind : {"idle", "meta", "data", "publish"}, meta : Meta]
    /\ life \in {"running", "down", "failed"}
    /\ acked \in [vote : 0..MaxTerm, committed : 0..MaxIndex, log : [Index -> 0..MaxTerm]]
    /\ built \subseteq Meta
    /\ faults \subseteq {"power", "install"}
    /\ crashes \in 0..MaxCrashes

-----------------------------------------------------------------------------
Entries(log) == {i \in Index : log[i] # None}

\* get_log_state: the last entry, or the purge marker when there is none.
last_log_id == IF Entries(mem.log) = {} THEN mem.last_purged ELSE Max(Entries(mem.log))

CoreIdle == life = "running" /\ coreOp.kind = "idle"
SmIdle == life = "running" /\ smOp.kind = "idle"

\* Nobody relies any longer on the entries at indices S.
Unacked(S) == [acked EXCEPT !.log = [j \in Index |-> IF j \in S THEN None ELSE @[j]]]

StartCore(kind, arg, keys) == coreOp' = [kind |-> kind, arg |-> arg, keys |-> keys]

-----------------------------------------------------------------------------
\* The core task.

\* Mutant: only the cache is written.
save_vote_CacheOnly(v) ==
    /\ CoreIdle
    /\ v > mem.vote
    /\ StartCore("vote", v, {})
    /\ UNCHANGED <<memory, disk, synced, dirty, smOp, buildOp, life, history>>

\* save_vote: vote.bin, then the cache.
save_vote(v) ==
    /\ CoreIdle
    /\ v > mem.vote
    /\ disk' = [disk EXCEPT !.vote = v]
    /\ StartCore("vote", v, {})
    /\ UNCHANGED <<memory, synced, dirty, smOp, buildOp, life, history>>

VoteCached ==
    /\ life = "running" /\ coreOp.kind = "vote"
    /\ mem' = [mem EXCEPT !.vote = coreOp.arg]
    /\ acked' = [acked EXCEPT !.vote = coreOp.arg]
    /\ coreOp' = Idle
    /\ UNCHANGED <<sm, snap, snapshot_idx, disk, synced, dirty, smOp, buildOp, life, built, faults, crashes>>

\* save_committed: committed.bin, then the cache.  OpenRaft commits
\* entries of its log beyond what is committed or installed.
save_committed(c) ==
    LET known == Max({mem.committed, sm.applied}) IN
    /\ CoreIdle
    /\ c > known
    /\ \A i \in (known + 1)..c : mem.log[i] # None
    /\ disk' = [disk EXCEPT !.committed = c]
    /\ StartCore("committed", c, {})
    /\ UNCHANGED <<memory, synced, dirty, smOp, buildOp, life, history>>

CommittedCached ==
    /\ life = "running" /\ coreOp.kind = "committed"
    /\ mem' = [mem EXCEPT !.committed = coreOp.arg]
    /\ acked' = [acked EXCEPT !.committed = coreOp.arg]
    /\ coreOp' = Idle
    /\ UNCHANGED <<sm, snap, snapshot_idx, disk, synced, dirty, smOp, buildOp, life, built, faults, crashes>>

\* OpenRaft calls append with the entries that follow its last log id.
BeginAppend(count) ==
    LET first == last_log_id + 1 IN
    /\ CoreIdle
    /\ mem.vote > 0
    /\ sm.applied <= last_log_id
    /\ first + count - 1 <= MaxIndex
    /\ StartCore("append", mem.vote, first..(first + count - 1))
    /\ UNCHANGED <<memory, disk, synced, dirty, smOp, buildOp, life, history>>

\* persist_log_entry without fsync, then the cache.
AppendEntry ==
    LET i == Min(coreOp.keys) IN
    /\ life = "running" /\ coreOp.kind = "append" /\ coreOp.keys # {}
    /\ disk' = [disk EXCEPT !.log[i] = coreOp.arg]
    /\ dirty' = dirty \union {i}
    /\ mem' = [mem EXCEPT !.log[i] = coreOp.arg]
    /\ coreOp' = [coreOp EXCEPT !.keys = @ \ {i}]
    /\ UNCHANGED <<sm, snap, snapshot_idx, synced, smOp, buildOp, life, history>>

\* fsync_log_entries syncs the directory; the callback acknowledges the entries.
append ==
    /\ life = "running" /\ coreOp.kind = "append" /\ coreOp.keys = {}
    /\ synced' = disk.log
    /\ acked' = [acked EXCEPT !.log = mem.log]
    /\ coreOp' = Idle
    /\ UNCHANGED <<memory, disk, dirty, smOp, buildOp, life, built, faults, crashes>>

\* Mutant: the range starts one entry too low.
truncate_OffByOne(i) ==
    /\ CoreIdle
    /\ i \in Entries(mem.log)
    /\ i > mem.committed /\ i > sm.applied
    /\ acked' = Unacked({j \in Index : j >= i})
    /\ StartCore("delete", i, {j \in Entries(mem.log) : j >= i - 1})
    /\ UNCHANGED <<memory, disk, synced, dirty, smOp, buildOp, life, built, faults, crashes>>

\* truncate(log_id): OpenRaft removes uncommitted entries only.
truncate(i) ==
    /\ CoreIdle
    /\ i \in Entries(mem.log)
    /\ i > mem.committed /\ i > sm.applied
    /\ acked' = Unacked({j \in Index : j >= i})
    /\ StartCore("delete", i, {j \in Entries(mem.log) : j >= i})
    /\ UNCHANGED <<memory, disk, synced, dirty, smOp, buildOp, life, built, faults, crashes>>

\* What OpenRaft may purge: applied entries, KeepLogs behind the snapshot, or,
\* once a snapshot is installed that the log does not reach, all of the log;
\* not while the worker installs a snapshot.
MayPurge(i) ==
    /\ smOp.kind \in {"idle", "apply"}
    /\ \/ i <= sm.applied /\ i + KeepLogs <= snap.last
       \/ i = sm.applied /\ last_log_id < i

\* purge(log_id): the marker first (in memory only), then the entries.
purge(i) ==
    /\ CoreIdle
    /\ i > mem.last_purged
    /\ MayPurge(i)
    /\ mem' = [mem EXCEPT !.last_purged = i]
    /\ acked' = Unacked({j \in Index : j <= i})
    /\ StartCore("delete", i, {j \in Entries(mem.log) : j <= i})
    /\ UNCHANGED <<sm, snap, snapshot_idx, disk, synced, dirty, smOp, buildOp, life, built, faults, crashes>>

\* Mutant: the file stays.
delete_log_entry_CacheOnly ==
    LET i == Min(coreOp.keys) IN
    /\ life = "running" /\ coreOp.kind = "delete" /\ coreOp.keys # {}
    /\ mem' = [mem EXCEPT !.log[i] = None]
    /\ coreOp' = [coreOp EXCEPT !.keys = @ \ {i}]
    /\ UNCHANGED <<sm, snap, snapshot_idx, disk, synced, dirty, smOp, buildOp, life, history>>

\* One turn of the loops of truncate and purge: keys in ascending order.
delete_log_entry ==
    LET i == Min(coreOp.keys) IN
    /\ life = "running" /\ coreOp.kind = "delete" /\ coreOp.keys # {}
    /\ mem' = [mem EXCEPT !.log[i] = None]
    /\ disk' = [disk EXCEPT !.log[i] = None]
    /\ dirty' = dirty \ {i}
    /\ coreOp' = [coreOp EXCEPT !.keys = @ \ {i}]
    /\ UNCHANGED <<sm, snap, snapshot_idx, synced, smOp, buildOp, life, history>>

Deleted ==
    /\ life = "running" /\ coreOp.kind = "delete" /\ coreOp.keys = {}
    /\ coreOp' = Idle
    /\ UNCHANGED <<memory, disk, synced, dirty, smOp, buildOp, life, history>>

-----------------------------------------------------------------------------
\* The state machine worker.

LastMembership(i) == Max({0} \union {j \in MembershipIndices : j <= i})

\* apply: the entries change the state machine under its write lock ...
apply(count) ==
    LET last == sm.applied + count
        entries == (sm.applied + 1)..last
        memberships == MembershipIndices \cap entries IN
    /\ SmIdle
    /\ last <= mem.committed
    /\ \A i \in entries : mem.log[i] # None
    /\ sm' = [applied |-> last,
              membership |-> IF memberships = {} THEN sm.membership ELSE Max(memberships)]
    /\ smOp' = [smOp EXCEPT !.kind = "apply"]
    /\ UNCHANGED <<mem, snap, snapshot_idx, disk, synced, dirty, coreOp, buildOp, life, history>>

\* Mutant: state_machine.bin is not written.
PersistSm_Skipped ==
    /\ life = "running" /\ smOp.kind \in {"apply", "sm"}
    /\ smOp' = [smOp EXCEPT !.kind = IF @ = "apply" THEN "idle" ELSE "publish"]
    /\ UNCHANGED <<memory, disk, synced, dirty, coreOp, buildOp, life, history>>

\* ... which is then written to state_machine.bin.
PersistSm ==
    /\ life = "running" /\ smOp.kind \in {"apply", "sm"}
    /\ disk' = [disk EXCEPT !.sm = sm]
    /\ smOp' = [smOp EXCEPT !.kind = IF @ = "apply" THEN "idle" ELSE "publish"]
    /\ UNCHANGED <<memory, synced, dirty, coreOp, buildOp, life, history>>

\* install_snapshot: a snapshot of the committed prefix up to i, from a leader.
\* OpenRaft ignores one that brings nothing new.
install_snapshot(i) ==
    LET meta == [last |-> i, membership |-> LastMembership(i), id |-> <<i, 0>>] IN
    /\ Installs
    /\ SmIdle
    /\ mem.vote > 0
    /\ i > last_log_id /\ i > sm.applied
    /\ coreOp.kind = "idle"
    /\ sm' = [applied |-> meta.last, membership |-> meta.membership]
    /\ smOp' = [kind |-> "meta", meta |-> meta]
    /\ UNCHANGED <<mem, snap, snapshot_idx, disk, synced, dirty, coreOp, buildOp, life, history>>

InstallMeta ==
    /\ life = "running" /\ smOp.kind = "meta"
    /\ disk' = [disk EXCEPT !.meta = smOp.meta]
    /\ smOp' = [smOp EXCEPT !.kind = "data"]
    /\ UNCHANGED <<memory, synced, dirty, coreOp, buildOp, life, history>>

InstallData ==
    /\ life = "running" /\ smOp.kind = "data"
    /\ disk' = [disk EXCEPT !.data = TRUE]
    /\ smOp' = [smOp EXCEPT !.kind = "sm"]
    /\ UNCHANGED <<memory, synced, dirty, coreOp, buildOp, life, history>>

InstallPublish ==
    /\ life = "running" /\ smOp.kind = "publish"
    /\ snap' = smOp.meta
    /\ smOp' = [smOp EXCEPT !.kind = "idle"]
    /\ UNCHANGED <<mem, sm, snapshot_idx, disk, synced, dirty, coreOp, buildOp, life, history>>

-----------------------------------------------------------------------------
\* The snapshot builder, concurrent with both.

\* Mutants: the membership of the previous snapshot; an id without the log id.
SnapshotMeta_OldMembership == [last |-> sm.applied, membership |-> snap.membership,
                               id |-> <<sm.applied, snapshot_idx + 1>>]
SnapshotMeta_CounterId == [last |-> sm.applied, membership |-> sm.membership,
                           id |-> <<0, snapshot_idx + 1>>]

\* The meta read under the state machine's lock; the id carries log id and counter.
SnapshotMeta == [last |-> sm.applied, membership |-> sm.membership,
                 id |-> <<sm.applied, snapshot_idx + 1>>]

build_snapshot ==
    LET meta == SnapshotMeta IN
    /\ life = "running" /\ buildOp.kind = "idle"
    /\ snapshot_idx < MaxSnapshots
    /\ snapshot_idx' = snapshot_idx + 1
    /\ buildOp' = [kind |-> "meta", meta |-> meta]
    /\ built' = built \union {meta}
    /\ UNCHANGED <<mem, sm, snap, disk, synced, dirty, coreOp, smOp, life, acked, faults, crashes>>

BuildMeta ==
    /\ life = "running" /\ buildOp.kind = "meta"
    /\ disk' = [disk EXCEPT !.meta = buildOp.meta]
    /\ buildOp' = [buildOp EXCEPT !.kind = "data"]
    /\ UNCHANGED <<memory, synced, dirty, coreOp, smOp, life, history>>

BuildData ==
    /\ life = "running" /\ buildOp.kind = "data"
    /\ disk' = [disk EXCEPT !.data = TRUE]
    /\ buildOp' = [buildOp EXCEPT !.kind = "publish"]
    /\ UNCHANGED <<memory, synced, dirty, coreOp, smOp, life, history>>

BuildPublish ==
    /\ life = "running" /\ buildOp.kind = "publish"
    /\ snap' = buildOp.meta
    /\ buildOp' = [buildOp EXCEPT !.kind = "idle"]
    /\ UNCHANGED <<mem, sm, snapshot_idx, disk, synced, dirty, coreOp, smOp, life, history>>

-----------------------------------------------------------------------------
\* Crashes and recovery.

\* What a power loss leaves of log file i: the name as it is or as last synced,
\* the content only if it was written back.
AfterPowerLoss(i) ==
    LET name == {disk.log[i], synced[i]} IN
    IF i \in dirty THEN name \union {Torn} ELSE name

InstallCut == IF smOp.kind \in {"meta", "data", "sm"} THEN {"install"} ELSE {}

\* The process ends: memory and calls in progress are gone.
Down ==
    /\ life = "running"
    /\ crashes < MaxCrashes
    /\ crashes' = crashes + 1
    /\ life' = "down"
    /\ mem' = EmptyMem
    /\ sm' = EmptySm
    /\ snap' = NoMeta
    /\ snapshot_idx' = 0
    /\ coreOp' = Idle
    /\ smOp' = [kind |-> "idle", meta |-> NoMeta]
    /\ buildOp' = [kind |-> "idle", meta |-> NoMeta]
    /\ UNCHANGED <<acked, built>>

Crash ==
    /\ Down
    /\ faults' = faults \union InstallCut
    /\ UNCHANGED <<disk, synced, dirty>>

PowerFailure ==
    /\ PowerLoss
    /\ Down
    /\ faults' = faults \union {"power"} \union InstallCut
    /\ \E log \in [Index -> 0..Torn] :
          /\ \A i \in Index : log[i] \in AfterPowerLoss(i)
          /\ disk' = [disk EXCEPT !.log = log]
          /\ synced' = log
    /\ dirty' = {}

\* The kernel writes the content of log file i back.
WriteBack(i) ==
    /\ PowerLoss /\ i \in dirty
    /\ dirty' = dirty \ {i}
    /\ UNCHANGED <<memory, disk, synced, coreOp, smOp, buildOp, life, history>>

\* new and load_state.  A log file that does not deserialise is an error.
load_state ==
    /\ life = "down"
    /\ \A i \in Index : disk.log[i] # Torn
    /\ life' = "running"
    /\ mem' = [vote |-> disk.vote, committed |-> disk.committed, log |-> disk.log, last_purged |-> 0]
    /\ sm' = disk.sm
    /\ snap' = IF disk.data THEN disk.meta ELSE NoMeta
    /\ UNCHANGED <<snapshot_idx, disk, synced, dirty, coreOp, smOp, buildOp, history>>

LoadFails ==
    /\ life = "down"
    /\ \E i \in Index : disk.log[i] = Torn
    /\ life' = "failed"
    /\ UNCHANGED <<memory, disk, synced, dirty, coreOp, smOp, buildOp, history>>

CoreStep ==
    \/ \E v \in Term : save_vote(v)
    \/ VoteCached
    \/ \E c \in Index : save_committed(c)
    \/ CommittedCached
    \/ \E count \in 1..MaxBatch : BeginAppend(count)
    \/ AppendEntry
    \/ append
    \/ \E i \in Index : truncate(i)
    \/ \E i \in Index : purge(i)
    \/ delete_log_entry
    \/ Deleted

SmStep ==
    \/ \E count \in 1..MaxBatch : apply(count)
    \/ PersistSm
    \/ \E i \in Index : install_snapshot(i)
    \/ InstallMeta
    \/ InstallData
    \/ InstallPublish

BuildStep ==
    \/ build_snapshot
    \/ BuildMeta
    \/ BuildData
    \/ BuildPublish

Next ==
    \/ CoreStep
    \/ SmStep
    \/ BuildStep
    \/ Crash
    \/ PowerFailure
    \/ \E i \in Index : WriteBack(i)
    \/ load_state
    \/ LoadFails

Spec == Init /\ [][Next]_vars

-----------------------------------------------------------------------------
\* A vote or committed index that save_vote or save_committed returned for is
\* read back after every crash, power loss included.
AckedVoteSurvives ==
    life = "running" => mem.vote >= acked.vote /\ mem.committed >= acked.committed

\* An entry whose append was acknowledged, and that was neither truncated nor
\* purged since, is read back with its term after every crash of the process.
AckedEntriesSurvive ==
    life = "running" /\ "power" \notin faults =>
        \A i \in Index : acked.log[i] # None => mem.log[i] = acked.log[i]

\* Every committed entry is in the recovered state machine or still in the log,
\* so that OpenRaft can apply it again, although state_machine.bin, snapshot
\* and log are written by different tasks.  (Crashes of the process, outside
\* install_snapshot.)
ReplayPossible ==
    life = "running" /\ faults = {} =>
        \A i \in (sm.applied + 1)..mem.committed : mem.log[i] # None

\* Between calls the cache holds exactly what is in the logs directory.
LogMatchesDisk == CoreIdle => mem.log = disk.log

\* State machine, state_machine.bin, meta.bin and current_snapshot each carry
\* the membership in force at their own log id, whatever ran concurrently.
MembershipMatchesLogId ==
    /\ \A s \in {sm, disk.sm} : s.membership = LastMembership(s.applied)
    /\ \A m \in {snap, disk.meta} : m.membership = LastMembership(m.last)

\* Two snapshots with the same id have the same content, although the counter
\* in the id starts again with every process.
SnapshotIdsIdentify == \A a, b \in built : a.id = b.id => a = b

\* The log read back after a crash has no gap and starts right after the purge
\* marker: OpenRaft addresses entries by index over that range.
LogIsRange == CoreIdle => Entries(mem.log) = (mem.last_purged + 1)..last_log_id
=============================================================================
