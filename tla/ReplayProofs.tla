---------------------------- MODULE ReplayProofs ----------------------------
(***************************************************************************)
(* ReplayPossible of PersistentStorage.  The state machine in memory runs  *)
(* ahead of state_machine.bin, snapshots are built from the former, and    *)
(* the log is purged behind the snapshots: what a crash leaves is enough   *)
(* only because one apply call brings no more entries than the log keeps.  *)
(***************************************************************************)
EXTENDS PersistentStorageProofs

\* install_snapshot has changed the state machine and not yet written it.
Installing == smOp.kind \in {"meta", "data", "sm"}

\* How far the state machine is ahead of state_machine.bin, and committed.bin
\* ahead of its cache, in each phase of the calls.
AheadInv ==
    /\ life # "running" => smOp.kind = "idle" /\ smOp.meta.last = 0
    /\ life = "running" =>
          /\ coreOp.kind # "committed" => disk.committed = mem.committed
          /\ mem.last_purged <= sm.applied
          /\ disk.sm.applied <= sm.applied
          /\ smOp.kind \in {"idle", "publish"} => disk.sm.applied = sm.applied
          /\ smOp.kind = "apply" => /\ disk.sm.applied < sm.applied
                                    /\ sm.applied <= disk.sm.applied + MaxBatch
                                    /\ sm.applied <= mem.committed
          /\ smOp.meta.last <= sm.applied
          /\ Installing => /\ coreOp.kind # "append"
                           /\ mem.last_purged < sm.applied
                           /\ \A j \in Entries(mem.log) : j < sm.applied

\* The files hold every committed entry that state_machine.bin lacks, and the
\* call in progress deletes none of them.
NeededInv ==
    faults = {} =>
        \A i \in (disk.sm.applied + 1)..disk.committed :
            disk.log[i] # None /\ (coreOp.kind = "delete" => i \notin coreOp.keys)

\* No snapshot is more than one apply call ahead of state_machine.bin, except
\* while one is installed.
SnapshotInv ==
    faults = {} =>
        \A m \in {snap, disk.meta, buildOp.meta} :
            /\ life = "running" => m.last <= sm.applied + MaxBatch
            /\ ~Installing => m.last <= disk.sm.applied + MaxBatch

ReplayInv == AheadInv /\ NeededInv /\ SnapshotInv

\* The numbers that the invariant compares.
LEMMA Numbers ==
    ASSUME TypeInv
    PROVE  /\ sm.applied \in 0..MaxIndex /\ disk.sm.applied \in 0..MaxIndex
           /\ mem.committed \in 0..MaxIndex /\ disk.committed \in 0..MaxIndex
           /\ mem.last_purged \in 0..MaxIndex
           /\ snap.last \in 0..MaxIndex /\ disk.meta.last \in 0..MaxIndex
           /\ smOp.meta.last \in 0..MaxIndex /\ buildOp.meta.last \in 0..MaxIndex
<1>1. disk.sm \in Sm /\ sm \in Sm
  BY Fields DEF TypeInv
<1>2. snap \in Meta /\ disk.meta \in Meta /\ smOp.meta \in Meta /\ buildOp.meta \in Meta
  BY Fields DEF TypeInv
<1>3. \A m \in Meta : m.last \in 0..MaxIndex
  BY DEF Meta
<1>. QED  BY <1>1, <1>2, <1>3, Fields DEF Sm

\* What the core's calls do to the purge marker.
LEMMA MarkerEffects ==
    ASSUME TypeInv
    PROVE  /\ \A v : /\ [mem EXCEPT !.vote = v].last_purged = mem.last_purged
                     /\ [mem EXCEPT !.committed = v].last_purged = mem.last_purged
                     /\ [mem EXCEPT !.last_purged = v].last_purged = v
           /\ \A i, t : [mem EXCEPT !.log[i] = t].last_purged = mem.last_purged
  BY DEF TypeInv, MemType

\* The call in progress after one of its keys.
LEMMA KeyTaken ==
    ASSUME TypeInv, NEW i, coreOp' = [coreOp EXCEPT !.keys = @ \ {i}]
    PROVE  coreOp'.kind = coreOp.kind /\ coreOp'.keys = coreOp.keys \ {i}
  BY CoreUpdates DEF TypeInv

\* The index that save_committed starts from is the greater of two.
LEMMA KnownIndex ==
    ASSUME TypeInv
    PROVE  LET known == Max({mem.committed, sm.applied}) IN
           known \in 0..MaxIndex /\ known >= mem.committed /\ known >= sm.applied
                                /\ known \in {mem.committed, sm.applied}
<1>1. {mem.committed, sm.applied} \in SUBSET (0..MaxIndex) /\ {mem.committed, sm.applied} # {}
  BY Numbers
<1>. QED  BY <1>1, Bounds, Numbers, MaxGreatest, SMTT(30)

\* What the core's calls must respect for the state machine to stay ahead.
LEMMA CoreKeepsAhead ==
    ASSUME TypeInv, TypeInv', AheadInv, life = "running", UNCHANGED <<MetaState, life>>,
           coreOp'.kind # "committed" => disk'.committed = mem'.committed,
           mem'.committed >= mem.committed, mem'.last_purged <= sm.applied,
           Installing => /\ coreOp'.kind # "append"
                         /\ mem'.last_purged = mem.last_purged
                         /\ Entries(mem'.log) \subseteq Entries(mem.log)
    PROVE  AheadInv'
<1>1. /\ sm' = sm /\ smOp' = smOp /\ disk'.sm = disk.sm /\ life' = "running"
      /\ Installing' = Installing
  BY SMTT(30) DEF MetaState, Installing
<1>2. sm.applied \in Nat /\ mem.committed \in Nat /\ mem'.committed \in Nat
  BY Numbers, Bounds, SMTT(30) DEF TypeInv, MemType
<1>3. smOp.kind = "apply" => sm.applied <= mem'.committed
  BY <1>2 DEF AheadInv
<1>4. Installing => \A j \in Entries(mem'.log) : j < sm.applied
  BY DEF AheadInv
<1>5. Entries(mem.log)' = Entries(mem'.log)
  BY DEF Entries, Index
<1>. QED  BY <1>1, <1>3, <1>4, <1>5 DEF AheadInv

\* The calls of the core task keep the state machine ahead: while a snapshot
\* is installed nothing is appended and nothing purged.
LEMMA CoreAhead ==
    ASSUME TypeInv, TypeInv', DownInv, VoteInv, AheadInv, CoreStep
    PROVE  AheadInv'
<1>. USE Bounds, Numbers, CoreEffects, MarkerEffects DEF memory, history
<1>meta. UNCHANGED MetaState
  BY CoreLeavesMeta
<1>idle. Idle.kind = "idle"
  BY DEF Idle
<1>run. life = "running" => /\ coreOp.kind # "committed" => disk.committed = mem.committed
                            /\ mem.last_purged <= sm.applied
                            /\ Installing => coreOp.kind # "append"
  BY DEF AheadInv
<1>. DEFINE Kept == /\ life = "running" /\ life' = life
                    /\ coreOp'.kind # "committed" => disk'.committed = mem'.committed
                    /\ mem'.committed >= mem.committed /\ mem'.last_purged <= sm.applied
                    /\ Installing => /\ coreOp'.kind # "append"
                                     /\ mem'.last_purged = mem.last_purged
                                     /\ Entries(mem'.log) \subseteq Entries(mem.log)
<1>0. SUFFICES Kept
  BY <1>meta, CoreKeepsAhead
<1>1. ASSUME NEW v \in Term, save_vote(v)  PROVE Kept
  BY <1>1, <1>run DEF save_vote, CoreIdle, StartCore
<1>2. CASE VoteCached
  BY <1>2, <1>run, <1>idle DEF VoteCached
<1>3. ASSUME NEW c \in Index, save_committed(c)  PROVE Kept
  BY <1>3, <1>run DEF save_committed, CoreIdle, StartCore
<1>4. CASE CommittedCached
  <2>1. mem'.committed = disk.committed /\ disk' = disk /\ mem.committed <= disk.committed
    BY <1>4 DEF CommittedCached, VoteInv
  <2>2. mem'.last_purged = mem.last_purged /\ mem'.log = mem.log
    BY <1>4 DEF CommittedCached
  <2>. QED  BY <1>4, <1>run, <1>idle, <2>1, <2>2 DEF CommittedCached
<1>5. ASSUME NEW count \in 1..MaxBatch, BeginAppend(count)  PROVE Kept
  <2>1. ~Installing
    <3>. SUFFICES ASSUME Installing PROVE FALSE
      OBVIOUS
    <3>1. life = "running" /\ sm.applied <= last_log_id
      BY <1>5 DEF BeginAppend, CoreIdle
    <3>2. mem.last_purged < sm.applied /\ \A j \in Entries(mem.log) : j < sm.applied
      BY <3>1 DEF AheadInv
    <3>3. CASE Entries(mem.log) = {}
      BY <3>1, <3>2, <3>3 DEF last_log_id
    <3>4. CASE Entries(mem.log) # {}
      <4>1. Entries(mem.log) \in SUBSET (0..MaxIndex)
        BY DEF Entries, Index
      <4>2. Max(Entries(mem.log)) \in Entries(mem.log)
        BY <3>4, <4>1, MaxGreatest
      <4>. QED  BY <3>1, <3>2, <3>4, <4>1, <4>2 DEF last_log_id
    <3>. QED  BY <3>3, <3>4
  <2>. QED  BY <1>5, <1>run, <2>1 DEF BeginAppend, CoreIdle, StartCore
<1>6. CASE AppendEntry
  BY <1>6, <1>run, KeyTaken DEF AppendEntry
<1>7. CASE append
  BY <1>7, <1>run, <1>idle DEF append
<1>8. ASSUME NEW i \in Index, truncate(i)  PROVE Kept
  BY <1>8, <1>run DEF truncate, CoreIdle, StartCore
<1>9. ASSUME NEW i \in Index, purge(i)  PROVE Kept
  <2>1. i <= sm.applied /\ ~Installing
    BY <1>9 DEF purge, MayPurge, Installing, Index
  <2>2. mem'.last_purged = i /\ mem'.committed = mem.committed
    BY <1>9 DEF purge
  <2>. QED  BY <1>9, <1>run, <2>1, <2>2 DEF purge, CoreIdle, StartCore
<1>10. CASE delete_log_entry
  <2>1. /\ mem'.committed = mem.committed /\ mem'.last_purged = mem.last_purged
        /\ disk'.committed = disk.committed /\ coreOp'.kind = coreOp.kind
        /\ coreOp.kind = "delete" /\ life = "running" /\ life' = life
    BY <1>10, KeyTaken DEF delete_log_entry
  <2>2. mem'.log = [mem.log EXCEPT ![Min(coreOp.keys)] = None] /\ mem.log \in [Index -> 0..MaxTerm]
    BY <1>10, Fields DEF delete_log_entry
  <2>3. Entries(mem'.log) \subseteq Entries(mem.log)
    BY <2>2 DEF Entries
  <2>. QED  BY <1>run, <2>1, <2>3
<1>11. CASE Deleted
  BY <1>11, <1>run, <1>idle DEF Deleted
<1>. QED  BY <1>1, <1>2, <1>3, <1>4, <1>5, <1>6, <1>7, <1>8, <1>9, <1>10, <1>11, SMTT(30) DEF CoreStep

\* What the worker's calls do, field by field.
LEMMA WorkerEffects ==
    ASSUME TypeInv
    PROVE  /\ \A k : /\ [smOp EXCEPT !.kind = k].kind = k
                     /\ [smOp EXCEPT !.kind = k].meta = smOp.meta
                     /\ [buildOp EXCEPT !.kind = k].meta = buildOp.meta
           /\ \A x : /\ [disk EXCEPT !.sm = x].sm = x
                     /\ [disk EXCEPT !.sm = x].meta = disk.meta
                     /\ [disk EXCEPT !.meta = x].sm = disk.sm
                     /\ [disk EXCEPT !.meta = x].meta = x
                     /\ [disk EXCEPT !.data = x].sm = disk.sm
                     /\ [disk EXCEPT !.data = x].meta = disk.meta
                     /\ [disk EXCEPT !.log = x].sm = disk.sm
                     /\ [disk EXCEPT !.log = x].meta = disk.meta
  BY SMTT(30) DEF TypeInv, DiskType, SmType, BuildType

\* The worker and the builder keep the state machine ahead, and no snapshot
\* more than one apply call ahead of state_machine.bin.
LEMMA WorkerAhead ==
    ASSUME TypeInv, AheadInv, SnapshotInv, SmStep \/ BuildStep
    PROVE  AheadInv' /\ SnapshotInv'
<1>. USE Bounds, Numbers, WorkerEffects DEF AheadInv, SnapshotInv, Installing, memory, history
<1>core. UNCHANGED <<mem, coreOp, life, faults, disk.committed>>
  BY OthersLeaveCore DEF CoreState
<1>log. \A j \in Entries(mem.log)' : j \in Entries(mem.log)
  BY <1>core DEF Entries, Index
<1>1. ASSUME NEW count \in 1..MaxBatch, apply(count)  PROVE AheadInv' /\ SnapshotInv'
  <2>1. /\ sm'.applied = sm.applied + count /\ sm'.applied <= mem.committed
        /\ smOp'.kind = "apply" /\ smOp'.meta = smOp.meta /\ smOp.kind = "idle"
        /\ life = "running" /\ UNCHANGED <<disk, snap, buildOp>>
    BY <1>1 DEF apply, SmIdle
  <2>. QED  BY <1>core, <2>1
<1>2. CASE PersistSm
  <2>1. /\ disk'.sm = sm /\ disk'.meta = disk.meta /\ smOp'.meta = smOp.meta
        /\ smOp'.kind \in {"idle", "publish"}
        /\ life = "running" /\ UNCHANGED <<sm, snap, buildOp>>
    BY <1>2 DEF PersistSm
  <2>. QED  BY <1>core, <2>1
<1>3. ASSUME NEW i \in Index, install_snapshot(i)  PROVE AheadInv' /\ SnapshotInv'
  <2>1. /\ sm'.applied = i /\ smOp'.kind = "meta" /\ smOp'.meta.last = i
        /\ i > last_log_id /\ i > sm.applied /\ coreOp.kind = "idle"
        /\ smOp.kind = "idle" /\ life = "running" /\ UNCHANGED <<disk, snap, buildOp>>
    BY <1>3 DEF install_snapshot, SmIdle
  <2>2. i \in Nat /\ last_log_id \in Nat /\ \A j \in Entries(mem.log) : j \in Nat /\ j <= last_log_id
    BY LastLogId, TypeInvOK DEF Index, Entries
  <2>3. \A j \in Entries(mem.log)' : j < i
    BY <1>log, <2>1, <2>2
  <2>4. AheadInv'
    BY <1>core, <2>1, <2>2, <2>3
  <2>5. SnapshotInv'
    BY <1>core, <2>1, <2>2
  <2>. QED  BY <2>4, <2>5
<1>4. CASE InstallMeta
  <2>1. /\ disk'.sm = disk.sm /\ disk'.meta = smOp.meta /\ smOp'.meta = smOp.meta
        /\ smOp.kind = "meta" /\ smOp'.kind = "data"
        /\ life = "running" /\ UNCHANGED <<sm, snap, buildOp>>
    BY <1>4 DEF InstallMeta
  <2>2. AheadInv'
    BY <1>core, <1>log, <2>1
  <2>3. SnapshotInv'
    BY <1>core, <2>1
  <2>. QED  BY <2>2, <2>3
<1>5. CASE InstallData
  <2>1. /\ disk'.sm = disk.sm /\ disk'.meta = disk.meta /\ smOp'.meta = smOp.meta
        /\ smOp.kind = "data" /\ smOp'.kind = "sm"
        /\ life = "running" /\ UNCHANGED <<sm, snap, buildOp>>
    BY <1>5 DEF InstallData
  <2>2. AheadInv'
    BY <1>core, <1>log, <2>1
  <2>3. SnapshotInv'
    BY <1>core, <2>1
  <2>. QED  BY <2>2, <2>3
<1>6. CASE InstallPublish
  <2>1. /\ snap' = smOp.meta /\ smOp'.meta = smOp.meta
        /\ smOp.kind = "publish" /\ smOp'.kind = "idle"
        /\ life = "running" /\ UNCHANGED <<sm, disk, buildOp>>
    BY <1>6 DEF InstallPublish
  <2>. QED  BY <1>core, <2>1
<1>bld. ASSUME UNCHANGED <<sm, smOp, disk.sm>>  PROVE AheadInv'
  BY <1>bld, <1>core, <1>log
<1>7. CASE build_snapshot
  <2>1. /\ buildOp'.meta.last = sm.applied /\ life = "running"
        /\ UNCHANGED <<sm, smOp, disk, snap>>
    BY <1>7 DEF build_snapshot, SnapshotMeta
  <2>2. SnapshotInv'
    <3>1. ~Installing => sm.applied <= disk.sm.applied + MaxBatch
      BY <2>1 DEF TypeInv, SmType
    <3>. QED  BY <1>core, <2>1, <3>1
  <2>. QED  BY <1>bld, <2>1, <2>2
<1>8. CASE BuildMeta
  <2>1. /\ disk'.sm = disk.sm /\ disk'.meta = buildOp.meta /\ buildOp'.meta = buildOp.meta
        /\ UNCHANGED <<sm, snap, smOp>>
    BY <1>8 DEF BuildMeta
  <2>. QED  BY <1>core, <1>bld, <2>1
<1>9. CASE BuildData
  <2>1. /\ disk'.sm = disk.sm /\ disk'.meta = disk.meta /\ buildOp'.meta = buildOp.meta
        /\ UNCHANGED <<sm, snap, smOp>>
    BY <1>9 DEF BuildData
  <2>. QED  BY <1>core, <1>bld, <2>1
<1>10. CASE BuildPublish
  <2>1. snap' = buildOp.meta /\ buildOp'.meta = buildOp.meta /\ UNCHANGED <<sm, disk, smOp>>
    BY <1>10, SMTT(30) DEF BuildPublish
  <2>. QED  BY <1>core, <1>bld, <2>1
<1>. QED  BY <1>1, <1>2, <1>3, <1>4, <1>5, <1>6, <1>7, <1>8, <1>9, <1>10, Zenon DEF SmStep, BuildStep

\* A crash leaves what the files hold, unless it cuts an install; load_state
\* starts from there.
LEMMA FaultReplay ==
    ASSUME TypeInv, DownInv, LogInv, ReplayInv, FaultStep
    PROVE  ReplayInv'
<1>. USE Bounds, Numbers DEF ReplayInv, AheadInv, NeededInv, SnapshotInv, Installing, memory, history
<1>e. Idle.kind = "idle" /\ NoMeta.last = 0
  BY ZenonT(30) DEF Idle, NoMeta
<1>1. CASE Crash
  <2>1. /\ life = "running" /\ life' = "down" /\ coreOp' = Idle /\ UNCHANGED disk
        /\ snap' = NoMeta /\ smOp'.kind = "idle" /\ smOp'.meta = NoMeta /\ buildOp'.meta = NoMeta
    BY <1>1, Zenon DEF Crash, Down
  <2>2. faults' = {} => faults = {} /\ ~Installing
    BY <1>1, SMTT(30) DEF Crash, InstallCut
  <2>. QED  BY <1>e, <2>1, <2>2, SMTT(30)
<1>2. CASE PowerFailure
  <2>1. life' = "down" /\ smOp'.kind = "idle" /\ smOp'.meta = NoMeta /\ faults' # {}
    BY <1>2, SMTT(30) DEF PowerFailure, Down
  <2>. QED  BY <1>e, <2>1
<1>3. ASSUME NEW i \in Index, WriteBack(i)  PROVE ReplayInv'
  BY <1>3, SMTT(30) DEF WriteBack, Entries, Index
<1>4. CASE load_state
  <2>1. /\ life = "down" /\ life' = "running" /\ sm' = disk.sm /\ snap' \in {disk.meta, NoMeta}
        /\ mem'.committed = disk.committed /\ mem'.last_purged = 0
        /\ UNCHANGED <<disk, coreOp, smOp, buildOp, faults>>
    BY <1>4, Zenon DEF load_state
  <2>2. smOp.kind = "idle" /\ smOp.meta.last = 0
    BY <2>1, Zenon
  <2>3. AheadInv'
    BY <2>1, <2>2, SMTT(30)
  <2>4. NeededInv' /\ SnapshotInv'
    BY <1>e, <2>1, <2>2, SMTT(30)
  <2>. QED  BY <2>3, <2>4, SMTT(30)
<1>5. CASE LoadFails
  BY <1>5 DEF LoadFails
<1>. QED  BY <1>1, <1>2, <1>3, <1>4, <1>5, ZenonT(30) DEF FaultStep

\* The calls of the core task delete no entry that is still needed: purge stays
\* KeepLogs behind a snapshot, which is at most MaxBatch ahead of
\* state_machine.bin.
LEMMA CoreNeeded ==
    ASSUME MaxBatch <= KeepLogs,
           TypeInv, VoteInv, LogInv, ReplayInv, CoreStep
    PROVE  NeededInv'
<1>. USE Bounds, Numbers, Fields, CoreEffects DEF NeededInv, memory, history
<1>meta. UNCHANGED <<sm, snap, smOp, disk.sm>>
  BY CoreLeavesMeta DEF MetaState
<1>idle. Idle.kind = "idle"
  BY DEF Idle
<1>k. KeepLogs \in Nat
  BY BoundsAssumption
<1>ahead. AheadInv /\ SnapshotInv /\ NeededInv
  BY DEF ReplayInv
<1>ix. \A i \in Nat : 1 <= i /\ i <= MaxIndex => i \in Index
  BY DEF Index
<1>1. ASSUME NEW v \in Term, save_vote(v)  PROVE NeededInv'
  BY <1>1, <1>meta, <1>ahead DEF save_vote, StartCore
<1>2. CASE VoteCached
  BY <1>2, <1>meta, <1>ahead, <1>idle DEF VoteCached
<1>3. ASSUME NEW c \in Index, save_committed(c)  PROVE NeededInv'
  <2>. SUFFICES ASSUME faults = {}, NEW i \in (disk.sm.applied + 1)..c  PROVE disk.log[i] # None
    BY <1>3, <1>meta DEF save_committed, StartCore
  <2>. DEFINE known == Max({mem.committed, sm.applied})
  <2>1. known \in 0..MaxIndex /\ known >= mem.committed /\ known >= sm.applied
        /\ known \in {mem.committed, sm.applied}
    BY KnownIndex
  <2>2. c > known /\ \A j \in (known + 1)..c : mem.log[j] # None
    BY <1>3, Zenon DEF save_committed
  <2>. HIDE DEF known
  <2>3. life = "running" /\ coreOp.kind = "idle"
    BY <1>3 DEF save_committed, CoreIdle
  <2>4. mem.log = disk.log /\ disk.committed = mem.committed /\ c \in Nat /\ c <= MaxIndex /\ i \in Nat
    <3>0. c \in Nat /\ c <= MaxIndex
      BY DEF Index
    <3>1. c \in Nat /\ c <= MaxIndex /\ i \in Nat
      <4>. DEFINE l == disk.sm.applied
      <4>1. l \in Nat /\ i \in (l + 1)..c
        OBVIOUS
      <4>. HIDE DEF l
      <4>. QED  BY <3>0, <4>1
    <3>2. disk.committed = mem.committed
      BY <2>3, <1>ahead DEF AheadInv
    <3>. QED  BY <2>3, <3>1, <3>2 DEF LogInv
  <2>5. CASE i <= disk.committed
    BY <1>ahead, <2>4, <2>5
  <2>6. CASE i > known
    BY <2>1, <2>2, <2>4, <2>6
  <2>7. CASE i > disk.committed /\ i <= known
    <3>1. i <= sm.applied /\ mem.committed < sm.applied /\ disk.sm.applied < sm.applied
      BY <2>1, <2>4, <2>7, SMTT(30)
    <3>2. Installing
      BY <1>ahead, <2>3, <3>1 DEF AheadInv, Installing, TypeInv, SmType
    <3>3. c \in Entries(mem.log) /\ c > sm.applied
      BY <2>1, <2>2, <2>4 DEF Entries
    <3>. QED  BY <1>ahead, <2>3, <2>4, <3>2, <3>3 DEF AheadInv
  <2>. QED  BY <2>1, <2>4, <2>5, <2>6, <2>7
<1>4. CASE CommittedCached
  BY <1>4, <1>meta, <1>ahead, <1>idle DEF CommittedCached
<1>5. ASSUME NEW count \in 1..MaxBatch, BeginAppend(count)  PROVE NeededInv'
  BY <1>5, <1>meta, <1>ahead, Zenon DEF BeginAppend, StartCore
<1>6. CASE AppendEntry
  <2>. DEFINE k == Min(coreOp.keys)
  <2>1. k \in coreOp.keys /\ k \in Index /\ coreOp.arg # None
    BY <1>6, MinLeast DEF AppendEntry, TypeInv, ArgInv, Term, None
  <2>2. /\ disk'.log = [disk.log EXCEPT ![k] = coreOp.arg] /\ disk'.committed = disk.committed
        /\ coreOp'.kind = "append" /\ UNCHANGED faults
    BY <1>6, KeyTaken DEF AppendEntry
  <2>. HIDE DEF k
  <2>. QED  BY <1>meta, <1>ahead, <2>1, <2>2
<1>7. CASE append
  BY <1>7, <1>meta, <1>ahead, <1>idle DEF append
<1>8. ASSUME NEW i \in Index, truncate(i)  PROVE NeededInv'
  <2>1. /\ life = "running" /\ coreOp.kind = "idle" /\ i > mem.committed
        /\ coreOp'.keys = {j \in Entries(mem.log) : j >= i} /\ UNCHANGED <<disk, faults>>
    BY <1>8 DEF truncate, CoreIdle, StartCore
  <2>2. disk.committed = mem.committed /\ i \in Nat
    BY <1>ahead, <2>1 DEF AheadInv, Index
  <2>3. \A j \in 0..disk.committed : j \notin coreOp'.keys
    BY <2>1, <2>2
  <2>. QED  BY <1>meta, <1>ahead, <2>1, <2>3
<1>9. ASSUME NEW i \in Index, purge(i)  PROVE NeededInv'
  <2>. SUFFICES ASSUME faults = {}  PROVE NeededInv'
    BY <1>9 DEF purge
  <2>1. /\ life = "running" /\ coreOp.kind = "idle" /\ MayPurge(i)
        /\ coreOp'.keys = {j \in Entries(mem.log) : j <= i} /\ UNCHANGED <<disk, faults>>
    BY <1>9 DEF purge, CoreIdle, StartCore
  <2>2. i <= disk.sm.applied
    <3>0. i \in Nat
      BY DEF Index
    <3>1. i \in Nat /\ ~Installing /\ smOp.kind \in {"idle", "apply"}
      BY <2>1, <3>0 DEF MayPurge, Installing
    <3>2. CASE i <= sm.applied /\ i + KeepLogs <= snap.last
      <4>1. snap.last <= disk.sm.applied + MaxBatch
        BY <1>ahead, <3>1 DEF SnapshotInv
      <4>. QED  BY <1>k, <3>1, <3>2, <4>1
    <3>3. CASE i = sm.applied /\ last_log_id < i /\ smOp.kind = "idle"
      BY <1>ahead, <2>1, <3>3 DEF AheadInv
    <3>4. CASE i = sm.applied /\ last_log_id < i /\ smOp.kind = "apply"
      <4>1. i \in (disk.sm.applied + 1)..disk.committed
        BY <1>ahead, <2>1, <3>1, <3>4 DEF AheadInv
      <4>2. disk.log[i] # None /\ mem.log = disk.log
        BY <1>ahead, <2>1, <4>1 DEF LogInv
      <4>3. i <= last_log_id /\ last_log_id \in Nat
        BY <4>2, LastLogId, TypeInvOK DEF Entries
      <4>. QED  BY <3>1, <3>4, <4>3
    <3>. QED  BY <2>1, <3>1, <3>2, <3>3, <3>4 DEF MayPurge
  <2>3. ASSUME NEW j \in (disk.sm.applied + 1)..disk.committed  PROVE j \notin coreOp'.keys
    <3>. DEFINE l == disk.sm.applied
                h == disk.committed
    <3>1. i \in Nat
      BY DEF Index
    <3>2. l \in Nat /\ h \in Nat /\ j \in (l + 1)..h /\ i <= l
      BY <2>2
    <3>. HIDE DEF l, h
    <3>3. ~(j <= i)
      BY <3>1, <3>2
    <3>. QED  BY <2>1, <3>3
  <2>. QED  BY <1>meta, <1>ahead, <2>1, <2>3
<1>10. CASE delete_log_entry
  <2>. DEFINE k == Min(coreOp.keys)
  <2>1. k \in coreOp.keys /\ k \in Index
    BY <1>10, MinLeast DEF delete_log_entry
  <2>2. /\ disk'.log = [disk.log EXCEPT ![k] = None] /\ disk'.committed = disk.committed
        /\ coreOp'.kind = "delete" /\ coreOp.kind = "delete"
        /\ coreOp'.keys = coreOp.keys \ {k} /\ UNCHANGED faults
    BY <1>10, KeyTaken DEF delete_log_entry
  <2>. HIDE DEF k
  <2>. QED  BY <1>meta, <1>ahead, <2>1, <2>2
<1>11. CASE Deleted
  BY <1>11, <1>meta, <1>ahead, <1>idle DEF Deleted
<1>. QED  BY <1>1, <1>2, <1>3, <1>4, <1>5, <1>6, <1>7, <1>8, <1>9, <1>10, <1>11, SMTT(30) DEF CoreStep

\* state_machine.bin is never replaced by an older one.
LEMMA SmFileGrows ==
    ASSUME TypeInv, AheadInv, SmStep \/ BuildStep
    PROVE  disk'.sm.applied >= disk.sm.applied
<1>. USE Numbers, Bounds, WorkerEffects DEF memory, history
<1>0. ASSUME disk'.sm = disk.sm  PROVE disk'.sm.applied >= disk.sm.applied
  BY <1>0
<1>1. CASE PersistSm
  <2>1. disk'.sm = sm /\ life = "running"
    BY <1>1 DEF PersistSm
  <2>. QED  BY <2>1 DEF AheadInv
<1>2. CASE InstallMeta
  BY <1>0, <1>2 DEF InstallMeta
<1>3. CASE InstallData
  BY <1>0, <1>3 DEF InstallData
<1>4. CASE BuildMeta
  BY <1>0, <1>4 DEF BuildMeta
<1>5. CASE BuildData
  BY <1>0, <1>5 DEF BuildData
<1>6. CASE UNCHANGED disk
  BY <1>0, <1>6, SMTT(30)
<1>. QED  BY <1>1, <1>2, <1>3, <1>4, <1>5, <1>6, Zenon
          DEF SmStep, BuildStep, apply, install_snapshot, InstallPublish, build_snapshot, BuildPublish

\* A store without files satisfies the invariant.
LEMMA ReplayInitially == Init => ReplayInv
<1>. SUFFICES ASSUME Init PROVE ReplayInv
  OBVIOUS
<1>1. EmptySm.applied = 0 /\ NoMeta.last = 0 /\ Entries(EmptyMem.log) = {}
  BY DEF EmptySm, NoMeta, Entries, EmptyMem, EmptyLog
<1>. QED  BY <1>1, Bounds DEF Init, ReplayInv, AheadInv, NeededInv, SnapshotInv, Installing, EmptyMem, Idle

\* Every step keeps it.
LEMMA ReplayStep ==
    ASSUME MaxBatch <= KeepLogs, TypeInv, StoreInv, ReplayInv, [Next]_vars
    PROVE  ReplayInv'
<1>. USE DEF StoreInv
<1>t. TypeInv'
  BY TypeStep
<1>1. CASE CoreStep
  <2>1. AheadInv' /\ NeededInv'
    BY <1>1, <1>t, CoreAhead, CoreNeeded DEF ReplayInv
  <2>2. UNCHANGED <<sm, disk.sm, snap, disk.meta, smOp, buildOp>>
    BY <1>1, CoreLeavesMeta, SMTT(30) DEF MetaState
  <2>3. life' = life /\ faults' = faults
    BY <1>1, Zenon DEF CoreStep, save_vote, VoteCached, save_committed, CommittedCached, BeginAppend,
                AppendEntry, append, truncate, purge, delete_log_entry, Deleted, history
  <2>4. SnapshotInv'
    BY <2>2, <2>3 DEF ReplayInv, SnapshotInv, Installing
  <2>. QED  BY <2>1, <2>4 DEF ReplayInv
<1>2. CASE FaultStep
  BY <1>2, FaultReplay
<1>3. CASE SmStep \/ BuildStep
  <2>1. AheadInv' /\ SnapshotInv'
    BY <1>3, WorkerAhead DEF ReplayInv
  <2>2. UNCHANGED <<coreOp, life, faults, disk.committed, disk.log>>
    BY <1>3, OthersLeaveCore DEF CoreState
  <2>3. disk'.sm.applied >= disk.sm.applied
    BY <1>3, SmFileGrows, SMTT(30) DEF ReplayInv
  <2>4. disk'.sm.applied \in 0..MaxIndex /\ disk.sm.applied \in 0..MaxIndex /\ disk.committed \in 0..MaxIndex
    BY <1>t, Numbers, SMTT(30) DEF TypeInv, DiskType, Sm
  <2>5. NeededInv'
    BY <2>2, <2>3, <2>4, Bounds, SMTT(30) DEF ReplayInv, NeededInv
  <2>. QED  BY <2>1, <2>5 DEF ReplayInv
<1>4. CASE UNCHANGED vars
  BY <1>4 DEF vars, memory, history, ReplayInv, AheadInv, NeededInv, SnapshotInv, Installing,
              Entries, Index
<1>. QED  BY <1>1, <1>2, <1>3, <1>4 DEF Next, FaultStep

\* When one apply call brings at most as many entries as the log keeps behind
\* a snapshot, every committed entry is, in a running process, in the state
\* machine or still in the log: after a crash anywhere outside
\* install_snapshot, OpenRaft can apply what state_machine.bin lacks.
THEOREM CommittedCanBeReplayed ==
    ASSUME MaxBatch <= KeepLogs
    PROVE  Spec => []ReplayPossible
<1>1. TypeInv /\ StoreInv /\ ReplayInv /\ [Next]_vars => ReplayInv'
  BY ReplayStep
<1>2. TypeInv /\ StoreInv /\ ReplayInv => ReplayPossible
  <2>. SUFFICES ASSUME TypeInv, StoreInv, ReplayInv, life = "running", faults = {},
                       NEW i \in (sm.applied + 1)..mem.committed
                PROVE  mem.log[i] # None
    BY SMTT(30) DEF ReplayPossible
  <2>1. disk.sm.applied <= sm.applied /\ mem.committed <= disk.committed /\ mem.log = disk.log
    BY ZenonT(30) DEF StoreInv, VoteInv, LogInv, ReplayInv, AheadInv
  <2>2. i \in (disk.sm.applied + 1)..disk.committed
    BY <2>1, Numbers, Bounds
  <2>. QED  BY <2>1, <2>2 DEF ReplayInv, NeededInv
<1>. QED  BY Invariant, ReplayInitially, <1>1, <1>2, PTL DEF Spec
==============================================================================
