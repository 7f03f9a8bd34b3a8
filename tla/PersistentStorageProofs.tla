----------------------- MODULE PersistentStorageProofs -----------------------
(***************************************************************************)
(* Theorems about PersistentStorage, for every length of the log, every    *)
(* number of terms, entries in a call, snapshots, crashes and power        *)
(* losses.                                                                 *)
(***************************************************************************)
EXTENDS PersistentStorage, TLAPS, WellFoundedInduction

\* The records of the store, field by field.
MemType == [vote : 0..MaxTerm, committed : 0..MaxIndex,
            log : [Index -> 0..MaxTerm], last_purged : 0..MaxIndex]
AckedType == [vote : 0..MaxTerm, committed : 0..MaxIndex, log : [Index -> 0..MaxTerm]]
DiskType == [vote : 0..MaxTerm, committed : 0..MaxIndex, log : [Index -> 0..Torn],
             sm : Sm, meta : Meta, data : BOOLEAN]
CoreType == [kind : {"idle", "vote", "committed", "append", "delete"},
             arg : Nat, keys : SUBSET Index]
SmType == [kind : {"idle", "apply", "meta", "data", "sm", "publish"}, meta : Meta]
BuildType == [kind : {"idle", "meta", "data", "publish"}, meta : Meta]

\* What the argument of the core's call is used for.
ArgInv ==
    /\ coreOp.kind = "vote" => coreOp.arg \in 0..MaxTerm
    /\ coreOp.kind = "committed" => coreOp.arg \in 0..MaxIndex
    /\ coreOp.kind = "append" => coreOp.arg \in Term

\* The type invariant.
TypeInv ==
    /\ mem \in MemType /\ sm \in Sm /\ snap \in Meta /\ snapshot_idx \in Nat
    /\ disk \in DiskType /\ synced \in [Index -> 0..Torn] /\ dirty \subseteq Index
    /\ coreOp \in CoreType /\ ArgInv
    /\ smOp \in SmType /\ buildOp \in BuildType
    /\ life \in {"running", "down", "failed"}
    /\ acked \in AckedType /\ built \subseteq Meta
    /\ faults \subseteq {"power", "install"} /\ crashes \in 0..MaxCrashes

\* No call is in progress in a process that is not running.
DownInv == life # "running" => coreOp.kind = "idle"

\* vote.bin and committed.bin are ahead of the cache while a call writes them,
\* equal to it otherwise, and never behind what was acknowledged.
VoteInv ==
    /\ disk.vote >= acked.vote
    /\ disk.committed >= acked.committed
    /\ coreOp.kind = "vote" => disk.vote = coreOp.arg
    /\ coreOp.kind = "committed" => disk.committed = coreOp.arg
    /\ life = "running" =>
          /\ mem.vote >= acked.vote /\ mem.vote <= disk.vote
          /\ mem.committed >= acked.committed /\ mem.committed <= disk.committed

\* The cache of the log equals the directory in every step of a call.  Without
\* power loss, acknowledged entries are in the directory, and no call in
\* progress touches one.
LogInv ==
    /\ life = "running" => mem.log = disk.log
    /\ "power" \notin faults =>
          /\ \A i \in Index : acked.log[i] # None => disk.log[i] = acked.log[i]
          /\ coreOp.kind \in {"append", "delete"} =>
                \A i \in coreOp.keys : acked.log[i] = None

\* Metas on their way to a file carry the membership of their log id too, and
\* the id of a snapshot starts with its log id.
MetaInv ==
    /\ MembershipMatchesLogId
    /\ \A m \in {smOp.meta, buildOp.meta} \union built : m.membership = LastMembership(m.last)
    /\ \A m \in built : m.id[1] = m.last

StoreInv == DownInv /\ VoteInv /\ LogInv /\ MetaInv

-----------------------------------------------------------------------------
\* Max picks a greatest element of a non-empty bounded set of numbers.
LEMMA MaxGreatest ==
    ASSUME NEW N \in Nat, NEW S \in SUBSET (0..N), S # {}
    PROVE  Max(S) \in S /\ \A m \in S : m <= Max(S)
<1>. DEFINE R == OpToRel(<, Nat)
            T == {N - x : x \in S}
<1>1. T \subseteq Nat /\ T # {}
  <2>1. \A x \in S : N - x \in Nat
    OBVIOUS
  <2>2. T \subseteq Nat
    BY <2>1
  <2>3. PICK x \in S : TRUE
    BY Zenon
  <2>4. N - x \in T
    OBVIOUS
  <2>. QED  BY <2>2, <2>4
<1>2. PICK t \in T : \A y \in T : ~(<<y, t>> \in R)
  <2>1. IsWellFoundedOn(R, Nat)
    BY NatLessThanWellFounded, Zenon
  <2>. HIDE DEF R, T
  <2>. QED  BY <1>1, <2>1, WFMin, Zenon
<1>3. PICK x \in S : t = N - x
  OBVIOUS
<1>4. \A y \in S : x >= y
  <2>. SUFFICES ASSUME NEW y \in S PROVE x >= y
    BY Zenon
  <2>1. N - y \in T /\ N - y \in Nat /\ t \in Nat
    OBVIOUS
  <2>2. ~(N - y < t)
    BY <1>2, <2>1, Zenon DEF OpToRel
  <2>. QED  BY <1>3, <2>1, <2>2
<1>5. Max(S) \in S /\ \A y \in S : Max(S) >= y
  <2>. HIDE DEF R, T
  <2>. QED  BY <1>4, Zenon DEF Max
<1>. QED  BY <1>5

\* Min picks a least element of a non-empty set of indices.
LEMMA MinLeast ==
    ASSUME NEW S \in SUBSET Index, S # {}
    PROVE  Min(S) \in S
<1>. DEFINE R == OpToRel(<, Nat)
<1>1. S \subseteq Nat
  BY DEF Index
<1>2. PICK x \in S : \A y \in S : ~(<<y, x>> \in R)
  <2>1. IsWellFoundedOn(R, Nat)
    BY NatLessThanWellFounded, Zenon
  <2>. HIDE DEF R
  <2>. QED  BY <1>1, <2>1, WFMin, Zenon
<1>3. \A y \in S : x <= y
  <2>. SUFFICES ASSUME NEW y \in S PROVE x <= y
    OBVIOUS
  <2>1. x \in Nat /\ y \in Nat
    BY <1>1
  <2>2. ~(y < x)
    BY <1>2, <2>1, Zenon DEF OpToRel
  <2>. QED  BY <2>1, <2>2
<1>. QED  BY <1>3 DEF Min

\* The type invariant is the one that the runs check, and more.
LEMMA TypeInvOK == TypeInv => TypeOK
  BY DEF TypeInv, TypeOK, MemType, DiskType, CoreType, SmType, BuildType, AckedType

\* The last entry of a log is beyond all its entries.
LEMMA LastLogId ==
    ASSUME TypeOK
    PROVE  last_log_id \in 0..MaxIndex /\ \A i \in Entries(mem.log) : i <= last_log_id
<1>1. MaxIndex \in Nat /\ mem.last_purged \in 0..MaxIndex
  BY BoundsAssumption DEF TypeOK
<1>2. Entries(mem.log) \subseteq 0..MaxIndex
  BY <1>1 DEF Entries, Index
<1>3. CASE Entries(mem.log) = {}
  BY <1>1, <1>3 DEF last_log_id
<1>4. CASE Entries(mem.log) # {}
  BY <1>1, <1>2, <1>4, MaxGreatest, Zenon DEF last_log_id
<1>. QED  BY <1>3, <1>4

\* The membership in force at a log id.
LEMMA LastMembershipFacts ==
    ASSUME NEW i \in 0..MaxIndex
    PROVE  /\ LastMembership(i) \in 0..MaxIndex /\ LastMembership(i) <= i
           /\ LastMembership(i) \in {0} \union MembershipIndices
           /\ \A j \in MembershipIndices : j <= i => j <= LastMembership(i)
<1>. DEFINE S == {0} \union {j \in MembershipIndices : j <= i}
<1>1. MaxIndex \in Nat /\ S \subseteq 0..MaxIndex /\ S # {}
  <2>1. MaxIndex \in Nat /\ MembershipIndices \subseteq 1..MaxIndex
    BY BoundsAssumption
  <2>2. 0 \in S
    OBVIOUS
  <2>3. \A j \in S : j \in 0..MaxIndex
    BY <2>1
  <2>. QED  BY <2>1, <2>2, <2>3, Zenon
<1>2. Max(S) \in S /\ \A m \in S : m <= Max(S)
  <2>. HIDE DEF S
  <2>. QED  BY <1>1, MaxGreatest, Zenon
<1>3. LastMembership(i) = Max(S)
  BY DEF LastMembership
<1>. QED  BY <1>1, <1>2, <1>3

\* apply finds the membership in force after the entries it applies.
LEMMA AppliedMembership ==
    ASSUME NEW a \in 0..MaxIndex, NEW b \in 0..MaxIndex, a <= b
    PROVE  LET new == MembershipIndices \cap ((a + 1)..b) IN
           LastMembership(b) = IF new = {} THEN LastMembership(a) ELSE Max(new)
<1>. DEFINE new == MembershipIndices \cap ((a + 1)..b)
<1>1. MaxIndex \in Nat /\ new \subseteq 0..MaxIndex
      /\ MembershipIndices \subseteq 1..MaxIndex
  BY BoundsAssumption
<1>2. CASE new = {}
  <2>1. \A j \in MembershipIndices : j <= b => j <= a
    BY <1>1, <1>2
  <2>2. LastMembership(b) <= a
    BY <1>1, <2>1, LastMembershipFacts
  <2>3. LastMembership(b) <= LastMembership(a)
    BY <1>1, <2>2, LastMembershipFacts
  <2>4. LastMembership(a) <= LastMembership(b)
    BY <1>1, LastMembershipFacts
  <2>5. LastMembership(a) \in Nat /\ LastMembership(b) \in Nat
    BY <1>1, LastMembershipFacts
  <2>. QED  BY <1>2, <2>3, <2>4, <2>5
<1>3. CASE new # {}
  <2>. HIDE DEF new
  <2>1. Max(new) \in new /\ \A m \in new : m <= Max(new)
    BY <1>1, <1>3, MaxGreatest
  <2>. USE DEF new
  <2>2. Max(new) <= LastMembership(b) /\ LastMembership(b) \in Nat /\ Max(new) \in Nat /\ Max(new) > a
    BY <1>1, <2>1, LastMembershipFacts
  <2>3. LastMembership(b) \in new
    BY <1>1, <2>2, LastMembershipFacts
  <2>. QED  BY <1>3, <2>1, <2>2, <2>3
<1>. QED  BY <1>2, <1>3

-----------------------------------------------------------------------------
\* The bounds as the provers use them.
LEMMA Bounds ==
    /\ MaxIndex \in Nat /\ MaxTerm \in Nat /\ MaxBatch \in Nat /\ MaxCrashes \in Nat
    /\ Torn \in Nat /\ Torn = MaxTerm + 1
  BY BoundsAssumption DEF Torn

\* Updates of one field keep the type of the cache.
LEMMA MemUpdates ==
    ASSUME NEW m \in MemType
    PROVE  /\ \A v \in 0..MaxTerm : [m EXCEPT !.vote = v] \in MemType
           /\ \A c \in 0..MaxIndex : /\ [m EXCEPT !.committed = c] \in MemType
                                     /\ [m EXCEPT !.last_purged = c] \in MemType
           /\ \A i \in Index, t \in 0..MaxTerm : [m EXCEPT !.log[i] = t] \in MemType
  BY DEF MemType

\* Updates of one field keep the type of what was acknowledged.
LEMMA AckedUpdates ==
    ASSUME NEW a \in AckedType
    PROVE  /\ \A v \in 0..MaxTerm : [a EXCEPT !.vote = v] \in AckedType
           /\ \A c \in 0..MaxIndex : [a EXCEPT !.committed = c] \in AckedType
           /\ \A l \in [Index -> 0..MaxTerm] : [a EXCEPT !.log = l] \in AckedType
  BY DEF AckedType

\* Updates of one field keep the type of the files.
LEMMA DiskUpdates ==
    ASSUME NEW d \in DiskType
    PROVE  /\ \A v \in 0..MaxTerm : [d EXCEPT !.vote = v] \in DiskType
           /\ \A c \in 0..MaxIndex : [d EXCEPT !.committed = c] \in DiskType
           /\ \A i \in Index, t \in 0..Torn : [d EXCEPT !.log[i] = t] \in DiskType
           /\ \A l \in [Index -> 0..Torn] : [d EXCEPT !.log = l] \in DiskType
           /\ \A s \in Sm : [d EXCEPT !.sm = s] \in DiskType
           /\ \A m \in Meta : [d EXCEPT !.meta = m] \in DiskType
           /\ [d EXCEPT !.data = TRUE] \in DiskType
  BY Zenon DEF DiskType

\* Taking a key from a call in progress keeps its type.
LEMMA CoreUpdates ==
    ASSUME NEW c \in CoreType, NEW i
    PROVE  /\ [c EXCEPT !.keys = @ \ {i}] \in CoreType
           /\ [c EXCEPT !.keys = @ \ {i}].kind = c.kind
           /\ [c EXCEPT !.keys = @ \ {i}].arg = c.arg
           /\ [c EXCEPT !.keys = @ \ {i}].keys = c.keys \ {i}
  BY DEF CoreType

\* Fields of well-typed records.
LEMMA Fields ==
    ASSUME TypeInv
    PROVE  /\ mem.vote \in 0..MaxTerm /\ mem.committed \in 0..MaxIndex
           /\ mem.log \in [Index -> 0..MaxTerm] /\ mem.last_purged \in 0..MaxIndex
           /\ disk.vote \in 0..MaxTerm /\ disk.committed \in 0..MaxIndex
           /\ disk.log \in [Index -> 0..Torn] /\ disk.sm \in Sm /\ disk.meta \in Meta
           /\ acked.vote \in 0..MaxTerm /\ acked.committed \in 0..MaxIndex
           /\ acked.log \in [Index -> 0..MaxTerm]
           /\ coreOp.arg \in Nat /\ coreOp.keys \in SUBSET Index
           /\ smOp.meta \in Meta /\ buildOp.meta \in Meta
           /\ sm.applied \in 0..MaxIndex /\ sm.membership \in 0..MaxIndex
  BY SMTT(30) DEF TypeInv, MemType, DiskType, CoreType, AckedType, SmType, BuildType, Sm

\* The calls of the core task keep the types.
LEMMA CoreTypes ==
    ASSUME TypeInv, CoreStep
    PROVE  TypeInv'
<1>. USE Bounds, Fields DEF TypeInv, memory, history
<1>idle. Idle \in CoreType /\ Idle.kind = "idle"
  BY DEF Idle, CoreType
<1>range. Term \subseteq 0..MaxTerm /\ Index \subseteq 0..MaxIndex
  BY DEF Term, Index
<1>1. ASSUME NEW v \in Term, save_vote(v)  PROVE TypeInv'
  <2>1. disk' \in DiskType
    BY <1>1, <1>range, DiskUpdates, Zenon DEF save_vote
  <2>2. coreOp' \in CoreType /\ ArgInv'
    BY <1>1 DEF save_vote, StartCore, CoreType, ArgInv, Term
  <2>. QED  BY <1>1, <2>1, <2>2 DEF save_vote
<1>2. CASE VoteCached
  <2>1. mem' \in MemType /\ acked' \in AckedType
    BY <1>2, MemUpdates, AckedUpdates DEF VoteCached, ArgInv
  <2>. QED  BY <1>2, <1>idle, <2>1 DEF VoteCached, ArgInv
<1>3. ASSUME NEW c \in Index, save_committed(c)  PROVE TypeInv'
  <2>1. disk' \in DiskType
    BY <1>3, <1>range, DiskUpdates, Zenon DEF save_committed
  <2>2. coreOp' \in CoreType /\ ArgInv'
    BY <1>3 DEF save_committed, StartCore, CoreType, ArgInv, Index
  <2>. QED  BY <1>3, <2>1, <2>2 DEF save_committed
<1>4. CASE CommittedCached
  <2>1. mem' \in MemType /\ acked' \in AckedType
    BY <1>4, MemUpdates, AckedUpdates, Zenon DEF CommittedCached, ArgInv
  <2>. QED  BY <1>4, <1>idle, <2>1 DEF CommittedCached, ArgInv
<1>5. ASSUME NEW count \in 1..MaxBatch, BeginAppend(count)  PROVE TypeInv'
  <2>1. last_log_id \in 0..MaxIndex
    BY LastLogId, TypeInvOK
  <2>2. (last_log_id + 1)..(last_log_id + 1 + count - 1) \in SUBSET Index
    BY <1>5, <2>1 DEF BeginAppend, Index
  <2>3. coreOp' \in CoreType /\ ArgInv'
    BY <1>5, <2>2 DEF BeginAppend, StartCore, CoreType, ArgInv, Term
  <2>. QED  BY <1>5, <2>3, SMTT(30) DEF BeginAppend
<1>6. CASE AppendEntry
  <2>1. Min(coreOp.keys) \in Index
    BY <1>6, MinLeast DEF AppendEntry
  <2>2. coreOp.arg \in 0..MaxTerm /\ coreOp.arg \in 0..Torn
    BY <1>6 DEF AppendEntry, ArgInv, Term
  <2>3. mem' \in MemType /\ disk' \in DiskType
    BY <1>6, <2>1, <2>2, MemUpdates, DiskUpdates, Zenon DEF AppendEntry
  <2>4. coreOp' \in CoreType /\ ArgInv'
    BY <1>6, CoreUpdates, Zenon DEF AppendEntry, ArgInv
  <2>. QED  BY <1>6, <2>1, <2>3, <2>4 DEF AppendEntry
<1>7. CASE append
  <2>1. acked' \in AckedType
    BY <1>7, AckedUpdates DEF append
  <2>. QED  BY <1>7, <1>idle, <2>1 DEF append, ArgInv
<1>un. ASSUME NEW S  PROVE Unacked(S) \in AckedType
  <2>. DEFINE l == [j \in Index |-> IF j \in S THEN None ELSE acked.log[j]]
  <2>1. l \in [Index -> 0..MaxTerm]
    BY DEF None
  <2>2. Unacked(S) = [acked EXCEPT !.log = l]
    BY DEF Unacked
  <2>. HIDE DEF l
  <2>. QED  BY <2>1, <2>2, AckedUpdates
<1>8. ASSUME NEW i \in Index, truncate(i)  PROVE TypeInv'
  <2>1. coreOp' \in CoreType /\ ArgInv'
    BY <1>8 DEF truncate, StartCore, CoreType, ArgInv, Index, Entries
  <2>. QED  BY <1>8, <1>un, <2>1 DEF truncate
<1>9. ASSUME NEW i \in Index, purge(i)  PROVE TypeInv'
  <2>1. coreOp' \in CoreType /\ ArgInv'
    <3>. DEFINE K == {j \in Entries(mem.log) : j <= i}
    <3>1. coreOp' = [kind |-> "delete", arg |-> i, keys |-> K]
      BY <1>9, Zenon DEF purge, StartCore
    <3>2. i \in Nat
      BY <1>range
    <3>3. K \in SUBSET Index
      BY DEF Entries
    <3>. HIDE DEF K
    <3>. QED  BY <3>1, <3>2, <3>3 DEF CoreType, ArgInv
  <2>2. mem' \in MemType
    BY <1>9, <1>range, MemUpdates, Zenon DEF purge
  <2>. QED  BY <1>9, <1>un, <2>1, <2>2 DEF purge
<1>10. CASE delete_log_entry
  <2>1. Min(coreOp.keys) \in Index
    BY <1>10, MinLeast DEF delete_log_entry
  <2>2. None \in 0..MaxTerm /\ None \in 0..Torn
    BY DEF None
  <2>3. mem' \in MemType /\ disk' \in DiskType
    BY <1>10, <2>1, <2>2, MemUpdates, DiskUpdates, Zenon DEF delete_log_entry
  <2>4. coreOp' \in CoreType /\ ArgInv'
    BY <1>10, CoreUpdates, Zenon DEF delete_log_entry, ArgInv
  <2>. QED  BY <1>10, <2>1, <2>3, <2>4 DEF delete_log_entry
<1>11. CASE Deleted
  BY <1>11, <1>idle DEF Deleted, ArgInv
<1>. QED  BY <1>1, <1>2, <1>3, <1>4, <1>5, <1>6, <1>7, <1>8, <1>9, <1>10, <1>11 DEF CoreStep

\* The calls of the state machine worker keep the types.
LEMMA SmTypes ==
    ASSUME TypeInv, SmStep
    PROVE  TypeInv'
<1>. USE Bounds, Fields DEF TypeInv, memory, history
<1>arg. ASSUME UNCHANGED coreOp  PROVE ArgInv'
  BY <1>arg DEF ArgInv
<1>kind. \A k \in {"idle", "apply", "meta", "data", "sm", "publish"} :
            [smOp EXCEPT !.kind = k] \in SmType
  BY DEF SmType
<1>1. ASSUME NEW count \in 1..MaxBatch, apply(count)  PROVE TypeInv'
  <2>. DEFINE new == MembershipIndices \cap ((sm.applied + 1)..(sm.applied + count))
  <2>1. sm.applied + count \in 0..MaxIndex
    BY <1>1 DEF apply
  <2>2. new \in SUBSET (0..MaxIndex)
    BY BoundsAssumption
  <2>3. sm' = [applied |-> sm.applied + count,
               membership |-> IF new = {} THEN sm.membership ELSE Max(new)]
    BY <1>1 DEF apply
  <2>. HIDE DEF new
  <2>4. sm' \in Sm
    BY <2>1, <2>2, <2>3, MaxGreatest, Zenon DEF Sm
  <2>5. smOp' \in SmType
    BY <1>1, <1>kind DEF apply
  <2>. QED  BY <1>1, <1>arg, <2>4, <2>5 DEF apply
<1>2. CASE PersistSm
  <2>1. disk' \in DiskType
    BY <1>2, DiskUpdates, Zenon DEF PersistSm
  <2>2. smOp' \in SmType
    BY <1>2, <1>kind DEF PersistSm
  <2>. QED  BY <1>2, <1>arg, <2>1, <2>2 DEF PersistSm
<1>3. ASSUME NEW i \in Index, install_snapshot(i)  PROVE TypeInv'
  <2>1. i \in 0..MaxIndex /\ LastMembership(i) \in 0..MaxIndex
    <3>1. i \in 0..MaxIndex
      BY SMTT(30) DEF Index
    <3>. QED  BY <3>1, LastMembershipFacts, Zenon
  <2>2. sm' \in Sm /\ smOp' \in SmType
    BY <1>3, <2>1 DEF install_snapshot, Sm, SmType, Meta
  <2>. QED  BY <1>3, <1>arg, <2>2 DEF install_snapshot
<1>4. CASE InstallMeta
  <2>1. disk' \in DiskType /\ smOp' \in SmType
    BY <1>4, <1>kind, DiskUpdates, Zenon DEF InstallMeta
  <2>. QED  BY <1>4, <1>arg, <2>1 DEF InstallMeta
<1>5. CASE InstallData
  <2>1. disk' \in DiskType /\ smOp' \in SmType
    BY <1>5, <1>kind, DiskUpdates DEF InstallData
  <2>. QED  BY <1>5, <1>arg, <2>1 DEF InstallData
<1>6. CASE InstallPublish
  <2>1. snap' \in Meta /\ smOp' \in SmType
    BY <1>6, <1>kind DEF InstallPublish
  <2>. QED  BY <1>6, <1>arg, <2>1 DEF InstallPublish
<1>. QED  BY <1>1, <1>2, <1>3, <1>4, <1>5, <1>6 DEF SmStep

\* The snapshot builder keeps the types.
LEMMA BuildTypes ==
    ASSUME TypeInv, BuildStep
    PROVE  TypeInv'
<1>. USE Bounds, Fields DEF TypeInv, memory, history
<1>arg. ASSUME UNCHANGED coreOp  PROVE ArgInv'
  BY <1>arg DEF ArgInv
<1>kind. \A k \in {"idle", "meta", "data", "publish"} : [buildOp EXCEPT !.kind = k] \in BuildType
  BY DEF BuildType
<1>1. CASE build_snapshot
  <2>1. SnapshotMeta \in Meta
    BY DEF SnapshotMeta, Meta
  <2>2. buildOp' \in BuildType
    BY <1>1, <2>1 DEF build_snapshot, BuildType
  <2>. QED  BY <1>1, <1>arg, <2>1, <2>2 DEF build_snapshot
<1>2. CASE BuildMeta
  <2>1. disk' \in DiskType /\ buildOp' \in BuildType
    BY <1>2, <1>kind, DiskUpdates, Zenon DEF BuildMeta
  <2>. QED  BY <1>2, <1>arg, <2>1 DEF BuildMeta
<1>3. CASE BuildData
  <2>1. disk' \in DiskType /\ buildOp' \in BuildType
    BY <1>3, <1>kind, DiskUpdates DEF BuildData
  <2>. QED  BY <1>3, <1>arg, <2>1 DEF BuildData
<1>4. CASE BuildPublish
  <2>1. snap' \in Meta /\ buildOp' \in BuildType
    BY <1>4, <1>kind DEF BuildPublish
  <2>. QED  BY <1>4, <1>arg, <2>1 DEF BuildPublish
<1>. QED  BY <1>1, <1>2, <1>3, <1>4 DEF BuildStep

\* Crashes, the kernel and recovery.
FaultStep == Crash \/ PowerFailure \/ (\E i \in Index : WriteBack(i)) \/ load_state \/ LoadFails

\* What a process starts with is well typed.
LEMMA Empties ==
    /\ EmptyMem \in MemType /\ EmptySm \in Sm /\ NoMeta \in Meta
    /\ EmptyLog \in [Index -> 0..MaxTerm] /\ EmptyLog \in [Index -> 0..Torn]
    /\ Idle \in CoreType /\ Idle.kind = "idle"
    /\ [kind |-> "idle", meta |-> NoMeta] \in SmType
    /\ [kind |-> "idle", meta |-> NoMeta] \in BuildType
<1>1. EmptyLog \in [Index -> 0..MaxTerm] /\ EmptyLog \in [Index -> 0..Torn]
  BY Bounds DEF EmptyLog, None
<1>2. NoMeta \in Meta
  BY Bounds DEF NoMeta, Meta
<1>3. EmptyMem \in MemType /\ EmptySm \in Sm /\ Idle \in CoreType /\ Idle.kind = "idle"
  BY <1>1, Bounds DEF EmptyMem, MemType, EmptySm, Sm, Idle, CoreType
<1>4. /\ [kind |-> "idle", meta |-> NoMeta] \in SmType
      /\ [kind |-> "idle", meta |-> NoMeta] \in BuildType
  BY <1>2, SMTT(30) DEF SmType, BuildType
<1>. QED  BY <1>1, <1>2, <1>3, <1>4

\* Crashes and recovery keep the types.
LEMMA FaultTypes ==
    ASSUME TypeInv, FaultStep
    PROVE  TypeInv'
<1>. USE Bounds, Fields DEF TypeInv, memory, history
<1>arg. ASSUME UNCHANGED coreOp  PROVE ArgInv'
  BY <1>arg DEF ArgInv
<1>down. ASSUME Down
         PROVE  /\ mem' \in MemType /\ sm' \in Sm /\ snap' \in Meta /\ snapshot_idx' \in Nat
                /\ coreOp' \in CoreType /\ ArgInv' /\ smOp' \in SmType /\ buildOp' \in BuildType
                /\ life' = "down" /\ acked' = acked /\ built' = built /\ crashes' \in 0..MaxCrashes
  BY <1>down, Empties DEF Down, ArgInv
<1>cut. InstallCut \subseteq {"power", "install"}
  BY DEF InstallCut
<1>1. CASE Crash
  BY <1>1, <1>down, <1>cut DEF Crash
<1>2. CASE PowerFailure
  <2>1. PICK log \in [Index -> 0..Torn] : disk' = [disk EXCEPT !.log = log] /\ synced' = log
    BY <1>2, Zenon DEF PowerFailure
  <2>2. disk' \in DiskType
    BY <2>1, DiskUpdates, Zenon
  <2>3. faults' \subseteq {"power", "install"} /\ dirty' = {} /\ Down
    BY <1>2, <1>cut DEF PowerFailure
  <2>. QED  BY <1>down, <2>1, <2>2, <2>3
<1>3. ASSUME NEW i \in Index, WriteBack(i)  PROVE TypeInv'
  BY <1>3, <1>arg DEF WriteBack
<1>4. CASE load_state
  <2>1. disk.log \in [Index -> 0..MaxTerm]
    BY <1>4 DEF load_state
  <2>2. mem' \in MemType
    BY <1>4, <2>1 DEF load_state, MemType
  <2>3. sm' \in Sm /\ snap' \in Meta
    BY <1>4, Empties DEF load_state
  <2>. QED  BY <1>4, <1>arg, <2>2, <2>3 DEF load_state
<1>5. CASE LoadFails
  BY <1>5, <1>arg DEF LoadFails
<1>. QED  BY <1>1, <1>2, <1>3, <1>4, <1>5, SMTT(30) DEF FaultStep

\* Every step keeps the types.
LEMMA TypeStep ==
    ASSUME TypeInv, [Next]_vars
    PROVE  TypeInv'
<1>1. CASE UNCHANGED vars
  BY <1>1, SMTT(30) DEF vars, memory, history, TypeInv, ArgInv
<1>. QED  BY <1>1, CoreTypes, SmTypes, BuildTypes, FaultTypes DEF Next, FaultStep

-----------------------------------------------------------------------------
\* The state that the core task's calls work on.
CoreState == <<mem, coreOp, life, acked, faults, disk.vote, disk.committed, disk.log>>

\* The worker and the builder leave it alone, and so does the kernel.
LEMMA OthersLeaveCore ==
    ASSUME TypeInv, SmStep \/ BuildStep \/ (\E i \in Index : WriteBack(i)) \/ UNCHANGED vars
    PROVE  UNCHANGED CoreState
<1>. USE DEF CoreState, memory, history
<1>d. disk \in DiskType
  BY DEF TypeInv
<1>1. ASSUME NEW count \in 1..MaxBatch, apply(count)  PROVE UNCHANGED CoreState
  BY <1>1 DEF apply
<1>2. CASE PersistSm
  BY <1>2, <1>d DEF PersistSm, DiskType
<1>3. ASSUME NEW i \in Index, install_snapshot(i)  PROVE UNCHANGED CoreState
  BY <1>3 DEF install_snapshot
<1>4. CASE InstallMeta
  BY <1>4, <1>d DEF InstallMeta, DiskType
<1>5. CASE InstallData
  BY <1>5, <1>d DEF InstallData, DiskType
<1>6. CASE InstallPublish
  BY <1>6 DEF InstallPublish
<1>7. CASE build_snapshot
  BY <1>7 DEF build_snapshot
<1>8. CASE BuildMeta
  BY <1>8, <1>d DEF BuildMeta, DiskType
<1>9. CASE BuildData
  BY <1>9, <1>d DEF BuildData, DiskType
<1>10. CASE BuildPublish
  BY <1>10 DEF BuildPublish
<1>11. ASSUME NEW i \in Index, WriteBack(i)  PROVE UNCHANGED CoreState
  BY <1>11 DEF WriteBack
<1>12. CASE UNCHANGED vars
  BY <1>12 DEF vars
<1>. QED  BY <1>1, <1>2, <1>3, <1>4, <1>5, <1>6, <1>7, <1>8, <1>9, <1>10, <1>11, <1>12 DEF SmStep, BuildStep

\* What the core's calls do to the records, field by field.
LEMMA CoreEffects ==
    ASSUME TypeInv
    PROVE  /\ \A v : /\ [disk EXCEPT !.vote = v].vote = v
                     /\ [disk EXCEPT !.vote = v].committed = disk.committed
                     /\ [disk EXCEPT !.vote = v].log = disk.log
                     /\ [disk EXCEPT !.committed = v].vote = disk.vote
                     /\ [disk EXCEPT !.committed = v].committed = v
                     /\ [disk EXCEPT !.committed = v].log = disk.log
                     /\ [mem EXCEPT !.vote = v].vote = v
                     /\ [mem EXCEPT !.vote = v].committed = mem.committed
                     /\ [mem EXCEPT !.vote = v].log = mem.log
                     /\ [mem EXCEPT !.committed = v].vote = mem.vote
                     /\ [mem EXCEPT !.committed = v].committed = v
                     /\ [mem EXCEPT !.committed = v].log = mem.log
                     /\ [mem EXCEPT !.last_purged = v].vote = mem.vote
                     /\ [mem EXCEPT !.last_purged = v].committed = mem.committed
                     /\ [mem EXCEPT !.last_purged = v].log = mem.log
                     /\ [acked EXCEPT !.vote = v].vote = v
                     /\ [acked EXCEPT !.vote = v].committed = acked.committed
                     /\ [acked EXCEPT !.vote = v].log = acked.log
                     /\ [acked EXCEPT !.committed = v].vote = acked.vote
                     /\ [acked EXCEPT !.committed = v].committed = v
                     /\ [acked EXCEPT !.committed = v].log = acked.log
                     /\ [acked EXCEPT !.log = v].vote = acked.vote
                     /\ [acked EXCEPT !.log = v].committed = acked.committed
                     /\ [acked EXCEPT !.log = v].log = v
           /\ \A i, t : /\ [disk EXCEPT !.log[i] = t].vote = disk.vote
                        /\ [disk EXCEPT !.log[i] = t].committed = disk.committed
                        /\ [disk EXCEPT !.log[i] = t].log = [disk.log EXCEPT ![i] = t]
                        /\ [mem EXCEPT !.log[i] = t].vote = mem.vote
                        /\ [mem EXCEPT !.log[i] = t].committed = mem.committed
                        /\ [mem EXCEPT !.log[i] = t].log = [mem.log EXCEPT ![i] = t]
  BY DEF TypeInv, DiskType, MemType, AckedType

\* Of what was acknowledged, Unacked takes entries only.
LEMMA UnackedFacts ==
    ASSUME TypeInv, NEW S
    PROVE  /\ Unacked(S).vote = acked.vote /\ Unacked(S).committed = acked.committed
           /\ \A i \in Index : Unacked(S).log[i] = IF i \in S THEN None ELSE acked.log[i]
<1>. DEFINE l == [j \in Index |-> IF j \in S THEN None ELSE acked.log[j]]
<1>1. Unacked(S) = [acked EXCEPT !.log = l]
  BY DEF Unacked
<1>2. /\ Unacked(S).vote = acked.vote /\ Unacked(S).committed = acked.committed
      /\ Unacked(S).log = l
  <2>. HIDE DEF l
  <2>. QED  BY <1>1, CoreEffects, SMTT(30)
<1>. QED  BY <1>2

\* The calls of the core task keep vote.bin and committed.bin ahead.
LEMMA CoreVote ==
    ASSUME TypeInv, DownInv, VoteInv, CoreStep
    PROVE  DownInv' /\ VoteInv'
<1>. USE Bounds, Fields, CoreEffects DEF DownInv, VoteInv, memory, history
<1>idle. Idle.kind = "idle"
  BY DEF Idle
<1>range. Term \subseteq Nat /\ Index \subseteq 0..MaxIndex
  BY SMTT(30) DEF Term, Index
<1>1. ASSUME NEW v \in Term, save_vote(v)  PROVE DownInv' /\ VoteInv'
  BY <1>1, <1>range DEF save_vote, CoreIdle, StartCore
<1>2. CASE VoteCached
  BY <1>2, <1>idle DEF VoteCached
<1>3. ASSUME NEW c \in Index, save_committed(c)  PROVE DownInv' /\ VoteInv'
  <2>1. Max({mem.committed, sm.applied}) >= mem.committed
        /\ Max({mem.committed, sm.applied}) \in 0..MaxIndex
    <3>1. {mem.committed, sm.applied} \in SUBSET (0..MaxIndex) /\ {mem.committed, sm.applied} # {}
      OBVIOUS
    <3>. QED  BY <3>1, MaxGreatest, ZenonT(30)
  <2>2. c > mem.committed
    BY <1>3, <1>range, <2>1 DEF save_committed
  <2>. QED  BY <1>3, <1>range, <2>2 DEF save_committed, CoreIdle, StartCore
<1>4. CASE CommittedCached
  BY <1>4, <1>idle DEF CommittedCached
<1>5. ASSUME NEW count \in 1..MaxBatch, BeginAppend(count)  PROVE DownInv' /\ VoteInv'
  BY <1>5 DEF BeginAppend, CoreIdle, StartCore
<1>key. ASSUME NEW i, coreOp' = [coreOp EXCEPT !.keys = @ \ {i}]  PROVE coreOp'.kind = coreOp.kind
  BY <1>key, CoreUpdates DEF TypeInv
<1>6. CASE AppendEntry
  BY <1>6, <1>key DEF AppendEntry
<1>7. CASE append
  BY <1>7, <1>idle DEF append
<1>8. ASSUME NEW i \in Index, truncate(i)  PROVE DownInv' /\ VoteInv'
  BY <1>8, UnackedFacts DEF truncate, CoreIdle, StartCore
<1>9. ASSUME NEW i \in Index, purge(i)  PROVE DownInv' /\ VoteInv'
  BY <1>9, UnackedFacts DEF purge, CoreIdle, StartCore
<1>10. CASE delete_log_entry
  BY <1>10, <1>key DEF delete_log_entry
<1>11. CASE Deleted
  BY <1>11, <1>idle DEF Deleted
<1>. QED  BY <1>1, <1>2, <1>3, <1>4, <1>5, <1>6, <1>7, <1>8, <1>9, <1>10, <1>11 DEF CoreStep

\* The indices that follow l.
LEMMA FollowingIndices ==
    ASSUME NEW l \in Nat, NEW n \in Int, n <= MaxIndex, NEW i \in (l + 1)..n
    PROVE  i \in Index /\ ~(i <= l)
  BY Bounds DEF Index

\* The calls of the core task keep cache and directory equal, and take no
\* acknowledged entry.
LEMMA CoreLog ==
    ASSUME TypeInv, DownInv, LogInv, CoreStep
    PROVE  LogInv'
<1>. USE Bounds, Fields, CoreEffects DEF LogInv, memory, history
<1>idle. Idle.kind = "idle"
  BY DEF Idle
<1>key. ASSUME NEW i, coreOp' = [coreOp EXCEPT !.keys = @ \ {i}]
        PROVE  coreOp'.kind = coreOp.kind /\ coreOp'.keys = coreOp.keys \ {i}
  BY <1>key, CoreUpdates DEF TypeInv
<1>1. ASSUME NEW v \in Term, save_vote(v)  PROVE LogInv'
  BY <1>1 DEF save_vote, StartCore
<1>2. CASE VoteCached
  BY <1>2, <1>idle DEF VoteCached
<1>3. ASSUME NEW c \in Index, save_committed(c)  PROVE LogInv'
  BY <1>3 DEF save_committed, StartCore
<1>4. CASE CommittedCached
  BY <1>4, <1>idle DEF CommittedCached
<1>5. ASSUME NEW count \in 1..MaxBatch, BeginAppend(count)  PROVE LogInv'
  <2>1. last_log_id \in 0..MaxIndex /\ \A i \in Entries(mem.log) : i <= last_log_id
    BY LastLogId, TypeInvOK
  <2>2. /\ coreOp'.keys = (last_log_id + 1)..(last_log_id + 1 + count - 1)
        /\ last_log_id + 1 + count - 1 <= MaxIndex
        /\ life = "running" /\ UNCHANGED <<mem, disk, acked, faults, life>>
    BY <1>5 DEF BeginAppend, CoreIdle, StartCore
  <2>3. ASSUME NEW i \in coreOp'.keys, "power" \notin faults  PROVE acked.log[i] = None
    <3>. DEFINE l == last_log_id
    <3>1. /\ l \in Nat /\ l + 1 + count - 1 \in Int /\ l + 1 + count - 1 <= MaxIndex
          /\ i \in (l + 1)..(l + 1 + count - 1)
      BY <2>1, <2>2, <2>3
    <3>. HIDE DEF l
    <3>2. i \in Index /\ ~(i <= l)
      BY <3>1, FollowingIndices
    <3>3. i \notin Entries(mem.log)
      BY <2>1, <3>2, Zenon DEF l
    <3>. QED  BY <2>2, <2>3, <3>2, <3>3, SMTT(30) DEF Entries
  <2>. QED  BY <2>2, <2>3
<1>6. CASE AppendEntry
  <2>. DEFINE i == Min(coreOp.keys)
  <2>1. i \in coreOp.keys /\ i \in Index
    BY <1>6, MinLeast DEF AppendEntry
  <2>2. /\ mem'.log = [mem.log EXCEPT ![i] = coreOp.arg]
        /\ disk'.log = [disk.log EXCEPT ![i] = coreOp.arg]
        /\ coreOp'.kind = coreOp.kind /\ coreOp'.keys = coreOp.keys \ {i}
        /\ coreOp.kind = "append" /\ life = "running" /\ UNCHANGED <<life, acked, faults>>
    BY <1>6, <1>key DEF AppendEntry
  <2>. HIDE DEF i
  <2>. QED  BY <2>1, <2>2
<1>7. CASE append
  BY <1>7, <1>idle DEF append
<1>8. ASSUME NEW i \in Index, truncate(i)  PROVE LogInv'
  <2>. DEFINE S == {j \in Index : j >= i}
  <2>1. /\ acked' = Unacked(S) /\ coreOp'.keys \subseteq S
        /\ UNCHANGED <<mem, disk, life, faults>>
    BY <1>8 DEF truncate, StartCore, Entries
  <2>2. S \subseteq Index
    OBVIOUS
  <2>. HIDE DEF S
  <2>. QED  BY <2>1, <2>2, UnackedFacts
<1>9. ASSUME NEW i \in Index, purge(i)  PROVE LogInv'
  <2>. DEFINE S == {j \in Index : j <= i}
  <2>1. /\ acked' = Unacked(S) /\ coreOp'.keys \subseteq S
        /\ mem'.log = mem.log /\ UNCHANGED <<disk, life, faults>>
    BY <1>9 DEF purge, StartCore, Entries
  <2>2. S \subseteq Index
    OBVIOUS
  <2>. HIDE DEF S
  <2>. QED  BY <2>1, <2>2, UnackedFacts
<1>10. CASE delete_log_entry
  <2>. DEFINE i == Min(coreOp.keys)
  <2>1. i \in coreOp.keys /\ i \in Index
    BY <1>10, MinLeast DEF delete_log_entry
  <2>2. /\ mem'.log = [mem.log EXCEPT ![i] = None]
        /\ disk'.log = [disk.log EXCEPT ![i] = None]
        /\ coreOp'.kind = coreOp.kind /\ coreOp'.keys = coreOp.keys \ {i}
        /\ coreOp.kind = "delete" /\ life = "running" /\ UNCHANGED <<life, acked, faults>>
    BY <1>10, <1>key DEF delete_log_entry
  <2>. HIDE DEF i
  <2>. QED  BY <2>1, <2>2
<1>11. CASE Deleted
  BY <1>11, <1>idle, SMTT(30) DEF Deleted
<1>. QED  BY <1>1, <1>2, <1>3, <1>4, <1>5, <1>6, <1>7, <1>8, <1>9, <1>10, <1>11, SMTT(30) DEF CoreStep

\* Crashes and recovery: the files are what counts, and the cache is read back
\* from them.
LEMMA FaultCore ==
    ASSUME TypeInv, DownInv, VoteInv, LogInv, FaultStep
    PROVE  DownInv' /\ VoteInv' /\ LogInv'
<1>. USE Bounds, Fields DEF DownInv, VoteInv, LogInv, memory, history
<1>idle. Idle.kind = "idle"
  BY DEF Idle
<1>1. CASE Crash
  <2>1. /\ life' = "down" /\ coreOp' = Idle /\ UNCHANGED <<acked, disk>>
        /\ "power" \notin faults' => "power" \notin faults
    BY <1>1, SMTT(30) DEF Crash, Down
  <2>. QED  BY <1>idle, <2>1
<1>2. CASE PowerFailure
  <2>1. PICK log : disk' = [disk EXCEPT !.log = log]
    BY <1>2, ZenonT(30) DEF PowerFailure
  <2>2. disk'.vote = disk.vote /\ disk'.committed = disk.committed
    BY <2>1 DEF TypeInv, DiskType
  <2>3. life' = "down" /\ coreOp' = Idle /\ UNCHANGED acked /\ "power" \in faults'
    BY <1>2 DEF PowerFailure, Down
  <2>. QED  BY <1>idle, <2>2, <2>3
<1>3. ASSUME NEW i \in Index, WriteBack(i)  PROVE DownInv' /\ VoteInv' /\ LogInv'
  BY <1>3 DEF WriteBack
<1>4. CASE load_state
  BY <1>4 DEF load_state
<1>5. CASE LoadFails
  BY <1>5, SMTT(30) DEF LoadFails
<1>. QED  BY <1>1, <1>2, <1>3, <1>4, <1>5, SMTT(30) DEF FaultStep

-----------------------------------------------------------------------------
\* The state of worker and builder.
MetaState == <<sm, disk.sm, snap, disk.meta, smOp, buildOp, built>>

\* The core's calls, the kernel and a failed recovery leave it alone.
LEMMA CoreLeavesMeta ==
    ASSUME TypeInv,
           CoreStep \/ (\E i \in Index : WriteBack(i)) \/ LoadFails \/ UNCHANGED vars
    PROVE  UNCHANGED MetaState
<1>. USE DEF MetaState, memory, history
<1>d. disk \in DiskType
  BY DEF TypeInv
<1>1. ASSUME NEW v \in Term, save_vote(v)  PROVE UNCHANGED MetaState
  BY <1>1, <1>d DEF save_vote, DiskType
<1>2. CASE VoteCached
  BY <1>2 DEF VoteCached
<1>3. ASSUME NEW c \in Index, save_committed(c)  PROVE UNCHANGED MetaState
  BY <1>3, <1>d DEF save_committed, DiskType
<1>4. CASE CommittedCached
  BY <1>4 DEF CommittedCached
<1>5. ASSUME NEW count \in 1..MaxBatch, BeginAppend(count)  PROVE UNCHANGED MetaState
  BY <1>5 DEF BeginAppend
<1>6. CASE AppendEntry
  BY <1>6, <1>d DEF AppendEntry, DiskType
<1>7. CASE append
  BY <1>7 DEF append
<1>8. ASSUME NEW i \in Index, truncate(i)  PROVE UNCHANGED MetaState
  BY <1>8 DEF truncate
<1>9. ASSUME NEW i \in Index, purge(i)  PROVE UNCHANGED MetaState
  BY <1>9 DEF purge
<1>10. CASE delete_log_entry
  BY <1>10, <1>d DEF delete_log_entry, DiskType
<1>11. CASE Deleted
  BY <1>11 DEF Deleted
<1>12. ASSUME NEW i \in Index, WriteBack(i)  PROVE UNCHANGED MetaState
  BY <1>12 DEF WriteBack
<1>13. CASE LoadFails
  BY <1>13 DEF LoadFails
<1>14. CASE UNCHANGED vars
  BY <1>14 DEF vars
<1>. QED  BY <1>1, <1>2, <1>3, <1>4, <1>5, <1>6, <1>7, <1>8, <1>9, <1>10, <1>11, <1>12, <1>13, <1>14
          DEF CoreStep

\* A process that starts without files has no membership.
LEMMA EmptyMembership ==
    /\ EmptySm.membership = LastMembership(EmptySm.applied)
    /\ NoMeta.membership = LastMembership(NoMeta.last)
<1>1. LastMembership(0) = 0
  BY Bounds, LastMembershipFacts, SMTT(30)
<1>. QED  BY <1>1 DEF EmptySm, NoMeta

\* Every step keeps log id and membership together in all the places that
\* carry both.
LEMMA MetaStep ==
    ASSUME TypeInv, MetaInv, [Next]_vars
    PROVE  MetaInv'
<1>. USE Bounds, Fields DEF MetaInv, MembershipMatchesLogId, memory, history
<1>d. disk \in DiskType /\ smOp \in SmType /\ buildOp \in BuildType
  BY DEF TypeInv
<1>0. CASE UNCHANGED MetaState
  BY <1>0 DEF MetaState
<1>1. ASSUME NEW count \in 1..MaxBatch, apply(count)  PROVE MetaInv'
  <2>. DEFINE a == sm.applied
              new == MembershipIndices \cap ((a + 1)..(a + count))
  <2>1. sm' = [applied |-> a + count, membership |-> IF new = {} THEN sm.membership ELSE Max(new)]
    BY <1>1 DEF apply
  <2>2. a \in 0..MaxIndex /\ a + count \in 0..MaxIndex /\ a <= a + count
    BY <1>1 DEF apply
  <2>3. LastMembership(a + count) = IF new = {} THEN LastMembership(a) ELSE Max(new)
    BY <2>2, AppliedMembership, Zenon
  <2>4. sm'.membership = LastMembership(sm'.applied)
    <3>. HIDE DEF new
    <3>. QED  BY <2>1, <2>3
  <2>5. smOp'.meta = smOp.meta /\ UNCHANGED <<disk, snap, buildOp, built>>
    BY <1>1, <1>d DEF apply, SmType
  <2>. QED  BY <2>4, <2>5
<1>2. CASE PersistSm
  <2>1. /\ disk'.sm = sm /\ disk'.meta = disk.meta /\ smOp'.meta = smOp.meta
        /\ UNCHANGED <<sm, snap, buildOp, built>>
    BY <1>2, <1>d, SMTT(30) DEF PersistSm, DiskType, SmType
  <2>. QED  BY <2>1
<1>3. ASSUME NEW i \in Index, install_snapshot(i)  PROVE MetaInv'
  BY <1>3 DEF install_snapshot
<1>4. CASE InstallMeta
  <2>1. /\ disk'.sm = disk.sm /\ disk'.meta = smOp.meta /\ smOp'.meta = smOp.meta
        /\ UNCHANGED <<sm, snap, buildOp, built>>
    BY <1>4, <1>d DEF InstallMeta, DiskType, SmType
  <2>. QED  BY <2>1
<1>5. CASE InstallData
  <2>1. /\ disk'.sm = disk.sm /\ disk'.meta = disk.meta /\ smOp'.meta = smOp.meta
        /\ UNCHANGED <<sm, snap, buildOp, built>>
    BY <1>5, <1>d DEF InstallData, DiskType, SmType
  <2>. QED  BY <2>1
<1>6. CASE InstallPublish
  <2>1. snap' = smOp.meta /\ smOp'.meta = smOp.meta /\ UNCHANGED <<sm, disk, buildOp, built>>
    BY <1>6, <1>d, SMTT(30) DEF InstallPublish, SmType
  <2>. QED  BY <2>1
<1>7. CASE build_snapshot
  BY <1>7, SMTT(30) DEF build_snapshot, SnapshotMeta
<1>8. CASE BuildMeta
  <2>1. /\ disk'.sm = disk.sm /\ disk'.meta = buildOp.meta /\ buildOp'.meta = buildOp.meta
        /\ UNCHANGED <<sm, snap, smOp, built>>
    BY <1>8, <1>d DEF BuildMeta, DiskType, BuildType
  <2>. QED  BY <2>1
<1>9. CASE BuildData
  <2>1. /\ disk'.sm = disk.sm /\ disk'.meta = disk.meta /\ buildOp'.meta = buildOp.meta
        /\ UNCHANGED <<sm, snap, smOp, built>>
    BY <1>9, <1>d DEF BuildData, DiskType, BuildType
  <2>. QED  BY <2>1
<1>10. CASE BuildPublish
  <2>1. snap' = buildOp.meta /\ buildOp'.meta = buildOp.meta /\ UNCHANGED <<sm, disk, smOp, built>>
    BY <1>10, <1>d DEF BuildPublish, BuildType
  <2>. QED  BY <2>1
<1>11. CASE Crash \/ PowerFailure
  <2>1. disk'.sm = disk.sm /\ disk'.meta = disk.meta
    BY <1>11, <1>d DEF Crash, PowerFailure, DiskType
  <2>2. sm' = EmptySm /\ snap' = NoMeta /\ smOp'.meta = NoMeta /\ buildOp'.meta = NoMeta
        /\ built' = built
    BY <1>11, SMTT(30) DEF Crash, PowerFailure, Down
  <2>. QED  BY <2>1, <2>2, EmptyMembership
<1>12. CASE load_state
  BY <1>12, EmptyMembership DEF load_state
<1>. QED  BY <1>0, <1>1, <1>2, <1>3, <1>4, <1>5, <1>6, <1>7, <1>8, <1>9, <1>10, <1>11, <1>12,
             CoreLeavesMeta, SMTT(30) DEF Next, SmStep, BuildStep

-----------------------------------------------------------------------------
\* A store without files satisfies the invariant.
LEMMA Initially == Init => TypeInv /\ StoreInv
<1>. SUFFICES ASSUME Init PROVE TypeInv /\ StoreInv
  OBVIOUS
<1>. USE Bounds, Empties DEF Init
<1>1. disk \in DiskType /\ acked \in AckedType
  BY DEF DiskType, AckedType
<1>2. TypeInv
  BY <1>1 DEF TypeInv, ArgInv
<1>3. DownInv /\ VoteInv
  BY SMTT(30) DEF DownInv, VoteInv, EmptyMem
<1>4. LogInv
  BY SMTT(30) DEF LogInv, EmptyMem, EmptyLog, None
<1>5. MetaInv
  BY EmptyMembership DEF MetaInv, MembershipMatchesLogId
<1>. QED  BY <1>2, <1>3, <1>4, <1>5 DEF StoreInv

\* Every step keeps it.
LEMMA StoreStep ==
    ASSUME TypeInv, StoreInv, [Next]_vars
    PROVE  StoreInv'
<1>1. CASE CoreStep
  BY <1>1, CoreVote, CoreLog, MetaStep DEF StoreInv
<1>2. CASE FaultStep
  BY <1>2, FaultCore, MetaStep DEF StoreInv
<1>3. CASE SmStep \/ BuildStep \/ UNCHANGED vars
  <2>1. UNCHANGED CoreState
    BY <1>3, OthersLeaveCore
  <2>2. DownInv' /\ VoteInv' /\ LogInv'
    BY <2>1 DEF CoreState, StoreInv, DownInv, VoteInv, LogInv
  <2>. QED  BY <2>2, MetaStep DEF StoreInv
<1>. QED  BY <1>1, <1>2, <1>3 DEF Next, FaultStep

\* The inductive invariant holds in every reachable state.
LEMMA Invariant == Spec => [](TypeInv /\ StoreInv)
<1>1. TypeInv /\ StoreInv /\ [Next]_vars => (TypeInv /\ StoreInv)'
  BY TypeStep, StoreStep
<1>. QED  BY Initially, <1>1, PTL DEF Spec

\* Every reachable state of the store is well typed; in particular what
\* load_state reads back is a vote, an index and terms, never a torn file.
THEOREM StoreTypeCorrect == Spec => []TypeOK
  BY Invariant, TypeInvOK, PTL

\* A vote or committed index that save_vote or save_committed returned for is
\* read back by load_state after any number of crashes and power losses, for
\* every interleaving with apply, installs and builds.
THEOREM VoteIsDurable == Spec => []AckedVoteSurvives
<1>1. StoreInv => AckedVoteSurvives
  BY DEF StoreInv, VoteInv, AckedVoteSurvives
<1>. QED  BY Invariant, <1>1, PTL

\* Without power loss, an entry whose append was acknowledged is read back with
\* its term until OpenRaft truncates or purges it, wherever the process crashes
\* in append, truncate or purge.
THEOREM EntriesAreDurable == Spec => []AckedEntriesSurvive
<1>1. StoreInv => AckedEntriesSurvive
  BY DEF StoreInv, LogInv, AckedEntriesSurvive
<1>. QED  BY Invariant, <1>1, PTL

\* Between the core's calls the cache of the log is the logs directory.
THEOREM CacheIsDirectory == Spec => []LogMatchesDisk
<1>1. StoreInv => LogMatchesDisk
  BY DEF StoreInv, LogInv, LogMatchesDisk, CoreIdle
<1>. QED  BY Invariant, <1>1, PTL

\* State machine, state_machine.bin, meta.bin and current_snapshot each carry
\* the membership of their own log id, for every interleaving of apply,
\* install_snapshot and build_snapshot and every crash between their writes.
THEOREM MembershipIsConsistent == Spec => []MembershipMatchesLogId
<1>1. StoreInv => MembershipMatchesLogId
  BY DEF StoreInv, MetaInv
<1>. QED  BY Invariant, <1>1, PTL

\* Snapshot ids identify snapshots across restarts, although snapshot_idx
\* starts again at zero.
THEOREM SnapshotIdsAreUnique == Spec => []SnapshotIdsIdentify
<1>1. TypeInv /\ StoreInv => SnapshotIdsIdentify
  <2>. SUFFICES ASSUME TypeInv, StoreInv, NEW a \in built, NEW b \in built, a.id = b.id
                PROVE  a = b
    BY DEF SnapshotIdsIdentify
  <2>1. a \in Meta /\ b \in Meta
    BY DEF TypeInv
  <2>2. a.last = b.last /\ a.membership = b.membership
    BY DEF StoreInv, MetaInv
  <2>. QED  BY <2>1, <2>2 DEF Meta
<1>. QED  BY Invariant, <1>1, PTL
=============================================================================
