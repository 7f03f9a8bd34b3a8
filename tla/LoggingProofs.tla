--------------------------- MODULE LoggingProofs ---------------------------
(***************************************************************************)
(* Theorems about Logging, for every number of threads, events, context    *)
(* keys and failed writes, and every batch size.                           *)
(***************************************************************************)
EXTENDS Logging, TLAPS, FiniteSetTheorems, SequenceTheorems

ThreadState == [pc : {"idle", "write", "push", "flush"},
                event : 0..MaxEvents, retry : 0..(MAX_RETRIES - 1)]

\* The type invariant; the log context is finite.
LogTypes ==
    /\ layers \subseteq {"file", "openobserve"}
    /\ ctx \subseteq Keys /\ IsFiniteSet(ctx) /\ Cardinality(ctx) <= MAX_CONTEXT_KEYS
    /\ thread \in [Threads -> ThreadState]
    /\ emitted \in 0..MaxEvents
    /\ writeErrors \in 0..MaxWriteErrors
    /\ lineBuf \in Seq(Events) /\ file \in Seq(Events) /\ buffer \in Seq(Events)
    /\ batches \in Seq(Seq(Events)) /\ pushed \in Seq(Seq(Events))

Busy(t) == thread[t].pc # "idle"

\* No two threads work on the same event.
ThreadInv ==
    /\ layers = {} => emitted = 0
    /\ \A t \in Threads : Busy(t) => thread[t].event \in 1..emitted
    /\ \A t, u \in Threads : Busy(t) /\ Busy(u) /\ thread[t].event = thread[u].event => t = u

\* The lines that hold event e.
Lines(s, e) == {i \in DOMAIN s : s[i] = e}

\* A line is there once per attempt that its thread has made.
LineInv ==
    LET lines == file \o lineBuf IN
    /\ "file" \in layers => Past({"write"}) \subseteq Range(lines)
    /\ \A e \in Events : Cardinality(Lines(lines, e)) <= MAX_RETRIES
    /\ \A e \in Events : e > emitted => Cardinality(Lines(lines, e)) = 0
    /\ \A t \in Threads : thread[t].pc = "write" =>
          Cardinality(Lines(lines, thread[t].event)) <= thread[t].retry

\* The sequences in all hold each member of S exactly once, and nothing else.
Conserved(all, S) ==
    /\ \A b \in DOMAIN all : \A i \in DOMAIN all[b] : all[b][i] \in S
    /\ \A e \in S : \E b \in DOMAIN all : \E i \in DOMAIN all[b] : all[b][i] = e
    /\ \A b, c \in DOMAIN all : \A i \in DOMAIN all[b], j \in DOMAIN all[c] :
          all[b][i] = all[c][j] => b = c /\ i = j

EntryInv == "openobserve" \in layers \/ layers = {} => Conserved(Held, Past({"write", "push"}))

LogInv == ThreadInv /\ LineInv /\ EntryInv /\ FullBufferIsFlushed

-----------------------------------------------------------------------------
\* The bounds as the provers use them.
LEMMA LogBounds ==
    /\ MAX_CONTEXT_KEYS \in Nat \ {0} /\ LOG_PUSH_BATCH_SIZE \in Nat \ {0} /\ MAX_RETRIES \in Nat \ {0}
    /\ MaxLines \in Nat /\ MaxEvents \in Nat /\ MaxWriteErrors \in Nat
  BY LoggingAssumption

\* The log file is never cut: its handle cannot be read.
LEMMA NoRotation == \A f : check_and_rotate(f) = f
  BY DEF check_and_rotate, OpenMode

\* A step of one thread.
LEMMA ThreadStep ==
    ASSUME LogTypes, NEW t \in Threads, NEW v, thread' = [thread EXCEPT ![t] = v]
    PROVE  thread'[t] = v /\ \A u \in Threads \ {t} : thread'[u] = thread[u]
  BY DEF LogTypes

\* The fields of a thread.
LEMMA ThreadFields ==
    ASSUME LogTypes, NEW t \in Threads
    PROVE  /\ thread[t] \in ThreadState
           /\ thread[t].pc \in {"idle", "write", "push", "flush"}
           /\ thread[t].event \in 0..MaxEvents /\ thread[t].retry \in 0..(MAX_RETRIES - 1)
  BY DEF LogTypes, ThreadState

\* A thread at rest.
LEMMA NoEventFacts == NoEvent \in ThreadState /\ NoEvent.pc = "idle"
  BY LogBounds DEF NoEvent, ThreadState

\* After the file layer a thread goes on with the same event or is done.
LEMMA AfterWriteFacts ==
    ASSUME LogTypes, NEW t \in Threads
    PROVE  /\ AfterWrite(t) \in ThreadState
           /\ AfterWrite(t).pc \in {"idle", "push"}
           /\ "openobserve" \in layers => AfterWrite(t).pc = "push"
           /\ AfterWrite(t).pc = "push" => AfterWrite(t).event = thread[t].event
<1>1. CASE "openobserve" \in layers
  <2>1. AfterWrite(t) = [thread[t] EXCEPT !.pc = "push", !.retry = 0]
    BY <1>1 DEF AfterWrite
  <2>2. 0 \in 0..(MAX_RETRIES - 1)
    BY LogBounds
  <2>3. AfterWrite(t).pc = "push" /\ AfterWrite(t).event = thread[t].event
    BY <2>1, ThreadFields DEF ThreadState
  <2>4. AfterWrite(t) \in ThreadState
    BY <2>1, <2>2, ThreadFields, Zenon DEF ThreadState
  <2>. QED  BY <2>3, <2>4
<1>2. CASE "openobserve" \notin layers
  BY <1>2, NoEventFacts DEF AfterWrite
<1>. QED  BY <1>1, <1>2

\* A failed attempt counts, or is the last.
LEMMA FailedFacts ==
    ASSUME LogTypes, NEW t \in Threads, thread[t].pc = "write"
    PROVE  /\ AfterFailure(t) \in ThreadState
           /\ AfterFailure(t).pc \in {"idle", "push", "write"}
           /\ "openobserve" \in layers => AfterFailure(t).pc # "idle"
           /\ AfterFailure(t).pc # "idle" => AfterFailure(t).event = thread[t].event
           /\ AfterFailure(t).pc = "write" => AfterFailure(t).retry = thread[t].retry + 1
<1>1. CASE thread[t].retry + 1 >= MAX_RETRIES
  BY <1>1, AfterWriteFacts DEF AfterFailure
<1>2. CASE ~(thread[t].retry + 1 >= MAX_RETRIES)
  <2>1. AfterFailure(t) = [thread[t] EXCEPT !.retry = @ + 1]
    BY <1>2 DEF AfterFailure
  <2>2. thread[t].retry + 1 \in 0..(MAX_RETRIES - 1)
    BY <1>2, ThreadFields, LogBounds
  <2>. QED  BY <2>1, <2>2, ThreadFields DEF ThreadState
<1>. QED  BY <1>1, <1>2

\* Where a push leaves the thread.
Pushed(t) == IF Len(buffer) + 1 >= LOG_PUSH_BATCH_SIZE THEN [thread[t] EXCEPT !.pc = "flush"] ELSE NoEvent

\* The thread that fills the buffer goes on to flush it.
LEMMA PushedFacts ==
    ASSUME LogTypes, NEW t \in Threads
    PROVE  /\ Pushed(t) \in ThreadState
           /\ Pushed(t).pc \in {"idle", "flush"}
           /\ Pushed(t).pc = "flush" => Pushed(t).event = thread[t].event
           /\ Len(buffer) + 1 >= LOG_PUSH_BATCH_SIZE => Pushed(t).pc = "flush"
<1>1. CASE Len(buffer) + 1 >= LOG_PUSH_BATCH_SIZE
  <2>1. Pushed(t) = [thread[t] EXCEPT !.pc = "flush"]
    BY <1>1 DEF Pushed
  <2>. QED  BY <2>1, ThreadFields DEF ThreadState
<1>2. CASE ~(Len(buffer) + 1 >= LOG_PUSH_BATCH_SIZE)
  BY <1>2, NoEventFacts DEF Pushed
<1>. QED  BY <1>1, <1>2

\* PushEntry in these terms.
LEMMA PushEntryThread ==
    ASSUME LogTypes, NEW t \in Threads, PushEntry(t)
    PROVE  thread' = [thread EXCEPT ![t] = Pushed(t)] /\ Len(buffer') = Len(buffer) + 1
<1>1. Len(buffer') = Len(buffer) + 1
  BY DEF PushEntry, LogTypes
<1>. QED  BY <1>1 DEF PushEntry, Pushed, LogTypes

\* The step of one thread keeps the types when its new state is well typed.
LEMMA ThreadType ==
    ASSUME LogTypes, NEW t \in Threads, NEW v \in ThreadState, thread' = [thread EXCEPT ![t] = v]
    PROVE  thread' \in [Threads -> ThreadState]
  BY DEF LogTypes

\* Every step keeps the types, and the log context within its limit.
LEMMA LogTypesStep ==
    ASSUME LogTypes, ThreadInv, [LogNext]_logVars
    PROVE  LogTypes'
<1>. USE LogBounds
<1>ev. ASSUME NEW t \in Threads, Busy(t)  PROVE thread[t].event \in Events
  BY <1>ev DEF ThreadInv, LogTypes, Events
<1>1. ASSUME NEW l \in SUBSET {"file", "openobserve"}, init_logging_internal(l)  PROVE LogTypes'
  BY <1>1 DEF init_logging_internal, LogTypes
<1>2. ASSUME NEW k \in Keys, set_log_context(k)  PROVE LogTypes'
  <2>1. IsFiniteSet(ctx \union {k}) /\ Cardinality(ctx) \in Nat
        /\ Cardinality(ctx \union {k}) = IF k \in ctx THEN Cardinality(ctx) ELSE Cardinality(ctx) + 1
    BY FS_AddElement, FS_CardinalityType, Zenon DEF LogTypes
  <2>2. Cardinality(ctx \union {k}) <= MAX_CONTEXT_KEYS
    BY <1>2, <2>1 DEF set_log_context, LogTypes
  <2>. QED  BY <1>2, <2>1, <2>2 DEF set_log_context, LogTypes
<1>3. ASSUME NEW k \in Keys, RemoveContext(k)  PROVE LogTypes'
  <2>1. IsFiniteSet(ctx \ {k}) /\ Cardinality(ctx) \in Nat
        /\ Cardinality(ctx \ {k}) = IF k \in ctx THEN Cardinality(ctx) - 1 ELSE Cardinality(ctx)
    BY FS_RemoveElement, FS_CardinalityType DEF LogTypes
  <2>2. Cardinality(ctx \ {k}) <= MAX_CONTEXT_KEYS
    BY <2>1 DEF LogTypes
  <2>. QED  BY <1>3, <2>1, <2>2 DEF RemoveContext, LogTypes
<1>4. ASSUME NEW t \in Threads, EmitEvent(t)  PROVE LogTypes'
  <2>. DEFINE v == [pc |-> IF "file" \in layers THEN "write" ELSE "push", event |-> emitted + 1, retry |-> 0]
  <2>1. emitted + 1 \in 0..MaxEvents
    BY <1>4 DEF EmitEvent, LogTypes
  <2>2. v \in ThreadState
    BY <2>1 DEF ThreadState
  <2>3. thread' = [thread EXCEPT ![t] = v]
    BY <1>4 DEF EmitEvent
  <2>. HIDE DEF v
  <2>4. thread' \in [Threads -> ThreadState]
    BY <2>2, <2>3, ThreadType, Zenon
  <2>. QED  BY <1>4, <2>1, <2>4 DEF EmitEvent, LogTypes
<1>5. ASSUME NEW t \in Threads, WriteLine(t)  PROVE LogTypes'
  <2>1. thread' \in [Threads -> ThreadState]
    BY <1>5, AfterWriteFacts, ThreadType, Zenon DEF WriteLine
  <2>2. Append(lineBuf, thread[t].event) \in Seq(Events)
    BY <1>5, <1>ev DEF WriteLine, Busy, LogTypes
  <2>3. file' \in Seq(Events) /\ lineBuf' \in Seq(Events)
    BY <1>5, <2>2, NoRotation, ConcatProperties DEF WriteLine, LogTypes
  <2>. QED  BY <1>5, <2>1, <2>3 DEF WriteLine, LogTypes
<1>6. ASSUME NEW t \in Threads, WriteFails(t)  PROVE LogTypes'
  <2>1. thread' \in [Threads -> ThreadState]
    BY <1>6, FailedFacts, ThreadType, Zenon DEF WriteFails
  <2>2. lineBuf' \in Seq(Events) /\ file' \in Seq(Events)
    BY <1>6, <1>ev, NoRotation DEF WriteFails, Busy, LogTypes
  <2>3. writeErrors' \in 0..MaxWriteErrors
    BY <1>6 DEF WriteFails, LogTypes
  <2>. QED  BY <1>6, <2>1, <2>2, <2>3 DEF WriteFails, LogTypes
<1>7. ASSUME NEW t \in Threads, PushEntry(t)  PROVE LogTypes'
  <2>1. thread' = [thread EXCEPT ![t] = Pushed(t)]
    BY <1>7, PushEntryThread
  <2>2. thread' \in [Threads -> ThreadState]
    BY <2>1, PushedFacts, ThreadType, Zenon
  <2>3. buffer' \in Seq(Events)
    BY <1>7, <1>ev DEF PushEntry, Busy, LogTypes
  <2>. QED  BY <1>7, <2>2, <2>3, SMTT(30) DEF PushEntry, LogTypes
<1>8. ASSUME NEW t \in Threads, flush_buffer(t)  PROVE LogTypes'
  <2>1. thread' \in [Threads -> ThreadState]
    BY <1>8, NoEventFacts, ThreadType, Zenon DEF flush_buffer
  <2>2. batches' \in Seq(Seq(Events)) /\ buffer' \in Seq(Events)
    BY <1>8 DEF flush_buffer, LogTypes
  <2>. QED  BY <1>8, <2>1, <2>2 DEF flush_buffer, LogTypes
<1>9. CASE PostBatch
  <2>1. Head(batches) \in Seq(Events) /\ Tail(batches) \in Seq(Seq(Events))
    BY <1>9, HeadTailProperties DEF PostBatch, LogTypes
  <2>2. pushed' \in Seq(Seq(Events)) /\ batches' \in Seq(Seq(Events))
    BY <1>9, <2>1 DEF PostBatch, LogTypes
  <2>. QED  BY <1>9, <2>2 DEF PostBatch, LogTypes
<1>10. CASE UNCHANGED logVars
  BY <1>10 DEF logVars, LogTypes
<1>. QED  BY <1>1, <1>2, <1>3, <1>4, <1>5, <1>6, <1>7, <1>8, <1>9, <1>10, SMTT(30) DEF LogNext

-----------------------------------------------------------------------------
\* What the thread's part of a step must respect.
LEMMA ThreadKeeps ==
    ASSUME LogTypes, ThreadInv, NEW t \in Threads, NEW v \in ThreadState, Busy(t),
           thread' = [thread EXCEPT ![t] = v], v.pc # "idle" => v.event = thread[t].event,
           UNCHANGED <<layers, emitted>>
    PROVE  ThreadInv'
<1>1. thread'[t] = v /\ \A u \in Threads \ {t} : thread'[u] = thread[u]
  BY ThreadStep, Zenon
<1>2. \A u \in Threads : Busy(u)' => Busy(u) /\ thread'[u].event = thread[u].event
  BY <1>1 DEF Busy
<1>. QED  BY <1>2 DEF ThreadInv

\* Every step keeps the events of the threads apart.
LEMMA ThreadInvStep ==
    ASSUME LogTypes, ThreadInv, [LogNext]_logVars
    PROVE  ThreadInv'
<1>same. ASSUME UNCHANGED <<thread, emitted>>, layers' = {} => layers = {}  PROVE ThreadInv'
  BY <1>same DEF ThreadInv, Busy
<1>1. ASSUME NEW l \in SUBSET {"file", "openobserve"}, init_logging_internal(l)  PROVE ThreadInv'
  BY <1>same, <1>1 DEF init_logging_internal
<1>2. ASSUME NEW k \in Keys, set_log_context(k) \/ RemoveContext(k)  PROVE ThreadInv'
  BY <1>same, <1>2 DEF set_log_context, RemoveContext
<1>4. ASSUME NEW t \in Threads, EmitEvent(t)  PROVE ThreadInv'
  <2>1. thread'[t].event = emitted + 1 /\ \A u \in Threads \ {t} : thread'[u] = thread[u]
    BY <1>4 DEF EmitEvent, LogTypes
  <2>2. emitted' = emitted + 1 /\ emitted \in Nat /\ layers' # {}
    BY <1>4 DEF EmitEvent, LogTypes
  <2>3. \A u \in Threads : Busy(u)' => thread'[u].event \in 1..emitted'
    BY <2>1, <2>2 DEF ThreadInv, Busy
  <2>4. \A u \in Threads \ {t} : Busy(u)' => thread'[u].event # emitted + 1
    BY <2>1, <2>2 DEF ThreadInv, Busy
  <2>. QED  BY <2>1, <2>2, <2>3, <2>4 DEF ThreadInv, Busy
<1>5. ASSUME NEW t \in Threads, WriteLine(t)  PROVE ThreadInv'
  BY <1>5, AfterWriteFacts, ThreadKeeps, Zenon DEF WriteLine, Busy
<1>6. ASSUME NEW t \in Threads, WriteFails(t)  PROVE ThreadInv'
  <2>1. thread' = [thread EXCEPT ![t] = AfterFailure(t)] /\ thread[t].pc = "write" /\ UNCHANGED <<layers, emitted>>
    BY <1>6 DEF WriteFails
  <2>. QED  BY <2>1, FailedFacts, ThreadKeeps, Zenon DEF Busy
<1>7. ASSUME NEW t \in Threads, PushEntry(t)  PROVE ThreadInv'
  <2>1. thread' = [thread EXCEPT ![t] = Pushed(t)] /\ thread[t].pc = "push" /\ UNCHANGED <<layers, emitted>>
    BY <1>7, PushEntryThread, Zenon DEF PushEntry
  <2>. QED  BY <2>1, PushedFacts, ThreadKeeps, Zenon DEF Busy
<1>8. ASSUME NEW t \in Threads, flush_buffer(t)  PROVE ThreadInv'
  BY <1>8, NoEventFacts, ThreadKeeps, Zenon DEF flush_buffer, Busy
<1>9. CASE PostBatch
  BY <1>same, <1>9 DEF PostBatch
<1>10. CASE UNCHANGED logVars
  BY <1>same, <1>10 DEF logVars
<1>. QED  BY <1>1, <1>2, <1>4, <1>5, <1>6, <1>7, <1>8, <1>9, <1>10 DEF LogNext

\* Every step leaves somebody to flush a full buffer.
LEMMA FlushStep ==
    ASSUME LogTypes, FullBufferIsFlushed, [LogNext]_logVars
    PROVE  FullBufferIsFlushed'
<1>. USE LogBounds DEF FullBufferIsFlushed
<1>same. ASSUME UNCHANGED <<thread, buffer>>  PROVE FullBufferIsFlushed'
  BY <1>same
<1>other. ASSUME NEW t \in Threads, NEW v, thread[t].pc # "flush", thread' = [thread EXCEPT ![t] = v],
                 UNCHANGED buffer
          PROVE  FullBufferIsFlushed'
  <2>1. \A u \in Threads : thread[u].pc = "flush" => thread'[u] = thread[u]
    BY <1>other, ThreadStep
  <2>. QED  BY <1>other, <2>1
<1>1. ASSUME NEW l \in SUBSET {"file", "openobserve"}, init_logging_internal(l)  PROVE FullBufferIsFlushed'
  BY <1>same, <1>1 DEF init_logging_internal
<1>2. ASSUME NEW k \in Keys, set_log_context(k) \/ RemoveContext(k)  PROVE FullBufferIsFlushed'
  BY <1>same, <1>2 DEF set_log_context, RemoveContext
<1>4. ASSUME NEW t \in Threads, EmitEvent(t)  PROVE FullBufferIsFlushed'
  BY <1>other, <1>4 DEF EmitEvent
<1>5. ASSUME NEW t \in Threads, WriteLine(t)  PROVE FullBufferIsFlushed'
  BY <1>other, <1>5 DEF WriteLine
<1>6. ASSUME NEW t \in Threads, WriteFails(t)  PROVE FullBufferIsFlushed'
  BY <1>other, <1>6 DEF WriteFails
<1>7. ASSUME NEW t \in Threads, PushEntry(t)  PROVE FullBufferIsFlushed'
  <2>1. thread' = [thread EXCEPT ![t] = Pushed(t)] /\ Len(buffer') = Len(buffer) + 1
    BY <1>7, PushEntryThread
  <2>2. Len(buffer') >= LOG_PUSH_BATCH_SIZE => thread'[t].pc = "flush"
    <3>1. thread'[t] = Pushed(t)
      BY <2>1, ThreadStep, Zenon
    <3>. QED  BY <2>1, <3>1, PushedFacts
  <2>. QED  BY <2>2
<1>8. ASSUME NEW t \in Threads, flush_buffer(t)  PROVE FullBufferIsFlushed'
  <2>1. Len(buffer') = 0
    BY <1>8 DEF flush_buffer
  <2>. QED  BY <2>1
<1>9. CASE PostBatch
  BY <1>same, <1>9 DEF PostBatch
<1>10. CASE UNCHANGED logVars
  BY <1>same, <1>10 DEF logVars
<1>. QED  BY <1>1, <1>2, <1>4, <1>5, <1>6, <1>7, <1>8, <1>9, <1>10 DEF LogNext

-----------------------------------------------------------------------------
\* Membership in the events that are past a layer.
LEMMA PastMember ==
    ASSUME NEW pcs, NEW e
    PROVE  e \in Past(pcs) <=> /\ e \in 1..emitted
                               /\ \A u \in Threads : thread[u].pc \in pcs => thread[u].event # e
  BY DEF Past

\* A new event is past no layer.
LEMMA PastEmit ==
    ASSUME LogTypes, ThreadInv, NEW t \in Threads, EmitEvent(t), NEW pcs, thread'[t].pc \in pcs, "idle" \notin pcs
    PROVE  Past(pcs)' = Past(pcs)
<1>1. thread'[t].event = emitted + 1 /\ \A u \in Threads \ {t} : thread'[u] = thread[u]
  BY DEF EmitEvent, LogTypes
<1>2. emitted' = emitted + 1 /\ emitted \in Nat /\ thread[t].pc = "idle"
  BY DEF EmitEvent, LogTypes
<1>3. ASSUME NEW e  PROVE e \in Past(pcs)' <=> e \in Past(pcs)
  <2>1. e \in Past(pcs)' <=> /\ e \in 1..emitted'
                             /\ \A u \in Threads : thread'[u].pc \in pcs => thread'[u].event # e
    BY DEF Past
  <2>2. e \in 1..emitted' <=> e \in 1..emitted \/ e = emitted + 1
    BY <1>2
  <2>3. e \in 1..emitted => e # emitted + 1
    BY <1>2
  <2>. QED  BY <1>1, <1>2, <2>1, <2>2, <2>3, PastMember, SMTT(30)
<1>. QED  BY <1>3

\* A thread that stays at the layer changes nothing, one that leaves adds its
\* event.
LEMMA PastMove ==
    ASSUME LogTypes, ThreadInv, NEW t \in Threads, NEW v, NEW pcs, "idle" \notin pcs,
           thread[t].pc \in pcs, thread' = [thread EXCEPT ![t] = v], emitted' = emitted
    PROVE  /\ v.pc \in pcs /\ v.event = thread[t].event => Past(pcs)' = Past(pcs)
           /\ v.pc \notin pcs => Past(pcs)' = Past(pcs) \union {thread[t].event}
           /\ thread[t].event \notin Past(pcs)
<1>1. thread'[t] = v /\ \A u \in Threads \ {t} : thread'[u] = thread[u]
  BY ThreadStep, Zenon
<1>2. \A e : e \in Past(pcs)' <=> /\ e \in 1..emitted
                                  /\ \A u \in Threads : thread'[u].pc \in pcs => thread'[u].event # e
  BY DEF Past
<1>3. \A e : e \in Past(pcs) <=> /\ e \in 1..emitted
                                 /\ \A u \in Threads : thread[u].pc \in pcs => thread[u].event # e
  BY DEF Past
<1>4. thread[t].event \in 1..emitted
      /\ \A u \in Threads \ {t} : thread[u].pc \in pcs => thread[u].event # thread[t].event
  BY DEF ThreadInv, Busy
<1>5. ASSUME v.pc \in pcs, v.event = thread[t].event  PROVE Past(pcs)' = Past(pcs)
  <2>1. \A e : e \in Past(pcs)' <=> e \in Past(pcs)
    BY <1>1, <1>2, <1>3, <1>5
  <2>. QED  BY <2>1
<1>6. ASSUME v.pc \notin pcs  PROVE Past(pcs)' = Past(pcs) \union {thread[t].event}
  <2>1. ASSUME NEW e  PROVE e \in Past(pcs)' <=> e \in Past(pcs) \/ e = thread[t].event
    BY <1>1, <1>2, <1>3, <1>4, <1>6
  <2>. QED  BY <2>1
<1>7. thread[t].event \notin Past(pcs)
  BY <1>3
<1>. QED  BY <1>5, <1>6, <1>7

\* A thread that was not at the layer and is not there afterwards.
LEMMA PastElsewhere ==
    ASSUME LogTypes, NEW t \in Threads, NEW v, NEW pcs, thread[t].pc \notin pcs, v.pc \notin pcs,
           thread' = [thread EXCEPT ![t] = v], emitted' = emitted
    PROVE  Past(pcs)' = Past(pcs)
<1>1. thread'[t] = v /\ \A u \in Threads \ {t} : thread'[u] = thread[u]
  BY ThreadStep, Zenon
<1>2. \A e : e \in Past(pcs)' <=> e \in Past(pcs)
  BY <1>1 DEF Past
<1>. QED  BY <1>2

-----------------------------------------------------------------------------
\* A line more in a sequence of lines.
LEMMA LineAdded ==
    ASSUME NEW s \in Seq(Events), NEW e \in Events
    PROVE  /\ Range(Append(s, e)) = Range(s) \union {e}
           /\ \A d : Cardinality(Lines(s, d)) \in Nat
           /\ Cardinality(Lines(Append(s, e), e)) = Cardinality(Lines(s, e)) + 1
           /\ \A d : d # e => Cardinality(Lines(Append(s, e), d)) = Cardinality(Lines(s, d))
<1>. DEFINE n == Len(s)
            r == Append(s, e)
<1>1. n \in Nat /\ DOMAIN s = 1..n /\ DOMAIN r = 1..(n + 1) /\ r[n + 1] = e /\ \A i \in 1..n : r[i] = s[i]
  OBVIOUS
<1>. HIDE DEF n, r
<1>2. Range(r) = Range(s) \union {e}
  <2>1. \A x : x \in Range(s) <=> \E i \in 1..n : s[i] = x
    BY <1>1 DEF Range
  <2>2. \A x : x \in Range(r) <=> \E i \in 1..(n + 1) : r[i] = x
    BY <1>1 DEF Range
  <2>3. \A i \in 1..(n + 1) : i \in 1..n \/ i = n + 1
    BY <1>1
  <2>4. n + 1 \in 1..(n + 1) /\ \A i \in 1..n : i \in 1..(n + 1)
    BY <1>1
  <2>. QED  BY <1>1, <2>1, <2>2, <2>3, <2>4
<1>3. ASSUME NEW d  PROVE /\ IsFiniteSet(Lines(s, d)) /\ n + 1 \notin Lines(s, d)
                          /\ Cardinality(Lines(s, d)) \in Nat
  <2>1. Lines(s, d) \in SUBSET (1..n)
    BY <1>1 DEF Lines
  <2>2. IsFiniteSet(Lines(s, d))
    <3>1. IsFiniteSet(1..n)
      BY <1>1, FS_Interval
    <3>. QED  BY <2>1, <3>1, FS_Subset, Zenon
  <2>3. n + 1 \notin 1..n
    BY <1>1
  <2>. QED  BY <2>1, <2>2, <2>3, FS_CardinalityType
<1>4. Lines(r, e) = Lines(s, e) \union {n + 1}
  BY <1>1 DEF Lines
<1>5. \A d : d # e => Lines(r, d) = Lines(s, d)
  BY <1>1 DEF Lines
<1>6. Cardinality(Lines(r, e)) = Cardinality(Lines(s, e)) + 1
  BY <1>3, <1>4, FS_AddElement, Zenon
<1>. QED  BY <1>2, <1>3, <1>5, <1>6 DEF r

\* Appending commutes with concatenation.
LEMMA AppendConcat ==
    ASSUME NEW S, NEW p \in Seq(S), NEW q \in Seq(S), NEW x \in S
    PROVE  p \o Append(q, x) = Append(p \o q, x)
<1>1. Append(q, x) = q \o <<x>> /\ <<x>> \in Seq(S)
  OBVIOUS
<1>2. p \o (q \o <<x>>) = (p \o q) \o <<x>>
  BY <1>1, ConcatAssociative
<1>3. p \o q \in Seq(S)
  BY ConcatProperties
<1>4. (p \o q) \o <<x>> = Append(p \o q, x)
  BY <1>3
<1>. QED  BY <1>1, <1>2, <1>4

\* An attempt adds its line at the end, flushed or not.
LEMMA AttemptAddsLine ==
    ASSUME LogTypes, LogTypes', NEW t \in Threads, WriteLine(t) \/ WriteFails(t), thread[t].event \in Events
    PROVE  file' \o lineBuf' = Append(file \o lineBuf, thread[t].event)
<1>. DEFINE e == thread[t].event
<1>0. file \in Seq(Events) /\ lineBuf \in Seq(Events) /\ e \in Events
  BY DEF LogTypes
<1>. HIDE DEF e
<1>1. file \o Append(lineBuf, e) = Append(file \o lineBuf, e)
  BY <1>0, AppendConcat
<1>2. CASE WriteLine(t)
  <2>1. file' = file \o Append(lineBuf, e) /\ lineBuf' = <<>>
    BY <1>2, NoRotation, Zenon DEF WriteLine, e
  <2>2. file' \o <<>> = file'
    BY ConcatEmptySeq DEF LogTypes
  <2>. QED  BY <1>1, <2>1, <2>2 DEF e
<1>3. CASE WriteFails(t)
  BY <1>1, <1>3, NoRotation, Zenon DEF WriteFails, e
<1>. QED  BY <1>2, <1>3

\* An attempt to write keeps the lines in order.
LEMMA AttemptLines ==
    ASSUME LogTypes, LogTypes', ThreadInv, LineInv, NEW t \in Threads, NEW v \in ThreadState,
           WriteLine(t) \/ WriteFails(t), thread' = [thread EXCEPT ![t] = v],
           v.pc = "write" => v.event = thread[t].event /\ v.retry = thread[t].retry + 1
    PROVE  LineInv'
<1>. DEFINE e == thread[t].event
            lines == file \o lineBuf
            C(d) == Cardinality(Lines(lines, d))
<1>1. /\ thread[t].pc = "write" /\ UNCHANGED <<layers, emitted>>
  BY DEF WriteLine, WriteFails
<1>2. e \in Events /\ e \in 1..emitted /\ emitted \in Nat
  <2>1. e \in 1..emitted /\ emitted \in 0..MaxEvents
    BY <1>1 DEF ThreadInv, Busy, LogTypes
  <2>. HIDE DEF e
  <2>. QED  BY <2>1, LogBounds DEF Events
<1>3. file' \o lineBuf' = Append(lines, e)
  BY <1>2, AttemptAddsLine
<1>4. lines \in Seq(Events)
  BY ConcatProperties DEF LogTypes
<1>5. /\ Range(Append(lines, e)) = Range(lines) \union {e}
      /\ \A d : C(d) \in Nat
      /\ Cardinality(Lines(Append(lines, e), e)) = C(e) + 1
      /\ \A d : d # e => Cardinality(Lines(Append(lines, e), d)) = C(d)
  BY <1>2, <1>4, LineAdded, Zenon
<1>6. thread'[t] = v /\ \A u \in Threads \ {t} : thread'[u] = thread[u]
  BY ThreadStep, Zenon
<1>7. C(e) <= thread[t].retry /\ thread[t].retry \in 0..(MAX_RETRIES - 1)
  BY <1>1, ThreadFields DEF LineInv
<1>8. ASSUME "file" \in layers  PROVE Past({"write"})' \subseteq Range(Append(lines, e))
  <2>1. Past({"write"})' \subseteq Past({"write"}) \union {e}
    BY <1>1, PastMove, Zenon
  <2>. QED  BY <1>5, <1>8, <2>1 DEF LineInv
<1>9. \A d \in Events : Cardinality(Lines(Append(lines, e), d)) <= MAX_RETRIES
  <2>1. C(e) + 1 <= MAX_RETRIES
    BY <1>5, <1>7, LogBounds
  <2>2. \A d \in Events : C(d) <= MAX_RETRIES
    BY DEF LineInv
  <2>. QED  BY <1>5, <2>1, <2>2
<1>10. ASSUME NEW d \in Events, d > emitted  PROVE Cardinality(Lines(Append(lines, e), d)) = 0
  <2>1. d # e
    BY <1>2, <1>10 DEF Events
  <2>. QED  BY <1>5, <1>10, <2>1 DEF LineInv
<1>11. ASSUME NEW u \in Threads, thread'[u].pc = "write"
       PROVE  Cardinality(Lines(Append(lines, e), thread'[u].event)) <= thread'[u].retry
  <2>1. CASE u = t
    BY <1>5, <1>6, <1>7, <1>11, <2>1, SMTT(30)
  <2>2. CASE u # t
    <3>1. thread'[u] = thread[u] /\ thread[u].event # e
      BY <1>1, <1>6, <1>11, <2>2, SMTT(30) DEF ThreadInv, Busy
    <3>. QED  BY <1>5, <1>11, <3>1 DEF LineInv
  <2>. QED  BY <2>1, <2>2
<1>. HIDE DEF e, lines, C
<1>. QED  BY <1>1, <1>3, <1>8, <1>9, <1>10, <1>11 DEF LineInv, Events

\* A step that writes no line.
LEMMA OtherLines ==
    ASSUME LogTypes, LineInv, UNCHANGED <<file, lineBuf>>,
           "file" \in layers' => Past({"write"})' \subseteq Range(file \o lineBuf),
           emitted' \in Nat, emitted \in Nat, emitted' >= emitted,
           \A u \in Threads : thread'[u].pc = "write" =>
               \/ thread[u].pc = "write" /\ thread'[u] = thread[u]
               \/ thread'[u].event \in Events /\ thread'[u].event > emitted /\ thread'[u].retry = 0
    PROVE  LineInv'
<1>. DEFINE C(d) == Cardinality(Lines(file \o lineBuf, d))
<1>1. /\ \A e \in Events : C(e) <= MAX_RETRIES
      /\ \A e \in Events : e > emitted => C(e) = 0
      /\ \A t \in Threads : thread[t].pc = "write" => C(thread[t].event) <= thread[t].retry
  BY DEF LineInv
<1>. HIDE DEF C
<1>2. \A e \in Events : e > emitted' => C(e) = 0
  BY <1>1 DEF Events
<1>3. \A t \in Threads : thread'[t].pc = "write" => C(thread'[t].event) <= thread'[t].retry
  BY <1>1
<1>. USE DEF C
<1>. QED  BY <1>1, <1>2, <1>3 DEF LineInv, Events

\* Every step keeps the lines in order.
LEMMA LineInvStep ==
    ASSUME LogTypes, LogTypes', ThreadInv, LineInv, [LogNext]_logVars
    PROVE  LineInv'
<1>em. emitted \in Nat
  BY DEF LogTypes
<1>same. ASSUME UNCHANGED <<thread, emitted, file, lineBuf, layers>>  PROVE LineInv'
  BY <1>same DEF LineInv, Past, Events
<1>1. ASSUME NEW l \in SUBSET {"file", "openobserve"}, init_logging_internal(l)  PROVE LineInv'
  <2>1. emitted = 0 /\ UNCHANGED <<thread, emitted, file, lineBuf>>
    BY <1>1 DEF init_logging_internal, ThreadInv
  <2>2. Past({"write"})' = {}
    BY <2>1 DEF Past
  <2>. QED  BY <1>em, <2>1, <2>2, OtherLines, SMTT(30)
<1>2. ASSUME NEW k \in Keys, set_log_context(k) \/ RemoveContext(k)  PROVE LineInv'
  BY <1>same, <1>2 DEF set_log_context, RemoveContext
<1>4. ASSUME NEW t \in Threads, EmitEvent(t)  PROVE LineInv'
  <2>1. /\ thread'[t].event = emitted + 1 /\ thread'[t].retry = 0
        /\ thread'[t].pc = IF "file" \in layers THEN "write" ELSE "push"
        /\ \A u \in Threads \ {t} : thread'[u] = thread[u]
    BY <1>4 DEF EmitEvent, LogTypes
  <2>2. emitted' = emitted + 1 /\ emitted < MaxEvents /\ UNCHANGED <<file, lineBuf, layers>>
    BY <1>4 DEF EmitEvent
  <2>3. emitted + 1 \in Events
    BY <1>em, <2>2, LogBounds DEF Events
  <2>4. "file" \in layers => Past({"write"})' = Past({"write"})
    BY <1>4, <2>1, PastEmit
  <2>5. "file" \in layers => Past({"write"}) \subseteq Range(file \o lineBuf)
    BY DEF LineInv
  <2>. QED  BY <1>em, <2>1, <2>2, <2>3, <2>4, <2>5, OtherLines, SMTT(30)
<1>5. ASSUME NEW t \in Threads, WriteLine(t)  PROVE LineInv'
  <2>1. thread' = [thread EXCEPT ![t] = AfterWrite(t)]
    BY <1>5 DEF WriteLine
  <2>. QED  BY <1>5, <2>1, AfterWriteFacts, AttemptLines, Zenon
<1>6. ASSUME NEW t \in Threads, WriteFails(t)  PROVE LineInv'
  <2>1. thread' = [thread EXCEPT ![t] = AfterFailure(t)] /\ thread[t].pc = "write"
    BY <1>6 DEF WriteFails
  <2>. QED  BY <1>6, <2>1, FailedFacts, AttemptLines, Zenon
<1>else. ASSUME NEW t \in Threads, NEW v, thread[t].pc # "write", v.pc # "write",
                thread' = [thread EXCEPT ![t] = v], UNCHANGED <<file, lineBuf, layers, emitted>>
         PROVE  LineInv'
  <2>1. Past({"write"})' = Past({"write"})
    BY <1>else, PastElsewhere, Zenon
  <2>2. "file" \in layers => Past({"write"}) \subseteq Range(file \o lineBuf)
    BY DEF LineInv
  <2>3. thread'[t] = v /\ \A u \in Threads \ {t} : thread'[u] = thread[u]
    BY <1>else, ThreadStep, Zenon
  <2>. QED  BY <1>em, <1>else, <2>1, <2>2, <2>3, OtherLines
<1>7. ASSUME NEW t \in Threads, PushEntry(t)  PROVE LineInv'
  <2>1. thread' = [thread EXCEPT ![t] = Pushed(t)]
    BY <1>7, PushEntryThread
  <2>2. Pushed(t).pc # "write"
    BY PushedFacts
  <2>3. thread[t].pc # "write" /\ UNCHANGED <<file, lineBuf, layers, emitted>>
    BY <1>7 DEF PushEntry
  <2>. QED  BY <1>else, <2>1, <2>2, <2>3, Zenon
<1>8. ASSUME NEW t \in Threads, flush_buffer(t)  PROVE LineInv'
  BY <1>8, <1>else, NoEventFacts, Zenon DEF flush_buffer
<1>9. CASE PostBatch
  BY <1>same, <1>9 DEF PostBatch
<1>10. CASE UNCHANGED logVars
  BY <1>same, <1>10 DEF logVars
<1>. QED  BY <1>1, <1>2, <1>4, <1>5, <1>6, <1>7, <1>8, <1>9, <1>10, SMTT(30) DEF LogNext

-----------------------------------------------------------------------------
\* An entry more in the buffer.
LEMMA ConservedPush ==
    ASSUME NEW a \in Seq(Seq(Events)), NEW s \in Seq(Events), NEW x \in Events, NEW S, x \notin S,
           Conserved(Append(a, s), S)
    PROVE  Conserved(Append(a, Append(s, x)), S \union {x})
<1>. DEFINE n == Len(a)
            m == Len(s)
            g == Append(a, s)
            h == Append(a, Append(s, x))
<1>1. /\ n \in Nat /\ m \in Nat /\ DOMAIN g = 1..(n + 1) /\ DOMAIN h = 1..(n + 1)
      /\ \A b \in 1..n : h[b] = g[b]
      /\ DOMAIN g[n + 1] = 1..m /\ DOMAIN h[n + 1] = 1..(m + 1)
      /\ h[n + 1][m + 1] = x /\ \A i \in 1..m : h[n + 1][i] = g[n + 1][i]
  <2>1. Append(s, x) \in Seq(Events) /\ s \in Seq(Events) /\ a \in Seq(Seq(Events))
    OBVIOUS
  <2>2. n \in Nat /\ DOMAIN g = 1..(n + 1) /\ g[n + 1] = s /\ \A b \in 1..n : g[b] = a[b]
    BY <2>1
  <2>3. DOMAIN h = 1..(n + 1) /\ h[n + 1] = Append(s, x) /\ \A b \in 1..n : h[b] = a[b]
    BY <2>1
  <2>4. m \in Nat /\ DOMAIN s = 1..m /\ DOMAIN Append(s, x) = 1..(m + 1)
        /\ Append(s, x)[m + 1] = x /\ \A i \in 1..m : Append(s, x)[i] = s[i]
    OBVIOUS
  <2>. HIDE DEF g, h, n, m
  <2>. QED  BY <2>2, <2>3, <2>4
<1>2. Conserved(g, S)
  OBVIOUS
<1>. HIDE DEF g, h, n, m
<1>3. ASSUME NEW b \in DOMAIN h, NEW i \in DOMAIN h[b]
      PROVE  \/ b = n + 1 /\ i = m + 1 /\ h[b][i] = x
             \/ b \in DOMAIN g /\ i \in DOMAIN g[b] /\ h[b][i] = g[b][i] /\ h[b][i] \in S
  <2>1. b \in DOMAIN g
    BY <1>1
  <2>2. CASE b \in 1..n
    BY <1>1, <1>2, <2>1, <2>2, SMTT(30) DEF Conserved
  <2>3. CASE b = n + 1
    <3>1. i \in 1..m \/ i = m + 1
      BY <1>1, <2>3
    <3>. QED  BY <1>1, <1>2, <2>1, <2>3, <3>1, SMTT(30) DEF Conserved
  <2>4. b \in 1..n \/ b = n + 1
    BY <1>1
  <2>. QED  BY <2>2, <2>3, <2>4
<1>4. ASSUME NEW b \in DOMAIN g, NEW i \in DOMAIN g[b]
      PROVE  b \in DOMAIN h /\ i \in DOMAIN h[b] /\ h[b][i] = g[b][i]
  <2>1. b \in 1..n \/ b = n + 1
    BY <1>1
  <2>2. b \in DOMAIN h
    BY <1>1
  <2>3. CASE b \in 1..n
    BY <1>1, <2>2, <2>3
  <2>4. CASE b = n + 1
    BY <1>1, <2>2, <2>4
  <2>. QED  BY <2>1, <2>3, <2>4
<1>5. \A b \in DOMAIN h : \A i \in DOMAIN h[b] : h[b][i] \in S \union {x}
  BY <1>3
<1>6. ASSUME NEW e \in S \union {x}
      PROVE  \E b \in DOMAIN h : \E i \in DOMAIN h[b] : h[b][i] = e
  <2>1. CASE e = x
    <3>1. n + 1 \in DOMAIN h /\ m + 1 \in DOMAIN h[n + 1]
      BY <1>1
    <3>. QED  BY <1>1, <2>1, <3>1
  <2>2. CASE e \in S
    BY <1>2, <1>4, <2>2, SMTT(30) DEF Conserved
  <2>. QED  BY <2>1, <2>2
<1>7. ASSUME NEW b \in DOMAIN h, NEW c \in DOMAIN h, NEW i \in DOMAIN h[b], NEW j \in DOMAIN h[c],
             h[b][i] = h[c][j]
      PROVE  b = c /\ i = j
  <2>1. CASE h[b][i] = x
    <3>1. b = n + 1 /\ i = m + 1
      BY <1>3, <2>1, SMTT(30)
    <3>2. c = n + 1 /\ j = m + 1
      BY <1>3, <1>7, <2>1, Zenon
    <3>. QED  BY <3>1, <3>2, SMTT(30)
  <2>2. CASE h[b][i] # x
    <3>1. b \in DOMAIN g /\ i \in DOMAIN g[b] /\ c \in DOMAIN g /\ j \in DOMAIN g[c] /\ g[b][i] = g[c][j]
      BY <1>3, <1>7, <2>2
    <3>. QED  BY <1>2, <3>1 DEF Conserved
  <2>. QED  BY <2>1, <2>2
<1>8. Conserved(h, S \union {x})
  BY <1>5, <1>6, <1>7 DEF Conserved
<1>. QED  BY <1>8 DEF h

\* A new, empty buffer.
LEMMA ConservedFlush ==
    ASSUME NEW g \in Seq(Seq(Events)), NEW S, Conserved(g, S)
    PROVE  Conserved(Append(g, <<>>), S)
<1>. DEFINE n == Len(g)
            h == Append(g, <<>>)
<1>1. /\ n \in Nat /\ DOMAIN g = 1..n /\ DOMAIN h = 1..(n + 1) /\ \A b \in 1..n : h[b] = g[b]
      /\ h[n + 1] = <<>>
  <2>1. <<>> \in Seq(Events)
    OBVIOUS
  <2>. QED  BY <2>1
<1>2. DOMAIN <<>> = {}
  OBVIOUS
<1>. HIDE DEF n, h
<1>3. ASSUME NEW b \in DOMAIN h, NEW i \in DOMAIN h[b]  PROVE b \in DOMAIN g /\ h[b] = g[b]
  <2>1. b \in 1..n \/ b = n + 1
    BY <1>1
  <2>. QED  BY <1>1, <1>2, <1>3, <2>1, SMTT(30)
<1>4. \A b \in DOMAIN g : b \in DOMAIN h /\ h[b] = g[b]
  BY <1>1
<1>5. Conserved(h, S)
  BY <1>3, <1>4 DEF Conserved
<1>. QED  BY <1>5 DEF h

\* A batch that is posted stays in its place.
LEMMA PostedInPlace ==
    ASSUME NEW p \in Seq(Seq(Events)), NEW q \in Seq(Seq(Events)), q # <<>>
    PROVE  Append(p, Head(q)) \o Tail(q) = p \o q
<1>1. Head(q) \in Seq(Events) /\ Tail(q) \in Seq(Seq(Events))
  BY HeadTailProperties
<1>2. <<Head(q)>> \in Seq(Seq(Events)) /\ Append(p, Head(q)) = p \o <<Head(q)>>
  BY <1>1
<1>3. <<Head(q)>> \o Tail(q) = q
  BY <1>1
<1>4. (p \o <<Head(q)>>) \o Tail(q) = p \o (<<Head(q)>> \o Tail(q))
  BY <1>1, <1>2, ConcatAssociative, SMTT(30)
<1>. QED  BY <1>2, <1>3, <1>4

\* Every step keeps the entries.
LEMMA EntryInvStep ==
    ASSUME LogTypes, ThreadInv, EntryInv, [LogNext]_logVars
    PROVE  EntryInv'
<1>. DEFINE pcs == {"write", "push"}
            Observed == "openobserve" \in layers \/ layers = {}
<1>frame. ASSUME Held' = Held, Past(pcs)' = Past(pcs), Observed' => Observed  PROVE EntryInv'
  BY <1>frame DEF EntryInv, Conserved
<1>same. ASSUME UNCHANGED <<thread, emitted, layers, pushed, batches, buffer>>  PROVE EntryInv'
  BY <1>frame, <1>same DEF Held, Past
<1>1. ASSUME NEW l \in SUBSET {"file", "openobserve"}, init_logging_internal(l)  PROVE EntryInv'
  <2>1. Observed /\ UNCHANGED <<thread, emitted, pushed, batches, buffer>>
    BY <1>1 DEF init_logging_internal
  <2>. QED  BY <1>frame, <2>1 DEF Held, Past
<1>2. ASSUME NEW k \in Keys, set_log_context(k) \/ RemoveContext(k)  PROVE EntryInv'
  BY <1>same, <1>2 DEF set_log_context, RemoveContext
<1>4. ASSUME NEW t \in Threads, EmitEvent(t)  PROVE EntryInv'
  <2>1. thread'[t].pc \in pcs /\ UNCHANGED <<layers, pushed, batches, buffer>>
    BY <1>4 DEF EmitEvent, LogTypes
  <2>2. Past(pcs)' = Past(pcs)
    BY <1>4, <2>1, PastEmit
  <2>. QED  BY <1>frame, <2>1, <2>2, SMTT(30) DEF Held
<1>writer. ASSUME NEW t \in Threads, NEW v, thread[t].pc = "write", thread' = [thread EXCEPT ![t] = v],
                  "openobserve" \in layers => v.pc \in pcs /\ v.event = thread[t].event,
                  UNCHANGED <<layers, emitted, pushed, batches, buffer>>
           PROVE  EntryInv'
  <2>0. layers # {}
    BY <1>writer, LogBounds DEF ThreadInv, Busy
  <2>1. CASE "openobserve" \in layers
    <3>1. Past(pcs)' = Past(pcs)
      BY <1>writer, <2>1, PastMove, Zenon
    <3>. QED  BY <1>frame, <1>writer, <3>1, SMTT(30) DEF Held
  <2>2. CASE "openobserve" \notin layers
    BY <1>writer, <2>0, <2>2 DEF EntryInv
  <2>. QED  BY <2>1, <2>2
<1>5. ASSUME NEW t \in Threads, WriteLine(t)  PROVE EntryInv'
  <2>1. "openobserve" \in layers => AfterWrite(t).pc \in pcs /\ AfterWrite(t).event = thread[t].event
    BY AfterWriteFacts
  <2>2. /\ thread[t].pc = "write" /\ thread' = [thread EXCEPT ![t] = AfterWrite(t)]
        /\ UNCHANGED <<layers, emitted, pushed, batches, buffer>>
    BY <1>5 DEF WriteLine
  <2>. QED  BY <1>writer, <2>1, <2>2, Zenon
<1>6. ASSUME NEW t \in Threads, WriteFails(t)  PROVE EntryInv'
  <2>1. /\ thread[t].pc = "write" /\ thread' = [thread EXCEPT ![t] = AfterFailure(t)]
        /\ UNCHANGED <<layers, emitted, pushed, batches, buffer>>
    BY <1>6 DEF WriteFails
  <2>2. "openobserve" \in layers => AfterFailure(t).pc \in pcs /\ AfterFailure(t).event = thread[t].event
    BY <2>1, FailedFacts
  <2>. QED  BY <1>writer, <2>1, <2>2, Zenon
<1>7. ASSUME NEW t \in Threads, PushEntry(t)  PROVE EntryInv'
  <2>. SUFFICES ASSUME Observed'  PROVE Conserved(Held', Past(pcs)')
    BY DEF EntryInv, Conserved
  <2>. DEFINE e == thread[t].event
  <2>1. /\ thread[t].pc = "push" /\ buffer' = Append(buffer, e)
        /\ UNCHANGED <<layers, emitted, pushed, batches>>
    BY <1>7 DEF PushEntry
  <2>2. thread' = [thread EXCEPT ![t] = Pushed(t)]
    BY <1>7, PushEntryThread
  <2>3. Pushed(t).pc \notin pcs
    BY PushedFacts
  <2>4. Past(pcs)' = Past(pcs) \union {e} /\ e \notin Past(pcs)
    BY <2>1, <2>2, <2>3, PastMove, Zenon
  <2>5. e \in Events
    <3>1. e \in 1..emitted /\ emitted \in 0..MaxEvents
      BY <2>1, SMTT(30) DEF ThreadInv, Busy, LogTypes
    <3>. HIDE DEF e
    <3>. QED  BY <3>1, LogBounds DEF Events
  <2>6. Conserved(Append(pushed \o batches, buffer), Past(pcs))
    BY <2>1 DEF EntryInv, Held
  <2>7. pushed \o batches \in Seq(Seq(Events)) /\ buffer \in Seq(Events)
    BY ConcatProperties DEF LogTypes
  <2>. HIDE DEF e, pcs
  <2>8. Conserved(Append(pushed \o batches, Append(buffer, e)), Past(pcs) \union {e})
    BY <2>4, <2>5, <2>6, <2>7, ConservedPush, Zenon
  <2>9. Held' = Append(pushed \o batches, Append(buffer, e))
    BY <2>1 DEF Held
  <2>. QED  BY <2>4, <2>8, <2>9, SMTT(30)
<1>8. ASSUME NEW t \in Threads, flush_buffer(t)  PROVE EntryInv'
  <2>1. /\ thread[t].pc = "flush" /\ thread' = [thread EXCEPT ![t] = NoEvent] /\ buffer' = <<>>
        /\ batches' = IF buffer = <<>> THEN batches ELSE Append(batches, buffer)
        /\ UNCHANGED <<layers, emitted, pushed>>
    BY <1>8 DEF flush_buffer
  <2>2. Past(pcs)' = Past(pcs)
    BY <2>1, NoEventFacts, PastElsewhere, ZenonT(30)
  <2>3. CASE buffer = <<>>
    BY <1>frame, <2>1, <2>2, <2>3 DEF Held
  <2>4. CASE buffer # <<>>
    <3>. SUFFICES ASSUME Observed'  PROVE Conserved(Held', Past(pcs)')
      BY DEF EntryInv, Conserved
    <3>1. /\ pushed \in Seq(Seq(Events)) /\ batches \in Seq(Seq(Events)) /\ buffer \in Seq(Events)
          /\ pushed \o batches \in Seq(Seq(Events))
      BY ConcatProperties DEF LogTypes
    <3>2. Held \in Seq(Seq(Events))
      BY <3>1 DEF Held
    <3>3. pushed \o Append(batches, buffer) = Append(pushed \o batches, buffer)
      BY <3>1, AppendConcat
    <3>4. Held' = Append(Held, <<>>)
      BY <2>1, <2>4, <3>3, SMTT(30) DEF Held
    <3>5. Conserved(Held, Past(pcs))
      BY <2>1 DEF EntryInv
    <3>. HIDE DEF pcs
    <3>. QED  BY <2>2, <3>2, <3>4, <3>5, ConservedFlush
  <2>. QED  BY <2>3, <2>4
<1>9. CASE PostBatch
  <2>1. Append(pushed, Head(batches)) \o Tail(batches) = pushed \o batches
    BY <1>9, PostedInPlace, Zenon DEF PostBatch, LogTypes
  <2>2. Held' = Held /\ UNCHANGED <<thread, emitted, layers>>
    BY <1>9, <2>1 DEF PostBatch, Held
  <2>. QED  BY <1>frame, <2>2 DEF Past
<1>10. CASE UNCHANGED logVars
  BY <1>same, <1>10 DEF logVars
<1>. QED  BY <1>1, <1>2, <1>4, <1>5, <1>6, <1>7, <1>8, <1>9, <1>10, SMTT(30) DEF LogNext

-----------------------------------------------------------------------------
\* A process that has not set up logging satisfies the invariant.
LEMMA LogInitially == LogInit => LogTypes /\ LogInv
<1>. SUFFICES ASSUME LogInit PROVE LogTypes /\ LogInv
  OBVIOUS
<1>. USE LogBounds DEF LogInit
<1>1. LogTypes
  BY FS_EmptySet, NoEventFacts DEF LogTypes
<1>2. \A t \in Threads : thread[t].pc = "idle"
  BY NoEventFacts
<1>3. ThreadInv /\ FullBufferIsFlushed
  BY <1>2 DEF ThreadInv, Busy, FullBufferIsFlushed
<1>4. Past({"write"}) = {} /\ Past({"write", "push"}) = {}
  BY DEF Past
<1>5. LineInv
  <2>1. file \o lineBuf = <<>> /\ DOMAIN <<>> = {}
    OBVIOUS
  <2>2. \A e : Lines(file \o lineBuf, e) = {}
    BY <2>1 DEF Lines
  <2>3. \A e : Cardinality(Lines(file \o lineBuf, e)) = 0
    BY <2>2, FS_EmptySet, Zenon
  <2>. QED  BY <1>2, <1>4, <2>3 DEF LineInv
<1>6. EntryInv
  <2>1. pushed \o batches = <<>>
    OBVIOUS
  <2>2. Held = <<<<>>>>
    BY <2>1 DEF Held
  <2>3. DOMAIN Held = 1..1 /\ DOMAIN Held[1] = {}
    BY <2>2
  <2>. QED  BY <1>4, <2>3 DEF EntryInv, Conserved
<1>. QED  BY <1>1, <1>3, <1>5, <1>6, SMTT(30) DEF LogInv

\* The inductive invariant holds in every reachable state.
LEMMA LogInvariant == LogSpec => [](LogTypes /\ LogInv)
<1>1. LogTypes /\ LogInv /\ [LogNext]_logVars => (LogTypes /\ LogInv)'
  BY LogTypesStep, ThreadInvStep, LineInvStep, EntryInvStep, FlushStep, SMTT(30) DEF LogInv
<1>. QED  BY LogInitially, <1>1, PTL DEF LogSpec

\* Every reachable state is well typed; in particular the log context never
\* has more than MAX_CONTEXT_KEYS keys.
THEOREM LogTypeCorrect == LogSpec => []LogTypeOK
<1>1. LogTypes => LogTypeOK
  BY DEF LogTypes, LogTypeOK, ThreadState
<1>. QED  BY LogInvariant, <1>1, PTL

\* However many threads log and however many writes fail, write_log loses no
\* line and writes none more than MAX_RETRIES times.
THEOREM LinesAreKept == LogSpec => []NoLineLost
<1>1. LogTypes /\ LogInv => NoLineLost
  BY DEF LogInv, LineInv, NoLineLost, Lines
<1>. QED  BY LogInvariant, <1>1, PTL

\* However the threads interleave between a push and its flush, the
\* OpenObserve layer keeps every entry exactly once.
THEOREM EntriesAreConserved == LogSpec => []EntriesConserved
<1>1. LogInv => EntriesConserved
  <2>. SUFFICES ASSUME LogInv, "openobserve" \in layers
                PROVE  /\ {EntryAt(p) : p \in Places} = Past({"write", "push"})
                       /\ \A p, q \in Places : EntryAt(p) = EntryAt(q) => p = q
    BY DEF EntriesConserved
  <2>1. Conserved(Held, Past({"write", "push"}))
    BY DEF LogInv, EntryInv
  <2>2. \A p \in Places : /\ p[1] \in DOMAIN Held /\ p[2] \in DOMAIN Held[p[1]]
                          /\ p = <<p[1], p[2]>> /\ EntryAt(p) = Held[p[1]][p[2]]
    BY DEF Places, EntryAt
  <2>3. \A b \in DOMAIN Held : \A i \in DOMAIN Held[b] :
            <<b, i>> \in Places /\ EntryAt(<<b, i>>) = Held[b][i]
    BY DEF Places, EntryAt
  <2>4. \A p \in Places : EntryAt(p) \in Past({"write", "push"})
    BY <2>1, <2>2 DEF Conserved
  <2>5. ASSUME NEW e \in Past({"write", "push"})  PROVE \E p \in Places : EntryAt(p) = e
    <3>1. PICK b \in DOMAIN Held : \E i \in DOMAIN Held[b] : Held[b][i] = e
      BY <2>1 DEF Conserved
    <3>2. PICK i \in DOMAIN Held[b] : Held[b][i] = e
      BY <3>1
    <3>. QED  BY <2>3, <3>2, Zenon
  <2>6. \A p, q \in Places : EntryAt(p) = EntryAt(q) => p = q
    BY <2>1, <2>2 DEF Conserved
  <2>. QED  BY <2>4, <2>5, <2>6, SMTT(30)
<1>. QED  BY LogInvariant, <1>1, PTL

\* The OpenObserve buffer is never full without a thread about to flush it,
\* although on_event releases the lock between the two.
THEOREM FullBuffersAreFlushed == LogSpec => []FullBufferIsFlushed
  BY LogInvariant, PTL DEF LogInv
=============================================================================
