------------------------------ MODULE Logging ------------------------------
(***************************************************************************)
(* Logging of one process (common/src/logging.rs): threads that emit       *)
(* events through the file layer and the OpenObserve layer, the worker     *)
(* that posts batches, and the log context.  An event is its number;       *)
(* what a line looks like is left out.                                     *)
(***************************************************************************)
EXTENDS Naturals, Sequences, FiniteSets, Functions

CONSTANTS
    Threads,
    Keys,                  \* keys of the log context
    MAX_CONTEXT_KEYS,      \* 10
    LOG_PUSH_BATCH_SIZE,   \* 50
    MAX_RETRIES,           \* of write_log, 3
    MaxLines,              \* MAX_LOG_FILE_SIZE_MB, in lines
    MaxEvents,             \* bound on the events emitted
    MaxWriteErrors         \* bound on failed writes

ASSUME LoggingAssumption ==
    /\ {MAX_CONTEXT_KEYS, LOG_PUSH_BATCH_SIZE, MAX_RETRIES} \subseteq Nat \ {0}
    /\ {MaxLines, MaxEvents, MaxWriteErrors} \subseteq Nat

VARIABLES
    layers,     \* layers init_logging_internal installed
    ctx,        \* keys of LOG_CONTEXT
    thread,     \* thread[t]: where on_event stands
    emitted,    \* events so far
    writeErrors,\* failed writes so far
    lineBuf,    \* lines in the BufWriter
    file,       \* lines in the log file
    buffer,     \* entries the OpenObserve layer holds
    batches,    \* batches sent to the worker
    pushed      \* history: batches the worker posted

logVars == <<layers, ctx, thread, emitted, writeErrors, lineBuf, file, buffer, batches, pushed>>

NoEvent == [pc |-> "idle", event |-> 0, retry |-> 0]

LogInit ==
    /\ layers = {}
    /\ ctx = {}
    /\ thread = [t \in Threads |-> NoEvent]
    /\ emitted = 0
    /\ writeErrors = 0
    /\ lineBuf = <<>>
    /\ file = <<>>
    /\ buffer = <<>>
    /\ batches = <<>>
    /\ pushed = <<>>

Events == 1..MaxEvents

LogTypeOK ==
    /\ layers \subseteq {"file", "openobserve"}
    /\ ctx \subseteq Keys /\ Cardinality(ctx) <= MAX_CONTEXT_KEYS
    /\ thread \in [Threads -> [pc : {"idle", "write", "push", "flush"},
                               event : 0..MaxEvents, retry : 0..(MAX_RETRIES - 1)]]
    /\ emitted \in 0..MaxEvents
    /\ writeErrors \in 0..MaxWriteErrors
    /\ \A s \in {lineBuf, file, buffer} : s \in Seq(Events)
    /\ \A s \in {batches, pushed} : s \in Seq(Seq(Events))

-----------------------------------------------------------------------------
\* init_logging_internal: the file may not open and OpenObserve may not be
\* configured; without a layer the process does not start.
init_logging_internal(l) ==
    /\ layers = {} /\ l # {}
    /\ layers' = l
    /\ UNCHANGED <<ctx, thread, emitted, writeErrors, lineBuf, file, buffer, batches, pushed>>

\* set_log_context with a value, where the rate limiter lets the call through:
\* an existing key is updated, a new one needs room.
set_log_context(k) ==
    /\ layers # {}
    /\ k \in ctx \/ Cardinality(ctx) < MAX_CONTEXT_KEYS
    /\ ctx' = ctx \union {k}
    /\ UNCHANGED <<layers, thread, emitted, writeErrors, lineBuf, file, buffer, batches, pushed>>

\* set_log_context without a value: always allowed.
RemoveContext(k) ==
    /\ ctx' = ctx \ {k}
    /\ UNCHANGED <<layers, thread, emitted, writeErrors, lineBuf, file, buffer, batches, pushed>>

\* The layers run one after the other in the thread that emits the event.
EmitEvent(t) ==
    /\ layers # {} /\ thread[t].pc = "idle" /\ emitted < MaxEvents
    /\ emitted' = emitted + 1
    /\ thread' = [thread EXCEPT ![t] = [pc |-> IF "file" \in layers THEN "write" ELSE "push",
                                        event |-> emitted + 1, retry |-> 0]]
    /\ UNCHANGED <<layers, ctx, writeErrors, lineBuf, file, buffer, batches, pushed>>

-----------------------------------------------------------------------------
\* FileLogLayer.

\* FileLogLayer::new opens the file for appending.
OpenMode == {"create", "append"}

\* check_and_rotate: past the limit it reads the tail through a clone of the
\* handle, and returns the error when the handle cannot be read.
check_and_rotate(f) ==
    IF Len(f) <= MaxLines \/ "read" \notin OpenMode THEN f
    ELSE SubSeq(f, Len(f) - (MaxLines \div 2) + 1, Len(f))

\* What follows the file layer in the thread.
AfterWrite(t) ==
    IF "openobserve" \in layers THEN [thread[t] EXCEPT !.pc = "push", !.retry = 0] ELSE NoEvent

\* write_log, an attempt under the lock: the line enters the BufWriter, which
\* is then flushed.
WriteLine(t) ==
    /\ thread[t].pc = "write"
    /\ file' = check_and_rotate(file) \o Append(lineBuf, thread[t].event)
    /\ lineBuf' = <<>>
    /\ thread' = [thread EXCEPT ![t] = AfterWrite(t)]
    /\ UNCHANGED <<layers, ctx, emitted, writeErrors, buffer, batches, pushed>>

\* After MAX_RETRIES attempts the thread goes on.
AfterFailure(t) ==
    IF thread[t].retry + 1 >= MAX_RETRIES THEN AfterWrite(t)
    ELSE [thread[t] EXCEPT !.retry = @ + 1]

\* Mutant: the BufWriter is thrown away with the error.
WriteFails_Drops(t) ==
    /\ thread[t].pc = "write" /\ writeErrors < MaxWriteErrors
    /\ writeErrors' = writeErrors + 1
    /\ lineBuf' = <<>>
    /\ file' = check_and_rotate(file)
    /\ thread' = [thread EXCEPT ![t] = AfterFailure(t)]
    /\ UNCHANGED <<layers, ctx, emitted, buffer, batches, pushed>>

\* The flush fails: the line stays in the BufWriter and the next attempt adds
\* it again.
WriteFails(t) ==
    /\ thread[t].pc = "write" /\ writeErrors < MaxWriteErrors
    /\ writeErrors' = writeErrors + 1
    /\ lineBuf' = Append(lineBuf, thread[t].event)
    /\ file' = check_and_rotate(file)
    /\ thread' = [thread EXCEPT ![t] = AfterFailure(t)]
    /\ UNCHANGED <<layers, ctx, emitted, buffer, batches, pushed>>

-----------------------------------------------------------------------------
\* OpenObserveLayer.

\* Mutant: flushed one entry too late.
PushEntry_Late(t) ==
    /\ thread[t].pc = "push"
    /\ buffer' = Append(buffer, thread[t].event)
    /\ thread' = [thread EXCEPT ![t] = IF Len(buffer) >= LOG_PUSH_BATCH_SIZE
                                       THEN [@ EXCEPT !.pc = "flush"] ELSE NoEvent]
    /\ UNCHANGED <<layers, ctx, emitted, writeErrors, lineBuf, file, batches, pushed>>

\* on_event: the entry enters the buffer; when that is full the lock is
\* released before the flush.
PushEntry(t) ==
    /\ thread[t].pc = "push"
    /\ buffer' = Append(buffer, thread[t].event)
    /\ thread' = [thread EXCEPT ![t] = IF Len(buffer') >= LOG_PUSH_BATCH_SIZE
                                       THEN [@ EXCEPT !.pc = "flush"] ELSE NoEvent]
    /\ UNCHANGED <<layers, ctx, emitted, writeErrors, lineBuf, file, batches, pushed>>

\* Mutant: the entries are sent and kept.
flush_buffer_Copy(t) ==
    /\ thread[t].pc = "flush"
    /\ batches' = Append(batches, buffer)
    /\ thread' = [thread EXCEPT ![t] = NoEvent]
    /\ UNCHANGED <<layers, ctx, emitted, writeErrors, lineBuf, file, buffer, pushed>>

\* flush_buffer: another thread may have taken or added entries since.
flush_buffer(t) ==
    /\ thread[t].pc = "flush"
    /\ batches' = IF buffer = <<>> THEN batches ELSE Append(batches, buffer)
    /\ buffer' = <<>>
    /\ thread' = [thread EXCEPT ![t] = NoEvent]
    /\ UNCHANGED <<layers, ctx, emitted, writeErrors, lineBuf, file, pushed>>

\* The worker posts a batch; a post that fails is not repeated.
PostBatch ==
    /\ batches # <<>>
    /\ pushed' = Append(pushed, Head(batches))
    /\ batches' = Tail(batches)
    /\ UNCHANGED <<layers, ctx, thread, emitted, writeErrors, lineBuf, file, buffer>>

LogNext ==
    \/ \E l \in SUBSET {"file", "openobserve"} : init_logging_internal(l)
    \/ \E k \in Keys : set_log_context(k) \/ RemoveContext(k)
    \/ \E t \in Threads : \/ EmitEvent(t)
                          \/ WriteLine(t) \/ WriteFails(t)
                          \/ PushEntry(t) \/ flush_buffer(t)
    \/ PostBatch

LogSpec == LogInit /\ [][LogNext]_logVars

-----------------------------------------------------------------------------
\* The events that have passed the layer whose steps are at the given points.
Past(pcs) == (1..emitted) \ {thread[t].event : t \in {u \in Threads : thread[u].pc \in pcs}}

\* The file layer loses no line: what write_log is done with is in the file or
\* waits in the BufWriter for the next flush, three failed attempts included.
\* Nor does it write a line more often than it tried.  (check_and_rotate drops
\* none either: it never gets as far as truncating, see OpenMode.)
NoLineLost ==
    LET lines == file \o lineBuf IN
    "file" \in layers =>
        /\ Past({"write"}) \subseteq Range(lines)
        /\ \A e \in Events : Cardinality({i \in DOMAIN lines : lines[i] = e}) <= MAX_RETRIES

\* The batches posted, those on their way, and the buffer; the places of their
\* entries.
Held == Append(pushed \o batches, buffer)
Places == UNION {{b} \X DOMAIN Held[b] : b \in DOMAIN Held}
EntryAt(p) == Held[p[1]][p[2]]

\* The OpenObserve layer keeps every entry exactly once, in the buffer, on its
\* way to the worker or posted, whatever other threads do between a push and
\* its flush.
EntriesConserved ==
    "openobserve" \in layers =>
        /\ {EntryAt(p) : p \in Places} = Past({"write", "push"})
        /\ \A p, q \in Places : EntryAt(p) = EntryAt(q) => p = q

\* A full buffer always has a thread that is about to flush it, although the
\* lock is released in between.
FullBufferIsFlushed ==
    Len(buffer) >= LOG_PUSH_BATCH_SIZE => \E t \in Threads : thread[t].pc = "flush"
=============================================================================
