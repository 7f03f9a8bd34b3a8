---------------------------- MODULE PeerRegistry ----------------------------
(***************************************************************************)
(* Two-phase attestation of TEE instances at one guardian node:            *)
(* PeerRegistry (peer_registry/src/registry.rs), register_tee and          *)
(* verify_tee (verifier.rs), and the AttestationEventHandler and the       *)
(* cleanup task of bootstrap/src/attestation.rs.                           *)
(*                                                                         *)
(* Requests run concurrently; each is cut where it awaits or takes one of  *)
(* the two locks.  Quotes are genuine: what a quote shows is its instance  *)
(* and the challenge it was made for, and an instance only knows           *)
(* challenges this registry gave it.  A request that fails changes nothing *)
(* and is no step when it fails at once.                                   *)
(***************************************************************************)
EXTENDS Naturals, Sequences

CONSTANTS
    Instances,      \* instance ids
    Namespaces,
    Guardian,       \* GUARDIAN_CERTIFICATE_NAMESPACE, which the handler serves
    Whitelisted,    \* pairs <<i, ns>>: i's measurement is registered in ns
    Requests,       \* requests in progress at one time
    Capacity,       \* EVENT_CHANNEL_CAPACITY, 256 in the code
    MaxChallenges   \* bound on the challenges issued

ASSUME RegistryAssumption ==
    /\ Guardian \in Namespaces /\ "none" \notin Namespaces
    /\ Whitelisted \subseteq Instances \X Namespaces
    /\ Capacity \in Nat \ {0}
    /\ MaxChallenges \in Nat

VARIABLES
    pending,        \* pending[i]: the record awaiting phase 2, or NoRecord
    verified,       \* verified[i]: the verified record, or NoRecord
    req,            \* req[r]: what request r is doing
    issued,         \* challenges drawn so far; each draw is a new one
    known,          \* known[i]: challenges i was answered
    channel,        \* broadcast buffer as the handler's receiver sees it
    lagged,         \* the receiver missed events and was not told yet
    trusted,        \* instances whose node is in the TrustedPeerRegistry
    alive,          \* the process runs
    completions     \* history: completions[c], verifications completed with c

vars == <<pending, verified, req, issued, known, channel, lagged, trusted, alive, completions>>

Challenge == 1..MaxChallenges
NoAddress == "none"
NoRecord == [ns |-> "none", challenge |-> 0, valid |-> FALSE, ip |-> NoAddress]
NoRequest == [pc |-> "idle", inst |-> "none", quoted |-> 0, rec |-> NoRecord]

\* TeeRecord::new_pending: an address is not known.
new_pending(ns, c) == [ns |-> ns, challenge |-> c, valid |-> TRUE, ip |-> NoAddress]

\* complete_verification: namespace and address are kept, the challenge is not.
VerifiedRecord(rec) == [rec EXCEPT !.challenge = 0, !.valid = FALSE]

Record == [ns : Namespaces, challenge : 0..MaxChallenges, valid : BOOLEAN, ip : {NoAddress}]
Event == [kind : {"Registered", "Verified"}, inst : Instances, ns : Namespaces, ip : {NoAddress}]
Request == [pc : {"checkVerified", "checkPending", "insert", "registered",
                  "signature", "remove", "verify", "verified"},
            inst : Instances, quoted : 0..MaxChallenges, rec : Record]

Init ==
    /\ pending = [i \in Instances |-> NoRecord]
    /\ verified = [i \in Instances |-> NoRecord]
    /\ req = [r \in Requests |-> NoRequest]
    /\ issued = 0
    /\ known = [i \in Instances |-> {}]
    /\ channel = <<>>
    /\ lagged = FALSE
    /\ trusted = {}
    /\ alive = TRUE
    /\ completions = [c \in Challenge |-> 0]

TypeOK ==
    /\ pending \in [Instances -> Record \union {NoRecord}]
    /\ verified \in [Instances -> Record \union {NoRecord}]
    /\ req \in [Requests -> Request \union {NoRequest}]
    /\ issued \in 0..MaxChallenges
    /\ known \in [Instances -> SUBSET Challenge]
    /\ channel \in Seq(Event) /\ Len(channel) <= Capacity
    /\ lagged \in BOOLEAN
    /\ trusted \subseteq Instances
    /\ alive \in BOOLEAN
    /\ completions \in [Challenge -> Nat]

-----------------------------------------------------------------------------
At(r, pc) == alive /\ req[r].pc = pc
Goto(r, pc) == req' = [req EXCEPT ![r].pc = pc]
Return(r) == req' = [req EXCEPT ![r] = NoRequest]

\* Mutant: the buffer grows.
Send_Unbounded(kind, i, rec) ==
    /\ channel' = Append(channel, [kind |-> kind, inst |-> i, ns |-> rec.ns, ip |-> rec.ip])
    /\ UNCHANGED lagged

\* event_tx.send: a full buffer loses its oldest event.
Send(kind, i, rec) ==
    LET e == [kind |-> kind, inst |-> i, ns |-> rec.ns, ip |-> rec.ip] IN
    IF Len(channel) < Capacity
    THEN channel' = Append(channel, e) /\ UNCHANGED lagged
    ELSE channel' = Append(Tail(channel), e) /\ lagged' = TRUE

-----------------------------------------------------------------------------
\* Phase 1.

\* Mutant: the measurement is not looked up.
register_tee_AnyMeasurement(r, i, ns) ==
    /\ At(r, "idle")
    /\ req' = [req EXCEPT ![r] = [pc |-> "checkVerified", inst |-> i, quoted |-> 0,
                                  rec |-> new_pending(ns, 0)]]
    /\ UNCHANGED <<pending, verified, issued, known, channel, lagged, trusted, alive, completions>>

\* register_tee: signature and measurement are checked before the registry is
\* asked.
register_tee(r, i, ns) ==
    /\ At(r, "idle")
    /\ <<i, ns>> \in Whitelisted
    /\ req' = [req EXCEPT ![r] = [pc |-> "checkVerified", inst |-> i, quoted |-> 0,
                                  rec |-> new_pending(ns, 0)]]
    /\ UNCHANGED <<pending, verified, issued, known, channel, lagged, trusted, alive, completions>>

\* register, first lock: a verified instance is a conflict.
CheckVerified(r) ==
    /\ At(r, "checkVerified")
    /\ IF verified[req[r].inst] # NoRecord THEN Return(r) ELSE Goto(r, "checkPending")
    /\ UNCHANGED <<pending, verified, issued, known, channel, lagged, trusted, alive, completions>>

\* register, second lock: an unexpired challenge is returned again.
CheckPending(r) ==
    LET i == req[r].inst IN
    /\ At(r, "checkPending")
    /\ IF pending[i].valid
       THEN Return(r) /\ known' = [known EXCEPT ![i] = @ \union {pending[i].challenge}]
       ELSE Goto(r, "insert") /\ UNCHANGED known
    /\ UNCHANGED <<pending, verified, issued, channel, lagged, trusted, alive, completions>>

\* register, third lock: a new challenge replaces what is there.
InsertPending(r) ==
    LET rec == new_pending(req[r].rec.ns, issued + 1) IN
    /\ At(r, "insert")
    /\ issued < MaxChallenges
    /\ issued' = issued + 1
    /\ pending' = [pending EXCEPT ![req[r].inst] = rec]
    /\ req' = [req EXCEPT ![r].pc = "registered", ![r].rec = rec]
    /\ UNCHANGED <<verified, known, channel, lagged, trusted, alive, completions>>

\* register: the event, then the answer.
AnnounceRegistered(r) ==
    LET i == req[r].inst IN
    /\ At(r, "registered")
    /\ Send("Registered", i, req[r].rec)
    /\ known' = [known EXCEPT ![i] = @ \union {req[r].rec.challenge}]
    /\ Return(r)
    /\ UNCHANGED <<pending, verified, issued, trusted, alive, completions>>

-----------------------------------------------------------------------------
\* Phase 2.

\* verify_tee: the pending record is copied, its namespace and expiry checked.
\* c is the challenge in the quote.
verify_tee(r, i, ns, c) ==
    /\ At(r, "idle")
    /\ c \in known[i]
    /\ pending[i].valid /\ pending[i].ns = ns
    /\ req' = [req EXCEPT ![r] = [pc |-> "signature", inst |-> i, quoted |-> c,
                                  rec |-> pending[i]]]
    /\ UNCHANGED <<pending, verified, issued, known, channel, lagged, trusted, alive, completions>>

\* The signature check may fail (it fetches collateral); then the challenges
\* are compared.
CheckReportData(r) ==
    /\ At(r, "signature")
    /\ \E signed \in BOOLEAN :
          IF signed /\ req[r].quoted = req[r].rec.challenge THEN Goto(r, "remove") ELSE Return(r)
    /\ UNCHANGED <<pending, verified, issued, known, channel, lagged, trusted, alive, completions>>

\* Mutants: the record is read and stays; the event is sent too early.
RemovePending_Kept(r) ==
    LET i == req[r].inst IN
    /\ At(r, "remove")
    /\ IF pending[i] = NoRecord
       THEN Return(r)
       ELSE req' = [req EXCEPT ![r].pc = "verify", ![r].rec = pending[i]]
    /\ UNCHANGED <<pending, verified, issued, known, channel, lagged, trusted, alive, completions>>

RemovePending_Announces(r) ==
    LET i == req[r].inst IN
    /\ At(r, "remove")
    /\ IF pending[i] = NoRecord
       THEN Return(r) /\ UNCHANGED <<channel, lagged>>
       ELSE /\ req' = [req EXCEPT ![r].pc = "verify", ![r].rec = pending[i]]
            /\ Send("Verified", i, pending[i])
    /\ pending' = [pending EXCEPT ![i] = NoRecord]
    /\ UNCHANGED <<verified, issued, known, trusted, alive, completions>>

\* complete_verification, first lock: whoever removes the record goes on.
RemovePending(r) ==
    LET i == req[r].inst IN
    /\ At(r, "remove")
    /\ IF pending[i] = NoRecord
       THEN Return(r)
       ELSE req' = [req EXCEPT ![r].pc = "verify", ![r].rec = pending[i]]
    /\ pending' = [pending EXCEPT ![i] = NoRecord]
    /\ UNCHANGED <<verified, issued, known, channel, lagged, trusted, alive, completions>>

\* complete_verification, second lock.
InsertVerified(r) ==
    /\ At(r, "verify")
    /\ verified' = [verified EXCEPT ![req[r].inst] = VerifiedRecord(req[r].rec)]
    /\ completions' = [completions EXCEPT ![req[r].rec.challenge] = @ + 1]
    /\ Goto(r, "verified")
    /\ UNCHANGED <<pending, issued, known, channel, lagged, trusted, alive>>

AnnounceVerified(r) ==
    /\ At(r, "verified")
    /\ Send("Verified", req[r].inst, req[r].rec)
    /\ Return(r)
    /\ UNCHANGED <<pending, verified, issued, known, trusted, alive, completions>>

-----------------------------------------------------------------------------
\* Time and the background tasks.

\* expires_at passes.
Expire(i) ==
    /\ alive
    /\ pending[i].valid
    /\ pending' = [pending EXCEPT ![i].valid = FALSE]
    /\ UNCHANGED <<verified, req, issued, known, channel, lagged, trusted, alive, completions>>

\* Mutant: the test is inverted.
cleanup_expired_Inverted ==
    LET gone == {i \in Instances : pending[i].valid} IN
    /\ alive
    /\ gone # {}
    /\ pending' = [i \in Instances |-> IF i \in gone THEN NoRecord ELSE pending[i]]
    /\ UNCHANGED <<verified, req, issued, known, channel, lagged, trusted, alive, completions>>

\* cleanup_task: all expired records go at once.
cleanup_expired ==
    LET gone == {i \in Instances : pending[i] # NoRecord /\ ~pending[i].valid} IN
    /\ alive
    /\ gone # {}
    /\ pending' = [i \in Instances |-> IF i \in gone THEN NoRecord ELSE pending[i]]
    /\ UNCHANGED <<verified, req, issued, known, channel, lagged, trusted, alive, completions>>

\* handle_event for an event of the handler's namespace.  expect() on a missing
\* address panics, and a panic aborts the process (panic = "abort").
handle_event(e) ==
    IF e.kind = "Registered" THEN UNCHANGED <<trusted, alive>>
    ELSE IF e.ip = NoAddress THEN alive' = FALSE /\ UNCHANGED trusted
    ELSE trusted' = trusted \union {e.inst} /\ UNCHANGED alive

\* AttestationEventHandler::run receives an event.
HandlerReceives ==
    /\ alive /\ ~lagged /\ channel # <<>>
    /\ channel' = Tail(channel)
    /\ IF Head(channel).ns = Guardian THEN handle_event(Head(channel))
       ELSE UNCHANGED <<trusted, alive>>
    /\ UNCHANGED <<pending, verified, req, issued, known, lagged, completions>>

\* RecvError::Lagged: a warning, and on to the oldest event that is left.
HandlerLagged ==
    /\ alive /\ lagged
    /\ lagged' = FALSE
    /\ UNCHANGED <<pending, verified, req, issued, known, channel, trusted, alive, completions>>

RequestStep(r) ==
    \/ CheckVerified(r)
    \/ CheckPending(r)
    \/ InsertPending(r)
    \/ AnnounceRegistered(r)
    \/ CheckReportData(r)
    \/ RemovePending(r)
    \/ InsertVerified(r)
    \/ AnnounceVerified(r)

HandlerStep == HandlerReceives \/ HandlerLagged

Next ==
    \/ \E r \in Requests, i \in Instances, ns \in Namespaces : register_tee(r, i, ns)
    \/ \E r \in Requests, i \in Instances, ns \in Namespaces, c \in Challenge : verify_tee(r, i, ns, c)
    \/ \E r \in Requests : RequestStep(r)
    \/ \E i \in Instances : Expire(i)
    \/ cleanup_expired
    \/ HandlerStep

Spec == Init /\ [][Next]_vars

\* Time passes, and the cleanup task loops for ever.
CleanupFairness ==
    /\ \A i \in Instances : WF_vars(Expire(i))
    /\ WF_vars(cleanup_expired)

\* Requests run to their end, and so does the loop of the handler.  Clients need
\* not send anything.
Fairness ==
    /\ CleanupFairness
    /\ \A r \in Requests : WF_vars(RequestStep(r))
    /\ WF_vars(HandlerStep)

FairSpec == Spec /\ Fairness

-----------------------------------------------------------------------------
\* Whatever requests run concurrently, an instance is verified only in a
\* namespace that lists its measurement (register_tee checks it, and
\* complete_verification takes the namespace of the record it removes).
VerifiedIsWhitelisted ==
    \A i \in Instances : verified[i] # NoRecord => <<i, verified[i].ns>> \in Whitelisted

\* A challenge completes at most one verification, also when a client repeats
\* its phase 2 request while the first one is in progress.
ChallengeUsedOnce == \A c \in Challenge : completions[c] <= 1

\* A subscriber that sees a Verified event finds the instance verified.
EventsFollowRecords ==
    \A k \in 1..Len(channel) :
        channel[k].kind = "Verified" => verified[channel[k].inst] # NoRecord

\* An abandoned registration does not stay (cleanup_expired "to prevent memory
\* growth"): whatever challenges were issued, a moment comes at which none of
\* them is pending.  A challenge is issued once, so none stays for ever.
PendingEnds ==
    []<>(alive => \A i \in Instances : pending[i].challenge \notin Challenge)

\* An instance verified in the handler's namespace becomes trusted.
VerifiedBecomesTrusted ==
    \A i \in Instances :
        (verified[i] # NoRecord /\ verified[i].ns = Guardian) ~> i \in trusted
=============================================================================
