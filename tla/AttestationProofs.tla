-------------------------- MODULE AttestationProofs --------------------------
(***************************************************************************)
(* Theorems about PeerRegistry, for every number of instances, namespaces, *)
(* concurrent requests and challenges, and every capacity of the channel,  *)
(* and about MeasurementClient, which tells it what is whitelisted, for    *)
(* every number of retries and every sequence of answers.                  *)
(***************************************************************************)
EXTENDS PeerRegistry, MeasurementClient, TLAPS, SequenceTheorems, WellFoundedInduction

\* The type invariant, with what the answers of register rely on: a challenge
\* that is given out was drawn.
TypeInv ==
    /\ TypeOK
    /\ \A i \in Instances : pending[i].valid => pending[i].challenge \in Challenge
    /\ \A r \in Requests : req[r].pc = "registered" => req[r].rec.challenge \in Challenge

\* Every record, pending or copied into a request, is for a namespace that lists
\* the measurement.
ListedInv ==
    /\ \A i \in Instances : pending[i] # NoRecord => <<i, pending[i].ns>> \in Whitelisted
    /\ \A r \in Requests : req[r].pc # "idle" => <<req[r].inst, req[r].rec.ns>> \in Whitelisted
    /\ VerifiedIsWhitelisted

\* Request r removed the record with challenge c and is about to complete it.
Holds(r, c) == req[r].pc = "verify" /\ req[r].rec.challenge = c

\* Challenges that were not drawn yet are nowhere.
DrawnInv ==
    /\ \A i \in Instances : pending[i].challenge <= issued
    /\ \A r \in Requests : req[r].pc = "verify" => req[r].rec.challenge <= issued
    /\ \A c \in Challenge : c > issued => completions[c] = 0

\* A challenge is in one place: a pending record, a request that removed it, or
\* a completed verification.
OnePlaceInv ==
    /\ \A i, j \in Instances : \A c \in Challenge :
          pending[i].challenge = c /\ pending[j].challenge = c => i = j
    /\ \A r, s \in Requests : \A c \in Challenge : Holds(r, c) /\ Holds(s, c) => r = s
    /\ \A i \in Instances : \A c \in Challenge :
          pending[i].challenge = c => completions[c] = 0 /\ \A r \in Requests : ~Holds(r, c)
    /\ \A r \in Requests : \A c \in Challenge : Holds(r, c) => completions[c] = 0
    /\ ChallengeUsedOnce

\* A request that is about to announce a verification has recorded it.
EventInv ==
    /\ \A r \in Requests : req[r].pc = "verified" => verified[req[r].inst] # NoRecord
    /\ EventsFollowRecords

RegistryInv == ListedInv /\ DrawnInv /\ OnePlaceInv /\ EventInv

-----------------------------------------------------------------------------
\* A request in progress has an instance and a record.
LEMMA BusyFacts ==
    ASSUME TypeOK, NEW r \in Requests, req[r].pc # "idle"
    PROVE  /\ req[r] \in Request
           /\ req[r].inst \in Instances
           /\ req[r].rec \in Record
           /\ req[r].rec.ns \in Namespaces
           /\ req[r].rec.challenge \in 0..MaxChallenges
<1>1. req[r] \in Request
  BY DEF TypeOK, NoRequest
<1>2. req[r].inst \in Instances /\ req[r].rec \in Record
  BY <1>1 DEF Request
<1>. QED  BY <1>1, <1>2 DEF Record

\* An event of the right kind keeps the channel well typed and within its
\* capacity.
LEMMA SendType ==
    ASSUME TypeOK, NEW kind \in {"Registered", "Verified"}, NEW i \in Instances,
           NEW rec \in Record, Send(kind, i, rec)
    PROVE  channel' \in Seq(Event) /\ Len(channel') <= Capacity /\ lagged' \in BOOLEAN
<1>. DEFINE e == [kind |-> kind, inst |-> i, ns |-> rec.ns, ip |-> rec.ip]
<1>1. e \in Event
  BY DEF Event, Record
<1>2. channel \in Seq(Event) /\ Len(channel) <= Capacity /\ lagged \in BOOLEAN
  BY DEF TypeOK
<1>3. CASE Len(channel) < Capacity
  <2>1. channel' = Append(channel, e) /\ lagged' = lagged
    BY <1>3 DEF Send
  <2>. HIDE DEF e
  <2>2. channel' \in Seq(Event) /\ Len(channel') = Len(channel) + 1
    BY <1>1, <1>2, <2>1
  <2>. QED  BY <1>2, <1>3, <2>1, <2>2, RegistryAssumption
<1>4. CASE ~(Len(channel) < Capacity)
  <2>1. channel' = Append(Tail(channel), e) /\ lagged' = TRUE
    BY <1>4 DEF Send
  <2>. HIDE DEF e
  <2>2. channel # <<>>
    BY <1>2, <1>4, RegistryAssumption
  <2>3. Tail(channel) \in Seq(Event) /\ Len(Tail(channel)) = Len(channel) - 1
    BY <1>2, <2>2
  <2>4. channel' \in Seq(Event) /\ Len(channel') = Len(channel)
    BY <1>1, <1>2, <2>1, <2>3
  <2>. QED  BY <1>2, <2>1, <2>4
<1>. QED  BY <1>3, <1>4

\* A verified record keeps its namespace and is a record.
LEMMA VerifiedRecordFacts ==
    ASSUME NEW rec \in Record
    PROVE  /\ VerifiedRecord(rec) \in Record
           /\ VerifiedRecord(rec).ns = rec.ns
           /\ VerifiedRecord(rec) # NoRecord
<1>1. ASSUME NEW c \in 0..MaxChallenges, NEW b \in BOOLEAN
      PROVE  [rec EXCEPT !.challenge = c, !.valid = b] \in Record
  BY Zenon DEF Record
<1>2. 0 \in 0..MaxChallenges
  BY RegistryAssumption
<1>3. VerifiedRecord(rec) \in Record
  BY <1>1, <1>2, Zenon DEF VerifiedRecord
<1>4. VerifiedRecord(rec).ns = rec.ns /\ rec.ns \in Namespaces
  BY DEF VerifiedRecord, Record
<1>5. VerifiedRecord(rec) # NoRecord
  BY <1>4, RegistryAssumption DEF NoRecord
<1>. QED  BY <1>3, <1>4, <1>5

\* A request that returns or goes on is well typed.
LEMMA RequestType ==
    ASSUME TypeOK, NEW r \in Requests, req[r].pc # "idle"
    PROVE  /\ Return(r) => req' \in [Requests -> Request \union {NoRequest}]
           /\ \A pc \in {"checkVerified", "checkPending", "insert", "registered",
                         "signature", "remove", "verify", "verified"} :
                 /\ Goto(r, pc) => req' \in [Requests -> Request \union {NoRequest}]
                 /\ \A rec \in Record :
                       req' = [req EXCEPT ![r].pc = pc, ![r].rec = rec]
                          => req' \in [Requests -> Request \union {NoRequest}]
<1>1. req[r] \in Request /\ req \in [Requests -> Request \union {NoRequest}]
  BY BusyFacts DEF TypeOK
<1>2. Return(r) => req' \in [Requests -> Request \union {NoRequest}]
  BY <1>1 DEF Return
<1>3. ASSUME NEW pc \in {"checkVerified", "checkPending", "insert", "registered",
                         "signature", "remove", "verify", "verified"}
      PROVE  /\ Goto(r, pc) => req' \in [Requests -> Request \union {NoRequest}]
             /\ \A rec \in Record :
                   req' = [req EXCEPT ![r].pc = pc, ![r].rec = rec]
                      => req' \in [Requests -> Request \union {NoRequest}]
  <2>1. [req[r] EXCEPT !.pc = pc] \in Request
    BY <1>1 DEF Request
  <2>2. ASSUME NEW rec \in Record
        PROVE  [req[r] EXCEPT !.pc = pc, !.rec = rec] \in Request
    BY <1>1, Zenon DEF Request
  <2>. QED  BY <1>1, <2>1, <2>2, Zenon DEF Goto
<1>. QED  BY <1>2, <1>3

\* Every step keeps the types.
LEMMA TypeStep ==
    ASSUME TypeInv, [Next]_vars
    PROVE  TypeInv'
<1>. USE RegistryAssumption
<1>0. TypeOK
  BY DEF TypeInv
<1>1. ASSUME NEW r \in Requests, NEW i \in Instances, NEW ns \in Namespaces, register_tee(r, i, ns)
      PROVE  TypeInv'
  <2>1. [pc |-> "checkVerified", inst |-> i, quoted |-> 0, rec |-> new_pending(ns, 0)] \in Request
    BY DEF Request, Record, new_pending
  <2>2. req' \in [Requests -> Request \union {NoRequest}]
    BY <1>0, <1>1, <2>1 DEF register_tee, TypeOK
  <2>3. \A s \in Requests : req'[s].pc = "registered" => req[s].pc = "registered" /\ req'[s] = req[s]
    BY <1>0, <1>1 DEF register_tee, TypeOK
  <2>. QED  BY <1>0, <1>1, <2>2, <2>3 DEF register_tee, TypeInv, TypeOK
<1>2. ASSUME NEW r \in Requests, NEW i \in Instances, NEW ns \in Namespaces, NEW c \in Challenge,
             verify_tee(r, i, ns, c)
      PROVE  TypeInv'
  <2>1. pending[i] \in Record
    BY <1>0, <1>2 DEF verify_tee, TypeOK, NoRecord
  <2>2. [pc |-> "signature", inst |-> i, quoted |-> c, rec |-> pending[i]] \in Request
    BY <2>1 DEF Request, Challenge
  <2>3. req' \in [Requests -> Request \union {NoRequest}]
    BY <1>0, <1>2, <2>2 DEF verify_tee, TypeOK
  <2>4. \A s \in Requests : req'[s].pc = "registered" => req[s].pc = "registered" /\ req'[s] = req[s]
    BY <1>0, <1>2 DEF verify_tee, TypeOK
  <2>. QED  BY <1>0, <1>2, <2>3, <2>4 DEF verify_tee, TypeInv, TypeOK
<1>3. ASSUME NEW r \in Requests, CheckVerified(r) \/ CheckReportData(r)
      PROVE  TypeInv'
  <2>1. Return(r) \/ Goto(r, "checkPending") \/ Goto(r, "remove")
    BY <1>3, SMTT(30) DEF CheckVerified, CheckReportData
  <2>2. req' \in [Requests -> Request \union {NoRequest}]
    BY <1>0, <1>3, <2>1, RequestType, Zenon DEF CheckVerified, CheckReportData, At
  <2>3. \A s \in Requests : req'[s].pc = "registered" => req[s].pc = "registered" /\ req'[s] = req[s]
    BY <1>0, <2>1 DEF Return, Goto, TypeOK, NoRequest, Request
  <2>. QED  BY <1>0, <1>3, <2>2, <2>3 DEF CheckVerified, CheckReportData, TypeInv, TypeOK
<1>4. ASSUME NEW r \in Requests, CheckPending(r)
      PROVE  TypeInv'
  <2>. DEFINE i == req[r].inst
  <2>0. i \in Instances
    BY <1>0, <1>4, BusyFacts DEF CheckPending, At
  <2>1. Return(r) \/ Goto(r, "insert")
    BY <1>4, SMTT(30) DEF CheckPending
  <2>2. req' \in [Requests -> Request \union {NoRequest}]
    BY <1>0, <1>4, <2>1, RequestType, Zenon DEF CheckPending, At
  <2>3. \A s \in Requests : req'[s].pc = "registered" => req[s].pc = "registered" /\ req'[s] = req[s]
    BY <1>0, <2>1 DEF Return, Goto, TypeOK, NoRequest, Request
  <2>4. known' \in [Instances -> SUBSET Challenge]
    BY <1>0, <1>4, <2>0 DEF CheckPending, TypeInv, TypeOK
  <2>. QED  BY <1>0, <1>4, <2>2, <2>3, <2>4 DEF CheckPending, TypeInv, TypeOK
<1>5. ASSUME NEW r \in Requests, InsertPending(r)
      PROVE  TypeInv'
  <2>. DEFINE rec == new_pending(req[r].rec.ns, issued + 1)
  <2>0. req[r].inst \in Instances /\ req[r].rec.ns \in Namespaces
    BY <1>0, <1>5, BusyFacts DEF InsertPending, At
  <2>1. issued' = issued + 1 /\ issued + 1 \in Challenge /\ issued' \in 0..MaxChallenges
    BY <1>0, <1>5 DEF InsertPending, TypeOK, Challenge
  <2>2. rec \in Record /\ rec.challenge = issued + 1
    BY <2>0, <2>1 DEF new_pending, Record, Challenge
  <2>3. pending' = [pending EXCEPT ![req[r].inst] = rec]
        /\ req' = [req EXCEPT ![r].pc = "registered", ![r].rec = rec]
    BY <1>5 DEF InsertPending
  <2>. HIDE DEF rec
  <2>4. req' \in [Requests -> Request \union {NoRequest}]
    BY <1>0, <1>5, <2>2, <2>3, RequestType, Zenon DEF InsertPending, At
  <2>5. pending' \in [Instances -> Record \union {NoRecord}]
    BY <1>0, <2>2, <2>3, Zenon DEF TypeOK
  <2>6. \A j \in Instances : pending'[j].valid => pending'[j].challenge \in Challenge
    BY <1>0, <2>0, <2>1, <2>2, <2>3 DEF TypeInv, TypeOK
  <2>7. \A s \in Requests : req'[s].pc = "registered" => req'[s].rec.challenge \in Challenge
    <3>1. req'[r].rec = rec
      BY <1>0, <2>3, BusyFacts, <1>5 DEF TypeOK, Request, InsertPending, At
    <3>2. \A s \in Requests : s # r => req'[s] = req[s]
      BY <1>0, <2>3 DEF TypeOK
    <3>. QED  BY <2>1, <2>2, <3>1, <3>2 DEF TypeInv
  <2>. QED  BY <1>0, <1>5, <2>1, <2>4, <2>5, <2>6, <2>7, Zenon DEF InsertPending, TypeInv, TypeOK
<1>6. ASSUME NEW r \in Requests, AnnounceRegistered(r) \/ AnnounceVerified(r)
      PROVE  TypeInv'
  <2>0. req[r].inst \in Instances /\ req[r].rec \in Record
    BY <1>0, <1>6, BusyFacts DEF AnnounceRegistered, AnnounceVerified, At
  <2>1. Return(r)
    BY <1>6 DEF AnnounceRegistered, AnnounceVerified
  <2>2. req' \in [Requests -> Request \union {NoRequest}]
    BY <1>0, <1>6, <2>1, RequestType, Zenon DEF AnnounceRegistered, AnnounceVerified, At
  <2>3. \A s \in Requests : req'[s].pc = "registered" => req[s].pc = "registered" /\ req'[s] = req[s]
    BY <1>0, <2>1 DEF Return, TypeOK, NoRequest
  <2>4. known' \in [Instances -> SUBSET Challenge]
    BY <1>0, <1>6, <2>0 DEF AnnounceRegistered, AnnounceVerified, At, TypeInv, TypeOK
  <2>5. channel' \in Seq(Event) /\ Len(channel') <= Capacity /\ lagged' \in BOOLEAN
    BY <1>0, <1>6, <2>0, SendType DEF AnnounceRegistered, AnnounceVerified
  <2>6. UNCHANGED <<pending, verified, issued, trusted, alive, completions>>
    BY <1>6 DEF AnnounceRegistered, AnnounceVerified
  <2>. QED  BY <1>0, <2>2, <2>3, <2>4, <2>5, <2>6 DEF TypeInv, TypeOK
<1>7. ASSUME NEW r \in Requests, RemovePending(r)
      PROVE  TypeInv'
  <2>. DEFINE i == req[r].inst
  <2>0. i \in Instances
    BY <1>0, <1>7, BusyFacts DEF RemovePending, At
  <2>1. req' \in [Requests -> Request \union {NoRequest}]
    <3>1. CASE pending[i] = NoRecord
      BY <1>0, <1>7, <3>1, RequestType, ZenonT(30) DEF RemovePending, At
    <3>2. CASE pending[i] # NoRecord
      <4>1. pending[i] \in Record
        BY <1>0, <2>0, <3>2 DEF TypeOK
      <4>. QED  BY <1>0, <1>7, <3>2, <4>1, RequestType, Zenon DEF RemovePending, At
    <3>. QED  BY <3>1, <3>2, SMTT(30)
  <2>2. pending' \in [Instances -> Record \union {NoRecord}]
    BY <1>0, <1>7, Zenon DEF RemovePending, TypeOK
  <2>3. \A s \in Requests : req'[s].pc = "registered" => req[s].pc = "registered" /\ req'[s] = req[s]
    <3>1. req'[r].pc # "registered"
      BY <1>0, <1>7, BusyFacts DEF RemovePending, At, Return, TypeOK, NoRequest, Request
    <3>2. \A s \in Requests : s # r => req'[s] = req[s]
      BY <1>0, <1>7 DEF RemovePending, Return, TypeOK
    <3>. QED  BY <3>1, <3>2
  <2>4. \A j \in Instances : pending'[j].valid => pending'[j].challenge \in Challenge
    BY <1>0, <1>7, <2>0 DEF RemovePending, TypeInv, TypeOK, NoRecord
  <2>. QED  BY <1>0, <1>7, <2>1, <2>2, <2>3, <2>4 DEF RemovePending, TypeInv, TypeOK
<1>8. ASSUME NEW r \in Requests, InsertVerified(r)
      PROVE  TypeInv'
  <2>0. req[r].inst \in Instances /\ req[r].rec \in Record
    BY <1>0, <1>8, BusyFacts DEF InsertVerified, At
  <2>1. VerifiedRecord(req[r].rec) \in Record
    BY <2>0, VerifiedRecordFacts
  <2>2. verified' \in [Instances -> Record \union {NoRecord}]
    BY <1>0, <1>8, <2>1, Zenon DEF InsertVerified, TypeOK
  <2>3. completions' \in [Challenge -> Nat]
    <3>. DEFINE d == req[r].rec.challenge
    <3>1. completions \in [Challenge -> Nat]
      BY <1>0 DEF TypeOK
    <3>2. completions' = [completions EXCEPT ![d] = @ + 1]
      BY <1>8 DEF InsertVerified
    <3>. HIDE DEF d
    <3>3. CASE d \in Challenge
      <4>1. completions[d] + 1 \in Nat
        BY <3>1, <3>3
      <4>. QED  BY <3>1, <3>2, <4>1, Zenon
    <3>4. CASE d \notin Challenge
      BY <3>1, <3>2, <3>4, Zenon
    <3>. QED  BY <3>3, <3>4
  <2>4. req' \in [Requests -> Request \union {NoRequest}]
    BY <1>0, <1>8, RequestType, Zenon DEF InsertVerified, At
  <2>5. \A s \in Requests : req'[s].pc = "registered" => req[s].pc = "registered" /\ req'[s] = req[s]
    BY <1>0, <1>8, BusyFacts DEF InsertVerified, At, Goto, TypeOK, Request
  <2>. QED  BY <1>0, <1>8, <2>2, <2>3, <2>4, <2>5 DEF InsertVerified, TypeInv, TypeOK
<1>9. ASSUME NEW i \in Instances, Expire(i)
      PROVE  TypeInv'
  <2>1. pending[i] \in Record
    BY <1>0, <1>9 DEF Expire, TypeOK, NoRecord
  <2>2. [pending[i] EXCEPT !.valid = FALSE] \in Record /\ ~[pending[i] EXCEPT !.valid = FALSE].valid
    BY <2>1, Zenon DEF Record
  <2>3. pending' \in [Instances -> Record \union {NoRecord}]
    BY <1>0, <1>9, <2>2 DEF Expire, TypeOK
  <2>4. \A j \in Instances : pending'[j].valid => pending'[j].challenge \in Challenge
    BY <1>0, <1>9, <2>2 DEF Expire, TypeInv, TypeOK
  <2>. QED  BY <1>0, <1>9, <2>3, <2>4 DEF Expire, TypeInv, TypeOK
<1>10. CASE cleanup_expired
  <2>1. pending' \in [Instances -> Record \union {NoRecord}]
    BY <1>0, <1>10 DEF cleanup_expired, TypeOK
  <2>2. \A j \in Instances : pending'[j].valid => pending'[j].challenge \in Challenge
    BY <1>0, <1>10 DEF cleanup_expired, TypeInv, TypeOK, NoRecord
  <2>. QED  BY <1>0, <1>10, <2>1, <2>2 DEF cleanup_expired, TypeInv, TypeOK
<1>11. CASE HandlerReceives
  <2>1. channel \in Seq(Event) /\ channel # <<>> /\ channel' = Tail(channel)
    BY <1>0, <1>11 DEF HandlerReceives, TypeOK
  <2>2. channel' \in Seq(Event) /\ Len(channel') = Len(channel) - 1 /\ Head(channel) \in Event
    BY <2>1
  <2>3. Len(channel') <= Capacity
    BY <1>0, <2>1, <2>2 DEF TypeOK
  <2>4. trusted' \subseteq Instances
    BY <1>0, <1>11, <2>2, Zenon DEF HandlerReceives, handle_event, TypeOK, Event
  <2>5. alive' \in BOOLEAN
    BY <1>0, <1>11, Zenon DEF HandlerReceives, handle_event, TypeOK
  <2>. QED  BY <1>0, <1>11, <2>2, <2>3, <2>4, <2>5 DEF HandlerReceives, TypeInv, TypeOK
<1>12. CASE HandlerLagged
  BY <1>0, <1>12, Zenon DEF HandlerLagged, TypeInv, TypeOK
<1>13. CASE UNCHANGED vars
  BY <1>0, <1>13, SMTT(30) DEF vars, TypeInv, TypeOK
<1>. QED
  BY <1>1, <1>2, <1>3, <1>4, <1>5, <1>6, <1>7, <1>8, <1>9, <1>10, <1>11, <1>12, <1>13
  DEF Next, RequestStep, HandlerStep

-----------------------------------------------------------------------------
\* What a step does to one request and to the records: the facts that the
\* invariants below depend on.

\* A step of request r leaves the others alone.
LEMMA OthersStay ==
    ASSUME TypeInv, NEW r \in Requests, RequestStep(r)
    PROVE  \A s \in Requests : s # r => req'[s] = req[s]
BY DEF TypeInv, TypeOK, RequestStep, CheckVerified, CheckPending, InsertPending, AnnounceRegistered,
       CheckReportData, RemovePending, InsertVerified, AnnounceVerified, Goto, Return

\* Every record stays one of a listed namespace: register_tee looks the
\* measurement up, and all later steps copy.
LEMMA ListedStep ==
    ASSUME TypeInv, ListedInv, [Next]_vars
    PROVE  ListedInv'
<1>0. TypeOK
  BY DEF TypeInv
<1>. USE <1>0 DEF ListedInv, VerifiedIsWhitelisted
<1>1. ASSUME NEW r \in Requests, NEW i \in Instances, NEW ns \in Namespaces, register_tee(r, i, ns)
      PROVE  ListedInv'
  BY <1>1, Zenon DEF register_tee, TypeOK, new_pending
<1>2. ASSUME NEW r \in Requests, NEW i \in Instances, NEW ns \in Namespaces, NEW c \in Challenge,
             verify_tee(r, i, ns, c)
      PROVE  ListedInv'
  BY <1>2 DEF verify_tee, TypeOK, NoRecord
<1>3. ASSUME NEW r \in Requests, RequestStep(r), UNCHANGED <<pending, verified>>,
             req'[r].pc # "idle" => req'[r].inst = req[r].inst /\ req'[r].rec = req[r].rec
                                    /\ req[r].pc # "idle"
      PROVE  ListedInv'
  BY <1>3, OthersStay
<1>4. ASSUME NEW r \in Requests, CheckVerified(r) \/ CheckPending(r) \/ CheckReportData(r)
      PROVE  ListedInv'
  <2>1. req'[r].pc # "idle" => req'[r].inst = req[r].inst /\ req'[r].rec = req[r].rec
                               /\ req[r].pc # "idle"
    BY <1>4, BusyFacts, SMTT(30) DEF CheckVerified, CheckPending, CheckReportData, At, Goto, Return, TypeOK,
       Request, NoRequest
  <2>. QED  BY <1>3, <1>4, <2>1, Zenon DEF RequestStep, CheckVerified, CheckPending, CheckReportData
<1>5. ASSUME NEW r \in Requests, AnnounceRegistered(r) \/ AnnounceVerified(r)
      PROVE  ListedInv'
  <2>1. req'[r].pc = "idle"
    BY <1>5 DEF AnnounceRegistered, AnnounceVerified, Return, TypeOK, NoRequest
  <2>. QED  BY <1>3, <1>5, <2>1 DEF RequestStep, AnnounceRegistered, AnnounceVerified
<1>6. ASSUME NEW r \in Requests, InsertPending(r)
      PROVE  ListedInv'
  <2>. DEFINE rec == new_pending(req[r].rec.ns, issued + 1)
  <2>1. req[r] \in Request /\ req[r].inst \in Instances /\ req[r].pc # "idle"
    BY <1>6, BusyFacts, SMTT(30) DEF InsertPending, At
  <2>2. rec.ns = req[r].rec.ns
    BY DEF new_pending
  <2>3. pending' = [pending EXCEPT ![req[r].inst] = rec]
        /\ req' = [req EXCEPT ![r].pc = "registered", ![r].rec = rec]
        /\ verified' = verified
    BY <1>6 DEF InsertPending
  <2>. HIDE DEF rec
  <2>4. req'[r].inst = req[r].inst /\ req'[r].rec = rec
    BY <2>1, <2>3 DEF TypeOK, Request
  <2>5. \A s \in Requests : s # r => req'[s] = req[s]
    BY <2>3 DEF TypeOK
  <2>6. \A i \in Instances : pending'[i] # NoRecord => <<i, pending'[i].ns>> \in Whitelisted
    BY <2>1, <2>2, <2>3 DEF TypeOK
  <2>7. \A s \in Requests : req'[s].pc # "idle" => <<req'[s].inst, req'[s].rec.ns>> \in Whitelisted
    BY <2>1, <2>2, <2>4, <2>5
  <2>. QED  BY <2>3, <2>6, <2>7, Zenon
<1>7. ASSUME NEW r \in Requests, RemovePending(r)
      PROVE  ListedInv'
  <2>1. req[r] \in Request /\ req[r].inst \in Instances /\ req[r].pc # "idle"
    BY <1>7, BusyFacts DEF RemovePending, At
  <2>2. req'[r].pc # "idle" => <<req'[r].inst, req'[r].rec.ns>> \in Whitelisted
    BY <1>7, <2>1 DEF RemovePending, Return, TypeOK, Request, NoRequest
  <2>3. \A i \in Instances : pending'[i] # NoRecord => <<i, pending'[i].ns>> \in Whitelisted
    BY <1>7, <2>1 DEF RemovePending, TypeOK
  <2>. QED  BY <1>7, <2>2, <2>3, OthersStay, Zenon DEF RequestStep, RemovePending
<1>8. ASSUME NEW r \in Requests, InsertVerified(r)
      PROVE  ListedInv'
  <2>1. req[r] \in Request /\ req[r].inst \in Instances /\ req[r].rec \in Record /\ req[r].pc # "idle"
    BY <1>8, BusyFacts DEF InsertVerified, At
  <2>2. req'[r].inst = req[r].inst /\ req'[r].rec = req[r].rec
    BY <1>8, <2>1 DEF InsertVerified, Goto, TypeOK, Request
  <2>3. \A i \in Instances : verified'[i] # NoRecord => <<i, verified'[i].ns>> \in Whitelisted
    BY <1>8, <2>1, VerifiedRecordFacts DEF InsertVerified, TypeOK
  <2>. QED  BY <1>8, <2>1, <2>2, <2>3, OthersStay, Zenon DEF RequestStep, InsertVerified
<1>9. ASSUME NEW i \in Instances, Expire(i)
      PROVE  ListedInv'
  <2>1. pending[i] \in Record /\ pending[i] # NoRecord
    BY <1>9 DEF Expire, TypeOK, NoRecord
  <2>2. pending'[i].ns = pending[i].ns /\ \A j \in Instances : j # i => pending'[j] = pending[j]
    BY <1>9, <2>1 DEF Expire, TypeOK, Record
  <2>. QED  BY <1>9, <2>1, <2>2 DEF Expire
<1>10. CASE cleanup_expired
  BY <1>10 DEF cleanup_expired, TypeOK
<1>11. CASE HandlerStep
  BY <1>11 DEF HandlerStep, HandlerReceives, HandlerLagged
<1>12. CASE UNCHANGED vars
  BY <1>12 DEF vars
<1>. QED
  BY <1>1, <1>2, <1>4, <1>5, <1>6, <1>7, <1>8, <1>9, <1>10, <1>11, <1>12, Zenon DEF Next, RequestStep

-----------------------------------------------------------------------------
\* A step that draws, moves and completes no challenge: at most, pending records
\* disappear and requests give up.
Calm ==
    /\ \A i \in Instances : pending'[i].challenge \in {pending[i].challenge, 0}
    /\ \A r \in Requests : req'[r].pc = "verify" => req'[r] = req[r]
    /\ issued' = issued /\ completions' = completions

\* Only three steps are not calm.
LEMMA CalmSteps ==
    ASSUME TypeInv, [Next]_vars
    PROVE  Calm \/ \E r \in Requests : InsertPending(r) \/ RemovePending(r) \/ InsertVerified(r)
<1>0. TypeOK
  BY DEF TypeInv
<1>. USE <1>0
<1>1. ASSUME NEW r \in Requests, NEW i \in Instances, NEW ns \in Namespaces, register_tee(r, i, ns)
      PROVE  Calm
  BY <1>1 DEF register_tee, TypeOK, Calm
<1>2. ASSUME NEW r \in Requests, NEW i \in Instances, NEW ns \in Namespaces, NEW c \in Challenge,
             verify_tee(r, i, ns, c)
      PROVE  Calm
  BY <1>2, SMTT(30) DEF verify_tee, TypeOK, Calm
<1>3. ASSUME NEW r \in Requests, CheckVerified(r) \/ CheckPending(r) \/ CheckReportData(r)
      PROVE  Calm
  <2>1. req'[r].pc # "verify"
    BY <1>3, BusyFacts, SMTT(30) DEF CheckVerified, CheckPending, CheckReportData, At, Goto, Return, TypeOK,
       Request, NoRequest
  <2>. QED  BY <1>3, <2>1, OthersStay
            DEF RequestStep, CheckVerified, CheckPending, CheckReportData, Calm
<1>4. ASSUME NEW r \in Requests, AnnounceRegistered(r) \/ AnnounceVerified(r)
      PROVE  Calm
  <2>1. req'[r].pc = "idle"
    BY <1>4 DEF AnnounceRegistered, AnnounceVerified, Return, TypeOK, NoRequest
  <2>. QED  BY <1>4, <2>1, OthersStay, Zenon DEF RequestStep, AnnounceRegistered, AnnounceVerified, Calm
<1>5. ASSUME NEW i \in Instances, Expire(i)
      PROVE  Calm
  <2>1. pending[i] \in Record
    BY <1>5 DEF Expire, TypeOK, NoRecord
  <2>2. \A j \in Instances : pending'[j].challenge = pending[j].challenge
    BY <1>5, <2>1 DEF Expire, TypeOK, Record
  <2>. QED  BY <1>5, <2>2 DEF Expire, Calm
<1>6. CASE cleanup_expired
  BY <1>6 DEF cleanup_expired, TypeOK, NoRecord, Calm
<1>7. CASE HandlerStep
  BY <1>7 DEF HandlerStep, HandlerReceives, HandlerLagged, Calm
<1>8. CASE UNCHANGED vars
  BY <1>8 DEF vars, Calm
<1>. QED  BY <1>1, <1>2, <1>3, <1>4, <1>5, <1>6, <1>7, <1>8 DEF Next, RequestStep

\* A challenge stays in one place: a new one is drawn where none was, and whoever
\* removes a pending record under its lock is the only one to complete it.
LEMMA ChallengeStep ==
    ASSUME TypeInv, DrawnInv, OnePlaceInv, [Next]_vars
    PROVE  DrawnInv' /\ OnePlaceInv'
<1>0. /\ TypeOK
      /\ issued \in Nat /\ MaxChallenges \in Nat
      /\ \A i \in Instances : pending[i].challenge \in 0..MaxChallenges
      /\ completions \in [Challenge -> Nat]
  BY RegistryAssumption DEF TypeInv, TypeOK, Record, NoRecord
<1>1. CASE Calm
  <2>1. \A r \in Requests : \A c \in Challenge : Holds(r, c)' => Holds(r, c)
    BY <1>1 DEF Calm, Holds
  <2>2. \A i \in Instances : \A c \in Challenge :
           pending'[i].challenge = c => pending[i].challenge = c
    BY <1>1 DEF Calm, Challenge
  <2>3. DrawnInv'
    BY <1>0, <1>1 DEF Calm, DrawnInv
  <2>4. OnePlaceInv'
    BY <1>1, <2>1, <2>2 DEF Calm, OnePlaceInv, ChallengeUsedOnce
  <2>. QED  BY <2>3, <2>4
<1>2. ASSUME NEW r \in Requests, InsertPending(r)
      PROVE  DrawnInv' /\ OnePlaceInv'
  <2>. DEFINE i == req[r].inst
              new == issued + 1
  <2>1. i \in Instances /\ req[r] \in Request
    BY <1>0, <1>2, BusyFacts DEF InsertPending, At
  <2>2. /\ issued' = new /\ new \in Challenge /\ completions' = completions
    BY <1>0, <1>2 DEF InsertPending, Challenge
  <2>3. pending'[i].challenge = new /\ \A j \in Instances : j # i => pending'[j] = pending[j]
    BY <1>0, <1>2, <2>1, SMTT(30) DEF InsertPending, TypeOK, new_pending
  <2>4. req'[r].pc # "verify" /\ \A s \in Requests : s # r => req'[s] = req[s]
    BY <1>0, <1>2, <2>1, OthersStay, Zenon DEF RequestStep, InsertPending, TypeOK, Request
  <2>5. \A s \in Requests : \A c \in Challenge : Holds(s, c)' => Holds(s, c)
    BY <2>4 DEF Holds
  <2>6. /\ completions[new] = 0
        /\ \A j \in Instances : pending[j].challenge # new
        /\ \A s \in Requests : ~Holds(s, new)
    BY <1>0, <2>2 DEF DrawnInv, Holds
  <2>. HIDE DEF i, new
  <2>7. DrawnInv'
    <3>1. \A j \in Instances : pending'[j].challenge <= issued'
      BY <1>0, <2>1, <2>2, <2>3 DEF DrawnInv, new
    <3>2. \A s \in Requests : req'[s].pc = "verify" => req'[s].rec.challenge <= issued'
      <4>1. ASSUME NEW s \in Requests, req[s].pc = "verify"
            PROVE  req[s].rec.challenge <= issued /\ req[s].rec.challenge \in Nat
        BY <1>0, <4>1, BusyFacts DEF DrawnInv
      <4>. QED  BY <1>0, <2>2, <2>4, <4>1 DEF new
    <3>3. \A c \in Challenge : c > issued' => completions'[c] = 0
      BY <1>0, <2>2 DEF DrawnInv, new, Challenge
    <3>. QED  BY <3>1, <3>2, <3>3 DEF DrawnInv
  <2>8. OnePlaceInv'
    <3>1. \A j \in Instances : \A c \in Challenge : pending'[j].challenge = c =>
             \/ j = i /\ c = new
             \/ j # i /\ c # new /\ pending[j].challenge = c
      BY <2>3, <2>6
    <3>. QED  BY <2>2, <2>5, <2>6, <3>1 DEF OnePlaceInv, ChallengeUsedOnce
  <2>. QED  BY <2>7, <2>8
<1>3. ASSUME NEW r \in Requests, RemovePending(r)
      PROVE  DrawnInv' /\ OnePlaceInv'
  <2>. DEFINE i == req[r].inst
  <2>1. i \in Instances /\ req[r] \in Request
    BY <1>0, <1>3, BusyFacts DEF RemovePending, At
  <2>2. pending'[i].challenge = 0 /\ \A j \in Instances : j # i => pending'[j] = pending[j]
    BY <1>0, <1>3, <2>1 DEF RemovePending, TypeOK, NoRecord
  <2>3. \A s \in Requests : s # r => req'[s] = req[s]
    BY <1>3, OthersStay DEF RequestStep
  <2>4. req'[r].pc = "verify" => req'[r].rec = pending[i]
    BY <1>0, <1>3, <2>1 DEF RemovePending, Return, TypeOK, Request, NoRequest
  <2>5. req[r].pc # "verify" /\ issued' = issued /\ completions' = completions
    BY <1>3 DEF RemovePending, At
  <2>. HIDE DEF i
  <2>6. DrawnInv'
    BY <1>0, <2>1, <2>2, <2>3, <2>4, <2>5 DEF DrawnInv
  <2>7. \A s \in Requests : \A c \in Challenge : Holds(s, c)' =>
           \/ s = r /\ pending[i].challenge = c
           \/ s # r /\ Holds(s, c)
    BY <2>3, <2>4 DEF Holds
  <2>8. \A j \in Instances : \A c \in Challenge :
           pending'[j].challenge = c => j # i /\ pending[j].challenge = c
    BY <2>2 DEF Challenge
  <2>9. OnePlaceInv'
    BY <2>1, <2>5, <2>7, <2>8, SMTT(30) DEF OnePlaceInv, ChallengeUsedOnce
  <2>. QED  BY <2>6, <2>9
<1>4. ASSUME NEW r \in Requests, InsertVerified(r)
      PROVE  DrawnInv' /\ OnePlaceInv'
  <2>. DEFINE d == req[r].rec.challenge
  <2>1. req[r] \in Request /\ req[r].pc = "verify" /\ d \in Nat
    BY <1>0, <1>4, BusyFacts DEF InsertVerified, At
  <2>2. req'[r].pc # "verify" /\ \A s \in Requests : s # r => req'[s] = req[s]
    BY <1>0, <1>4, <2>1, OthersStay DEF RequestStep, InsertVerified, Goto, TypeOK, Request
  <2>3. pending' = pending /\ issued' = issued /\ completions' = [completions EXCEPT ![d] = @ + 1]
    BY <1>4 DEF InsertVerified
  <2>4. d <= issued /\ \A c \in Challenge : c = d => Holds(r, c)
    BY <2>1 DEF DrawnInv, Holds
  <2>. HIDE DEF d
  <2>5. \A c \in Challenge : completions'[c] = IF c = d THEN completions[c] + 1 ELSE completions[c]
    BY <1>0, <2>3
  <2>6. \A s \in Requests : \A c \in Challenge : Holds(s, c)' => s # r /\ Holds(s, c)
    BY <2>2 DEF Holds
  <2>7. DrawnInv'
    <3>1. \A c \in Challenge : c > issued' => completions'[c] = 0
      BY <1>0, <2>1, <2>3, <2>4, <2>5 DEF DrawnInv, Challenge
    <3>. QED  BY <2>2, <2>3, <3>1 DEF DrawnInv
  <2>8. \A c \in Challenge : c = d =>
           /\ completions[c] = 0
           /\ \A s \in Requests : Holds(s, c) => s = r
           /\ \A j \in Instances : pending[j].challenge # c
    BY <2>4 DEF OnePlaceInv
  <2>9. \A c \in Challenge : completions'[c] <= 1
    BY <1>0, <2>5, <2>8 DEF OnePlaceInv, ChallengeUsedOnce
  <2>10. OnePlaceInv'
    BY <2>3, <2>5, <2>6, <2>8, <2>9 DEF OnePlaceInv, ChallengeUsedOnce
  <2>. QED  BY <2>7, <2>10
<1>. QED  BY <1>1, <1>2, <1>3, <1>4, CalmSteps

-----------------------------------------------------------------------------
\* Events: what is sent is announced after the record was written.

\* Events on the channel are about instances.
LEMMA ChannelFacts ==
    ASSUME TypeOK, NEW k \in 1..Len(channel)
    PROVE  channel[k].inst \in Instances
<1>1. channel \in Seq(Event)
  BY DEF TypeOK
<1>2. channel[k] \in Event
  BY <1>1, ElementOfSeq
<1>. QED  BY <1>2 DEF Event

\* An event that may be sent joins events that may be seen.
LEMMA SendFollows ==
    ASSUME TypeOK, NEW kind \in {"Registered", "Verified"}, NEW i \in Instances,
           NEW rec \in Record, Send(kind, i, rec),
           kind = "Verified" => verified[i] # NoRecord,
           EventsFollowRecords, verified' = verified
    PROVE  EventsFollowRecords'
<1>. DEFINE e == [kind |-> kind, inst |-> i, ns |-> rec.ns, ip |-> rec.ip]
<1>1. channel \in Seq(Event) /\ e.kind = kind /\ e.inst = i
  BY DEF TypeOK
<1>2. e \in Event
  BY DEF Event, Record
<1>3. CASE Len(channel) < Capacity
  <2>1. channel' = Append(channel, e)
    BY <1>3 DEF Send
  <2>. HIDE DEF e
  <2>2. /\ Len(channel) \in Nat /\ Len(channel') = Len(channel) + 1
        /\ \A k \in 1..Len(channel) : channel'[k] = channel[k]
        /\ channel'[Len(channel) + 1] = e
    BY <1>1, <1>2, <2>1, AppendProperties
  <2>3. \A k \in 1..Len(channel') : k = Len(channel) + 1 \/ k \in 1..Len(channel)
    BY <2>2
  <2>. QED  BY <1>1, <2>2, <2>3 DEF EventsFollowRecords
<1>4. CASE ~(Len(channel) < Capacity)
  <2>1. channel' = Append(Tail(channel), e) /\ channel # <<>>
    BY <1>1, <1>4, RegistryAssumption DEF Send
  <2>. HIDE DEF e
  <2>. DEFINE t == Tail(channel)
  <2>2. /\ t \in Seq(Event) /\ Len(channel) \in Nat /\ Len(t) \in Nat /\ Len(t) = Len(channel) - 1
        /\ \A k \in 1..Len(t) : t[k] = channel[k + 1]
        /\ channel' = Append(t, e)
    BY <1>1, <2>1, HeadTailProperties
  <2>. HIDE DEF t
  <2>3. /\ Len(channel') = Len(t) + 1
        /\ \A k \in 1..Len(t) : channel'[k] = t[k]
        /\ channel'[Len(t) + 1] = e
    BY <1>2, <2>2, AppendProperties
  <2>4. \A k \in 1..Len(channel') :
           k = Len(t) + 1 \/ (k \in 1..Len(t) /\ k + 1 \in 1..Len(channel))
    BY <2>2, <2>3
  <2>. QED  BY <1>1, <2>2, <2>3, <2>4 DEF EventsFollowRecords
<1>. QED  BY <1>3, <1>4

\* A verified record is never taken back.
LEMMA VerifiedStays ==
    ASSUME TypeInv, [Next]_vars
    PROVE  \A i \in Instances : verified[i] # NoRecord => verified'[i] # NoRecord
<1>1. ASSUME NEW r \in Requests, InsertVerified(r)
      PROVE  \A i \in Instances : verified[i] # NoRecord => verified'[i] # NoRecord
  <2>1. req[r].inst \in Instances /\ req[r].rec \in Record
    BY <1>1, BusyFacts, SMTT(30) DEF InsertVerified, At, TypeInv
  <2>. QED  BY <1>1, <2>1, VerifiedRecordFacts DEF InsertVerified, TypeInv, TypeOK
<1>2. (\E r \in Requests : InsertVerified(r)) \/ verified' = verified
  BY Zenon DEF Next, RequestStep, register_tee, verify_tee, CheckVerified, CheckPending, InsertPending,
         AnnounceRegistered, CheckReportData, RemovePending, AnnounceVerified, Expire,
         cleanup_expired, HandlerStep, HandlerReceives, HandlerLagged, vars
<1>. QED  BY <1>1, <1>2

\* Every step keeps the order of record and event.
LEMMA EventStep ==
    ASSUME TypeInv, EventInv, [Next]_vars
    PROVE  EventInv'
<1>0. TypeOK
  BY DEF TypeInv
<1>. USE <1>0
<1>1. ASSUME channel' = channel,
             \A r \in Requests : req'[r].pc = "verified" =>
                 req[r].pc = "verified" /\ req'[r] = req[r]
      PROVE  EventInv'
  <2>1. \A r \in Requests : req[r].pc = "verified" => req[r].inst \in Instances
    BY BusyFacts
  <2>2. \A k \in 1..Len(channel) : channel[k].inst \in Instances
    BY ChannelFacts
  <2>. QED  BY <1>1, <2>1, <2>2, VerifiedStays DEF EventInv, EventsFollowRecords
<1>2. ASSUME NEW r \in Requests, NEW i \in Instances, NEW ns \in Namespaces, register_tee(r, i, ns)
      PROVE  EventInv'
  BY <1>1, <1>2 DEF register_tee, TypeOK
<1>3. ASSUME NEW r \in Requests, NEW i \in Instances, NEW ns \in Namespaces, NEW c \in Challenge,
             verify_tee(r, i, ns, c)
      PROVE  EventInv'
  BY <1>1, <1>3 DEF verify_tee, TypeOK
<1>4. ASSUME NEW r \in Requests,
             CheckVerified(r) \/ CheckPending(r) \/ CheckReportData(r) \/ InsertPending(r) \/ RemovePending(r)
      PROVE  EventInv'
  <2>1. req'[r].pc # "verified"
    BY <1>4, BusyFacts DEF CheckVerified, CheckPending, CheckReportData, InsertPending,
       RemovePending, At, Goto, Return, TypeOK, Request, NoRequest
  <2>2. \A s \in Requests : s # r => req'[s] = req[s]
    BY <1>4, OthersStay DEF RequestStep
  <2>3. channel' = channel
    BY <1>4 DEF CheckVerified, CheckPending, CheckReportData, InsertPending, RemovePending
  <2>. QED  BY <1>1, <2>1, <2>2, <2>3
<1>5. ASSUME NEW r \in Requests, AnnounceRegistered(r) \/ AnnounceVerified(r)
      PROVE  EventInv'
  <2>1. req[r].inst \in Instances /\ req[r].rec \in Record
    BY <1>5, BusyFacts DEF AnnounceRegistered, AnnounceVerified, At
  <2>2. verified' = verified
    BY <1>5 DEF AnnounceRegistered, AnnounceVerified
  <2>3. EventsFollowRecords'
    BY <1>5, <2>1, <2>2, SendFollows DEF AnnounceRegistered, AnnounceVerified, At, EventInv
  <2>4. req'[r].pc = "idle"
    BY <1>5, SMTT(30) DEF AnnounceRegistered, AnnounceVerified, Return, TypeOK, NoRequest
  <2>. QED  BY <1>5, <2>2, <2>3, <2>4, OthersStay DEF RequestStep, EventInv
<1>6. ASSUME NEW r \in Requests, InsertVerified(r)
      PROVE  EventInv'
  <2>1. req[r] \in Request /\ req[r].inst \in Instances /\ req[r].rec \in Record
    BY <1>6, BusyFacts DEF InsertVerified, At
  <2>2. req'[r].inst = req[r].inst /\ verified'[req[r].inst] # NoRecord
    BY <1>6, <2>1, VerifiedRecordFacts DEF InsertVerified, Goto, TypeOK, Request
  <2>3. \A s \in Requests : req'[s].pc = "verified" => verified'[req'[s].inst] # NoRecord
    BY <1>6, <2>2, OthersStay, VerifiedStays, BusyFacts DEF RequestStep, EventInv
  <2>4. \A k \in 1..Len(channel) : channel[k].inst \in Instances
    BY ChannelFacts
  <2>. QED  BY <1>6, <2>3, <2>4, VerifiedStays, Zenon DEF InsertVerified, EventInv, EventsFollowRecords
<1>7. CASE (\E i \in Instances : Expire(i)) \/ cleanup_expired \/ HandlerLagged
  BY <1>1, <1>7 DEF Expire, cleanup_expired, HandlerLagged
<1>8. CASE HandlerReceives
  <2>1. channel \in Seq(Event) /\ channel # <<>> /\ channel' = Tail(channel)
    BY <1>8 DEF HandlerReceives, TypeOK
  <2>2. \A k \in 1..Len(channel') : k + 1 \in 1..Len(channel) /\ channel'[k] = channel[k + 1]
    BY <2>1
  <2>. QED  BY <1>8, <2>2 DEF HandlerReceives, EventInv, EventsFollowRecords
<1>9. CASE UNCHANGED vars
  BY <1>1, <1>9 DEF vars
<1>. QED
  BY <1>2, <1>3, <1>4, <1>5, <1>6, <1>7, <1>8, <1>9 DEF Next, RequestStep, HandlerStep

-----------------------------------------------------------------------------
\* The invariants hold at the start.
LEMMA RegistryInitially ==
    ASSUME Init
    PROVE  TypeInv /\ RegistryInv
<1>. USE RegistryAssumption
<1>1. TypeOK
  <2>1. channel \in Seq(Event) /\ Len(channel) <= Capacity
    BY EmptySeq DEF Init
  <2>2. /\ pending \in [Instances -> Record \union {NoRecord}]
        /\ verified \in [Instances -> Record \union {NoRecord}]
        /\ req \in [Requests -> Request \union {NoRequest}]
        /\ known \in [Instances -> SUBSET Challenge]
    BY DEF Init
  <2>3. issued \in 0..MaxChallenges /\ completions \in [Challenge -> Nat]
    BY DEF Init
  <2>. QED  BY <2>1, <2>2, <2>3, Zenon DEF Init, TypeOK
<1>2. TypeInv
  BY <1>1 DEF Init, TypeInv, NoRecord, NoRequest
<1>3. ListedInv /\ EventInv
  BY DEF Init, ListedInv, VerifiedIsWhitelisted, EventInv, EventsFollowRecords, NoRequest
<1>4. DrawnInv
  BY DEF Init, DrawnInv, NoRecord, NoRequest
<1>5. OnePlaceInv
  BY DEF Init, OnePlaceInv, ChallengeUsedOnce, Holds, NoRecord, NoRequest, Challenge
<1>. QED  BY <1>2, <1>3, <1>4, <1>5 DEF RegistryInv

\* The inductive invariant holds in every reachable state.
LEMMA RegistryInvariant == Spec => [](TypeInv /\ RegistryInv)
<1>1. Init => TypeInv /\ RegistryInv
  BY RegistryInitially
<1>2. TypeInv /\ RegistryInv /\ [Next]_vars => (TypeInv /\ RegistryInv)'
  BY TypeStep, ListedStep, ChallengeStep, EventStep DEF RegistryInv
<1>. QED  BY <1>1, <1>2, PTL DEF Spec

\* Every reachable state of the registry is well typed; in particular the event
\* channel never holds more than its capacity.
THEOREM RegistryTypeCorrect == Spec => []TypeOK
<1>1. TypeInv => TypeOK
  BY DEF TypeInv
<1>. QED  BY <1>1, RegistryInvariant, PTL

\* However many requests cross in the locks of register and verify_tee, an
\* instance is verified only in a namespace that lists its measurement.
THEOREM OnlyListedAreVerified == Spec => []VerifiedIsWhitelisted
<1>1. RegistryInv => VerifiedIsWhitelisted
  BY DEF RegistryInv, ListedInv
<1>. QED  BY <1>1, RegistryInvariant, PTL

\* A challenge completes at most one verification, however often phase 2 is
\* repeated while an earlier request is in progress.
THEOREM NoChallengeTwice == Spec => []ChallengeUsedOnce
<1>1. RegistryInv => ChallengeUsedOnce
  BY DEF RegistryInv, OnePlaceInv
<1>. QED  BY <1>1, RegistryInvariant, PTL

\* Whoever sees a Verified event of complete_verification finds the instance
\* verified, for every capacity of the channel and every lag of its receiver.
THEOREM RecordsComeFirst == Spec => []EventsFollowRecords
<1>1. RegistryInv => EventsFollowRecords
  BY DEF RegistryInv, EventInv
<1>. QED  BY <1>1, RegistryInvariant, PTL

-----------------------------------------------------------------------------
(***************************************************************************)
(* MeasurementClient.                                                      *)
(***************************************************************************)

\* The types, without the time slept.
CallTypes ==
    /\ call \in Operation \union {"none"}
    /\ attempt \in 0..max_retries
    /\ last_error \in Error \union {"none"}
    /\ answers \in Seq(Outcome)
    /\ result \in Result \union {"none"}

\* A call in progress has had only transient answers, one per attempt.  A call
\* that returned had one more, which decided its result.
CallInv ==
    /\ \A i \in 1..attempt : answers[i] \in Transient
    /\ result = "none" => Len(answers) = attempt
    /\ result # "none" =>
          /\ Len(answers) = attempt + 1
          /\ LastAnswer \in Transient => attempt = max_retries
          /\ result = "true" => LastAnswer \in {"2xx", "2xxBadBody"}
          /\ result \in {"false", "empty"} => LastAnswer = "404"
          /\ LastAnswer \in SendError => result = classify_error(LastAnswer)

\* What one more answer does to the sequence of answers.
LEMMA Answered ==
    ASSUME CallTypes, NEW a \in Outcome, answers' = Append(answers, a)
    PROVE  /\ answers' \in Seq(Outcome) /\ Len(answers') = Len(answers) + 1 /\ Len(answers) \in Nat
           /\ \A i \in 1..Len(answers) : answers'[i] = answers[i]
           /\ LastAnswer' = a
  BY DEF CallTypes, LastAnswer

\* The loop goes on after a transient answer.
LEMMA AnotherAttempt ==
    ASSUME CallTypes, CallInv, Calling, NEW a \in Transient, attempt < max_retries,
           answers' = Append(answers, a), last_error' \in Error, NextAttempt,
           UNCHANGED <<call, result>>
    PROVE  CallTypes' /\ CallInv'
<1>1. a \in Outcome
  BY DEF Transient, Outcome, Response, SendError
<1>2. /\ answers' \in Seq(Outcome) /\ Len(answers') = Len(answers) + 1 /\ Len(answers) \in Nat
      /\ \A i \in 1..Len(answers) : answers'[i] = answers[i]
      /\ LastAnswer' = a
  BY <1>1, Answered
<1>3. answers'[Len(answers) + 1] = a
  BY <1>2 DEF LastAnswer
<1>4. attempt' = attempt + 1 /\ attempt \in Nat /\ Len(answers) = attempt /\ result = "none"
  BY DEF NextAttempt, Calling, CallInv, CallTypes
<1>5. \A i \in 1..attempt' : answers'[i] \in Transient
  BY <1>2, <1>3, <1>4 DEF CallInv
<1>6. CallTypes'
  BY <1>2, <1>4, ClientAssumption DEF CallTypes
<1>7. CallInv'
  BY <1>2, <1>4, <1>5 DEF CallInv
<1>. QED  BY <1>6, <1>7

\* The call returns on its last answer.
LEMMA CallReturns ==
    ASSUME CallTypes, CallInv, Calling, NEW a \in Outcome,
           answers' = Append(answers, a), last_error' \in Error \union {"none"},
           result' \in Result, UNCHANGED <<call, attempt>>,
           a \in Transient => attempt = max_retries,
           result' = "true" => a \in {"2xx", "2xxBadBody"},
           result' \in {"false", "empty"} => a = "404",
           a \in SendError => result' = classify_error(a)
    PROVE  CallTypes' /\ CallInv'
<1>1. /\ answers' \in Seq(Outcome) /\ Len(answers') = Len(answers) + 1 /\ Len(answers) \in Nat
      /\ \A i \in 1..Len(answers) : answers'[i] = answers[i]
      /\ LastAnswer' = a
  BY Answered
<1>2. attempt \in Nat /\ Len(answers) = attempt /\ result' # "none"
  BY ClientAssumption DEF Calling, CallInv, CallTypes, Result, Error
<1>3. CallTypes'
  BY <1>1 DEF CallTypes
<1>4. CallInv'
  BY <1>1, <1>2 DEF CallInv
<1>. QED  BY <1>3, <1>4

\* Every step of the client keeps the invariant.
LEMMA CallStep ==
    ASSUME CallTypes, CallInv, [ClientNext]_clientVars
    PROVE  CallTypes' /\ CallInv'
<1>1. ASSUME NEW op \in Operation, StartCall(op)  PROVE CallTypes' /\ CallInv'
  BY <1>1 DEF StartCall, CallTypes, CallInv, LastAnswer
<1>2. CASE Calling /\ RetryServerError
  <2>1. "5xx" \in Transient /\ "RegistryError" \in Error
    BY DEF Transient, Error
  <2>. QED  BY <1>2, <2>1, AnotherAttempt DEF RetryServerError
<1>3. ASSUME Calling, NEW r \in Response, ReturnResponse(r)  PROVE CallTypes' /\ CallInv'
  <2>1. r \in Outcome /\ r \notin SendError /\ (r \in Transient => r = "5xx")
    BY DEF Outcome, Response, SendError, Transient
  <2>2. /\ result' \in Result
        /\ result' = "true" => r \in {"2xx", "2xxBadBody"}
        /\ result' \in {"false", "empty"} => r = "404"
    BY <1>3 DEF ReturnResponse, Interpret, Result, Error
  <2>. QED  BY <1>3, <2>1, <2>2, CallReturns DEF ReturnResponse, CallTypes
<1>4. ASSUME Calling, NEW e \in SendError, SendFails(e)  PROVE CallTypes' /\ CallInv'
  <2>1. /\ e \in Outcome /\ (e # "other" => e \in Transient) /\ (e = "other" => e \notin Transient)
        /\ e \notin {"2xx", "2xxBadBody", "404"}
    BY DEF Outcome, SendError, Transient
  <2>2. /\ classify_error(e) \in Error /\ classify_error(e) \in Result
        /\ classify_error(e) \notin {"true", "false", "empty", "none"}
    BY DEF classify_error, Error, Result
  <2>3. answers' = Append(answers, e) /\ last_error' = classify_error(e)
    BY <1>4 DEF SendFails
  <2>4. CASE e # "other" /\ attempt < max_retries /\ NextAttempt /\ UNCHANGED <<call, result>>
    BY <1>4, <2>1, <2>2, <2>3, <2>4, AnotherAttempt
  <2>5. CASE /\ e = "other" \/ attempt = max_retries
             /\ result' = ErrorOf(last_error')
             /\ UNCHANGED <<call, attempt, slept>>
    <3>1. result' = classify_error(e)
      BY <2>2, <2>3, <2>5 DEF ErrorOf
    <3>. QED  BY <1>4, <2>1, <2>2, <2>3, <2>5, <3>1, CallReturns, SMTT(30)
  <2>. QED  BY <1>4, <2>4, <2>5 DEF SendFails
<1>5. CASE CallDone
  BY <1>5, ClientAssumption DEF CallDone, CallTypes, CallInv, LastAnswer
<1>6. CASE UNCHANGED clientVars
  BY <1>6 DEF clientVars, CallTypes, CallInv, LastAnswer
<1>. QED  BY <1>1, <1>2, <1>3, <1>4, <1>5, <1>6 DEF ClientNext, request_with_retry

\* The invariant holds in every reachable state.
LEMMA CallInvariant == ClientSpec => [](CallTypes /\ CallInv)
<1>1. ClientInit => CallTypes /\ CallInv
  BY ClientAssumption DEF ClientInit, CallTypes, CallInv
<1>2. CallTypes /\ CallInv /\ [ClientNext]_clientVars => (CallTypes /\ CallInv)'
  BY CallStep
<1>. QED  BY <1>1, <1>2, PTL DEF ClientSpec

\* Whatever the registry and the network answer, request_with_retry repeats a
\* request after a server error, a connection fault or a timeout only, and
\* reports such a fault only after max_retries + 1 attempts.
THEOREM OnlyTransientFaultsAreRetried == ClientSpec => []RetriesOnlyTransient
<1>1. CallTypes /\ CallInv => RetriesOnlyTransient
  BY ClientAssumption DEF CallTypes, CallInv, RetriesOnlyTransient
<1>. QED  BY CallInvariant, <1>1, PTL

\* verify_measurement, get_measurements and get_nodes return what the last
\* attempt says, and the expect behind the retry loop never panics, for every
\* number of retries, none included.
THEOREM LastAnswerDecides == ClientSpec => []ResultIsTheLastAnswer
<1>1. CallTypes /\ CallInv => ResultIsTheLastAnswer
  BY DEF CallTypes, CallInv, ResultIsTheLastAnswer, Result, Error
<1>. QED  BY CallInvariant, <1>1, PTL

-----------------------------------------------------------------------------
\* The backoff.

\* A non-empty set of numbers has a least one.
LEMMA Least ==
    ASSUME NEW S \in SUBSET Nat, S # {}
    PROVE  \E x \in S : \A y \in S : x <= y
<1>. DEFINE R == OpToRel(<, Nat)
<1>1. PICK x \in S : \A y \in S : ~(<<y, x>> \in R)
  <2>1. IsWellFoundedOn(R, Nat)
    BY NatLessThanWellFounded, Zenon
  <2>. HIDE DEF R
  <2>. QED  BY <2>1, WFMin, Zenon
<1>2. ASSUME NEW y \in S PROVE x <= y
  <2>1. ~(y < x)
    BY <1>1, Zenon DEF OpToRel
  <2>. QED  BY <2>1
<1>. QED  BY <1>2

\* The power with exponent n when f has the smaller ones.
Doubled(f, n) ==
    IF n = 0 THEN 1
    ELSE IF 2 * f[n - 1] > U32MAX THEN U32MAX ELSE 2 * f[n - 1]

\* There is a function of the powers up to every exponent.
LEMMA PowersExist ==
    ASSUME NEW n \in Nat
    PROVE  \E f : f = [i \in 0..n |-> Doubled(f, i)]
<1>. DEFINE Is(f, k) == f = [i \in 0..k |-> Doubled(f, i)]
            S == {k \in Nat : ~\E f : Is(f, k)}
<1>1. SUFFICES ASSUME S # {} PROVE FALSE
  OBVIOUS
<1>2. PICK k \in S : \A y \in S : k <= y
  BY <1>1, Least, Zenon
<1>3. CASE k = 0
  <2>. DEFINE f == [i \in 0..0 |-> 1]
  <2>1. Is(f, 0)
    BY DEF Doubled
  <2>. QED  BY <1>2, <1>3, <2>1
<1>4. CASE k # 0
  <2>1. k - 1 \in Nat /\ k - 1 \notin S
    BY <1>2, <1>4
  <2>2. PICK g : Is(g, k - 1)
    BY <2>1
  <2>. DEFINE f == [i \in 0..k |-> IF i <= k - 1 THEN g[i] ELSE Doubled(g, k)]
  <2>3. ASSUME NEW i \in 0..k PROVE f[i] = Doubled(f, i)
    <3>1. i # 0 => i - 1 \in 0..(k - 1) /\ f[i - 1] = g[i - 1]
      OBVIOUS
    <3>2. Doubled(f, i) = Doubled(g, i)
      BY <3>1 DEF Doubled
    <3>3. CASE i <= k - 1
      <4>1. g[i] = Doubled(g, i)
        BY <2>2, <3>3
      <4>. QED  BY <3>2, <3>3, <4>1
    <3>4. CASE i = k
      BY <3>2, <3>4
    <3>. QED  BY <3>3, <3>4
  <2>4. f = [i \in 0..k |-> f[i]]
    OBVIOUS
  <2>. HIDE DEF f
  <2>5. Is(f, k)
    BY <2>3, <2>4
  <2>. QED  BY <1>2, <2>5
<1>. QED  BY <1>3, <1>4

\* Every backoff is a number: no exponent makes saturating_pow leave u32.
LEMMA PowersAreU32 ==
    ASSUME NEW n \in 0..max_retries
    PROVE  saturating_pow[n] \in Nat /\ saturating_pow[n] <= U32MAX
<1>. DEFINE Is(f) == f = [i \in 0..max_retries |-> Doubled(f, i)]
            pow == saturating_pow
            InU32(x) == x \in Nat /\ x <= U32MAX
            S == {k \in 0..max_retries : ~InU32(pow[k])}
<1>1. Is(pow)
  <2>1. pow = CHOOSE f : Is(f)
    BY DEF saturating_pow, Doubled
  <2>2. \E f : Is(f)
    BY PowersExist, ClientAssumption
  <2>. HIDE DEF Is, pow
  <2>. QED  BY <2>1, <2>2
<1>2. SUFFICES ASSUME S # {} PROVE FALSE
  OBVIOUS
<1>3. PICK k \in S : \A y \in S : k <= y
  <2>1. S \in SUBSET Nat
    OBVIOUS
  <2>. HIDE DEF S
  <2>. QED  BY <1>2, <2>1, Least, Zenon
<1>. HIDE DEF pow
<1>4. pow[k] = Doubled(pow, k)
  BY <1>1, <1>3, Zenon
<1>5. CASE k = 0
  BY <1>3, <1>4, <1>5, ClientAssumption DEF Doubled
<1>6. CASE k # 0
  <2>1. k - 1 \in 0..max_retries /\ k - 1 \notin S
    BY <1>3, <1>6, ClientAssumption
  <2>2. InU32(pow[k - 1])
    BY <2>1
  <2>. QED  BY <1>3, <1>4, <1>6, <2>2, ClientAssumption DEF Doubled
<1>. QED  BY <1>5, <1>6

\* request_with_retry keeps its state well typed: the loop variable stays within
\* max_retries, there is one answer for each attempt, and the time slept is a
\* number for every exponent of the backoff.
THEOREM ClientTypeCorrect == ClientSpec => []ClientTypeOK
<1>1. ClientInit => slept \in Nat
  BY DEF ClientInit
<1>2. CallTypes /\ slept \in Nat /\ [ClientNext]_clientVars => (slept \in Nat)'
  <2>. SUFFICES ASSUME CallTypes, slept \in Nat, [ClientNext]_clientVars PROVE slept' \in Nat
    OBVIOUS
  <2>1. NextAttempt => slept' \in Nat
    <3>1. attempt \in 0..max_retries
      BY DEF CallTypes
    <3>2. saturating_pow[attempt] \in Nat /\ BaseDelay \in Nat
      BY <3>1, PowersAreU32, ClientAssumption
    <3>. QED  BY <3>2 DEF NextAttempt
  <2>2. NextAttempt \/ slept' \in {slept, 0}
    BY DEF ClientNext, clientVars, StartCall, request_with_retry, RetryServerError,
           ReturnResponse, SendFails, CallDone
  <2>. QED  BY <2>1, <2>2
<1>3. CallTypes /\ CallInv /\ slept \in Nat => ClientTypeOK
  BY ClientAssumption DEF CallTypes, CallInv, ClientTypeOK
<1>. QED  BY <1>1, <1>2, <1>3, CallInvariant, PTL DEF ClientSpec
=============================================================================
