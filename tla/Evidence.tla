------------------------------ MODULE Evidence ------------------------------
(***************************************************************************)
(* TEE evidence from its generation to the verdict on it: the TDX and      *)
(* SEV-SNP backends (peer_registry/src/backend), the instance id           *)
(* (types/identity.rs), the evidence of advertisements                     *)
(* (bootstrap/src/gossip) and the policy checks of verified evidence.      *)
(*                                                                         *)
(* A machine generates evidence; at most one defect damages it; a node     *)
(* parses it, awaits the vendor library's verdict on the signature and     *)
(* goes on with the checks of its use.  Byte strings are abstract values,  *)
(* a hash is the sequence of what was hashed, and bit masks are sets of    *)
(* bit numbers.  Where bytes are taken from is kept.                       *)
(***************************************************************************)
EXTENDS Integers, Sequences, FiniteSets, FiniteSetsExt

CONSTANTS
    Machines,      \* machines that generate evidence, records of Machine
    Policies,      \* policies to verify against, records of Policy
    Claims,        \* claims of the vendor library, records of Claim
    Addresses,     \* address bindings
    ByteRange,     \* number of values of a u8: 256
    Missing,       \* an absent JSON field, claim or option
    BadHex         \* a string that is no hex

VARIABLES
    stage,     \* "idle", "parse", "signature" or "done"
    use,       \* what the evidence is for
    machine,   \* the machine it is from
    evidence,  \* what arrived
    expected,  \* binding and instance id the advertisement or challenge names
    policy,    \* the trusted measurement and its constraints
    parsed,    \* the parsed quote or report
    claims,    \* claims the library returned
    verdict    \* "Ok", a VerificationError, "panic", or "none"

evVars == <<stage, use, machine, evidence, expected, policy, parsed, claims, verdict>>

Tdx == "tdx"
Snp == "snp"
Err(e) == [err |-> e]
Failed(p) == "err" \in DOMAIN p

-----------------------------------------------------------------------------
\* The TDX quote.

HEADER_SIZE == 48
BODY_SIZE == 584
REPORT_DATA_OFFSET == 520

\* The body of a TD quote, as Intel lays it out: the byte each field starts at.
BodyLayout ==
    [tee_tcb_svn |-> 0, mr_seam |-> 16, mrsigner_seam |-> 64, seam_attributes |-> 112,
     td_attributes |-> 120, xfam |-> 128, mr_td |-> 136, mr_config_id |-> 184,
     mr_owner |-> 232, mr_owner_config |-> 280, rtmr_0 |-> 328, rtmr_1 |-> 376,
     rtmr_2 |-> 424, rtmr_3 |-> 472, report_data |-> 520]

\* The field that holds byte o of the body: the last that starts at or before it.
FieldAt(o) ==
    CHOOSE f \in DOMAIN BodyLayout :
        /\ BodyLayout[f] <= o
        /\ \A g \in DOMAIN BodyLayout : BodyLayout[g] <= o => BodyLayout[g] <= BodyLayout[f]

\* Where the body of a quote really starts: version 5 has a 6-byte descriptor.
TrueBody(version) == IF version = 5 THEN 54 ELSE 48

\* What the quote has from byte a on.
BytesAt(q, a) == q.body[FieldAt(a - TrueBody(q.version))]

\* Mutant: the descriptor of version 5 is overlooked.
body_offset_Same(version) == HEADER_SIZE

\* parse_raw: version 5 has 6 more bytes in front of the body.
body_offset(version) == IF version = 5 THEN HEADER_SIZE + 6 ELSE HEADER_SIZE

\* Mutant: one length check for both versions.
LongEnough_HeaderOnly(q) == q.len >= HEADER_SIZE + BODY_SIZE

\* The two length checks of parse_raw.
LongEnough(q) ==
    q.len >= HEADER_SIZE + BODY_SIZE /\ q.len >= body_offset(q.version) + BODY_SIZE

\* The record TdxQuote: what the slices of parse_raw take.
TdxQuote(q) ==
    LET At(o) == BytesAt(q, body_offset(q.version) + o) IN
    [tee |-> Tdx,
     version |-> q.version,
     td_attributes |-> At(32),
     rtmrs |-> [i \in 0..3 |-> At(328 + i * 48)],
     report_data |-> At(REPORT_DATA_OFFSET)]

\* from_json and parse_raw: the error, or the quote.
ParseTdx(ev) ==
    LET q == ev.quote IN
    IF q.str # "ok" \/ ~LongEnough(q) \/ q.version \notin {4, 5} THEN Err("InvalidQuoteFormat")
    ELSE IF body_offset(q.version) + BODY_SIZE > q.len THEN Err("panic")
    ELSE TdxQuote(q)

-----------------------------------------------------------------------------
\* The SEV-SNP report.

\* extract_bytes_field: a hex string or an array, of the right length.
Extractable(f, len) == f.kind \in {"hex", "array"} /\ f.len = len

\* from_json: five fields.
ParseSnp(ev) ==
    LET r == ev.attestation_report IN
    IF r.null THEN Err("InvalidQuoteFormat")
    ELSE IF /\ Extractable(r.report_id, 32) /\ Extractable(r.report_data, 64)
            /\ Extractable(r.measurement, 48) /\ Extractable(r.host_data, 32)
            /\ r.policy # Missing
    THEN [tee |-> Snp,
          report_id |-> r.report_id.val,
          report_data |-> r.report_data.val,
          measurement |-> r.measurement.val,
          host_data |-> r.host_data.val,
          policy |-> r.policy]
    ELSE Err("ParseError")

-----------------------------------------------------------------------------
\* Both backends.

\* instance_id: REPORTDATA[32:64] of TDX, REPORT_ID of SNP.
instance_id(p) == IF p.tee = Tdx THEN p.report_data.id ELSE p.report_id

report_data_binding(p) == p.report_data.binding

\* Host data only counts when it is not zero.
snp_hash(m, h) == IF h = 0 THEN <<m>> ELSE <<m, h>>

\* measurement_hash: the four RTMRs, or measurement and host data.
measurement_hash(p) ==
    IF p.tee = Tdx THEN [i \in 1..4 |-> p.rtmrs[i - 1]] ELSE snp_hash(p.measurement, p.host_data)

\* Names of the known TD_ATTRIBUTES bits.
TdAttributes ==
    [DEBUG |-> 0, SEPT_VE_DISABLE |-> 4, MIGRATABLE |-> 27, PKS |-> 28, KL |-> 30, PERFMON |-> 31]

\* is_debug: bit 0 of TD_ATTRIBUTES, bit 19 of the SNP policy.
is_debug(p) == IF p.tee = Tdx THEN TdAttributes.DEBUG \in p.td_attributes ELSE 19 \in p.policy

\* detect_tee_type: by the key that is there, TDX first.
detect_tee_type(ev) ==
    IF "quote" \in ev.keys THEN Tdx
    ELSE IF "attestation_report" \in ev.keys THEN Snp ELSE Missing

\* Decoding and parsing, as measurement_hash_from_evidence and verify_evidence
\* begin.
Parse(ev) ==
    IF ~ev.json \/ detect_tee_type(ev) = Missing THEN Err("InvalidQuoteFormat")
    ELSE IF detect_tee_type(ev) = Tdx THEN ParseTdx(ev) ELSE ParseSnp(ev)

\* extract_bytes of snp_info: a hex string or an array, of any length.
extract_bytes(f) == f.kind \in {"hex", "array"}

\* print_measurement of snp_info: the tool's own copy of the hash.
print_measurement(r) ==
    IF extract_bytes(r.measurement) /\ extract_bytes(r.host_data)
    THEN IF r.host_data.val = 0 THEN <<r.measurement.val>> ELSE <<r.measurement.val, r.host_data.val>>
    ELSE Missing

\* print_policy of snp_info: a missing policy is 0.
print_policy(r) ==
    LET bits == IF r.policy = Missing THEN {} ELSE r.policy IN
    [DEBUG |-> 19 \in bits, DEBUG_ALLOWED |-> 17 \in bits, SMT_ALLOWED |-> 4 \in bits,
     MIGRATE_MA |-> 16 \in bits, SINGLE_SOCKET |-> 18 \in bits]

-----------------------------------------------------------------------------
\* Generation.

\* detect_available_tee: TDX is preferred.
detect_available_tee(m) ==
    IF Tdx \in m.tees THEN Tdx ELSE IF Snp \in m.tees THEN Snp ELSE Missing

Field(val, len) == [kind |-> "hex", len |-> len, val |-> val]

\* What the attesters produce.
generate_evidence(m, tee, report_data) ==
    [json |-> TRUE,
     keys |-> IF tee = Tdx THEN {"quote"} ELSE {"attestation_report"},
     quote |-> [str |-> IF tee = Tdx THEN "ok" ELSE "no string", version |-> m.version, len |-> m.len,
                body |-> [f \in DOMAIN BodyLayout |->
                            IF f = "report_data" THEN report_data ELSE m.td[f]]],
     attestation_report |->
        [null |-> FALSE, report_id |-> Field(m.report_id, 32),
         report_data |-> Field(report_data, 64),
         measurement |-> Field(m.measurement, 48), host_data |-> Field(m.host_data, 32),
         policy |-> m.policy]]

\* load_for_tee: the file written at boot for TDX, the report's own id for SNP.
load_for_tee(m) ==
    LET tee == detect_available_tee(m) IN
    IF tee = Tdx THEN m.id_file
    ELSE instance_id(ParseSnp(generate_evidence(m, Snp, [binding |-> 0, id |-> 0])))

\* get_measurement_hash: the hash a node computes of itself.
get_measurement_hash(m) ==
    measurement_hash(Parse(generate_evidence(m, detect_available_tee(m), [binding |-> 0, id |-> 0])))

\* Mutant: the halves of REPORTDATA are swapped.
generate_gossip_evidence_Swapped(m, address) ==
    generate_evidence(m, detect_available_tee(m), [binding |-> load_for_tee(m), id |-> address])

\* generate_gossip_evidence: address binding, then instance id.
generate_gossip_evidence(m, address) ==
    generate_evidence(m, detect_available_tee(m), [binding |-> address, id |-> load_for_tee(m)])

\* The ways in which evidence that arrives may differ from what was generated.
Defects(ev) ==
    {[ev EXCEPT !.json = FALSE], [ev EXCEPT !.keys = {}],
     [ev EXCEPT !.keys = {"quote", "attestation_report"}],
     [ev EXCEPT !.attestation_report.null = TRUE],
     [ev EXCEPT !.attestation_report.policy = Missing]}
    \union {[ev EXCEPT !.quote.str = s] : s \in {"no string", "bad base64"}}
    \union {[ev EXCEPT !.quote.len = l] : l \in {47, 631, 632, 637, 638}}
    \union {[ev EXCEPT !.quote.version = v] : v \in {3, 4, 5}}
    \union {[ev EXCEPT !.attestation_report.report_id.kind = k] : k \in {"array", "bad", "absent"}}
    \union {[ev EXCEPT !.attestation_report.measurement.len = l] : l \in {47, 49}}

-----------------------------------------------------------------------------
\* Policy checks on verified evidence.

\* The first check that fails decides.
FirstError(checks) ==
    LET bad == {i \in DOMAIN checks : ~checks[i][1]} IN
    IF bad = {} THEN "Ok" ELSE checks[Min(bad)][2]

verify_report_data(p, binding) == report_data_binding(p) = binding

verify_debug(p, debug_allowed) == is_debug(p) => debug_allowed

\* The cast to u8.
u8(n) == n % ByteRange

SvnComponents == {"bootloader", "tee", "snp", "microcode"}
Reported(c, k) == IF c.svn[k] = Missing THEN 0 ELSE c.svn[k]

\* Mutant: a claim that is missing is not compared.
snp_verify_tcb_SkipMissing(min, c) ==
    \A k \in SvnComponents :
        min.svn[k] # Missing /\ c.svn[k] # Missing => u8(c.svn[k]) >= min.svn[k]

\* verify_tcb of SNP: a claim that is missing counts as 0.
snp_verify_tcb(min, c) ==
    \A k \in SvnComponents : min.svn[k] # Missing => u8(Reported(c, k)) >= min.svn[k]

\* verify_tcb of TDX: claims that are missing or not hex are not compared, and
\* of two lengths the shorter counts.
tdx_verify_tcb(min, c) ==
    LET known == c.tcb_svn \notin {Missing, BadHex}
    IN  /\ min.seam_svn # Missing /\ known => c.tcb_svn[1] >= min.seam_svn
        /\ min.tee_tcb_svn \notin {Missing, BadHex} /\ known =>
              \A i \in 1..Min({Len(c.tcb_svn), Len(min.tee_tcb_svn)}) :
                  c.tcb_svn[i] >= min.tee_tcb_svn[i]

\* verify_platform: a claim that is empty is not compared.  One expected value is
\* a set of one.
Allowed(allowed, actual) == allowed = Missing \/ actual = Missing \/ actual \in allowed
tdx_verify_platform(pol, c) ==
    /\ Allowed(pol.allowed_vendor_ids, c.vendor_id)
    /\ Allowed(pol.mr_seam, c.mr_seam)
    /\ Allowed(pol.mrsigner_seam, c.mrsigner_seam)
snp_verify_platform(pol, c) == pol.require_smt_disabled = TRUE => c.smt_enabled # TRUE

\* verify_measurements: the trusted values hashed the same way.
HexError(pol, tee) == BadHex \in IF tee = Tdx THEN {pol.rtmrs[i] : i \in 0..3}
                                 ELSE {pol.measurement, pol.host_data}

\* Mutant: the host data of the policy is not hashed.
trusted_hash_NoHost(pol, tee) ==
    IF tee = Tdx THEN [i \in 1..4 |-> pol.rtmrs[i - 1]] ELSE snp_hash(pol.measurement, 0)

trusted_hash(pol, tee) ==
    IF tee = Tdx THEN [i \in 1..4 |-> pol.rtmrs[i - 1]]
    ELSE snp_hash(pol.measurement, IF pol.host_data = Missing THEN 0 ELSE pol.host_data)

\* Mutant: the instance is not compared.
GossipVerdict_AnyInstance(p) ==
    FirstError(<< <<verify_report_data(p, expected.binding), "NonceVerificationFailed">> >>)

\* verify_evidence of an advertisement, after the signature.
GossipVerdict(p) ==
    FirstError(<< <<verify_report_data(p, expected.binding), "NonceVerificationFailed">>,
                  <<instance_id(p) = expected.id, "IdMismatch">> >>)

\* All checks a caller of the backend can make on verified evidence.  Nothing in
\* the workspace calls them yet; the order is that of the backend's example, and
\* no property depends on it.
FullVerdict(p, c) ==
    FirstError(<< <<verify_report_data(p, expected.binding), "NonceVerificationFailed">>,
                  <<verify_debug(p, policy.debug_allowed), "DebugNotAllowed">>,
                  <<IF p.tee = Tdx THEN tdx_verify_tcb(policy, c) ELSE snp_verify_tcb(policy, c),
                    "TcbOutdated">>,
                  <<IF p.tee = Tdx THEN tdx_verify_platform(policy, c)
                    ELSE snp_verify_platform(policy, c), "PlatformConstraint">>,
                  <<~HexError(policy, p.tee), "ParseError">>,
                  <<measurement_hash(p) = trusted_hash(policy, p.tee), "MeasurementMismatch">> >>)

-----------------------------------------------------------------------------
\* What the constants are.

\* A u8 has values, and an absent value is neither a number nor a TEE type.
ASSUME ValueAssumption ==
    ByteRange \in Nat \ {0} /\ Missing \notin Nat /\ Missing \notin {Tdx, Snp}

\* The hardware makes quotes of the two versions with a whole body, and reports
\* with a policy.
ASSUME MachineAssumption ==
    \A m \in Machines :
        /\ m.tees \subseteq {Tdx, Snp}
        /\ m.version \in {4, 5} /\ m.len \in Nat /\ m.len >= TrueBody(m.version) + BODY_SIZE
        /\ m.policy # Missing

\* SVNs are unsigned integers where they are present.
ASSUME SvnAssumption ==
    \A x \in Policies \union Claims : \A k \in SvnComponents : x.svn[k] \in Nat \union {Missing}

-----------------------------------------------------------------------------
\* The state machine.

EvInit ==
    /\ stage = "idle" /\ use = "none" /\ verdict = "none"
    /\ machine = Missing /\ policy = Missing
    /\ evidence = Missing /\ expected = Missing /\ parsed = Missing /\ claims = Missing

\* An advertisement arrives with evidence of a machine, whole or damaged, for
\* any addresses and instance id.
ReceiveAdvertisement(m, a, b, id) ==
    LET ev == generate_gossip_evidence(m, a) IN
    /\ m.tees # {}
    /\ stage' = "parse" /\ use' = "gossip" /\ machine' = m
    /\ evidence' \in {ev} \union Defects(ev)
    /\ expected' = [binding |-> b, id |-> id]
    /\ UNCHANGED <<policy, parsed, claims, verdict>>

\* Evidence for a challenge, to be held against a policy.
ReceiveEvidence(m, a, b, pol) ==
    LET ev == generate_gossip_evidence(m, a) IN
    /\ m.tees # {}
    /\ stage' = "parse" /\ use' = "full" /\ machine' = m /\ policy' = pol
    /\ evidence' = ev
    /\ expected' = [binding |-> b, id |-> load_for_tee(m)]
    /\ UNCHANGED <<parsed, claims, verdict>>

\* Up to the await in verify_signature; verify_evidence also decodes the
\* instance id of the advertisement.
ParseEvidence ==
    LET p == IF expected.id = BadHex THEN Err("ParseError") ELSE Parse(evidence) IN
    /\ stage = "parse"
    /\ IF Failed(p)
       THEN stage' = "done" /\ verdict' = p.err /\ UNCHANGED parsed
       ELSE stage' = "signature" /\ parsed' = p /\ UNCHANGED verdict
    /\ UNCHANGED <<use, machine, evidence, expected, policy, claims>>

\* verify_signature: no verifier, a bad signature, or no claims.
SignatureFails ==
    /\ stage = "signature"
    /\ stage' = "done" /\ verdict' = "AttestationFailed"
    /\ UNCHANGED <<use, machine, evidence, expected, policy, parsed, claims>>

\* verify_signature returns claims, and the checks follow.
SignatureVerified(c) ==
    /\ stage = "signature"
    /\ stage' = "done" /\ claims' = c
    /\ verdict' = IF use = "gossip" THEN GossipVerdict(parsed) ELSE FullVerdict(parsed, c)
    /\ UNCHANGED <<use, machine, evidence, expected, policy, parsed>>

InstanceIds == {load_for_tee(m) : m \in {x \in Machines : x.tees # {}}} \union {BadHex}

EvNext ==
    \/ stage = "idle" /\ \E m \in Machines, a, b \in Addresses :
          \/ \E id \in InstanceIds : ReceiveAdvertisement(m, a, b, id)
          \/ \E pol \in Policies : ReceiveEvidence(m, a, b, pol)
    \/ ParseEvidence
    \/ SignatureFails
    \/ \E c \in Claims : SignatureVerified(c)

EvSpec == EvInit /\ [][EvNext]_evVars

-----------------------------------------------------------------------------
\* Type invariant; no input makes the parser panic on a slice.
EvTypeOK ==
    /\ stage \in {"idle", "parse", "signature", "done"}
    /\ use \in {"none", "gossip", "full"}
    /\ verdict \in {"none", "Ok", "InvalidQuoteFormat", "ParseError", "AttestationFailed",
                    "NonceVerificationFailed", "IdMismatch", "DebugNotAllowed", "TcbOutdated",
                    "PlatformConstraint", "MeasurementMismatch"}

Accepted == verdict = "Ok"

\* The advertisement a node makes is accepted by every node whose library
\* confirms the signature, on TDX and on SNP: what generate_gossip_evidence and
\* load_for_tee put together is what verify_evidence takes apart.
OwnAdvertisementVerifies ==
    /\ use = "gossip" /\ stage = "done" /\ claims # Missing
    /\ evidence = generate_gossip_evidence(machine, expected.binding)
    /\ expected.id = load_for_tee(machine)
    => Accepted

\* An accepted advertisement names the instance of the machine that made the
\* evidence and the addresses bound into it, whatever defect it arrived with.
AcceptedAdvertisementIsBound ==
    use = "gossip" /\ Accepted =>
        /\ expected.binding = report_data_binding(parsed)
        /\ expected.id = IF Tdx \in machine.tees THEN machine.id_file ELSE machine.report_id

RtmrName == <<"rtmr_0", "rtmr_1", "rtmr_2", "rtmr_3">>

\* The hash that a node looks up for a peer is the one the peer computed for
\* itself at start, both are of the machine's own registers, in quotes of both
\* versions, and what snp_info shows of a report is what the backend computes:
\* the hash, with its own rule for host data, and the debug flag.
PeersSeeOwnHash ==
    parsed # Missing =>
        /\ measurement_hash(parsed) = get_measurement_hash(machine)
        /\ measurement_hash(parsed) =
              IF Tdx \in machine.tees THEN [i \in 1..4 |-> machine.td[RtmrName[i]]]
              ELSE IF machine.host_data = 0 THEN <<machine.measurement>>
              ELSE <<machine.measurement, machine.host_data>>
        /\ parsed.tee = Snp =>
              LET r == evidence.attestation_report IN
              /\ print_measurement(r) = measurement_hash(parsed)
              /\ print_policy(r).DEBUG = is_debug(parsed)

\* Evidence only passes verify_tcb when the SVNs reported, before the cast to u8,
\* reach the minimum: a cast never hides an old one, and an SNP claim that is
\* missing only passes a minimum of 0.
AcceptedTcbIsRecent ==
    use = "full" /\ Accepted =>
        IF parsed.tee = Snp
        THEN \A k \in SvnComponents :
                \/ policy.svn[k] \in {Missing, 0}
                \/ claims.svn[k] # Missing /\ claims.svn[k] >= policy.svn[k]
        ELSE policy.seam_svn # Missing /\ claims.tcb_svn \notin {Missing, BadHex}
                => claims.tcb_svn[1] >= policy.seam_svn

\* Evidence only passes verify_measurements for the measurements of its own
\* machine: the RTMRs of the TD, or launch measurement and host data, where no
\* host data and zero are the same.
AcceptedMeasurementIsTrusted ==
    use = "full" /\ Accepted =>
        IF parsed.tee = Tdx
        THEN \A i \in 0..3 : machine.td[RtmrName[i + 1]] = policy.rtmrs[i]
        ELSE /\ machine.measurement = policy.measurement
             /\ machine.host_data = IF policy.host_data = Missing THEN 0 ELSE policy.host_data

\* is_debug of a parsed quote says what the DEBUG bit of the TD's TD_ATTRIBUTES
\* says: "Check if debug mode is enabled (TD_ATTRIBUTES bit 0)".
DebugIsTheAttribute ==
    parsed # Missing /\ parsed.tee = Tdx
        => (is_debug(parsed) <=> TdAttributes.DEBUG \in machine.td["td_attributes"])
=============================================================================
