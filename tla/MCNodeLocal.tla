---------------------------- MODULE MCNodeLocal ----------------------------
(***************************************************************************)
(* Instances of the parts of a node that work alone: storage, the client   *)
(* of the measurement registry, logging, evidence and the platform tools.  *)
(* They share no state, so a behaviour of this module is a behaviour of    *)
(* one of them, chosen at the start, while the others keep their initial   *)
(* state.                                                                  *)
(***************************************************************************)
EXTENDS PersistentStorage, MeasurementClient, Logging, Evidence, QuoteCerts

VARIABLE part   \* the part this behaviour is about

LocalInit ==
    /\ part \in {"store", "client", "log", "evidence", "tool"}
    /\ Init /\ ClientInit /\ LogInit /\ EvInit /\ ToolInit

StoreStep == part = "store" /\ Next /\ UNCHANGED <<clientVars, logVars, evVars, toolVars>>
ClientStep == part = "client" /\ ClientNext /\ UNCHANGED <<vars, logVars, evVars, toolVars>>
LogStep == part = "log" /\ LogNext /\ UNCHANGED <<vars, clientVars, evVars, toolVars>>
EvidenceStep == part = "evidence" /\ EvNext /\ UNCHANGED <<vars, clientVars, logVars, toolVars>>
ToolStep == part = "tool" /\ ToolNext /\ UNCHANGED <<vars, clientVars, logVars, evVars>>

LocalNext ==
    /\ UNCHANGED part
    /\ StoreStep \/ ClientStep \/ LogStep \/ EvidenceStep \/ ToolStep

LocalSpec == LocalInit /\ [][LocalNext]_<<part, vars, clientVars, logVars, evVars, toolVars>>

\* Every part keeps its state well typed, which includes: no evidence makes a
\* parser slice past its end (parse_raw), no log file that does not deserialise is
\* loaded (load_state), attempts and retries stay within their limits
\* (request_with_retry, write_log) and so does the log context (set_log_context).
LocalTypeOK == TypeOK /\ ClientTypeOK /\ LogTypeOK /\ EvTypeOK /\ ToolTypeOK

-----------------------------------------------------------------------------
\* Machines: TDX with quotes of both versions, SNP with and without host data
\* and debug, both, and none.  Registers and fields have values of their own.
Td(debug) ==
    [f \in DOMAIN BodyLayout \ {"report_data"} |->
        CASE f = "rtmr_0" -> 1 [] f = "rtmr_1" -> 2 [] f = "rtmr_2" -> 3 [] f = "rtmr_3" -> 4
          [] f = "mr_seam" -> {3} [] f = "td_attributes" -> debug [] OTHER -> 9]

Machine(tees, version, debug, host_data, pol) ==
    [tees |-> tees, version |-> version, len |-> IF version = 5 THEN 638 ELSE 632,
     td |-> Td(debug), id_file |-> 7, report_id |-> 8, measurement |-> 5,
     host_data |-> host_data, policy |-> pol]

SomeMachines ==
    {Machine({Tdx}, v, {}, 0, {}) : v \in {4, 5}}
    \union {Machine({Snp}, 4, {}, h, p) : h \in {0, 1}, p \in {{}, {19}}}
    \union {Machine({Tdx, Snp}, 4, {0}, 0, {}), Machine({}, 4, {}, 0, {})}

\* Policies that ask for one thing each.
Lax == [debug_allowed |-> FALSE, svn |-> [k \in SvnComponents |-> Missing],
        seam_svn |-> Missing, tee_tcb_svn |-> Missing, allowed_vendor_ids |-> Missing,
        mr_seam |-> Missing, mrsigner_seam |-> Missing, require_smt_disabled |-> Missing,
        rtmrs |-> [i \in 0..3 |-> i + 1], measurement |-> 5, host_data |-> Missing]

SomePolicies ==
    {Lax, [Lax EXCEPT !.debug_allowed = TRUE], [Lax EXCEPT !.rtmrs[2] = 0],
     [Lax EXCEPT !.rtmrs[3] = BadHex], [Lax EXCEPT !.measurement = 6],
     [Lax EXCEPT !.allowed_vendor_ids = {1, 2}], [Lax EXCEPT !.mr_seam = {1}],
     [Lax EXCEPT !.mrsigner_seam = {1}], [Lax EXCEPT !.require_smt_disabled = TRUE],
     [Lax EXCEPT !.seam_svn = 2], [Lax EXCEPT !.tee_tcb_svn = <<1, 2>>],
     [Lax EXCEPT !.tee_tcb_svn = BadHex]}
    \union {[Lax EXCEPT !.host_data = h] : h \in {0, 1, BadHex}}
    \union {[Lax EXCEPT !.svn[k] = n] : k \in SvnComponents, n \in {0, 2}}

\* Claims that differ from good ones in one place.
GoodClaims == [svn |-> [k \in SvnComponents |-> 3], tcb_svn |-> <<2, 2>>, vendor_id |-> 1,
          mr_seam |-> 1, mrsigner_seam |-> 1, smt_enabled |-> FALSE]

SomeClaims ==
    {GoodClaims, [GoodClaims EXCEPT !.vendor_id = 3], [GoodClaims EXCEPT !.mr_seam = 2],
     [GoodClaims EXCEPT !.mrsigner_seam = Missing], [GoodClaims EXCEPT !.smt_enabled = TRUE]}
    \union {[GoodClaims EXCEPT !.svn[k] = n] : k \in SvnComponents, n \in {Missing, 0, 1, 2, 5}}
    \union {[GoodClaims EXCEPT !.tcb_svn = t] : t \in {Missing, BadHex, <<1>>, <<2>>, <<2, 1>>}}

\* Chains: none, a leaf, three certificates, and chains with one that does not
\* parse.
SomeChains ==
    {<<>>, << <<1, TRUE>> >>, << <<1, TRUE>>, <<2, TRUE>>, <<3, TRUE>> >>,
     << <<1, TRUE>>, <<2, FALSE>>, <<3, TRUE>> >>, << <<1, FALSE>>, <<2, TRUE>> >>}
=============================================================================
