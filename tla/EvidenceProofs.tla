--------------------------- MODULE EvidenceProofs ---------------------------
(***************************************************************************)
(* Proofs about Evidence, for every set of machines, policies and claims:  *)
(* what a parser takes out of evidence that arrives is what the machine    *)
(* put in, or an error (Carried, TdxParsed, SnpParsed), and a verdict "Ok" *)
(* means that every check passed (AllPassed).  And about QuoteCerts, for   *)
(* every set of chains and every length of a certificate: no length field  *)
(* of a quote makes tdx_info slice past its end, and it finds the chain of *)
(* every intact quote.                                                     *)
(***************************************************************************)
EXTENDS Evidence, QuoteCerts, SequenceTheorems, WellFoundedInduction, TLAPS

-----------------------------------------------------------------------------
\* The layout of a quote's body.

\* The offsets of parse_raw for the RTMRs and REPORTDATA are where these fields
\* are.
LEMMA Offsets ==
    /\ FieldAt(328) = "rtmr_0" /\ FieldAt(376) = "rtmr_1"
    /\ FieldAt(424) = "rtmr_2" /\ FieldAt(472) = "rtmr_3"
    /\ FieldAt(520) = "report_data"
<1>1. FieldAt(328) = "rtmr_0"
  BY DEF FieldAt, BodyLayout
<1>2. FieldAt(376) = "rtmr_1"
  BY DEF FieldAt, BodyLayout
<1>3. FieldAt(424) = "rtmr_2"
  BY DEF FieldAt, BodyLayout
<1>4. FieldAt(472) = "rtmr_3"
  BY DEF FieldAt, BodyLayout
<1>5. FieldAt(520) = "report_data"
  BY DEF FieldAt, BodyLayout
<1> QED
  BY <1>1, <1>2, <1>3, <1>4, <1>5

-----------------------------------------------------------------------------
\* What evidence carries.

\* The body of the quote of machine m with report data rd.
Body(m, rd) ==
    [f \in DOMAIN BodyLayout |-> IF f = "report_data" THEN rd ELSE m.td[f]]

\* What no defect changes of evidence of machine m with report data rd: the
\* values in the quote or the report, and the TEE that it parses for.
Carries(e, m, rd) ==
    /\ IF Tdx \in m.tees THEN "quote" \in e.keys \/ e.keys = {} ELSE e.quote.str # "ok"
    /\ e.quote.len \in Nat
    /\ e.quote.body = Body(m, rd)
    /\ e.attestation_report.report_id.val = m.report_id
    /\ e.attestation_report.report_data.val = rd
    /\ e.attestation_report.measurement.val = m.measurement
    /\ e.attestation_report.host_data.val = m.host_data
    /\ e.attestation_report.policy \in {Missing, m.policy}

\* The evidence of an advertisement arrives with what the machine put in, whatever
\* the defect.
LEMMA Carried ==
    ASSUME NEW m \in Machines, NEW rd,
           NEW e \in {generate_evidence(m, detect_available_tee(m), rd)}
                        \union Defects(generate_evidence(m, detect_available_tee(m), rd))
    PROVE  Carries(e, m, rd)
<1> DEFINE tee == detect_available_tee(m)
           str == IF tee = Tdx THEN "ok" ELSE "no string"
           keys == IF tee = Tdx THEN {"quote"} ELSE {"attestation_report"}
           body == Body(m, rd)
           id == Field(m.report_id, 32)
           data == Field(rd, 64)
           launch == Field(m.measurement, 48)
           host == Field(m.host_data, 32)
           generated == [str |-> str, version |-> m.version, len |-> m.len, body |-> body]
           report == [null |-> FALSE, report_id |-> id, report_data |-> data,
                      measurement |-> launch, host_data |-> host, policy |-> m.policy]
           ev == generate_evidence(m, tee, rd)
<1>1. ev = [json |-> TRUE, keys |-> keys, quote |-> generated, attestation_report |-> report]
  BY Zenon DEF generate_evidence, Body
<1>2. /\ m.len \in Nat
      /\ Tdx \in m.tees <=> tee = Tdx
  BY MachineAssumption, ValueAssumption DEF detect_available_tee, Tdx, Snp
<1>3. /\ tee = Tdx => keys = {"quote"} /\ str = "ok"
      /\ tee # Tdx => str = "no string"
  OBVIOUS
<1>4. /\ id = [kind |-> "hex", len |-> 32, val |-> m.report_id]
      /\ data = [kind |-> "hex", len |-> 64, val |-> rd]
      /\ launch = [kind |-> "hex", len |-> 48, val |-> m.measurement]
      /\ host = [kind |-> "hex", len |-> 32, val |-> m.host_data]
  BY DEF Field
<1>5. e \in {ev} \union Defects(ev)
  OBVIOUS
<1> DEFINE GoodQuote(q) == q.len \in Nat /\ q.body = body /\ q.str \in {str, "no string", "bad base64"}
           GoodReport(r) ==
              /\ r.report_id.val = m.report_id /\ r.report_data.val = rd
              /\ r.measurement.val = m.measurement /\ r.host_data.val = m.host_data
              /\ r.policy \in {Missing, m.policy}
<1> HIDE DEF ev, body, tee, str, keys, id, data, launch, host
<1>6. /\ GoodQuote(generated)
      /\ \A s \in {"no string", "bad base64"} : GoodQuote([generated EXCEPT !.str = s])
      /\ \A l \in Nat : GoodQuote([generated EXCEPT !.len = l])
      /\ \A v : GoodQuote([generated EXCEPT !.version = v])
  BY <1>2
<1>7. /\ GoodReport(report)
      /\ GoodReport([report EXCEPT !.null = TRUE])
      /\ GoodReport([report EXCEPT !.policy = Missing])
  <2>1. id.val = m.report_id /\ data.val = rd /\ launch.val = m.measurement /\ host.val = m.host_data
    BY <1>4
  <2> QED
    BY <2>1
<1>8. \A k : GoodReport([report EXCEPT !.report_id.kind = k])
  BY <1>4
<1>9. \A l : GoodReport([report EXCEPT !.measurement.len = l])
  BY <1>4
<1> DEFINE GoodEvidence ==
              /\ e.keys \in {keys, {}, {"quote", "attestation_report"}}
              /\ GoodQuote(e.quote) /\ GoodReport(e.attestation_report)
<1>10. GoodEvidence
  <2> HIDE DEF generated, report, GoodQuote, GoodReport
  <2>1. CASE \/ e = ev \/ e = [ev EXCEPT !.json = FALSE] \/ e = [ev EXCEPT !.keys = {}]
             \/ e = [ev EXCEPT !.keys = {"quote", "attestation_report"}]
    <3>1. /\ e.keys \in {keys, {}, {"quote", "attestation_report"}}
          /\ e.quote = generated /\ e.attestation_report = report
      BY <1>1, <2>1
    <3> QED
      BY <3>1, <1>6, <1>7, Zenon
  <2>2. CASE e = [ev EXCEPT !.attestation_report.null = TRUE]
    <3>1. /\ e.keys = keys /\ e.quote = generated
          /\ e.attestation_report = [report EXCEPT !.null = TRUE]
      BY <1>1, <2>2
    <3> QED
      BY <3>1, <1>6, <1>7, Zenon
  <2>3. CASE e = [ev EXCEPT !.attestation_report.policy = Missing]
    <3>1. /\ e.keys = keys /\ e.quote = generated
          /\ e.attestation_report = [report EXCEPT !.policy = Missing]
      BY <1>1, <2>3
    <3> QED
      BY <3>1, <1>6, <1>7, Zenon
  <2>4. ASSUME NEW s \in {"no string", "bad base64"}, e = [ev EXCEPT !.quote.str = s]
        PROVE  GoodEvidence
    <3>1. /\ e.keys = keys /\ e.quote = [generated EXCEPT !.str = s]
          /\ e.attestation_report = report
      BY <1>1, <2>4, Zenon
    <3> QED
      BY <3>1, <1>6, <1>7, Zenon
  <2>5. ASSUME NEW l \in Nat, e = [ev EXCEPT !.quote.len = l]
        PROVE  GoodEvidence
    <3>1. /\ e.keys = keys /\ e.quote = [generated EXCEPT !.len = l]
          /\ e.attestation_report = report
      BY <1>1, <2>5
    <3> QED
      BY <3>1, <1>6, <1>7, Zenon
  <2>6. ASSUME NEW v, e = [ev EXCEPT !.quote.version = v]
        PROVE  GoodEvidence
    <3>1. /\ e.keys = keys /\ e.quote = [generated EXCEPT !.version = v]
          /\ e.attestation_report = report
      BY <1>1, <2>6
    <3> QED
      BY <3>1, <1>6, <1>7, Zenon
  <2>7. ASSUME NEW k, e = [ev EXCEPT !.attestation_report.report_id.kind = k]
        PROVE  GoodEvidence
    <3>1. /\ e.keys = keys /\ e.quote = generated
          /\ e.attestation_report = [report EXCEPT !.report_id.kind = k]
      BY <1>1, <2>7
    <3> QED
      BY <3>1, <1>6, <1>8, Zenon
  <2>8. ASSUME NEW l, e = [ev EXCEPT !.attestation_report.measurement.len = l]
        PROVE  GoodEvidence
    <3>1. /\ e.keys = keys /\ e.quote = generated
          /\ e.attestation_report = [report EXCEPT !.measurement.len = l]
      BY <1>1, <2>8
    <3> QED
      BY <3>1, <1>6, <1>9, Zenon
  <2> DEFINE Plain == {[ev EXCEPT !.json = FALSE], [ev EXCEPT !.keys = {}],
                       [ev EXCEPT !.keys = {"quote", "attestation_report"}],
                       [ev EXCEPT !.attestation_report.null = TRUE],
                       [ev EXCEPT !.attestation_report.policy = Missing]}
             Str(s) == [ev EXCEPT !.quote.str = s]
             Short(l) == [ev EXCEPT !.quote.len = l]
             Version(v) == [ev EXCEPT !.quote.version = v]
             Kind(k) == [ev EXCEPT !.attestation_report.report_id.kind = k]
             Measured(l) == [ev EXCEPT !.attestation_report.measurement.len = l]
             Strs == {Str(s) : s \in {"no string", "bad base64"}}
             Shorts == {Short(l) : l \in {47, 631, 632, 637, 638}}
             Versions == {Version(v) : v \in {3, 4, 5}}
             Kinds == {Kind(k) : k \in {"array", "bad", "absent"}}
             Measures == {Measured(l) : l \in {47, 49}}
  <2>9. Defects(ev) = Plain \union Strs \union Shorts \union Versions \union Kinds \union Measures
    BY ZenonT(30) DEF Defects
  <2>10. e \in Plain => GoodEvidence
    BY <2>1, <2>2, <2>3
  <2> HIDE DEF GoodEvidence, Plain, Str, Short, Version, Kind, Measured
  <2>11. e \in Strs => GoodEvidence
    BY <2>4, Zenon DEF Str
  <2>12. e \in Shorts => GoodEvidence
    BY <2>5 DEF Short
  <2>13. e \in Versions => GoodEvidence
    BY <2>6, Zenon DEF Version
  <2>14. e \in Kinds => GoodEvidence
    BY <2>7, Zenon DEF Kind
  <2>15. e \in Measures => GoodEvidence
    BY <2>8, Zenon DEF Measured
  <2> HIDE DEF Strs, Shorts, Versions, Kinds, Measures
  <2> QED
    BY <1>5, <2>1, <2>9, <2>10, <2>11, <2>12, <2>13, <2>14, <2>15
<1>11. IF tee = Tdx THEN "quote" \in e.keys \/ e.keys = {} ELSE e.quote.str # "ok"
  BY <1>3, <1>10, Zenon
<1> QED
  BY <1>2, <1>10, <1>11, Zenon DEF Carries, body

-----------------------------------------------------------------------------
\* What the parsers make of it.

\* Errors of the parsers that are not a panic.
Refused(p) == Failed(p) /\ p.err \in {"InvalidQuoteFormat", "ParseError"}

\* An error is a failure, and a parsed quote or report is none.
LEMMA Outcomes ==
    /\ \A x : Failed(Err(x)) /\ Err(x).err = x
    /\ \A q : ~Failed(TdxQuote(q))
  BY DEF Failed, Err, TdxQuote

\* The slices of parse_raw take the fields that they are meant for, in both
\* versions.
LEMMA Slices ==
    ASSUME NEW q, NEW m, NEW rd, q.version \in {4, 5}, q.body = Body(m, rd)
    PROVE  /\ TdxQuote(q).tee = Tdx
           /\ TdxQuote(q).rtmrs = [i \in 0..3 |-> m.td[RtmrName[i + 1]]]
           /\ TdxQuote(q).report_data = rd
<1> DEFINE At(o) == BytesAt(q, body_offset(q.version) + o)
<1>1. \A o \in Nat : At(o) = q.body[FieldAt(o)]
  <2> TAKE o \in Nat
  <2> DEFINE d == (body_offset(q.version) + o) - TrueBody(q.version)
  <2>1. d = o
    BY DEF body_offset, TrueBody, HEADER_SIZE
  <2>2. At(o) = q.body[FieldAt(d)]
    BY Zenon DEF BytesAt
  <2> HIDE DEF d, At
  <2> QED
    BY <2>1, <2>2, Zenon
<1>2. /\ At(328) = m.td["rtmr_0"] /\ At(376) = m.td["rtmr_1"]
      /\ At(424) = m.td["rtmr_2"] /\ At(472) = m.td["rtmr_3"]
      /\ At(520) = rd
  <2> HIDE DEF At
  <2>1. {"rtmr_0", "rtmr_1", "rtmr_2", "rtmr_3", "report_data"} \subseteq DOMAIN BodyLayout
    BY DEF BodyLayout
  <2>2. /\ Body(m, rd)["rtmr_0"] = m.td["rtmr_0"] /\ Body(m, rd)["rtmr_1"] = m.td["rtmr_1"]
        /\ Body(m, rd)["rtmr_2"] = m.td["rtmr_2"] /\ Body(m, rd)["rtmr_3"] = m.td["rtmr_3"]
        /\ Body(m, rd)["report_data"] = rd
    BY <2>1 DEF Body
  <2> QED
    BY <1>1, <2>2, Offsets
<1>3. \A i \in 0..3 : At(328 + i * 48) = m.td[RtmrName[i + 1]]
  <2> HIDE DEF At
  <2> SUFFICES ASSUME NEW i \in 0..3 PROVE At(328 + i * 48) = m.td[RtmrName[i + 1]]
    OBVIOUS
  <2>1. i = 0 \/ i = 1 \/ i = 2 \/ i = 3
    OBVIOUS
  <2>2. /\ RtmrName[1] = "rtmr_0" /\ RtmrName[2] = "rtmr_1"
        /\ RtmrName[3] = "rtmr_2" /\ RtmrName[4] = "rtmr_3"
    BY DEF RtmrName
  <2> QED
    BY <1>2, <2>1, <2>2
<1>4. TdxQuote(q) = [tee |-> Tdx, version |-> q.version, td_attributes |-> At(32),
                     rtmrs |-> [i \in 0..3 |-> At(328 + i * 48)], report_data |-> At(520)]
  BY DEF TdxQuote, REPORT_DATA_OFFSET
<1> HIDE DEF At
<1>5. [i \in 0..3 |-> At(328 + i * 48)] = [i \in 0..3 |-> m.td[RtmrName[i + 1]]]
  BY <1>3
<1> QED
  BY <1>2, <1>4, <1>5

\* Evidence of a TDX machine is refused, or gives its registers and report data.
\* No length of the quote makes parse_raw slice past the end.
LEMMA TdxParsed ==
    ASSUME NEW m \in Machines, Tdx \in m.tees, NEW rd, NEW e, Carries(e, m, rd)
    PROVE  \/ Refused(Parse(e))
           \/ /\ ~Failed(Parse(e))
              /\ Parse(e).tee = Tdx
              /\ Parse(e).rtmrs = [i \in 0..3 |-> m.td[RtmrName[i + 1]]]
              /\ Parse(e).report_data = rd
<1>1. \/ Parse(e) = Err("InvalidQuoteFormat")
      \/ Parse(e) = ParseTdx(e)
  BY ValueAssumption DEF Parse, detect_tee_type, Carries, Tdx, Snp
<1>2. \/ ParseTdx(e) = Err("InvalidQuoteFormat")
      \/ ParseTdx(e) = TdxQuote(e.quote) /\ e.quote.version \in {4, 5}
  <2> DEFINE q == e.quote
  <2>1. q.len \in Nat
    BY DEF Carries
  <2>2. CASE q.str # "ok" \/ ~LongEnough(q) \/ q.version \notin {4, 5}
    BY <2>2 DEF ParseTdx
  <2>3. CASE q.str = "ok" /\ LongEnough(q) /\ q.version \in {4, 5}
    <3>1. ~(body_offset(q.version) + BODY_SIZE > q.len)
      BY <2>1, <2>3 DEF LongEnough, body_offset, HEADER_SIZE, BODY_SIZE
    <3> QED
      BY <2>3, <3>1 DEF ParseTdx
  <2> QED
    BY <2>2, <2>3
<1>3. e.quote.body = Body(m, rd)
  BY DEF Carries
<1>4. CASE Parse(e) = Err("InvalidQuoteFormat")
  BY <1>4, Outcomes DEF Refused
<1>5. CASE Parse(e) = TdxQuote(e.quote) /\ e.quote.version \in {4, 5}
  BY <1>3, <1>5, Outcomes, Slices
<1> QED
  BY <1>1, <1>2, <1>4, <1>5

\* Evidence of an SNP machine is refused, or gives what the report holds.
LEMMA SnpParsed ==
    ASSUME NEW m \in Machines, Tdx \notin m.tees, NEW rd, NEW e, Carries(e, m, rd)
    PROVE  \/ Refused(Parse(e))
           \/ /\ ~Failed(Parse(e))
              /\ Parse(e).tee = Snp
              /\ Parse(e).report_id = m.report_id /\ Parse(e).report_data = rd
              /\ Parse(e).measurement = m.measurement /\ Parse(e).host_data = m.host_data
              /\ Parse(e).policy = e.attestation_report.policy
              /\ e.attestation_report.policy # Missing
              /\ extract_bytes(e.attestation_report.measurement)
              /\ extract_bytes(e.attestation_report.host_data)
<1> DEFINE r == e.attestation_report
           Whole == /\ Extractable(r.report_id, 32) /\ Extractable(r.report_data, 64)
                    /\ Extractable(r.measurement, 48) /\ Extractable(r.host_data, 32)
                    /\ r.policy # Missing
           Report == [tee |-> Snp, report_id |-> r.report_id.val,
                      report_data |-> r.report_data.val, measurement |-> r.measurement.val,
                      host_data |-> r.host_data.val, policy |-> r.policy]
<1>1. \/ Parse(e) = Err("InvalidQuoteFormat")
      \/ Parse(e) = ParseSnp(e)
  <2>1. ParseTdx(e) = Err("InvalidQuoteFormat")
    BY DEF ParseTdx, Carries
  <2> QED
    BY <2>1 DEF Parse
<1>2. \/ ParseSnp(e) = Err("InvalidQuoteFormat") \/ ParseSnp(e) = Err("ParseError")
      \/ Whole /\ ParseSnp(e) = Report
  BY Zenon DEF ParseSnp
<1>3. CASE Parse(e) = Err("InvalidQuoteFormat") \/ Parse(e) = Err("ParseError")
  BY <1>3, Outcomes DEF Refused
<1>4. CASE Whole /\ Parse(e) = Report
  <2>1. ~Failed(Report)
    BY DEF Failed
  <2>2. /\ Report.tee = Snp /\ Report.report_id = m.report_id /\ Report.report_data = rd
        /\ Report.measurement = m.measurement /\ Report.host_data = m.host_data
        /\ Report.policy = r.policy
    BY DEF Carries
  <2>3. r.policy # Missing /\ extract_bytes(r.measurement) /\ extract_bytes(r.host_data)
    BY <1>4 DEF Extractable, extract_bytes
  <2> HIDE DEF Report
  <2> QED
    BY <1>4, <2>1, <2>2, <2>3
<1> QED
  BY <1>1, <1>2, <1>3, <1>4

\* The report of a machine is parsed to what the machine put in.
LEMMA OwnReport ==
    ASSUME NEW m \in Machines, NEW rd
    PROVE  ParseSnp(generate_evidence(m, Snp, rd)) =
              [tee |-> Snp, report_id |-> m.report_id, report_data |-> rd,
               measurement |-> m.measurement, host_data |-> m.host_data, policy |-> m.policy]
<1> DEFINE ev == generate_evidence(m, Snp, rd)
           report == [null |-> FALSE, report_id |-> Field(m.report_id, 32),
                      report_data |-> Field(rd, 64), measurement |-> Field(m.measurement, 48),
                      host_data |-> Field(m.host_data, 32), policy |-> m.policy]
<1>1. ev.attestation_report = report
  BY DEF generate_evidence
<1>2. m.policy # Missing
  BY MachineAssumption
<1>3. /\ Extractable(Field(m.report_id, 32), 32) /\ Extractable(Field(rd, 64), 64)
      /\ Extractable(Field(m.measurement, 48), 48) /\ Extractable(Field(m.host_data, 32), 32)
  BY DEF Extractable, Field
<1>4. /\ Field(m.report_id, 32).val = m.report_id /\ Field(rd, 64).val = rd
      /\ Field(m.measurement, 48).val = m.measurement /\ Field(m.host_data, 32).val = m.host_data
  BY DEF Field
<1>5. /\ report.null = FALSE /\ report.policy = m.policy
      /\ Extractable(report.report_id, 32) /\ report.report_id.val = m.report_id
      /\ Extractable(report.report_data, 64) /\ report.report_data.val = rd
      /\ Extractable(report.measurement, 48) /\ report.measurement.val = m.measurement
      /\ Extractable(report.host_data, 32) /\ report.host_data.val = m.host_data
  BY <1>3, <1>4
<1> HIDE DEF report, ev
<1> QED
  BY <1>1, <1>2, <1>5 DEF ParseSnp, ev

\* The id a machine has for itself: that of its file, or of its reports.
LEMMA LoadedId ==
    ASSUME NEW m \in Machines, m.tees # {}
    PROVE  load_for_tee(m) = IF Tdx \in m.tees THEN m.id_file ELSE m.report_id
<1> DEFINE p == ParseSnp(generate_evidence(m, Snp, [binding |-> 0, id |-> 0]))
<1>1. p.tee = Snp /\ p.report_id = m.report_id
  BY OwnReport
<1>2. instance_id(p) = m.report_id
  <2> HIDE DEF p
  <2> QED
    BY <1>1 DEF instance_id, Tdx, Snp
<1>3. detect_available_tee(m) = Tdx <=> Tdx \in m.tees
  BY MachineAssumption, ValueAssumption DEF detect_available_tee, Tdx, Snp
<1> HIDE DEF p
<1> QED
  BY <1>2, <1>3 DEF load_for_tee, p

\* What a machine generates is parsed, on TDX and on SNP.
LEMMA OwnIsParsed ==
    ASSUME NEW m \in Machines, m.tees # {}, NEW rd
    PROVE  ~Failed(Parse(generate_evidence(m, detect_available_tee(m), rd)))
<1> DEFINE tee == detect_available_tee(m)
           ev == generate_evidence(m, tee, rd)
<1>1. /\ ev.json = TRUE
      /\ ev.keys = IF tee = Tdx THEN {"quote"} ELSE {"attestation_report"}
      /\ ev.quote.str = IF tee = Tdx THEN "ok" ELSE "no string"
      /\ ev.quote.version = m.version /\ ev.quote.len = m.len
  BY Zenon DEF generate_evidence
<1>2. /\ m.version \in {4, 5} /\ m.len \in Nat /\ m.len >= TrueBody(m.version) + BODY_SIZE
      /\ tee \in {Tdx, Snp}
  BY MachineAssumption DEF detect_available_tee
<1> HIDE DEF ev, tee
<1>3. CASE tee = Tdx
  <2>1. detect_tee_type(ev) = Tdx
    BY <1>1, <1>3 DEF detect_tee_type
  <2>2. Parse(ev) = ParseTdx(ev)
    BY <1>1, <2>1, ValueAssumption, Zenon DEF Parse
  <2>3. LongEnough(ev.quote) /\ ~(body_offset(ev.quote.version) + BODY_SIZE > ev.quote.len)
    <3>1. /\ m.len >= HEADER_SIZE + BODY_SIZE
          /\ m.len >= body_offset(m.version) + BODY_SIZE
          /\ ~(body_offset(m.version) + BODY_SIZE > m.len)
      BY <1>2 DEF body_offset, TrueBody, HEADER_SIZE, BODY_SIZE
    <3> QED
      BY <1>1, <3>1, Zenon DEF LongEnough
  <2>4. ParseTdx(ev) = TdxQuote(ev.quote)
    BY <1>1, <1>2, <1>3, <2>3 DEF ParseTdx
  <2> QED
    BY <2>2, <2>4, Outcomes DEF ev, tee
<1>4. CASE tee = Snp
  <2>1. detect_tee_type(ev) = Snp
    BY <1>1, <1>4, Zenon DEF detect_tee_type, Tdx, Snp
  <2>2. Parse(ev) = ParseSnp(ev)
    BY <1>1, <2>1, ValueAssumption, Zenon DEF Parse, Tdx, Snp
  <2>3. ~Failed(ParseSnp(ev))
    BY <1>4, OwnReport DEF ev, Failed
  <2> QED
    BY <2>2, <2>3 DEF ev, tee
<1> QED
  BY <1>2, <1>3, <1>4

-----------------------------------------------------------------------------
\* What a verdict means.

\* The least of a non-empty set of positions is one of them.
LEMMA LeastPosition ==
    ASSUME NEW S \in SUBSET Nat, S # {}
    PROVE  Min(S) \in S
<1> DEFINE R == OpToRel(<, Nat)
<1>1. PICK x \in S : \A y \in S : ~(<<y, x>> \in R)
  <2>1. IsWellFoundedOn(R, Nat)
    BY NatLessThanWellFounded, Zenon
  <2> HIDE DEF R
  <2> QED
    BY <2>1, WFMin, Zenon
<1>2. \A y \in S : x <= y
  <2> SUFFICES ASSUME NEW y \in S PROVE x <= y
    OBVIOUS
  <2>1. ~(y < x)
    BY <1>1, Zenon DEF OpToRel
  <2> QED
    BY <2>1
<1> QED
  BY <1>2, Zenon DEF Min

\* The verdict is "Ok" exactly when every check passed, and else the error of a
\* check.
LEMMA AllPassed ==
    ASSUME NEW n \in Nat, NEW checks, DOMAIN checks = 1..n,
           \A i \in 1..n : checks[i][2] # "Ok"
    PROVE  /\ FirstError(checks) = "Ok" => \A i \in 1..n : checks[i][1]
           /\ (\A i \in 1..n : checks[i][1]) => FirstError(checks) = "Ok"
           /\ FirstError(checks) = "Ok" \/ \E i \in 1..n : FirstError(checks) = checks[i][2]
<1> DEFINE bad == {i \in DOMAIN checks : ~checks[i][1]}
<1>1. bad \in SUBSET Nat /\ bad \subseteq 1..n
  OBVIOUS
<1>2. FirstError(checks) = IF bad = {} THEN "Ok" ELSE checks[Min(bad)][2]
  BY DEF FirstError
<1>3. bad # {} => Min(bad) \in 1..n
  BY <1>1, LeastPosition, Zenon
<1>4. bad = {} <=> \A i \in 1..n : checks[i][1]
  BY Zenon
<1> HIDE DEF bad
<1> QED
  BY <1>2, <1>3, <1>4, Zenon

\* The two checks of verify_evidence.
LEMMA GossipChecks ==
    ASSUME NEW p
    PROVE  /\ GossipVerdict(p) = "Ok" <=>
                /\ verify_report_data(p, expected.binding)
                /\ instance_id(p) = expected.id
           /\ GossipVerdict(p) \in {"Ok", "NonceVerificationFailed", "IdMismatch"}
<1> DEFINE a == verify_report_data(p, expected.binding)
           b == instance_id(p) = expected.id
           checks == << <<a, "NonceVerificationFailed">>, <<b, "IdMismatch">> >>
<1>1. GossipVerdict(p) = FirstError(checks)
  BY Zenon DEF GossipVerdict
<1> HIDE DEF a, b
<1>2. /\ DOMAIN checks = 1..2
      /\ checks[1][2] = "NonceVerificationFailed" /\ checks[2][2] = "IdMismatch"
  OBVIOUS
<1>3. checks[1] = <<a, "NonceVerificationFailed">> /\ checks[2] = <<b, "IdMismatch">>
  OBVIOUS
<1>4. /\ <<a, "NonceVerificationFailed">>[1] = a
      /\ <<b, "IdMismatch">>[1] = b
  BY Zenon
<1>5. checks[1][1] = a /\ checks[2][1] = b
  BY <1>3, <1>4, Zenon
<1> HIDE DEF checks
<1>6. \A i \in 1..2 : checks[i][2] # "Ok"
  BY <1>2
<1>7. (\A i \in 1..2 : checks[i][1]) <=> a /\ b
  BY <1>5
<1>8. /\ FirstError(checks) = "Ok" <=> \A i \in 1..2 : checks[i][1]
      /\ FirstError(checks) = "Ok" \/ \E i \in 1..2 : FirstError(checks) = checks[i][2]
  BY <1>2, <1>6, AllPassed, Zenon
<1>9. FirstError(checks) \in {"Ok", "NonceVerificationFailed", "IdMismatch"}
  BY <1>2, <1>8
<1> QED
  BY <1>1, <1>7, <1>8, <1>9, Zenon DEF a, b

\* The checks of verified evidence that the properties are about: the TCB, and
\* the measurements.
LEMMA FullChecks ==
    ASSUME NEW p, NEW c
    PROVE  /\ FullVerdict(p, c) = "Ok" =>
                /\ IF p.tee = Tdx THEN tdx_verify_tcb(policy, c) ELSE snp_verify_tcb(policy, c)
                /\ measurement_hash(p) = trusted_hash(policy, p.tee)
           /\ FullVerdict(p, c) \in
                {"Ok", "NonceVerificationFailed", "DebugNotAllowed", "TcbOutdated",
                 "PlatformConstraint", "ParseError", "MeasurementMismatch"}
<1> DEFINE d1 == verify_report_data(p, expected.binding)
           d2 == verify_debug(p, policy.debug_allowed)
           d3 == IF p.tee = Tdx THEN tdx_verify_tcb(policy, c) ELSE snp_verify_tcb(policy, c)
           d4 == IF p.tee = Tdx THEN tdx_verify_platform(policy, c)
                 ELSE snp_verify_platform(policy, c)
           d5 == ~HexError(policy, p.tee)
           d6 == measurement_hash(p) = trusted_hash(policy, p.tee)
           checks == << <<d1, "NonceVerificationFailed">>, <<d2, "DebugNotAllowed">>,
                        <<d3, "TcbOutdated">>, <<d4, "PlatformConstraint">>,
                        <<d5, "ParseError">>, <<d6, "MeasurementMismatch">> >>
<1>1. FullVerdict(p, c) = FirstError(checks)
  BY Zenon DEF FullVerdict
<1> HIDE DEF d1, d2, d3, d4, d5, d6
<1>2. /\ DOMAIN checks = 1..6
      /\ checks[1][2] = "NonceVerificationFailed" /\ checks[2][2] = "DebugNotAllowed"
      /\ checks[3][2] = "TcbOutdated" /\ checks[4][2] = "PlatformConstraint"
      /\ checks[5][2] = "ParseError" /\ checks[6][2] = "MeasurementMismatch"
  OBVIOUS
<1>3. checks[3] = <<d3, "TcbOutdated">> /\ checks[6] = <<d6, "MeasurementMismatch">>
  OBVIOUS
<1>4. <<d3, "TcbOutdated">>[1] = d3 /\ <<d6, "MeasurementMismatch">>[1] = d6
  BY Zenon
<1>5. checks[3][1] = d3 /\ checks[6][1] = d6
  BY <1>3, <1>4, Zenon
<1> HIDE DEF checks
<1>6. \A i \in 1..6 : checks[i][2] # "Ok"
  BY <1>2
<1>7. (\A i \in 1..6 : checks[i][1]) => d3 /\ d6
  BY <1>5
<1>8. /\ FirstError(checks) = "Ok" => \A i \in 1..6 : checks[i][1]
      /\ FirstError(checks) = "Ok" \/ \E i \in 1..6 : FirstError(checks) = checks[i][2]
  BY <1>2, <1>6, AllPassed, Zenon
<1>9. FirstError(checks) \in
        {"Ok", "NonceVerificationFailed", "DebugNotAllowed", "TcbOutdated",
         "PlatformConstraint", "ParseError", "MeasurementMismatch"}
  BY <1>2, <1>8
<1> QED
  BY <1>1, <1>7, <1>8, <1>9, Zenon DEF d3, d6

\* The cast to u8 never makes a number larger.
LEMMA CastShrinks ==
    ASSUME NEW n \in Nat
    PROVE  u8(n) \in Nat /\ u8(n) <= n
  BY ValueAssumption DEF u8

-----------------------------------------------------------------------------
\* The invariant: where evidence stands, and what it came from.

\* What arrived is evidence of the machine for some address, whole or damaged.
Arrived ==
    /\ machine \in Machines /\ machine.tees # {}
    /\ \E a \in Addresses :
          evidence \in {generate_gossip_evidence(machine, a)}
                          \union Defects(generate_gossip_evidence(machine, a))

Parsed == parsed = Parse(evidence) /\ ~Failed(parsed)

\* The verdict stands for the checks of the use on what was parsed.
Checked ==
    /\ claims \in Claims
    /\ verdict = IF use = "gossip" THEN GossipVerdict(parsed) ELSE FullVerdict(parsed, claims)

EvidenceInv ==
    /\ stage \in {"idle", "parse", "signature", "done"}
    /\ stage = "idle" => use = "none"
    /\ stage # "idle" => /\ Arrived
                         /\ \/ use = "gossip"
                            \/ use = "full" /\ policy \in Policies
    /\ stage \in {"idle", "parse"} => parsed = Missing /\ claims = Missing /\ verdict = "none"
    /\ stage = "signature" => Parsed /\ claims = Missing /\ verdict = "none"
    /\ stage = "done" =>
          \/ parsed = Missing /\ claims = Missing
                /\ verdict \in {"InvalidQuoteFormat", "ParseError"}
          \/ Parsed /\ claims = Missing /\ verdict = "AttestationFailed"
          \/ Parsed /\ Checked

\* Evidence that arrived carries an address and the machine's own id.
LEMMA ArrivedCarries ==
    ASSUME Arrived
    PROVE  \E a \in Addresses :
              Carries(evidence, machine, [binding |-> a, id |-> load_for_tee(machine)])
  BY Carried DEF Arrived, generate_gossip_evidence

\* Parsing what arrived gives no panic.
LEMMA ArrivedParses ==
    ASSUME Arrived
    PROVE  Refused(Parse(evidence)) \/ ~Failed(Parse(evidence))
  BY ArrivedCarries, TdxParsed, SnpParsed, Zenon DEF Arrived

\* EvidenceInv is inductive.
LEMMA EvidenceStep ==
    ASSUME EvidenceInv, [EvNext]_evVars
    PROVE  EvidenceInv'
<1>1. ASSUME NEW m \in Machines, NEW a \in Addresses, NEW b, NEW id, stage = "idle",
             ReceiveAdvertisement(m, a, b, id)
      PROVE  EvidenceInv'
  <2>1. /\ stage' = "parse" /\ use' = "gossip" /\ machine' = m /\ m.tees # {}
        /\ parsed' = Missing /\ claims' = Missing /\ verdict' = "none"
    BY <1>1 DEF EvidenceInv, ReceiveAdvertisement
  <2>2. evidence' \in {generate_gossip_evidence(m, a)} \union Defects(generate_gossip_evidence(m, a))
    BY <1>1 DEF ReceiveAdvertisement
  <2>3. Arrived'
    BY <2>1, <2>2 DEF Arrived
  <2> QED
    BY <2>1, <2>3 DEF EvidenceInv
<1>2. ASSUME NEW m \in Machines, NEW a \in Addresses, NEW b, NEW pol \in Policies, stage = "idle",
             ReceiveEvidence(m, a, b, pol)
      PROVE  EvidenceInv'
  <2>1. /\ stage' = "parse" /\ use' = "full" /\ machine' = m /\ m.tees # {} /\ policy' = pol
        /\ parsed' = Missing /\ claims' = Missing /\ verdict' = "none"
    BY <1>2 DEF EvidenceInv, ReceiveEvidence
  <2>2. evidence' = generate_gossip_evidence(m, a)
    BY <1>2 DEF ReceiveEvidence
  <2>3. Arrived'
    BY <2>1, <2>2 DEF Arrived
  <2> QED
    BY <2>1, <2>3 DEF EvidenceInv
<1>3. CASE ParseEvidence
  <2> DEFINE p == IF expected.id = BadHex THEN Err("ParseError") ELSE Parse(evidence)
  <2>1. stage = "parse" /\ Arrived /\ parsed = Missing /\ claims = Missing /\ verdict = "none"
    BY <1>3 DEF EvidenceInv, ParseEvidence
  <2>2. UNCHANGED <<use, machine, evidence, policy, claims>>
    BY <1>3 DEF ParseEvidence
  <2>3. Arrived'
    BY <2>1, <2>2 DEF Arrived
  <2>4. Refused(p) \/ (p = Parse(evidence) /\ ~Failed(p))
    <3>1. Refused(Err("ParseError"))
      BY Outcomes DEF Refused
    <3>2. p = Err("ParseError") \/ p = Parse(evidence)
      OBVIOUS
    <3> HIDE DEF p
    <3> QED
      BY <2>1, <3>1, <3>2, ArrivedParses
  <2>5. IF Failed(p) THEN stage' = "done" /\ verdict' = p.err /\ parsed' = parsed
        ELSE stage' = "signature" /\ parsed' = p /\ verdict' = verdict
    BY <1>3 DEF ParseEvidence
  <2> HIDE DEF p
  <2>6. CASE Failed(p)
    BY <2>1, <2>2, <2>3, <2>4, <2>5, <2>6 DEF EvidenceInv, Refused
  <2>7. CASE ~Failed(p)
    <3>1. Parsed'
      BY <2>2, <2>4, <2>5, <2>7 DEF Parsed, Refused
    <3> QED
      BY <2>1, <2>2, <2>3, <2>5, <2>7, <3>1 DEF EvidenceInv
  <2> QED
    BY <2>6, <2>7
<1>4. CASE SignatureFails
  <2>1. /\ stage = "signature" /\ stage' = "done" /\ verdict' = "AttestationFailed"
        /\ UNCHANGED <<use, machine, evidence, policy, parsed, claims>>
    BY <1>4 DEF SignatureFails
  <2> QED
    BY <2>1 DEF EvidenceInv, Arrived, Parsed
<1>5. ASSUME NEW c \in Claims, SignatureVerified(c)
      PROVE  EvidenceInv'
  <2>1. /\ stage = "signature" /\ stage' = "done" /\ claims' = c
        /\ UNCHANGED <<use, machine, evidence, expected, policy, parsed>>
    BY <1>5 DEF SignatureVerified
  <2>2. GossipVerdict(parsed)' = GossipVerdict(parsed)
    BY <2>1 DEF GossipVerdict
  <2>3. FullVerdict(parsed, claims)' = FullVerdict(parsed, c)
    BY <2>1 DEF FullVerdict
  <2>4. verdict' = IF use = "gossip" THEN GossipVerdict(parsed) ELSE FullVerdict(parsed, c)
    BY <1>5 DEF SignatureVerified
  <2>5. Checked'
    BY <2>1, <2>2, <2>3, <2>4, Zenon DEF Checked
  <2>6. Arrived' /\ Parsed'
    BY <2>1 DEF EvidenceInv, Arrived, Parsed
  <2> QED
    BY <2>1, <2>5, <2>6 DEF EvidenceInv
<1>6. CASE UNCHANGED evVars
  <2>1. UNCHANGED <<stage, use, machine, evidence, expected, policy, parsed, claims, verdict>>
    BY <1>6 DEF evVars
  <2>2. Arrived' = Arrived /\ Parsed' = Parsed
    BY <2>1 DEF Arrived, Parsed
  <2>3. Checked => Checked'
    <3>1. GossipVerdict(parsed)' = GossipVerdict(parsed)
      BY <2>1 DEF GossipVerdict
    <3>2. FullVerdict(parsed, claims)' = FullVerdict(parsed, claims)
      BY <2>1 DEF FullVerdict
    <3> QED
      BY <2>1, <3>1, <3>2, Zenon DEF Checked
  <2> QED
    BY <2>1, <2>2, <2>3 DEF EvidenceInv
<1> QED
  BY <1>1, <1>2, <1>3, <1>4, <1>5, <1>6 DEF EvNext

\* EvidenceInv holds in every behaviour of the specification.
LEMMA EvidenceInvariant == EvSpec => []EvidenceInv
<1>1. EvInit => EvidenceInv
  BY DEF EvInit, EvidenceInv
<1>2. EvidenceInv /\ [EvNext]_evVars => EvidenceInv'
  BY EvidenceStep
<1> QED
  BY <1>1, <1>2, PTL DEF EvSpec

\* What was parsed is of the TEE of the machine, and is what the machine put in.
LEMMA ParsedIsTheMachines ==
    ASSUME Arrived, Parsed
    PROVE  /\ report_data_binding(parsed) \in Addresses
           /\ instance_id(parsed) = load_for_tee(machine)
           /\ Tdx \in machine.tees =>
                /\ parsed.tee = Tdx
                /\ parsed.rtmrs = [i \in 0..3 |-> machine.td[RtmrName[i + 1]]]
           /\ Tdx \notin machine.tees =>
                /\ parsed.tee = Snp
                /\ parsed.measurement = machine.measurement
                /\ parsed.host_data = machine.host_data
                /\ parsed.policy = evidence.attestation_report.policy
                /\ evidence.attestation_report.policy # Missing
                /\ extract_bytes(evidence.attestation_report.measurement)
                /\ extract_bytes(evidence.attestation_report.host_data)
                /\ evidence.attestation_report.measurement.val = machine.measurement
                /\ evidence.attestation_report.host_data.val = machine.host_data
<1>1. machine \in Machines /\ machine.tees # {}
  BY DEF Arrived
<1>2. PICK a \in Addresses : Carries(evidence, machine, [binding |-> a, id |-> load_for_tee(machine)])
  BY ArrivedCarries
<1> DEFINE rd == [binding |-> a, id |-> load_for_tee(machine)]
<1>3. rd.binding = a /\ rd.id = load_for_tee(machine)
  OBVIOUS
<1>4. parsed = Parse(evidence) /\ ~Failed(Parse(evidence)) /\ ~Refused(Parse(evidence))
  BY DEF Parsed, Refused
<1>5. Carries(evidence, machine, rd)
  BY <1>2
<1> HIDE DEF rd
<1>6. CASE Tdx \in machine.tees
  <2>1. /\ parsed.tee = Tdx /\ parsed.report_data = rd
        /\ parsed.rtmrs = [i \in 0..3 |-> machine.td[RtmrName[i + 1]]]
    BY <1>1, <1>4, <1>5, <1>6, TdxParsed
  <2> QED
    BY <1>3, <1>6, <2>1 DEF report_data_binding, instance_id
<1>7. CASE Tdx \notin machine.tees
  <2>1. /\ parsed.tee = Snp
        /\ parsed.report_id = machine.report_id /\ parsed.report_data = rd
        /\ parsed.measurement = machine.measurement /\ parsed.host_data = machine.host_data
        /\ parsed.policy = evidence.attestation_report.policy
        /\ evidence.attestation_report.policy # Missing
        /\ extract_bytes(evidence.attestation_report.measurement)
        /\ extract_bytes(evidence.attestation_report.host_data)
    BY <1>1, <1>4, <1>5, <1>7, SnpParsed
  <2>2. /\ evidence.attestation_report.measurement.val = machine.measurement
        /\ evidence.attestation_report.host_data.val = machine.host_data
    BY <1>5 DEF Carries
  <2>3. instance_id(parsed) = load_for_tee(machine)
    BY <1>1, <1>7, <2>1, LoadedId DEF instance_id, Tdx, Snp
  <2> QED
    BY <1>3, <1>7, <2>1, <2>2, <2>3 DEF report_data_binding
<1> QED
  BY <1>6, <1>7

-----------------------------------------------------------------------------
\* The theorems.

\* State stays well typed; in particular parse_raw never slices past the end of a
\* quote, whatever length or version it comes with.
THEOREM EvidenceTypeCorrect == EvSpec => []EvTypeOK
<1>1. EvidenceInv => EvTypeOK
  <2> SUFFICES ASSUME EvidenceInv PROVE EvTypeOK
    OBVIOUS
  <2>1. CASE stage # "done"
    BY <2>1 DEF EvidenceInv, EvTypeOK
  <2>2. CASE stage = "done"
    <3>1. Checked => verdict \in {"Ok", "NonceVerificationFailed", "IdMismatch", "DebugNotAllowed",
                        "TcbOutdated", "PlatformConstraint", "ParseError", "MeasurementMismatch"}
      BY GossipChecks, FullChecks DEF Checked
    <3> QED
      BY <2>2, <3>1 DEF EvidenceInv, EvTypeOK
  <2> QED
    BY <2>1, <2>2
<1> QED
  BY <1>1, EvidenceInvariant, PTL

\* What generate_gossip_evidence and load_for_tee put together verify_evidence
\* accepts, once the signature is confirmed, on every machine.
THEOREM OwnAdvertisementsVerify == EvSpec => []OwnAdvertisementVerifies
<1>1. EvidenceInv => OwnAdvertisementVerifies
  <2> SUFFICES ASSUME EvidenceInv, use = "gossip", stage = "done", claims # Missing,
                      evidence = generate_gossip_evidence(machine, expected.binding),
                      expected.id = load_for_tee(machine)
               PROVE  verdict = "Ok"
    BY Zenon DEF OwnAdvertisementVerifies, Accepted
  <2>1. Arrived /\ Parsed /\ verdict = GossipVerdict(parsed)
    BY DEF EvidenceInv, Checked
  <2>2. instance_id(parsed) = expected.id
    BY <2>1, ParsedIsTheMachines
  <2>3. report_data_binding(parsed) = expected.binding
    <3> DEFINE rd == [binding |-> expected.binding, id |-> load_for_tee(machine)]
    <3>1. machine \in Machines
      BY <2>1 DEF Arrived
    <3>2. evidence = generate_evidence(machine, detect_available_tee(machine), rd)
      BY DEF generate_gossip_evidence
    <3>3. rd.binding = expected.binding
      OBVIOUS
    <3> HIDE DEF rd
    <3>4. Carries(evidence, machine, rd)
      BY <3>1, <3>2, Carried
    <3>5. parsed = Parse(evidence) /\ ~Refused(Parse(evidence))
      BY <2>1 DEF Parsed, Refused
    <3>6. parsed.report_data = rd
      <4>1. CASE Tdx \in machine.tees
        BY <3>1, <3>4, <3>5, <4>1, TdxParsed, Zenon
      <4>2. CASE Tdx \notin machine.tees
        BY <3>1, <3>4, <3>5, <4>2, SnpParsed, SMTT(30)
      <4> QED
        BY <4>1, <4>2
    <3> QED
      BY <3>3, <3>6 DEF report_data_binding
  <2> QED
    BY <2>1, <2>2, <2>3, GossipChecks DEF verify_report_data
<1> QED
  BY <1>1, EvidenceInvariant, PTL

\* An advertisement that verify_evidence accepts names the instance of the machine
\* that made the evidence, and the addresses bound into it.
THEOREM AdvertisementsAreBound == EvSpec => []AcceptedAdvertisementIsBound
<1>1. EvidenceInv => AcceptedAdvertisementIsBound
  <2> SUFFICES ASSUME EvidenceInv, use = "gossip", verdict = "Ok"
               PROVE  /\ expected.binding = report_data_binding(parsed)
                      /\ expected.id = IF Tdx \in machine.tees THEN machine.id_file
                                       ELSE machine.report_id
    BY Zenon DEF AcceptedAdvertisementIsBound, Accepted
  <2>1. Arrived /\ Parsed /\ GossipVerdict(parsed) = "Ok"
    BY DEF EvidenceInv, Checked
  <2>2. report_data_binding(parsed) = expected.binding /\ instance_id(parsed) = expected.id
    BY <2>1, GossipChecks DEF verify_report_data
  <2> QED
    BY <2>1, <2>2, ParsedIsTheMachines, LoadedId DEF Arrived
<1> QED
  BY <1>1, EvidenceInvariant, PTL

\* The hash of what was parsed is of the machine's own registers.
LEMMA HashOfTheMachine ==
    ASSUME Arrived, Parsed
    PROVE  measurement_hash(parsed) =
              IF Tdx \in machine.tees THEN [i \in 1..4 |-> machine.td[RtmrName[i]]]
              ELSE snp_hash(machine.measurement, machine.host_data)
<1>1. CASE Tdx \in machine.tees
  <2>1. parsed.tee = Tdx /\ parsed.rtmrs = [i \in 0..3 |-> machine.td[RtmrName[i + 1]]]
    BY <1>1, ParsedIsTheMachines
  <2>2. measurement_hash(parsed) = [i \in 1..4 |-> parsed.rtmrs[i - 1]]
    BY <2>1 DEF measurement_hash
  <2>3. \A i \in 1..4 : parsed.rtmrs[i - 1] = machine.td[RtmrName[i]]
    <3> SUFFICES ASSUME NEW i \in 1..4 PROVE parsed.rtmrs[i - 1] = machine.td[RtmrName[i]]
      OBVIOUS
    <3>1. i - 1 \in 0..3 /\ (i - 1) + 1 = i
      OBVIOUS
    <3> QED
      BY <2>1, <3>1
  <2> QED
    BY <1>1, <2>2, <2>3
<1>2. CASE Tdx \notin machine.tees
  BY <1>2, ParsedIsTheMachines DEF measurement_hash, Tdx, Snp
<1> QED
  BY <1>1, <1>2

\* The same for a machine's own evidence: what get_measurement_hash computes.
LEMMA OwnHash ==
    ASSUME NEW m \in Machines, m.tees # {}
    PROVE  get_measurement_hash(m) =
              IF Tdx \in m.tees THEN [i \in 1..4 |-> m.td[RtmrName[i]]]
              ELSE snp_hash(m.measurement, m.host_data)
<1> DEFINE rd == [binding |-> 0, id |-> 0]
           ev == generate_evidence(m, detect_available_tee(m), rd)
           p == Parse(ev)
<1>1. get_measurement_hash(m) = measurement_hash(p)
  BY Zenon DEF get_measurement_hash
<1>2. ~Failed(p) /\ ~Refused(p)
  BY OwnIsParsed DEF Refused
<1>3. Carries(ev, m, rd)
  BY Carried
<1> HIDE DEF rd
<1>4. CASE Tdx \in m.tees
  <2>1. p.tee = Tdx /\ p.rtmrs = [i \in 0..3 |-> m.td[RtmrName[i + 1]]]
    <3> HIDE DEF ev
    <3> QED
      BY <1>2, <1>3, <1>4, TdxParsed
  <2> HIDE DEF p
  <2>2. measurement_hash(p) = [i \in 1..4 |-> p.rtmrs[i - 1]]
    BY <2>1 DEF measurement_hash
  <2>3. \A i \in 1..4 : p.rtmrs[i - 1] = m.td[RtmrName[i]]
    <3> SUFFICES ASSUME NEW i \in 1..4 PROVE p.rtmrs[i - 1] = m.td[RtmrName[i]]
      OBVIOUS
    <3>1. i - 1 \in 0..3 /\ (i - 1) + 1 = i
      OBVIOUS
    <3> QED
      BY <2>1, <3>1
  <2> QED
    BY <1>1, <1>4, <2>2, <2>3
<1>5. CASE Tdx \notin m.tees
  <2>1. p.tee = Snp /\ p.measurement = m.measurement /\ p.host_data = m.host_data
    <3> HIDE DEF ev
    <3> QED
      BY <1>2, <1>3, <1>5, SnpParsed
  <2> HIDE DEF p
  <2> QED
    BY <1>1, <1>5, <2>1 DEF measurement_hash, Tdx, Snp
<1> QED
  BY <1>4, <1>5

\* The hash a node looks up for a peer is the one the peer computed of itself, of
\* the machine's own registers, and snp_info shows the same hash and debug flag.
THEOREM PeersAgreeOnTheHash == EvSpec => []PeersSeeOwnHash
<1>1. EvidenceInv => PeersSeeOwnHash
  <2> DEFINE r == evidence.attestation_report
             Own == IF Tdx \in machine.tees THEN [i \in 1..4 |-> machine.td[RtmrName[i]]]
                    ELSE IF machine.host_data = 0 THEN <<machine.measurement>>
                    ELSE <<machine.measurement, machine.host_data>>
  <2> SUFFICES ASSUME EvidenceInv, parsed # Missing
               PROVE  /\ measurement_hash(parsed) = get_measurement_hash(machine)
                      /\ measurement_hash(parsed) = Own
                      /\ parsed.tee = Snp => /\ print_measurement(r) = measurement_hash(parsed)
                                             /\ print_policy(r).DEBUG = is_debug(parsed)
    BY Zenon DEF PeersSeeOwnHash
  <2>1. Arrived /\ Parsed
    BY DEF EvidenceInv
  <2>2. measurement_hash(parsed) = Own /\ get_measurement_hash(machine) = Own
    BY <2>1, HashOfTheMachine, OwnHash DEF Arrived, snp_hash
  <2>3. parsed.tee = Snp => print_measurement(r) = measurement_hash(parsed)
    <3>1. ASSUME parsed.tee = Snp
          PROVE  Tdx \notin machine.tees
      BY <2>1, <3>1, ParsedIsTheMachines, SMTT(30) DEF Tdx, Snp
    <3>2. ASSUME Tdx \notin machine.tees
          PROVE  print_measurement(r) = Own
      BY <2>1, <3>2, ParsedIsTheMachines DEF print_measurement
    <3> HIDE DEF Own
    <3> QED
      BY <2>2, <3>1, <3>2
  <2>4. ASSUME parsed.tee = Snp
        PROVE  print_policy(r).DEBUG = is_debug(parsed)
    <3>1. parsed.policy = r.policy /\ r.policy # Missing
      BY <2>1, <2>4, ParsedIsTheMachines DEF Tdx, Snp
    <3>2. is_debug(parsed) = (19 \in r.policy)
      BY <2>4, <3>1 DEF is_debug, Tdx, Snp
    <3>3. print_policy(r).DEBUG = (19 \in r.policy)
      BY <3>1 DEF print_policy
    <3> QED
      BY <3>2, <3>3, Zenon
  <2> HIDE DEF Own, r
  <2>5. measurement_hash(parsed) = get_measurement_hash(machine)
    BY <2>2
  <2> QED
    BY <2>2, <2>3, <2>4, <2>5, Zenon
<1> QED
  BY <1>1, EvidenceInvariant, PTL

\* verify_tcb only passes SVNs that reach the minimum before the cast to u8, and a
\* missing SNP claim only passes a minimum of 0.
THEOREM AcceptedTcbsAreRecent == EvSpec => []AcceptedTcbIsRecent
<1>1. EvidenceInv => AcceptedTcbIsRecent
  <2> SUFFICES ASSUME EvidenceInv, use = "full", verdict = "Ok"
               PROVE  AcceptedTcbIsRecent
    BY Zenon DEF AcceptedTcbIsRecent, Accepted
  <2>1. /\ Arrived /\ Parsed /\ claims \in Claims /\ policy \in Policies
        /\ FullVerdict(parsed, claims) = "Ok"
    BY DEF EvidenceInv, Checked
  <2>2. IF parsed.tee = Tdx THEN tdx_verify_tcb(policy, claims) ELSE snp_verify_tcb(policy, claims)
    BY <2>1, FullChecks, Zenon
  <2>3. CASE parsed.tee = Snp
    <3>1. snp_verify_tcb(policy, claims)
      BY <2>2, <2>3 DEF Tdx, Snp
    <3>2. ASSUME NEW k \in SvnComponents, policy.svn[k] # Missing, policy.svn[k] # 0
          PROVE  claims.svn[k] # Missing /\ claims.svn[k] >= policy.svn[k]
      <4> DEFINE min == policy.svn[k]
                 n == claims.svn[k]
      <4>1. u8(Reported(claims, k)) >= min
        BY <3>1, <3>2 DEF snp_verify_tcb
      <4>2. min \in Nat \ {0} /\ n \in Nat \union {Missing}
        BY <2>1, <3>2, SvnAssumption
      <4>3. Reported(claims, k) = IF n = Missing THEN 0 ELSE n
        BY DEF Reported
      <4> HIDE DEF min, n
      <4>4. CASE n = Missing
        <5>1. u8(0) = 0
          BY CastShrinks
        <5> QED
          BY <4>1, <4>2, <4>3, <4>4, <5>1
      <4>5. CASE n # Missing
        <5>1. n \in Nat /\ Reported(claims, k) = n
          BY <4>2, <4>3, <4>5
        <5>2. u8(n) \in Nat /\ u8(n) <= n
          BY <5>1, CastShrinks
        <5>3. u8(n) >= min
          BY <4>1, <5>1
        <5>4. n >= min
          BY <4>2, <5>1, <5>2, <5>3
        <5> QED
          BY <4>5, <5>4 DEF n, min
      <4> QED
        BY <4>4, <4>5
    <3> QED
      BY <2>3, <3>2 DEF AcceptedTcbIsRecent
  <2>4. CASE parsed.tee # Snp
    <3>1. parsed.tee = Tdx
      BY <2>1, <2>4, ParsedIsTheMachines
    <3>2. tdx_verify_tcb(policy, claims)
      BY <2>2, <3>1
    <3> QED
      BY <2>4, <3>2 DEF AcceptedTcbIsRecent, tdx_verify_tcb
  <2> QED
    BY <2>3, <2>4
<1> QED
  BY <1>1, EvidenceInvariant, PTL

\* verify_measurements only passes the measurements of the machine that made the
\* evidence, where no host data and zero are the same.
THEOREM AcceptedMeasurementsAreTrusted == EvSpec => []AcceptedMeasurementIsTrusted
<1>1. EvidenceInv => AcceptedMeasurementIsTrusted
  <2> SUFFICES ASSUME EvidenceInv, use = "full", verdict = "Ok"
               PROVE  AcceptedMeasurementIsTrusted
    BY Zenon DEF AcceptedMeasurementIsTrusted, Accepted
  <2>1. Arrived /\ Parsed /\ FullVerdict(parsed, claims) = "Ok"
    BY DEF EvidenceInv, Checked
  <2>2. measurement_hash(parsed) = trusted_hash(policy, parsed.tee)
    BY <2>1, FullChecks, Zenon
  <2>3. CASE Tdx \in machine.tees
    <3>1. parsed.tee = Tdx
      BY <2>1, <2>3, ParsedIsTheMachines
    <3>2. [i \in 1..4 |-> machine.td[RtmrName[i]]] = [i \in 1..4 |-> policy.rtmrs[i - 1]]
      BY <2>1, <2>2, <2>3, <3>1, HashOfTheMachine DEF trusted_hash
    <3>3. \A i \in 1..4 : machine.td[RtmrName[i]] = policy.rtmrs[i - 1]
      <4> SUFFICES ASSUME NEW i \in 1..4 PROVE machine.td[RtmrName[i]] = policy.rtmrs[i - 1]
        OBVIOUS
      <4> QED
        BY <3>2, Zenon
    <3>4. ASSUME NEW i \in 0..3
          PROVE  machine.td[RtmrName[i + 1]] = policy.rtmrs[i]
      <4>1. i + 1 \in 1..4 /\ (i + 1) - 1 = i
        OBVIOUS
      <4> QED
        BY <3>3, <4>1
    <3> QED
      BY <3>1, <3>4 DEF AcceptedMeasurementIsTrusted
  <2>4. CASE Tdx \notin machine.tees
    <3> DEFINE host == IF policy.host_data = Missing THEN 0 ELSE policy.host_data
    <3>1. parsed.tee # Tdx
      BY <2>1, <2>4, ParsedIsTheMachines DEF Tdx, Snp
    <3>2. snp_hash(machine.measurement, machine.host_data) = snp_hash(policy.measurement, host)
      BY <2>1, <2>2, <2>4, <3>1, HashOfTheMachine DEF trusted_hash
    <3>3. \A x, h, y, g : snp_hash(x, h) = snp_hash(y, g) => x = y /\ h = g
      BY DEF snp_hash
    <3> HIDE DEF host
    <3>4. machine.measurement = policy.measurement /\ machine.host_data = host
      BY <3>2, <3>3
    <3> QED
      BY <3>1, <3>4 DEF AcceptedMeasurementIsTrusted, host
  <2> QED
    BY <2>3, <2>4
<1> QED
  BY <1>1, EvidenceInvariant, PTL

-----------------------------------------------------------------------------
\* The loop of parse_pem_chain.

\* A non-empty set of numbers has a least one.
LEMMA Least ==
    ASSUME NEW S \in SUBSET Nat, S # {}
    PROVE  \E x \in S : \A y \in S : x <= y
<1> DEFINE R == OpToRel(<, Nat)
<1>1. PICK x \in S : \A y \in S : ~(<<y, x>> \in R)
  <2>1. IsWellFoundedOn(R, Nat)
    BY NatLessThanWellFounded, Zenon
  <2> HIDE DEF R
  <2> QED
    BY <2>1, WFMin, Zenon
<1>2. \A y \in S : x <= y
  <2> SUFFICES ASSUME NEW y \in S PROVE x <= y
    OBVIOUS
  <2>1. ~(y < x)
    BY <1>1, Zenon DEF OpToRel
  <2> QED
    BY <2>1
<1> QED
  BY <1>2

\* What the loop makes of block n when f has the results up to there.
After(chain, f, n) ==
    IF n = 0 THEN <<>>
    ELSE IF Parses(chain[n]) THEN Append(f[n - 1], chain[n]) ELSE f[n - 1]

\* The loop has a result after every block.
LEMMA LoopRuns ==
    ASSUME NEW chain, NEW n \in Nat
    PROVE  \E f : f = [i \in 0..n |-> After(chain, f, i)]
<1> DEFINE Is(f, k) == f = [i \in 0..k |-> After(chain, f, i)]
           S == {k \in Nat : ~\E f : Is(f, k)}
<1>1. SUFFICES ASSUME S # {} PROVE FALSE
  OBVIOUS
<1>2. PICK k \in S : \A y \in S : k <= y
  BY <1>1, Least, Zenon
<1>3. CASE k = 0
  <2> DEFINE f == [i \in 0..0 |-> <<>>]
  <2>1. Is(f, 0)
    BY DEF After
  <2> QED
    BY <1>2, <1>3, <2>1
<1>4. CASE k # 0
  <2>1. k - 1 \in Nat /\ k - 1 \notin S
    BY <1>2, <1>4
  <2>2. PICK g : Is(g, k - 1)
    BY <2>1
  <2> DEFINE f == [i \in 0..k |-> IF i <= k - 1 THEN g[i] ELSE After(chain, g, k)]
  <2>3. \A i \in 0..k : f[i] = After(chain, f, i)
    <3> SUFFICES ASSUME NEW i \in 0..k PROVE f[i] = After(chain, f, i)
      OBVIOUS
    <3>1. i # 0 => i - 1 \in 0..(k - 1) /\ f[i - 1] = g[i - 1]
      OBVIOUS
    <3>2. After(chain, f, i) = After(chain, g, i)
      BY <3>1 DEF After
    <3>3. f[i] = After(chain, g, i)
      <4>1. CASE i <= k - 1
        <5>1. g[i] = After(chain, g, i)
          BY <2>2, <4>1
        <5> QED
          BY <4>1, <5>1
      <4>2. CASE i = k
        BY <4>2
      <4> QED
        BY <4>1, <4>2
    <3> QED
      BY <3>2, <3>3
  <2>4. DOMAIN f = 0..k
    OBVIOUS
  <2>5. f = [i \in 0..k |-> f[i]]
    BY <2>4
  <2> HIDE DEF f
  <2>6. Is(f, k)
    BY <2>3, <2>5
  <2> QED
    BY <1>2, <2>6
<1> QED
  BY <1>3, <1>4

\* One step of the loop.
LEMMA PushedDef ==
    ASSUME NEW chain, Len(chain) \in Nat
    PROVE  \A n \in 0..Len(chain) : Pushed(chain)[n] = After(chain, Pushed(chain), n)
<1> DEFINE Is(f) == f = [i \in 0..Len(chain) |-> After(chain, f, i)]
<1>1. Pushed(chain) = CHOOSE f : Is(f)
  BY DEF Pushed, After
<1>2. \E f : Is(f)
  BY LoopRuns
<1>3. Is(Pushed(chain))
  <2> HIDE DEF Is
  <2> QED
    BY <1>1, <1>2
<1> QED
  BY <1>3

Cert == Nat \X BOOLEAN

\* s is what t begins with.
Begins(s, t) == \E n \in 0..Len(t) : s = SubSeq(t, 1, n)

\* A beginning stays one when the longer sequence grows.
LEMMA BeginningGrows ==
    ASSUME NEW s, NEW t \in Seq(Cert), NEW x \in Cert, Begins(s, t)
    PROVE  Begins(s, Append(t, x))
<1> HIDE DEF Cert
<1>1. PICK n \in 0..Len(t) : s = SubSeq(t, 1, n)
  BY DEF Begins
<1>2. Append(t, x) \in Seq(Cert) /\ Len(Append(t, x)) = Len(t) + 1 /\ Len(t) \in Nat
  OBVIOUS
<1>3. SubSeq(Append(t, x), 1, n) = SubSeq(t, 1, n)
  <2>1. \A i \in 1..n : Append(t, x)[i] = t[i]
    BY <1>2
  <2> QED
    BY <1>2, <2>1
<1> QED
  BY <1>1, <1>2, <1>3 DEF Begins

\* The certificates of some blocks are a beginning of those of more.
LEMMA PushedGrows ==
    ASSUME NEW chain \in Seq(Cert), NEW n \in 0..Len(chain)
    PROVE  /\ Pushed(chain)[n] \in Seq(Cert)
           /\ \A k \in 0..n : Begins(Pushed(chain)[k], Pushed(chain)[n])
<1> HIDE DEF Cert
<1> DEFINE certs == Pushed(chain)
           Grown(m) == certs[m] \in Seq(Cert) /\ \A k \in 0..m : Begins(certs[k], certs[m])
           S == {m \in 0..Len(chain) : ~Grown(m)}
<1>1. Len(chain) \in Nat
  OBVIOUS
<1>2. SUFFICES ASSUME S # {} PROVE FALSE
  OBVIOUS
<1>3. S \in SUBSET Nat
  OBVIOUS
<1>4. PICK m \in S : \A y \in S : m <= y
  <2> HIDE DEF S
  <2> QED
    BY <1>2, <1>3, Least
<1>5. certs[m] = After(chain, certs, m)
  BY <1>1, PushedDef
<1> HIDE DEF certs
<1>6. \A s \in Seq(Cert) : Begins(s, s)
  BY DEF Begins
<1>7. CASE m = 0
  <2>1. certs[0] = <<>>
    BY <1>5, <1>7 DEF After
  <2>2. certs[0] \in Seq(Cert)
    <3>1. <<>> \in Seq(Cert)
      OBVIOUS
    <3> QED
      BY <2>1, <3>1, Zenon
  <2>3. \A k \in 0..0 : k = 0
    OBVIOUS
  <2>4. Grown(0)
    BY <1>6, <2>2, <2>3, Zenon
  <2> QED
    BY <1>4, <1>7, <2>4
<1>8. CASE m # 0
  <2>1. m - 1 \in 0..Len(chain) /\ m - 1 \notin S /\ m \in 1..Len(chain)
    BY <1>1, <1>4, <1>8
  <2>2. Grown(m - 1)
    BY <2>1
  <2>3. chain[m] \in Cert
    BY <2>1
  <2>4. certs[m] = certs[m - 1] \/ certs[m] = Append(certs[m - 1], chain[m])
    BY <1>5, <1>8 DEF After
  <2>5. certs[m] \in Seq(Cert)
    <3>1. Append(certs[m - 1], chain[m]) \in Seq(Cert)
      BY <2>2, <2>3, AppendProperties
    <3> QED
      BY <2>2, <2>4, <3>1, Zenon
  <2>6. ASSUME NEW k \in 0..m PROVE Begins(certs[k], certs[m])
    <3>1. CASE k = m
      BY <1>6, <2>5, <3>1
    <3>2. CASE k # m
      <4>1. k \in 0..(m - 1)
        BY <2>1, <3>2
      <4>2. Begins(certs[k], certs[m - 1])
        BY <2>2, <4>1
      <4>3. certs[k] \in Seq(Cert)
        <5>1. k \in 0..Len(chain) /\ k \notin S
          BY <1>4, <2>1, <4>1
        <5> QED
          BY <5>1
      <4> QED
        BY <2>2, <2>3, <2>4, <4>2, <4>3, BeginningGrows, Zenon
    <3> QED
      BY <3>1, <3>2
  <2>7. Grown(m)
    BY <2>5, <2>6
  <2> QED
    BY <1>4, <2>7
<1> QED
  BY <1>7, <1>8

-----------------------------------------------------------------------------
\* What the parsers return, whatever the numbers of the quote.

\* A quote that may be damaged: its numbers are unsigned.
Numbers(q) ==
    /\ q.len \in Nat /\ q.sig_len \in Nat /\ q.csize \in Nat /\ q.nsize \in Nat /\ q.auth \in Nat
    /\ q.chain \in Seq(Cert)

\* Results of a parser that reads from a chain: an error, or a beginning of it.
OfChain(r, chain) ==
    r = Bad \/ \E k \in 0..Len(chain) : r = Chain(Pushed(chain)[k])

\* The three kinds of results are different.
LEMMA Results ==
    /\ \A c : Chain(c).certs = c /\ Chain(c) # Panic /\ Chain(c) # Bad
    /\ Bad.certs = <<>> /\ Bad # Panic
  BY DEF Chain, Bad, Panic

\* Before the first block there is no certificate.
LEMMA NoBlocks ==
    ASSUME NEW chain \in Seq(Cert)
    PROVE  Pushed(chain)[0] = <<>> /\ OfChain(Chain(<<>>), chain)
<1>1. Len(chain) \in Nat /\ 0 \in 0..Len(chain)
  OBVIOUS
<1>2. Pushed(chain)[0] = <<>>
  BY <1>1, PushedDef DEF After
<1> QED
  BY <1>1, <1>2, Zenon DEF OfChain

\* A number of bytes holds a number of blocks.
LEMMA BlocksInChain ==
    ASSUME NEW chain \in Seq(Cert), NEW n \in Nat
    PROVE  Blocks(chain, n) \in 0..Len(chain)
<1>1. n \div CertLen \in Nat /\ Len(chain) \in Nat
  BY CertsAssumption
<1> QED
  BY <1>1 DEF Blocks

\* parse_pem_chain reads a beginning of the chain.
LEMMA PemOfChain ==
    ASSUME NEW q, Numbers(q), NEW at, NEW n \in Nat
    PROVE  OfChain(parse_pem_chain(q, at, n), q.chain)
  BY BlocksInChain DEF Numbers, OfChain, parse_pem_chain

\* parse_cert_data slices within the certification data.
LEMMA DataOfChain ==
    ASSUME NEW q, Numbers(q)
    PROVE  OfChain(parse_cert_data(q), q.chain)
<1>1. q.csize \in Nat /\ q.nsize \in Nat /\ q.auth \in Nat /\ q.chain \in Seq(Cert)
  BY DEF Numbers
<1>2. OfChain(Bad, q.chain)
  BY DEF OfChain
<1>3. OfChain(Chain(<<>>), q.chain)
  BY <1>1, NoBlocks
<1>4. OfChain(parse_qe_report_cert_data(q), q.chain)
  <2> DEFINE pos == 384 + 64 + 2 + q.auth
             chain == parse_pem_chain(q, pos + 6, q.nsize)
             short == q.csize < 384 + 64 + 2 \/ q.csize < pos + 6 \/ q.csize < pos + 6 + q.nsize
  <2>1. OfChain(chain, q.chain)
    BY <1>1, PemOfChain
  <2>2. parse_qe_report_cert_data(q) =
            IF short THEN Bad ELSE Slice(pos + 6 + q.nsize, q.csize, chain)
    BY SMTT(30) DEF parse_qe_report_cert_data
  <2>3. ~short => pos + 6 + q.nsize <= q.csize
    BY <1>1
  <2> HIDE DEF chain, short
  <2>4. ~short => Slice(pos + 6 + q.nsize, q.csize, chain) = chain
    BY <2>3 DEF Slice
  <2> QED
    BY <1>2, <2>1, <2>2, <2>4
<1>5. OfChain(parse_pem_chain(q, 0, q.csize), q.chain)
  BY <1>1, PemOfChain
<1> QED
  BY <1>3, <1>4, <1>5 DEF parse_cert_data

\* parse_quote_signature slices within the quote, wherever it takes the signature
\* data to start.
LEMMA SignatureOfChain ==
    ASSUME NEW q, Numbers(q), NEW off \in Nat
    PROVE  OfChain(parse_quote_signature(q, off), q.chain)
<1> DEFINE sig_len == Read(q, off, "sig_len")
           csize == Read(q, off, "csize")
           data == parse_cert_data(q)
           chain == IF data = Bad THEN Chain(<<>>) ELSE data
           short == q.len < off + 4 \/ q.len - off < 4 + sig_len \/ sig_len < 134
           found == sig_len >= 134 + csize /\ csize > 0
<1>1. q.len \in Nat /\ q.chain \in Seq(Cert) /\ sig_len \in Nat /\ csize \in Nat
  BY DEF Numbers, Read
<1>2. parse_quote_signature(q, off) =
        IF short THEN Bad
        ELSE IF found THEN Slice(off + 4 + 134 + csize, q.len, chain) ELSE Chain(<<>>)
  BY Zenon DEF parse_quote_signature
<1> HIDE DEF sig_len, csize, data
<1>3. ~short /\ found => off + 4 + 134 + csize <= q.len
  BY <1>1
<1> HIDE DEF short, found
<1>4. OfChain(Bad, q.chain)
  BY DEF OfChain
<1>5. OfChain(Chain(<<>>), q.chain)
  BY <1>1, NoBlocks
<1>6. OfChain(chain, q.chain)
  BY <1>5, DataOfChain DEF data
<1> HIDE DEF chain
<1>7. ~short /\ found => Slice(off + 4 + 134 + csize, q.len, chain) = chain
  BY <1>3 DEF Slice
<1> QED
  BY <1>2, <1>4, <1>5, <1>6, <1>7

-----------------------------------------------------------------------------
\* Quotes as the hardware makes them.

\* Every quote that arrives has unsigned numbers and a chain.
LEMMA QuotesAreNumbers ==
    ASSUME NEW q \in Quotes
    PROVE  Numbers(q)
<1>1. PICK v \in {4, 5}, t \in {2, 3}, c \in {1, 4, 5, 6, 7, 9}, a \in {0, 32}, chain \in Chains :
        q = Quote(v, t, c, a, chain)
  BY DEF Quotes
<1>2. chain \in Seq(Cert) /\ Len(chain) \in Nat
  BY CertsAssumption, SMTT(30) DEF Cert
<1>3. Pem(chain) \in Nat
  BY <1>2, CertsAssumption DEF Pem
<1>4. TrueOffset([version |-> v, type |-> t]) \in Nat
  BY DEF TrueOffset
<1> DEFINE pem == IF c = 6 THEN 456 + a ELSE 0
           size == Pem(chain)
           off == TrueOffset([version |-> v, type |-> t])
<1>5. /\ q.auth = a /\ q.chain = chain /\ q.nsize = size
      /\ q.csize = pem + size /\ q.sig_len = 134 + (pem + size)
      /\ q.len = off + 4 + 134 + (pem + size)
  BY <1>1 DEF Quote
<1>6. pem \in Nat /\ a \in Nat
  OBVIOUS
<1> HIDE DEF pem, size, off
<1> QED
  BY <1>2, <1>3, <1>4, <1>5, <1>6, SMTT(30) DEF Numbers, size, off

\* As many bytes as the chain has hold all its blocks.
LEMMA WholeChain ==
    ASSUME NEW chain \in Seq(Cert)
    PROVE  Blocks(chain, Pem(chain)) = Len(chain)
<1>1. Len(chain) \in Nat /\ CertLen \in Nat \ {0}
  BY CertsAssumption
<1>2. \A n \in Nat, c \in Nat \ {0} : (n * c) \div c = n
  OBVIOUS
<1> QED
  BY <1>1, <1>2 DEF Blocks, Pem

\* tdx_info finds the signature data of an intact quote, and its chain in it.
LEMMA IntactChain ==
    ASSUME NEW q \in Quotes
    PROVE  parse_quote_signature(q, calculate_sig_offset(q)).certs =
              IF q.ctype \in {4, 5, 6, 9} THEN Pushed(q.chain)[Len(q.chain)] ELSE <<>>
<1>1. PICK v \in {4, 5}, t \in {2, 3}, c \in {1, 4, 5, 6, 7, 9}, a \in {0, 32}, chain \in Chains :
        q = Quote(v, t, c, a, chain)
  BY DEF Quotes
<1> DEFINE pem == IF c = 6 THEN 456 + a ELSE 0
           size == Pem(chain)
           off == TrueOffset(q)
           whole == Chain(Pushed(q.chain)[Len(q.chain)])
<1>2. /\ q.version = v /\ q.type = t /\ q.ctype = c /\ q.auth = a /\ q.chain = chain
      /\ q.pem = pem /\ q.nsize = size /\ q.csize = pem + size /\ q.sig_len = 134 + (pem + size)
      /\ q.len = off + 4 + 134 + (pem + size)
  BY <1>1 DEF Quote, TrueOffset
<1>3. chain \in Seq(Cert) /\ Len(chain) \in Nat /\ size \in Nat /\ pem \in Nat
  BY CertsAssumption DEF Cert, Pem
<1>4. off \in {632, 638, 702} /\ calculate_sig_offset(q) = off
  <2>1. off \in {632, 638, 702} /\ q.len >= 632
    BY <1>2, <1>3 DEF TrueOffset
  <2>2. q.len \in Nat
    BY <1>2, <1>3, <2>1, SMTT(30)
  <2>3. ~(q.len < 48) /\ ~(q.len < 54)
    BY <2>1, <2>2
  <2>4. calculate_sig_offset(q) =
            IF v # 5 THEN 632 ELSE 54 + (IF t = 3 THEN 648 ELSE 584)
    BY <1>2, <2>3 DEF calculate_sig_offset
  <2> HIDE DEF off
  <2>5. off = IF v = 4 THEN 632 ELSE IF t = 3 THEN 702 ELSE 638
    BY <1>2 DEF off, TrueOffset
  <2> QED
    BY <2>1, <2>4, <2>5
<1>5. Blocks(q.chain, size) = Len(q.chain)
  BY <1>2, <1>3, WholeChain
<1>6. parse_cert_data(q) = IF c \in {4, 5, 6, 9} THEN whole ELSE Chain(<<>>)
  <2>1. CASE c \in {4, 5, 9}
    <3>1. pem = 0 /\ q.csize = size /\ DataType(q.ctype) \in {4, 5}
      BY <1>2, <1>3, <2>1 DEF DataType
    <3> QED
      BY <1>2, <1>5, <2>1, <3>1 DEF parse_cert_data, parse_pem_chain
  <2>2. CASE c = 6
    <3>1. DataType(q.ctype) = 6 /\ q.pem = 456 + a
      BY <1>2, <2>2 DEF DataType
    <3>2. parse_cert_data(q) = parse_qe_report_cert_data(q)
      BY <3>1 DEF parse_cert_data
    <3>3. parse_pem_chain(q, 384 + 64 + 2 + q.auth + 6, q.nsize) = whole
      <4>1. 384 + 64 + 2 + q.auth + 6 = q.pem
        BY <1>2, <3>1
      <4> QED
        BY <1>2, <1>5, <4>1, Zenon DEF parse_pem_chain
    <3>4. /\ ~(q.csize < 384 + 64 + 2)
          /\ ~(q.csize < 384 + 64 + 2 + q.auth + 6)
          /\ ~(q.csize < 384 + 64 + 2 + q.auth + 6 + q.nsize)
          /\ 384 + 64 + 2 + q.auth + 6 + q.nsize <= q.csize
      BY <1>2, <1>3, <2>2, SMTT(30)
    <3>5. parse_qe_report_cert_data(q) = whole
      <4> HIDE DEF whole
      <4> QED
        BY <3>3, <3>4, SMTT(30) DEF parse_qe_report_cert_data, Slice
    <3> QED
      BY <2>2, <3>2, <3>5
  <2>3. CASE c \in {1, 7}
    BY <1>2, <2>3 DEF parse_cert_data, DataType
  <2> QED
    BY <2>1, <2>2, <2>3, SMTT(30)
<1>7. /\ Read(q, off, "sig_len") = 134 + (pem + size)
      /\ Read(q, off, "csize") = pem + size
  BY <1>2 DEF Read
<1> HIDE DEF pem, size, off
<1>8. /\ ~(q.len < off + 4) /\ ~(q.len - off < 4 + (134 + (pem + size)))
      /\ ~(134 + (pem + size) < 134) /\ 134 + (pem + size) >= 134 + (pem + size)
      /\ off + 4 + 134 + (pem + size) <= q.len
  BY <1>2, <1>3, <1>4
<1>9. parse_cert_data(q) # Bad
  BY <1>6, Results
<1>10. parse_quote_signature(q, off) =
          IF pem + size > 0 THEN parse_cert_data(q) ELSE Chain(<<>>)
  BY <1>7, <1>8, <1>9 DEF parse_quote_signature, Slice
<1>11. pem + size > 0 \/ Pushed(q.chain)[Len(q.chain)] = <<>>
  <2>1. CASE Len(chain) = 0
    BY <1>2, <1>3, <2>1, NoBlocks, Zenon
  <2>2. CASE Len(chain) # 0
    <3>1. Len(chain) * CertLen > 0
      BY <1>3, <2>2, CertsAssumption
    <3> QED
      BY <1>3, <3>1 DEF size, Pem
  <2> QED
    BY <2>1, <2>2
<1> QED
  BY <1>2, <1>4, <1>6, <1>10, <1>11, Results, SMTT(30)

\* So has every damaged one.
LEMMA DamagedAreNumbers ==
    ASSUME NEW q \in Quotes, NEW x \in Damaged(q)
    PROVE  Numbers(x)
<1>1. /\ x \in Changed(q)
      /\ x.len \in Nat /\ x.sig_len \in Nat /\ x.csize \in Nat /\ x.nsize \in Nat /\ x.auth \in Nat
  BY SMTT(30) DEF Damaged
<1>2. DOMAIN q = {"version", "type", "ctype", "auth", "ntype", "nsize", "csize", "sig_len",
                  "len", "pem", "chain"}
  BY DEF Quotes, Quote
<1>3. \/ \E n : x = [q EXCEPT !.len = n] \/ x = [q EXCEPT !.sig_len = n]
      \/ \E n : x = [q EXCEPT !.csize = n] \/ x = [q EXCEPT !.nsize = n]
      \/ \E n : x = [q EXCEPT !.auth = n] \/ x = [q EXCEPT !.ctype = n]
      \/ \E n : x = [q EXCEPT !.ntype = n]
  BY <1>1 DEF Changed
<1>4. x.chain = q.chain
  BY <1>2, <1>3
<1>5. q.chain \in Seq(Cert)
  BY QuotesAreNumbers DEF Numbers
<1> QED
  BY <1>1, <1>4, <1>5 DEF Numbers

-----------------------------------------------------------------------------
\* The tools.

\* Where a run of a tool stands.
ToolInv ==
    /\ tool \in {"none", "tdx_info", "snp_info"}
    /\ step \in {"start", "evidence", "claims", "end"}
    /\ exit \in {"none", "ok", "error"}
    /\ step # "end" => exit = "none"
    /\ step = "start" => tool = "none"
    /\ tool = "tdx_info" => Numbers(quote)
    /\ tool = "tdx_info" /\ exit = "ok" =>
          shown = Labelled(parse_quote_signature(quote, calculate_sig_offset(quote)).certs)

\* The place tdx_info computes for the signature data is a number.
LEMMA OffsetIsNat ==
    ASSUME NEW q
    PROVE  calculate_sig_offset(q) \in Nat
  BY DEF calculate_sig_offset

\* ToolInv is inductive.
LEMMA ToolStep ==
    ASSUME ToolInv, [ToolNext]_toolVars
    PROVE  ToolInv'
<1>1. CASE RunFails
  BY <1>1 DEF ToolInv, RunFails, Numbers
<1>2. CASE Evaluated
  BY <1>2 DEF ToolInv, Evaluated, Numbers
<1>3. CASE ShowQuoteChain
  <2> DEFINE chain == parse_quote_signature(quote, calculate_sig_offset(quote))
  <2>1. /\ tool = "tdx_info" /\ step' = "end" /\ shown' = Labelled(chain.certs)
        /\ exit' = IF chain = Panic THEN "panic" ELSE "ok"
        /\ tool' = tool /\ quote' = quote
    BY <1>3 DEF ShowQuoteChain
  <2>2. Numbers(quote)
    BY <2>1 DEF ToolInv
  <2>3. chain # Panic
    BY <2>2, OffsetIsNat, SignatureOfChain, Results DEF OfChain
  <2>4. chain' = chain
    BY <2>1
  <2> QED
    BY <2>1, <2>2, <2>3, <2>4 DEF ToolInv
<1>4. CASE print_cert_chain
  BY <1>4 DEF ToolInv, print_cert_chain
<1>5. ASSUME step = "start", NEW q \in Quotes, NEW d \in {q} \union Damaged(q), GetQuote(d)
      PROVE  ToolInv'
  <2>1. Numbers(d)
    BY QuotesAreNumbers, DamagedAreNumbers
  <2> QED
    BY <1>5, <2>1 DEF ToolInv, GetQuote
<1>6. ASSUME step = "start", NEW chain \in Chains, GetReport(chain)
      PROVE  ToolInv'
  BY <1>6 DEF ToolInv, GetReport
<1>7. CASE UNCHANGED toolVars
  BY <1>7 DEF ToolInv, toolVars, Numbers
<1> QED
  BY <1>1, <1>2, <1>3, <1>4, <1>5, <1>6, <1>7, SMTT(30) DEF ToolNext

\* ToolInv holds in every behaviour of the tools.
LEMMA ToolInvariant == ToolSpec => []ToolInv
<1>1. ToolInit => ToolInv
  BY DEF ToolInit, ToolInv
<1>2. ToolInv /\ [ToolNext]_toolVars => ToolInv'
  BY ToolStep
<1> QED
  BY <1>1, <1>2, PTL DEF ToolSpec

\* State stays well typed; no length field of a quote makes tdx_info slice past
\* the end (parse_quote_signature, parse_qe_report_cert_data).
THEOREM ToolTypeCorrect == ToolSpec => []ToolTypeOK
<1>1. ToolInv => ToolTypeOK
  BY DEF ToolInv, ToolTypeOK
<1> QED
  BY <1>1, ToolInvariant, PTL

\* tdx_info shows the whole chain of every intact quote, and of a damaged one a
\* beginning of it: what parse_quote_signature reads is never misplaced.
THEOREM ChainsAreFound == ToolSpec => []ChainIsFound
<1>1. ToolInv => ChainIsFound
  <2> SUFFICES ASSUME ToolInv, tool = "tdx_info", exit \notin {"none", "error"}
               PROVE  /\ exit # "panic"
                      /\ quote \in Quotes =>
                            Certs = IF quote.ctype \in {4, 5, 6, 9} THEN Good ELSE <<>>
                      /\ \E n \in 0..Len(Good) : Certs = SubSeq(Good, 1, n)
    BY Zenon DEF ChainIsFound
  <2> DEFINE r == parse_quote_signature(quote, calculate_sig_offset(quote))
  <2>1. exit = "ok" /\ Numbers(quote) /\ shown = Labelled(r.certs)
    BY DEF ToolInv
  <2>2. quote.chain \in Seq(Cert) /\ Len(quote.chain) \in Nat
    BY <2>1 DEF Numbers
  <2>3. \E k \in 0..Len(quote.chain) : r.certs = Pushed(quote.chain)[k]
    <3>1. OfChain(r, quote.chain)
      BY <2>1, OffsetIsNat, SignatureOfChain
    <3>2. Pushed(quote.chain)[0] = <<>> /\ 0 \in 0..Len(quote.chain)
      BY <2>2, NoBlocks
    <3> HIDE DEF r
    <3> QED
      BY <3>1, <3>2, Results DEF OfChain
  <2>4. quote \in Quotes =>
            r.certs = IF quote.ctype \in {4, 5, 6, 9} THEN Good ELSE <<>>
    BY IntactChain DEF Good
  <2> HIDE DEF r
  <2>5. PICK k \in 0..Len(quote.chain) : r.certs = Pushed(quote.chain)[k]
    BY <2>3
  <2>6. r.certs \in Seq(Cert) /\ Begins(r.certs, Good)
    BY <2>2, <2>5, PushedGrows DEF Good
  <2>7. Certs = r.certs
    <3> HIDE DEF Cert
    <3> DEFINE c == r.certs
    <3>1. c \in Seq(Cert)
      BY <2>6
    <3>2. shown = [i \in DOMAIN c |-> <<Label(i, Len(c)), c[i]>>]
      BY <2>1 DEF Labelled
    <3> HIDE DEF c
    <3>3. DOMAIN shown = DOMAIN c /\ \A i \in DOMAIN c : shown[i][2] = c[i]
      BY <3>2
    <3>4. Certs = [i \in DOMAIN c |-> c[i]]
      BY <3>3 DEF Certs
    <3>5. c = [i \in DOMAIN c |-> c[i]]
      BY <3>1
    <3> QED
      BY <3>4, <3>5 DEF c
  <2> QED
    BY <2>1, <2>4, <2>6, <2>7 DEF Begins
<1> QED
  BY <1>1, ToolInvariant, PTL
=============================================================================
