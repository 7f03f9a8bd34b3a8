----------------------------- MODULE QuoteCerts -----------------------------
(***************************************************************************)
(* The platform tools (guardian/src/bin) and the certificate chain they    *)
(* take out of evidence (certificates/src/quote_certs_parse.rs): one run   *)
(* of tdx_info or snp_info.                                                *)
(*                                                                         *)
(* A quote is the numbers in its length and type fields, its length, and   *)
(* the chain it carries; Slice keeps the bounds of every slice taken.      *)
(* A certificate is its number and whether it parses.  Damaged quotes have *)
(* one of these numbers changed.                                           *)
(***************************************************************************)
EXTENDS Integers, Sequences, FiniteSets

CONSTANTS
    Chains,     \* chains that evidence carries: sequences of Certificate
    CertLen     \* bytes of a PEM certificate

ASSUME CertsAssumption == CertLen \in Nat \ {0} /\ \A c \in Chains : c \in Seq(Nat \X BOOLEAN)

VARIABLES
    tool,    \* the tool that runs, or "none"
    step,    \* "start", "evidence", "claims" or "end"
    quote,   \* the evidence it got
    shown,   \* certificates shown, with their labels
    exit     \* "none", "ok", "error" or "panic"

toolVars == <<tool, step, quote, shown, exit>>

\* What a parser returns: a chain, an error, or a panic.
Chain(certs) == [is |-> "chain", certs |-> certs]
Bad == [is |-> "error", certs |-> <<>>]
Panic == [is |-> "panic", certs |-> <<>>]
NoQuote == [chain |-> <<>>]
Parses(cert) == cert[2]

\* A slice beyond the end is a panic.
Slice(hi, len, value) == IF hi <= len THEN value ELSE Panic

-----------------------------------------------------------------------------
\* What hardware and attester produce.

\* Where the signature data of a quote is: behind a body of 584 bytes, or of 648
\* in version 5 for TDX 1.5.
TrueOffset(q) == IF q.version = 4 THEN 632 ELSE IF q.type = 3 THEN 702 ELSE 638

Pem(chain) == Len(chain) * CertLen

\* A quote with the chain itself (types 4 and 5) or inside a QE report (6), or
\* with something else (other types).
Quote(version, type, ctype, auth, chain) ==
    LET pem == IF ctype = 6 THEN 456 + auth ELSE 0
        csize == pem + Pem(chain)
        offset == TrueOffset([version |-> version, type |-> type])
    IN  [version |-> version, type |-> type, ctype |-> ctype, auth |-> auth,
         ntype |-> 5, nsize |-> Pem(chain), csize |-> csize, sig_len |-> 134 + csize,
         len |-> offset + 4 + 134 + csize, pem |-> pem, chain |-> chain]

Quotes == {Quote(v, t, c, a, chain) : v \in {4, 5}, t \in {2, 3}, c \in {1, 4, 5, 6, 7, 9},
                                      a \in {0, 32}, chain \in Chains}

\* One of the numbers is wrong by d, or the quote is cut.
Changed(q) ==
    {[q EXCEPT !.len = @ - d] : d \in {1, CertLen, q.len - 53, q.len - 47, q.len - 630}}
    \union {[q EXCEPT !.sig_len = @ + d] : d \in {-CertLen, 1, 133 - q.sig_len}}
    \union {[q EXCEPT !.csize = @ + d] : d \in {-CertLen, 1, -q.csize, 449 - q.csize}}
    \union {[q EXCEPT !.nsize = @ + d] : d \in {-CertLen, 1}}
    \union {[q EXCEPT !.auth = @ + 1], [q EXCEPT !.ctype = 5], [q EXCEPT !.ntype = 99]}

\* The numbers are unsigned.
Damaged(q) == {x \in Changed(q) : {x.len, x.sig_len, x.csize, x.nsize, x.auth} \subseteq Nat}

-----------------------------------------------------------------------------
\* quote_certs_parse.rs

\* Mutant: one body size for version 5.
calculate_sig_offset_OneBody(q) ==
    IF q.len < 48 THEN 0 ELSE IF q.version = 4 THEN 632 ELSE 638

\* calculate_sig_offset of tdx_info.
calculate_sig_offset(q) ==
    IF q.len < 48 THEN 0
    ELSE IF q.version # 5 THEN 48 + 584
    ELSE IF q.len < 54 THEN 0
    ELSE 48 + 2 + 4 + (IF q.type = 3 THEN 648 ELSE 584)

\* What is read for field f when the signature data is taken to start at off;
\* elsewhere than at the true place, zeros of the body.
Read(q, off, f) == IF off = TrueOffset(q) THEN q[f] ELSE 0

\* The loop of parse_pem_chain: certs after n blocks, where blocks that do not
\* parse are left out.
Pushed(chain) ==
    LET certs[n \in 0..Len(chain)] ==
            IF n = 0 THEN <<>>
            ELSE IF Parses(chain[n]) THEN Append(certs[n - 1], chain[n]) ELSE certs[n - 1]
    IN  certs

\* The blocks that are whole in the first n bytes.
Blocks(chain, n) == IF n \div CertLen <= Len(chain) THEN n \div CertLen ELSE Len(chain)

\* parse_pem_chain of n bytes from byte at of the certification data; a QE report
\* is no text.
parse_pem_chain(q, at, n) ==
    IF at # q.pem THEN Bad ELSE Chain(Pushed(q.chain)[Blocks(q.chain, n)])

\* parse_qe_report_cert_data: three length checks.
parse_qe_report_cert_data(q) ==
    LET pos == 384 + 64 + 2 + q.auth IN
    IF \/ q.csize < 384 + 64 + 2
       \/ q.csize < pos + 6
       \/ q.csize < pos + 6 + q.nsize
    THEN Bad
    ELSE Slice(pos + 6 + q.nsize, q.csize, parse_pem_chain(q, pos + 6, q.nsize))

\* CertDataType::from_u16, with the default of the caller.
DataType(raw) == IF raw \in 1..7 THEN raw ELSE 5

\* parse_cert_data: types other than 4, 5 and 6 have no certificates.
parse_cert_data(q) ==
    IF DataType(q.ctype) \in {4, 5} THEN parse_pem_chain(q, 0, q.csize)
    ELSE IF DataType(q.ctype) = 6 THEN parse_qe_report_cert_data(q)
    ELSE Chain(<<>>)

\* parse_quote_signature: Bad, or the chain, where a chain that cannot be parsed
\* or is not there is empty.
parse_quote_signature(q, off) ==
    LET sig_len == Read(q, off, "sig_len")
        csize == Read(q, off, "csize")
        chain == parse_cert_data(q)
    IN  IF q.len < off + 4 \/ q.len - off < 4 + sig_len \/ sig_len < 134 THEN Bad
        ELSE IF sig_len >= 134 + csize /\ csize > 0
        THEN Slice(off + 4 + 134 + csize, q.len, IF chain = Bad THEN Chain(<<>>) ELSE chain)
        ELSE Chain(<<>>)

-----------------------------------------------------------------------------
\* The tools.

ToolInit == tool = "none" /\ step = "start" /\ quote = NoQuote /\ shown = <<>> /\ exit = "none"

Label(i, n) == IF i = 1 THEN "Leaf" ELSE IF i = n THEN "Root CA" ELSE "Intermediate"
Labelled(certs) == [i \in DOMAIN certs |-> <<Label(i, Len(certs)), certs[i]>>]

\* No device, no evidence, or no verifier: run returns an error.
RunFails ==
    /\ step \in {"start", "evidence"}
    /\ step' = "end" /\ exit' = "error"
    /\ UNCHANGED <<tool, quote, shown>>

\* run of tdx_info up to the quote bytes.
GetQuote(q) ==
    /\ tool' = "tdx_info" /\ step' = "evidence" /\ quote' = q
    /\ UNCHANGED <<shown, exit>>

\* run of snp_info up to the evidence; there may be no cert_chain.
GetReport(chain) ==
    /\ tool' = "snp_info" /\ step' = "evidence" /\ quote' = [chain |-> chain]
    /\ UNCHANGED <<shown, exit>>

\* The verifier has evaluated the evidence.
Evaluated ==
    /\ step = "evidence"
    /\ step' = "claims"
    /\ UNCHANGED <<tool, quote, shown, exit>>

\* tdx_info shows the chain it parsed.
ShowQuoteChain ==
    LET chain == parse_quote_signature(quote, calculate_sig_offset(quote)) IN
    /\ tool = "tdx_info" /\ step = "claims"
    /\ step' = "end"
    /\ shown' = Labelled(chain.certs)
    /\ exit' = IF chain = Panic THEN "panic" ELSE "ok"
    /\ UNCHANGED <<tool, quote>>

\* snp_info shows every block of the chain, with its parse error if it has one.
print_cert_chain ==
    /\ tool = "snp_info" /\ step = "claims"
    /\ step' = "end" /\ exit' = "ok"
    /\ shown' = Labelled(quote.chain)
    /\ UNCHANGED <<tool, quote>>

ToolNext ==
    \/ RunFails \/ Evaluated \/ ShowQuoteChain \/ print_cert_chain
    \/ /\ step = "start"
       /\ \/ \E q \in Quotes : \E d \in {q} \union Damaged(q) : GetQuote(d)
          \/ \E chain \in Chains : GetReport(chain)

ToolSpec == ToolInit /\ [][ToolNext]_toolVars

-----------------------------------------------------------------------------
\* Type invariant; no length field makes a tool slice past the end.
ToolTypeOK ==
    /\ tool \in {"none", "tdx_info", "snp_info"}
    /\ step \in {"start", "evidence", "claims", "end"}
    /\ exit \in {"none", "ok", "error"}

Certs == [i \in DOMAIN shown |-> shown[i][2]]
Good == Pushed(quote.chain)[Len(quote.chain)]

\* tdx_info finds the chain of every intact quote, in both versions, with both
\* body sizes, direct or inside a QE report, and shows its certificates in order.
\* Of a quote with a wrong number it shows a beginning of the chain or nothing,
\* and it slices no quote past its end.
ChainIsFound ==
    tool = "tdx_info" /\ exit \notin {"none", "error"} =>
        /\ exit # "panic"
        /\ quote \in Quotes => Certs = IF quote.ctype \in {4, 5, 6, 9} THEN Good ELSE <<>>
        /\ \E n \in 0..Len(Good) : Certs = SubSeq(Good, 1, n)
=============================================================================
