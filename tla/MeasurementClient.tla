------------------------- MODULE MeasurementClient -------------------------
(***************************************************************************)
(* MeasurementRegistryClient (peer_registry/src/measurement.rs): one call  *)
(* of verify_measurement, get_measurements or get_nodes at a time, with    *)
(* the retries of request_with_retry.  What the registry or the network    *)
(* answers to an attempt is one of Outcome.                                *)
(***************************************************************************)
EXTENDS Naturals, Sequences

CONSTANTS
    max_retries,   \* DEFAULT_RETRIES, 3 in the code
    BaseDelay,     \* RETRY_BASE_DELAY
    U32MAX         \* u32::MAX

ASSUME ClientAssumption ==
    {max_retries, BaseDelay} \subseteq Nat /\ U32MAX \in Nat \ {0}

VARIABLES
    call,        \* the operation called, or "none"
    attempt,     \* loop variable of request_with_retry
    last_error,  \* the error kept for the end of the loop, or "none"
    slept,       \* time spent in backoff
    answers,     \* history: outcomes of the attempts of this call
    result       \* what the call returned, or "none"

clientVars == <<call, attempt, last_error, slept, answers, result>>

Operation == {"verify_measurement", "get_measurements", "get_nodes"}
Response == {"2xx", "2xxBadBody", "404", "4xx", "5xx"}
SendError == {"connect", "timeout", "other"}
Outcome == Response \union SendError
Transient == {"5xx", "connect", "timeout"}
Error == {"RegistryError", "ParseError", "ConnectionFailed", "Timeout"}
Result == {"true", "false", "list", "empty"} \union Error

ClientInit ==
    /\ call = "none"
    /\ attempt = 0
    /\ last_error = "none"
    /\ slept = 0
    /\ answers = <<>>
    /\ result = "none"

ClientTypeOK ==
    /\ call \in Operation \union {"none"}
    /\ attempt \in 0..max_retries
    /\ last_error \in Error \union {"none"}
    /\ slept \in Nat
    /\ answers \in Seq(Outcome) /\ Len(answers) <= max_retries + 1
    /\ result \in Result \union {"none", "panic"}

StartCall(op) ==
    /\ call = "none"
    /\ call' = op
    /\ UNCHANGED <<attempt, last_error, slept, answers, result>>

\* classify_error: a fault that is no connection fault and no timeout counts as
\* a parse error.
classify_error(e) ==
    IF e = "connect" THEN "ConnectionFailed"
    ELSE IF e = "timeout" THEN "Timeout" ELSE "ParseError"

\* verify_measurement, get_measurements and get_nodes on a response; only the
\* last two read its body.
Interpret(op, r) ==
    IF r = "2xx" THEN (IF op = "verify_measurement" THEN "true" ELSE "list")
    ELSE IF r = "2xxBadBody" THEN (IF op = "verify_measurement" THEN "true" ELSE "ParseError")
    ELSE IF r = "404" /\ op = "verify_measurement" THEN "false"
    ELSE IF r = "404" /\ op = "get_nodes" THEN "empty"
    ELSE "RegistryError"

\* The end of the loop without a response: the error must be there.
ErrorOf(err) == IF err = "none" THEN "panic" ELSE err

\* 2u32.saturating_pow(n).
saturating_pow[n \in 0..max_retries] ==
    IF n = 0 THEN 1
    ELSE IF 2 * saturating_pow[n - 1] > U32MAX THEN U32MAX ELSE 2 * saturating_pow[n - 1]

\* The loop goes on: exponential backoff before the next attempt.
NextAttempt ==
    /\ attempt' = attempt + 1
    /\ slept' = slept + BaseDelay * saturating_pow[attempt]

Calling == call # "none" /\ result = "none"

\* Any other response, the last server error included, is the answer.
ReturnResponse(r) ==
    /\ r = "5xx" => attempt = max_retries
    /\ answers' = Append(answers, r)
    /\ result' = Interpret(call, r)
    /\ UNCHANGED <<call, attempt, last_error, slept>>

\* Mutant: an error is only kept when there will be another attempt.
SendFails_ForgetsLast(e) ==
    /\ answers' = Append(answers, e)
    /\ \/ /\ e # "other" /\ attempt < max_retries
          /\ last_error' = classify_error(e)
          /\ NextAttempt
          /\ UNCHANGED <<call, result>>
       \/ /\ e = "other" \/ attempt = max_retries
          /\ result' = ErrorOf(last_error)
          /\ UNCHANGED <<call, attempt, slept, last_error>>

\* A server error is kept and tried again while attempts are left.
RetryServerError ==
    /\ attempt < max_retries
    /\ answers' = Append(answers, "5xx")
    /\ last_error' = "RegistryError"
    /\ NextAttempt
    /\ UNCHANGED <<call, result>>

\* Mutant: every send error is retried.
SendFails_RetryAll(e) ==
    /\ answers' = Append(answers, e)
    /\ last_error' = classify_error(e)
    /\ \/ attempt < max_retries /\ NextAttempt /\ UNCHANGED <<call, result>>
       \/ attempt = max_retries /\ result' = ErrorOf(last_error') /\ UNCHANGED <<call, attempt, slept>>

\* Send errors are kept; only the transient ones are tried again.
SendFails(e) ==
    /\ answers' = Append(answers, e)
    /\ last_error' = classify_error(e)
    /\ \/ /\ e # "other" /\ attempt < max_retries
          /\ NextAttempt
          /\ UNCHANGED <<call, result>>
       \/ /\ e = "other" \/ attempt = max_retries
          /\ result' = ErrorOf(last_error')
          /\ UNCHANGED <<call, attempt, slept>>

request_with_retry ==
    /\ Calling
    /\ \/ RetryServerError
       \/ \E r \in Response : ReturnResponse(r)
       \/ \E e \in SendError : SendFails(e)

\* The caller has its result and may call again.
CallDone == result # "none" /\ call' = "none" /\ attempt' = 0 /\ last_error' = "none"
            /\ slept' = 0 /\ answers' = <<>> /\ result' = "none"

ClientNext == (\E op \in Operation : StartCall(op)) \/ request_with_retry \/ CallDone

ClientSpec == ClientInit /\ [][ClientNext]_clientVars

-----------------------------------------------------------------------------
LastAnswer == answers[Len(answers)]

\* A call is repeated after transient faults only, as often as max_retries
\* allows, and a call that failed for a transient reason used all attempts.
RetriesOnlyTransient ==
    /\ \A i \in 1..(Len(answers) - 1) : answers[i] \in Transient
    /\ result # "none" /\ LastAnswer \in Transient => Len(answers) = max_retries + 1

\* What a call returns is what its last attempt says, however many failed before:
\* a measurement is trusted after a success and untrusted after a 404, never
\* because of an outage; an attempt that failed leaves its own error, and the
\* expect behind the loop never panics.
ResultIsTheLastAnswer ==
    /\ result # "panic"
    /\ result = "true" => LastAnswer \in {"2xx", "2xxBadBody"}
    /\ result \in {"false", "empty"} => LastAnswer = "404"
    /\ result # "none" /\ LastAnswer \in SendError => result = classify_error(LastAnswer)
=============================================================================
