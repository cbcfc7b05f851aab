--------------------------- MODULE ProviderAnswers ---------------------------
(***************************************************************************)
(* How an answer of the provider becomes a verdict of the engine: the two  *)
(* transports of src/transport (http.rs and statusless.rs), the envelope   *)
(* of src/engine/provider.rs, the submission and getter answers of         *)
(* src/engine/send_http.rs and the evidence of src/engine/                 *)
(* resolution_http.rs.                                                     *)
(*                                                                         *)
(* A JSON body is a record of the fields that the code looks at; an        *)
(* optional value is a set with at most one element.  Unsigned machine     *)
(* integers are scaled down to U32_MAX and U64_MAX.                        *)
(***************************************************************************)
EXTENDS Naturals, Sequences, FiniteSets, FiniteSetsExt

CONSTANTS
  U32_MAX, U64_MAX,
  Delays,               \* values of a Retry-After header, in seconds
  Times,                \* provider times, deadlines and margins
  Hashes                \* message hashes besides the one that is looked for

VARIABLES asked, reaction, evidence

vars == <<asked, reaction, evidence>>

------------------------------------------------------------------------------
(* Errors *)

\* A DomainError without its diagnostic.
DomainError(code, category, retry, status, after, kind) ==
  [code |-> code, category |-> category, retry |-> retry, provider_status |-> status,
   retry_after_ms |-> after, host_kind |-> kind]

invalid_response == DomainError("InvalidProviderResponse", "ProviderProtocol", "None", {}, {}, {})

Failed(error) == [error |-> {error}]

Body(body) == [error |-> {}, body |-> body]

\* HTTP host kinds; a status-less host has all but Dns and Tls.
StatuslessKinds == {"Offline", "Timeout", "ConnectionLost", "PolicyViolation",
                    "ResponseTooLarge", "Cancelled", "Other"}

HostKinds == StatuslessKinds \cup {"Dns", "Tls"}

\* The HTTP kind of the same name; there is one for each.
http_kind(kind) == CHOOSE k \in HostKinds : k = kind

host_error(kind) ==
  LET final == kind \in {"Cancelled", "PolicyViolation", "ResponseTooLarge"}
      code == IF kind = "Cancelled" THEN "HostCancelled"
              ELSE IF kind = "PolicyViolation" THEN "HostPolicyViolation"
              ELSE IF kind = "ResponseTooLarge" THEN "ResponseTooLarge"
              ELSE "TransportFailed"
      category == IF kind = "Cancelled" THEN "Cancellation"
                  ELSE IF final THEN "HostPolicy" ELSE "Transport"
  IN  DomainError(code, category, IF final THEN "None" ELSE "Safe", {}, {}, {kind})

\* What a provider status means to both transports and to the envelope.
provider_error(status) ==
  IF status = {429} THEN DomainError("RateLimited", "RateLimit", "Safe", status, {}, {})
  ELSE DomainError("HttpRejected", "ProviderProtocol",
                   IF \E s \in status : s >= 500 THEN "Safe" ELSE "None", status, {}, {})

------------------------------------------------------------------------------
(* transport/http.rs *)

\* Seconds in milliseconds, unless they overflow.
parse_retry_after_ms(header) == {s * 1000 : s \in {s \in header : s * 1000 <= U64_MAX}}

response_error(status, header) ==
  LET after == parse_retry_after_ms(header)
  IN  IF status \in 200 .. 299 THEN {}
      ELSE IF status = 429 /\ after # {}
      THEN {DomainError("RateLimited", "RateLimit", "AfterDelay", {429}, after, {})}
      ELSE {provider_error({status})}

process_response(r) ==
  IF r.kind # {} THEN Failed(host_error(CHOOSE k \in r.kind : TRUE))
  ELSE IF r.redirected THEN Failed(host_error("PolicyViolation"))
  ELSE LET error == response_error(r.status, r.retry_after)
       IN  IF error # {} THEN Failed(CHOOSE e \in error : TRUE) ELSE Body(r.body)

------------------------------------------------------------------------------
(* transport/statusless.rs *)

\* A scalar is a string or an integer; an object has no message.
value_message(value) == value \cap {"scalar"}

\* A number, or a string that is one.
provider_code(code) == {c.value : c \in {c \in code : c.shape \in {"number", "string"}}}

\* A provider error at the top level of the body.
naked_provider_error(body) ==
  IF body.form # "json" THEN {}
  ELSE IF body.ok = {FALSE} /\ provider_code(body.code) # {}
  THEN {provider_error(provider_code(body.code))}
  ELSE IF value_message(body.error) # {}
  THEN {provider_error(provider_code(body.code))}
  ELSE {}

\* The host hands over the body and nothing else.
execute_statusless(r) ==
  IF r.kind # {} THEN Failed(host_error(http_kind(CHOOSE k \in r.kind : TRUE)))
  ELSE LET error == naked_provider_error(r.body)
       IN  IF error # {} THEN Failed(CHOOSE e \in error : TRUE) ELSE Body(r.body)

------------------------------------------------------------------------------
(* Parsers *)

parse_send_response(body) ==
  IF body.form # "json" THEN Failed(invalid_response)
  ELSE IF body.error \ {"null"} # {} \/ body.ok = {FALSE} THEN Body("Rejected")
  ELSE IF body.result = {"@type ok"} THEN Body("Accepted")
  ELSE Failed(invalid_response)

\* Mutant: a server failure counts as a refusal.
is_explicit_send_rejection_server(error) ==
  error.provider_status \cap {400, 401, 403, 404, 405, 413, 422, 429, 500} # {}

is_explicit_send_rejection(error) ==
  error.provider_status \cap {400, 401, 403, 404, 405, 413, 422, 429} # {}

\* What the send concludes from the transport's result.
verdict(answer) ==
  LET parsed == IF answer.error # {} THEN answer ELSE parse_send_response(answer.body)
  IN  IF parsed.error = {} THEN parsed.body
      ELSE IF \E e \in parsed.error : is_explicit_send_rejection(e) THEN "Rejected"
      ELSE "Unknown"

\* An integer in a JSON value: a hexadecimal or decimal string in a stack entry,
\* a number or a decimal string elsewhere.
stack_number(entry) ==
  IF entry.shape \in {"array", "object"} /\ entry.type = "num" /\ entry.text THEN {entry.value}
  ELSE {}

Fits(values, max) == {v \in values : v <= max}

parse_seqno(body) ==
  IF body.form # "json" \/ body.error # {} \/ body.stack = <<>> THEN {}
  ELSE Fits(stack_number(body.stack[1]), U32_MAX)

\* The key, "none" for a contract without one, or {} when it did not answer.
public_key_from_result(body) ==
  LET key == IF body.stack = <<>> THEN {}
             ELSE Fits(stack_number(body.stack[1]), U64_MAX) \ {0}
  IN  IF body.exit_code \in {0, 1} /\ key # {} THEN [key |-> key] ELSE [key |-> {}]

parse_public_key(body) ==
  IF body.form # "json" \/ body.error \ {"null"} # {} \/ body.ok = {FALSE} \/ body.result = {}
  THEN {} ELSE {public_key_from_result(body)}

parse_u32(value) ==
  IF value.shape \in {"number", "string"} THEN Fits({value.value}, U32_MAX) ELSE {}

parse_u64_string(value) ==
  IF value.shape \in {"number", "string"} THEN Fits({value.value}, U64_MAX) ELSE {}

------------------------------------------------------------------------------
(* resolution_http.rs *)

build_executed_by_message_request(hash) == [hash |-> hash, direction |-> "in"]

\* "no answer", "absent" or the transaction.
parse_executed_message(transactions) ==
  IF transactions = <<>> THEN [lt |-> {}, failed |-> FALSE]
  ELSE LET lt == parse_u64_string(Head(transactions).lt)
       IN  [lt |-> lt, failed |-> lt = {} \/ ~Head(transactions).canonical]

\* Either representation of the hash counts.
parse_pending_message(transactions, hash) ==
  \E i \in DOMAIN transactions : \E m \in transactions[i].in_msg :
    hash \in m.hash \cup m.hash_norm

parse_wallet_seqno(wallets) ==
  IF wallets = <<>> THEN {} ELSE UNION {parse_u32(s) : s \in Head(wallets).seqno}

\* The sum saturates.
resolution_window_expired(time, until, margin) == time > Min({U64_MAX, until + margin})

------------------------------------------------------------------------------
(* The provider: external. *)

Codes == {400, 408, 422, 429, 500, 503}

\* The envelope with which Toncenter reports a failure; the v3 API leaves out
\* `ok`, and either may omit the code.
ErrorBodies(status) ==
  LET coded == {{[shape |-> s, value |-> status]} : s \in {"number", "string"}}
  IN  {[form |-> "json", ok |-> o, result |-> {}, error |-> {"scalar"}, code |-> c] :
         o \in {{}, {FALSE}}, c \in {{}} \cup coded}
      \cup {[form |-> "json", ok |-> {FALSE}, result |-> {"scalar"}, error |-> {}, code |-> c] :
               c \in coded}

OkBody == [form |-> "json", ok |-> {TRUE}, result |-> {"@type ok"}, error |-> {}, code |-> {}]

Garbage == [form |-> "text", ok |-> {}, result |-> {}, error |-> {}, code |-> {}]

Answer(status, body, header, relayed) ==
  [kind |-> {}, redirected |-> FALSE, status |-> status, retry_after |-> header,
   body |-> body, relayed |-> relayed]

\* A client error is a refusal, and so is an error that is reported under status
\* 200; after a server error or a broken connection the message may have been
\* relayed or not.
Reactions ==
  {Answer(200, OkBody, {}, TRUE)}
  \cup {Answer(200, Garbage, {}, b) : b \in BOOLEAN}
  \cup UNION {{Answer(200, body, {}, FALSE) : body \in ErrorBodies(s)} : s \in Codes}
  \cup UNION {{Answer(s, body, {}, b) : body \in ErrorBodies(s) \cup {Garbage},
                 b \in IF s \in {408, 500, 503} THEN BOOLEAN ELSE {FALSE}} : s \in Codes}
  \cup UNION {{Answer(429, body, {d}, FALSE) : body \in ErrorBodies(429)} : d \in Delays}
  \cup {[kind |-> {k}, redirected |-> FALSE, status |-> 0, retry_after |-> {},
         body |-> Garbage, relayed |-> b] : k \in HostKinds, b \in BOOLEAN}
  \cup {[kind |-> {}, redirected |-> TRUE, status |-> 200, retry_after |-> {},
         body |-> OkBody, relayed |-> FALSE]}

none == [kind |-> "none"]

Fresh == asked = "none" /\ evidence = none

\* A submission over one of the two transports; a status-less host follows no
\* redirect and knows no Dns or Tls failure.
Submit ==
  /\ Fresh
  /\ asked' \in {"http", "statusless"}
  /\ reaction' \in Reactions
  /\ asked' = "statusless" => reaction'.kind \subseteq StatuslessKinds /\ ~reaction'.redirected
  /\ evidence' = none

Through(transport, r) ==
  IF transport = "http" THEN process_response(r) ELSE execute_statusless(r)

Stacks(v) ==
  {<<>>} \cup {<<[shape |-> s, type |-> y, text |-> x, value |-> v]>> :
                 s \in {"array", "object", "other"}, y \in {"num", "cell"}, x \in BOOLEAN}

\* A getter runs on a contract that holds `value`.
RunGetMethod ==
  /\ Fresh
  /\ \E v \in 0 .. U64_MAX + 2, error \in {{}, {"null"}, {"scalar"}}, ok \in {{}, {TRUE}, {FALSE}},
        exit \in {0, 1, 11} : \E stack \in Stacks(v) :
       evidence' = [kind |-> "getter", value |-> v,
                    body |-> [form |-> "json", error |-> error, ok |-> ok, result |-> {"result"},
                              exit_code |-> exit, stack |-> stack]]
  /\ UNCHANGED <<asked, reaction>>

\* The indexer is asked about a message "m": it was executed at logical time lt
\* or is pending, and the wallet has a sequence number.
LookUp ==
  /\ Fresh
  /\ \E lt \in {{}, {3}, {U64_MAX + 1}}, shape \in {"number", "string"}, seqno \in 0 .. U32_MAX + 2,
        raw \in SUBSET Hashes, norm \in {{}, {"m"}}, deployed \in BOOLEAN :
       LET request == build_executed_by_message_request("m")
           inbound == [hash |-> {"m"}, direction |-> "in"]
       IN  evidence' =
             [kind |-> "lookup", lt |-> lt, seqno |-> seqno,
              pending |-> {"m"} \cap (raw \cup norm) # {},
              found |-> parse_executed_message(
                IF request.hash \in inbound.hash /\ request.direction = inbound.direction
                THEN [i \in 1 .. Cardinality(lt) |->
                        [lt |-> [shape |-> shape, value |-> CHOOSE t \in lt : TRUE],
                         canonical |-> TRUE]]
                ELSE <<>>),
              waiting |-> parse_pending_message(<<[in_msg |-> {}],
                            [in_msg |-> {[hash |-> raw, hash_norm |-> norm]}]>>, "m"),
              wallet |-> parse_wallet_seqno(
                IF deployed THEN <<[seqno |-> {[shape |-> shape, value |-> seqno]}]>> ELSE <<>>)]
  /\ UNCHANGED <<asked, reaction>>

\* A deadline is compared with the provider's clock.
CompareTime ==
  /\ Fresh
  /\ \E time \in Times, until \in Times, margin \in Times :
       evidence' = [kind |-> "time", time |-> time, until |-> until, margin |-> margin,
                    expired |-> resolution_window_expired(time, until, margin)]
  /\ UNCHANGED <<asked, reaction>>

Init == asked = "none" /\ reaction = none /\ evidence = none

Next == Submit \/ RunGetMethod \/ LookUp \/ CompareTime

Spec == Init /\ [][Next]_vars

------------------------------------------------------------------------------
(* Properties *)

Asked == asked # "none"

\* A submission is recorded as rejected only when the provider did not relay the
\* message, and as accepted only when it did: an answer that leaves the outcome
\* open is never turned into a definite one, over either transport.
VerdictIsSafe ==
  Asked =>
    LET v == verdict(Through(asked, reaction))
    IN  /\ v = "Rejected" => ~reaction.relayed
        /\ v = "Accepted" => reaction.relayed

\* A status-less host learns no more than an HTTP host: for the same reaction it
\* reaches the same verdict or leaves it open.
StatuslessIsWeaker ==
  asked = "statusless" =>
    verdict(execute_statusless(reaction)) \in {"Unknown", verdict(process_response(reaction))}

\* A coded failure carries the same status over both transports, and the advice
\* to retry differs only by the delay that a header names.
SameFailureSameAdvice ==
  asked = "statusless" /\ reaction.kind = {} /\ reaction.status \notin 200 .. 299
    /\ reaction.body.code # {} =>
    \A e \in execute_statusless(reaction).error, h \in process_response(reaction).error :
      /\ e.code = h.code /\ e.category = h.category /\ e.provider_status = h.provider_status
      /\ e.retry = IF h.retry = "AfterDelay" THEN "Safe" ELSE h.retry
      /\ h.retry = "AfterDelay" <=> h.retry_after_ms # {}

\* A number that is read off an answer is the number that the contract holds,
\* whatever shape it has, and one that does not fit is refused.
NumbersAreExact ==
  /\ evidence.kind = "getter" =>
       /\ parse_seqno(evidence.body) \subseteq {evidence.value} \cap 0 .. U32_MAX
       /\ \A answer \in parse_public_key(evidence.body) :
            answer.key \subseteq {evidence.value} \cap 1 .. U64_MAX
  /\ evidence.kind = "lookup" => evidence.wallet \subseteq {evidence.seqno} \cap 0 .. U32_MAX

\* An executed message is found and a message that is not is not: an executed
\* transfer does not stay unresolved because the wrong list was searched, and
\* either form of the hash shows that it is pending.
EvidenceIsTrue ==
  evidence.kind = "lookup" =>
    /\ evidence.lt # {} <=> evidence.found.lt # {} \/ evidence.found.failed
    /\ evidence.found.lt \subseteq evidence.lt
    /\ evidence.waiting <=> evidence.pending

\* A message is called expired only after its deadline and the margin, a
\* deadline beyond the range of the clock included.
NeverExpiredEarly ==
  evidence.kind = "time" /\ evidence.expired =>
    evidence.time > evidence.until /\ evidence.time > evidence.until + evidence.margin

\* Nothing definite is concluded from an answer that leaves it open: a verdict on
\* a submission, the advice to retry, a number, the evidence of an execution and
\* an expiration each hold of the provider, over either transport.
AnswersAreTrue ==
  /\ VerdictIsSafe /\ StatuslessIsWeaker /\ SameFailureSameAdvice
  /\ NumbersAreExact /\ EvidenceIsTrue /\ NeverExpiredEarly
=============================================================================
