------------------------------ MODULE HttpHost ------------------------------
(***************************************************************************)
(* The HTTP callbacks of examples/tui/src/http_host.rs: the registry of    *)
(* running requests, cancellations that come before their request, the     *)
(* request policy, and a response that is read chunk by chunk while the    *)
(* engine may cancel it.                                                   *)
(*                                                                         *)
(* The engine numbers the requests of one client from 1.  The registry     *)
(* knows a request by that number alone.  Request i of client c is         *)
(* calls[c][i].                                                            *)
(***************************************************************************)
EXTENDS Integers, Sequences, FiniteSets

CONSTANTS
  Clients,                    \* the clients that share this host
  MaxRequests,                \* bound: requests one client makes
  Inputs,                     \* the requests the engine may build
  Replies,                    \* the responses a server may give
  HasKey,                     \* an API key is configured
  MAX_REQUEST_BODY_BYTES, MAX_REQUEST_TIMEOUT_MS,
  MAX_RESPONSE_HEADERS, MAX_RESPONSE_HEADER_BYTES, MAX_RESPONSE_BODY_BYTES

VARIABLES
  calls,                      \* what became of every request, per client
  active,                     \* per number, the client whose token is held
  cancelled_before_start      \* numbers cancelled while not active

httpVars == <<calls, active, cancelled_before_start>>

Ids == 1..MaxRequests

\* asked: cancel_http was called for this request.  before: it was called
\* before execute_http.  token: the cancellation token is cancelled.
NewCall(request) ==
  [request |-> request, stage |-> "allocated", asked |-> FALSE,
   before |-> FALSE, token |-> FALSE, key |-> FALSE, reply |-> {},
   chunks |-> 0, body |-> 0, result |-> "none"]

Finished(call, result) ==
  [call EXCEPT !.stage = "done", !.result = result, !.token = FALSE]

HttpInit ==
  /\ calls = [c \in Clients |-> <<>>]
  /\ active = [i \in Ids |-> {}]
  /\ cancelled_before_start = {}

TypeOK ==
  /\ \A c \in Clients : DOMAIN calls[c] \subseteq Ids
  /\ \A c \in Clients : \A i \in DOMAIN calls[c] :
       (calls[c][i].stage = "done") = (calls[c][i].result # "none")
  /\ active \in [Ids -> SUBSET Clients]
  /\ \A i \in Ids : Cardinality(active[i]) <= 1
  /\ cancelled_before_start \subseteq Ids

-----------------------------------------------------------------------------
(* The policy of one request.                                              *)

ReservedHeaders == {"authorization", "cookie", "x-api-key"}

is_standard_toncenter_origin(request) ==
  /\ request.port = 443
  /\ request.host \in {"toncenter.com", "testnet.toncenter.com"}

\* The checks of `execute` that come before the request is sent.
AllowedRequest(request) ==
  /\ request.scheme = "https"
  /\ request.body <= MAX_REQUEST_BODY_BYTES
  /\ request.timeout \in 1..MAX_REQUEST_TIMEOUT_MS
  /\ request.headers \cap ReservedHeaders = {}

SendsKey(request) == HasKey /\ is_standard_toncenter_origin(request)

\* The checks of `execute` on a response whose head has arrived.
HeadResult(reply) ==
  IF reply.redirect THEN "PolicyViolation"
  ELSE IF reply.headers > MAX_RESPONSE_HEADERS THEN "ResponseTooLarge"
  ELSE IF ~reply.text THEN "PolicyViolation"
  ELSE IF reply.headerBytes > MAX_RESPONSE_HEADER_BYTES THEN "ResponseTooLarge"
  ELSE "none"

-----------------------------------------------------------------------------
(* The registry.                                                           *)

\* What `begin` finds for a request number.
begin(i) ==
  IF i \in cancelled_before_start THEN "Cancelled"
  ELSE IF active[i] # {} THEN "PolicyViolation"
  ELSE "none"

\* `finish` removes the entry of the number.
finish(i) == active' = [active EXCEPT ![i] = {}]

\* The engine takes the next number of the client.
AllocateRequest(c) ==
  /\ Len(calls[c]) < MaxRequests
  /\ \E request \in Inputs : calls' = [calls EXCEPT ![c] = Append(@, NewCall(request))]
  /\ UNCHANGED <<active, cancelled_before_start>>

\* execute_http up to its first await: begin, the request policy, the
\* credential.
execute_http(c, i) ==
  LET call == calls[c][i]
      request == call.request
      refused == begin(i)
  IN  /\ call.stage = "allocated"
      /\ cancelled_before_start' = cancelled_before_start \ {i}
      /\ \/ /\ refused # "none"
            /\ calls' = [calls EXCEPT ![c][i] = Finished(call, refused)]
            /\ UNCHANGED active
         \/ /\ refused = "none" /\ ~AllowedRequest(request)
            /\ calls' = [calls EXCEPT ![c][i] = Finished(call, "PolicyViolation")]
            /\ UNCHANGED active
         \/ /\ refused = "none" /\ AllowedRequest(request)
            /\ calls' = [calls EXCEPT ![c][i] =
                           [call EXCEPT !.stage = "connecting", !.key = SendsKey(request)]]
            /\ active' = [active EXCEPT ![i] = {c}]

\* The rest of execute_http: `finish` and the result.
Return(c, i, result) ==
  /\ calls' = [calls EXCEPT ![c][i] = Finished(@, result)]
  /\ finish(i)
  /\ UNCHANGED cancelled_before_start

\* The head of a response arrives.
HeadArrives(c, i) ==
  /\ calls[c][i].stage = "connecting"
  /\ \E reply \in Replies :
       \/ HeadResult(reply) # "none" /\ Return(c, i, HeadResult(reply))
       \/ /\ HeadResult(reply) = "none"
          /\ calls' = [calls EXCEPT ![c][i] = [@ EXCEPT !.stage = "reading", !.reply = {reply}]]
          /\ UNCHANGED <<active, cancelled_before_start>>

\* The next chunk of the body arrives, or the body ends.
ChunkArrives(c, i) ==
  LET call == calls[c][i] IN
  /\ call.stage = "reading"
  /\ \E reply \in call.reply :
       \/ call.chunks = Len(reply.body) /\ Return(c, i, "ok")
       \/ /\ call.chunks < Len(reply.body)
          /\ \/ /\ call.body + reply.body[call.chunks + 1] > MAX_RESPONSE_BODY_BYTES
                /\ Return(c, i, "ResponseTooLarge")
             \/ /\ call.body + reply.body[call.chunks + 1] <= MAX_RESPONSE_BODY_BYTES
                /\ calls' = [calls EXCEPT ![c][i] =
                     [call EXCEPT !.chunks = @ + 1, !.body = @ + reply.body[call.chunks + 1]]]
                /\ UNCHANGED <<active, cancelled_before_start>>

\* map_reqwest_error: the timeout expires, the connection fails, or something
\* else happens to the transfer.
TransferFails(c, i) ==
  /\ calls[c][i].stage \in {"connecting", "reading"}
  /\ \E kind \in {"Timeout", "ConnectionLost", "Other"} :
       /\ kind = "ConnectionLost" => calls[c][i].stage = "connecting"
       /\ Return(c, i, kind)

\* A select of `execute` takes the branch of the cancelled token.
CancellationSeen(c, i) ==
  /\ calls[c][i].stage \in {"connecting", "reading"}
  /\ calls[c][i].token
  /\ Return(c, i, "Cancelled")

\* Mutant: every running request is cancelled.
cancel_http_all(c, i) ==
  /\ ~calls[c][i].asked
  /\ calls' = [calls EXCEPT ![c] =
        [j \in DOMAIN @ |-> [@[j] EXCEPT !.asked = @ \/ j = i, !.token = TRUE]]]
  /\ active' = [j \in Ids |-> {}]
  /\ UNCHANGED cancelled_before_start

\* The client c cancels its request i.  The entry that is removed and whose
\* token is cancelled is the one registered under the number.
cancel_http(c, i) ==
  /\ ~calls[c][i].asked
  /\ \/ \E owner \in active[i] :
          /\ calls' = [d \in Clients |->
                [j \in DOMAIN calls[d] |->
                   [calls[d][j] EXCEPT
                      !.asked = @ \/ <<d, j>> = <<c, i>>,
                      !.before = @ \/ (<<d, j>> = <<c, i>> /\ calls[d][j].stage = "allocated"),
                      !.token = @ \/ <<d, j>> = <<owner, i>>]]]
          /\ active' = [active EXCEPT ![i] = {}]
          /\ UNCHANGED cancelled_before_start
     \/ /\ active[i] = {}
        /\ calls' = [calls EXCEPT ![c][i] =
                       [@ EXCEPT !.asked = TRUE, !.before = calls[c][i].stage = "allocated"]]
        /\ cancelled_before_start' = cancelled_before_start \cup {i}
        /\ UNCHANGED active

HttpNext ==
  \E c \in Clients :
    \/ AllocateRequest(c)
    \/ \E i \in DOMAIN calls[c] :
         \/ execute_http(c, i)
         \/ HeadArrives(c, i)
         \/ ChunkArrives(c, i)
         \/ TransferFails(c, i)
         \/ CancellationSeen(c, i)
         \/ cancel_http(c, i)

HttpSpec == HttpInit /\ [][HttpNext]_httpVars

-----------------------------------------------------------------------------
(* Properties.                                                             *)

\* Some client called cancel_http for its request with this number.
AskedFor(i) == \E d \in Clients : i \in DOMAIN calls[d] /\ calls[d][i].asked

\* No other client has a request with this number.
Alone(c, i) == \A d \in Clients \ {c} : i \notin DOMAIN calls[d]

\* A request that execute_http answers with Cancelled is one whose number was
\* cancelled: by its own client, or by another client on this host that has a
\* request with the same number.
OnlyAskedCancellation ==
  \A c \in Clients : \A i \in DOMAIN calls[c] :
    calls[c][i].result = "Cancelled" => AskedFor(i)

\* A request whose cancellation came before execute_http is never sent: the
\* host remembers the early cancellation.  A request of another client with the
\* same number can use the memory up, so this is about a number that one client
\* has.
EarlyCancellationHolds ==
  \A c \in Clients : \A i \in DOMAIN calls[c] :
    Alone(c, i) /\ calls[c][i].before =>
      calls[c][i].stage \in {"allocated", "done"} /\ ~calls[c][i].key

\* A response that is handed to the engine is complete and within the limit of
\* the body, whatever its chunks were.
AnswerIsWhole ==
  \A c \in Clients : \A i \in DOMAIN calls[c] :
    calls[c][i].result = "ok" =>
      /\ calls[c][i].body <= MAX_RESPONSE_BODY_BYTES
      /\ \E reply \in calls[c][i].reply : calls[c][i].chunks = Len(reply.body)

\* The registry holds running requests only: no entry outlives its request.
RegistryIsLive ==
  \A i \in Ids : \A c \in active[i] :
    i \in DOMAIN calls[c] /\ calls[c][i].stage \in {"connecting", "reading"}

\* What holds of the requests of any clients that share the native HTTP host
\* (execute_http and cancel_http): one is answered Cancelled only when its number
\* was cancelled, an early cancellation of a number that one client has prevents
\* the sending, an answer is whole and within the limit, and no entry of the
\* registry outlives its request.
RequestsAreSound ==
  OnlyAskedCancellation /\ EarlyCancellationHolds /\ AnswerIsWhole /\ RegistryIsLive
=============================================================================
