------------------------- MODULE TonConnectExchange -------------------------
(***************************************************************************)
(* One TON Connect exchange as the two sides see it: the dApp's link, the  *)
(* wallet's connect event, an RPC request, what the wallet makes of it and *)
(* the answer.  The dApp side are the validators of ton-connect-core; the  *)
(* wallet side is TonConnectSession (src/ton_connect.rs) or the terminal   *)
(* wallet (examples/tui/src/ton_connect.rs), each over ton-connect-client. *)
(***************************************************************************)
EXTENDS TonConnectProtocol

CONSTANTS Links,     \* the links of the dApp: items and an embedded request
          Requests,  \* the RPC envelopes of the dApp
          MaxMessages,  \* TON_CONNECT_MAX_MESSAGES, the size of a Wallet V5 batch
          Wallets    \* which of the two wallets take part

Network == "mainnet"
Account == "wallet"
Now == 1

VARIABLES
  wallet,   \* the wallet that opened the link
  link,     \* the link: its items and its embedded request, or none
  event,    \* the connect event that the wallet posted
  request,  \* the RPC envelope under way
  incoming, \* what the wallet made of it
  answer,   \* the response that the wallet posted
  step      \* how far the exchange is

vars == <<wallet, link, event, request, incoming, answer, step>>

Init ==
  /\ wallet \in Wallets
  /\ link \in {{l} : l \in Links}
  /\ event = {} /\ request = {} /\ incoming = {} /\ answer = {}
  /\ step = "link"

-----------------------------------------------------------------------------
(* Connect.                                                                *)

\* The link is parsed: a request that does not decode fails the whole link, an
\* embedded request that does not decode is left out.
FromLink ==
  /\ step = "link"
  /\ \E l \in link :
       LET items == decode_connect_request(l.items)
           embedded == {d \in {decode(e) : e \in l.embedded} :
                          d.error = Ok /\ d.method # "disconnect"}
       IN IF items = {} THEN link' = {} /\ step' = "refused"
          ELSE /\ link' = {[items |-> i, embedded |-> embedded] : i \in items}
               /\ step' = "prompt"
  /\ UNCHANGED <<wallet, event, request, incoming, answer>>

device ==
  [named |-> TRUE, version |-> PROTOCOL_VERSION,
   features |-> <<SendTransactionFeature(MaxMessages, {FALSE}, {}),
                  SignMessageFeature(MaxMessages, {FALSE}, {})>>]

\* client.approve_connect: the event leaves only if it fits the request.
client_approve_connect(l, items, response) ==
  LET e == ConnectEvent(items, device, response)
      verdict == validate_for_connect(e, l.items, l.embedded)
  IN IF verdict = Ok
     THEN event' = {e} /\ link' = {} /\ step' = "connected"
     ELSE UNCHANGED <<event, link>> /\ step' = "stuck"

\* One reply per item; the host holds the proof of one challenge.
reply(item, proof) ==
  CASE item.name = "ton_addr" -> TonAddressReply(Network)
    [] item.name = "ton_proof" -> TonProofReply(proof)
    [] OTHER -> unsupported_reply(item)

\* connect_prompt shows the host the first challenge of the request.
proof_payload(items) ==
  LET proofs == {i \in DOMAIN items : items[i].name = "ton_proof"}
  IN UNION {items[i].payload : i \in {j \in proofs : \A k \in proofs : j <= k}}

\* TonConnectSession.approve_connect: every requested challenge must be the one
\* the host has a proof for; an embedded request is answered with an error.
approve_connect ==
  /\ step = "prompt" /\ wallet = "session"
  /\ \E l \in link :
       LET proof == proof_payload(l.items) IN
       IF Some(l.items, LAMBDA item : item.name = "ton_proof" /\ item.payload # proof)
       THEN UNCHANGED <<event, link>> /\ step' = "stuck"
       ELSE client_approve_connect(l, [i \in DOMAIN l.items |-> reply(l.items[i], proof)],
              {Failure(d.id, "MethodNotSupported") : d \in l.embedded})
  /\ UNCHANGED <<wallet, request, incoming, answer>>

enforce_connect_network(items) ==
  /\ Some(items, is_addr)
  /\ requested_network(items) \subseteq {Network}

\* Mutant: the proof of the first challenge answers every challenge.
connect_payload_once ==
  /\ step = "prompt" /\ wallet = "tui"
  /\ \E l \in link :
       client_approve_connect(l,
         [i \in DOMAIN l.items |-> reply(l.items[i], proof_payload(l.items))], {})
  /\ UNCHANGED <<wallet, request, incoming, answer>>

\* The terminal wallet checks the network before it asks the user, signs one
\* proof per challenge and says nothing about an embedded request.
connect_payload ==
  /\ step = "prompt" /\ wallet = "tui"
  /\ \E l \in link :
       IF ~enforce_connect_network(l.items)
       THEN UNCHANGED <<event, link>> /\ step' = "stuck"
       ELSE client_approve_connect(l,
              [i \in DOMAIN l.items |-> reply(l.items[i], l.items[i].payload)], {})
  /\ UNCHANGED <<wallet, request, incoming, answer>>

reject_connect ==
  /\ step = "prompt"
  /\ event' = {ConnectErrorEvent(device)} /\ link' = {} /\ step' = "refused"
  /\ UNCHANGED <<wallet, request, incoming, answer>>
-----------------------------------------------------------------------------
(* RPC.                                                                    *)

\* The dApp sends a request, whether or not it checked the capability.
DAppSend ==
  /\ step = "connected"
  /\ \E r \in Requests : request' = {r}
  /\ step' = "requested"
  /\ UNCHANGED <<wallet, link, event, incoming, answer>>

unsupported_request(code) == [kind |-> "unsupported", code |-> code]

Served(kind) == [kind |-> kind, code |-> "None"]

\* The result of a request that the session cannot convert: it is consumed and
\* neither shown nor answered.
SessionError == [kind |-> "error", code |-> "None"]

\* A message is refused before the ones behind it are converted, so that the
\* first one that cannot be served decides.
decode_transaction_request(method, p) ==
  LET bad(i) == carries_currency(p.list[i]) \/ ~p.list[i].plain
      first == {i \in DOMAIN p.list : bad(i) /\ \A j \in 1..(i - 1) : ~bad(j)}
  IN IF validate_context(p, Now, Network, Account) # Ok
     THEN unsupported_request("BadRequest")
     ELSE IF p.form = "structured" \/ message_count(p) > MaxMessages
     THEN unsupported_request("MethodNotSupported")
     ELSE IF first = {} THEN Served(method)
     ELSE IF \E i \in first : carries_currency(p.list[i])
     THEN unsupported_request("MethodNotSupported") ELSE SessionError

\* decode_incoming of src/ton_connect.rs.
decode_incoming(r) ==
  LET known == decode(r)
  IN CASE known.error # Ok -> unsupported_request("BadRequest")
       [] known.error = Ok /\ known.method \in TransactionMethod ->
            decode_transaction_request(known.method, CHOOSE p \in known.payload : TRUE)
       [] known.error = Ok /\ known.method = "signData" ->
            unsupported_request("MethodNotSupported")
       [] OTHER -> Served("disconnect")

\* engine_transaction_intent of the terminal wallet: no clock, and an amount
\* that does not convert is a bad request.
engine_transaction_intent(method, p) ==
  LET bad(i) == carries_currency(p.list[i]) \/ ~p.list[i].plain
      first == {i \in DOMAIN p.list : bad(i) /\ \A j \in 1..(i - 1) : ~bad(j)}
  IN IF p.form = "structured" THEN unsupported_request("MethodNotSupported")
     ELSE IF validate_network_and_account(p, Network, Account) # Ok
     THEN unsupported_request("BadRequest")
     ELSE IF message_count(p) > MaxMessages THEN unsupported_request("MethodNotSupported")
     ELSE IF first = {} THEN Served(method)
     ELSE IF \E i \in first : carries_currency(p.list[i])
     THEN unsupported_request("MethodNotSupported") ELSE unsupported_request("BadRequest")

\* process_request of the terminal wallet.
process_request(r) ==
  LET known == decode(r)
  IN CASE known.error = "UnsupportedMethod" -> unsupported_request("MethodNotSupported")
       [] known.error \notin {Ok, "UnsupportedMethod"} -> unsupported_request("BadRequest")
       [] known.error = Ok /\ known.method \in TransactionMethod ->
            engine_transaction_intent(known.method, CHOOSE p \in known.payload : TRUE)
       [] known.error = Ok /\ known.method = "signData" ->
            unsupported_request("MethodNotSupported")
       [] OTHER -> Served("disconnect")

Decode ==
  /\ step = "requested"
  /\ \E r \in request :
       incoming' = {IF wallet = "tui" THEN process_request(r) ELSE decode_incoming(r)}
  /\ step' = "decoded"
  /\ UNCHANGED <<wallet, link, event, request, answer>>

\* What a host of the session can ask for: prepare_send_success with any string,
\* prepare_sign_message_success with a cell, prepare_disconnect_success,
\* prepare_error with any code.
HostAnswer(id) ==
  {Success(id, "string", "cell"), Success(id, "string", "text"),
   Success(id, "object", "internalBoc"), Success(id, "object", "nothing")}
    \cup {Failure(id, code) : code \in RpcErrorCode}

\* What the terminal wallet answers: the code of a refusal; a failed preview, a
\* failed send, a decline or the signed message of a transaction; a plain
\* success for a disconnect.
TuiAnswer(id, i) ==
  CASE i.kind = "unsupported" -> {Failure(id, i.code)}
    [] i.kind = "sendTransaction" ->
         {Success(id, "string", "cell"), Failure(id, "UserDeclined"), Failure(id, "Unknown")}
    [] i.kind = "signMessage" ->
         {Success(id, "object", "internalBoc"), Failure(id, "UserDeclined"),
          Failure(id, "Unknown")}
    [] OTHER -> {Success(id, "object", "nothing")}

\* client.prepare_response: a request that decodes has its answer checked.
client_prepare_response(r, response) ==
  response.id = r.id /\ (decode(r).error = Ok => validate_for(response, decode(r)) = Ok)

\* An answer that does not fit is refused and the request stays pending.
Answer ==
  /\ step = "decoded" /\ SessionError \notin incoming
  /\ \E r \in request : \E i \in incoming :
       \E response \in (IF wallet = "tui" THEN TuiAnswer(r.id, i) ELSE HostAnswer(r.id)) :
         client_prepare_response(r, response) /\ answer' = {response}
  /\ step' = "answered"
  /\ UNCHANGED <<wallet, link, event, request, incoming>>

\* The dApp has the answer; a session that was not disconnected goes on.
DAppDone ==
  /\ step = "answered"
  /\ request' = {} /\ incoming' = {} /\ answer' = {}
  /\ step' = IF Served("disconnect") \in incoming THEN "closed" ELSE "connected"
  /\ UNCHANGED <<wallet, link, event>>

Next ==
  \/ FromLink \/ approve_connect \/ connect_payload \/ reject_connect
  \/ DAppSend \/ Decode \/ Answer \/ DAppDone

Spec == Init /\ [][Next]_vars
-----------------------------------------------------------------------------
(* Properties.                                                             *)

Names(seq) == {seq[i].name : i \in DOMAIN seq}

\* A connect event that a wallet posts answers its link: the same names as
\* often, one account on the requested network, and for every challenge as many
\* proofs as it was asked for (approve_connect and connect_payload).
AnswersTheLink ==
  \A e \in event' \ event : e.kind = "connect" =>
    \A l \in link :
      /\ Names(l.items) = Names(e.items)
      /\ \A n \in Names(l.items) :
           Count(l.items, LAMBDA x : x.name = n) = Count(e.items, LAMBDA x : x.name = n)
      /\ \A i \in DOMAIN l.items : l.items[i].name = "ton_proof" =>
           Count(l.items, LAMBDA x : x.name = "ton_proof" /\ x.payload = l.items[i].payload)
             = Count(e.items, LAMBDA x : x.kind = "proof" /\ x.payload = l.items[i].payload)
      /\ \A i \in DOMAIN e.items : is_account(e.items[i]) =>
           requested_network(l.items) \subseteq e.items[i].network

\* A request that the wallet can satisfy: one account on its own network and one
\* challenge at most.
Approvable(items) ==
  /\ Count(items, is_addr) = 1
  /\ requested_network(items) \subseteq {Network}
  /\ Cardinality({items[i].payload : i \in {j \in DOMAIN items :
                    items[j].name = "ton_proof"}}) <= 1

\* An approval of a request that the wallet can satisfy connects, with one
\* exception: the session of src/ton_connect.rs answers an embedded request with
\* an error although it advertises no embedded requests, and its own check of the
\* connect event refuses that answer, every time.
ApprovalGoesThrough ==
  step = "prompt" /\ step' # "refused" =>
    \A l \in link : Approvable(l.items) =>
      (step' = "connected") = ~(wallet = "session" /\ l.embedded # {})

\* What the wallet advertises is what it serves: a request that the dApp's own
\* capability check passes, within its context and with canonical amounts,
\* reaches the user; one that it refuses never does (decode_incoming and
\* process_request against DeviceInfo.validate_request).
ServedIffAdvertised ==
  \A e \in event : \A r \in request : \A i \in incoming :
    LET known == decode(r)
        served == i.kind \in TransactionMethod \cup {"disconnect"}
    IN /\ served => known.error = Ok /\ validate_request(e.device, known) = Ok
       /\ (/\ known.error = Ok
           /\ validate_request(e.device, known) = Ok
           /\ \A p \in known.payload :
                /\ validate_context(p, Now, Network, Account) = Ok
                /\ \A k \in DOMAIN p.list : p.list[k].plain)
          => served

\* Every answer that a decoded request calls for passes the check of
\* client.prepare_response, so that no request is left without an answer.
AnswersFit ==
  step = "decoded" /\ SessionError \notin incoming =>
    \A r \in request : \A i \in incoming : \A response \in TuiAnswer(r.id, i) :
      client_prepare_response(r, response)

\* A method that the wallet does not know is answered with error 400.
UnknownMethodIs400 ==
  \A r \in request : \A i \in incoming :
    decode(r).error = "UnsupportedMethod" => i.code = "MethodNotSupported"

\* What a step keeps, for ExchangeIsSound.
KeepsExchange ==
  AnswersTheLink /\ ApprovalGoesThrough /\ ServedIffAdvertised' /\ AnswersFit'

\* The two sides agree: a connect event answers its link; what the user approved
\* connects, unless the session of src/ton_connect.rs is given a link with an
\* embedded request, which it can never approve; what is advertised is served; and
\* every request can be answered (approve_connect, decode_incoming,
\* prepare_response).
ExchangeIsSound == [][KeepsExchange]_vars
=============================================================================
