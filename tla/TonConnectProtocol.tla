------------------------- MODULE TonConnectProtocol -------------------------
(***************************************************************************)
(* The validation rules of ton-connect-core: connect items and replies     *)
(* (connect.rs), RPC requests and responses (rpc.rs) and the capability    *)
(* check of a dApp (capability.rs).                                        *)
(*                                                                         *)
(* A JSON object is a function from field names to values.  An optional    *)
(* value is a set with at most one element.  A result is a record with the *)
(* field `error`, which is Ok when the value was accepted.  Addresses,     *)
(* cells and amounts are members of small sets.                            *)
(***************************************************************************)
EXTENDS Naturals, Sequences, FiniteSets

Ok == "Ok"

Count(seq, Test(_)) == Cardinality({i \in DOMAIN seq : Test(seq[i])})

Some(seq, Test(_)) == \E i \in DOMAIN seq : Test(seq[i])

all_unique(seq) == \A i, j \in DOMAIN seq : seq[i] = seq[j] => i = j
-----------------------------------------------------------------------------
(* Connect items: the requested items of a link.                           *)

\* One item of the wire: a known name admits no field of its own besides the
\* documented ones, an unknown name keeps whatever it carries.
decode_connect_item(w) ==
  IF \/ w.name = ""
     \/ w.name = "ton_addr" /\ (w.extra \/ w.payload # {})
     \/ w.name = "ton_proof" /\ (w.extra \/ w.network # {} \/ w.payload = {})
  THEN {} ELSE {[name |-> w.name, network |-> w.network, payload |-> w.payload]}

\* The whole request is refused with its first bad item, and so is an empty one.
decode_connect_request(items) ==
  IF items = <<>> \/ Some(items, LAMBDA w : decode_connect_item(w) = {})
  THEN {} ELSE {[i \in DOMAIN items |->
                   CHOOSE item \in decode_connect_item(items[i]) : TRUE]}

is_addr(item) == item.name = "ton_addr"

requested_network(items) ==
  UNION {items[i].network : i \in {j \in DOMAIN items : is_addr(items[j])}}
-----------------------------------------------------------------------------
(* Device information: the capabilities a wallet advertises.               *)

\* A message feature; `types` is absent when the wallet takes raw messages only.
MessageFeature(name, max, extra, types) ==
  [name |-> name, max |-> max, extra |-> extra, types |-> types]

SendTransactionFeature(max, extra, types) ==
  MessageFeature("SendTransaction", max, extra, types)

SignMessageFeature(max, extra, types) ==
  MessageFeature("SignMessage", max, extra, types)

PROTOCOL_VERSION == 2

\* The string form and the object form of SendTransaction may stand together.
validate_device(d) ==
  IF ~d.named THEN "EmptyIdentity"
  ELSE IF d.version < PROTOCOL_VERSION THEN "UnsupportedProtocolVersion"
  ELSE IF ~all_unique([i \in DOMAIN d.features |-> d.features[i].name])
  THEN "DuplicateFeature" ELSE Ok
-----------------------------------------------------------------------------
(* RPC payloads.                                                           *)

\* An extra-currency map: absent, present and empty, or present with entries.
Currencies == {{}, {0}, {1}}

carries_currency(m) == \E n \in m.currencies : n > 0

\* Only a native transfer has a field for extra currencies.
StructuredItem ==
  [type : {"ton"}, currencies : Currencies, plain : {TRUE}]
    \cup [type : {"jetton", "nft"}, currencies : {{}}, plain : {TRUE}]

\* Exactly one of `messages` and `items` is present, and it is not empty.
decode_transaction_payload(w) ==
  LET given(form, list) ==
        [form |-> form, list |-> list, network |-> w.network, from |-> w.from,
         until |-> w.until]
  IN IF w.unknown \/ (w.messages = {}) = (w.items = {}) THEN {}
     ELSE {given("raw", list) : list \in w.messages \ {<<>>}}
            \cup {given("structured", list) : list \in w.items \ {<<>>}}

message_count(p) == Len(p.list)

uses_extra_currency(p) == Some(p.list, carries_currency)

structured_item_types(p) ==
  IF p.form = "raw" THEN {} ELSE {p.list[i].type : i \in DOMAIN p.list}

validate_network_and_account(p, network, account) ==
  IF p.network \notin {{}, {network}} THEN "NetworkMismatch"
  ELSE IF p.from \notin {{}, {account}} THEN "AccountMismatch" ELSE Ok

validate_context(p, now, network, account) ==
  IF \E t \in p.until : now > t THEN "Expired"
  ELSE validate_network_and_account(p, network, account)
-----------------------------------------------------------------------------
(* RPC requests.                                                           *)

TransactionMethod == {"sendTransaction", "signMessage"}

KnownAppRequest(method, id, payload) ==
  [error |-> Ok, method |-> method, id |-> id, payload |-> payload]

RpcError(error) == [error |-> error, method |-> "", id |-> 0, payload |-> {}]

\* A payload of signData is its type and the field it must carry.
SignDataType == {"text", "binary", "cell"}

decode_sign_data(w) ==
  {[form |-> t, list |-> <<>>, network |-> w.network, from |-> w.from, until |-> {}]
     : t \in w.data \cap SignDataType}

parse_single_parameter(request, Parse(_)) ==
  IF Len(request.params) # 1 THEN RpcError("InvalidParameterCount")
  ELSE IF Parse(request.params[1]) = {} THEN RpcError("InvalidPayload")
  ELSE KnownAppRequest(request.method, request.id, Parse(request.params[1]))

\* AppRequest::decode.
decode(request) ==
  CASE request.method \in TransactionMethod ->
         parse_single_parameter(request, decode_transaction_payload)
    [] request.method = "signData" -> parse_single_parameter(request, decode_sign_data)
    [] request.method = "disconnect" ->
         IF request.params = <<>> THEN KnownAppRequest("disconnect", request.id, {})
         ELSE RpcError("InvalidParameterCount")
    [] OTHER -> RpcError("UnsupportedMethod")
-----------------------------------------------------------------------------
(* RPC responses.                                                          *)

RpcErrorCode == {"Unknown", "BadRequest", "UnknownApp", "UserDeclined",
                 "MethodNotSupported"}

\* The JSON of a result is a string or an object; `content` is what it holds.
Success(id, json, content) ==
  [kind |-> "success", id |-> id, json |-> json, content |-> content, code |-> "None"]

Failure(id, code) ==
  [kind |-> "error", id |-> id, json |-> "none", content |-> "nothing", code |-> code]

\* The result that a method allows: a cell, an object around a cell, the
\* signature with the request's own payload, or an empty object.
AllowedResult ==
  [sendTransaction |-> <<"string", "cell">>, signMessage |-> <<"object", "internalBoc">>,
   signData |-> <<"object", "signature">>, disconnect |-> <<"object", "nothing">>]

validate_success_result(response, known) ==
  IF <<response.json, response.content>> = AllowedResult[known.method] THEN Ok
  ELSE IF known.method = "signData" /\ response.content = "otherSignature"
  THEN "SignDataPayloadMismatch" ELSE "InvalidResult"

validate_for(response, known) ==
  IF response.id # known.id THEN "RequestIdMismatch"
  ELSE IF response.kind = "error"
  THEN IF known.method = "disconnect" /\ response.code = "UserDeclined"
       THEN "InvalidErrorCode" ELSE Ok
  ELSE validate_success_result(response, known)
-----------------------------------------------------------------------------
(* Connect replies and the connect event.                                  *)

TonAddressReply(network) ==
  [kind |-> "account", name |-> "ton_addr", network |-> {network}, payload |-> {}]

TonProofReply(payload) ==
  [kind |-> "proof", name |-> "ton_proof", network |-> {}, payload |-> payload]

\* The mandatory error 400 of an item that the wallet does not know.
unsupported_reply(item) ==
  [kind |-> "error", name |-> item.name, network |-> {}, payload |-> {}]

ConnectEvent(items, device, response) ==
  [kind |-> "connect", items |-> items, device |-> device, response |-> response]

ConnectErrorEvent(device) ==
  [kind |-> "connect_error", items |-> <<>>, device |-> device, response |-> {}]

supports(device, name) == Some(device.features, LAMBDA f : f.name = name)

\* The names and the multiplicities of the replies are those of the items.
replies_match(items, replies) ==
  /\ Len(items) = Len(replies)
  /\ \A i \in DOMAIN items :
       Count(items, LAMBDA item : item.name = items[i].name)
         = Count(replies, LAMBDA reply : reply.name = items[i].name)

\* What the event may say about an embedded request of the link.
embedded_verdict(event, embedded) ==
  IF event.response # {}
  THEN IF embedded = {} \/ ~supports(event.device, "EmbeddedRequest")
       THEN "UnexpectedEmbeddedResponse"
       ELSE LET response == CHOOSE r \in event.response : TRUE
                request == CHOOSE r \in embedded : TRUE
            IN validate_for(response, request)
  ELSE IF embedded # {} /\ supports(event.device, "EmbeddedRequest")
       THEN "MissingEmbeddedResponse" ELSE Ok

is_account(reply) == reply.kind = "account"

validate_for_connect(event, items, embedded) ==
  LET replies == event.items
      network == requested_network(items)
      challenges == {items[i].payload : i \in {j \in DOMAIN items :
                                                 items[j].name = "ton_proof"}}
  IN IF event.kind = "connect_error" THEN Ok
     ELSE IF event.kind # "connect" THEN "NotAConnectResponse"
     ELSE IF validate_device(event.device) # Ok THEN validate_device(event.device)
     ELSE IF Count(items, is_addr) # 1 THEN "InvalidTonAddressRequest"
     ELSE IF ~replies_match(items, replies) THEN "ItemReplyMismatch"
     ELSE IF Count(replies, is_account) = 0 THEN "MissingTonAddressReply"
     ELSE IF Count(replies, is_account) > 1 THEN "MultipleTonAddressReplies"
     ELSE IF network # {} /\ Some(replies, LAMBDA r : is_account(r) /\ r.network # network)
     THEN "NetworkMismatch"
     ELSE IF Some(replies, LAMBDA r : r.kind = "proof" /\ r.payload \notin challenges)
     THEN "ProofPayloadMismatch"
     ELSE embedded_verdict(event, embedded)
-----------------------------------------------------------------------------
(* Capabilities.                                                           *)

features(device, name) ==
  {device.features[i] : i \in {j \in DOMAIN device.features :
                                 device.features[j].name = name}}

\* A detailed feature decides; the string form admits plain raw transfers only.
validate_transaction(device, method, p) ==
  LET name == IF method = "signMessage" THEN "SignMessage" ELSE "SendTransaction"
      detailed == features(device, name)
  IN IF detailed = {}
     THEN IF method = "signMessage" \/ ~supports(device, "Legacy") THEN "MethodNotSupported"
          ELSE IF p.form = "structured" THEN "StructuredItemsNotSupported"
          ELSE IF uses_extra_currency(p) THEN "ExtraCurrencyNotSupported" ELSE Ok
     ELSE LET f == CHOOSE x \in detailed : TRUE IN
          IF message_count(p) > f.max THEN "MessageLimitExceeded"
          ELSE IF uses_extra_currency(p) /\ f.extra # {TRUE}
          THEN "ExtraCurrencyNotSupported"
          ELSE IF p.form = "structured" /\ f.types = {} THEN "StructuredItemsNotSupported"
          ELSE IF \E types \in f.types :
                    ~(structured_item_types(p) \subseteq {types[i] : i \in DOMAIN types})
          THEN "StructuredItemTypeNotSupported" ELSE Ok

validate_sign_data(device, p) ==
  IF ~supports(device, "SignData") THEN "MethodNotSupported"
  ELSE IF \E f \in features(device, "SignData") : \E types \in f.types :
            ~\E i \in DOMAIN types : types[i] = p.form
  THEN "SignDataTypeNotSupported" ELSE Ok

\* DeviceInfo::validate_request: what a dApp checks before it sends.
validate_request(device, known) ==
  IF known.method = "disconnect" THEN Ok
  ELSE LET p == CHOOSE x \in known.payload : TRUE IN
       IF known.method = "signData" THEN validate_sign_data(device, p)
       ELSE validate_transaction(device, known.method, p)

=============================================================================
