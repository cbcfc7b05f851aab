--------------------------- MODULE DerivedSession ----------------------------
(***************************************************************************)
(* TON Connect sessions whose key is derived from the wallet key:          *)
(* src/ton_connect/derived.rs, with the calls of src/wallet/mod.rs that    *)
(* derive a session and sign data, and the checks a dApp makes with        *)
(* src/crates/ton-connect-core (rpc.rs, connect.rs, wallet_state.rs).      *)
(*                                                                         *)
(* Several devices hold the wallet.  A server relays boxes between them    *)
(* and the dApps and issues a nonce per session.  The signing key rotates; *)
(* a device learns the new phrase later.  A box is the pair of keys it was *)
(* sealed under and its content: only these two keys open it.  Phrase k is *)
(* the anchor half with the half installed by rotation k.                  *)
(***************************************************************************)
EXTENDS KeyDerivation, Integers, FiniteSets

CONSTANTS
  Devices,
  Dapps,
  Nonces,
  Network,
  Requests,             \* what dApps ask: method, type, payload, network, from
  Halves,               \* the anchor half and the halves installed later
  MaxRequests, MaxForgets, MaxNow

VARIABLES
  rotation,             \* rotations on the chain
  phrase,               \* the rotation whose phrase a device holds
  now,
  sessions,             \* the session objects of a device
  open,                 \* decoded requests that wait for the user of a device
  signed,               \* signed data that a device has not answered with yet
  connected,            \* what a dApp learned from connect events
  sent,                 \* boxes of dApps
  replies,              \* boxes of devices
  forgets

vars == <<rotation, phrase, now, sessions, open, signed, connected, sent, replies, forgets>>

P == INSTANCE TonConnectProtocol

Anchor == Halves[1]

Phrase(k) == [anchor |-> Anchor, signing |-> Halves[k + 1]]

Wallet(k) == derive_wallet(Phrase(k), Network)

Address == Wallet(0).address

------------------------------------------------------------------------------
(* The session object *)

\* The X25519 public key of a secret.
client_id(secret) == <<"x25519", secret>>

DappKey(dapp) == <<"dapp", dapp>>

\* TonConnectDerivedSession::new.
session_of(wallet, dapp, nonce) ==
  [secret |-> ton_connect_session_secret(wallet, DappKey(dapp), nonce), dapp |-> dapp,
   signing_public_key |-> signing_public_key(wallet)]

W(session) == client_id(session.secret)

\* A box between the session and its dApp.
encrypt(session, content) == [wallet |-> W(session), dapp |-> session.dapp, content |-> content]

Opens(session, box) == box.wallet = W(session) /\ box.dapp = session.dapp

CHALLENGE_LENGTH == 104
CHALLENGE_ANSWER_LENGTH == 32

\* A challenge: sealed for a key, with the length of the whole and of the answer.
open_challenge(session, challenge) ==
  IF /\ challenge.length = CHALLENGE_LENGTH
     /\ challenge.to = W(session)
     /\ challenge.answer_length = CHALLENGE_ANSWER_LENGTH
  THEN {challenge.answer} ELSE {}

\* Canonical decimals that fit a signed 64-bit value; the model has one id that
\* does not (-1).
checked_request_id(id) == IF id >= 0 THEN {id} ELSE {}

unsupported(id, code) == [id |-> id, kind |-> "Unsupported", code |-> code, request |-> {}]

Supported(id, kind, request) == [id |-> id, kind |-> kind, code |-> "", request |-> request]

\* A payload of the right shape is checked against the account of the session.
decode(request) ==
  CASE request.method = "unknown" \/ ~request.well_formed -> unsupported(request.id, "BadRequest")
    [] request.method = "signMessage" -> unsupported(request.id, "MethodNotSupported")
    [] request.method = "disconnect" -> Supported(request.id, "Disconnect", {})
    [] OTHER ->
         IF P!validate_context(request, now, Network, Address) # "Ok"
         THEN unsupported(request.id, "BadRequest")
         ELSE IF request.method = "signData"
         THEN Supported(request.id, "SignData", {request})
         ELSE Supported(request.id, "Transaction", {request})

\* decrypt_request.
decrypt_request(session, box) ==
  IF Opens(session, box)
  THEN {[request_id |-> checked_request_id(box.content.id), request |-> decode(box.content)]}
  ELSE {}

connect_account_error(session, account) ==
  \/ account.network # Network \/ account.address # Address
  \/ account.public_key # session.signing_public_key

------------------------------------------------------------------------------
(* Signing data *)

\* The host of the dApp's manifest, the same with a port, and a URL.
Domains(dapp) == {[host |-> dapp, form |-> f] : f \in {"name", "port", "url"}}

validate_sign_data_domain(domain) == domain.form # "url"

\* A cell digest needs a name that TEP-81 can encode.
encodable(domain) == domain.form = "name"

\* sign_data_payload: the request is validated again for the wallet that signs.
sign_data_payload(request, domain) ==
  IF /\ validate_sign_data_domain(domain)
     /\ P!validate_network_and_account(request, Network, Address) = "Ok"
  THEN {[type |-> request.type, data |-> request.data]} ELSE {}

\* SignDataPayload::signing_hash.
signing_hash(payload, address, domain, timestamp) ==
  IF payload.type = "cell" /\ ~encodable(domain) THEN {}
  ELSE {<<payload.type, payload.data, address, domain, timestamp>>}

sign_data_digest(request, domain, timestamp) ==
  UNION {signing_hash(p, Address, domain, timestamp) : p \in sign_data_payload(request, domain)}

\* sign_ton_connect_data with the phrase that the device holds.
sign_ton_connect_data(k, request, domain, timestamp) ==
  {[request |-> request, domain |-> domain, timestamp |-> timestamp,
    signature |-> sign_ton_connect_digest(Wallet(k), digest),
    public_key |-> signing_public_key(Wallet(k))] :
     digest \in sign_data_digest(request, domain, timestamp)}

\* SignDataResult::verify.
verify(result, public_key) ==
  \E h \in signing_hash(result.payload, result.address, result.domain, result.timestamp) :
    result.signature = [by |-> public_key, over |-> h]

\* Mutant: the signature is sent as it is.
sign_data_result_unverified(session, data) ==
  {[signature |-> data.signature, address |-> Address, timestamp |-> data.timestamp,
    domain |-> data.domain, payload |-> payload] :
     payload \in sign_data_payload(data.request, data.domain)}

\* The result of encrypt_sign_data_success, if the session accepts the record.
sign_data_result(session, data) ==
  IF data.public_key # session.signing_public_key THEN {}
  ELSE {result \in {[signature |-> data.signature, address |-> Address,
                     timestamp |-> data.timestamp, domain |-> data.domain, payload |-> p] :
                       p \in sign_data_payload(data.request, data.domain)} :
          verify(result, session.signing_public_key)}

------------------------------------------------------------------------------
(* A dApp with the core crate *)

\* The key inside a state init, which the address binds.
extract_standard_public_key(state_init) == state_init.key

derive_address(state_init) == <<"address", state_init.id, state_init.key>>

verify_standard_wallet(account) ==
  /\ derive_address(account.state_init) = account.address
  /\ extract_standard_public_key(account.state_init) = account.public_key

\* SignDataResult::verify_with_account.
verify_with_account(result, account) ==
  /\ result.address = account.address
  /\ verify_standard_wallet(account)
  /\ verify(result, extract_standard_public_key(account.state_init))

------------------------------------------------------------------------------
(* Steps *)

Init ==
  /\ rotation = 0 /\ now = 0 /\ forgets = 0
  /\ phrase = [d \in Devices |-> 0]
  /\ sessions = [d \in Devices |-> {}]
  /\ open = [d \in Devices |-> {}]
  /\ signed = [d \in Devices |-> {}]
  /\ connected = [a \in Dapps |-> {}]
  /\ sent = {} /\ replies = {}

\* A rotation is installed; the device that prepared it has the new phrase.
Rotate(d) ==
  /\ rotation + 1 < Len(Halves)
  /\ phrase[d] = rotation
  /\ rotation' = rotation + 1
  /\ phrase' = [phrase EXCEPT ![d] = rotation + 1]
  /\ UNCHANGED <<now, sessions, open, signed, connected, sent, replies, forgets>>

\* The user imports the current phrase on another device.
Import(d) ==
  /\ phrase[d] < rotation
  /\ phrase' = [phrase EXCEPT ![d] = rotation]
  /\ UNCHANGED <<rotation, now, sessions, open, signed, connected, sent, replies, forgets>>

\* The application restarts: nothing of a session is persisted.
Forget(d) ==
  /\ forgets < MaxForgets /\ sessions[d] # {}
  /\ forgets' = forgets + 1
  /\ sessions' = [sessions EXCEPT ![d] = {}]
  /\ open' = [open EXCEPT ![d] = {}]
  /\ signed' = [signed EXCEPT ![d] = {}]
  /\ UNCHANGED <<rotation, phrase, now, connected, sent, replies>>

Tick ==
  /\ now < MaxNow
  /\ now' = now + 1
  /\ UNCHANGED <<rotation, phrase, sessions, open, signed, connected, sent, replies, forgets>>

\* The device derives the session and, for the server, opens a challenge; the
\* server drops a session whose challenge is not answered.
derive_ton_connect_session(d, dapp, nonce) ==
  LET session == session_of(Wallet(phrase[d]), dapp, nonce)
      challenge == [to |-> W(session), length |-> CHALLENGE_LENGTH, answer |-> nonce,
                    answer_length |-> CHALLENGE_ANSWER_LENGTH]
  IN  /\ nonce # ""
      /\ session \notin sessions[d]
      /\ open_challenge(session, challenge) = {nonce}
      /\ sessions' = [sessions EXCEPT ![d] = @ \cup {session}]
      /\ UNCHANGED <<rotation, phrase, now, open, signed, connected, sent, replies, forgets>>

\* The account that the application passes: with the anchor key of
\* ton_connect_account or with the key of a proof.
Accounts(d) ==
  LET state == derive_wallet_public_state(verifying_key(Wallet(0).anchor), Network)
  IN  {[network |-> Network, address |-> state.address, state_init |-> state.state_init,
        public_key |-> k] : k \in {verifying_key(Wallet(0).anchor),
                                   signing_public_key(Wallet(phrase[d]))}}

\* encrypt_connect_event; the dApp keeps the wallet key of the box and the account.
encrypt_connect_event(d, session, account) ==
  /\ session \in sessions[d]
  /\ connected[session.dapp] = {}
  /\ ~connect_account_error(session, account)
  /\ connected' = [connected EXCEPT ![session.dapp] =
                     {[wallet |-> encrypt(session, account).wallet, account |-> account]}]
  /\ UNCHANGED <<rotation, phrase, now, sessions, open, signed, sent, replies, forgets>>

\* encrypt_connect_error and encrypt_disconnect_event leave the dApp unconnected.
encrypt_disconnect_event(d, session) ==
  /\ session \in sessions[d]
  /\ \E c \in connected[session.dapp] : c.wallet = W(session)
  /\ connected' = [connected EXCEPT ![session.dapp] = {}]
  /\ UNCHANGED <<rotation, phrase, now, sessions, open, signed, sent, replies, forgets>>

\* The dApp asks the wallet it is connected to.
Ask(dapp, request) ==
  /\ Cardinality(sent) < MaxRequests
  /\ \E c \in connected[dapp] :
       sent' = sent \cup {[wallet |-> c.wallet, dapp |-> dapp, content |-> request]}
  /\ sent' # sent
  /\ UNCHANGED <<rotation, phrase, now, sessions, open, signed, connected, replies, forgets>>

\* The server relays a box to a device.
Relay(d, session, box) ==
  /\ session \in sessions[d] /\ box \in sent
  /\ \E r \in decrypt_request(session, box) :
       /\ open' = [open EXCEPT ![d] = @ \cup {[session |-> session, incoming |-> r.request]}]
       /\ open' # open
  /\ UNCHANGED <<rotation, phrase, now, sessions, signed, connected, sent, replies, forgets>>

\* The user approves signData for a domain.
Approve(d, o, domain) ==
  /\ o \in open[d] /\ o.incoming.kind = "SignData"
  /\ \E request \in o.incoming.request :
       \E data \in sign_ton_connect_data(phrase[d], request, domain, now) :
         signed' = [signed EXCEPT ![d] = {[session |-> o.session, id |-> o.incoming.id,
                                           data |-> data]}]
  /\ UNCHANGED <<rotation, phrase, now, sessions, open, connected, sent, replies, forgets>>

Reply(session, id, kind, results) ==
  {encrypt(session, [id |-> id, kind |-> kind, results |-> results])}

\* encrypt_sign_data_success; a refused record is thrown away.
encrypt_sign_data_success(d, s) ==
  /\ s \in signed[d]
  /\ LET results == sign_data_result(s.session, s.data)
     IN  replies' = replies \cup (IF results = {} THEN {}
                                  ELSE Reply(s.session, s.id, "signData", results))
  /\ signed' = [signed EXCEPT ![d] = @ \ {s}]
  /\ UNCHANGED <<rotation, phrase, now, sessions, open, connected, sent, forgets>>

\* encrypt_error, encrypt_send_success and encrypt_disconnect_success.
encrypt_other(d, o) ==
  /\ o \in open[d]
  /\ replies' = replies \cup
       Reply(o.session, o.incoming.id,
             CASE o.incoming.kind = "Transaction" -> "transaction"
               [] o.incoming.kind = "Disconnect" -> "disconnect"
               [] OTHER -> "error", {})
  /\ open' = [open EXCEPT ![d] = @ \ {o}]
  /\ UNCHANGED <<rotation, phrase, now, sessions, signed, connected, sent, forgets>>

Next ==
  \/ Tick
  \/ \E d \in Devices :
       \/ Rotate(d) \/ Import(d) \/ Forget(d)
       \/ \E dapp \in Dapps, nonce \in Nonces : derive_ton_connect_session(d, dapp, nonce)
       \/ \E session \in sessions[d], account \in Accounts(d) :
            encrypt_connect_event(d, session, account)
       \/ \E session \in sessions[d] : encrypt_disconnect_event(d, session)
       \/ \E session \in sessions[d], box \in sent : Relay(d, session, box)
       \/ \E o \in open[d] : \E domain \in Domains(o.session.dapp) : Approve(d, o, domain)
       \/ \E s \in signed[d] : encrypt_sign_data_success(d, s)
       \/ \E o \in open[d] : encrypt_other(d, o)
  \/ \E dapp \in Dapps, request \in Requests : Ask(dapp, request)

Spec == Init /\ [][Next]_vars

------------------------------------------------------------------------------
(* Properties *)

\* Every signData result that reaches a connected dApp answers a request of that
\* dApp and verifies under the key the dApp was told at connection, whichever
\* device signed and whatever was rotated between the connection, the request,
\* the approval and the answer.
AnswersVerify ==
  \A r \in replies : r.content.kind = "signData" =>
    \A c \in connected[r.dapp] : c.wallet = r.wallet =>
      /\ \A result \in r.content.results : verify(result, c.account.public_key)
      /\ \E box \in sent : /\ box.dapp = r.dapp /\ box.content.id = r.content.id
                           /\ \A result \in r.content.results :
                                result.payload.data = box.content.data

\* A session that opens the boxes of a connected dApp has the signing key the dApp
\* was told: a device with the phrase of another rotation derives another session.
OnlyItsPhraseOpens ==
  \A c \in UNION {connected[a] : a \in Dapps}, d \in Devices :
    \A session \in sessions[d] :
      W(session) = c.wallet => c.account.public_key = session.signing_public_key

\* The dApp-side check of the core crate accepts the results of a wallet that
\* never rotated, and never accepts one under a key its address does not bind.
BoundKeyVerifies ==
  \A r \in replies : r.content.kind = "signData" =>
    \A c \in connected[r.dapp], result \in r.content.results : c.wallet = r.wallet =>
      (verify_with_account(result, c.account)
         <=> c.account.public_key = verifying_key(Wallet(0).anchor))

\* A validated request that a device shows can be signed for the host of the
\* dApp, with or without a port.
ShownCanBeSigned ==
  \A d \in Devices : \A o \in open[d] :
    o.incoming.kind = "SignData" =>
      \A request \in o.incoming.request, domain \in Domains(o.session.dapp) :
        domain.form # "url" => sign_data_digest(request, domain, now) # {}

\* The results of a derived session verify under the key that the dApp was told,
\* and the dApp-side check accepts exactly those of a key that the address binds.
ResultsVerify == AnswersVerify /\ BoundKeyVerifies
=============================================================================
