--------------------------- MODULE TransferChecks ---------------------------
(***************************************************************************)
(* What a transfer is checked against before it is signed: the previews of *)
(* src/engine/preview.rs, the signing calls of engine/send.rs,             *)
(* engine/sign_message.rs, engine/prepare_transfer.rs, engine/send_boc.rs  *)
(* and engine/nft_transfer.rs, and the builders of src/wallet/transfer.rs. *)
(*                                                                         *)
(* Every call reads the chain in steps (item, account, sequence number,    *)
(* emulation, protected secret) and the chain moves between them.  Slots,  *)
(* journal and submission are in modules WalletClient and WalletSend; one  *)
(* call at a time is enough for what the checks promise each other.        *)
(*                                                                         *)
(* An optional value is a set with at most one element.  The amount All    *)
(* stands for SendAmount::All.  An expiration of 0 is EngineDefault.       *)
(***************************************************************************)
EXTENDS Integers, Sequences, FiniteSets, SequencesExt

CONSTANTS
  Requests,      \* Requests[kind]: what the host asks of each call
  Secrets,       \* what protected storage can hold for this wallet
  Validity,      \* send_validity_seconds
  MaxMessages,   \* 255 in the code
  MaxU32,        \* largest timestamp of the wallet contract
  MaxU64,        \* largest timestamp of the engine
  MaxCoins,      \* largest amount of the wallet contract
  Fee,           \* what the wallet pays for executing one message
  Items,         \* what the NFT item can be at first
  MaxMoves       \* bound on steps of the chain

VARIABLES
  status, balance, seqno, now, key, item,   \* the chain
  moves,     \* steps of the chain so far
  call,      \* the call in progress
  calm,      \* no step of the chain since the last preview began
  still,     \* no step of the chain since the last signing call began
  preview,   \* the last preview that succeeded
  refused,   \* how the last call failed, if it did
  signed,    \* the messages the last signing call returned
  executed   \* the messages of `signed` the contract has executed

chainVars == <<status, balance, seqno, now, key, item>>
vars == <<status, balance, seqno, now, key, item, moves, call, calm, still,
          preview, refused, signed, executed>>

All == -1
Undeployed == {"Nonexistent", "Uninitialized"}
Previews ==
  {"preview_send", "preview_send_boc", "preview_sign_message",
   "preview_nft_transfer"}

\* The first check of a list that fails; checks are <<failed, reason>>.
First(checks) ==
  LET failed == SelectSeq(checks, LAMBDA c : c[1])
  IN IF failed = <<>> THEN "" ELSE failed[1][2]

-----------------------------------------------------------------------------
(* The request *)

Total(s) == FoldLeft(LAMBDA total, amount : total + amount, 0, s)

\* SendIntent::exact_value_total fails; its value is None for {} below.
InvalidIntent(r) ==
  \/ Len(r.messages) \notin 1..MaxMessages
  \/ Len(r.messages) > 1 /\ \E i \in DOMAIN r.messages : r.messages[i] = All

exact_value_total(r) ==
  IF r.messages = <<All>> THEN {} ELSE {Total(r.messages)}

\* A timestamp, or none when the policy cannot be met.
resolve_send_expiration(expiration, provider_time) ==
  IF expiration = 0
  THEN {t \in {provider_time + Validity} : t <= MaxU64}
  ELSE {t \in {expiration} : t > provider_time}

\* canonicalize_nft_transfer accepts the funding.
CanonicalNft(r) ==
  /\ r.messages[1] <= MaxCoins /\ r.forward <= MaxCoins
  /\ r.messages[1] > r.forward

-----------------------------------------------------------------------------
(* The messages *)

needs_state_init(account) == account.status # "Active"
permits_send(account) == account.status \in Undeployed \cup {"Active"}

\* build_internal_message: every exact amount fits the coin representation.
build_internal_messages(r) ==
  \A i \in DOMAIN r.messages : r.messages[i] = All \/ r.messages[i] <= MaxCoins

Message(kind, form, r, n, until, k, init) ==
  [kind |-> kind, form |-> form, req |-> r,
   seqno |-> n, validUntil |-> until, key |-> k, init |-> init]

\* Both builders take the intent apart in the same way.
BuildChecks(r, until) ==
  <<<<InvalidIntent(r), "InvalidIntent">>,
    <<~build_internal_messages(r), "AmountOutOfRange">>,
    <<until > MaxU32, "ExpirationOutOfRange">>>>

\* Mutant: a rotated phrase may deploy the wallet.
PrepareError_rotated(r, account, until, secret) == First(BuildChecks(r, until))

\* prepare_transfer, and prepare_internal_signed_transfer like it.
PrepareError(r, account, until, secret) ==
  First(<<<<needs_state_init(account) /\ secret.signing # secret.anchor,
            "RotatedWalletRequiresActiveAccount">>>> \o BuildChecks(r, until))

\* Mutant: the emulated message does not narrow the timestamp.
EmulationError_wide(r, until) ==
  First(<<<<InvalidIntent(r), "InvalidIntent">>,
          <<~build_internal_messages(r), "AmountOutOfRange">>>>)

\* prepare_transfer_emulation: the same message without the secret.
EmulationError(r, until) == First(BuildChecks(r, until))

\* prepare_signed_boc: a message the caller signed.
BocError(r) ==
  First(<<<<r.validUntil > MaxU32, "ExpirationOutOfRange">>,
          <<r.form # "external", "PreparedMessageNotExternal">>,
          <<r.dst # "wallet", "PreparedMessageDestinationMismatch">>>>)

\* Which forms a signing call returns.
Forms(kind) ==
  IF kind = "prepare_transfer" THEN {"external", "internal"}
  ELSE IF kind = "sign_message" THEN {"internal"} ELSE {"external"}

-----------------------------------------------------------------------------
(* Emulation *)

\* transaction_succeeded: the phases are optional, except for the root.
transaction_succeeded(tx, require_phases) ==
  LET compute == {p.success = {TRUE} /\ p.code \in {{0}, {1}} : p \in tx.compute}
      action == {p.success = {TRUE} /\ p.code = {0} : p \in tx.action}
  IN /\ tx.aborted = {FALSE}
     /\ IF require_phases THEN compute = {TRUE} /\ action = {TRUE}
                          ELSE FALSE \notin compute \cup action

\* parse_emulation: none if the answer is not a trace of this wallet.
parse_emulation(trace) ==
  {[fees |-> tx.fees, succeeded |-> transaction_succeeded(tx, TRUE),
    incomplete |-> trace.incomplete,
    accounts |-> {o.account : o \in {t \in trace.others :
                                      transaction_succeeded(t, FALSE)}}] :
     tx \in {t \in trace.root : t.account = "wallet" /\ t.fees >= 0}}

Phase(ok, n) == [success |-> {ok}, code |-> {n}]
Tx(account, fees, aborted, compute, action) ==
  [account |-> account, fees |-> fees, aborted |-> {aborted},
   compute |-> compute, action |-> action]

\* The contract of this wallet would accept message m now.
Accepts(m) ==
  /\ m.seqno = (IF status = "Active" THEN seqno ELSE 0)
  /\ now < m.validUntil
  /\ status = "Active" \/ (status \in Undeployed /\ m.init)
  /\ balance > 0

\* The message pays for all it sends: exact amounts and fees come from the
\* balance, and a wallet that has not enough skips what it cannot pay.
Paid(m) ==
  m.req.messages = <<All>> \/ Total(m.req.messages) + Fee <= balance

\* The answers of emulateTrace for message m: what the chain would do (the
\* signature is not checked), or a trace the provider got wrong.
Traces(m) ==
  LET wallet == Tx("wallet", Fee, FALSE, {Phase(TRUE, 0)}, {Phase(TRUE, 0)})
      nft == IF ~Paid(m) THEN {}
             ELSE {Tx("item", 0, item # "owned",
                      {Phase(item = "owned", IF item = "owned" THEN 0 ELSE 401)},
                      {Phase(TRUE, 0) : t \in IF item = "owned" THEN {1} ELSE {}})}
      honest == [root |-> {wallet}, others |-> nft, incomplete |-> FALSE]
  IN IF ~Accepts(m) THEN {[honest EXCEPT !.root = {}]}
     ELSE {honest, [honest EXCEPT !.incomplete = TRUE, !.others = {}],
           [honest EXCEPT !.root = {[wallet EXCEPT !.account = "other"]}],
           [honest EXCEPT !.root = {[wallet EXCEPT !.action = {}]}],
           [honest EXCEPT !.root = {[wallet EXCEPT !.compute = {Phase(TRUE, 33)}]}]}

-----------------------------------------------------------------------------
(* Calls *)

NoRequest ==
  [messages |-> <<>>, expiration |-> 0, forward |-> 0, seqno |-> 0,
   validUntil |-> 0, form |-> "none", dst |-> "none", key |-> "k0", init |-> FALSE]

Idle == [kind |-> "none", pc |-> "idle", req |-> NoRequest,
         account |-> [status |-> "Unknown", balance |-> 0, time |-> 0],
         seqno |-> 0, validUntil |-> 0]

Init ==
  /\ status \in Undeployed \cup {"Active", "Frozen"}
  /\ balance \in IF status = "Nonexistent" THEN {0} ELSE 1..3
  /\ seqno = IF status = "Active" THEN 1 ELSE 0
  /\ now = 0
  /\ key \in IF status = "Active" THEN {"k0", "k1"} ELSE {"k0"}
  /\ item \in Items
  /\ moves = 0
  /\ call = Idle
  /\ calm = FALSE /\ still = FALSE
  /\ preview = {} /\ refused = {} /\ signed = {} /\ executed = {}

Fail(why) ==
  /\ call' = Idle
  /\ refused' = {[kind |-> call.kind, req |-> call.req, why |-> why]}
  /\ UNCHANGED <<preview, signed>>

Previewed(until, account) ==
  /\ call' = Idle
  /\ preview' = {[kind |-> call.kind, req |-> call.req, validUntil |-> until,
                  init |-> needs_state_init(account)]}
  /\ UNCHANGED <<refused, signed>>

Signed(messages) ==
  /\ call' = Idle
  /\ signed' = messages
  /\ UNCHANGED <<refused, preview>>

Wait(c) == call' = c /\ UNCHANGED <<refused, preview, signed>>

Nft(kind) == kind \in {"preview_nft_transfer", "send_nft_transfer"}

\* The checks of a request that come before the first provider request.
RequestError(kind, r) ==
  First(<<<<kind \in {"prepare_transfer", "preview_sign_message"} /\ InvalidIntent(r),
            "InvalidSendRequest">>,
          <<kind = "preview_send_boc" /\ BocError(r) # "", "SendPreviewFailed">>,
          <<Nft(kind) /\ ~CanonicalNft(r), "NftTransferUnavailable">>>>)

Begin(kind, r) ==
  /\ call.pc = "idle"
  /\ LET c == [Idle EXCEPT !.kind = kind, !.req = r,
                !.pc = IF Nft(kind) THEN "item" ELSE "account"]
         why == RequestError(kind, r)
     IN /\ call' = IF why = "" THEN c ELSE Idle
        /\ refused' = {[kind |-> kind, req |-> r, why |-> w] : w \in {why} \ {""}}
  /\ IF kind \in Previews
     THEN calm' = TRUE /\ preview' = {} /\ UNCHANGED <<still, signed, executed>>
     ELSE still' = TRUE /\ signed' = {} /\ executed' = {} /\ UNCHANGED <<calm, preview>>
  /\ UNCHANGED <<chainVars, moves>>

\* load_fresh_nft_for_transfer and validate_transferable_nft.
validate_transferable_nft(state) == state \in {"owned", "locked"}

LoadItem ==
  /\ call.pc = "item"
  /\ IF validate_transferable_nft(item) THEN Wait([call EXCEPT !.pc = "account"])
     ELSE Fail("NftTransferUnavailable")
  /\ UNCHANGED <<chainVars, moves, calm, still, executed>>

(* The checks between the answer to getAddressInformation and the seqno *)

\* preview_send, send and prepare_transfer compare the sum with the balance.
Exceeds(r, account) ==
  \E requested \in exact_value_total(r) : requested > account.balance

preview_send_account(r, account) ==
  First(<<<<InvalidIntent(r), "InvalidSendRequest">>,
          <<~InvalidIntent(r) /\ Exceeds(r, account), "InsufficientBalance">>,
          <<~permits_send(account), "SendAccountUnavailable">>>>)

preview_send_boc_account(r, account) ==
  First(<<<<~permits_send(account), "SendAccountUnavailable">>>>)

prepare_transfer_account(r, account) ==
  First(<<<<Exceeds(r, account), "InsufficientBalance">>,
          <<~permits_send(account), "SendAccountUnavailable">>>>)

send_account(r, account) ==
  First(<<<<InvalidIntent(r), "InvalidSendRequest">>,
          <<~InvalidIntent(r) /\ Exceeds(r, account), "InsufficientBalance">>>>)

sign_message_account(r, account) ==
  First(<<<<InvalidIntent(r), "InvalidSendRequest">>>>)

AccountError(kind, r, account) ==
  CASE kind \in {"preview_send", "preview_nft_transfer"} ->
         preview_send_account(r, account)
    [] kind \in {"preview_send_boc", "preview_sign_message"} ->
         preview_send_boc_account(r, account)
    [] kind = "prepare_transfer" -> prepare_transfer_account(r, account)
    [] kind \in {"send", "send_nft_transfer"} -> send_account(r, account)
    [] kind = "sign_message" -> sign_message_account(r, account)
    [] kind = "send_boc" -> ""

(* The checks between the seqno and the emulation or the protected secret *)

preview_send_state(r, account, until) ==
  First(<<<<until = {}, "SendPreviewFailed">>,
          <<\E t \in until : EmulationError(r, t) # "", "SendPreviewFailed">>>>)

preview_send_boc_state(r, account, n, until) ==
  First(<<<<n # r.seqno, "SeqnoMismatch">>, <<until = {}, "Expiration">>>>)

\* fresh_account_loaded of the send workflow comes after the expiration.
send_state(r, account, until) ==
  First(<<<<until = {}, "Expiration">>,
          <<~permits_send(account), "SendAccountUnavailable">>>>)

sign_message_state(r, account, until) ==
  First(<<<<until = {}, "Expiration">>,
          <<~permits_send(account), "SendAccountUnavailable">>>>)

send_boc_state(r, account, n, until) ==
  First(<<<<n # r.seqno, "SeqnoMismatch">>, <<until = {}, "Expiration">>,
          <<~permits_send(account), "SendAccountUnavailable">>,
          <<BocError(r) # "", "SendFailed">>>>)

StateError(kind, r, account, n, until) ==
  CASE kind \in {"preview_send", "preview_nft_transfer"} ->
         preview_send_state(r, account, until)
    [] kind = "preview_send_boc" -> preview_send_boc_state(r, account, n, until)
    [] kind = "send_boc" -> send_boc_state(r, account, n, until)
    [] kind \in {"send", "send_nft_transfer"} -> send_state(r, account, until)
    [] kind = "sign_message" -> sign_message_state(r, account, until)
    [] kind \in {"preview_sign_message", "prepare_transfer"} ->
         First(<<<<until = {}, "Expiration">>>>)

\* Everything that follows the seqno without another wait.
Continue(account, n) ==
  LET r == call.req
      policy == IF call.kind \in {"preview_send_boc", "send_boc"}
                THEN r.validUntil ELSE r.expiration
      until == resolve_send_expiration(policy, account.time)
      why == StateError(call.kind, r, account, n, until)
  IN \/ why # "" /\ Fail(why)
     \/ /\ why = ""
        /\ \E t \in until :
             IF call.kind = "preview_sign_message" THEN Previewed(t, account)
             ELSE IF call.kind = "send_boc"
             THEN Signed({Message("send_boc", r.form, r, n, t, r.key, r.init)})
             ELSE Wait([call EXCEPT !.account = account, !.seqno = n,
                                    !.validUntil = t,
                                    !.pc = IF call.kind \in Previews THEN "emulate"
                                           ELSE "secret"])

\* getAddressInformation; without contract code the seqno is zero.
LoadAccount ==
  /\ call.pc = "account"
  /\ LET account == [status |-> status, balance |-> balance, time |-> now]
         why == AccountError(call.kind, call.req, account)
     IN IF why # "" THEN Fail(why)
        ELSE IF status = "Active" /\ call.kind # "preview_sign_message"
        THEN Wait([call EXCEPT !.pc = "seqno", !.account = account])
        ELSE Continue(account, 0)
  /\ UNCHANGED <<chainVars, moves, calm, still, executed>>

LoadSeqno ==
  /\ call.pc = "seqno"
  /\ Continue(call.account, seqno)
  /\ UNCHANGED <<chainVars, moves, calm, still, executed>>

\* validate_nft_emulation: the item ran, in a complete trace.
validate_nft_emulation(summary) ==
  ~summary.incomplete /\ "item" \in summary.accounts

\* Exact sends leave a positive remainder after the emulated wallet fee.
LeavesRemainder(r, summary, available) ==
  \A requested \in exact_value_total(r) : requested + summary.fees < available

\* emulate_preview_boc, the balance check, and what a preview does with them.
Emulate ==
  /\ call.pc = "emulate"
  /\ LET r == call.req
         boc == call.kind = "preview_send_boc"
         m == Message(call.kind, "external", r, call.seqno, call.validUntil, "none",
                      IF boc THEN r.init ELSE needs_state_init(call.account))
     IN \E trace \in Traces(m) :
          LET summary == parse_emulation(trace)
          IN IF summary = {} THEN Fail("EmulationFailed")
             ELSE IF \E e \in summary : ~e.succeeded THEN Fail("EmulationRejected")
             ELSE IF ~boc /\ \E e \in summary :
                               ~LeavesRemainder(r, e, call.account.balance)
             THEN Fail("InsufficientBalanceForFees")
             ELSE IF /\ call.kind = "preview_nft_transfer"
                     /\ \E e \in summary : ~validate_nft_emulation(e)
             THEN Fail("NftTransferEmulationRejected")
             ELSE Previewed(call.validUntil, call.account)
  /\ UNCHANGED <<chainVars, moves, calm, still, executed>>

\* read_protected_secret, derive_source, and the builders.
ReadSecret ==
  /\ call.pc = "secret"
  /\ \/ Fail("ProtectedSecretHost")
     \/ \E secret \in Secrets :
          LET why == PrepareError(call.req, call.account, call.validUntil, secret)
          IN IF ~secret.valid THEN Fail("InvalidProtectedSecret")
             ELSE IF secret.anchor # "k0" THEN Fail("SecretWalletMismatch")
             ELSE IF why # "" THEN Fail(why)
             ELSE Signed({Message(call.kind, form, call.req, call.seqno,
                                  call.validUntil, secret.signing,
                                  needs_state_init(call.account)) :
                            form \in Forms(call.kind)})
  /\ UNCHANGED <<chainVars, moves, calm, still, executed>>

\* A provider request fails, or its answer does not parse.
ProviderError ==
  /\ call.pc \in {"item", "account", "seqno", "emulate"}
  /\ Fail("Provider")
  /\ UNCHANGED <<chainVars, moves, calm, still, executed>>

-----------------------------------------------------------------------------
(* The chain *)

\* The contract stores the anchor key when it is deployed.
ContractKey == IF status = "Active" THEN key ELSE "k0"

Execute(m) ==
  /\ m \notin {e.message : e \in executed}
  /\ Accepts(m) /\ m.key = ContractKey
  /\ LET nft == m.kind = "send_nft_transfer" /\ Paid(m) /\ item = "owned"
     IN /\ executed' = executed \cup
              {[message |-> m, calm |-> calm, paid |-> Paid(m), moved |-> nft]}
        /\ item' = IF nft THEN "sold" ELSE item
  /\ balance' = IF m.req.messages = <<All>> THEN 0
                ELSE IF Paid(m) THEN balance - Total(m.req.messages) - Fee
                ELSE IF balance > Fee THEN balance - Fee ELSE 0
  /\ status' = "Active"
  /\ seqno' = IF status = "Active" THEN seqno + 1 ELSE 1
  /\ key' = ContractKey
  /\ calm' = FALSE /\ still' = FALSE
  /\ UNCHANGED <<now, moves, call, preview, refused, signed>>

\* Time, deposits, another device, a sale: whatever else moves the chain.
Move ==
  /\ moves < MaxMoves /\ moves' = moves + 1
  /\ calm' = FALSE /\ still' = FALSE
  /\ \/ now' = now + 1 /\ UNCHANGED <<status, balance, seqno, key, item>>
     \/ /\ balance' = balance + 1
        /\ status' = IF status = "Nonexistent" THEN "Uninitialized" ELSE status
        /\ UNCHANGED <<seqno, now, key, item>>
     \/ /\ status \in {"Active", "Uninitialized"} /\ balance > 0
        /\ status' = "Active"
        /\ seqno' = IF status = "Active" THEN seqno + 1 ELSE 1
        /\ balance' = balance - 1
        /\ UNCHANGED <<now, key, item>>
     \/ /\ item \in {"owned", "listed"}
        /\ item' \in {"owned", "listed", "sold"} \ {item}
        /\ UNCHANGED <<status, balance, seqno, now, key>>
  /\ UNCHANGED <<call, preview, refused, signed, executed>>

Next ==
  \/ \E kind \in DOMAIN Requests : \E r \in Requests[kind] : Begin(kind, r)
  \/ LoadItem
  \/ LoadAccount
  \/ LoadSeqno
  \/ Emulate
  \/ ReadSecret
  \/ ProviderError
  \/ \E m \in signed : Execute(m)
  \/ Move

Spec == Init /\ [][Next]_vars

-----------------------------------------------------------------------------
(* Properties *)

\* A preview and the calls its documentation lets follow it.
Follows ==
  {<<"preview_send", "send">>, <<"preview_send", "prepare_transfer">>,
   <<"preview_send", "sign_message">>, <<"preview_send_boc", "send_boc">>,
   <<"preview_nft_transfer", "send_nft_transfer">>}

\* What a preview cannot know: the provider, the protected storage, and whether
\* the phrase in it was rotated.
NotPreviewed ==
  {"Provider", "ProtectedSecretHost", "InvalidProtectedSecret",
   "SecretWalletMismatch", "RotatedWalletRequiresActiveAccount"}

\* A request whose preview succeeded is not refused by the signing call that
\* follows it on the same chain state, except for what no preview can see: the
\* previews of preview.rs and the calls of send.rs, prepare_transfer.rs,
\* sign_message.rs, send_boc.rs and nft_transfer.rs repeat each other's checks.
PreviewHolds ==
  calm => \A p \in preview, x \in refused :
            p.req = x.req /\ <<p.kind, x.kind>> \in Follows => x.why \in NotPreviewed

\* What is signed would be accepted by the contract: a message signed while the
\* chain stood still carries the contract's seqno, an expiration that has not
\* passed, a StateInit exactly for an account without code, and in that case
\* the signature of the key that the StateInit installs.
SignedIsAcceptable ==
  still => \A m \in signed :
            m.kind # "send_boc" =>
              /\ Accepts(m) \/ balance = 0
              /\ status \in Undeployed <=> m.init
              /\ m.init => m.key = "k0"

\* The external and the internal form that prepare_transfer returns are
\* alternatives: the contract executes at most one of them, whatever happens
\* to the chain while they are prepared and delivered.
PairIsExclusive ==
  \A d, e \in executed : d.message.kind = "prepare_transfer" => d = e

\* An exact transfer that was previewed, signed and executed on one chain state
\* is paid in full, and an NFT transfer moves the item: the emulated fee is
\* part of preview_send's balance check, and preview_nft_transfer looks for the
\* item's own transaction.
PreviewedIsPaid ==
  \A e \in executed, p \in preview :
    /\ e.calm /\ p.req = e.message.req
    /\ <<p.kind, e.message.kind>> \in Follows \ {<<"preview_send_boc", "send_boc">>}
    => e.paid /\ (p.kind = "preview_nft_transfer" => e.moved)

\* The field documentation of SignMessagePreview: the signer preserves the
\* expiration timestamp that the preview resolved.
SignerPreserves ==
  \A p \in preview, m \in signed :
    /\ p.kind = "preview_sign_message" /\ m.kind = "sign_message"
    /\ p.req = m.req
    => m.validUntil = p.validUntil

\* The comment in send: the host is asked for the mnemonic only after all
\* public preconditions pass, so nothing public refuses the transfer later.
SecretComesLast ==
  \A x \in refused :
    x.kind = "send" => x.why \notin {"InvalidIntent", "AmountOutOfRange",
                                    "ExpirationOutOfRange"}

\* As long as the chain does not move, a preview that succeeds promises that the
\* signing call is not refused and that the transfer is paid.  Nothing is promised
\* once the account, the item or the time has changed.
PreviewsHold == PreviewHolds /\ PreviewedIsPaid

\* What is signed can be executed, and of a prepared pair one message only.
SignedIsSound == SignedIsAcceptable /\ PairIsExclusive
=============================================================================
