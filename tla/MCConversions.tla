---------------------------- MODULE MCConversions ----------------------------
(***************************************************************************)
(* What the wallet reads and writes: recovery phrases, comment bodies,     *)
(* provider answers, activity rows, bags of cells, the digests it signs,   *)
(* links and TON Connect messages. A behavior is about one of these        *)
(* components, named by part, over inputs around the limits and with       *)
(* damage.                                                                 *)
(***************************************************************************)
EXTENDS Integers, Sequences, FiniteSets, SequencesExt, TLC

VARIABLES
  part,  \* the component that this behavior is about
  x1, x2, x3, x4, x5, x6, x7, x8  \* its variables, in the order of its module

vars == <<part, x1, x2, x3, x4, x5, x6, x7, x8>>

-----------------------------------------------------------------------------
(* Recovery phrases: two-bit words, three-word halves, four bits of entropy and
   two of checksum.  The digest is a fixed function of all entropy bits. *)

Bit == {0, 1}

PhraseDigest(entropy) ==
  LET ones == FoldLeft(LAMBDA n, b : 3 * n + b + 1, 5, entropy)
  IN  <<(ones \div 8) % 2, (ones \div 4) % 2, (ones \div 2) % 2, ones % 2>>

PhraseDraws == [1 .. 4 -> Bit]

\* One word in each element.
Single(phrase) == [i \in DOMAIN phrase |-> <<phrase[i]>>]

LongPhrases == {Single(p) : p \in [1 .. 6 -> 0 .. 3]}

\* ShortPhrases phrases with upper case and unknown words, and phrases of other sizes.
ShortPhrases == {Single(p) : p \in [1 .. 3 -> 0 .. 8]}

OtherSizes == {Single(p) : p \in [1 .. 2 -> 0 .. 3] \cup [1 .. 4 -> 0 .. 3]}

\* Phrases with a blank element, as splitting at every space leaves it, and with
\* two words in one element.
UnevenPhrases ==
  UNION {{<<e[1], <<>>, e[2], e[3]>>, <<e[1] \o e[2], e[3]>>, <<e[1] \o e[2], <<>>, e[3]>>}
           : e \in {Single(p) : p \in [1 .. 3 -> 0 .. 4]}}

EnteredPhrases == LongPhrases \cup ShortPhrases \cup OtherSizes \cup UnevenPhrases

\* An arbitrary share of the long phrases, some of them valid rotation phrases.
TonPhrases == {p \in [1 .. 6 -> 0 .. 3] : p[2] = 0 /\ p[5] = 1}

Phrases == INSTANCE RecoveryPhrases WITH words <- x1, schemes <- x2,
  imported <- x3, stage <- x4, BITS_PER_WORD <- 2, HALF_WORD_COUNT <- 3,
  ENTROPY_BITS <- 4, CHECKSUM_BITS <- 2, Digest <- PhraseDigest,
  TonPhrases <- TonPhrases, Entered <- EnteredPhrases, Draws <- PhraseDraws

-----------------------------------------------------------------------------
(* Comment bodies: every length around the block and cell boundaries and around
   the limit of 960 bytes. *)

TextLengths == 0 .. 130 \cup 225 .. 260 \cup 940 .. 980

ForeignPadded == {0, 15, 16, 17, 32, 48, 960, 976, 977, 992}

ForeignPrefix == {0, 1, 15, 16, 17, 31, 32, 255}

Body == INSTANCE CommentBody WITH stage <- x1, sent <- x2, body <- x3,
  cells <- x4, result <- x5, Keys <- {"w", "p", "x", "weak"}, Weak <- {"weak"},
  Lengths <- TextLengths, ForeignPadded <- ForeignPadded,
  ForeignPrefix <- ForeignPrefix, ForeignChunk <- {64, 127}

-----------------------------------------------------------------------------
(* Provider answers, with machine integers of two and three bits. *)

Answers == INSTANCE ProviderAnswers WITH asked <- x1, reaction <- x2,
  evidence <- x3, U32_MAX <- 3, U64_MAX <- 7, Delays <- {0, 5}, Times <- 0 .. 7,
  Hashes <- {"m", "n"}

-----------------------------------------------------------------------------
(* Activity rows: two transactions, with up to three outgoing messages that the
   provider describes more or less completely. *)

Sent(value, lt, hash, opcode, text, bounced) ==
  [value |-> [shape |-> IF value = 0 THEN "number" ELSE "string", value |-> value],
   created_lt |-> lt, hash |-> hash,
   peer |-> [shape |-> IF value = 0 THEN "null" ELSE "object", address |-> text],
   opcode |-> opcode, text |-> text, bounced |-> bounced]

Descriptions ==
  {[kind |-> "Ord", aborted |-> b, installed |-> FALSE] : b \in BOOLEAN}
  \cup {[kind |-> "SplitInstall", aborted |-> FALSE, installed |-> b] : b \in BOOLEAN}
  \cup {[kind |-> "Storage", aborted |-> FALSE, installed |-> FALSE]}

\* Outgoing messages in chain order: with logical times, with hashes only, with
\* a message that moves no value, or with a broken peer.
Outgoing ==
  {<<>>,
   <<Sent(7, {1}, {3}, "zero", "a", FALSE), Sent(0, {2}, {2}, "none", "b", FALSE),
     Sent(5, {3}, {1}, "encrypted", "c", FALSE)>>,
   <<Sent(7, {}, {3}, "zero", "a", FALSE), Sent(5, {}, {2}, "none", "b", FALSE)>>,
   <<Sent(7, {}, {}, "zero", "a", FALSE), Sent(5, {}, {}, "none", "b", FALSE)>>,
   <<[Sent(7, {1}, {3}, "zero", "a", FALSE) EXCEPT !.peer.shape = "null"]>>}

Incoming == {{}, {Sent(4, {}, {}, "zero", "i", TRUE)}, {Sent(4, {}, {}, "none", "i", FALSE)},
             {Sent(0, {}, {}, "none", "i", FALSE)}}

Transaction(lt, hash, out, in, descr) ==
  [lt |-> lt, utime |-> 100, hash |-> hash, fee |-> 1, out_msgs |-> out, in_msg |-> in,
   descr |-> descr]

Plainly == [kind |-> "Ord", aborted |-> FALSE, installed |-> FALSE]

Chains ==
  {<<Transaction(5, 9, out, in, Plainly), Transaction(4, 8, newer, {}, Plainly)>> :
     out \in Outgoing, in \in Incoming, newer \in {o \in Outgoing : Len(o) \in {0, 3}}}
  \cup {<<Transaction(5, 9, out, in, d), Transaction(4, 8, <<>>, {}, Plainly)>> :
          out \in Outgoing, in \in Incoming, d \in Descriptions}

Rows == INSTANCE ActivityRows WITH chain <- x1, listing <- x2, page <- x3,
  earlier <- x4, Chains <- Chains, PageSize <- 2

-----------------------------------------------------------------------------
(* Bags of cells: serialized trees of up to four cells, each as it should be and
   with one damaged, missing or extra byte. *)

\* A checksum that notices every single damaged byte.
BocChecksum(s) ==
  LET sum == FoldSet(LAMBDA i, n : n + s[i] * (2 * i + 1), 0, DOMAIN s)
  IN  <<sum % 251, sum % 241, sum % 239, 7>>

BocFormat == INSTANCE CellBoc WITH Inputs <- {}, Crc32c <- BocChecksum,
  MAX_CELL_DEPTH <- 2, HASH_BYTES <- 1, DEPTH_BYTES <- 2, bytes <- x1, position <- x2,
  stage <- x3, header <- x4, offsets <- x5, start <- x6, heights <- x7, cells <- x8

Ordinary(data, refs) == [descriptor |-> Len(refs), bits |-> 2 * Len(data), data |-> data, refs |-> refs]

\* Seven bits and the completion bit.
OddBits(refs) == [descriptor |-> Len(refs), bits |-> 1, data |-> <<129>>, refs |-> refs]

Exotic(mask, data, refs) ==
  [descriptor |-> 32 * mask + 8 + Len(refs), bits |-> 2 * Len(data), data |-> data, refs |-> refs]

Stored(data, refs) ==
  [descriptor |-> 16 + Len(refs), bits |-> 2 * Len(data), data |-> <<9, 0, 1>> \o data, refs |-> refs]

Trees ==
  {<<Ordinary(<<5>>, <<>>)>>,
   <<OddBits(<<1, 1>>), OddBits(<<>>)>>,
   <<Ordinary(<<>>, <<1, 2>>), Ordinary(<<6>>, <<2>>), Ordinary(<<7>>, <<>>)>>,
   <<Ordinary(<<>>, <<1>>), Ordinary(<<>>, <<2>>), Ordinary(<<>>, <<3>>), Ordinary(<<>>, <<>>)>>,
   <<Ordinary(<<1>>, <<1>>), Exotic(1, <<BocFormat!PRUNED_BRANCH, 1, 9, 0, 2>>, <<>>)>>,
   <<Exotic(0, <<BocFormat!MERKLE_PROOF, 9, 0, 1>>, <<1>>), Exotic(0, <<BocFormat!LIBRARY, 4>>, <<>>)>>,
   <<Exotic(0, <<BocFormat!MERKLE_UPDATE, 9, 0, 1, 8, 0, 1>>, <<1, 1>>), Stored(<<3>>, <<>>)>>}

CellBytes(cell) == <<cell.descriptor, cell.bits>> \o cell.data \o cell.refs

Serialize(tree, index, crc) ==
  LET parts == [i \in DOMAIN tree |-> CellBytes(tree[i])]
      body == FlattenSeq(parts)
      ends == [i \in DOMAIN tree |-> Len(FlattenSeq(SubSeq(parts, 1, i)))]
      whole == BocFormat!GENERIC_BOC_MAGIC
                 \o <<1 + (IF index THEN 128 ELSE 0) + (IF crc THEN 64 ELSE 0), 1>>
                 \o <<Len(tree), 1, 0, Len(body), 0>>
                 \o (IF index THEN ends ELSE <<>>) \o body
  IN  IF crc THEN whole \o BocChecksum(whole) ELSE whole

Serialized(crcs) ==
  {Serialize(tree, index, crc) : tree \in Trees, index \in BOOLEAN, crc \in crcs}

Damaged(s) ==
  {[s EXCEPT ![i] = v] : i \in DOMAIN s, v \in {0, 1, 2, 3, 65, 255}}
  \cup {SubSeq(s, 1, n) : n \in 0 .. Len(s) - 1} \cup {Append(s, 0)}

BocInputs == UNION {Damaged(s) \cup {s} : s \in Serialized(BOOLEAN)}

Boc == INSTANCE CellBoc WITH bytes <- x1, position <- x2, stage <- x3,
  header <- x4, offsets <- x5, start <- x6, heights <- x7, cells <- x8,
  Inputs <- BocInputs, Crc32c <- BocChecksum, MAX_CELL_DEPTH <- 2,
  HASH_BYTES <- 1, DEPTH_BYTES <- 2

-----------------------------------------------------------------------------
(* Transfer links: invoices over the characters that escaping is about, percent,
   plus, ampersand, equals sign, and digits that complete an escape. *)

LinkAddresses == {<<"R">>, <<"R", "/">>}
LinkBocs == {<<"+", "=">>, <<"/">>}

\* Comments, among them the text of an escape and the empty one.
LinkTexts == {<<>>, <<"+">>, <<"%", "2", "5">>, <<"&", "=">>, <<"%">>}

LinkPairs ==
  {<<"t", s>> : s \in LinkTexts}
    \cup {<<"a", s>> : s \in {<<"2">>, <<"0", "5">>, <<"5", "0">>, <<"+">>}}
    \cup {<<"e", s>> : s \in {<<"2", "5">>, <<"5", "2">>, <<"0">>}}
    \cup {<<"j", s>> : s \in LinkAddresses \cup {<<"2">>}}
    \cup {<<"b", s>> : s \in LinkBocs \cup {<<"a">>}}
    \cup {<<"?", <<>>>>}

PairLists == {<<>>} \cup {<<p>> : p \in LinkPairs} \cup {<<p, q>> : p, q \in LinkPairs}

Invoices ==
  {[recipient |-> <<"R">>, list |-> l] : l \in PairLists}
    \cup {[recipient |-> r, list |-> <<>>] : r \in {<<"R", "/">>, <<"2">>}}

Invoice == INSTANCE TransferLinks WITH invoice <- x1, link <- x2, result <- x3,
  step <- x4, Invoices <- Invoices, Heads <- {"transfer", "other", "decorated"},
  Addresses <- LinkAddresses, Bocs <- LinkBocs, MaxTimestamp <- 25

-----------------------------------------------------------------------------
(* Signing digests: short texts over the bytes that matter; 46 is the dot and 58
   the colon. *)

\* Two of three schemas have one checksum.
SchemaChecksum(schema) == schema % 2

A == 97

Domains ==
  {<<>>, <<46>>, <<A>>, <<65>>, <<A, 46>>, <<A, 46, 46>>, <<A, 46, A>>, <<A, 46, 65>>,
   <<A, A>>, <<A, 58, 48>>, <<A, 46, 49>>, <<A, 0>>, <<A, A, A, A>>,
   <<A, 46, A, A, A>>, <<A, A, 46, A, A>>}

SignerAddresses == {[workchain |-> w, hash |-> <<7>>] : w \in {0, -1, 200}}

Payloads == {<<>>, <<A>>, <<0>>, <<0, A>>, <<A, 0, 0>>}

Subject(kind, address, domain, timestamp, payload, schema) ==
  [kind |-> kind, address |-> address, domain |-> domain, timestamp |-> timestamp,
   payload |-> payload, schema |-> schema]

Subjects ==
  {Subject(k, [workchain |-> 0, hash |-> <<7>>], d, t, p, 1) :
     k \in {"proof", "text", "binary"}, d \in Domains, t \in {0, A}, p \in {<<>>, <<A>>}}
  \cup {Subject(k, [workchain |-> 0, hash |-> <<7>>], d, t, p, 1) :
          k \in {"proof", "text", "binary"}, d \in {<<A>>, <<A, 0>>}, t \in {0, A}, p \in Payloads}
  \cup {Subject("cell", a, d, 0, <<A>>, s) : a \in SignerAddresses, d \in Domains, s \in 1 .. 3}
  \cup {Subject(k, a, <<A>>, 256, <<>>, 1) : k \in {"proof", "text"}, a \in SignerAddresses}
  \cup {Subject("cell", a, <<A>>, 0, <<0>>, 1) : a \in SignerAddresses}

Digests == INSTANCE SigningDigests WITH first <- x1, second <- x2,
  Subjects <- Subjects, Crc32 <- SchemaChecksum, MaxLabel <- 3, MaxEncoded <- 6,
  DNS_SNAKE_CELL_BYTES <- 7, LengthBytes <- 1

-----------------------------------------------------------------------------
(* TON Connect links: every shape of embedded request, and queries over the
   characters that the URL serializer leaves in a query. *)

LinkFormat == INSTANCE ConnectLinks WITH Values <- {}, Queries <- {}, value <- x1,
  query <- x2, text <- x3, sent <- x4, result <- x5, step <- x6

\* Every object with the required fields of a compact type and any optional ones but `without`.
Objects(schema, fields, type, without) ==
  {[f \in {fields[k] : k \in schema.required \cup o} |-> IF f = "type" THEN type ELSE f]
     : o \in SUBSET (schema.optional \ without)}

EmbeddedItems ==
  UNION {Objects(LinkFormat!WireItem[t], LinkFormat!ItemFromWire[t], t, {"ec", "rd", "cp"}) : t \in DOMAIN LinkFormat!WireItem}

EmbeddedMessages == Objects(LinkFormat!WireMessage, LinkFormat!MessageFromWire, "", {})

EmbeddedHeads == Objects(LinkFormat!WireTransaction, LinkFormat!PayloadFromWire, "", {})

EmbeddedRequests ==
  {[method |-> "sendTransaction", form |-> "ms", head |-> h, list |-> <<m>>]
     : h \in EmbeddedHeads, m \in EmbeddedMessages}
    \cup {[method |-> "signMessage", form |-> "i", head |-> <<>>, list |-> <<i>>] : i \in EmbeddedItems}
    \cup {[method |-> "sendTransaction", form |-> "i", head |-> <<>>, list |-> <<i, j>>]
            : i, j \in {o \in EmbeddedItems : Cardinality(DOMAIN o) = 4}}
    \cup UNION {{[method |-> "signData", form |-> "", head |-> h, list |-> <<>>]
                   : h \in Objects(LinkFormat!WireSignData[t], LinkFormat!SignDataFromWire, t, {})}
                  : t \in DOMAIN LinkFormat!WireSignData}

PlainLink == [client |-> "c", request |-> {}, ret |-> "back", embedded |-> {}, trace |-> {},
          extensions |-> <<>>]

LinkValues ==
  {[PlainLink EXCEPT !.request = {"r"}, !.embedded = {e}] : e \in EmbeddedRequests}
    \cup {[client |-> "c", request |-> r, ret |-> s, embedded |-> {}, trace |-> t, extensions |-> x]
            : r \in {{}, {"r"}}, s \in {"back", "none", "u"}, t \in {{}, {"t"}},
              x \in {<<>>, <<<<"x", "1">>>>, <<<<"x", "1">>, <<"x", "2">>>>}}
    \cup {[PlainLink EXCEPT !.embedded = {e}] : e \in {d \in EmbeddedRequests : d.method = "signData"}}

\* What the serializer can leave of one character of a name or a value.
Pieces == {<<"x">>, <<"2">>, <<"-">>, <<"_">>, <<".">>, <<"%", "2", "B">>}

Text(n) == {<<>>} \cup Pieces
               \cup IF n = 1 THEN {} ELSE {a \o b : a, b \in Pieces}

LinkQueries ==
  {<<"i", "d">> \o v \o <<"&">> \o name \o <<"=">> \o w
     : v \in {<<"=">> \o t : t \in Text(2)}, w \in Text(1),
       name \in {n \o r : n \in {<<"r">>} \cup Pieces, r \in {<<>>, <<"_", "x">>}}}

ConnectLink == INSTANCE ConnectLinks WITH value <- x1, query <- x2, text <- x3,
  sent <- x4, result <- x5, step <- x6, Values <- LinkValues,
  Queries <- LinkQueries

-----------------------------------------------------------------------------
(* TON Connect exchanges: connect requests of up to three items, and an RPC of
   every method with every shape of parameters. *)

Protocol == INSTANCE TonConnectProtocol

WireItem(name, network, payload, extra) ==
  [name |-> name, network |-> network, payload |-> payload, extra |-> extra]

WireItems ==
  {WireItem("ton_addr", {}, {}, FALSE), WireItem("ton_addr", {"mainnet"}, {}, FALSE),
   WireItem("ton_addr", {"testnet"}, {}, FALSE), WireItem("ton_addr", {}, {}, TRUE),
   WireItem("ton_proof", {}, {"p"}, FALSE), WireItem("ton_proof", {}, {"q"}, FALSE),
   WireItem("ton_proof", {}, {}, FALSE), WireItem("other", {}, {"p"}, TRUE),
   WireItem("", {}, {}, FALSE)}

WireMessages(n) ==
  {<<[type |-> "message", currencies |-> c, plain |-> p]>> : c \in Protocol!Currencies, p \in BOOLEAN}
    \cup {[i \in 1..k |-> [type |-> "message", currencies |-> {}, plain |-> TRUE]] : k \in 2..n}
    \cup {<<[type |-> "message", currencies |-> {}, plain |-> FALSE],
            [type |-> "message", currencies |-> {1}, plain |-> TRUE]>>, <<>>}

WirePayload(messages, items, network, from, until, unknown, data) ==
  [messages |-> messages, items |-> items, network |-> network, from |-> from,
   until |-> until, unknown |-> unknown, data |-> data]

WireContext == {<<n, f, t>> : n \in {{}, {"mainnet"}, {"testnet"}},
                          f \in {{}, {"wallet"}, {"other"}}, t \in {{}, {0}, {1}}}

PlainMessages == <<[type |-> "message", currencies |-> {}, plain |-> TRUE]>>

WirePayloads ==
  {WirePayload({m}, {}, {}, {}, {}, FALSE, {}) : m \in WireMessages(3)}
    \cup {WirePayload({}, {<<s>>}, {}, {}, {}, FALSE, {}) : s \in Protocol!StructuredItem}
    \cup {WirePayload({PlainMessages}, {}, c[1], c[2], c[3], FALSE, {}) : c \in WireContext}
    \cup {WirePayload({}, {}, {}, {}, {}, FALSE, {d}) : d \in Protocol!SignDataType}
    \cup {WirePayload({PlainMessages}, {<<s>>}, {}, {}, {}, FALSE, {}) : s \in Protocol!StructuredItem}
    \cup {WirePayload({PlainMessages}, {}, {}, {}, {}, TRUE, {}), WirePayload({}, {}, {}, {}, {}, FALSE, {})}

Envelope(method, params) == [method |-> method, params |-> params, id |-> 0]

WireRequests ==
  {Envelope(m, <<p>>) : m \in {"sendTransaction", "signMessage", "signData", "disconnect",
                               "other"}, p \in WirePayloads}
    \cup {Envelope(m, <<>>) : m \in {"sendTransaction", "disconnect", "other"}}

\* The requests that a link carries: two kinds, one that cannot be embedded and
\* one that does not decode.
CarriedRequests ==
  {Envelope(m, <<WirePayload({PlainMessages}, {}, {}, {}, {}, FALSE, {})>>)
     : m \in {"sendTransaction", "signMessage", "other"}} \cup {Envelope("disconnect", <<>>)}

WireLinks ==
  [items : BoundedSeq(WireItems, 3), embedded : {{}}]
    \cup [items : BoundedSeq(WireItems, 1), embedded : {{r} : r \in CarriedRequests}]

Exchange == INSTANCE TonConnectExchange WITH wallet <- x1, link <- x2,
  event <- x3, request <- x4, incoming <- x5, answer <- x6, step <- x7,
  Links <- WireLinks, Requests <- WireRequests, MaxMessages <- 2,
  Wallets <- {"session", "tui"}

-----------------------------------------------------------------------------
\* The variables from each place on that an instance with fewer leaves unused.
rest8 == <<x8>>
Unused8 == x8 = 0
rest7 == <<x7, rest8>>
Unused7 == x7 = 0 /\ Unused8
rest6 == <<x6, rest7>>
Unused6 == x6 = 0 /\ Unused7
rest5 == <<x5, rest6>>
Unused5 == x5 = 0 /\ Unused6
rest4 == <<x4, rest5>>
Unused4 == x4 = 0 /\ Unused5
rest3 == <<x3, rest4>>
Unused3 == x3 = 0 /\ Unused4

Init ==
  \/ /\ part = "phrases" /\ Phrases!Init /\ Unused5
  \/ /\ part = "body" /\ Body!Init /\ Unused6
  \/ /\ part = "answers" /\ Answers!Init /\ Unused4
  \/ /\ part = "rows" /\ Rows!Init /\ Unused5
  \/ /\ part = "boc" /\ Boc!Init
  \/ /\ part = "invoice" /\ Invoice!Init /\ Unused5
  \/ /\ part = "digests" /\ Digests!Init /\ Unused3
  \/ /\ part = "links" /\ ConnectLink!Init /\ Unused7
  \/ /\ part = "exchange" /\ Exchange!Init /\ Unused8

Next ==
  \/ part = "phrases" /\ Phrases!Next /\ UNCHANGED <<part, rest5>>
  \/ part = "body" /\ Body!Next /\ UNCHANGED <<part, rest6>>
  \/ part = "answers" /\ Answers!Next /\ UNCHANGED <<part, rest4>>
  \/ part = "rows" /\ Rows!Next /\ UNCHANGED <<part, rest5>>
  \/ part = "boc" /\ Boc!Next /\ UNCHANGED <<part>>
  \/ part = "invoice" /\ Invoice!Next /\ UNCHANGED <<part, rest5>>
  \/ part = "digests" /\ Digests!Next /\ UNCHANGED <<part, rest3>>
  \/ part = "links" /\ ConnectLink!Next /\ UNCHANGED <<part, rest7>>
  \/ part = "exchange" /\ Exchange!Next /\ UNCHANGED <<part, rest8>>

Spec == Init /\ [][Next]_vars

-----------------------------------------------------------------------------
(* The properties, each of one component *)

\* A recovery phrase means one wallet (detect_mnemonic_schemes, import_wallet,
\* generate_mnemonic and prepare_with_new_half): import accepts what detection
\* announces and, from one word per element, nothing else; it ignores no word, and
\* it restores what was generated or put together by a rotation.
PhrasesAreFaithful == part = "phrases" => Phrases!PhrasesAreFaithful

\* An encrypted comment of any length that is allowed fits its cells, is read by
\* its two parties and nobody else, and what is shown could have been written
\* (encrypt_comment, encrypted_payload_boc and decrypt_with_key).
CommentsRoundTrip == part = "body" => Body!CommentsRoundTrip

\* Nothing definite is concluded from an answer that leaves it open: a verdict on
\* a submission, the advice to retry, a number, the evidence of an execution and
\* an expiration each hold of the provider, over either transport.
AnswersAreTrue == part = "answers" => Answers!AnswersAreTrue

\* The activity list shows every transfer once, with its amount and peer, under one
\* id and in one order, however the provider lists the messages, and with its
\* comment and bounce flag when the provider lists them in the order of the chain
\* (parse_activity, ordered_out_messages and activity_record_order).
RowsAreExact == part = "rows" => Rows!RowsAreExact

\* A ton://transfer link is accepted exactly when it says one thing, and then it
\* is shown as it was meant (parse_ton_transfer_link).
LinkMeansInvoice == part = "invoice" => Invoice!LinkMeansInvoice

\* A signature speaks of one subject, and the names in it can be read back
\* (ton_proof_signing_hash, sign_data_signing_hash and tep81_domain).
DigestsAreExact == part = "digests" => Digests!DigestsAreExact

\* A TON Connect link survives its way: unharmed it is parsed to its value, damaged
\* it is not taken for another one, and Telegram gives its query back as long as no
\* extension has a name that begins with an escaped character.
LinksSurvive == part = "links" => ConnectLink!LinksSurvive

\* The two sides agree: a connect event answers its link; what the user approved
\* connects, unless the session of src/ton_connect.rs is given a link with an
\* embedded request, which it can never approve; what is advertised is served; and
\* every request can be answered (approve_connect, decode_incoming,
\* prepare_response).
ExchangeIsSound == [][part = "exchange" => Exchange!KeepsExchange]_vars

\* A tree in range is accepted in every form of its serialization.
SerializedIsAccepted ==
  part = "boc" /\ x3 = "InvalidBoc" =>
    \A tree \in Trees, index \in BOOLEAN, crc \in BOOLEAN :
      x1 = Serialize(tree, index, crc) => Len(tree) > 3

\* One damaged, missing or extra byte of a serialization with a checksum is noticed,
\* the byte that says whether there is a checksum included.
ByteDamageIsNoticed ==
  part = "boc" /\ x3 = "Ok" =>
    \A s \in Serialized({TRUE}) : x1 \in Damaged(s) => x1 \in Serialized(BOOLEAN)

\* A bag of cells is accepted exactly when it should be (validate_single_root_boc):
\* what is accepted is a tree within the limits, what was serialized from one is
\* accepted, and one damaged byte under a checksum is noticed.
BocIsSound ==
  (part = "boc" => Boc!AcceptedIsTree) /\ SerializedIsAccepted /\ ByteDamageIsNoticed
=============================================================================
