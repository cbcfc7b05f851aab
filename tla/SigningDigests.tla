--------------------------- MODULE SigningDigests ----------------------------
(***************************************************************************)
(* What a TON Connect signature is over: the byte strings and cells of     *)
(* src/crates/ton-connect-core/src/signing.rs, for ownership proofs and    *)
(* for signed data.                                                        *)
(*                                                                         *)
(* Bytes are the numbers 0 .. 255 and text is a sequence of bytes.  SHA-256*)
(* and the cell hash have no collisions, so a digest is the tuple of what  *)
(* was hashed.  The hash of a proof is wrapped in 45 bytes and hashed      *)
(* again, and a data message has at least 79 bytes: tuples of different    *)
(* length stand for byte strings of different length.  CRC-32 is a         *)
(* constant function with collisions.                                      *)
(***************************************************************************)
EXTENDS Integers, Sequences, FiniteSets, SequencesExt

CONSTANTS
  Subjects,             \* what can be signed
  Crc32(_),
  MaxLabel,             \* 63
  MaxEncoded,           \* 126
  DNS_SNAKE_CELL_BYTES, \* 127
  LengthBytes           \* bytes of a length field: 4

VARIABLES first, second

vars == <<first, second>>

Dot == 46
Colon == 58

\* The w bytes of n, most significant first.
to_be_bytes(n, w) == [i \in 1 .. w |-> (n \div (256 ^ (w - i))) % 256]

to_le_bytes(n, w) == [i \in 1 .. w |-> (n \div (256 ^ (i - 1))) % 256]

\* Two's complement.
workchain_bytes(n) ==
  IF n >= 0 THEN to_be_bytes(n, 4)
  ELSE [i \in 1 .. 4 |-> 255 - to_be_bytes(-n - 1, 4)[i]]

\* A length that does not fit the field is refused.
fits(s) == Len(s) < 256 ^ LengthBytes

TON_PROOF_ITEM_PREFIX == <<116, 111, 110, 45, 112, 47>>
TON_CONNECT_PREFIX == <<116, 111, 110, 45, 99>>
SIGN_DATA_PREFIX == TON_CONNECT_PREFIX \o <<47, 115, 47>>

sha256(bytes) == <<"sha256", bytes>>

\* Mutant: the domain runs into what follows.
ton_proof_message_joined(address, domain, timestamp, payload) ==
  TON_PROOF_ITEM_PREFIX \o workchain_bytes(address.workchain) \o address.hash
    \o domain \o to_le_bytes(timestamp, 2) \o payload

\* Timestamps keep two of their eight bytes.
ton_proof_message(address, domain, timestamp, payload) ==
  TON_PROOF_ITEM_PREFIX \o workchain_bytes(address.workchain) \o address.hash
    \o to_le_bytes(Len(domain), LengthBytes) \o domain
    \o to_le_bytes(timestamp, 2) \o payload

ton_proof_signing_hash(s) ==
  IF ~fits(s.domain) THEN {}
  ELSE {<<"sha256", <<255, 255>> \o TON_CONNECT_PREFIX,
          sha256(ton_proof_message(s.address, s.domain, s.timestamp, s.payload))>>}

text_or_binary_signing_hash(s, discriminator) ==
  IF ~fits(s.domain) \/ ~fits(s.payload) THEN {}
  ELSE {sha256(<<255, 255>> \o SIGN_DATA_PREFIX \o workchain_bytes(s.address.workchain)
                 \o s.address.hash \o to_be_bytes(Len(s.domain), LengthBytes) \o s.domain
                 \o to_be_bytes(s.timestamp, 2) \o discriminator
                 \o to_be_bytes(Len(s.payload), LengthBytes) \o s.payload)}

\* url::Host::parse of a name: lower case, no forbidden character; a name whose
\* last label is a number is an IPv4 address or refused.
Lower(byte) == IF byte \in 65 .. 90 THEN byte + 32 ELSE byte

Digit(byte) == byte \in 48 .. 57

Split(s) ==
  LET dots == {i \in DOMAIN s : s[i] = Dot}
      cuts == SetToSortSeq({0, Len(s) + 1} \cup dots, <)
  IN  [i \in 1 .. Len(cuts) - 1 |-> SubSeq(s, cuts[i] + 1, cuts[i + 1] - 1)]

parse_host(s) ==
  IF s = <<>> \/ ToSet(s) \cap {0, Colon} # {} THEN {}
  ELSE LET last == Last(Split(s))
       IN  IF last # <<>> /\ \A i \in DOMAIN last : Digit(last[i]) THEN {}
           ELSE {[i \in DOMAIN s |-> Lower(s[i])]}

\* Labels from the last to the first, each behind it a zero byte.
encode_labels(labels) ==
  FlattenSeq([i \in DOMAIN labels |-> Append(Reverse(labels)[i], 0)])

tep81_domain(domain) ==
  IF domain = <<>> THEN {}
  ELSE IF domain = <<Dot>> THEN {<<0>>}
  ELSE LET stripped == IF Last(domain) = Dot THEN Front(domain) ELSE domain
       IN  {e \in {encode_labels(Split(ascii)) :
                     ascii \in {a \in parse_host(stripped) :
                       \A i \in DOMAIN Split(a) : Len(Split(a)[i]) \in 1 .. MaxLabel}} :
              Len(e) <= MaxEncoded}

\* Chunks of a cell each, the first one short.
snake_cell(bytes) ==
  LET n == DNS_SNAKE_CELL_BYTES
      cells == (Len(bytes) + n - 1) \div n
      first_length == Len(bytes) - (cells - 1) * n
  IN  [i \in 1 .. cells |->
         IF i = 1 THEN SubSeq(bytes, 1, first_length)
         ELSE SubSeq(bytes, first_length + (i - 2) * n + 1, first_length + (i - 1) * n)]

SIGN_DATA_CELL_MAGIC == 1968607266

\* An address of a workchain that fits a byte has the short form.
cell_address(address) ==
  <<IF address.workchain \in -128 .. 127 THEN "std" ELSE "var", address.workchain, address.hash>>

cell_signing_hash(s) ==
  {<<"cell", SIGN_DATA_CELL_MAGIC, Crc32(s.schema), s.timestamp, cell_address(s.address),
     snake_cell(encoded), s.payload>> : encoded \in tep81_domain(s.domain)}

sign_data_signing_hash(s) ==
  CASE s.kind = "text" -> text_or_binary_signing_hash(s, <<116, 120, 116>>)
    [] s.kind = "binary" -> text_or_binary_signing_hash(s, <<98, 105, 110>>)
    [] s.kind = "cell" -> cell_signing_hash(s)

digest(s) == IF s.kind = "proof" THEN ton_proof_signing_hash(s) ELSE sign_data_signing_hash(s)

\* A strict Ed25519 signature is over one digest.
verify_signature(hash, signature, public_key) == signature = <<public_key, hash>>

Nothing == [kind |-> "none"]

Init == first = Nothing /\ second = Nothing

\* The wallet signs, and a verifier rebuilds the digest of what it was told.
Sign == first = Nothing /\ first' \in Subjects /\ UNCHANGED second

Verify == first # Nothing /\ second = Nothing /\ second' \in Subjects /\ UNCHANGED first

Next == Sign \/ Verify

Spec == Init /\ [][Next]_vars

------------------------------------------------------------------------------
(* Properties *)

Both == first # Nothing /\ second # Nothing

SignatureHolds ==
  \E a \in digest(first), b \in digest(second) : verify_signature(b, <<"key", a>>, "key")

\* The same name in the eyes of TEP-81: case and one trailing dot do not count.
SameName(a, b) ==
  LET Bare(s) == IF Len(s) > 1 /\ Last(s) = Dot THEN Front(s) ELSE s
      Fold(s) == [i \in DOMAIN s |-> Lower(s[i])]
  IN  Fold(Bare(a)) = Fold(Bare(b))

\* A signature for one subject verifies for no other: not for another account,
\* time, domain, payload or kind of signature.  Cell signatures do not tell
\* schemas with one checksum or spellings of one name apart.
SignsOneSubject ==
  Both /\ SignatureHolds =>
    /\ first.kind = second.kind /\ first.address = second.address
    /\ first.timestamp = second.timestamp /\ first.payload = second.payload
    /\ IF first.kind = "cell"
       THEN SameName(first.domain, second.domain) /\ Crc32(first.schema) = Crc32(second.schema)
       ELSE first.domain = second.domain

\* An encoded name has no empty label, fits one cell and can be decoded.
NamesFitOneCell ==
  first # Nothing =>
    \A encoded \in tep81_domain(first.domain) :
      /\ Len(snake_cell(encoded)) = 1
      /\ Last(encoded) = 0
      /\ encoded # <<0>> => \A i \in DOMAIN encoded : encoded[i] = 0 => i > 1 /\ encoded[i - 1] # 0

\* A signature speaks of one subject, and the names in it can be read back
\* (ton_proof_signing_hash, sign_data_signing_hash and tep81_domain).
DigestsAreExact == SignsOneSubject /\ NamesFitOneCell
=============================================================================
