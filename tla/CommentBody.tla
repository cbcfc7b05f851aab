----------------------------- MODULE CommentBody -----------------------------
(***************************************************************************)
(* The layout of an encrypted comment in src/wallet/encrypted_comment.rs:  *)
(* padding, the three parts of the payload, the chain of cells that        *)
(* carries it and the checks of the reader, by byte length.                *)
(*                                                                         *)
(* Bytes are abstracted to lengths and to who can compute them: a shared   *)
(* secret is the pair of keys, a message key is the salt and the padded    *)
(* text, and a cipher text opens under the secret it was made with.        *)
(***************************************************************************)
EXTENDS Integers, Sequences, FiniteSets, SequencesExt

CONSTANTS
  Keys, Weak,           \* public keys; the weak ones are of small order
  Lengths,              \* lengths of comments that are written
  ForeignPadded,        \* lengths of padded texts by other implementations
  ForeignPrefix,        \* their first bytes
  ForeignChunk          \* the sizes into which they cut a payload

VARIABLES stage, sent, body, cells, result

vars == <<stage, sent, body, cells, result>>

MAX_ENCRYPTED_COMMENT_BYTES == 960

PUBLIC_KEY_BYTES == 32

MESSAGE_KEY_BYTES == 16

AES_BLOCK_BYTES == 16

ROOT_PAYLOAD_BYTES == 35

REF_PAYLOAD_BYTES == 127

MAX_ENCRYPTED_PAYLOAD_BYTES == 1024

HeaderBytes == PUBLIC_KEY_BYTES + MESSAGE_KEY_BYTES

CELL_BYTES == 127

\* The prefix of 16 to 31 bytes that fills the last block: (n + 31) & !15 - n.
padded_prefix_length(n) == ((n + 31) \div AES_BLOCK_BYTES) * AES_BLOCK_BYTES - n

\* The length of the chunks of at most `size` bytes.
Chunks(length, size) ==
  [i \in 1 .. (length + size - 1) \div size |->
     IF i * size <= length THEN size ELSE length % size]

\* Mutant: the root cell is filled to the last byte without its opcode.
encrypted_payload_boc_full(length) ==
  <<CELL_BYTES + 4>> \o Chunks(length - CELL_BYTES, REF_PAYLOAD_BYTES)

\* The bytes of each cell, root first: 35 bytes of payload follow the opcode.
encrypted_payload_boc(length) ==
  <<ROOT_PAYLOAD_BYTES + 4>> \o Chunks(length - ROOT_PAYLOAD_BYTES, REF_PAYLOAD_BYTES)

\* What the cipher accepts: whole blocks, at least one.
Aligned(length) == length > 0 /\ length % AES_BLOCK_BYTES = 0

\* A point of small order is refused.
ed25519_shared_secret(own, peer) == IF peer \in Weak THEN {} ELSE {{own, peer}}

\* The message key authenticates the padded text and the sender's address.
MessageKey(sender, padded) == <<sender, padded>>

\* The body, or {} for an error.
encrypt_with_prefix(sender, recipient, length, prefix) ==
  LET padded == [length |-> prefix + length, prefix |-> prefix]
  IN  IF \/ length > MAX_ENCRYPTED_COMMENT_BYTES
         \/ prefix \notin 16 .. 31
         \/ ~Aligned(padded.length)
      THEN {}
      ELSE {[keys |-> {sender, recipient}, message_key |-> MessageKey(sender, padded),
             secret |-> s, padded |-> padded] : s \in ed25519_shared_secret(sender, recipient)}

encrypt_comment(sender, recipient, length) ==
  IF length > MAX_ENCRYPTED_COMMENT_BYTES THEN {}
  ELSE encrypt_with_prefix(sender, recipient, length, padded_prefix_length(length))

PayloadBytes(b) == HeaderBytes + b.padded.length

\* The payload that the chain of cells holds, if its length is allowed.
encrypted_payload(chain) ==
  LET length == FoldLeft(LAMBDA a, n : a + n, 0, chain) - 4
  IN  IF length \in HeaderBytes + AES_BLOCK_BYTES .. MAX_ENCRYPTED_PAYLOAD_BYTES
      THEN {length} ELSE {}

\* The key that the header leaves when one's own is taken out of it.
PeerKey(own, keys) ==
  IF own \notin keys THEN "garbage"
  ELSE IF keys = {own} THEN own ELSE CHOOSE k \in keys : k # own

prefix_is_valid(padded) == padded.prefix \in 16 .. 31 /\ padded.prefix <= padded.length

\* The error of decrypt_with_key or the length of the comment.
decrypt_with_key(own, sender, chain, b) ==
  LET payload == encrypted_payload(chain)
      secret == ed25519_shared_secret(own, PeerKey(own, b.keys))
      size == CHOOSE n \in payload : TRUE
  IN  IF payload = {} \/ ~Aligned(size - HeaderBytes) THEN "InvalidBody"
      ELSE IF secret = {} THEN "InvalidPeerPublicKey"
      ELSE IF secret # {b.secret} \/ b.message_key # MessageKey(sender, b.padded)
      THEN "AuthenticationFailed"
      ELSE IF ~prefix_is_valid(b.padded) THEN "InvalidBody"
      ELSE IF b.padded.length - b.padded.prefix > MAX_ENCRYPTED_COMMENT_BYTES
      THEN "InvalidBody"
      ELSE "Ok"

NoText == [sender |-> "none", recipient |-> "none", length |-> 0]

Init == stage = "new" /\ sent = NoText /\ body = {} /\ cells = <<>> /\ result = {}

\* This implementation writes a comment.
Write ==
  /\ stage = "new"
  /\ \E s \in Keys \ Weak, r \in Keys, n \in Lengths :
       /\ sent' = [sender |-> s, recipient |-> r, length |-> n]
       /\ body' = encrypt_comment(s, r, n)
       /\ cells' = IF body' = {} THEN <<>>
                   ELSE encrypted_payload_boc(PayloadBytes(CHOOSE b \in body' : TRUE))
  /\ stage' = "written" /\ UNCHANGED result

\* Another implementation writes any padded text under an honest message key.
WriteForeign ==
  /\ stage = "new"
  /\ \E s \in Keys \ Weak, r \in Keys \ Weak, n \in ForeignPadded, p \in ForeignPrefix,
        c \in ForeignChunk :
       LET padded == [length |-> n, prefix |-> p]
           b == [keys |-> {s, r}, message_key |-> MessageKey(s, padded),
                 secret |-> {s, r}, padded |-> padded]
       IN  body' = {b} /\ cells' = Chunks(4 + PayloadBytes(b), c)
  /\ stage' = "foreign" /\ UNCHANGED <<sent, result>>

\* A key of a reader and an address that it believes the comment is from.
Read ==
  /\ stage \in {"written", "foreign"}
  /\ \E own \in Keys \ Weak, sender \in Keys \ Weak, b \in body :
       result' = {[own |-> own, sender |-> sender,
                   answer |-> decrypt_with_key(own, sender, cells, b)]}
  /\ UNCHANGED <<stage, sent, body, cells>>

Next == Write \/ WriteForeign \/ Read

Spec == Init /\ [][Next]_vars

------------------------------------------------------------------------------
(* Properties *)

\* Every text of up to 960 bytes, the longest included, becomes a body that
\* fits the payload limit and the cells, and no longer text does.
EveryTextFits ==
  stage = "written" /\ sent.recipient \notin Weak =>
    /\ body # {} <=> sent.length <= MAX_ENCRYPTED_COMMENT_BYTES
    /\ \A b \in body :
         /\ encrypted_payload(cells) = {PayloadBytes(b)}
         /\ \A i \in DOMAIN cells : cells[i] \in 1 .. CELL_BYTES

\* A written body is read by exactly its two parties under its sender's
\* address, and the text has the length that was written; every other failure
\* is one that makes the engine try another key.
ReadByItsParties ==
  \A r \in result, b \in body :
    stage = "written" =>
      /\ r.answer = "Ok" <=> r.own \in b.keys /\ r.sender = sent.sender
      /\ r.answer = "Ok" => b.padded.length - b.padded.prefix = sent.length
      /\ r.answer \in {"Ok", "AuthenticationFailed", "InvalidPeerPublicKey"}

\* Whatever another implementation sends, a comment that is shown has a length
\* that this one could have written.
ShownCanBeWritten ==
  \A r \in result, b \in body :
    r.answer = "Ok" =>
      b.padded.length - b.padded.prefix \in 0 .. MAX_ENCRYPTED_COMMENT_BYTES

\* An encrypted comment of any length that is allowed fits its cells, is read by
\* its two parties and nobody else, and what is shown could have been written
\* (encrypt_comment, encrypted_payload_boc and decrypt_with_key).
CommentsRoundTrip == EveryTextFits /\ ReadByItsParties /\ ShownCanBeWritten
=============================================================================
