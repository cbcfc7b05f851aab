--------------------------- MODULE RecoveryPhrases ---------------------------
(***************************************************************************)
(* Recovery phrases: the word packing of src/wallet/mnemonic.rs, the       *)
(* import of entered words in src/wallet/crypto.rs and the classification  *)
(* of src/wallet/mnemonic_scheme.rs.                                       *)
(*                                                                         *)
(* A buffer is a sequence of bits, the most significant bit of its first   *)
(* byte first.  The sizes are parameters: the engine has 11-bit words,     *)
(* 12-word halves, 128 bits of entropy and 4 bits of checksum.  What a     *)
(* user enters is a sequence of elements, and an element is the sequence   *)
(* of the words that white space separates inside it: one word in the      *)
(* normal case, none for a blank element.                                  *)
(***************************************************************************)
EXTENDS Integers, Sequences, SequencesExt

CONSTANTS BITS_PER_WORD, HALF_WORD_COUNT, ENTROPY_BITS, CHECKSUM_BITS,
          Digest(_),        \* the first byte of SHA-256, as bits
          TonPhrases,       \* the word sequences that the TON scheme accepts
          Entered,          \* what users enter
          Draws             \* the entropies that the generator can draw

VARIABLES words, schemes, imported, stage

vars == <<words, schemes, imported, stage>>

ROTATION_WORD_COUNT == 2 * HALF_WORD_COUNT

WORDLIST_LEN == 2 ^ BITS_PER_WORD

\* A word is its index in the list; WORDLIST_LEN more for the same word in
\* upper case; anything larger is a word that no list holds.
Unknown == 2 * WORDLIST_LEN

to_lowercase(w) == IF w < Unknown THEN w % WORDLIST_LEN ELSE w

in_list(w) == w < WORDLIST_LEN

\* word.trim().to_lowercase() of one element, as far as the list is concerned.
normalized(element) ==
  IF Len(element) = 1 THEN to_lowercase(element[1]) ELSE Unknown

checksum_byte(entropy) == Digest(entropy)

Zeros(n) == [i \in 1 .. n |-> 0]

\* Mutant: the bits of a word are written least significant first.
write_word_reversed(buf, offset, value) ==
  [i \in DOMAIN buf |->
     IF /\ i - offset \in 1 .. BITS_PER_WORD
        /\ (value \div 2 ^ (i - offset - 1)) % 2 = 1
     THEN 1 ELSE buf[i]]

write_word(buf, offset, value) ==
  [i \in DOMAIN buf |->
     IF /\ i - offset \in 1 .. BITS_PER_WORD
        /\ (value \div 2 ^ (BITS_PER_WORD - (i - offset))) % 2 = 1
     THEN 1 ELSE buf[i]]

\* Bits beyond the buffer read as zero.
read_word(buf, offset) ==
  FoldLeft(LAMBDA value, bit :
             2 * value + (IF offset + bit \in DOMAIN buf
                          THEN buf[offset + bit] ELSE 0),
           0, [bit \in 1 .. BITS_PER_WORD |-> bit])

\* The buffer that the words of a phrase write, one after the other.
Pack(phrase, size) ==
  FoldLeft(LAMBDA buf, index :
             write_word(buf, (index - 1) * BITS_PER_WORD, phrase[index]),
           Zeros(size), [index \in 1 .. Len(phrase) |-> index])

\* Bip39Half::to_entropy: the entropy, or {} when the checksum does not match.
\* The trailing byte has room for more bits than the checksum uses.
to_entropy(phrase) ==
  LET packed  == Pack(phrase, ENTROPY_BITS + 2 * CHECKSUM_BITS)
      entropy == SubSeq(packed, 1, ENTROPY_BITS)
      actual  == SubSeq(packed, ENTROPY_BITS + 1, ENTROPY_BITS + CHECKSUM_BITS)
  IN  IF actual = SubSeq(checksum_byte(entropy), 1, CHECKSUM_BITS)
      THEN {entropy} ELSE {}

\* Bip39Half::from_entropy.
from_entropy(entropy) ==
  LET byte   == checksum_byte(entropy)
      packed == entropy \o SubSeq(byte, 1, CHECKSUM_BITS) \o Zeros(CHECKSUM_BITS)
  IN  [i \in 1 .. HALF_WORD_COUNT |-> read_word(packed, (i - 1) * BITS_PER_WORD)]

\* Bip39Half::new: the half as a set of at most one normalized phrase.
Bip39Half(elements) ==
  LET half == [i \in DOMAIN elements |-> normalized(elements[i])]
  IN  IF /\ Len(elements) = HALF_WORD_COUNT
         /\ \A i \in DOMAIN half : in_list(half[i])
         /\ to_entropy(half) # {}
      THEN {half} ELSE {}

\* RotationMnemonic::new: a short phrase serves as both halves.
RotationMnemonic(elements) ==
  IF Len(elements) = HALF_WORD_COUNT
  THEN {[anchor |-> h, signing |-> h] : h \in Bip39Half(elements)}
  ELSE IF Len(elements) = ROTATION_WORD_COUNT
  THEN {[anchor |-> a, signing |-> s] :
          a \in Bip39Half(SubSeq(elements, 1, HALF_WORD_COUNT)),
          s \in Bip39Half(SubSeq(elements, HALF_WORD_COUNT + 1,
                                 ROTATION_WORD_COUNT))}
  ELSE {}

\* The elements of a joined phrase after split_whitespace.
split_whitespace(elements) ==
  [i \in 1 .. Len(FlattenSeq(elements)) |-> <<FlattenSeq(elements)[i]>>]

\* RotationMnemonic::parse of the joined words.
parse(elements) == RotationMnemonic(split_whitespace(elements))

\* One checksum over the whole phrase instead of one for each half.
is_bip39_24_phrase(elements) ==
  LET phrase  == [i \in DOMAIN elements |-> normalized(elements[i])]
      packed  == Pack(phrase, 2 * ENTROPY_BITS + 2 * CHECKSUM_BITS)
  IN  /\ Len(elements) = ROTATION_WORD_COUNT
      /\ \A i \in DOMAIN phrase : in_list(phrase[i])
      /\ SubSeq(packed, 2 * ENTROPY_BITS + 1, Len(packed)) =
           checksum_byte(SubSeq(packed, 1, 2 * ENTROPY_BITS))

\* The vendored TON check, of which only the accepted phrases matter: its word
\* list holds neither a blank nor a spaced element.
is_ton_mnemonic(elements) ==
  /\ \A i \in DOMAIN elements : Len(elements[i]) = 1
  /\ FlattenSeq(elements) \in TonPhrases

detect_mnemonic_schemes(elements) ==
  {s \in {"Rotation", "Ton", "Bip39"} :
     \/ s = "Rotation" /\ RotationMnemonic(elements) # {}
     \/ s = "Ton" /\ is_ton_mnemonic(elements)
     \/ s = "Bip39" /\ is_bip39_24_phrase(elements)}

\* SensitiveMnemonic::from_words, which import_wallet calls.
from_words(elements) == parse(elements)

\* generate_mnemonic: the words of one drawn half.
generate_mnemonic(entropy) ==
  LET half == from_entropy(entropy)
  IN  [i \in DOMAIN half |-> <<half[i]>>]

Init ==
  /\ \/ words \in Entered /\ stage = "entered"
     \/ \E entropy \in Draws : words = generate_mnemonic(entropy) /\ stage = "generated"
  /\ schemes = {}
  /\ imported = {}

\* The application classifies the words before it imports them.
Detect ==
  /\ stage \in {"entered", "generated"}
  /\ stage' = IF stage = "entered" THEN "detected" ELSE "known"
  /\ schemes' = detect_mnemonic_schemes(words)
  /\ UNCHANGED <<words, imported>>

Import ==
  /\ stage \in {"detected", "known"}
  /\ stage' = IF stage = "detected" THEN "imported" ELSE "restored"
  /\ imported' = from_words(words)
  /\ UNCHANGED <<words, schemes>>

\* The replacement phrase of a rotation: the anchor and a fresh half.
Rotate ==
  /\ stage = "restored"
  /\ \E m \in imported, entropy \in Draws :
       words' = [i \in 1 .. ROTATION_WORD_COUNT |->
                   IF i <= HALF_WORD_COUNT THEN <<m.anchor[i]>>
                   ELSE generate_mnemonic(entropy)[i - HALF_WORD_COUNT]]
  /\ stage' = "generated"
  /\ UNCHANGED <<schemes, imported>>

Next == Detect \/ Import \/ Rotate

Spec == Init /\ [][Next]_vars

\* Reference: the number that a sequence of digits denotes.
Value(digits, base) == FoldLeft(LAMBDA v, d : base * v + d, 0, digits)

\* Reference: a half encodes its entropy followed by its checksum, read as one
\* large number in base 2^BITS_PER_WORD.
Encodes(half, entropy) ==
  Value(half, WORDLIST_LEN) =
    Value(entropy, 2) * 2 ^ CHECKSUM_BITS +
    Value(SubSeq(Digest(entropy), 1, CHECKSUM_BITS), 2)

\* Every half that import accepts is the encoding of exactly one entropy, and
\* that entropy encodes back to it: no word of a recorded phrase is ignored.
HalvesEncodeEntropy ==
  \A m \in imported : \A half \in {m.anchor, m.signing} :
    \E entropy \in to_entropy(half) :
      Encodes(half, entropy) /\ from_entropy(entropy) = half

\* What was entered holds one word per element, as the caller of
\* detect_mnemonic_schemes is asked to pass it.
OneWordEach == \A i \in DOMAIN words : Len(words[i]) = 1

\* Detection and import read a phrase differently: detect_mnemonic_schemes trims
\* its elements, from_words joins them and splits them again.  A phrase that
\* detection calls a rotation phrase always imports.  One that it does not
\* recognize imports only when an element is blank or holds several words, and
\* then it imports as the words it holds, one by one.
DetectionPredictsImport ==
  stage \in {"imported", "restored"} =>
    /\ "Rotation" \in schemes => OneWordEach /\ imported # {}
    /\ imported # {} => "Rotation" \in schemes \/ ~OneWordEach
    /\ imported # {} =>
         "Rotation" \in detect_mnemonic_schemes(split_whitespace(words))

\* A phrase that the engine generated, and one that a rotation put together,
\* imports as a wallet with the anchor that was generated first; a short phrase
\* expands to equal halves.
GeneratedIsImportable ==
  stage = "restored" =>
    \E m \in imported :
      /\ [i \in 1 .. HALF_WORD_COUNT |-> words[i][1]] = m.anchor
      /\ Len(words) = HALF_WORD_COUNT => m.signing = m.anchor
      /\ Len(words) = ROTATION_WORD_COUNT =>
           m.signing = [i \in 1 .. HALF_WORD_COUNT |->
                          words[HALF_WORD_COUNT + i][1]]

\* A recovery phrase means one wallet (detect_mnemonic_schemes, import_wallet,
\* generate_mnemonic and prepare_with_new_half): import accepts what detection
\* announces and, from one word per element, nothing else; it ignores no word, and
\* it restores what was generated or put together by a rotation.
PhrasesAreFaithful ==
  HalvesEncodeEntropy /\ DetectionPredictsImport /\ GeneratedIsImportable
=============================================================================
