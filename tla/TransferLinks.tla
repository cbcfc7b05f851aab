--------------------------- MODULE TransferLinks ----------------------------
(***************************************************************************)
(* ton://transfer links: parse_ton_transfer_link of                        *)
(* src/domain/ton_transfer_link.rs.  A merchant writes an invoice, escaping*)
(* the characters it has to and any others it likes; the link may be       *)
(* damaged on its way; the wallet parses it.                               *)
(*                                                                         *)
(* A text is a sequence of characters.  A parameter is named by the first  *)
(* letter of its name.  The scheme and the authority are one value: they   *)
(* are the business of the URL library.  Optional values are sets with at  *)
(* most one element.                                                       *)
(***************************************************************************)
EXTENDS Naturals, Sequences, SequencesExt, TLC

CONSTANTS
  Invoices,     \* the recipient and the parameters that a merchant writes
  Heads,        \* schemes and authorities
  Addresses,    \* texts that are addresses
  Bocs,         \* texts that are standard Base64 of one root
  MaxTimestamp  \* the largest u64

VARIABLES
  invoice,  \* what the merchant means
  link,     \* the link: its head and the text behind it
  result,   \* what the wallet makes of it
  step

vars == <<invoice, link, result, step>>

-----------------------------------------------------------------------------
(* Percent escapes.                                                        *)

\* The alphabet, with the two hex digits of each character in both cases; every
\* other pair is not hexadecimal or not UTF-8.
Hex ==
  ("%" :> {<<"2", "5">>}) @@ ("&" :> {<<"2", "6">>}) @@ ("=" :> {<<"3", "D">>, <<"3", "d">>})
    @@ ("+" :> {<<"2", "B">>, <<"2", "b">>}) @@ ("/" :> {<<"2", "F">>})
    @@ ("a" :> {<<"6", "1">>}) @@ ("2" :> {<<"3", "2">>}) @@ ("5" :> {<<"3", "5">>})
    @@ ("R" :> {<<"5", "2">>}) @@ ("t" :> {<<"7", "4">>}) @@ ("?" :> {<<"3", "F">>})

hex_value(pair) == {c \in DOMAIN Hex : pair \in Hex[c]}

\* percent_decode_once: the decoded text, or nothing when an escape is broken.
RECURSIVE percent_decode_once(_)
percent_decode_once(s) ==
  IF s = <<>> THEN {<<>>}
  ELSE IF Head(s) # "%" THEN {<<Head(s)>> \o t : t \in percent_decode_once(Tail(s))}
  ELSE IF Len(s) < 3 THEN {}
  ELSE {<<c>> \o t : c \in hex_value(SubSeq(s, 2, 3)),
                     t \in percent_decode_once(SubSeq(s, 4, Len(s)))}

\* The parts between the separators.
Split(s, separator) ==
  FoldLeft(LAMBDA parts, c :
             IF c = separator THEN Append(parts, <<>>)
             ELSE [parts EXCEPT ![Len(parts)] = Append(@, c)],
           <<<<>>>>, s)

Before(s, c) == SelectInSeq(s, LAMBDA x : x = c) - 1

\* split_once: what is before and after the first c; without it all is before.
SplitOnce(s, c) ==
  IF Before(s, c) < 0 THEN [before |-> s, after |-> <<>>]
  ELSE [before |-> SubSeq(s, 1, Before(s, c)), after |-> SubSeq(s, Before(s, c) + 2, Len(s))]

-----------------------------------------------------------------------------
(* The parser.                                                             *)

Names == {"a", "t", "e", "j", "b"}

Absent == [n \in Names |-> {}]

Error(e) == [error |-> e]

\* Mutant: the value of a pair is decoded twice.
Pair_twice(raw) ==
  LET p == SplitOnce(raw, "=") IN
  {[name |-> n, value |-> w] : n \in percent_decode_once(p.before),
                               w \in UNION {percent_decode_once(v) : v \in percent_decode_once(p.after)}}

Pair(raw) ==
  LET p == SplitOnce(raw, "=") IN
  {[name |-> n, value |-> v] : n \in percent_decode_once(p.before),
                               v \in percent_decode_once(p.after)}

set_once(found, pair) ==
  IF pair.name \notin {<<n>> : n \in Names} THEN Error("UnsupportedParameter")
  ELSE IF found.values[pair.name[1]] # {} THEN Error("DuplicateParameter")
  ELSE [error |-> "none", values |-> [found.values EXCEPT ![pair.name[1]] = {pair.value}]]

\* parse_parameters, one pair after the other up to the first error.
parse_parameters(query) ==
  FoldLeft(LAMBDA found, raw :
             IF found.error # "none" THEN found
             ELSE IF Pair(raw) = {} THEN Error("InvalidUrl")
             ELSE set_once(found, CHOOSE p \in Pair(raw) : TRUE),
           [error |-> "none", values |-> Absent],
           IF query = <<>> THEN <<>> ELSE Split(query, "&"))

Digits == ("2" :> 2) @@ ("5" :> 5) @@ ("0" :> 0)

\* A canonical unsigned decimal.
IsDecimal(s) ==
  /\ s # <<>> /\ \A i \in DOMAIN s : s[i] \in DOMAIN Digits
  /\ Len(s) > 1 => s[1] # "0"

Number(s) == FoldLeft(LAMBDA n, c : 10 * n + Digits[c], 0, s)

All(set, P(_)) == \A v \in set : P(v)

\* The values, in the order in which the parser looks at them.
Admit(recipient, v) ==
  IF ~All(v["a"], IsDecimal) THEN Error("InvalidAmount")
  ELSE IF ~All(v["e"], LAMBDA s : IsDecimal(s) /\ Number(s) <= MaxTimestamp)
  THEN Error("InvalidExpiration")
  ELSE IF ~(v["j"] \subseteq Addresses) THEN Error("InvalidJettonMaster")
  ELSE IF ~(v["b"] \subseteq Bocs) THEN Error("InvalidBinaryPayload")
  ELSE IF v["t"] # {} /\ v["b"] # {} THEN Error("ConflictingPayloads")
  ELSE IF v["j"] # {} /\ v["b"] # {} THEN Error("BinaryJettonConflict")
  ELSE [error |-> "none", recipient |-> recipient, jetton |-> v["j"], amount |-> v["a"],
        text |-> v["t"], boc |-> v["b"], expiration |-> {Number(s) : s \in v["e"]}]

\* The path holds one segment, the recipient.
parse_recipient(path) ==
  IF path \in {<<>>, <<"/">>} THEN Error("MissingRecipient")
  ELSE IF path[1] # "/" \/ Contains(Tail(path), "/")
  THEN Error("InvalidUrl")
  ELSE LET decoded == percent_decode_once(Tail(path)) IN
       IF decoded = {} THEN Error("InvalidUrl")
       ELSE IF ~(decoded \subseteq Addresses) THEN Error("InvalidRecipient")
       ELSE [error |-> "none", text |-> CHOOSE t \in decoded : TRUE]

parse_ton_transfer_link(l) ==
  LET parts == SplitOnce(l.rest, "?")
      recipient == parse_recipient(parts.before)
      parameters == parse_parameters(parts.after)
  IN IF l.head = "other" THEN Error("NotTonTransfer")
     ELSE IF l.head = "decorated" THEN Error("InvalidUrl")
     ELSE IF recipient.error # "none" THEN recipient
     ELSE IF parameters.error # "none" THEN parameters
     ELSE Admit(recipient.text, parameters.values)

-----------------------------------------------------------------------------
(* The merchant.                                                           *)

Reserved == {"%", "&", "=", "/", "?"}

\* The ways to write a character; a plus, and an equals sign in a value, may
\* stand as they are.
Spelling(c, may) ==
  (IF c \in Reserved \ may THEN {} ELSE {<<c>>})
    \cup IF c \in DOMAIN Hex THEN {<<"%">> \o h : h \in Hex[c]} ELSE {}

RECURSIVE Spellings(_, _)
Spellings(s, may) ==
  IF s = <<>> THEN {<<>>}
  ELSE {a \o b : a \in Spelling(Head(s), may), b \in Spellings(Tail(s), may)}

PairSpellings(p) ==
  {n \o <<"=">> \o v : n \in Spellings(<<p[1]>>, {}), v \in Spellings(p[2], {"=", "/", "?"})}

RECURSIVE QuerySpellings(_)
QuerySpellings(list) ==
  IF Len(list) = 1 THEN PairSpellings(list[1])
  ELSE {a \o <<"&">> \o b : a \in PairSpellings(Head(list)), b \in QuerySpellings(Tail(list))}

Init ==
  /\ invoice \in Invoices
  /\ link = [head |-> "transfer", rest |-> <<>>] /\ result = Error("unread") /\ step = "meant"

Write ==
  /\ step = "meant"
  /\ \E path \in Spellings(invoice.recipient, {}),
        query \in IF invoice.list = <<>> THEN {<<>>}
                  ELSE {<<"?">> \o q : q \in QuerySpellings(invoice.list)}, head \in Heads :
       link' = [head |-> head, rest |-> <<"/">> \o path \o query]
  /\ step' = "written"
  /\ UNCHANGED <<invoice, result>>

\* An escape is cut or is not UTF-8, another segment or an unknown parameter gets in.
Damage ==
  /\ step = "written" /\ link.head = "transfer"
  /\ \/ link' = [link EXCEPT !.rest = Append(@, "%")]
     \/ link' = [link EXCEPT !.rest = @ \o <<"%", "F", "F">>]
     \/ link' = [link EXCEPT !.rest = <<"/", "R">> \o @]
     \/ invoice.list # <<>> /\ link' = [link EXCEPT !.rest = @ \o <<"&", "z">>]
     \/ link' = [link EXCEPT !.rest = <<>>]
  /\ step' = "damaged"
  /\ UNCHANGED <<invoice, result>>

Parse ==
  /\ step \in {"written", "damaged"}
  /\ result' = parse_ton_transfer_link(link)
  /\ step' = IF step = "written" THEN "parsed" ELSE "rejected"
  /\ UNCHANGED <<invoice, link>>

Next == Write \/ Damage \/ Parse

Spec == Init /\ [][Next]_vars

-----------------------------------------------------------------------------
(* Properties.                                                             *)

Given(name) == {p[2] : p \in {q \in ToSet(invoice.list) : q[1] = name}}

Twice == \E i, j \in DOMAIN invoice.list : i # j /\ invoice.list[i][1] = invoice.list[j][1]

Conflict == Given("b") # {} /\ (Given("t") # {} \/ Given("j") # {})

\* What the wallet shows is what the merchant meant, character by character,
\* however the link was escaped (percent escapes are decoded exactly once and a
\* plus stays a plus).
ShownIsMeant ==
  step = "parsed" /\ result.error = "none" =>
    /\ link.head = "transfer"
    /\ result.recipient = invoice.recipient /\ result.jetton = Given("j")
    /\ result.amount = Given("a") /\ result.text = Given("t") /\ result.boc = Given("b")
    /\ result.expiration = {Number(s) : s \in Given("e")}

\* An invoice with valid values, each at most once and without a conflict, is
\* accepted in every spelling.
ValidIsAccepted ==
  /\ step = "parsed" /\ link.head = "transfer" /\ ~Twice /\ ~Conflict
  /\ \A p \in ToSet(invoice.list) : p[1] \in Names
  /\ invoice.recipient \in Addresses /\ All(Given("a"), IsDecimal)
  /\ All(Given("e"), LAMBDA s : IsDecimal(s) /\ Number(s) <= MaxTimestamp)
  /\ Given("j") \subseteq Addresses /\ Given("b") \subseteq Bocs
  => result.error = "none"

\* A link that says a thing twice, or that has two payloads, is refused, however
\* the names are spelled; nothing of it is chosen for the user (set_once, the
\* two conflict checks).
AmbiguousIsRefused == step = "parsed" /\ (Twice \/ Conflict) => result.error # "none"

\* A damaged link is refused as a whole.
DamagedIsRefused == step = "rejected" => result.error # "none"

\* A ton://transfer link is accepted exactly when it says one thing, and then it
\* is shown as it was meant (parse_ton_transfer_link).
LinkMeansInvoice ==
  ShownIsMeant /\ ValidIsAccepted /\ AmbiguousIsRefused /\ DamagedIsRefused
=============================================================================
