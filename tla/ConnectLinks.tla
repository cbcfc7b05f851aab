---------------------------- MODULE ConnectLinks ----------------------------
(***************************************************************************)
(* Connect links: the compact form of an embedded request (embedded.rs),   *)
(* the query of a link and its parser (deep_link.rs), and the substitution *)
(* that carries a query through Telegram's `startapp` parameter.           *)
(*                                                                         *)
(* A value travels from a dApp to a wallet: it is encoded, it may pass     *)
(* through Telegram, and it is parsed.  An object is a function from field *)
(* names to values; an optional value is a set with at most one element.   *)
(***************************************************************************)
EXTENDS Naturals, Sequences, SequencesExt, TLC

CONSTANTS Values,     \* the ConnectLink values that a dApp builds
          Queries     \* the query texts that cross Telegram

VARIABLES
  value,  \* the link that the dApp built, or none
  query,  \* its query: a sequence of name and value pairs
  text,   \* a query as the sequence of its characters
  sent,   \* the text before Telegram
  result, \* the parsed link, or none
  step

vars == <<value, query, text, sent, result, step>>
-----------------------------------------------------------------------------
(* The compact objects of an embedded request.                             *)

\* Fields get the short names of `keys`; an absent field has no key.
to_wire(keys, object) ==
  [k \in {keys[field] : field \in DOMAIN object} |->
     object[CHOOSE field \in DOMAIN object : keys[field] = k]]

\* An object of the compact schema `wire`: unknown keys are refused, and so is one
\* without a required key.  Its keys are renamed by `fields`.
from_wire(schema, fields, wire) ==
  IF schema.required \subseteq DOMAIN wire
       /\ DOMAIN wire \subseteq schema.required \cup schema.optional
  THEN {to_wire(fields, wire)}
  ELSE {}

\* The compact types.
WireMessage == [required |-> {"a", "am"}, optional |-> {"p", "si", "ec"}]

TransferOptions == {"aa", "qi", "rd", "cp", "fa", "fp"}

WireItem ==
  [ton |-> [WireMessage EXCEPT !.required = @ \cup {"t"}],
   jetton |-> [required |-> {"t", "ma", "d", "am"}, optional |-> TransferOptions],
   nft |-> [required |-> {"t", "na", "no"}, optional |-> TransferOptions]]

WireTransaction == [required |-> {}, optional |-> {"f", "n", "vu"}]

WireSignData ==
  [text |-> [required |-> {"t", "tx"}, optional |-> {"n", "f"}],
   binary |-> [required |-> {"t", "b"}, optional |-> {"n", "f"}],
   cell |-> [required |-> {"t", "s", "c"}, optional |-> {"n", "f"}]]

\* The names a value has on the wire (the From impls of the compact types).
MessageToWire ==
  [address |-> "a", amount |-> "am", payload |-> "p", state_init |-> "si",
   extra_currency |-> "ec"]

TransferToWire ==
  [type |-> "t", attach_amount |-> "aa", query_id |-> "qi", response_destination |-> "rd",
   custom_payload |-> "cp", forward_amount |-> "fa", forward_payload |-> "fp"]

\* Mutant: the two amounts of a transfer are swapped in one direction.
ItemToWireSwapped ==
  [ton |-> MessageToWire @@ [type |-> "t"],
   jetton |-> [attach_amount |-> "fa", forward_amount |-> "aa"] @@ TransferToWire
                @@ [master |-> "ma", destination |-> "d", amount |-> "am"],
   nft |-> TransferToWire @@ [nft_address |-> "na", new_owner |-> "no"]]

ItemToWire ==
  [ton |-> MessageToWire @@ [type |-> "t"],
   jetton |-> TransferToWire @@ [master |-> "ma", destination |-> "d", amount |-> "am"],
   nft |-> TransferToWire @@ [nft_address |-> "na", new_owner |-> "no"]]

PayloadToWire == [from |-> "f", network |-> "n", valid_until |-> "vu"]

MethodToWire == [sendTransaction |-> "st", signMessage |-> "sm", signData |-> "sd"]

SignDataToWire ==
  [type |-> "t", text |-> "tx", bytes |-> "b", schema |-> "s", cell |-> "c",
   network |-> "n", from |-> "f"]

\* The fields that a compact value becomes (the From impls of the public types).
MessageFromWire ==
  [a |-> "address", am |-> "amount", p |-> "payload", si |-> "state_init",
   ec |-> "extra_currency"]

TransferFromWire ==
  [t |-> "type", aa |-> "attach_amount", qi |-> "query_id", rd |-> "response_destination",
   cp |-> "custom_payload", fa |-> "forward_amount", fp |-> "forward_payload"]

ItemFromWire ==
  [ton |-> MessageFromWire @@ [t |-> "type"],
   jetton |-> TransferFromWire @@ [ma |-> "master", d |-> "destination", am |-> "amount"],
   nft |-> TransferFromWire @@ [na |-> "nft_address", no |-> "new_owner"]]

PayloadFromWire == [f |-> "from", n |-> "network", vu |-> "valid_until"]

MethodFromWire == [st |-> "sendTransaction", sm |-> "signMessage", sd |-> "signData"]

SignDataFromWire ==
  [t |-> "type", tx |-> "text", b |-> "bytes", s |-> "schema", c |-> "cell",
   n |-> "network", f |-> "from"]

\* The type that an internally tagged object names, if it is one of `types`.
tag(wire, types) == {t \in types : "t" \in DOMAIN wire /\ wire["t"] = t}

encode_item(form, item) ==
  to_wire(IF form = "ms" THEN MessageToWire ELSE ItemToWire[item.type], item)

decode_item(form, wire) ==
  IF form = "ms" THEN from_wire(WireMessage, MessageFromWire, wire)
  ELSE UNION {from_wire(WireItem[t], ItemFromWire[t], wire) : t \in tag(wire, DOMAIN WireItem)}

\* An embedded request has a method, an envelope and, for a transaction, a list in
\* one of two forms.
encode_embedded_request_param(e) ==
  [m |-> MethodToWire[e.method], form |-> e.form,
   head |-> to_wire(IF e.method = "signData" THEN SignDataToWire ELSE PayloadToWire, e.head),
   list |-> [i \in DOMAIN e.list |-> encode_item(e.form, e.list[i])]]

decode_embedded_request_param(w) ==
  LET heads == IF w.m = "sd"
               THEN UNION {from_wire(WireSignData[t], SignDataFromWire, w.head)
                             : t \in tag(w.head, DOMAIN WireSignData)}
               ELSE from_wire(WireTransaction, PayloadFromWire, w.head)
      list == [i \in DOMAIN w.list |-> decode_item(w.form, w.list[i])]
  IN IF \/ w.m \notin DOMAIN MethodFromWire
        \/ w.m # "sd" /\ (w.form \notin {"ms", "i"} \/ w.list = <<>>)
        \/ \E i \in DOMAIN list : list[i] = {}
     THEN {}
     ELSE {[method |-> MethodFromWire[w.m], form |-> w.form, head |-> head,
            list |-> [i \in DOMAIN list |-> CHOOSE x \in list[i] : TRUE]] : head \in heads}
-----------------------------------------------------------------------------
(* The query of a link.                                                    *)

Known == {"v", "id", "r", "ret", "e", "trace_id"}

Pair(name, v) == <<name, v>>

Option(name, set) == IF set = {} THEN <<>> ELSE <<Pair(name, CHOOSE v \in set : TRUE)>>

\* A link value can be written unless it carries an embedded request alone.
can_write(l) == l.embedded # {} => l.request # {}

\* to_url: the singleton parameters in a fixed order, then the extensions.
to_url(l) ==
  (IF l.request = {} THEN <<>> ELSE <<Pair("v", "2")>>)
    \o <<Pair("id", l.client)>> \o Option("r", l.request) \o <<Pair("ret", l.ret)>>
    \o Option("trace_id", l.trace)
    \o Option("e", {encode_embedded_request_param(e) : e \in l.embedded})
    \o l.extensions

given(q, name) == {q[i][2] : i \in {j \in DOMAIN q : q[j][1] = name}}

repeated(q) == \E i, j \in DOMAIN q : i # j /\ q[i][1] = q[j][1] /\ q[i][1] \in Known

\* A value that parses: a client id, a request, a trace id, a return strategy.
Unreadable == "?"

readable(set) == Unreadable \notin set

\* ConnectLink::parse, as the set of its result.
parse(q) ==
  LET embedded == UNION {decode_embedded_request_param(w) : w \in given(q, "e")}
      ret == IF given(q, "ret") = {} THEN {"back"} ELSE given(q, "ret")
  IN IF \/ repeated(q) \/ given(q, "id") = {}
        \/ ~readable(given(q, "id") \cup given(q, "r") \cup given(q, "trace_id") \cup ret)
        \/ given(q, "v") \notin {{}, {"2"}}
        \/ given(q, "r") # {} /\ given(q, "v") = {}
        \/ embedded # {} /\ given(q, "r") = {}
     THEN {}
     ELSE {[client |-> id, request |-> given(q, "r"), ret |-> r, embedded |-> embedded,
            trace |-> given(q, "trace_id"),
            extensions |-> SelectSeq(q, LAMBDA p : p[1] \notin Known)]
             : id \in given(q, "id"), r \in ret}
-----------------------------------------------------------------------------
(* Telegram.                                                               *)

\* str::replace: from the left, without overlap.
RECURSIVE replace(_, _, _)
replace(s, pattern, by) ==
  IF Len(s) < Len(pattern) THEN s
  ELSE IF SubSeq(s, 1, Len(pattern)) = pattern
  THEN by \o replace(SubSeq(s, Len(pattern) + 1, Len(s)), pattern, by)
  ELSE <<Head(s)>> \o replace(Tail(s), pattern, by)

Substitute(s, rules) == FoldLeft(LAMBDA t, rule : replace(t, rule[1], rule[2]), s, rules)

encode_telegram_url_parameters(s) ==
  Substitute(s, << <<<<".">>, <<"%", "2", "E">>>>, <<<<"-">>, <<"%", "2", "D">>>>,
                   <<<<"_">>, <<"%", "5", "F">>>>, <<<<"&">>, <<"-">>>>,
                   <<<<"=">>, <<"_", "_">>>>, <<<<"%">>, <<"-", "-">>>> >>)

decode_telegram_url_parameters(s) ==
  Substitute(s, << <<<<"-", "-">>, <<"%">>>>, <<<<"_", "_">>, <<"=">>>>,
                   <<<<"-">>, <<"&">>>>, <<<<"%", "5", "F">>, <<"_">>>>,
                   <<<<"%", "2", "D">>, <<"-">>>>, <<<<"%", "2", "E">>, <<".">>>> >>)
-----------------------------------------------------------------------------
Init ==
  /\ \/ value \in {{l} : l \in Values} /\ text = <<>> /\ step = "built"
     \/ value = {} /\ text \in Queries /\ step = "query"
  /\ query = <<>> /\ sent = <<>> /\ result = {}

\* A link is written, or refused because an embedded request stands alone.
Write ==
  /\ step = "built"
  /\ \E l \in value : IF can_write(l) THEN query' = to_url(l) /\ step' = "written"
                      ELSE query' = <<>> /\ step' = "refused"
  /\ UNCHANGED <<value, text, sent, result>>

Parse ==
  /\ step = "written"
  /\ result' = parse(query) /\ step' = "parsed"
  /\ UNCHANGED <<value, query, text, sent>>

\* What can become of a compact object: an unknown key, or a key less.
Damaged(wire) ==
  {wire @@ ("?" :> Unreadable)}
    \cup {[k \in DOMAIN wire \ {key} |-> wire[k]] : key \in DOMAIN wire}

DamagedEmbedded(w) ==
  {[w EXCEPT !.m = Unreadable], [w EXCEPT !.form = Unreadable]}
    \cup {[w EXCEPT !.head = h] : h \in Damaged(w.head)}
    \cup UNION {{[w EXCEPT !.list[i] = o] : o \in Damaged(w.list[i])} : i \in DOMAIN w.list}

\* On the way one parameter is repeated, dropped or damaged.
Damage ==
  /\ step = "written"
  /\ \E i \in DOMAIN query :
       query' \in {Append(query, query[i]), RemoveAt(query, i)} \cup
         IF query[i][1] = "e"
         THEN {[query EXCEPT ![i][2] = w] : w \in DamagedEmbedded(query[i][2])}
         ELSE {[query EXCEPT ![i][2] = Unreadable]}
  /\ step' = "damaged"
  /\ UNCHANGED <<value, text, sent, result>>

ParseDamaged ==
  /\ step = "damaged"
  /\ result' = parse(query) /\ step' = "done"
  /\ UNCHANGED <<value, query, text, sent>>

ToTelegram ==
  /\ step = "query"
  /\ text' = encode_telegram_url_parameters(text) /\ sent' = text /\ step' = "startapp"
  /\ UNCHANGED <<value, query, result>>

FromTelegram ==
  /\ step = "startapp"
  /\ text' = decode_telegram_url_parameters(text) /\ step' = "opened"
  /\ UNCHANGED <<value, query, sent, result>>

Next == Write \/ Parse \/ Damage \/ ParseDamaged \/ ToTelegram \/ FromTelegram

Spec == Init /\ [][Next]_vars
-----------------------------------------------------------------------------
(* Properties.                                                             *)

\* A written link is parsed to the value it was built from, the embedded request
\* and all of its optional fields included (to_url, parse and the two tables of
\* embedded.rs, which are written out by hand in both directions).
LinkRoundTrip == step = "parsed" => result = value

\* A link that was cut or damaged on its way is never taken for another complete
\* one: what still parses keeps the client and the request, and an embedded request
\* is either ignored or keeps its method and every required field of each of its
\* messages (the early returns of parse, deny_unknown_fields and the required
\* fields of the compact types).
DamageIsNoticed ==
  step = "done" => \A l \in value : \A r \in result :
    /\ r.client = l.client
    /\ r.request \in {{}, l.request}
    /\ r.trace \in {{}, l.trace} /\ r.ret \in {"back", l.ret}
    /\ r.embedded # {} => r.request # {}
    /\ \A e \in r.embedded : \A o \in l.embedded :
         /\ e.method = o.method /\ Len(e.list) = Len(o.list)
         /\ \A i \in DOMAIN e.list :
              \A field \in {"address", "amount", "master", "destination", "nft_address",
                            "new_owner"} \cap DOMAIN o.list[i] :
                field \in DOMAIN e.list[i] /\ e.list[i][field] = o.list[i][field]

\* No parameter behind the first has a name that begins with a character that the
\* encoding escapes.
PlainNames(s) ==
  \A i \in 1 .. Len(s) - 1 : s[i] = "&" => s[i + 1] \notin {".", "-", "_", "%", "&"}

\* Telegram gives a query back as it was exactly when the names of its parameters
\* are plain.  A separator becomes one hyphen and an escape begins with two, so
\* that the decoder cannot tell where a name that begins with an escape starts
\* (the two substitutions of deep_link.rs).
TelegramRoundTrip == step = "opened" => (text = sent) = PlainNames(sent)

\* A TON Connect link survives its way: unharmed it is parsed to its value, damaged
\* it is not taken for another one, and Telegram gives its query back as long as no
\* extension has a name that begins with an escaped character.
LinksSurvive == LinkRoundTrip /\ DamageIsNoticed /\ TelegramRoundTrip
=============================================================================
