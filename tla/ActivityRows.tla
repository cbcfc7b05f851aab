---------------------------- MODULE ActivityRows -----------------------------
(***************************************************************************)
(* How a page of transactions becomes rows of the activity list: the       *)
(* parser of src/engine/provider.rs from the JSON of getTransactions and   *)
(* the raw transaction data inside it to ordered rows with stable ids.     *)
(*                                                                         *)
(* A message of a transaction has what the chain knows (bounced, comment)  *)
(* and what the JSON says (value, peer, and created_lt and hash, which the *)
(* provider may leave out).  Transactions have fewer than ten outgoing     *)
(* messages, so that the order of ids as text is the order of indexes.     *)
(***************************************************************************)
EXTENDS Integers, Sequences, FiniteSets, TLC

CONSTANTS
  Chains,               \* sequences of transactions, newest first
  PageSize

VARIABLES chain, listing, page, earlier

vars == <<chain, listing, page, earlier>>

\* An integer as string or number; null, objects and signed text are refused.
parse_unsigned_decimal(value) ==
  IF value.shape \in {"string", "number"} /\ value.value >= 0 THEN {value.value} ELSE {}

\* A friendly address, alone or in an object.
message_address(peer) == IF peer.shape \in {"string", "object"} THEN {peer.address} ELSE {}

\* A 256-bit Base64 value; hashes are ordered by their bytes.
parse_hash(hash) == IF hash \in Nat THEN {hash} ELSE {}

\* The outcome of a transaction by the kind of its description.
transaction_aborted(descr) ==
  CASE descr.kind = "Storage" -> FALSE
    [] descr.kind = "SplitInstall" -> ~descr.installed
    [] OTHER -> descr.aborted

\* What the raw body says: a comment under opcode zero, an encrypted body, or
\* neither.
chain_message(m) ==
  [bounced |-> m.bounced,
   comment |-> IF m.opcode = "zero" THEN {m.text} ELSE {},
   encrypted_comment |-> IF m.opcode = "encrypted" THEN {m.text} ELSE {}]

\* An absent value is smaller than a present one.
OptionLess(a, b) ==
  \/ a = {} /\ b # {}
  \/ \E x \in a, y \in b : x < y

\* The original indexes of the listed messages, by created_lt, hash and position.
ordered_out_messages(messages) ==
  LET Before(i, j) ==
        LET a == messages[i]
            b == messages[j]
        IN  \/ OptionLess(a.created_lt, b.created_lt)
            \/ a.created_lt = b.created_lt /\ OptionLess(a.hash, b.hash)
            \/ a.created_lt = b.created_lt /\ a.hash = b.hash /\ i < j
  IN  SortSeq([i \in DOMAIN messages |-> i], Before)

\* Mutant: the raw message at the sorted position.
raw_message_sorted(raw, original, index) == IF index + 1 \in DOMAIN raw THEN {raw[index + 1]} ELSE {}

\* The raw message at the position where the JSON lists it.
raw_message(raw, original, index) == IF original \in DOMAIN raw THEN {raw[original]} ELSE {}

\* No row, one row, or an error.
activity_from_message(tx, m, raw, direction, index) ==
  LET amount == parse_unsigned_decimal(m.value)
      peer == message_address(m.peer)
  IN  IF amount = {} THEN [rows |-> {}, error |-> TRUE]
      ELSE IF amount = {0} THEN [rows |-> {}, error |-> FALSE]
      ELSE IF raw = {} \/ peer = {} \/ parse_hash(tx.hash) = {} THEN [rows |-> {}, error |-> TRUE]
      ELSE LET c == chain_message(CHOOSE x \in raw : TRUE)
           IN  [error |-> FALSE,
                rows |-> {[id |-> <<tx.hash, IF direction = "received" THEN 0 ELSE 1, index>>,
                           logical_time |-> tx.lt, timestamp |-> tx.utime, direction |-> direction,
                           amount |-> CHOOSE a \in amount : TRUE, fee |-> tx.fee,
                           status |-> IF c.bounced THEN "Bounced"
                                      ELSE IF transaction_aborted(tx.descr) THEN "Failed" ELSE "Success",
                           comment |-> c.comment, encrypted_comment |-> c.encrypted_comment,
                           counterparty |-> CHOOSE a \in peer : TRUE]}]

\* The rows of one transaction, whose outgoing messages the provider lists in
\* the order `list`.
transaction_rows(tx, list) ==
  LET listed == [i \in DOMAIN list |-> tx.out_msgs[list[i]]]
      order == ordered_out_messages(listed)
      received == {activity_from_message(tx, m, {m}, "received", 0) : m \in tx.in_msg}
      sent == {activity_from_message(tx, listed[order[i]],
                                     raw_message(tx.out_msgs, order[i], i - 1), "sent", i - 1) :
                 i \in DOMAIN order}
  IN  received \cup sent

\* Newest first, then by id.
activity_record_order(a, b) ==
  \/ a.logical_time > b.logical_time
  \/ a.logical_time = b.logical_time /\ a.timestamp > b.timestamp
  \/ /\ a.logical_time = b.logical_time /\ a.timestamp = b.timestamp
     /\ \/ a.id[1] < b.id[1]
        \/ a.id[1] = b.id[1] /\ a.id[2] < b.id[2]
        \/ a.id[1] = b.id[1] /\ a.id[2] = b.id[2] /\ a.id[3] < b.id[3]

\* One bad message fails the page.
parse_activity(txs, lists) ==
  LET parts == UNION {transaction_rows(txs[i], lists[i]) : i \in DOMAIN txs}
      rows == UNION {p.rows : p \in parts}
  IN  [error |-> \E p \in parts : p.error, rows |-> rows,
       cursor |-> IF txs = <<>> THEN {} ELSE {<<txs[Len(txs)].lt, txs[Len(txs)].hash>>},
       has_more |-> Len(txs) >= PageSize]

NoPage == [error |-> FALSE, rows |-> {}, cursor |-> {}, has_more |-> FALSE]

Permutations_(n) == {p \in [1 .. n -> 1 .. n] : \A i, j \in 1 .. n : p[i] = p[j] => i = j}

\* Every way to list the outgoing messages of the transactions.
Listings(txs) ==
  {l \in [DOMAIN txs -> UNION {Permutations_(Len(txs[i].out_msgs)) : i \in DOMAIN txs}] :
     \A i \in DOMAIN txs : l[i] \in Permutations_(Len(txs[i].out_msgs))}

InOrder(txs) == [i \in DOMAIN txs |-> [k \in DOMAIN txs[i].out_msgs |-> k]]

Init ==
  /\ chain \in Chains
  /\ listing = InOrder(chain) /\ page = NoPage /\ earlier = NoPage

\* The provider answers again, perhaps with the messages in another order.
getTransactions ==
  /\ listing' \in Listings(chain)
  /\ page' = parse_activity(chain, listing')
  /\ earlier' = page
  /\ UNCHANGED chain

Next == getTransactions

Spec == Init /\ [][Next]_vars

------------------------------------------------------------------------------
(* Properties *)

\* Whether a message can be told from the others of its transaction.
Identified(tx) ==
  \A i, j \in DOMAIN tx.out_msgs :
    LET a == tx.out_msgs[i]
        b == tx.out_msgs[j]
    IN  i # j => a.created_lt # b.created_lt \/ a.hash # b.hash

Moves(m) == parse_unsigned_decimal(m.value) \notin {{}, {0}}

\* The transfers of the chain: every message that moves value, with what the JSON
\* says of it and what the raw transaction says of it.
Transfers ==
  LET Transfer(tx, m, direction) ==
        [hash |-> tx.hash, direction |-> direction, amount |-> m.value.value,
         peer |-> m.peer.address, text |-> IF m.opcode = "none" THEN {} ELSE {m.text},
         bounced |-> m.bounced]
  IN  UNION {{Transfer(chain[i], m, "received") : m \in {m \in chain[i].in_msg : Moves(m)}}
             \cup {Transfer(chain[i], chain[i].out_msgs[k], "sent") :
                     k \in {k \in DOMAIN chain[i].out_msgs : Moves(chain[i].out_msgs[k])}} :
             i \in DOMAIN chain}

\* What a row says of its transfer.
Shown(r) ==
  [hash |-> r.id[1], direction |-> r.direction, amount |-> r.amount,
   peer |-> r.counterparty, text |-> r.comment \cup r.encrypted_comment,
   bounced |-> r.status = "Bounced"]

\* A transfer without what only the raw transaction says.
Listed(t) ==
  [hash |-> t.hash, direction |-> t.direction, amount |-> t.amount, peer |-> t.peer]

\* In whatever order the provider lists the messages, the rows of a page are
\* exactly the messages that move value, each with its own amount and peer.  A
\* comment and a bounce flag are taken from the raw message at the position of the
\* listed one, so that they are the row's own when the provider lists the messages
\* in the order of the chain.
RowsAreTheTransfers ==
  ~page.error /\ page # NoPage =>
    LET shown == {Shown(r) : r \in page.rows}
    IN  /\ {Listed(t) : t \in shown} = {Listed(t) : t \in Transfers}
        /\ listing = InOrder(chain) => shown = Transfers

\* A transfer keeps its id from one answer to the next, in whatever order the
\* provider lists the messages, so merging two pages shows it once.
IdsAreStable ==
  (\A i \in DOMAIN chain : Identified(chain[i])) =>
    \A a \in page.rows, b \in earlier.rows :
      a.id = b.id => a.amount = b.amount /\ a.counterparty = b.counterparty

\* No two rows of the pages tie in the order of the list, and the order has no
\* cycle: the merged list is the same however often it is sorted.
OrderIsTotal ==
  \A a, b \in page.rows :
    a # b => (activity_record_order(a, b) <=> ~activity_record_order(b, a))

\* The activity list shows every transfer once, with its amount and peer, under one
\* id and in one order, however the provider lists the messages, and with its
\* comment and bounce flag when the provider lists them in the order of the chain
\* (parse_activity, ordered_out_messages and activity_record_order).
RowsAreExact == RowsAreTheTransfers /\ IdsAreStable /\ OrderIsTotal
=============================================================================
