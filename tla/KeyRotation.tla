----------------------------- MODULE KeyRotation -----------------------------
(***************************************************************************)
(* Signing-key rotation and encrypted comments: the operations of          *)
(* src/engine/key_rotation.rs and src/engine/encrypted_comment.rs, with    *)
(* the message construction of src/wallet/key_rotation.rs, the comment     *)
(* keys of src/wallet/encrypted_comment.rs, the recipient check of         *)
(* src/wallet/recipient_public_key.rs and the paged key history of         *)
(* src/engine/key_history.rs.                                              *)
(*                                                                         *)
(* Around the engine stand the wallet contract and the indexer, which are  *)
(* external, and a host that follows the documented order: it stores the   *)
(* replacement phrase and the signed message before it submits, and it     *)
(* switches phrases when the chain has decided.  Wallet "W" rotates;       *)
(* wallet "P" is a correspondent that never does.                          *)
(***************************************************************************)
EXTENDS Integers, KeyDerivation, SequencesExt

CONSTANTS
  Halves,               \* the halves that rotations can draw, in this order
  Network,
  Kinds,                \* the kinds of rotation message that are asked for
  Lookups,              \* which of "create" and "resolve" are called
  Extras,               \* whether callers supply keys and name wrong senders
  Writers,              \* the clients that write comments
  Statuses,             \* the initial states of the account of W
  Recipients,           \* accounts besides W that comments can be sent to
  KEY_CHANGE_PAGE_SIZE, MAX_KEY_CHANGE_PAGES,
  MaxNow, Ttl,          \* bounds on time and lifetime of a rotation
  MaxComments,          \* bound on encrypted comments
  MaxOther,             \* bound on transfers from another device
  MaxRelayed,           \* bound on rotations of others in the action list
  Declines,             \* whether the user declines to unlock the phrase
  MaxFaults             \* bound on provider failures and crashes

VARIABLES
  account,      \* the contract of W: status, key, seqno
  installed,    \* the private keys that were installed, oldest first
  log,          \* the actions of the account, oldest first
  indexed,      \* how many of them the indexer serves
  now,
  host,         \* durable storage of W's host: phrase, replacement, pending
  wire,         \* submitted messages
  calls,        \* the running operation of each client
  cache,        \* the key_changes of W's client
  comments, read,
  other, relayed, faults

vars == <<account, installed, log, indexed, now, host, wire, calls, cache,
          comments, read, other, relayed, faults>>

Clients == {"W", "P"}

anchor == "a"

FirstPhrase == [anchor |-> anchor, signing |-> anchor]

PeerPhrase == [anchor |-> "p", signing |-> "p"]

Public(half) == verifying_key(derive_half_key(half))

AddressOf(phrase) == derive_wallet(phrase, Network).address

Phrase(c) == IF c = "W" THEN host.phrase ELSE PeerPhrase

idle == [op |-> "none", pc |-> "idle"]

Begin(c, call) == calls' = [calls EXCEPT ![c] = call]

\* complete_…, fail_… and discard_…: the slot is free and the caller has its
\* result.
Finish(c, result) ==
  calls' = [calls EXCEPT ![c] = [op |-> @.op, pc |-> "done", result |-> result,
                                 about |-> @.about]]

Deployed == account.status = "Active"

------------------------------------------------------------------------------
(* The keys that a published history recovers: src/wallet/key_history.rs *)

\* The map from an installed key to the encrypted key before it: a later change
\* replaces an earlier one with the same key.
installed_by(changes) ==
  [k \in {c.new_public_key : c \in Range(changes)} |->
     LET last == SelectLastInSeq(changes, LAMBDA c : c.new_public_key = k)
     IN  changes[last].encrypted_old_private_key]

\* The keys before `current`, newest first and without the anchor.  The walk
\* is as long as the number of installed keys at most.
recover_signing_keys(anchor_public_key, current, changes) ==
  LET by_key == installed_by(changes)
      Step(walk, i) ==
        LET newest == IF walk.keys = <<>> THEN current ELSE Last(walk.keys)
            older == decrypt_old_private_key(by_key[verifying_key(newest)], newest)
        IN  IF \/ walk.over
               \/ verifying_key(newest) \notin DOMAIN by_key
               \/ verifying_key(older) = anchor_public_key
            THEN [walk EXCEPT !.over = TRUE]
            ELSE [walk EXCEPT !.keys = Append(@, older)]
  IN  FoldLeft(Step, [keys |-> <<>>, over |-> FALSE],
               [i \in 1 .. Cardinality(DOMAIN by_key) |-> i]).keys

\* Whether a history contains the rotation that installed the key.
history_reaches(changes, public_key) ==
  \E c \in Range(changes) : c.new_public_key = public_key

------------------------------------------------------------------------------
(* prepare_key_rotation *)

\* The result of a rotation that fails, for whatever reason.
fail_key_rotation == [error |-> "KeyRotationUnavailable"]

\* The request and the message around it.  `init` is the key of an attached
\* StateInit, if there is one.
build_change_public_key_request(kind, wallet, until, seqno, new_key) ==
  [opcode |-> kind, wallet_id |-> wallet.id, valid_until |-> until,
   seqno |-> seqno, new_public_key |-> verifying_key(new_key),
   proof |-> Sign(new_key, <<"KEY_ROTATION", wallet.address>>),
   encrypted |-> encrypt_old_private_key(wallet.signing, new_key)]

wrap_signed_request(wallet, kind, request, init) ==
  [channel |-> kind, request |-> request, by |-> signing_public_key(wallet),
   init |-> init]

\* The checks of wallet::key_rotation::prepare_key_rotation.
rotation_error(phrase, needs_state_init) ==
  IF AddressOf(phrase) # AddressOf(FirstPhrase) THEN "WalletIdentityMismatch"
  ELSE IF needs_state_init /\ ~is_pre_rotation(derive_wallet(phrase, Network))
  THEN "RotatedWalletRequiresActiveAccount"
  ELSE "none"

\* Mutant: the halves of the replacement are in the other order.
replacement_phrase_swapped(phrase, half) == [anchor |-> half, signing |-> phrase.anchor]

\* The anchor half and the new half.
replacement_phrase(phrase, half) == [anchor |-> phrase.anchor, signing |-> half]

prepare_with_new_half(phrase, half, kind, seqno, until, init) ==
  LET wallet == derive_wallet(phrase, Network)
      request == build_change_public_key_request(kind, wallet, until, seqno,
                                                 derive_half_key(half))
  IN  [replacement |-> replacement_phrase(phrase, half),
       message |-> wrap_signed_request(wallet, kind, request, init)]

\* A fresh half: random halves do not repeat, and the loop retries one that
\* equals the current key.
NextHalf == Halves[Len(installed) + Cardinality(host.pending)]

prepare_key_rotation ==
  /\ calls["W"].pc = "idle"
  /\ \E kind \in Kinds :
       Begin("W", [op |-> "rotate", pc |-> "account", about |-> kind,
                   until |-> now + Ttl])
  /\ UNCHANGED <<account, installed, log, indexed, now, host, wire, cache,
                 comments, read, other, relayed, faults>>

RotationAccount ==
  LET c == calls["W"] IN
  /\ c.op = "rotate" /\ c.pc = "account"
  /\ IF Deployed
     THEN Begin("W", [op |-> c.op, pc |-> "seqno", about |-> c.about, still |-> TRUE,
                      until |-> c.until])
     ELSE IF account.status = "Nonexistent"
     THEN Begin("W", [op |-> c.op, pc |-> "secret", about |-> c.about, still |-> TRUE,
                      until |-> c.until, seqno |-> 0, needs_state_init |-> TRUE])
     ELSE Finish("W", fail_key_rotation)
  /\ UNCHANGED <<account, installed, log, indexed, now, host, wire, cache,
                 comments, read, other, relayed, faults>>

RotationSeqno ==
  LET c == calls["W"] IN
  /\ c.op = "rotate" /\ c.pc = "seqno"
  /\ Begin("W", [op |-> c.op, pc |-> "secret", about |-> c.about, still |-> c.still,
                 until |-> c.until, seqno |-> account.seqno, needs_state_init |-> FALSE])
  /\ UNCHANGED <<account, installed, log, indexed, now, host, wire, cache,
                 comments, read, other, relayed, faults>>

RotationSecret ==
  LET c == calls["W"]
      error == rotation_error(host.phrase, c.needs_state_init)
      init == IF c.needs_state_init
              THEN {derive_wallet_public_state(Public(host.phrase.anchor),
                                               Network).state_init}
              ELSE {}
  IN
  /\ c.op = "rotate" /\ c.pc = "secret"
  /\ IF error # "none"
     THEN Finish("W", fail_key_rotation)
     ELSE calls' = [calls EXCEPT !["W"] =
            [op |-> "rotate", pc |-> "prepared", about |-> c.about, still |-> c.still,
             result |-> prepare_with_new_half(host.phrase, NextHalf, c.about, c.seqno,
                                              c.until, init)]]
  /\ UNCHANGED <<account, installed, log, indexed, now, host, wire, cache,
                 comments, read, other, relayed, faults>>

------------------------------------------------------------------------------
(* The host of W, the contract and the indexer: external. *)

\* The host's policy: one rotation at a time, as long as there are halves.
HostRotates ==
  /\ host.pending = {}
  /\ Len(installed) <= Len(Halves)
  /\ prepare_key_rotation

HostStores ==
  /\ calls["W"].pc = "prepared"
  /\ host' = [host EXCEPT !.replacement = {calls["W"].result.replacement},
                          !.pending = {calls["W"].result.message}]
  /\ calls' = [calls EXCEPT !["W"] = idle]
  /\ UNCHANGED <<account, installed, log, indexed, now, wire, cache, comments,
                 read, other, relayed, faults>>

HostSubmits ==
  /\ host.pending # {} /\ ~(host.pending \subseteq wire)
  /\ wire' = wire \cup host.pending
  /\ UNCHANGED <<account, installed, log, indexed, now, host, calls, cache,
                 comments, read, other, relayed, faults>>

\* The contract's checks.  An attached StateInit deploys the account when its
\* hash is the address.
Accepts(m) ==
  LET key == IF account.status # "Nonexistent" THEN {account.key}
             ELSE {i.key : i \in {i \in m.init :
                     derive_wallet_public_state(i.key, Network).address =
                       AddressOf(FirstPhrase)}}
  IN  /\ account.status # "Frozen"
      /\ m.request.valid_until > now
      /\ m.request.seqno = account.seqno
      /\ m.request.opcode = m.channel
      /\ key = {m.by}
      /\ m.request.proof =
           [by |-> m.request.new_public_key,
            over |-> <<"KEY_ROTATION", AddressOf(FirstPhrase)>>]

\* What a running rotation has read of the account is no longer fresh.
ChainMoves ==
  calls' = [calls EXCEPT !["W"] = IF "still" \in DOMAIN @
                                  THEN [@ EXCEPT !.still = FALSE] ELSE @]

KeyOf(public) ==
  CHOOSE k \in {derive_half_key(h) : h \in {anchor} \cup Range(Halves)} :
    verifying_key(k) = public

Execute ==
  \E m \in wire :
    /\ wire' = wire \ {m}
    /\ \/ /\ Accepts(m)
          /\ account' = [status |-> "Active", key |-> m.request.new_public_key,
                         seqno |-> account.seqno + 1]
          /\ installed' = Append(installed, KeyOf(m.request.new_public_key))
          /\ log' = Append(log, [kind |-> "rotation",
                                 change |-> [new_public_key |-> m.request.new_public_key,
                                   encrypted_old_private_key |-> m.request.encrypted]])
       \/ ~Accepts(m) /\ UNCHANGED <<account, installed, log>>
    /\ ChainMoves
    /\ UNCHANGED <<indexed, now, host, cache, comments, read, other, relayed, faults>>

\* Another device transfers and so uses up a sequence number.
OtherTransfer ==
  /\ other < MaxOther
  /\ other' = other + 1
  /\ account.status \in {"Active", "Nonexistent"}
  /\ account' = [account EXCEPT !.status = "Active", !.seqno = @ + 1]
  /\ ChainMoves
  /\ UNCHANGED <<installed, log, indexed, now, host, wire, cache, comments, read,
                 relayed, faults>>

\* The wallet relays a rotation of someone else, or one of its own fails: the
\* account filter of the action list returns both.
Relay ==
  /\ relayed < MaxRelayed
  /\ relayed' = relayed + 1
  /\ \E kind \in {"relayed", "failed"} :
       log' = Append(log, [kind |-> kind, change |-> KeyChange("none", "none")])
  /\ UNCHANGED <<account, installed, indexed, now, host, wire, calls, cache,
                 comments, read, other, faults>>

Index ==
  /\ indexed < Len(log)
  /\ indexed' = indexed + 1
  /\ UNCHANGED <<account, installed, log, now, host, wire, calls, cache, comments,
                 read, other, relayed, faults>>

Tick ==
  /\ now < MaxNow
  /\ now' = now + 1
  /\ UNCHANGED <<account, installed, log, indexed, host, wire, calls, cache,
                 comments, read, other, relayed, faults>>

\* The host finds out what became of the pending message.
HostResolves ==
  \E m \in host.pending :
    /\ \/ /\ account.key = m.request.new_public_key
          /\ host' = [phrase |-> CHOOSE p \in host.replacement : TRUE,
                      replacement |-> {}, pending |-> {}]
       \/ /\ account.key # m.request.new_public_key
          /\ \/ now >= m.request.valid_until
             \/ account.seqno > m.request.seqno
          /\ host' = [host EXCEPT !.replacement = {}, !.pending = {}]
    /\ UNCHANGED <<account, installed, log, indexed, now, wire, calls, cache,
                   comments, read, other, relayed, faults>>

------------------------------------------------------------------------------
(* create_encrypted_comment and resolve_encrypted_comment_recipient *)

\* What the provider knows of a recipient.
Recipient(r) ==
  IF r = "W"
  THEN [address |-> AddressOf(FirstPhrase), status |-> account.status,
        workchain |-> 0, key |-> {account.key}]
  ELSE Recipients[r]

\* The wallet id of V5 encodes the workchain as a signed byte.
v5_workchain_id(network, workchain) ==
  IF workchain \in -128 .. 127 THEN {<<"V5R1", network, workchain>>} ELSE {}

\* The default contract data of every supported version; wallet id and workchain
\* count where the version has them.
CandidateIds(network, workchain) ==
  {<<v>> : v \in {"V1R1", "V1R2", "V1R3", "V2R1", "V2R2"}}
  \cup {<<v, w>> : v \in {"V3R1", "V3R2", "V4R1", "V4R2"}, w \in {0, workchain}}
  \cup {<<"V5R1", network, 0>>} \cup v5_workchain_id(network, workchain)
  \cup (IF workchain = 0 THEN {wallet_contract_id(network)} ELSE {})

matches_versions(recipient, id, key) == recipient.address = <<"address", id, key>>

\* Some supported wallet with default parameters has this key and address.
verify_recipient_public_key(recipient, key) ==
  \E id \in CandidateIds(Network, recipient.workchain) : matches_versions(recipient, id, key)

\* Mutant: a supplied key that fits the address is used without asking the
\* contract.
RecipientKey_hinted(r, hint) ==
  LET a == Recipient(r) IN
  IF \E k \in hint : verify_recipient_public_key(a, k)
  THEN [key |-> CHOOSE k \in hint : TRUE]
  ELSE IF a.status = "Active" /\ a.key # {}
  THEN [key |-> CHOOSE k \in a.key : TRUE]
  ELSE [error |-> "Unavailable"]

\* The recipient's key, or the reason why there is none.
RecipientKey(r, hint) ==
  LET a == Recipient(r) IN
  IF a.status = "Active"
  THEN IF a.key = {} THEN [error |-> "Unavailable"]
       ELSE [key |-> CHOOSE k \in a.key : TRUE]
  ELSE IF a.status = "Nonexistent"
  THEN IF \E k \in hint : verify_recipient_public_key(a, k)
       THEN [key |-> CHOOSE k \in hint : TRUE] ELSE [error |-> "Unavailable"]
  ELSE IF a.status = "Frozen" THEN [error |-> "Unavailable"]
  ELSE [error |-> "LookupFailed"]

\* encrypt_with_prefix: the header is the exclusive or of both public keys, and
\* the message key depends on the sender's address.
encrypt_comment(phrase, recipient_key, text) ==
  [keys |-> {Public(phrase.signing), recipient_key}, salt |-> AddressOf(phrase),
   text |-> text]

Names == DOMAIN Recipients \cup {"W"}

\* A hint is no key, the initial key of the recipient or a key of another wallet.
Hints(r) ==
  IF ~Extras THEN {{}}
  ELSE {{}, {IF r = "W" THEN Public(anchor) ELSE Recipients[r].initial}, {Public("p")}}

create_encrypted_comment(c) ==
  /\ c \in Writers /\ calls[c].pc = "idle"
  /\ Cardinality(comments) < MaxComments
  /\ \E op \in Lookups, r \in Names \ {c} : \E hint \in Hints(r) :
       Begin(c, [op |-> op, pc |-> "account", about |-> r, hint |-> hint])
  /\ UNCHANGED <<account, installed, log, indexed, now, host, wire, cache,
                 comments, read, other, relayed, faults>>

\* The account state decides; only an active contract is asked for its key, in
\* a second request.
resolve_recipient_public_key(c) ==
  LET call == calls[c]
      answer == RecipientKey(call.about, call.hint)
  IN
  /\ call.op \in {"create", "resolve"}
  /\ \/ /\ call.pc = "account" /\ Recipient(call.about).status = "Active"
        /\ Begin(c, [call EXCEPT !.pc = "key"])
     \/ /\ \/ call.pc = "account" /\ Recipient(call.about).status # "Active"
           \/ call.pc = "key"
        /\ IF "error" \in DOMAIN answer THEN Finish(c, answer)
           ELSE IF call.op = "resolve" THEN Finish(c, answer)
           ELSE Begin(c, [op |-> "create", pc |-> "secret", about |-> call.about,
                          key |-> answer.key,
                          held |-> answer.key \in Recipient(call.about).key])
  /\ UNCHANGED <<account, installed, log, indexed, now, host, wire, cache,
                 comments, read, other, relayed, faults>>

\* comment_keys and encrypt_comment.
EncryptSecret(c) ==
  LET call == calls[c] IN
  /\ call.op = "create" /\ call.pc = "secret"
  /\ Finish(c, [held |-> call.held])
  /\ comments' = comments \cup
       IF "W" \in {c, call.about}
       THEN {encrypt_comment(Phrase(c), call.key, Cardinality(comments) + 1)} ELSE {}
  /\ UNCHANGED <<account, installed, log, indexed, now, host, wire, cache, read,
                 other, relayed, faults>>

------------------------------------------------------------------------------
(* decrypt_comment *)

\* decrypt_with_key: the other key of the header and the sender's address have
\* to be right.
decrypt_with_key(key, sender, body) ==
  verifying_key(key) \in body.keys /\ body.salt = sender

\* The first key that authenticates the body.
decrypt_comment_with_keys(keys, sender, body) ==
  \E i \in DOMAIN keys : decrypt_with_key(keys[i], sender, body)

comment_keys(phrase) == derive_rotation_keys(phrase)

decrypt_comment ==
  /\ calls["W"].pc = "idle"
  /\ \E body \in comments, sender \in {AddressOf(FirstPhrase), AddressOf(PeerPhrase)} :
       /\ Extras \/ sender = body.salt
       /\ Begin("W", [op |-> "decrypt", pc |-> "secret",
                      about |-> [body |-> body, sender |-> sender]])
  /\ UNCHANGED <<account, installed, log, indexed, now, host, wire, cache,
                 comments, read, other, relayed, faults>>

Opened(body) == read' = read \cup {body.text}

\* The keys of the phrase are tried first, without a request.
DecryptSecret ==
  LET c == calls["W"]
      keys == comment_keys(host.phrase)
      rotated == keys.anchor # keys.signing
      own == IF rotated THEN <<keys.signing, keys.anchor>> ELSE <<keys.signing>>
  IN
  /\ c.op = "decrypt" /\ c.pc = "secret"
  /\ IF decrypt_comment_with_keys(own, c.about.sender, c.about.body)
     THEN Finish("W", [text |-> c.about.body.text]) /\ Opened(c.about.body)
     ELSE /\ UNCHANGED read
          /\ IF ~rotated THEN Finish("W", [error |-> "Unavailable", keys |-> keys])
             ELSE Begin("W", [op |-> "decrypt", pc |-> "cache", about |-> c.about,
                              keys |-> keys])
  /\ UNCHANGED <<account, installed, log, indexed, now, host, wire, cache,
                 comments, other, relayed, faults>>

\* Mutant: any cached history is reused.
Reusable_any(changes, public_key) == TRUE

\* A cached history is reused when it reaches the current key.
Reusable(changes, public_key) == history_reaches(changes, public_key)

\* What decrypt_comment does with a history.
DecryptWith(changes) ==
  LET c == calls["W"]
      earlier == recover_signing_keys(verifying_key(c.keys.anchor), c.keys.signing, changes)
  IN
  IF ~history_reaches(changes, verifying_key(c.keys.signing))
  THEN Finish("W", [error |-> "LookupFailed"]) /\ UNCHANGED read
  ELSE IF decrypt_comment_with_keys(earlier, c.about.sender, c.about.body)
  THEN Finish("W", [text |-> c.about.body.text]) /\ Opened(c.about.body)
  ELSE Finish("W", [error |-> "Unavailable", keys |-> c.keys]) /\ UNCHANGED read

CachedHistory ==
  LET c == calls["W"] IN
  /\ c.op = "decrypt" /\ c.pc = "cache"
  /\ \/ \E changes \in cache :
          /\ Reusable(changes, verifying_key(c.keys.signing))
          /\ DecryptWith(changes)
     \/ /\ \A changes \in cache : ~Reusable(changes, verifying_key(c.keys.signing))
        /\ Begin("W", [op |-> "decrypt", pc |-> "page", about |-> c.about,
                       keys |-> c.keys, changes |-> <<>>, offset |-> 0, pages |-> 0])
        /\ UNCHANGED read
  /\ UNCHANGED <<account, installed, log, indexed, now, host, wire, cache,
                 comments, other, relayed, faults>>

\* One page of the action list, newest first.
KeyChangePage(offset) ==
  LET served == Reverse(SubSeq(log, 1, indexed))
  IN  SubSeq(served, offset + 1, Min({Len(served), offset + KEY_CHANGE_PAGE_SIZE}))

\* The successful rotations of this wallet on a page.
parse_key_change_page(page) ==
  LET kept == SelectSeq(page, LAMBDA action : action.kind = "rotation")
  IN  [i \in DOMAIN kept |-> kept[i].change]

has_more(page) == Len(page) >= KEY_CHANGE_PAGE_SIZE

\* One round of the page loop; the last one stores the history and goes on.
HistoryPage ==
  LET c == calls["W"]
      page == KeyChangePage(c.offset)
      changes == c.changes \o parse_key_change_page(page)
  IN
  /\ c.op = "decrypt" /\ c.pc = "page"
  /\ IF has_more(page) /\ c.pages + 1 < MAX_KEY_CHANGE_PAGES
     THEN /\ Begin("W", [c EXCEPT !.changes = changes, !.offset = @ + Len(page),
                                  !.pages = @ + 1])
          /\ UNCHANGED <<cache, read>>
     ELSE cache' = {changes} /\ DecryptWith(changes)
  /\ UNCHANGED <<account, installed, log, indexed, now, host, wire, comments,
                 other, relayed, faults>>

------------------------------------------------------------------------------

\* Every request can fail; the operation ends and frees the slot.
ProviderError(c) ==
  /\ faults < MaxFaults
  /\ faults' = faults + 1
  /\ calls[c].pc \in {"account", "seqno", "key", "page"}
  /\ Finish(c, IF calls[c].op = "rotate" THEN fail_key_rotation
               ELSE [error |-> "LookupFailed"])
  /\ UNCHANGED <<account, installed, log, indexed, now, host, wire, cache,
                 comments, read, other, relayed>>

\* The host does not give the phrase: the operation ends, and a decryption
\* reports the comment as unavailable.
SecretDeclined(c) ==
  /\ Declines
  /\ calls[c].pc = "secret"
  /\ Finish(c, IF calls[c].op = "rotate" THEN fail_key_rotation
               ELSE [error |-> "Unavailable", keys |-> comment_keys(Phrase(c))])
  /\ UNCHANGED <<account, installed, log, indexed, now, host, wire, cache,
                 comments, read, other, relayed, faults>>

\* The caller takes the result.
Return(c) ==
  /\ calls[c].pc = "done"
  /\ calls' = [calls EXCEPT ![c] = idle]
  /\ UNCHANGED <<account, installed, log, indexed, now, host, wire, cache,
                 comments, read, other, relayed, faults>>

\* W's process dies: the running operation, a result that is not stored and
\* the cached history are gone.
Crash ==
  /\ faults < MaxFaults
  /\ faults' = faults + 1
  /\ calls["W"] # idle \/ cache # {}
  /\ calls' = [calls EXCEPT !["W"] = idle]
  /\ cache' = {}
  /\ UNCHANGED <<account, installed, log, indexed, now, host, wire, comments,
                 read, other, relayed>>

Init ==
  /\ account \in {[status |-> s, key |-> Public(anchor), seqno |-> 0] :
                    s \in Statuses}
  /\ installed = <<derive_half_key(anchor)>>
  /\ log = <<>> /\ indexed = 0 /\ now = 0
  /\ host = [phrase |-> FirstPhrase, replacement |-> {}, pending |-> {}]
  /\ wire = {}
  /\ calls = [c \in Clients |-> idle]
  /\ cache = {} /\ comments = {} /\ read = {}
  /\ other = 0 /\ relayed = 0 /\ faults = 0

Next ==
  \/ RotationAccount \/ RotationSeqno \/ RotationSecret
  \/ HostRotates \/ HostStores \/ HostSubmits \/ HostResolves
  \/ Execute \/ OtherTransfer \/ Relay \/ Index \/ Tick
  \/ \E c \in Clients : create_encrypted_comment(c)
  \/ \E c \in Clients : resolve_recipient_public_key(c)
  \/ \E c \in Clients : EncryptSecret(c)
  \/ decrypt_comment \/ DecryptSecret \/ CachedHistory \/ HistoryPage
  \/ \E c \in Clients : ProviderError(c)
  \/ \E c \in Clients : SecretDeclined(c)
  \/ \E c \in Clients : Return(c)
  \/ Crash

Spec == Init /\ [][Next]_vars

------------------------------------------------------------------------------
(* Properties *)

\* At every moment one of the stored phrases signs for the contract and derives
\* its address, and when no rotation is pending it is the main one: neither a
\* lost message nor an expired one, a crash or another device's transfer locks
\* the owner out.
OwnerKeepsAccess ==
  LET durable == {host.phrase} \cup host.replacement
      Signs(p) == AddressOf(p) = AddressOf(FirstPhrase) /\ Public(p.signing) = account.key
  IN  /\ \E p \in durable : Signs(p)
      /\ host.pending = {} => Signs(host.phrase)

\* A prepared rotation that is submitted before the chain moves is executed: the
\* engine never hands out a message that the contract refuses.
PreparedIsAccepted ==
  LET c == calls["W"] IN
  /\ c.op = "rotate" /\ c.pc = "prepared" /\ c.still
  /\ now < c.result.message.request.valid_until
  => Accepts(c.result.message)

\* The published changes and the phrase that signs recover exactly the replaced
\* keys, newest first and without the anchor, in whatever order and however
\* often an indexer lists the changes.
EarlierKeysRecovered ==
  LET changes == parse_key_change_page(log)
      expected == Reverse(SubSeq(installed, 2, Len(installed) - 1))
  IN  \A list \in {changes, Reverse(changes), changes \o changes} :
        recover_signing_keys(Public(anchor), Last(installed), list) = expected

\* A comment that uses any key that the wallet had up to the stored phrase is
\* never reported as unavailable to a caller that names the right sender.
NeverUnavailable ==
  LET c == calls["W"]
      upto == {i \in DOMAIN installed : verifying_key(installed[i]) =
                                          verifying_key(c.result.keys.signing)}
      known == {verifying_key(installed[i]) :
                  i \in {i \in DOMAIN installed : \E j \in upto : i <= j}}
  IN  /\ c.op = "decrypt" /\ c.pc = "done" /\ "keys" \in DOMAIN c.result
      /\ c.about.sender = c.about.body.salt
      => c.about.body.keys \cap known = {}

\* A comment is encrypted to a key that its recipient held when the provider
\* was asked: the contract's key, or the initial key before deployment.
EncryptedToHolder ==
  \A c \in Clients :
    calls[c].op = "create" /\ calls[c].pc = "done" /\ "held" \in DOMAIN calls[c].result =>
      calls[c].result.held

\* The scheduling that a working system gives: the indexer catches up, the host
\* submits and resolves, the running operation goes on, and the user asks for
\* an unread comment again and again.
Retry(body) ==
  /\ decrypt_comment
  /\ calls'["W"].about = [body |-> body, sender |-> body.salt]

Advance(c) ==
  \/ c = "W" /\ (RotationAccount \/ RotationSeqno \/ RotationSecret \/ HostStores)
  \/ c = "W" /\ (DecryptSecret \/ CachedHistory \/ HistoryPage)
  \/ resolve_recipient_public_key(c) \/ EncryptSecret(c) \/ Return(c)

FairSpec ==
  /\ Spec
  /\ WF_vars(Index) /\ WF_vars(Execute)
  /\ WF_vars(HostSubmits) /\ WF_vars(HostResolves)
  /\ \A c \in Clients : WF_vars(Advance(c))
  /\ \A n \in 1 .. MaxComments :
       SF_vars(\E body \in comments : body.text = n /\ Retry(body))

\* A comment is read in the end, however many rotations lie between, when the
\* indexer catches up and the user tries again.
CommentsAreRead ==
  \A n \in 1 .. MaxComments : [](Cardinality(comments) >= n => <>(n \in read))

\* A rotation of the signing key is safe at every moment (prepare_key_rotation and
\* the steps of the host around it): the owner can sign, a prepared rotation is
\* acceptable, and every replaced key can be recovered from the chain.
RotationIsSafe == OwnerKeepsAccess /\ PreparedIsAccepted /\ EarlierKeysRecovered
=============================================================================
