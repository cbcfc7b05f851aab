---------------------------- MODULE MCKeys ----------------------------
(***************************************************************************)
(* Which key the wallet holds and uses, and what it shows and signs with   *)
(* it: the records that keep recovery phrases, the rotation of the signing *)
(* key and the comments encrypted to it, sessions derived from the phrase, *)
(* previews and the calls that follow them, NFT transfers, and the three   *)
(* calls that sign. A behavior is about one of these, named by part.       *)
(***************************************************************************)
EXTENDS WalletLifecycle, Integers, Sequences, TLC

CONSTANTS r1, r2, s1, s2

VARIABLES
  part,  \* the component that this behavior is about
  x1, x2, x3, x4, x5, x6, x7, x8, x9, x10, x11, x12, x13, x14  \* those of an instance, in the order of its module

instanceVars ==
  <<x1, x2, x3, x4, x5, x6, x7, x8, x9, x10, x11, x12, x13, x14>>

vars == <<part, lifecycleVars, instanceVars>>

-----------------------------------------------------------------------------
(* The lifecycle of wallets, with record ids that the application may use twice.
   The phrases are one wallet before and after a rotation. *)

EnteredPhrases == {[anchor |-> "c", signing |-> "c"], [anchor |-> "c", signing |-> "d"]}

-----------------------------------------------------------------------------
(* Key rotation: two replacements with failures of the host; encrypted comments
   across two rotations; recipients whose account is in any state. *)

PublicOf(half) == verifying_key(derive_half_key(half))

\* The correspondent alone.
Peer ==
  [P |-> [address |-> <<"address", wallet_contract_id("Mainnet"), PublicOf("p")>>,
          workchain |-> 0, status |-> "Active", key |-> {PublicOf("p")}, initial |-> PublicOf("p")]]

\* One account of every state, an undeployed wallet of another version and a
\* contract without a key.
EveryState ==
  LET Of(id, workchain, status, key) ==
        [address |-> <<"address", id, PublicOf("q")>>, workchain |-> workchain,
         status |-> status, key |-> key, initial |-> PublicOf("q")]
  IN  [P |-> Peer["P"],
       new |-> Of(<<"V5R1", "Mainnet", 0>>, 0, "Nonexistent", {PublicOf("q")}),
       master |-> Of(<<"V3R2", -1>>, -1, "Nonexistent", {PublicOf("q")}),
       foreign |-> Of(<<"V5R1", "Testnet", 0>>, 0, "Nonexistent", {PublicOf("q")}),
       keyless |-> Of(<<"V4R2", 0>>, 0, "Active", {}),
       frozen |-> Of(<<"V4R2", 0>>, 0, "Frozen", {}),
       odd |-> Of(<<"V4R2", 0>>, 0, "Unknown", {})]

Rotation == INSTANCE KeyRotation WITH account <- x1, installed <- x2, log <- x3,
  indexed <- x4, now <- x5, host <- x6, wire <- x7, calls <- x8, cache <- x9,
  comments <- x10, read <- x11, other <- x12, relayed <- x13, faults <- x14,
  Network <- "Mainnet", Kinds <- {"External", "Internal"},
  Lookups <- {"create"}, Extras <- FALSE, Writers <- {"W", "P"},
  Statuses <- {"Active", "Nonexistent", "Frozen"}, Recipients <- Peer, Ttl <- 2,
  MaxNow <- 2, MaxComments <- 0, MaxOther <- 1, MaxRelayed <- 0,
  Declines <- TRUE, MaxFaults <- 1, KEY_CHANGE_PAGE_SIZE <- 1,
  MAX_KEY_CHANGE_PAGES <- 3, Halves <- <<"b", "c">>

Comments == INSTANCE KeyRotation WITH account <- x1, installed <- x2, log <- x3,
  indexed <- x4, now <- x5, host <- x6, wire <- x7, calls <- x8, cache <- x9,
  comments <- x10, read <- x11, other <- x12, relayed <- x13, faults <- x14,
  Network <- "Mainnet", Kinds <- {"External"}, Lookups <- {"create"},
  Extras <- FALSE, Writers <- {"P"}, Statuses <- {"Active"}, Recipients <- Peer,
  Ttl <- 1, MaxNow <- 0, MaxComments <- 1, MaxOther <- 0, MaxRelayed <- 1,
  Declines <- FALSE, MaxFaults <- 0, KEY_CHANGE_PAGE_SIZE <- 1,
  MAX_KEY_CHANGE_PAGES <- 4, Halves <- <<"b", "c">>

Holders == INSTANCE KeyRotation WITH account <- x1, installed <- x2, log <- x3,
  indexed <- x4, now <- x5, host <- x6, wire <- x7, calls <- x8, cache <- x9,
  comments <- x10, read <- x11, other <- x12, relayed <- x13, faults <- x14,
  Network <- "Mainnet", Kinds <- {"External"}, Lookups <- {"create", "resolve"},
  Extras <- TRUE, Writers <- {"W"}, Statuses <- {"Nonexistent", "Active"},
  Recipients <- EveryState, Ttl <- 2, MaxNow <- 0, MaxComments <- 1,
  MaxOther <- 0, MaxRelayed <- 0, Declines <- FALSE, MaxFaults <- 0,
  KEY_CHANGE_PAGE_SIZE <- 2, MAX_KEY_CHANGE_PAGES <- 2, Halves <- <<"b">>

-----------------------------------------------------------------------------
(* Sessions that a device derives from the recovery phrase: two devices of one
   wallet, and every method with an id that is not a canonical number. *)

DeviceFormat == INSTANCE DerivedSession WITH Devices <- {}, Dapps <- {}, Nonces
  <- {}, Network <- "Mainnet", Requests <- {}, Halves <- <<"a", "s">>,
  MaxRequests <- 0, MaxForgets <- 0, MaxNow <- 0, rotation <- x1, phrase <- x2,
  now <- x3, sessions <- x4, open <- x5, signed <- x6, connected <- x7, sent <-
  x8, replies <- x9, forgets <- x10

Ask(id, method, type, network, from, until) ==
  [id |-> id, method |-> method, type |-> type, data |-> <<"data", id>>, network |-> network,
   from |-> from, until |-> until, well_formed |-> TRUE]

\* Two requests for data, one of them for another account, and one of every
\* other method, with an id that is not a canonical number.
EveryMethod ==
  {Ask(1, "signData", "text", {}, {DeviceFormat!Address}, {}),
   Ask(2, "signData", "cell", {"Mainnet"}, {}, {}),
   Ask(3, "signData", "binary", {}, {<<"address", "elsewhere">>}, {}),
   Ask(4, "sendTransaction", "", {}, {}, {0}),
   Ask(5, "signMessage", "", {}, {}, {}),
   Ask(-1, "disconnect", "", {}, {}, {}),
   [Ask(7, "unknown", "", {}, {}, {}) EXCEPT !.well_formed = FALSE]}

TextRequest == {Ask(1, "signData", "text", {}, {DeviceFormat!Address}, {})}

Device == INSTANCE DerivedSession WITH rotation <- x1, phrase <- x2, now <- x3,
  sessions <- x4, open <- x5, signed <- x6, connected <- x7, sent <- x8,
  replies <- x9, forgets <- x10, Devices <- {"d1", "d2"}, Dapps <- {"A"},
  Nonces <- {"n"}, Network <- "Mainnet", Requests <- TextRequest,
  Halves <- <<"a", "s">>, MaxRequests <- 1, MaxForgets <- 1, MaxNow <- 0

Method == INSTANCE DerivedSession WITH rotation <- x1, phrase <- x2, now <- x3,
  sessions <- x4, open <- x5, signed <- x6, connected <- x7, sent <- x8,
  replies <- x9, forgets <- x10, Devices <- {"d1"}, Dapps <- {"A"},
  Nonces <- {"n"}, Network <- "Mainnet", Requests <- EveryMethod,
  Halves <- <<"a", "s">>, MaxRequests <- 1, MaxForgets <- 0, MaxNow <- 1

-----------------------------------------------------------------------------
CheckFormat == INSTANCE TransferChecks WITH Requests <- <<>>, Secrets <- {},
  Items <- {}, Validity <- 2, MaxMessages <- 2, MaxU32 <- 4, MaxU64 <- 6,
  MaxCoins <- 3, Fee <- 1, MaxMoves <- 1, status <- x1, balance <- x2, seqno <-
  x3, now <- x4, key <- x5, item <- x6, moves <- x7, call <- x8, calm <- x9,
  still <- x10, preview <- x11, refused <- x12, signed <- x13, executed <- x14

Request(messages, expiration) ==
  [messages |-> messages, expiration |-> expiration, forward |-> 0, seqno |-> 0,
   validUntil |-> 0, form |-> "none", dst |-> "none", key |-> "k0", init |-> FALSE]

\* An exact amount, two of them, everything, everything in a batch, nothing, an
\* amount no coin can hold; the default expiration, one that passes, and one
\* beyond the contract's width.
Intents ==
  {Request(m, 0) : m \in {<<1>>, <<1, 1>>, <<CheckFormat!All>>, <<1, CheckFormat!All>>, <<>>, <<4>>, <<1, 1, 1>>}}
    \cup {Request(<<1>>, t) : t \in {1, 5}}

\* Those with an amount that the wallet may have.
Payable ==
  {Request(m, 0) : m \in {<<1>>, <<1, 1>>, <<CheckFormat!All>>, <<1, CheckFormat!All>>}}

\* A message for this wallet with an old or a fresh number and time, and one that
\* is internal, or for another wallet, or both.
CallerSigned ==
  {[Request(<<1>>, 0) EXCEPT !.seqno = n, !.validUntil = t, !.form = "external",
                             !.dst = "wallet", !.init = (n = 0)] : n \in {0, 1}, t \in {1, 5}}
  \cup {[Request(<<1>>, 0) EXCEPT !.seqno = 1, !.validUntil = 5, !.form = f, !.dst = d] :
          f \in {"external", "internal"}, d \in {"wallet", "other"}}

NftTransfers ==
  {[Request(<<attached>>, 0) EXCEPT !.forward = forward] :
     attached \in {1, 2}, forward \in {0, 1}}

RequestsOf(kinds) ==
  [k \in kinds |->
     IF k \in {"preview_send_boc", "send_boc"} THEN CallerSigned
     ELSE IF k \in {"preview_nft_transfer", "send_nft_transfer"} THEN NftTransfers
     ELSE Intents]

Secrets ==
  {[valid |-> TRUE, anchor |-> "k0", signing |-> "k0"],
   [valid |-> TRUE, anchor |-> "k0", signing |-> "k1"],
   [valid |-> TRUE, anchor |-> "kx", signing |-> "kx"],
   [valid |-> FALSE, anchor |-> "k0", signing |-> "k0"]}

Preview == INSTANCE TransferChecks WITH status <- x1, balance <- x2,
  seqno <- x3, now <- x4, key <- x5, item <- x6, moves <- x7, call <- x8,
  calm <- x9, still <- x10, preview <- x11, refused <- x12, signed <- x13,
  executed <- x14, Secrets <- Secrets, Items <- {"owned"}, Validity <- 2,
  MaxMessages <- 2, MaxU32 <- 4, MaxU64 <- 6, MaxCoins <- 3, Fee <- 1,
  MaxMoves <- 1, Requests <- [k \in {"preview_send", "send"} |-> Payable]

Limit == INSTANCE TransferChecks WITH status <- x1, balance <- x2, seqno <- x3,
  now <- x4, key <- x5, item <- x6, moves <- x7, call <- x8, calm <- x9,
  still <- x10, preview <- x11, refused <- x12, signed <- x13, executed <- x14,
  Secrets <- Secrets, Items <- {"owned"}, Validity <- 2, MaxMessages <- 2,
  MaxU32 <- 4, MaxU64 <- 6, MaxCoins <- 3, Fee <- 1, MaxMoves <- 1,
  Requests <- [k \in {"preview_send", "send"} |-> Intents \ Payable]

BocPreview == INSTANCE TransferChecks WITH status <- x1, balance <- x2,
  seqno <- x3, now <- x4, key <- x5, item <- x6, moves <- x7, call <- x8,
  calm <- x9, still <- x10, preview <- x11, refused <- x12, signed <- x13,
  executed <- x14, Secrets <- Secrets, Items <- {"owned"}, Validity <- 2,
  MaxMessages <- 2, MaxU32 <- 4, MaxU64 <- 6, MaxCoins <- 3, Fee <- 1,
  MaxMoves <- 1, Requests <- RequestsOf({"preview_send_boc", "send_boc"})

NftPreview == INSTANCE TransferChecks WITH status <- x1, balance <- x2,
  seqno <- x3, now <- x4, key <- x5, item <- x6, moves <- x7, call <- x8,
  calm <- x9, still <- x10, preview <- x11, refused <- x12, signed <- x13,
  executed <- x14, Secrets <- Secrets, Items <- {"owned", "listed", "locked"},
  Validity <- 2, MaxMessages <- 2, MaxU32 <- 4, MaxU64 <- 6, MaxCoins <- 3,
  Fee <- 1, MaxMoves <- 1,
  Requests <- RequestsOf({"preview_nft_transfer", "send_nft_transfer"})

Signing == INSTANCE TransferChecks WITH status <- x1, balance <- x2,
  seqno <- x3, now <- x4, key <- x5, item <- x6, moves <- x7, call <- x8,
  calm <- x9, still <- x10, preview <- x11, refused <- x12, signed <- x13,
  executed <- x14, Secrets <- Secrets, Items <- {"owned"}, Validity <- 2,
  MaxMessages <- 2, MaxU32 <- 4, MaxU64 <- 6, MaxCoins <- 3, Fee <- 1,
  MaxMoves <- 2,
  Requests <- RequestsOf({"send", "sign_message", "prepare_transfer"})

-----------------------------------------------------------------------------
\* Nothing tells one record from another, or one slot.
Symmetry == Permutations({r1, r2}) \cup Permutations({s1, s2})

\* The variables from each place on that an instance with fewer leaves unused.
rest11 == <<x11, x12, x13, x14>>
Unused11 == x11 = 0 /\ x12 = 0 /\ x13 = 0 /\ x14 = 0
rest1 == <<x1, x2, x3, x4, x5, x6, x7, x8, x9, x10, rest11>>
Unused1 == x1 = 0 /\ x2 = 0 /\ x3 = 0 /\ x4 = 0 /\ x5 = 0 /\ x6 = 0 /\ x7 = 0 /\
    x8 = 0 /\ x9 = 0 /\ x10 = 0 /\ Unused11

Init ==
  /\ LifecycleInit
  /\ \/ /\ part = "records" /\ Unused1
     \/ /\ part = "rotation" /\ Rotation!Init
     \/ /\ part = "comments" /\ Comments!Init
     \/ /\ part = "recipients" /\ Holders!Init
     \/ /\ part = "devices" /\ Device!Init /\ Unused11
     \/ /\ part = "methods" /\ Method!Init /\ Unused11
     \/ /\ part = "previews" /\ Preview!Init
     \/ /\ part = "limits" /\ Limit!Init
     \/ /\ part = "bocs" /\ BocPreview!Init
     \/ /\ part = "nft" /\ NftPreview!Init
     \/ /\ part = "signing" /\ Signing!Init

Next ==
  \/ part = "records" /\ LifecycleNext
       /\ UNCHANGED <<part, instanceVars>>
  \/ part = "rotation" /\ Rotation!Next /\ UNCHANGED <<part, lifecycleVars>>
  \/ part = "comments" /\ Comments!Next /\ UNCHANGED <<part, lifecycleVars>>
  \/ part = "recipients" /\ Holders!Next /\ UNCHANGED <<part, lifecycleVars>>
  \/ part = "devices" /\ Device!Next /\ UNCHANGED <<part, lifecycleVars, rest11>>
  \/ part = "methods" /\ Method!Next /\ UNCHANGED <<part, lifecycleVars, rest11>>
  \/ part = "previews" /\ Preview!Next /\ UNCHANGED <<part, lifecycleVars>>
  \/ part = "limits" /\ Limit!Next /\ UNCHANGED <<part, lifecycleVars>>
  \/ part = "bocs" /\ BocPreview!Next /\ UNCHANGED <<part, lifecycleVars>>
  \/ part = "nft" /\ NftPreview!Next /\ UNCHANGED <<part, lifecycleVars>>
  \/ part = "signing" /\ Signing!Next /\ UNCHANGED <<part, lifecycleVars>>

Spec == Init /\ [][Next]_vars

-----------------------------------------------------------------------------
(* The properties, each of one component *)

\* A rotation of the signing key is safe at every moment (prepare_key_rotation and
\* the steps of the host around it): the owner can sign, a prepared rotation is
\* acceptable, and every replaced key can be recovered from the chain.
RotationIsSafe == part = "rotation" => Rotation!RotationIsSafe

\* An encrypted comment reaches its reader: it is encrypted to a key that the
\* recipient holds, whatever the state of its account, and a wallet that rotated
\* its key still reads what was sent to an earlier one (create_encrypted_comment,
\* resolve_recipient_public_key and decrypt_comment).
CommentsReachReader ==
  /\ part = "comments" => Comments!NeverUnavailable /\ Comments!EncryptedToHolder
  /\ part = "recipients" => Holders!EncryptedToHolder

\* The sessions that a device derives from the phrase agree with what the dApp
\* was told: results verify under that key, and no phrase of another rotation
\* opens the session (derive_ton_connect_session and its responses).
DerivedSessionsAgree ==
  /\ part = "devices" => Device!ResultsVerify /\ Device!OnlyItsPhraseOpens
  /\ part = "methods" => Method!ResultsVerify

\* As long as the chain does not move, a preview that succeeds promises that the
\* signing call is not refused and that the transfer is paid.  Nothing is promised
\* once the account, the item or the time has changed.
PreviewsHold ==
  /\ part = "previews" => Preview!PreviewsHold
  /\ part = "limits" => Limit!PreviewsHold
  /\ part = "bocs" => BocPreview!PreviewHolds
  /\ part = "nft" => NftPreview!PreviewedIsPaid

\* What is signed can be executed, and of a prepared pair one message only.
SignedIsSound == part = "signing" => Signing!SignedIsSound
=============================================================================
