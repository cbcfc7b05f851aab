--------------------------- MODULE WalletLifecycle ---------------------------
(***************************************************************************)
(* Wallet creation, import, recovery and deletion, and the TON Connect     *)
(* signatures of src/wallet/mod.rs.                                        *)
(*                                                                         *)
(* The service has no lock and no state: every call validates its input,   *)
(* awaits one call of the host's protected storage and works on what came  *)
(* back.  The application (external) runs calls side by side, keeps a      *)
(* descriptor once its call succeeded and forgets it once its secret is    *)
(* deleted; it can crash in between.                                       *)
(***************************************************************************)
EXTENDS KeyDerivation, Functions

CONSTANTS
  Records,        \* record ids that validate
  BadRecord,      \* a record id that does not
  Networks,
  Draws,          \* halves that the generator can draw
  Phrases,        \* phrases that users enter
  Slots,          \* calls that run side by side
  MaxCreated,     \* bound on wallets created or imported
  MaxIncidents    \* bound on storage failures, unreadable secrets and crashes

VARIABLES
  protected,   \* the protected storage: the phrase under each reference
  kept,        \* the descriptors that the application keeps
  condemned,   \* the descriptors whose deletion the application asked for
  ongoing,     \* the calls that run, by slot
  used,        \* the record ids that the application picked, in order
  incidents

lifecycleVars == <<protected, kept, condemned, ongoing, used, incidents>>

\* The result of entering words that are no rotation phrase.
NoPhrase == [anchor |-> "none", signing |-> "none"]

NoDescriptor == [record_id |-> BadRecord]

idle == [op |-> "none", stage |-> "idle", descriptor |-> NoDescriptor,
         phrase |-> NoPhrase, result |-> [of |-> "nothing"], input |-> TRUE,
         error |-> "none"]

secret_ref_for(record) == <<"wallet", record, "mnemonic">>

validate_record_id(record) == record # BadRecord

\* Mutant: the reference is taken from the descriptor without a check.
validate_descriptor_loose(d) ==
  /\ validate_record_id(d.record_id)
  /\ d.address = derive_wallet_public_state(d.public_key, d.network).address

validate_descriptor(d) ==
  /\ validate_record_id(d.record_id)
  /\ d.secret_ref = secret_ref_for(d.record_id)
  /\ d.address = derive_wallet_public_state(d.public_key, d.network).address

derive_descriptor(record, network, phrase) ==
  LET wallet == derive_wallet(phrase, network)
  IN  [record_id |-> record, address |-> wallet.address,
       public_key |-> verifying_key(wallet.anchor), network |-> network,
       secret_ref |-> secret_ref_for(record)]

derive_address(network, phrase) == derive_wallet(phrase, network).address

\* The phrase opens the wallet of the descriptor.
unlock_wallet(phrase, d) ==
  LET wallet == derive_wallet(phrase, d.network)
  IN  wallet.address = d.address /\ verifying_key(wallet.anchor) = d.public_key

\* What the operations that read the secret require of it.
Belongs(op, phrase, d) ==
  IF op = "reveal" THEN derive_address(d.network, phrase) = d.address
  ELSE unlock_wallet(phrase, d)

\* The three signatures: the returned key is the one that signed.
sign_ton_connect_proof(phrase, d) ==
  LET wallet == derive_wallet(phrase, d.network)
  IN  [of |-> "proof", public_key |-> signing_public_key(wallet),
       signature |-> sign_ton_connect_digest(wallet, <<"proof", d.address>>)]

derive_ton_connect_session(phrase, d) ==
  LET wallet == derive_wallet(phrase, d.network)
  IN  [of |-> "session", public_key |-> signing_public_key(wallet),
       address |-> d.address,
       secret |-> ton_connect_session_secret(wallet, "peer", "nonce")]

sign_ton_connect_data(phrase, d) ==
  LET wallet == derive_wallet(phrase, d.network)
  IN  [of |-> "data", public_key |-> signing_public_key(wallet),
       signature |-> sign_ton_connect_digest(wallet, <<"data", d.address>>)]

recovery_phrase(phrase) == [of |-> "phrase", phrase |-> phrase]

\* The account material of a wallet holds the anchor key.
derive_ton_connect_account(d) ==
  LET state == derive_wallet_public_state(d.public_key, d.network)
  IN  [of |-> "account", address |-> state.address, state_init |-> state.state_init,
       public_key |-> d.public_key]

ResultOf(op, phrase, d) ==
  CASE op = "reveal"  -> recovery_phrase(phrase)
    [] op = "proof"   -> sign_ton_connect_proof(phrase, d)
    [] op = "session" -> derive_ton_connect_session(phrase, d)
    [] op = "data"    -> sign_ton_connect_data(phrase, d)

\* The descriptor of a new call: one that is kept, or one with a field of
\* another wallet.
Presented ==
  kept \cup
  {[d EXCEPT !.secret_ref = e.secret_ref] : d, e \in kept} \cup
  {[d EXCEPT !.public_key = e.public_key] : d, e \in kept} \cup
  {[d EXCEPT !.network = n] : d \in kept, n \in Networks}

LifecycleInit ==
  /\ protected = [r \in {secret_ref_for(x) : x \in Records} |-> {}]
  /\ kept = {}
  /\ condemned = {}
  /\ ongoing = [s \in Slots |-> idle]
  /\ used = <<>>
  /\ incidents = 0

Free(s) == ongoing[s].stage = "idle"

Started(s, call) == ongoing' = [ongoing EXCEPT ![s] = call]

Failed(s, op, error) ==
  /\ Started(s, [idle EXCEPT !.op = op, !.stage = "failed", !.error = error])
  /\ UNCHANGED <<protected, kept, condemned>>

\* The application picks a record id.
PicksRecord(record) ==
  /\ Len(used) < MaxCreated
  /\ used' = Append(used, record)

\* create_wallet up to the store call.  Draws are random, so none comes twice.
create_wallet(s) ==
  /\ Free(s)
  /\ UNCHANGED incidents
  /\ \E record \in Records \cup {BadRecord}, network \in Networks :
       /\ PicksRecord(record)
       /\ \/ ~validate_record_id(record) /\ Failed(s, "create", "InvalidRecordId")
          \/ /\ validate_record_id(record)
             /\ \E half \in Draws :
                  LET phrase == [anchor |-> half, signing |-> half]
                  IN  /\ \A r \in DOMAIN protected : phrase \notin protected[r]
                      /\ \A t \in Slots : ongoing[t].phrase # phrase
                      /\ Started(s, [idle EXCEPT
                              !.op = "create", !.stage = "storing", !.phrase = phrase,
                              !.descriptor = derive_descriptor(record, network, phrase)])
                      /\ UNCHANGED <<protected, kept, condemned>>

\* import_wallet up to the store call.
import_wallet(s) ==
  /\ Free(s)
  /\ UNCHANGED incidents
  /\ \E record \in Records \cup {BadRecord}, network \in Networks,
        phrase \in Phrases \cup {NoPhrase} :
       /\ PicksRecord(record)
       /\ \/ ~validate_record_id(record) /\ Failed(s, "import", "InvalidRecordId")
          \/ /\ validate_record_id(record) /\ phrase = NoPhrase
             /\ Failed(s, "import", "InvalidRecoveryPhrase")
          \/ /\ validate_record_id(record) /\ phrase # NoPhrase
             /\ Started(s, [idle EXCEPT
                     !.op = "import", !.stage = "storing", !.phrase = phrase,
                     !.descriptor = derive_descriptor(record, network, phrase)])
             /\ UNCHANGED <<protected, kept, condemned>>

\* The error of an input that is checked before the secret is read.
InputError(op) ==
  IF op = "session" THEN "InvalidTonConnectSessionInput" ELSE "TonConnectSigningFailed"

ReadOps == {"reveal", "proof", "session", "data"}

\* reveal_recovery_phrase, sign_ton_connect_proof, derive_ton_connect_session
\* and sign_ton_connect_data up to the read call.  A proof's input is only
\* looked at when it is signed.
ReadCall(s) ==
  /\ Free(s)
  /\ UNCHANGED <<used, incidents>>
  /\ \E op \in ReadOps, d \in Presented, input \in BOOLEAN :
       /\ op = "reveal" => input
       /\ \/ ~validate_descriptor(d) /\ Failed(s, op, "InvalidRecordId")
          \/ /\ validate_descriptor(d) /\ ~input /\ op \in {"session", "data"}
             /\ Failed(s, op, InputError(op))
          \/ /\ validate_descriptor(d) /\ (input \/ op = "proof")
             /\ Started(s, [idle EXCEPT !.op = op, !.stage = "reading",
                                        !.descriptor = d, !.input = input])
             /\ UNCHANGED <<protected, kept, condemned>>

\* delete_wallet up to the delete call.
delete_wallet(s) ==
  /\ Free(s)
  /\ UNCHANGED <<used, incidents>>
  /\ \E d \in Presented :
       \/ ~validate_descriptor(d) /\ Failed(s, "delete", "InvalidRecordId")
       \/ /\ validate_descriptor(d)
          /\ Started(s, [idle EXCEPT !.op = "delete", !.stage = "deleting",
                                     !.descriptor = d])
          /\ condemned' = condemned \cup {d}
          /\ UNCHANGED <<protected, kept>>

\* ton_connect_account reads no secret and returns at once.
ton_connect_account(s) ==
  /\ Free(s)
  /\ UNCHANGED <<used, incidents>>
  /\ \E d \in Presented :
       \/ ~validate_descriptor(d) /\ Failed(s, "account", "InvalidRecordId")
       \/ /\ validate_descriptor(d)
          /\ Started(s, [idle EXCEPT !.op = "account", !.stage = "done",
                  !.descriptor = d, !.result = derive_ton_connect_account(d)])
          /\ UNCHANGED <<protected, kept, condemned>>

\* The rest of create_wallet and import_wallet.
StoreSecret(s) ==
  /\ ongoing[s].stage = "storing"
  /\ protected' = [protected EXCEPT ![ongoing[s].descriptor.secret_ref] = {ongoing[s].phrase}]
  /\ ongoing' = [ongoing EXCEPT ![s].stage = "done"]
  /\ UNCHANGED <<kept, condemned, used, incidents>>

\* The rest of the calls that read: parse the phrase, compare it with the
\* descriptor, sign.
ReadSecret(s) ==
  LET c == ongoing[s]
      Outcome(error) == IF error = "none" THEN "done" ELSE "failed"
  IN  /\ c.stage = "reading"
      /\ \E phrase \in protected[c.descriptor.secret_ref] :
           LET error == IF ~Belongs(c.op, phrase, c.descriptor)
                        THEN "SecretWalletMismatch"
                        ELSE IF ~c.input THEN "TonConnectSigningFailed" ELSE "none"
           IN  ongoing' = [ongoing EXCEPT ![s].stage = Outcome(error),
                                      ![s].phrase = phrase, ![s].error = error,
                                      ![s].result = IF error = "none"
                                                    THEN ResultOf(c.op, phrase, c.descriptor)
                                                    ELSE @]
      /\ UNCHANGED <<protected, kept, condemned, used, incidents>>

\* A secret that is not there is a failure of the host.
MissingSecret(s) ==
  /\ ongoing[s].stage \in {"reading", "deleting"}
  /\ protected[ongoing[s].descriptor.secret_ref] = {}
  /\ ongoing' = [ongoing EXCEPT ![s].stage = "failed", ![s].error = "ProtectedSecretHost"]
  /\ UNCHANGED <<protected, kept, condemned, used, incidents>>

\* The bytes that the host returns for a stored secret are no phrase.
UnreadableSecret(s) ==
  /\ incidents < MaxIncidents
  /\ incidents' = incidents + 1
  /\ ongoing[s].stage = "reading"
  /\ protected[ongoing[s].descriptor.secret_ref] # {}
  /\ ongoing' = [ongoing EXCEPT ![s].stage = "failed", ![s].error = "InvalidRecoveryPhrase"]
  /\ UNCHANGED <<protected, kept, condemned, used>>

DeleteSecret(s) ==
  /\ ongoing[s].stage = "deleting"
  /\ protected' = [protected EXCEPT ![ongoing[s].descriptor.secret_ref] = {}]
  /\ ongoing' = [ongoing EXCEPT ![s].stage = "done"]
  /\ UNCHANGED <<kept, condemned, used, incidents>>

\* The host reports a failure; a write may have happened all the same.
HostFails(s) ==
  LET c == ongoing[s] IN
  /\ incidents < MaxIncidents
  /\ incidents' = incidents + 1
  /\ c.stage \in {"storing", "reading", "deleting"}
  /\ ongoing' = [ongoing EXCEPT ![s].stage = "failed", ![s].error = "ProtectedSecretHost"]
  /\ \/ protected' = protected
     \/ c.stage = "storing" /\ protected' = [protected EXCEPT ![c.descriptor.secret_ref] = {c.phrase}]
     \/ c.stage = "deleting" /\ protected' = [protected EXCEPT ![c.descriptor.secret_ref] = {}]
  /\ UNCHANGED <<kept, condemned, used>>

\* The application keeps the descriptor of a new wallet and forgets the one of
\* a deleted wallet, after the call succeeded.
Returned(s) ==
  LET c == ongoing[s] IN
  /\ c.stage \in {"done", "failed"}
  /\ ongoing' = [ongoing EXCEPT ![s] = idle]
  /\ kept' = IF c.stage = "failed" THEN kept
             ELSE IF c.op \in {"create", "import"} THEN kept \cup {c.descriptor}
             ELSE IF c.op = "delete" THEN kept \ {c.descriptor}
             ELSE kept
  /\ UNCHANGED <<protected, condemned, used, incidents>>

Crash ==
  /\ incidents < MaxIncidents
  /\ incidents' = incidents + 1
  /\ \E s \in Slots : ~Free(s)
  /\ ongoing' = [s \in Slots |-> idle]
  /\ UNCHANGED <<protected, kept, condemned, used>>

LifecycleNext ==
  \/ \E s \in Slots : create_wallet(s)
  \/ \E s \in Slots : import_wallet(s)
  \/ \E s \in Slots : ReadCall(s)
  \/ \E s \in Slots : delete_wallet(s)
  \/ \E s \in Slots : ton_connect_account(s)
  \/ \E s \in Slots : StoreSecret(s)
  \/ \E s \in Slots : ReadSecret(s)
  \/ \E s \in Slots : MissingSecret(s)
  \/ \E s \in Slots : UnreadableSecret(s)
  \/ \E s \in Slots : DeleteSecret(s)
  \/ \E s \in Slots : HostFails(s)
  \/ \E s \in Slots : Returned(s)
  \/ Crash

LifecycleSpec == LifecycleInit /\ [][LifecycleNext]_lifecycleVars

\* A phrase that is revealed, and a key that signs a proof, data or derives a
\* session, is the one of the wallet that the caller asked for, whatever other
\* calls and reused record ids did to the storage between the check and the
\* read; the returned public key verifies the signature, and the signed address is
\* the one that ton_connect_account reports.
SecretOfTheWallet ==
  \A s \in Slots :
    LET c == ongoing[s] IN
    c.op \in ReadOps /\ c.stage = "done" =>
      /\ verifying_key(derive_half_key(c.phrase.anchor)) = c.descriptor.public_key
      /\ derive_wallet(c.phrase, c.descriptor.network).address = c.descriptor.address
      /\ c.op # "reveal" =>
           c.result.public_key = verifying_key(derive_half_key(c.phrase.signing))
      /\ c.op \in {"proof", "data"} =>
           /\ c.result.signature.by = c.result.public_key
           /\ c.result.signature.over[2] = derive_ton_connect_account(c.descriptor).address

\* The application never used a record id twice: it is normally a UUID.
Unique == IsInjective(used)

\* With unique record ids, every descriptor that the application keeps opens
\* its own wallet, unless it asked for its deletion: the documented order (keep
\* after success, forget after success) survives crashes, failed writes and
\* calls with mixed-up descriptors.
KeptOpens ==
  \A d \in kept \ condemned :
    \E phrase \in protected[d.secret_ref] : unlock_wallet(phrase, d)

\* A wallet that the application deleted and forgot leaves no secret behind,
\* also when the first attempt failed or a crash came between the two.
ForgottenIsGone ==
  \A d \in condemned \ kept : protected[d.secret_ref] = {}

\* Whatever the application and the storage do, a secret that is used is the one
\* of the wallet that was asked for, also with reused record ids; and as long as
\* no record id was used twice, a descriptor that is kept opens its own wallet and
\* one that is forgotten leaves no secret (create_wallet, import_wallet,
\* delete_wallet and the calls that unlock).
RecordsAreTrue == SecretOfTheWallet /\ (Unique => KeptOpens /\ ForgottenIsGone)
=============================================================================
