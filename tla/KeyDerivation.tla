---------------------------- MODULE KeyDerivation ----------------------------
(***************************************************************************)
(* Keys and addresses of a rotation phrase: src/wallet/crypto.rs,          *)
(* src/wallet/slip_0010.rs and the encryption of a replaced key in         *)
(* src/wallet/key_history.rs.                                              *)
(*                                                                         *)
(* A phrase is a record of its two halves.  HMAC, PBKDF2 and Ed25519 are   *)
(* black boxes without collisions: a derived value is the tuple of what it *)
(* was derived from.                                                       *)
(***************************************************************************)
EXTENDS Naturals, Sequences

TON_ACCOUNT_PATH == <<44, 607, 0>>

to_seed(half) == <<"seed", half>>

\* A node of the derivation tree and the hardened steps below it.
master_key(seed) == [seed |-> seed, path |-> <<>>]

derive_hardened_child(parent, index) ==
  [parent EXCEPT !.path = Append(@, <<"hardened", index>>)]

derive_path(seed, path) ==
  LET node[n \in 0 .. Len(path)] ==
        IF n = 0 THEN master_key(seed) ELSE derive_hardened_child(node[n - 1], path[n])
  IN  node[Len(path)]

\* The Ed25519 key of one half.
derive_half_key(half) == derive_path(to_seed(half), TON_ACCOUNT_PATH)

verifying_key(key) == <<"public", key>>

derive_rotation_keys(phrase) ==
  [anchor |-> derive_half_key(phrase.anchor),
   signing |-> derive_half_key(phrase.signing)]

wallet_contract_id(network) == <<"wallet id", network>>

\* The initial contract data holds the anchor key and the wallet id, and the
\* address is the hash of that data with the code.
derive_wallet_public_state(public_key, network) ==
  [address |-> <<"address", wallet_contract_id(network), public_key>>,
   state_init |-> [key |-> public_key, id |-> wallet_contract_id(network)]]

derive_wallet(phrase, network) ==
  LET keys == derive_rotation_keys(phrase)
  IN  [anchor |-> keys.anchor, signing |-> keys.signing,
       id |-> wallet_contract_id(network),
       address |-> derive_wallet_public_state(verifying_key(keys.anchor),
                                              network).address]

is_pre_rotation(wallet) ==
  verifying_key(wallet.anchor) = verifying_key(wallet.signing)

signing_public_key(wallet) == verifying_key(wallet.signing)

\* A signature is the key and what it signed.
Sign(key, what) == [by |-> verifying_key(key), over |-> what]

sign_ton_connect_digest(wallet, digest) == Sign(wallet.signing, digest)

\* The X25519 secret of a derived TON Connect session.
ton_connect_session_secret(wallet, peer, nonce) ==
  <<"session v1", wallet.signing, peer, nonce>>

\* encrypt_old_private_key: the old key under a mask that only the new key can
\* compute.
encrypt_old_private_key(old_key, new_key) == [mask |-> new_key, old |-> old_key]

\* Removing another mask yields a key that nobody has.
decrypt_old_private_key(encrypted, new_key) ==
  IF encrypted.mask = new_key THEN encrypted.old
  ELSE master_key(<<"noise", encrypted.mask, new_key>>)

\* One published rotation.
KeyChange(old_key, new_key) ==
  [new_public_key |-> verifying_key(new_key),
   encrypted_old_private_key |-> encrypt_old_private_key(old_key, new_key)]
=============================================================================
