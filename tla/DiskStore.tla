----------------------------- MODULE DiskStore ------------------------------
(***************************************************************************)
(* The platform store of examples/tui/src/storage.rs: one JSON file that   *)
(* holds the wallet descriptor, the protected secrets and the journals.    *)
(* Every write changes the state in memory under the lock and then         *)
(* replaces the whole file: write a temporary file, flush it, rename it,   *)
(* flush the directory.                                                    *)
(*                                                                         *)
(* The module gives the calls; DiskHistory and TuiApp make them.           *)
(***************************************************************************)
EXTENDS Integers

CONSTANTS
  Wallets,        \* record ids; the descriptor and the secret of one record
                  \* are both named by it
  Contents        \* what a journal record may say

VARIABLES
  memory,         \* the StoredState behind the lock
  file,           \* what wallet.json shows now
  flushed         \* what wallet.json is known to show after a power loss

store == <<memory, file, flushed>>

\* StoredState::default.  A journal of version 0 is one that is not there.
EmptyState ==
  [wallet |-> {}, secrets |-> {},
   journals |-> [w \in Wallets |-> [version |-> 0, content |-> {}]]]

StoreInit == memory = EmptyState /\ file = EmptyState /\ flushed = EmptyState

\* How far `persist` comes: it fails before the rename, it fails between the
\* rename and the flush of the directory, or it succeeds.
Outcomes == {"unreplaced", "unflushed", "done"}

\* Mutant: the directory is not flushed.
persist_rename(state, outcome) ==
  /\ memory' = state
  /\ file' = IF outcome = "unreplaced" THEN file ELSE state
  /\ UNCHANGED flushed

\* A write of the whole state.  The caller has changed the memory already.
persist(state, outcome) ==
  /\ memory' = state
  /\ file' = IF outcome = "unreplaced" THEN file ELSE state
  /\ flushed' = IF outcome = "done" THEN state ELSE flushed

save_wallet(w, outcome) == persist([memory EXCEPT !.wallet = {w}], outcome)

clear_wallet(outcome) == persist([memory EXCEPT !.wallet = {}], outcome)

store_protected_secret(w, outcome) ==
  persist([memory EXCEPT !.secrets = @ \cup {w}], outcome)

delete_protected_secret(w, outcome) ==
  persist([memory EXCEPT !.secrets = @ \ {w}], outcome)

load_journal(w) == memory.journals[w]

\* The version test of compare_exchange_journal.
VersionMatches(w, expected) == load_journal(w).version = expected

\* The write of compare_exchange_journal, after the version test.
ReplaceJournal(w, record, outcome) ==
  persist([memory EXCEPT !.journals[w] = record], outcome)

\* open_default in a new process.  After a power loss the rename of an
\* unflushed directory may or may not have happened.
open_default(power) ==
  \E state \in IF power THEN {file, flushed} ELSE {file} :
    /\ memory' = state
    /\ file' = state
    /\ flushed' = IF power THEN state ELSE flushed
=============================================================================
