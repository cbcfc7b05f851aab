---------------------------- MODULE DiskHistory -----------------------------
(***************************************************************************)
(* Every sequence of calls to DiskStore, with failing writes, restarts and *)
(* power losses, and what its callers were told.                           *)
(***************************************************************************)
EXTENDS DiskStore

CONSTANTS
  MaxFaults,      \* bound: failing writes
  MaxRestarts,    \* bound: restarts of the process
  MaxVersion      \* bound: journal versions

VARIABLES
  told,           \* per item, {its value} when the last write to it succeeded
  seen,           \* per wallet, the newest journal version a call returned
  faults, restarts

diskVars == <<memory, file, flushed, told, seen, faults, restarts>>

DiskInit ==
  /\ StoreInit
  /\ told = [wallet |-> {{}}, secrets |-> [w \in Wallets |-> {FALSE}],
             journals |-> [w \in Wallets |-> {EmptyState.journals[w]}]]
  /\ seen = [w \in Wallets |-> 0]
  /\ faults = 0 /\ restarts = 0

Counted(outcome) ==
  /\ outcome # "done" => faults < MaxFaults
  /\ faults' = IF outcome = "done" THEN faults ELSE faults + 1
  /\ UNCHANGED restarts

Told(value, outcome) == IF outcome = "done" THEN {value} ELSE {}

WriteWallet ==
  \E outcome \in Outcomes :
    /\ Counted(outcome)
    /\ UNCHANGED seen
    /\ \/ \E w \in Wallets :
            /\ save_wallet(w, outcome)
            /\ told' = [told EXCEPT !.wallet = Told({w}, outcome)]
       \/ /\ clear_wallet(outcome)
          /\ told' = [told EXCEPT !.wallet = Told({}, outcome)]

WriteSecret ==
  \E outcome \in Outcomes, w \in Wallets :
    /\ Counted(outcome)
    /\ UNCHANGED seen
    /\ \/ /\ store_protected_secret(w, outcome)
          /\ told' = [told EXCEPT !.secrets[w] = Told(TRUE, outcome)]
       \/ /\ delete_protected_secret(w, outcome)
          /\ told' = [told EXCEPT !.secrets[w] = Told(FALSE, outcome)]

LoadJournal ==
  \E w \in Wallets :
    /\ seen' = [seen EXCEPT ![w] = load_journal(w).version]
    /\ UNCHANGED <<memory, file, flushed, told, faults, restarts>>

\* A caller replaces the version it knows by the next one.
compare_exchange_journal ==
  \E w \in Wallets, outcome \in Outcomes, expected \in 0..MaxVersion - 1, c \in Contents :
    LET record == [version |-> expected + 1, content |-> {c}] IN
    /\ expected <= seen[w]
    /\ \/ /\ VersionMatches(w, expected)
          /\ ReplaceJournal(w, record, outcome)
          /\ Counted(outcome)
          /\ told' = [told EXCEPT !.journals[w] = Told(record, outcome)]
          /\ seen' = IF outcome = "done" THEN [seen EXCEPT ![w] = record.version] ELSE seen
       \/ /\ ~VersionMatches(w, expected)
          /\ outcome = "done"
          /\ seen' = [seen EXCEPT ![w] = load_journal(w).version]
          /\ UNCHANGED <<memory, file, flushed, told, faults, restarts>>

Restart ==
  /\ restarts < MaxRestarts
  /\ restarts' = restarts + 1
  /\ \E power \in BOOLEAN : open_default(power)
  /\ UNCHANGED <<told, seen, faults>>

DiskNext == WriteWallet \/ WriteSecret \/ LoadJournal \/ compare_exchange_journal \/ Restart

DiskSpec == DiskInit /\ [][DiskNext]_diskVars

-----------------------------------------------------------------------------
(* Properties.                                                             *)

Holds(state) ==
  /\ \A value \in told.wallet : state.wallet = value
  /\ \A w \in Wallets :
       /\ \A value \in told.secrets[w] : (w \in state.secrets) = value
       /\ \A value \in told.journals[w] : state.journals[w] = value

\* What a write reported as done is what the process, the file and the disk
\* after a power loss all show, until the next write to the same item: neither
\* a failing write to another item nor a restart takes it back.
AcknowledgedIsDurable == Holds(memory) /\ Holds(file) /\ Holds(flushed)

\* Two exchanges that name the same version are never both applied: as long as
\* the process runs, the version of a journal never goes back and a record of
\* one version never changes its content.
VersionsMove ==
  restarts' = restarts =>
    \A w \in Wallets :
      /\ memory.journals[w].version <= memory'.journals[w].version
      /\ (memory.journals[w].version = memory'.journals[w].version
            => memory.journals[w] = memory'.journals[w])

\* A journal record that load_journal or compare_exchange_journal returned is
\* durable: a restart does not bring an older one back.
ReturnedIsDurable ==
  \A w \in Wallets :
    seen[w] <= file.journals[w].version /\ seen[w] <= flushed.journals[w].version

\* What a step keeps, for JournalIsDurable.
KeepsJournal == VersionsMove /\ AcknowledgedIsDurable'

\* The disk store is what the journal needs (DiskStore::persist and compare_exchange_journal):
\* after every step what was acknowledged is durable, and two exchanges of one
\* version are never both applied.
JournalIsDurable == [][KeepsJournal]_diskVars
=============================================================================
