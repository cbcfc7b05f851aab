---------------------------- MODULE SendWorkflow ----------------------------
(***************************************************************************)
(* The pure send reducer of src/wallet/send.rs: the stages of one signed   *)
(* message, the events that move it between stages, and the predicates     *)
(* that decide what a durable record of a given stage allows.              *)
(*                                                                         *)
(* The module has no state.  The coordinator (module WalletSend) keeps one *)
(* stage per send and applies these operators around its host calls.       *)
(***************************************************************************)

\* The stages of SendStage that come before the journal record exists.
VolatileStage ==
  {"Validating", "LoadingJournal", "FetchingFreshAccount", "Authorizing",
   "Preparing", "PersistingPrepared"}

\* The stages in which a complete signed message exists and can execute.
PendingStage ==
  {"ReadyToSubmit", "Submitting", "SubmissionUnknown", "Submitted",
   "HandedOff"}

\* The stages written by the resolver, and the two definite ends of a send.
SettledStage ==
  {"Confirmed", "Replaced", "SequenceNumberConsumed", "Expired",
   "Superseded", "Failed", "Cancelled"}

SendStage == VolatileStage \cup PendingStage \cup SettledStage

\* The result of `transition` for an event that is out of order.
NoStage == "None"

is_terminal(s) ==
  s \in {"SubmissionUnknown", "Submitted", "HandedOff"} \cup SettledStage

permits_replacement(s) == s \in SettledStage

permits_forced_replacement(s) == s \in PendingStage

after_cancellation(s) == IF is_terminal(s) THEN s ELSE "Cancelled"

\* The stages whose terminal record may be written without a stage change.
Recordable ==
  {"SubmissionUnknown", "Submitted", "HandedOff", "Failed", "Cancelled"}

\* Every other event has one stage it applies to and one it leads to.
Source ==
  [Begin |-> "Validating", JournalLoaded |-> "LoadingJournal",
   FreshAccountLoaded |-> "FetchingFreshAccount",
   PreparedAccountLoaded |-> "FetchingFreshAccount",
   AuthorizationSucceeded |-> "Authorizing", TransferPrepared |-> "Preparing",
   PreparedJournalPersisted |-> "PersistingPrepared",
   InternalMessageJournalPersisted |-> "PersistingPrepared",
   SubmissionStarted |-> "ReadyToSubmit", SubmissionSucceeded |-> "Submitting",
   SubmissionUnknown |-> "Submitting", SubmissionRejected |-> "Submitting"]

Target ==
  [Begin |-> "LoadingJournal", JournalLoaded |-> "FetchingFreshAccount",
   FreshAccountLoaded |-> "Authorizing",
   PreparedAccountLoaded |-> "Preparing",
   AuthorizationSucceeded |-> "Preparing",
   TransferPrepared |-> "PersistingPrepared",
   PreparedJournalPersisted |-> "ReadyToSubmit",
   InternalMessageJournalPersisted |-> "HandedOff",
   SubmissionStarted |-> "Submitting", SubmissionSucceeded |-> "Submitted",
   SubmissionUnknown |-> "SubmissionUnknown", SubmissionRejected |-> "Failed"]

transition(s, e) ==
  IF e = "Cancel" THEN after_cancellation(s)
  ELSE IF e = "JournalConflict"
  THEN IF is_terminal(s) THEN NoStage ELSE "Failed"
  ELSE IF e = "TerminalJournalPersisted"
  THEN IF s \in Recordable THEN s ELSE NoStage
  ELSE IF s = Source[e] THEN Target[e] ELSE NoStage

\* The compact projection that SendSnapshot.phase shows.
public_phase(s) ==
  IF s \in {"Validating", "LoadingJournal", "FetchingFreshAccount"}
  THEN "Validating"
  ELSE IF s = "PersistingPrepared" THEN "Persisting" ELSE s

\* The stage that journal_record writes for a workflow at stage s: a prepared
\* message is recorded at the stage it will have once the write is durable.
durable_stage(s, internal) ==
  IF s = "PersistingPrepared"
  THEN IF internal THEN "HandedOff" ELSE "ReadyToSubmit"
  ELSE s
=============================================================================
