----------------------------- MODULE WalletSend -----------------------------
(***************************************************************************)
(* The durable send of Wallet Engine: send, send_boc, sign_message and     *)
(* resolve_pending of one or more WalletClient processes that share the    *)
(* wallet's journal slot, together with cancellation, shutdown, process    *)
(* crashes, and the provider and chain that the engine observes.           *)
(*                                                                         *)
(* A call is one future.  Between two of its awaits it takes one step; any *)
(* step of another call, client, or of the chain can come in between.  The *)
(* generation of a call is modelled by the call itself: generations are    *)
(* never reused, so "the generation is current" is "the slot holds k".     *)
(***************************************************************************)
EXTENDS Integers, SendWorkflow

CONSTANTS
  Clients,      \* WalletClient instances, one per process
  Sends,        \* calls of send and send_boc
  Bocs,         \* those of Sends that are calls of send_boc
  Signs,        \* calls of sign_message
  Resolvers,    \* callers of resolve_pending, which may call it repeatedly
  Forced,       \* the sends and signs whose request sets `force`
  Home,         \* the client each call is made on
  Validity,     \* config.send_validity_seconds
  Margin,       \* config.resolution_margin_seconds
  Expirations,  \* the exact expirations a caller may ask for
  TimeLag,      \* how far the v2 provider's sync_utime may be behind
  IndexLag,     \* how far the v3 indexer may be behind
  MaxTime,      \* bound on the clock
  MaxSeqno,     \* bound on the wallet's transactions
  MaxDisruptions, \* bound on crashes, shutdowns and failed host calls
  Nobody

Ops == Sends \cup Signs
Calls == Ops \cup Resolvers

ASSUME CallsAssumption ==
  /\ Bocs \subseteq Sends
  /\ Sends \cap Signs = {}
  /\ Ops \cap Resolvers = {}
  /\ Forced \subseteq Ops
  /\ Home \in [Calls -> Clients]
  /\ Nobody \notin Calls

ASSUME NumbersAssumption ==
  /\ Validity \in Nat
  /\ Margin \in Nat
  /\ Expirations \subseteq Nat
  /\ TimeLag \in Nat
  /\ IndexLag \in Nat
  /\ MaxTime \in Nat
  /\ MaxSeqno \in Nat
  /\ MaxDisruptions \in Nat

\* The operator's configuration: the margin covers the delay of the indexer.
ASSUME MarginCoversIndexLag == IndexLag <= Margin

VARIABLES
  journal,   \* the "outgoing-transfer" slot of the host's durable journal
  (* the State of each client, as far as sends are concerned *)
  mode,                \* closing and shutdown
  active_send,         \* the operation that holds the send slot
  active_resolution,   \* the resolver that holds the resolution slot
  send_commit_started, \* the clients that have this flag set
  snap,                \* snapshot.send
  (* the local variables of each call *)
  pc,        \* where the call is suspended
  stage,     \* the stage of the operation's SendWorkflow
  seen,      \* the journal record the call builds on
  prior,     \* the operation whose fate it inspects
  time,      \* sync_utime of the account it has read
  observed,  \* the calls that have pending_observed set
  verdict,   \* the resolution it has decided on
  tries,     \* the attempt of persist_send_resolution
  (* messages and the chain *)
  msg,       \* the seqno and expiration signed into each operation's message
  network,   \* the messages that left the engine for the chain
  executed,  \* the operations whose message the wallet contract executed
  seqno,     \* the wallet contract's seqno
  blockTime, \* when the transaction that consumed each seqno was committed,
             \* forgotten (0) once the indexer has it
  indexed,   \* how many wallet transactions the v3 indexer has seen
  now,       \* the chain's clock
  disruptions

chainVars == <<network, executed, seqno, blockTime, indexed, now>>
clientVars ==
  <<mode, active_send, active_resolution, send_commit_started, snap>>
locals == <<seen, prior, time, observed, verdict, tries>>
vars ==
  <<journal, clientVars, pc, stage, locals, msg, chainVars, disruptions>>

-----------------------------------------------------------------------------
(* Types *)

Phase == {public_phase(s) : s \in SendStage} \cup {"Idle"}
Evidence == {"Confirmed", "Replaced", "SequenceNumberConsumed", "Expired"}
Verdict == Evidence \cup {"StillPending"}

\* Version 0 stands for an absent record: versions start at 1.
JournalRecord ==
  [version : Nat, op : Ops \cup {Nobody}, stage : SendStage \cup {NoStage}]
NoRecord == [version |-> 0, op |-> Nobody, stage |-> NoStage]

Snapshot == [op : Ops \cup {Nobody}, phase : Phase]
NewSnapshot == [op |-> Nobody, phase |-> "Idle"]

EarlyPc == {"load", "account", "journal_loaded", "seqno", "secret", "prepared"}
EvidencePc == {"executed", "pending", "wallet_seqno", "recheck"}
CommittedPc == {"commit", "submit", "reply", "terminal", "handoff"}
Pc == {"idle", "done", "persist", "conclude"}
        \cup EarlyPc \cup EvidencePc \cup CommittedPc

Message == [seqno : Nat, validUntil : Nat]

-----------------------------------------------------------------------------
(* The chain and its providers, as the engine sees them *)

\* The wallet contract accepts a message once, at its seqno and in its time.
Acceptable(k) == msg[k].seqno = seqno /\ now <= msg[k].validUntil

\* Once true of a message, it can never execute from then on.
Dead(k) == msg[k].seqno < seqno \/ now > msg[k].validUntil

\* transactionsByMessage: the message's transaction is in the index.
Indexed(k) == k \in executed /\ msg[k].seqno < indexed

\* pendingTransactions may show a message only while it can still execute.
InMempool(k) == k \in network \ executed /\ ~Dead(k)

\* getAddressInformation: a synchronization time that is at most now.
SyncTimes == {t \in 0..now : now - t <= TimeLag}

Disrupt == disruptions < MaxDisruptions /\ disruptions' = disruptions + 1

-----------------------------------------------------------------------------
(* Steps shared by the calls *)

IsCurrent(k) ==
  IF k \in Resolvers THEN active_resolution[Home[k]] = k
                     ELSE active_send[Home[k]] = k

Goto(k, next) == pc' = [pc EXCEPT ![k] = next]

\* The future completes; a resolver can be called again.
Return(k) ==
  /\ Goto(k, IF k \in Resolvers THEN "idle" ELSE "done")
  /\ seen' = [seen EXCEPT ![k] = NoRecord]
  /\ prior' = [prior EXCEPT ![k] = Nobody]
  /\ time' = [time EXCEPT ![k] = 0]
  /\ observed' = observed \ {k}
  /\ verdict' = [verdict EXCEPT ![k] = "StillPending"]
  /\ tries' = [tries EXCEPT ![k] = 1]

Publish(c, op, phase) ==
  snap' = [snap EXCEPT ![c] = [op |-> op, phase |-> phase]]

publish_send_workflow(k, s) ==
  /\ stage' = [stage EXCEPT ![k] = s]
  /\ Publish(Home[k], k, public_phase(s))
  /\ UNCHANGED <<mode, active_send, active_resolution, send_commit_started>>

EndSend(c) ==
  /\ active_send' = [active_send EXCEPT ![c] = Nobody]
  /\ send_commit_started' = send_commit_started \ {c}

EndResolution(c) ==
  active_resolution' = [active_resolution EXCEPT ![c] = Nobody]

\* fail_send and mark_send_unknown: end the active send in a given phase.
ReleaseSend(k, phase) ==
  /\ EndSend(Home[k])
  /\ Publish(Home[k], snap[Home[k]].op, phase)
  /\ UNCHANGED <<mode, active_resolution>>

\* resolution_failed_error and send_failed_error: only a current call changes
\* the client.
FailCall(k) ==
  IF ~IsCurrent(k) THEN UNCHANGED clientVars
  ELSE IF k \in Resolvers
       THEN /\ EndResolution(Home[k])
            /\ UNCHANGED <<mode, active_send, send_commit_started, snap>>
       ELSE ReleaseSend(k, "Failed")

next_journal_version(v) == v + 1

\* Mutant: a handed-off message counts as finished.
PendingUntilTerminal(r) == r.version > 0 /\ ~is_terminal(r.stage)

\* pending_send_record: a record that still blocks another signature.
PendingRecord(r) == r.version > 0 /\ ~permits_replacement(r.stage)

\* The host's compare_exchange_journal, when it applies.
CompareExchange(expected, op, s) ==
  /\ journal.version = expected.version
  /\ journal' = [version |-> next_journal_version(expected.version),
                 op |-> op, stage |-> s]

\* A host error leaves open whether the exchange was applied.
AmbiguousExchange(expected, op, s) ==
  /\ Disrupt
  /\ \/ CompareExchange(expected, op, s)
     \/ UNCHANGED journal

-----------------------------------------------------------------------------
(* Reading the journal and the account *)

SlotsFree(c) ==
  mode[c] = "running" /\ active_send[c] = Nobody /\ active_resolution[c] = Nobody

\* send, send_boc, sign_message: claim the single-flight slot.
StartSend(k) ==
  /\ pc[k] = "idle"
  /\ SlotsFree(Home[k])
  /\ active_send' = [active_send EXCEPT ![Home[k]] = k]
  /\ send_commit_started' = send_commit_started \ {Home[k]}
  /\ stage' = [stage EXCEPT ![k] = transition("Validating", "Begin")]
  /\ Publish(Home[k], k, public_phase(transition("Validating", "Begin")))
  /\ Goto(k, "load")
  /\ UNCHANGED <<journal, mode, active_resolution, locals, msg, chainVars,
                 disruptions>>

\* resolve_pending: claim the resolution slot.
StartResolve(k) ==
  /\ pc[k] = "idle"
  /\ SlotsFree(Home[k])
  /\ active_resolution' = [active_resolution EXCEPT ![Home[k]] = k]
  /\ Goto(k, "load")
  /\ UNCHANGED <<journal, mode, active_send, send_commit_started, snap, stage,
                 locals, msg, chainVars, disruptions>>

\* load_journal, for an operation or for a resolver that finds pending work.
LoadJournal(k) ==
  /\ pc[k] = "load"
  /\ IsCurrent(k)
  /\ k \in Resolvers => PendingRecord(journal)
  /\ seen' = [seen EXCEPT ![k] = journal]
  /\ prior' = [prior EXCEPT ![k] = journal.op]
  /\ Goto(k, "account")
  /\ UNCHANGED <<journal, clientVars, stage, time, observed, verdict, tries, msg,
                 chainVars, disruptions>>

\* resolve_pending on an absent or settled record: publish what it says.
NothingPending(k) ==
  /\ pc[k] = "load"
  /\ IsCurrent(k)
  /\ k \in Resolvers
  /\ ~PendingRecord(journal)
  /\ EndResolution(Home[k])
  /\ IF journal.version = 0 THEN UNCHANGED snap
     ELSE Publish(Home[k], journal.op, public_phase(journal.stage))
  /\ Return(k)
  /\ UNCHANGED <<journal, mode, active_send, send_commit_started, stage, msg,
                 chainVars, disruptions>>

\* Mutant: a record that was not yet submitted counts as replaceable.
ReplaceUnsubmitted(k) ==
  PendingRecord(seen[k]) /\ seen[k].stage # "ReadyToSubmit" /\ k \notin Forced

\* Whether the call has to establish the fate of the record it has seen.
MustResolve(k) ==
  /\ PendingRecord(seen[k])
  /\ ~(k \in Forced /\ permits_forced_replacement(seen[k].stage))

\* The fresh account gives the provider's time before any evidence is read.
\* The evidence differs for external and for internal messages.
ReadAccount(k) ==
  /\ pc[k] = "account"
  /\ IsCurrent(k)
  /\ \E t \in SyncTimes : time' = [time EXCEPT ![k] = t]
  /\ Goto(k, IF ~MustResolve(k) THEN "journal_loaded"
             ELSE IF prior[k] \in Signs THEN "wallet_seqno"
             ELSE "executed")
  /\ UNCHANGED <<journal, clientVars, stage, seen, prior, observed, verdict,
                 tries, msg, chainVars, disruptions>>

-----------------------------------------------------------------------------
(* resolve_pending_with_owner: evidence, from strongest to weakest *)

Decide(k, v) ==
  /\ verdict' = [verdict EXCEPT ![k] = v]
  /\ Goto(k, IF v \in Evidence THEN "persist" ELSE "conclude")

LookupExecuted(k) ==
  /\ pc[k] = "executed"
  /\ IsCurrent(k)
  /\ IF Indexed(prior[k])
     THEN Decide(k, "Confirmed")
     ELSE Goto(k, "pending") /\ UNCHANGED verdict
  /\ UNCHANGED <<journal, clientVars, stage, seen, prior, time, observed, tries,
                 msg, chainVars, disruptions>>

\* Mutant: the absence of the message is not remembered.
LookupUnobserved(k) ==
  /\ pc[k] = "pending"
  /\ IsCurrent(k)
  /\ IF InMempool(prior[k]) THEN Decide(k, "StillPending")
     ELSE Goto(k, "wallet_seqno") /\ UNCHANGED verdict
  /\ UNCHANGED <<journal, clientVars, stage, seen, prior, time, observed, tries,
                 msg, chainVars, disruptions>>

\* A message in the mempool is pending.  An absent one, or a provider without
\* the endpoint (404, 405), counts as observed; any other failure does not.
LookupPending(k) ==
  /\ pc[k] = "pending"
  /\ IsCurrent(k)
  /\ \/ /\ InMempool(prior[k])
        /\ Decide(k, "StillPending")
        /\ UNCHANGED <<observed, disruptions>>
     \/ /\ observed' = observed \cup {k}
        /\ Goto(k, "wallet_seqno")
        /\ UNCHANGED <<verdict, disruptions>>
     \/ /\ Disrupt
        /\ observed' = observed \ {k}
        /\ Goto(k, "wallet_seqno")
        /\ UNCHANGED verdict
  /\ UNCHANGED <<journal, clientVars, stage, seen, prior, time, tries, msg,
                 chainVars>>

\* Mutant: the margin for the indexer is left out.
window_without_margin(provider_time, valid_until) == provider_time > valid_until

resolution_window_expired(provider_time, valid_until) ==
  provider_time > valid_until + Margin

\* Mutant: an off-by-one in the comparison of seqnos.
ConsumeOwnSeqno(k) ==
  LET p == prior[k]
      expired == resolution_window_expired(time[k], msg[p].validUntil)
  IN /\ pc[k] = "wallet_seqno"
     /\ IsCurrent(k)
     /\ IF indexed >= msg[p].seqno
        THEN IF p \in Signs THEN Decide(k, "SequenceNumberConsumed")
             ELSE Goto(k, "recheck") /\ UNCHANGED verdict
        ELSE Decide(k, IF expired /\ (p \in Signs \/ k \in observed)
                       THEN "Expired" ELSE "StillPending")
     /\ UNCHANGED <<journal, clientVars, stage, seen, prior, time, observed,
                    tries, msg, chainVars, disruptions>>

\* What the indexed wallet seqno decides about the inspected message.
LookupWalletSeqno(k) ==
  LET p == prior[k]
      expired == resolution_window_expired(time[k], msg[p].validUntil)
  IN /\ pc[k] = "wallet_seqno"
     /\ IsCurrent(k)
     /\ IF indexed > msg[p].seqno
        THEN IF p \in Signs THEN Decide(k, "SequenceNumberConsumed")
             ELSE Goto(k, "recheck") /\ UNCHANGED verdict
        ELSE Decide(k, IF expired /\ (p \in Signs \/ k \in observed)
                       THEN "Expired" ELSE "StillPending")
     /\ UNCHANGED <<journal, clientVars, stage, seen, prior, time, observed,
                    tries, msg, chainVars, disruptions>>

\* The transaction and the seqno are separate index snapshots: look again.
RecheckExecuted(k) ==
  /\ pc[k] = "recheck"
  /\ IsCurrent(k)
  /\ Decide(k, IF Indexed(prior[k]) THEN "Confirmed" ELSE "Replaced")
  /\ UNCHANGED <<journal, clientVars, stage, seen, prior, time, observed, tries,
                 msg, chainVars, disruptions>>

-----------------------------------------------------------------------------
(* persist_send_resolution *)

\* The exchange is issued even if the call was superseded since its last
\* request.
ResolutionApplied(k) ==
  /\ pc[k] = "persist"
  /\ CompareExchange(seen[k], prior[k], verdict[k])
  /\ seen' = [seen EXCEPT ![k] = journal']
  /\ Goto(k, "conclude")
  /\ UNCHANGED <<clientVars, stage, prior, time, observed, verdict, tries, msg,
                 chainVars, disruptions>>

\* The exchange conflicts with the record another writer left.
Conflict(k) ==
  /\ pc[k] = "persist"
  /\ journal.version # seen[k].version
  /\ UNCHANGED <<journal, stage, msg, chainVars, disruptions>>

SamePending(k) == PendingRecord(journal) /\ journal.op = prior[k]

\* Adopt terminal evidence ...
AdoptResolution(k) ==
  /\ Conflict(k)
  /\ IsCurrent(k)
  /\ journal.stage \in Evidence
  /\ verdict' = [verdict EXCEPT ![k] = journal.stage]
  /\ seen' = [seen EXCEPT ![k] = journal]
  /\ Goto(k, "conclude")
  /\ UNCHANGED <<clientVars, prior, time, observed, tries>>

\* Mutant: the retry keeps the version that has just conflicted.
RetryStale(k) ==
  /\ Conflict(k)
  /\ IsCurrent(k)
  /\ SamePending(k)
  /\ tries[k] < 3
  /\ tries' = [tries EXCEPT ![k] = @ + 1]
  /\ UNCHANGED <<clientVars, pc, seen, prior, time, observed, verdict>>

\* ... retry on a newer record of the same message ...
RetryResolution(k) ==
  /\ Conflict(k)
  /\ IsCurrent(k)
  /\ SamePending(k)
  /\ tries[k] < 3
  /\ seen' = [seen EXCEPT ![k] = journal]
  /\ tries' = [tries EXCEPT ![k] = @ + 1]
  /\ UNCHANGED <<clientVars, pc, prior, time, observed, verdict>>

\* ... or give up.
AbandonResolution(k) ==
  /\ Conflict(k)
  /\ IsCurrent(k) =>
       /\ journal.stage \notin Evidence
       /\ ~(SamePending(k) /\ tries[k] < 3)
  /\ FailCall(k)
  /\ Return(k)

ResolutionHostError(k) ==
  /\ pc[k] = "persist"
  /\ AmbiguousExchange(seen[k], prior[k], verdict[k])
  /\ FailCall(k)
  /\ Return(k)
  /\ UNCHANGED <<stage, msg, chainVars>>

\* PendingSendRecord::snapshot of the inspected operation.
PublishPrior(k) ==
  Publish(Home[k], prior[k],
    public_phase(IF verdict[k] = "StillPending" THEN seen[k].stage ELSE verdict[k]))

\* publish_prior_send_resolution: the send goes on from a settled record.
ConcludeForSend(k) ==
  /\ pc[k] = "conclude"
  /\ IsCurrent(k)
  /\ k \in Ops
  /\ verdict[k] \in Evidence
  /\ PublishPrior(k)
  /\ Goto(k, "journal_loaded")
  /\ UNCHANGED <<journal, mode, active_send, active_resolution,
                 send_commit_started, stage, locals, msg, chainVars, disruptions>>

\* complete_standalone_resolution, or block_send_for_pending.
ConcludeCall(k) ==
  /\ pc[k] = "conclude"
  /\ IsCurrent(k)
  /\ k \in Ops => verdict[k] \notin Evidence
  /\ PublishPrior(k)
  /\ IF k \in Resolvers
     THEN EndResolution(Home[k]) /\ UNCHANGED <<active_send, send_commit_started>>
     ELSE EndSend(Home[k]) /\ UNCHANGED active_resolution
  /\ Return(k)
  /\ UNCHANGED <<journal, mode, stage, msg, chainVars, disruptions>>

-----------------------------------------------------------------------------
(* Signing a fresh message *)

\* journal_loaded: the slot is absent, settled, or overridden by `force`.
JournalLoaded(k) ==
  /\ pc[k] = "journal_loaded"
  /\ IsCurrent(k)
  /\ ~MustResolve(k)
  /\ publish_send_workflow(k, transition(stage[k], "JournalLoaded"))
  /\ prior' = [prior EXCEPT ![k] = Nobody]
  /\ observed' = observed \ {k}
  /\ verdict' = [verdict EXCEPT ![k] = "StillPending"]
  /\ tries' = [tries EXCEPT ![k] = 1]
  /\ Goto(k, "seqno")
  /\ UNCHANGED <<journal, seen, time, msg, chainVars, disruptions>>

\* resolve_send_expiration: the default counts from the provider's time, an
\* exact expiration must be after it.
SendExpirations(t) ==
  {t + Validity} \cup {e \in Expirations : e > t}

\* The v2 provider's seqno, possibly stale, and the expiration fix what is
\* signed.  A caller-signed message must carry exactly these values and needs
\* no authorization.
FetchSeqno(k) ==
  /\ pc[k] = "seqno"
  /\ IsCurrent(k)
  /\ \E s \in 0..seqno, e \in SendExpirations(time[k]) :
       msg' = [msg EXCEPT ![k] = [seqno |-> s, validUntil |-> e]]
  /\ IF k \in Bocs
     THEN /\ publish_send_workflow(k, transition(
               transition(stage[k], "PreparedAccountLoaded"),
               "TransferPrepared"))
          /\ Goto(k, "prepared")
     ELSE /\ publish_send_workflow(k, transition(stage[k], "FreshAccountLoaded"))
          /\ Goto(k, "secret")
  /\ time' = [time EXCEPT ![k] = 0]
  /\ UNCHANGED <<journal, seen, prior, observed, verdict, tries, chainVars,
                 disruptions>>

\* read_protected_secret, authorization_succeeded and transfer_prepared.
ReadSecret(k) ==
  /\ pc[k] = "secret"
  /\ IsCurrent(k)
  /\ publish_send_workflow(k, transition(
       transition(stage[k], "AuthorizationSucceeded"), "TransferPrepared"))
  /\ Goto(k, "prepared")
  /\ UNCHANGED <<journal, locals, msg, chainVars, disruptions>>

\* Any host or provider call before the commit boundary can fail, and so can
\* the checks on its answer (balance, account state, mnemonic).
HostFailure(k) ==
  /\ pc[k] \in {"load", "account", "seqno", "secret",
                "executed", "wallet_seqno", "recheck"}
  /\ IsCurrent(k)
  /\ Disrupt
  /\ FailCall(k)
  /\ Return(k)
  /\ UNCHANGED <<journal, stage, msg, chainVars>>

\* A call that lost its slot ends at its next check without any effect.
LateResult(k) ==
  /\ pc[k] \in EarlyPc \cup EvidencePc \cup {"conclude"}
  /\ ~IsCurrent(k)
  /\ Return(k)
  /\ UNCHANGED <<journal, clientVars, stage, msg, chainVars, disruptions>>

-----------------------------------------------------------------------------
(* submit_prepared_send, and the hand-off of sign_message *)

begin_send_commit(k) ==
  /\ pc[k] = "prepared"
  /\ IsCurrent(k)
  /\ send_commit_started' = send_commit_started \cup {Home[k]}
  /\ Goto(k, "commit")
  /\ UNCHANGED <<journal, mode, active_send, active_resolution, snap, stage,
                 locals, msg, chainVars, disruptions>>

PreparedStage(k) == durable_stage(stage[k], k \in Signs)

\* Mutant: the prepared record replaces whatever the slot holds by now.
PreparedOverwrites(k) ==
  /\ pc[k] = "commit"
  /\ CompareExchange(journal, k, PreparedStage(k))
  /\ seen' = [seen EXCEPT ![k] = journal']
  /\ stage' = [stage EXCEPT ![k] = transition(@,
       IF k \in Signs THEN "InternalMessageJournalPersisted"
                      ELSE "PreparedJournalPersisted")]
  /\ Goto(k, IF k \in Signs THEN "handoff" ELSE "submit")
  /\ UNCHANGED <<clientVars, prior, time, observed, verdict, tries, msg,
                 chainVars, disruptions>>

\* The exact signed message becomes durable before it can leave the engine.
PreparedApplied(k) ==
  /\ pc[k] = "commit"
  /\ CompareExchange(seen[k], k, PreparedStage(k))
  /\ seen' = [seen EXCEPT ![k] = journal']
  /\ stage' = [stage EXCEPT ![k] = transition(@,
       IF k \in Signs THEN "InternalMessageJournalPersisted"
                      ELSE "PreparedJournalPersisted")]
  /\ Goto(k, IF k \in Signs THEN "handoff" ELSE "submit")
  /\ UNCHANGED <<clientVars, prior, time, observed, verdict, tries, msg,
                 chainVars, disruptions>>

\* Another writer changed the slot: the signed message is dropped.
PreparedConflict(k) ==
  /\ pc[k] = "commit"
  /\ journal.version # seen[k].version
  /\ stage' = [stage EXCEPT ![k] = transition(@, "JournalConflict")]
  /\ ReleaseSend(k, "Failed")
  /\ Return(k)
  /\ UNCHANGED <<journal, msg, chainVars, disruptions>>

PreparedHostError(k) ==
  /\ pc[k] = "commit"
  /\ AmbiguousExchange(seen[k], k, PreparedStage(k))
  /\ ReleaseSend(k, "SubmissionUnknown")
  /\ Return(k)
  /\ UNCHANGED <<stage, msg, chainVars>>

\* The submit request may or may not reach the network.
Submit(k) ==
  /\ pc[k] = "submit"
  /\ publish_send_workflow(k, transition(stage[k], "SubmissionStarted"))
  /\ network' \in {network, network \cup {k}}
  /\ Goto(k, "reply")
  /\ UNCHANGED <<journal, locals, msg, executed, seqno, blockTime, indexed, now,
                 disruptions>>

\* Mutant: a transport failure is taken for a rejection.
RepliesWithTimeout(k) == {"SubmissionRejected", "SubmissionSucceeded"}

\* An explicit rejection means the message was not taken; an acceptance that
\* it was; any other outcome says nothing.
Replies(k) ==
  {"SubmissionUnknown"} \cup
    IF k \in network THEN {"SubmissionSucceeded"} ELSE {"SubmissionRejected"}

ReceiveReply(k) ==
  /\ pc[k] = "reply"
  /\ \E e \in Replies(k) : publish_send_workflow(k, transition(stage[k], e))
  /\ Goto(k, "terminal")
  /\ UNCHANGED <<journal, locals, msg, chainVars, disruptions>>

\* Mutant: the outcome replaces what a resolver has recorded meanwhile.
TerminalOverwrites(k) ==
  /\ pc[k] = "terminal"
  /\ CompareExchange(journal, k, stage[k])
  /\ ReleaseSend(k, public_phase(stage[k]))
  /\ Return(k)
  /\ UNCHANGED <<stage, msg, chainVars, disruptions>>

TerminalApplied(k) ==
  /\ pc[k] = "terminal"
  /\ CompareExchange(seen[k], k, stage[k])
  /\ ReleaseSend(k, public_phase(stage[k]))
  /\ Return(k)
  /\ UNCHANGED <<stage, msg, chainVars, disruptions>>

\* A conflict, or a host error, on the record of the outcome.
TerminalNotRecorded(k) ==
  /\ pc[k] = "terminal"
  /\ \/ /\ journal.version # seen[k].version
        /\ UNCHANGED <<journal, disruptions>>
     \/ AmbiguousExchange(seen[k], k, stage[k])
  /\ ReleaseSend(k, "SubmissionUnknown")
  /\ Return(k)
  /\ UNCHANGED <<stage, msg, chainVars>>

\* sign_message returns the durable message to its caller and its relayer.
HandOff(k) ==
  /\ pc[k] = "handoff"
  /\ network' = network \cup {k}
  /\ ReleaseSend(k, public_phase(stage[k]))
  /\ Return(k)
  /\ UNCHANGED <<journal, stage, msg, executed, seqno, blockTime, indexed, now,
                 disruptions>>

-----------------------------------------------------------------------------
(* The client's lifecycle, as far as sends are concerned *)

CancelActive(c) ==
  /\ active_send[c] # Nobody
  /\ EndSend(c)
  /\ Publish(c, active_send[c], "Cancelled")

cancel_send(c) ==
  /\ c \notin send_commit_started
  /\ CancelActive(c)
  /\ UNCHANGED <<journal, mode, active_resolution, pc, stage, locals, msg,
                 chainVars, disruptions>>

\* prepare_shutdown: cancel what is still reversible.
prepare_shutdown(c) ==
  /\ mode' = [mode EXCEPT ![c] = "shutdown"]
  /\ EndSend(c)
  /\ EndResolution(c)
  /\ IF active_send[c] = Nobody THEN UNCHANGED snap
     ELSE Publish(c, active_send[c], "Cancelled")

CommitInFlight(c) == active_send[c] # Nobody /\ c \in send_commit_started

\* shutdown refuses new work and finishes at once, unless a send has passed
\* its commit boundary ...
BeginShutdown(c) ==
  /\ mode[c] = "running"
  /\ Disrupt
  /\ IF CommitInFlight(c)
     THEN /\ mode' = [mode EXCEPT ![c] = "closing"]
          /\ UNCHANGED <<active_send, active_resolution, send_commit_started,
                         snap>>
     ELSE prepare_shutdown(c)
  /\ UNCHANGED <<journal, pc, stage, locals, msg, chainVars>>

\* ... for which it waits.
FinishShutdown(c) ==
  /\ mode[c] = "closing"
  /\ ~CommitInFlight(c)
  /\ prepare_shutdown(c)
  /\ UNCHANGED <<journal, pc, stage, locals, msg, chainVars, disruptions>>

\* A new State: with_transport.
NewState(c) ==
  /\ mode' = [mode EXCEPT ![c] = "running"]
  /\ EndSend(c)
  /\ EndResolution(c)
  /\ Publish(c, Nobody, "Idle")

\* The application opens the record again.
Reopen(c) ==
  /\ mode[c] = "shutdown"
  /\ \A k \in Calls : Home[k] = c => pc[k] \in {"idle", "done"}
  /\ NewState(c)
  /\ UNCHANGED <<journal, pc, stage, locals, msg, chainVars, disruptions>>

\* The process dies between two steps and starts again with an empty State.
Crash(c) ==
  /\ Disrupt
  /\ NewState(c)
  /\ pc' = [k \in Calls |->
       IF Home[k] # c \/ pc[k] \in {"idle", "done"} THEN pc[k]
       ELSE IF k \in Resolvers THEN "idle" ELSE "done"]
  /\ seen' = [k \in Calls |-> IF Home[k] = c THEN NoRecord ELSE seen[k]]
  /\ prior' = [k \in Calls |-> IF Home[k] = c THEN Nobody ELSE prior[k]]
  /\ time' = [k \in Calls |-> IF Home[k] = c THEN 0 ELSE time[k]]
  /\ observed' = {k \in observed : Home[k] # c}
  /\ verdict' = [k \in Calls |-> IF Home[k] = c THEN "StillPending" ELSE verdict[k]]
  /\ tries' = [k \in Calls |-> IF Home[k] = c THEN 1 ELSE tries[k]]
  /\ UNCHANGED <<journal, stage, msg, chainVars>>

-----------------------------------------------------------------------------
(* The chain (external) *)

Commit ==
  /\ seqno < MaxSeqno
  /\ seqno' = seqno + 1
  /\ blockTime' = [blockTime EXCEPT ![seqno] = now]

Execute(k) ==
  /\ k \in network \ executed
  /\ Acceptable(k)
  /\ Commit
  /\ executed' = executed \cup {k}
  /\ UNCHANGED <<journal, clientVars, pc, stage, locals, msg, network, indexed, now,
                 disruptions>>

\* Another device that holds the same mnemonic uses the wallet.
ExecuteForeign ==
  /\ Commit
  /\ UNCHANGED <<journal, clientVars, pc, stage, locals, msg, network, executed,
                 indexed, now, disruptions>>

Index ==
  /\ indexed < seqno
  /\ indexed' = indexed + 1
  /\ blockTime' = [blockTime EXCEPT ![indexed] = 0]
  /\ UNCHANGED <<journal, clientVars, pc, stage, locals, msg, network, executed,
                 seqno, now, disruptions>>

\* Time passes while the indexer keeps within its lag.
Tick ==
  /\ now < MaxTime
  /\ \A i \in indexed..(seqno - 1) : now + 1 <= blockTime[i] + IndexLag
  /\ now' = now + 1
  /\ UNCHANGED <<journal, clientVars, pc, stage, locals, msg, network, executed,
                 seqno, blockTime, indexed, disruptions>>

-----------------------------------------------------------------------------
(* The specification *)

Init ==
  /\ journal = NoRecord
  /\ mode = [c \in Clients |-> "running"]
  /\ active_send = [c \in Clients |-> Nobody]
  /\ active_resolution = [c \in Clients |-> Nobody]
  /\ send_commit_started = {}
  /\ snap = [c \in Clients |-> NewSnapshot]
  /\ pc = [k \in Calls |-> "idle"]
  /\ stage = [k \in Ops |-> "Validating"]
  /\ seen = [k \in Calls |-> NoRecord]
  /\ prior = [k \in Calls |-> Nobody]
  /\ time = [k \in Calls |-> 0]
  /\ observed = {}
  /\ verdict = [k \in Calls |-> "StillPending"]
  /\ tries = [k \in Calls |-> 1]
  /\ msg = [k \in Ops |-> [seqno |-> 0, validUntil |-> 0]]
  /\ network = {}
  /\ executed = {}
  /\ seqno = 0
  /\ blockTime = [i \in 0..(MaxSeqno - 1) |-> 0]
  /\ indexed = 0
  /\ now = 0
  /\ disruptions = 0

\* The steps of a call that an operation and a resolver have in common.
ResolutionStep(k) ==
  \/ LoadJournal(k) \/ ReadAccount(k)
  \/ LookupExecuted(k) \/ LookupPending(k) \/ LookupWalletSeqno(k)
  \/ RecheckExecuted(k)
  \/ ResolutionApplied(k) \/ AdoptResolution(k) \/ RetryResolution(k)
  \/ AbandonResolution(k) \/ ResolutionHostError(k)
  \/ ConcludeForSend(k) \/ ConcludeCall(k) \/ HostFailure(k) \/ LateResult(k)

SendStep(k) ==
  \/ JournalLoaded(k) \/ FetchSeqno(k) \/ ReadSecret(k)
  \/ begin_send_commit(k)
  \/ PreparedApplied(k) \/ PreparedConflict(k) \/ PreparedHostError(k)
  \/ Submit(k) \/ ReceiveReply(k)
  \/ TerminalApplied(k) \/ TerminalNotRecorded(k) \/ HandOff(k)

ClientStep(c) ==
  \/ cancel_send(c) \/ BeginShutdown(c) \/ FinishShutdown(c)
  \/ Reopen(c) \/ Crash(c)

ChainStep ==
  \/ \E k \in Ops : Execute(k)
  \/ ExecuteForeign \/ Index \/ Tick

Next ==
  \/ \E k \in Ops : StartSend(k) \/ SendStep(k)
  \/ \E k \in Resolvers : StartResolve(k) \/ NothingPending(k)
  \/ \E k \in Calls : ResolutionStep(k)
  \/ \E c \in Clients : ClientStep(c)
  \/ ChainStep

Spec == Init /\ [][Next]_vars

\* Every future is polled until it completes, the host keeps calling
\* resolve_pending and reopens a closed record, time passes, and the indexer
\* follows the chain.  Starting sends, cancelling, closing, crashing and
\* executing are never forced.
Fairness ==
  /\ \A k \in Calls : WF_vars(ResolutionStep(k))
  /\ \A k \in Ops : WF_vars(SendStep(k))
  /\ \A k \in Resolvers : WF_vars(StartResolve(k)) /\ WF_vars(NothingPending(k))
  /\ \A c \in Clients : WF_vars(FinishShutdown(c)) /\ WF_vars(Reopen(c))
  /\ WF_vars(Index) /\ WF_vars(Tick)

FairSpec == Spec /\ Fairness

-----------------------------------------------------------------------------
(* Properties *)

ClientTypes ==
  /\ mode \in [Clients -> {"running", "closing", "shutdown"}]
  /\ active_send \in [Clients -> Ops \cup {Nobody}]
  /\ active_resolution \in [Clients -> Resolvers \cup {Nobody}]
  /\ send_commit_started \subseteq Clients
  /\ snap \in [Clients -> Snapshot]

CallTypes ==
  /\ pc \in [Calls -> Pc]
  /\ seen \in [Calls -> JournalRecord]
  /\ prior \in [Calls -> Ops \cup {Nobody}]
  /\ time \in [Calls -> Nat]
  /\ observed \subseteq Calls
  /\ verdict \in [Calls -> Verdict]
  /\ tries \in [Calls -> 1..3]

ChainTypes ==
  /\ network \subseteq Ops
  /\ executed \subseteq network
  /\ seqno \in 0..MaxSeqno
  /\ blockTime \in [0..(MaxSeqno - 1) -> Nat]
  /\ indexed \in 0..seqno
  /\ now \in 0..MaxTime

\* The variables stay within their types: the durable record, the client
\* slots, the futures and the chain.
TypeOK ==
  /\ journal \in JournalRecord
  /\ ClientTypes
  /\ CallTypes
  /\ stage \in [Ops -> SendStage]
  /\ msg \in [Ops -> Message]
  /\ ChainTypes
  /\ disruptions \in 0..MaxDisruptions

\* The engine still holds the message back and will never let it go.
Withheld(k) ==
  /\ k \notin network
  /\ \/ pc[k] \in {"terminal", "done"}
     \/ pc[k] \notin CommittedPc /\ ~IsCurrent(k)

CannotExecute(k) == Dead(k) \/ Withheld(k)

\* What a settled phase or stage claims about the operation's message.
Claim(k, s) ==
  /\ s = "Confirmed" => k \in executed
  /\ s \in {"Replaced", "Expired", "Failed", "Cancelled"} =>
       k \notin executed /\ CannotExecute(k)
  /\ s = "SequenceNumberConsumed" => Dead(k)

\* A durable conclusion is true for good: a record concluded Confirmed was
\* executed; one concluded Replaced, Expired or Failed was not and never will
\* be, although provider time, transactions and seqno come from separate
\* requests to two services, one of which lags (resolve_pending_with_owner).
JournalIsTrue == journal.version > 0 => Claim(journal.op, journal.stage)

\* The same of the phase each client shows for its current or last send,
\* cancellation included (SendSnapshot).
SnapshotIsTrue ==
  \A c \in Clients :
    snap[c].op # Nobody => Claim(snap[c].op, snap[c].phase)

\* The journal gives its slot to another message only if the one it held can
\* no longer execute, or the caller set `force` (journal_loaded).
ReplacementIsSafe ==
  [][ journal'.op # journal.op /\ journal.version > 0 =>
        \/ journal'.op \in Forced
        \/ journal.op \in executed
        \/ CannotExecute(journal.op) ]_vars

\* Without `force`, a message that can still execute is the one the journal
\* holds as pending: a crash never loses track of it and nothing else is
\* signed beside it (submit_prepared_send, sign_message).
LiveMessageIsRecorded ==
  Forced = {} =>
    \A k \in network \ executed :
      Dead(k) \/ (journal.op = k /\ PendingRecord(journal))

\* A settled record is never rewritten for the same operation, whoever wins
\* the compare-and-swap (persist_send_resolution, terminal_mutation).
EvidenceIsFinal ==
  [][ journal.stage \in SettledStage /\ journal'.op = journal.op =>
        journal' = journal ]_vars

\* From begin_send_commit on, neither cancel_send nor shutdown takes the slot
\* from the send: it ends by itself or with its process.
CommittedSendKeepsSlot ==
  \A k \in Ops :
    pc[k] \in CommittedPc => IsCurrent(k) /\ Home[k] \in send_commit_started

\* The Kani harness only_resolved_terminal_stages_permit_replacement, of the
\* durable record: every terminal stage but SubmissionUnknown and Submitted
\* permits a replacement (SendStage::permits_replacement).
TerminalPermitsReplacement ==
  is_terminal(journal.stage)
    /\ journal.stage \notin {"SubmissionUnknown", "Submitted"}
    => permits_replacement(journal.stage)

\* The documentation of shutdown: if a send crossed its commit boundary,
\* shutdown waits until its journal record is terminal (prepare_shutdown).
ShutdownAwaitsTerminal ==
  [][ \A c \in Clients :
        /\ mode[c] = "closing" /\ c \in send_commit_started
        /\ mode'[c] = "closing" /\ c \notin send_commit_started'
        /\ journal'.op = active_send[c]
        => is_terminal(journal'.stage) ]_vars

\* The loop of persist_send_resolution never runs out of attempts: a record
\* changes at most once while it is pending.
RetriesSuffice == \A k \in Calls : tries[k] < 3

\* A pending record whose window passes within the bound of the clock is
\* settled in the end: time and the indexer's progress always yield evidence
\* that resolve_pending accepts (resolve_pending_with_owner).
PendingIsSettled ==
  \A k \in Ops :
    /\ journal.op = k
    /\ PendingRecord(journal)
    /\ resolution_window_expired(MaxTime - TimeLag, msg[k].validUntil)
    ~> journal.op # k \/ ~PendingRecord(journal)

\* shutdown ends: a committed send cannot hold it up for ever (prepare_shutdown,
\* which waits for the send to clear send_commit_started).
ShutdownEnds ==
  \A c \in Clients : mode[c] = "closing" ~> mode[c] # "closing"
=============================================================================
