--------------------------- MODULE WalletSendInv ----------------------------
(***************************************************************************)
(* The inductive invariant of WalletSend, part by part.  None of the parts *)
(* is a property a user asks for; together they imply those properties and *)
(* are preserved by every step.                                            *)
(***************************************************************************)
EXTENDS WalletSend

\* The operation's record was written: its message no longer changes.
RecordedPc == {"submit", "reply", "terminal", "handoff", "done"}

ResolvingPc == EvidencePc \cup {"persist"}

\* Resolvers never sign, so they never leave the resolution part.
ResolverPc ==
  {"idle", "load", "account", "conclude"} \cup ResolvingPc

\* The stage of the workflow is determined by where its future is suspended.
StageOf(k) ==
  /\ pc[k] \in {"load", "account", "journal_loaded", "conclude"}
                 \cup ResolvingPc => stage[k] = "LoadingJournal"
  /\ pc[k] = "seqno" => stage[k] = "FetchingFreshAccount"
  /\ pc[k] = "secret" => stage[k] = "Authorizing"
  /\ pc[k] \in {"prepared", "commit"} => stage[k] = "PersistingPrepared"
  /\ pc[k] = "submit" => stage[k] = "ReadyToSubmit"
  /\ pc[k] = "handoff" => stage[k] = "HandedOff"
  /\ pc[k] = "reply" => stage[k] = "Submitting"
  /\ pc[k] = "terminal" =>
       stage[k] \in {"Submitted", "SubmissionUnknown", "Failed"}

ControlOf(k) ==
  /\ k \in Ops => StageOf(k)
  /\ k \in Resolvers => pc[k] \in ResolverPc
  /\ pc[k] = "handoff" => k \in Signs
  /\ pc[k] \in {"submit", "reply", "terminal"} => k \in Sends

Control == \A k \in Calls : ControlOf(k)

\* A record is absent or that of an operation that has written it.
Recorded(r) ==
  \/ r = NoRecord
  \/ /\ r.version > 0
     /\ r.op \in Ops
     /\ pc[r.op] \in RecordedPc
     /\ r.stage \in PendingStage \cup Evidence \cup {"Failed"}

\* What the slot holds, and what a call has read of it.
Slot == Recorded(journal) /\ \A k \in Calls : Recorded(seen[k])

\* A version identifies a record: versions only grow.
SeenIsPast ==
  \A k \in Calls :
    /\ seen[k].version <= journal.version
    /\ seen[k].version = journal.version => seen[k] = journal

\* A message that left the engine was recorded; a rejected one did not leave.
Custody ==
  /\ \A k \in network : pc[k] \in {"reply", "terminal", "done"}
  /\ \A k \in Ops : pc[k] = "terminal" /\ stage[k] = "Failed" => k \notin network

\* Transactions consume seqnos in time, and the indexer keeps within its lag.
Chain ==
  /\ \A k \in executed : msg[k].seqno < seqno
  /\ \A k \in executed : msg[k].seqno >= indexed =>
       blockTime[msg[k].seqno] <= msg[k].validUntil
  /\ \A i \in indexed..(seqno - 1) : now <= blockTime[i] + IndexLag

\* What the evidence behind a verdict establishes about the message.
Established(p, v) ==
  /\ v = "Confirmed" => p \in executed
  /\ v \in {"Replaced", "Expired"} => p \notin executed /\ Dead(p)
  /\ v = "SequenceNumberConsumed" => Dead(p)

\* A resolving call inspects a pending record, and what it has read so far
\* supports each conclusion it can still reach.
Resolving(k) ==
  LET p == prior[k] IN
  pc[k] \in ResolvingPc =>
    /\ seen[k].op = p
    /\ PendingRecord(seen[k])
    /\ time[k] <= now
    /\ pc[k] \in {"executed", "pending", "recheck"} => p \notin Signs
    /\ /\ pc[k] \in {"pending", "wallet_seqno"}
       /\ p \notin Signs
       /\ resolution_window_expired(time[k], msg[p].validUntil)
       => p \notin executed
    /\ pc[k] = "recheck" => indexed > msg[p].seqno
    /\ pc[k] = "persist" =>
         verdict[k] \in Evidence /\ Established(p, verdict[k])

\* Before and after the evidence: what the call builds on.
Building(k) ==
  /\ pc[k] = "account" =>
       /\ prior[k] = seen[k].op
       /\ k \in Resolvers => PendingRecord(seen[k])
  /\ pc[k] = "conclude" => seen[k].version > 0
  /\ pc[k] = "conclude" /\ verdict[k] \in Evidence =>
       seen[k].stage \in Evidence
  /\ pc[k] \in {"journal_loaded", "seqno", "secret", "prepared", "commit"} =>
       ~MustResolve(k)
  /\ pc[k] \in {"submit", "reply", "terminal", "handoff"} =>
       seen[k].op = k /\ PendingRecord(seen[k])

\* The durable conclusion, in the form the steps preserve.
Concluded ==
  journal.version > 0 =>
    /\ Established(journal.op, journal.stage)
    /\ journal.stage = "Failed" =>
         journal.op \notin network /\ pc[journal.op] = "done"

\* Without `force`, a message that left the engine or is about to is dead or
\* the pending one.
Tracked ==
  Forced = {} =>
    \A k \in Ops :
      (k \in network \ executed \/ pc[k] \in {"submit", "handoff"}) =>
        Dead(k) \/ (journal.op = k /\ PendingRecord(journal))

\* The inductive invariant behind the guarantees of the durable send: every
\* conclusion of the resolver rests on evidence that stays valid while the
\* chain, the indexer and other writers move on (resolve_pending_with_owner,
\* persist_send_resolution, submit_prepared_send).
SendInv ==
  /\ TypeOK
  /\ Control
  /\ Slot
  /\ SeenIsPast
  /\ Custody
  /\ Chain
  /\ \A k \in Calls : Resolving(k) /\ Building(k)
  /\ Concluded
  /\ Tracked
  /\ CommittedSendKeepsSlot
=============================================================================
